----------------------------- MODULE WsSession -----------------------------
(***************************************************************************)
(* What the WebInterface relies on in one of its server's connections:     *)
(* either one HTTP request, or a websocket whose open handler is called    *)
(* once, which then leaves the open state (from then on server_.send       *)
(* throws), and whose close handler is called once after that.             *)
(***************************************************************************)
EXTENDS Sequences

VARIABLES session,  \* "new", "open", "left", or "gone"
          calls     \* the handlers that have been called

vars == <<session, calls>>

Init == session = "new" /\ calls = <<>>

Request ==
    /\ session = "new" /\ calls = <<>>
    /\ calls' = <<"http">>
    /\ UNCHANGED session

Open ==
    /\ session = "new" /\ calls = <<>>
    /\ session' = "open" /\ calls' = <<"open">>

\* A failed handshake, or an HTTP request that has been answered: no handler.
Fail ==
    /\ session = "new"
    /\ session' = "gone"
    /\ UNCHANGED calls

Leave ==
    /\ session = "open"
    /\ session' = "left"
    /\ UNCHANGED calls

Close ==
    /\ session = "left"
    /\ session' = "gone" /\ calls' = Append(calls, "close")

Next == Request \/ Open \/ Fail \/ Leave \/ Close

\* No connection stays in its handshake for ever, and every websocket that has left the
\* open state is reported to be closed, whatever the peer does.
Spec == Init /\ [][Next]_vars /\ WF_vars(Open \/ Fail) /\ WF_vars(Close)
=============================================================================
