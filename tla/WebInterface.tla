---------------------------- MODULE WebInterface ----------------------------
(***************************************************************************)
(* The messages of the class WebInterface (src/src/webinterface.cpp) to    *)
(* its websocket clients: the callbacks, called by whichever thread has    *)
(* PumpControl's callback_client_mutex_ (caller), and the handlers of the  *)
(* server's thread ("web") for opened and closed connections.              *)
(*                                                                         *)
(* connection_mutex_ is held for one insert, one erase or one SendMessage, *)
(* each a single step here; states_mutex_ for one assignment, or by OnOpen *)
(* while it replays the states (web = "replay").                           *)
(*                                                                         *)
(* A websocket that the client closes or that fails is no longer open from *)
(* that moment on, and its close handler is called by a later event of the *)
(* server's thread.  server_.send throws on such a connection.             *)
(***************************************************************************)
EXTENDS Integers, FiniteSets

CONSTANTS Threads,      \* the threads that call back, "web" among them
          Clients,      \* websocket connections
          Keys,         \* the keys of states_
          MaxMessages   \* bound: the number of messages per key

ASSUME WebAssumption ==
    /\ "web" \in Threads
    /\ MaxMessages \in Nat

\* The key of the messages that leave no trace in states_: progress, errors, warnings.
Event == "event"

VARIABLES
    states,       \* states_: the last message of each key, by its number
    connections,  \* connections_
    session,      \* the websocket of each client
    got,          \* the last message of each key that a client has received
    made,         \* how many messages each key has had
    calls,        \* the callback that each thread is in
    caller,       \* the threads that are in callbacks
    web,          \* what the server's thread is doing
    replay,       \* the keys that OnOpen still has to send
    crashed       \* an exception has left a thread

vars == <<states, connections, session, got, made, calls, caller, web, replay, crashed>>

NoCall == [at |-> "none"]
Calls == {NoCall} \cup [at : {"set", "send"}, key : Keys \cup {Event}, number : 0 .. MaxMessages]

TypeOK ==
    /\ states \in [Keys -> 0 .. MaxMessages]
    /\ connections \in SUBSET Clients
    /\ session \in [Clients -> {"none", "open", "closed"}]
    /\ got \in [Clients -> [Keys -> 0 .. MaxMessages]]
    /\ made \in [Keys -> 0 .. MaxMessages]
    /\ calls \in [Threads -> Calls]
    /\ caller \in SUBSET Threads
    /\ web \in {"rest", "opened", "replay"}
    /\ replay \in SUBSET Keys
    /\ crashed \in BOOLEAN

Init ==
    /\ states = [k \in Keys |-> 0]
    /\ connections = {}
    /\ session = [c \in Clients |-> "none"]
    /\ got = [c \in Clients |-> [k \in Keys |-> 0]]
    /\ made = [k \in Keys |-> 0]
    /\ calls = [t \in Threads |-> NoCall]
    /\ caller = {}
    /\ web = "rest" /\ replay = {}
    /\ crashed = FALSE

-----------------------------------------------------------------------------

\* The server's thread is free for the next event.
WebRests == web = "rest" /\ "web" \notin caller

\* SendMessage: to every connection, or an exception that nobody catches on the
\* runner's, the poll and the server's thread, and which leaves the constructor with
\* the server's thread running on the main thread.
SendMessage(k, number) ==
    IF \A c \in connections : session[c] = "open"
      THEN /\ got' = [c \in Clients |->
                        IF c \in connections /\ k \in Keys THEN [got[c] EXCEPT ![k] = number]
                        ELSE got[c]]
           /\ UNCHANGED crashed
      ELSE crashed' = TRUE /\ UNCHANGED got

\* Makes the message of a callback.
Make(t, k) ==
    /\ t = "web" => WebRests
    /\ caller' = caller \cup {t}
    /\ IF k \in Keys
         THEN /\ made[k] < MaxMessages
              /\ made' = [made EXCEPT ![k] = @ + 1]
              /\ calls' = [calls EXCEPT ![t] = [at |-> "set", key |-> k, number |-> made'[k]]]
         ELSE /\ calls' = [calls EXCEPT ![t] = [at |-> "send", key |-> k, number |-> 0]]
              /\ UNCHANGED made
    /\ UNCHANGED <<states, connections, session, got, web, replay, crashed>>

\* Fault: the callbacks are called without callback_client_mutex_.
CallUnlocked(t, k) == t \notin caller /\ Make(t, k)

\* A thread takes callback_client_mutex_ and calls back.
Call(t, k) == caller = {} /\ Make(t, k)

\* NewPumpControlState, NewInputState: states_[k] = message, with states_mutex_.
SetState(t) ==
    /\ calls[t].at = "set"
    /\ web # "replay"
    /\ states' = [states EXCEPT ![calls[t].key] = calls[t].number]
    /\ calls' = [calls EXCEPT ![t].at = "send"]
    /\ UNCHANGED <<connections, session, got, made, caller, web, replay, crashed>>

Send(t) ==
    /\ calls[t].at = "send"
    /\ SendMessage(calls[t].key, calls[t].number)
    /\ calls' = [calls EXCEPT ![t] = NoCall]
    /\ caller' = caller \ {t}
    /\ UNCHANGED <<states, connections, session, made, web, replay>>

\* OnOpen: the connection is inserted ...
OnOpen(c) ==
    /\ WebRests
    /\ session[c] = "none"
    /\ session' = [session EXCEPT ![c] = "open"]
    /\ connections' = connections \cup {c}
    /\ web' = "opened"
    /\ UNCHANGED <<states, got, made, calls, caller, replay, crashed>>

\* Fault: OnOpen sends the states that have been set at all, but not the first one.
LockStatesButOne ==
    /\ web = "opened"
    /\ web' = "replay"
    /\ \E k \in Keys : replay' = {j \in Keys : states[j] # 0} \ {k}
    /\ UNCHANGED <<states, connections, session, got, made, calls, caller, crashed>>

\* ... states_mutex_ is taken ...
LockStates ==
    /\ web = "opened"
    /\ web' = "replay"
    /\ replay' = {k \in Keys : states[k] # 0}
    /\ UNCHANGED <<states, connections, session, got, made, calls, caller, crashed>>

\* Fault: states_mutex_ is released after a message only.
ReplayUnlockingLate ==
    /\ web = "replay"
    /\ \E k \in replay :
          /\ SendMessage(k, states[k])
          /\ replay' = replay \ {k}
          /\ web' = IF replay' = {} THEN "rest" ELSE web
    /\ UNCHANGED <<states, connections, session, made, calls, caller>>

\* ... and every state is sent to every connection.
Replay ==
    /\ web = "replay"
    /\ IF replay = {}
         THEN web' = "rest" /\ UNCHANGED <<replay, got, crashed>>
         ELSE \E k \in replay :
                 /\ SendMessage(k, states[k])
                 /\ replay' = replay \ {k}
                 /\ UNCHANGED web
    /\ UNCHANGED <<states, connections, session, made, calls, caller>>

\* The server's thread reads a close frame or an error: the websocket is no longer open.
Disconnect(c) ==
    /\ WebRests
    /\ session[c] = "open"
    /\ session' = [session EXCEPT ![c] = "closed"]
    /\ UNCHANGED <<states, connections, got, made, calls, caller, web, replay, crashed>>

\* A later event: OnClose.  The client may connect again.
OnClose(c) ==
    /\ WebRests
    /\ session[c] = "closed"
    /\ session' = [session EXCEPT ![c] = "none"]
    /\ connections' = connections \ {c}
    /\ got' = [got EXCEPT ![c] = [k \in Keys |-> 0]]
    /\ UNCHANGED <<states, made, calls, caller, web, replay, crashed>>

Events ==
    \/ \E t \in Threads, k \in Keys \cup {Event} : Call(t, k)
    \/ \E c \in Clients : OnOpen(c) \/ Disconnect(c)

WebWork == LockStates \/ Replay \/ \E c \in Clients : OnClose(c)
Work == WebWork \/ \E t \in Threads : SetState(t) \/ Send(t)

Next == (~ crashed /\ (Events \/ Work)) \/ (crashed /\ UNCHANGED vars)

\* The threads are scheduled and get a mutex that is free again and again; clients and
\* events owe nothing.
Fairness ==
    /\ WF_vars(~ crashed /\ WebWork)
    /\ \A t \in Threads : SF_vars(~ crashed /\ SetState(t)) /\ WF_vars(~ crashed /\ Send(t))

Spec == Init /\ [][Next]_vars /\ Fairness

-----------------------------------------------------------------------------

\* When no message is on its way, every open client has received the last message of
\* every key: a client that connects in the middle of a change misses nothing.
ClientsAreCurrent ==
    WebRests /\ caller = {} /\ ~ crashed =>
        \A c \in connections : session[c] = "open" => got[c] = states

\* No client receives an older message after a newer one of the same key.
NoStaleMessage ==
    [][\A c \in connections \cap connections', k \in Keys : got'[c][k] >= got[c][k]]_vars

\* A callback comes to its end: states_mutex_ and connection_mutex_ are never taken
\* in a circle.
CallsReturn == \A t \in Threads : t \in caller ~> t \notin caller \/ crashed

\* A client that goes away does not end the process.  The code breaks this: until
\* OnClose has been called every message to the connection throws.
SurvivesDisconnect == ~ crashed
=============================================================================
