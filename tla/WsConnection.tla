---------------------------- MODULE WsConnection ----------------------------
(***************************************************************************)
(* One connection of the WebInterface's server: the class connection of    *)
(* the websocketpp the program is built with (src/lib/websocketpp), on the *)
(* asio transport without TLS, in the server's role.                       *)
(*                                                                         *)
(* All handlers of asio run on the server's thread, one after the other:   *)
(* io says which one is running.  Other threads come in through send only; *)
(* it looks at m_state and pushes the message later, under m_write_lock.   *)
(* The server's thread sends too, from the open handler or from a handler  *)
(* of another connection.                                                  *)
(*                                                                         *)
(* The program never closes or pings a connection and sets no message,     *)
(* ping, fail or validate handler.  A close code that the library chooses  *)
(* for a protocol error is always a terminal one.                          *)
(***************************************************************************)
EXTENDS Integers, SequencesExt

CONSTANTS Senders,     \* the threads that send, "server" among them
          MaxSends,    \* bound: the messages that are sent
          MaxFrames    \* bound: the frames that the peer sends

ASSUME ConnectionAssumption == "server" \in Senders /\ MaxSends \in Nat /\ MaxFrames \in Nat

VARIABLES
    mState,     \* m_state
    handle,     \* the timer that m_handshake_timer points to
    timers,     \* every timer: the handshake's is 0, that of the k-th close frame k;
                \* an expired one has a call of its handler queued, beyond cancelling
    closes,     \* the close frames pushed so far
    queue,      \* m_send_queue
    current,    \* m_current_msgs
    writeFlag,  \* m_write_flag
    posted,     \* the calls of write_frame that dispatch has posted
    reading,    \* the outstanding async_read: "none", "request" or "frames"
    writing,    \* the outstanding async_writes; "doomed" on a socket already shut down
    response,   \* the response of the handshake: "none", "switch" or "other"
    io,         \* the handler that the server's thread is in
    buffer,     \* the frames in m_buf that have not been consumed
    shutdown,   \* the shutdown of the transport
    calls,      \* the handlers of the WebInterface that have been called
    sender,     \* where each sending thread is
    accepted,   \* the number of messages that send has accepted
    received,   \* the number of frames the peer has sent
    wire        \* the frames that have been written

vars == <<mState, handle, timers, closes, queue, current, writeFlag, posted, reading,
          writing, response, io, buffer, shutdown, calls, sender, accepted, received, wire>>
timerVars == <<handle, timers, closes>>
outVars == <<queue, current, writeFlag, posted>>
sendVars == <<sender, accepted>>

States == {"connecting", "open", "closing", "closed"}
FrameKinds == {"data", "ping", "close", "badclose", "garbage"}
Message == [kind : {"data"}, number : 1 .. MaxSends] \cup [kind : {"pong", "close"}]
Timers == 0 .. MaxFrames
NoTimer == -1

TypeOK ==
    /\ mState \in States
    /\ handle \in Timers \cup {NoTimer}
    /\ timers \in [Timers -> {"off", "running", "expired"}]
    /\ closes \in 0 .. MaxFrames
    /\ {queue, current, wire} \subseteq Seq(Message)
    /\ writeFlag \in BOOLEAN
    /\ posted \in Nat
    /\ reading \in {"none", "request", "frames"}
    /\ writing \in Seq({"response", "frames", "doomed"})
    /\ response \in {"none", "switch", "other"}
    /\ io \in {"rest", "http", "open", "frames", "closed"}
    /\ buffer \in Seq(FrameKinds)
    /\ shutdown \in {"no", "now", "late", "done"}
    /\ calls \in Seq({"http", "open", "close"})
    /\ sender \in [Senders -> {"out", "push"}]
    /\ accepted \in 0 .. MaxSends
    /\ received \in 0 .. MaxFrames

\* handle_accept has started the connection: the transport needs no handshake of its
\* own, so that start reaches read_handshake in the same handler.
Init ==
    /\ mState = "connecting"
    /\ handle = 0
    /\ timers = [k \in Timers |-> IF k = 0 THEN "running" ELSE "off"]
    /\ closes = 0
    /\ queue = <<>> /\ current = <<>> /\ wire = <<>>
    /\ writeFlag = FALSE
    /\ posted = 0
    /\ reading = "request"
    /\ writing = <<>>
    /\ response = "none"
    /\ io = "rest"
    /\ buffer = <<>>
    /\ shutdown = "no"
    /\ calls = <<>>
    /\ sender = [t \in Senders |-> "out"]
    /\ accepted = 0
    /\ received = 0
-----------------------------------------------------------------------------
(* What several handlers share.                                            *)

\* The server's thread is free for the next handler.
IoRests == io = "rest" /\ sender["server"] = "out"

\* write_push under m_write_lock, and dispatch(write_frame) unless a write is under way.
Push(m) ==
    /\ queue' = Append(queue, m)
    /\ posted' = IF writeFlag THEN posted ELSE posted + 1

\* Cancelling has no effect on a timer whose handler is queued.
Cancelled(ts) ==
    IF handle # NoTimer /\ ts[handle] = "running" THEN [ts EXCEPT ![handle] = "off"] ELSE ts

\* terminate.  A failed or finished handshake has no handler to call.
Terminate(ts) ==
    /\ timers' = Cancelled(ts) /\ handle' = NoTimer
    /\ mState' = "closed"
    /\ CASE mState = "connecting" -> shutdown' = "done" /\ io' = "rest"
         [] mState \in {"open", "closing"} -> shutdown' = "now" /\ io' = "closed"
         [] mState = "closed" -> io' = "rest" /\ UNCHANGED shutdown

\* Fault: no timer waits for the end of the closing handshake.
SendCloseFrameUntimed ==
    /\ mState' = "closing"
    /\ closes' = closes + 1
    /\ Push([kind |-> "close"])
    /\ UNCHANGED <<handle, timers>>

\* send_close_frame: the timer replaces whatever m_handshake_timer held.
SendCloseFrame ==
    /\ mState' = "closing"
    /\ closes' = closes + 1
    /\ timers' = [timers EXCEPT ![closes'] = "running"] /\ handle' = closes'
    /\ Push([kind |-> "close"])

-----------------------------------------------------------------------------
(* The timers.                                                             *)

Expire(k) ==
    /\ timers[k] = "running"
    /\ timers' = [timers EXCEPT ![k] = "expired"]
    /\ UNCHANGED <<mState, handle, closes, outVars, reading, writing, response, io, buffer,
                   shutdown, calls, sendVars, received, wire>>

\* handle_open_handshake_timeout and handle_close_handshake_timeout, whatever m_state is.
TimeOut(k) ==
    /\ IoRests
    /\ timers[k] = "expired"
    /\ Terminate([timers EXCEPT ![k] = "off"])
    /\ UNCHANGED <<closes, outVars, reading, writing, response, buffer, calls, sendVars,
                   received, wire>>

-----------------------------------------------------------------------------
(* The handshake.                                                          *)

\* handle_read_handshake with a request that is complete: the http handler is called,
\* or the response to a websocket (or to a bad) request is written.
ReadHandshake ==
    /\ IoRests
    /\ reading = "request"
    /\ reading' = "none"
    /\ IF mState = "closed"
         THEN UNCHANGED <<response, writing, io, buffer, calls, received>>
         ELSE \/ /\ io' = "http" /\ calls' = Append(calls, "http")
                 /\ UNCHANGED <<response, writing, buffer, received>>
              \/ /\ response' = "other" /\ writing' = Append(writing, "response")
                 /\ UNCHANGED <<io, buffer, calls, received>>
              \/ /\ response' = "switch" /\ writing' = Append(writing, "response")
                 /\ buffer' \in SeqOf(FrameKinds, MaxFrames)
                 /\ received' = Len(buffer')
                 /\ UNCHANGED <<io, calls>>
    /\ UNCHANGED <<mState, timerVars, outVars, shutdown, sendVars, wire>>

\* OnHttp returns, however long it took, and its response is written.
RespondHttp ==
    /\ io = "http"
    /\ io' = "rest"
    /\ response' = "other" /\ writing' = Append(writing, "response")
    /\ UNCHANGED <<mState, timerVars, outVars, reading, buffer, shutdown, calls, sendVars,
                   received, wire>>

\* handle_write_http_response: ignored once a timer has closed the connection.
ResponseWritten ==
    /\ IoRests
    /\ writing # <<>> /\ Head(writing) = "response"
    /\ writing' = Tail(writing)
    /\ CASE mState = "closed" -> UNCHANGED <<mState, handle, timers, io, shutdown, calls>>
         [] mState # "closed" /\ response = "switch" ->
              /\ timers' = Cancelled(timers) /\ handle' = NoTimer
              /\ mState' = "open" /\ io' = "open" /\ calls' = Append(calls, "open")
              /\ UNCHANGED shutdown
         [] mState # "closed" /\ response = "other" -> Terminate(timers) /\ UNCHANGED calls
    /\ UNCHANGED <<closes, outVars, reading, response, buffer, sendVars, received, wire>>

\* OnOpen returns; the frames that came with the request are next.
OpenReturns ==
    /\ io = "open" /\ sender["server"] = "out"
    /\ io' = "frames"
    /\ UNCHANGED <<mState, timerVars, outVars, reading, writing, response, buffer, shutdown,
                   calls, sendVars, received, wire>>
-----------------------------------------------------------------------------
(* handle_read_frame.                                                      *)

ReadFrames ==
    /\ IoRests
    /\ reading = "frames"
    /\ reading' = "none"
    /\ buffer' \in SeqOf(FrameKinds, MaxFrames - received) \ {<<>>}
    /\ received' = received + Len(buffer')
    /\ io' = "frames"
    /\ UNCHANGED <<mState, timerVars, outVars, writing, response, shutdown, calls, sendVars, wire>>

\* The next frame of the buffer is one of these, and m_state is one of those.
NextFrame(kinds, states) ==
    /\ io = "frames" /\ buffer # <<>>
    /\ Head(buffer) \in kinds
    /\ mState \in states

\* No handler for data; a ping is answered in the open state only; a second close frame
\* is spurious: the program never closes a connection itself, so that the closing state
\* is always that of an acknowledgement, or of an error after which nothing is read.
IgnoreFrame ==
    /\ \/ NextFrame({"data"}, States)
       \/ NextFrame({"ping", "close"}, {"closing", "closed"})
       \/ NextFrame({"badclose"}, {"closed"})
    /\ buffer' = Tail(buffer)
    /\ UNCHANGED <<mState, timerVars, outVars, reading, writing, response, io, shutdown, calls,
                   sendVars, received, wire>>

Pong ==
    /\ NextFrame({"ping"}, {"open"})
    /\ buffer' = Tail(buffer)
    /\ Push([kind |-> "pong"])
    /\ UNCHANGED <<mState, timerVars, current, writeFlag, reading, writing, response, io,
                   shutdown, calls, sendVars, received, wire>>

\* An invalid close code or reason is acknowledged even when the state is closing already.
Acknowledge ==
    /\ NextFrame({"close"}, {"open"}) \/ NextFrame({"badclose"}, {"open", "closing"})
    /\ buffer' = Tail(buffer)
    /\ SendCloseFrame
    /\ UNCHANGED <<current, writeFlag, reading, writing, response, io, shutdown, calls,
                   sendVars, received, wire>>

\* consume fails: close, or terminate when close refuses; nothing more is read.
ProtocolError ==
    /\ NextFrame({"garbage"}, States)
    /\ buffer' = <<>>
    /\ IF mState = "open"
         THEN SendCloseFrame /\ io' = "rest" /\ UNCHANGED shutdown
         ELSE Terminate(timers) /\ UNCHANGED <<closes, queue, posted>>
    /\ UNCHANGED <<current, writeFlag, reading, writing, response, calls, sendVars, received, wire>>

\* The buffer is consumed: read_frame.
ReadOn ==
    /\ io = "frames" /\ buffer = <<>>
    /\ reading' = "frames"
    /\ io' = "rest"
    /\ UNCHANGED <<mState, timerVars, outVars, writing, response, buffer, shutdown, calls,
                   sendVars, received, wire>>

\* The peer has gone, or the socket has been shut down.
ReadFails ==
    /\ IoRests
    /\ reading # "none"
    /\ reading' = "none"
    /\ Terminate(timers)
    /\ UNCHANGED <<closes, outVars, writing, response, buffer, calls, sendVars, received, wire>>

-----------------------------------------------------------------------------
(* Sending.                                                                *)

\* send finds the connection open ...
Send(t) ==
    /\ sender[t] = "out"
    /\ accepted + Cardinality({u \in Senders : sender[u] = "push"}) < MaxSends
    /\ t = "server" => io \in {"rest", "open"}
    /\ mState = "open"
    /\ sender' = [sender EXCEPT ![t] = "push"]
    /\ UNCHANGED <<mState, timerVars, outVars, reading, writing, response, io, buffer,
                   shutdown, calls, accepted, received, wire>>

\* ... and pushes the message, whatever the state is by then.
SendPushes(t) ==
    /\ sender[t] = "push"
    /\ sender' = [sender EXCEPT ![t] = "out"]
    /\ accepted' = accepted + 1
    /\ Push([kind |-> "data", number |-> accepted'])
    /\ UNCHANGED <<mState, timerVars, current, writeFlag, reading, writing, response, io,
                   buffer, shutdown, calls, received, wire>>

\* Fault: write_frame does not stop at a terminal message.
PoppableAll == queue

\* What write_frame pops: up to the first close frame, which is terminal.
Poppable ==
    LET closeAt == {i \in DOMAIN queue : queue[i].kind = "close"}
    IN SubSeq(queue, 1, IF closeAt = {} THEN Len(queue) ELSE Min(closeAt))

\* async_write of what has been popped.
StartWrite ==
    /\ current' = Poppable
    /\ queue' = SubSeq(queue, Len(current') + 1, Len(queue))
    /\ writeFlag' = TRUE
    /\ writing' = Append(writing, IF mState = "closed" THEN "doomed" ELSE "frames")

\* Fault: write_frame does not look at the write flag.
WriteFrameAlways ==
    /\ IoRests
    /\ posted > 0
    /\ posted' = posted - 1
    /\ IF queue = <<>> THEN UNCHANGED <<queue, current, writeFlag, writing>> ELSE StartWrite
    /\ UNCHANGED <<mState, timerVars, reading, response, io, buffer, shutdown, calls, sendVars,
                   received, wire>>

WriteFrame ==
    /\ IoRests
    /\ posted > 0
    /\ posted' = posted - 1
    /\ IF writeFlag \/ queue = <<>>
         THEN UNCHANGED <<queue, current, writeFlag, writing>>
         ELSE StartWrite
    /\ UNCHANGED <<mState, timerVars, reading, response, io, buffer, shutdown, calls, sendVars,
                   received, wire>>

\* Fault: what has been pushed during the write is not looked for.
ReleaseQuietly ==
    /\ writeFlag' = FALSE
    /\ UNCHANGED <<posted, mState, handle, timers, io, shutdown>>

\* The end of handle_write_frame: the write flag is released, and dispatch(write_frame)
\* posted for what has been pushed meanwhile.
Release ==
    /\ writeFlag' = FALSE
    /\ posted' = IF queue = <<>> THEN posted ELSE posted + 1
    /\ UNCHANGED <<mState, handle, timers, io, shutdown>>

\* handle_write_frame: after a terminal message the write flag stays set.
FramesWritten ==
    /\ IoRests
    /\ writing # <<>> /\ Head(writing) = "frames"
    /\ writing' = Tail(writing)
    /\ wire' = wire \o current
    /\ current' = <<>>
    /\ IF Last(current).kind = "close"
         THEN Terminate(timers) /\ UNCHANGED <<writeFlag, posted>>
         ELSE Release
    /\ UNCHANGED <<closes, queue, reading, response, buffer, calls, sendVars, received>>

\* Any write fails when the peer has gone; on a socket shut down it has to.
WriteFails ==
    /\ IoRests
    /\ writing # <<>>
    /\ writing' = Tail(writing)
    /\ current' = IF Head(writing) = "response" THEN current ELSE <<>>
    /\ Terminate(timers)
    /\ UNCHANGED <<closes, queue, writeFlag, posted, reading, response, buffer, calls,
                   sendVars, received, wire>>
-----------------------------------------------------------------------------
(* The end.  Without TLS the socket is shut down at once, in the handler   *)
(* that called terminate; the shutdown timer guards that very moment.      *)

\* handle_async_shutdown, handle_terminate: OnClose.
Closed ==
    /\ io = "closed"
    /\ io' = "rest"
    /\ shutdown' = "done"
    /\ calls' = Append(calls, "close")
    /\ UNCHANGED <<mState, timerVars, outVars, reading, writing, response, buffer, sendVars,
                   received, wire>>

\* The shutdown timer has run off before the socket was shut down: it is its turn.
ShutdownIsLate ==
    /\ io = "closed"
    /\ io' = "rest"
    /\ shutdown' = "late"
    /\ UNCHANGED <<mState, timerVars, outVars, reading, writing, response, buffer, calls,
                   sendVars, received, wire>>

\* handle_async_shutdown_timeout, handle_terminate: OnClose.
ShutdownTimeout ==
    /\ IoRests
    /\ shutdown = "late"
    /\ shutdown' = "done"
    /\ calls' = Append(calls, "close")
    /\ UNCHANGED <<mState, timerVars, outVars, reading, writing, response, io, buffer, sendVars,
                   received, wire>>

-----------------------------------------------------------------------------

\* What the server's thread does on its own, and what only the peer can bring about.
IoWork ==
    \/ RespondHttp \/ OpenReturns
    \/ IgnoreFrame \/ Pong \/ Acknowledge \/ ProtocolError \/ ReadOn
    \/ WriteFrame \/ Closed \/ ShutdownIsLate \/ ShutdownTimeout
    \/ \E k \in Timers : TimeOut(k)
Network ==
    \/ ReadHandshake \/ ReadFrames \/ ReadFails
    \/ ResponseWritten \/ FramesWritten \/ WriteFails

Next ==
    \/ IoWork \/ Network
    \/ \E k \in Timers : Expire(k)
    \/ \E t \in Senders : Send(t) \/ SendPushes(t)

\* The threads are scheduled and time goes on; the peer may read and send nothing.
Fairness ==
    /\ WF_vars(IoWork)
    /\ \A k \in Timers : WF_vars(Expire(k))
    /\ \A t \in Senders : WF_vars(SendPushes(t))

Spec == Init /\ [][Next]_vars /\ Fairness

-----------------------------------------------------------------------------

\* What has become of the connection, for the WebInterface.
session ==
    CASE mState = "connecting" -> "new"
      [] mState = "open" -> "open"
      [] mState = "closing" \/ shutdown \in {"now", "late"} -> "left"
      [] OTHER -> "gone"
Session == INSTANCE WsSession

\* The connection keeps what the WebInterface relies on: its handlers are called in
\* order and at most once, and a handshake or a closing handshake that the peer does not
\* finish is ended by its timer.
ImplementsSession == Session!Spec

\* The buffer list m_bufs serves one async_write at a time, that of the response or that
\* of frames, whoever sends at which moment.
OneWriteAtATime == Len(writing) <= 1

\* A message that another thread pushes after the close frame is never written, and the
\* messages before it are written in the order in which send accepted them.
NothingAfterClose ==
    /\ \A i \in DOMAIN wire : wire[i].kind = "close" => i = Len(wire)
    /\ \A i, j \in DOMAIN wire :
          i < j /\ wire[i].kind = "data" /\ wire[j].kind = "data" => wire[i].number < wire[j].number

Written(n) == \E i \in DOMAIN wire : wire[i].kind = "data" /\ wire[i].number = n

\* If the peer reads what is written, an accepted message is written unless the
\* connection is closed: no thread leaves it in the queue for another that has looked
\* already.
MessagesAreWritten ==
    WF_vars(FramesWritten) =>
        \A n \in 1 .. MaxSends : accepted >= n ~> Written(n) \/ mState # "open"
=============================================================================
