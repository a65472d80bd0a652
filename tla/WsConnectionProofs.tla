------------------------- MODULE WsConnectionProofs -------------------------
(***************************************************************************)
(* Theorems about WsConnection, for any set of sending threads and any     *)
(* number of messages and frames: what is written, and how often at once.  *)
(***************************************************************************)
EXTENDS WsConnection, SequenceTheorems, WellFoundedInduction, TLAPS

Data(m) == m.kind = "data"

\* The data of a sequence is in the order of its acceptance, no later than n; that of s
\* has been accepted before that of t; nothing follows a close frame.
Ordered(s) == \A i, j \in DOMAIN s : i < j /\ Data(s[i]) /\ Data(s[j]) => s[i].number < s[j].number
UpTo(s, n) == \A i \in DOMAIN s : Data(s[i]) => s[i].number <= n
Before(s, t) == \A i \in DOMAIN s, j \in DOMAIN t : Data(s[i]) /\ Data(t[j]) => s[i].number < t[j].number
EndsWithClose(s) == \A i \in DOMAIN s : s[i].kind = "close" => i = Len(s)
HasClose(s) == \E i \in DOMAIN s : s[i].kind = "close"

Frame == [kind : {"data"}, number : Nat] \cup [kind : {"pong", "close"}]

ShapeInv ==
    /\ queue \in Seq(Frame) /\ current \in Seq(Frame) /\ wire \in Seq(Frame)
    /\ writing \in Seq({"response", "frames", "doomed"})
    /\ posted \in Nat /\ accepted \in Nat
    /\ writeFlag \in BOOLEAN
    /\ mState \in States
    /\ response \in {"none", "switch", "other"}
    /\ sender \in [Senders -> {"out", "push"}]

\* The handshake is not over, or has been ended by its timer: nothing is sent.
Early == reading = "request" \/ io = "http" \/ (writing # <<>> /\ Head(writing) = "response")

EarlyInv ==
    /\ mState = "connecting" => Early
    /\ Early => /\ mState \in {"connecting", "closed"}
                /\ io \in {"rest", "http"}
                /\ queue = <<>> /\ posted = 0
                /\ \A t \in Senders : sender[t] = "out"
    /\ reading = "request" => writing = <<>> /\ io = "rest"
    /\ io = "http" => writing = <<>> /\ reading = "none"
    /\ writing # <<>> /\ Head(writing) = "response" => reading = "none" /\ response # "none"

\* The frames that are being written are those of current, and m_write_flag is set for
\* them.
WriteInv ==
    /\ Len(writing) <= 1
    /\ current # <<>> <=> writing # <<>> /\ Head(writing) # "response"
    /\ current # <<>> => writeFlag

\* After a close frame m_write_flag stays set, and nothing is being written.
CloseInv ==
    /\ EndsWithClose(current) /\ EndsWithClose(wire)
    /\ HasClose(wire) => writeFlag /\ current = <<>>

OrderInv ==
    /\ Ordered(queue) /\ Ordered(current) /\ Ordered(wire)
    /\ Before(wire, current) /\ Before(wire, queue) /\ Before(current, queue)
    /\ UpTo(queue, accepted) /\ UpTo(current, accepted) /\ UpTo(wire, accepted)

IInv == ShapeInv /\ EarlyInv /\ WriteInv /\ CloseInv /\ OrderInv

-----------------------------------------------------------------------------
(* Sequences of frames.                                                    *)

\* A frame behind all others.
LEMMA Appending ==
    ASSUME NEW s \in Seq(Frame), NEW m \in Frame, NEW n \in Nat, NEW k \in Nat,
           Ordered(s), UpTo(s, n), n <= k, Data(m) => m.number = k /\ n < k
    PROVE  /\ Append(s, m) \in Seq(Frame)
           /\ Ordered(Append(s, m)) /\ UpTo(Append(s, m), k)
           /\ \A t \in Seq(Frame) : Before(t, s) /\ UpTo(t, n) => Before(t, Append(s, m))
<1> DEFINE u == Append(s, m)
<1>1. /\ u \in Seq(Frame) /\ DOMAIN u = 1 .. Len(s) + 1 /\ DOMAIN s = 1 .. Len(s) /\ Len(s) \in Nat
      /\ \A i \in 1 .. Len(s) : u[i] = s[i]
      /\ u[Len(s) + 1] = m
  OBVIOUS
<1>2. \A i \in DOMAIN s : s[i] \in Frame
  OBVIOUS
<1>3. \A f \in Frame : Data(f) => f.number \in Nat
  BY DEF Frame, Data
<1> HIDE DEF u
<1>4. Ordered(u)
  BY <1>1, <1>2, <1>3 DEF Ordered, UpTo
<1>5. UpTo(u, k)
  BY <1>1, <1>2, <1>3 DEF UpTo
<1>6. ASSUME NEW t \in Seq(Frame), Before(t, s), UpTo(t, n) PROVE Before(t, u)
  <2>1. \A i \in DOMAIN t : t[i] \in Frame
    OBVIOUS
  <2>. QED
    BY <1>1, <1>3, <1>6, <2>1 DEF Before, UpTo
<1>. QED
  BY <1>1, <1>4, <1>5, <1>6 DEF u

\* A sequence cut in two.
LEMMA Cutting ==
    ASSUME NEW s \in Seq(Frame), NEW n \in 0 .. Len(s), NEW k, Ordered(s), UpTo(s, k)
    PROVE  LET p == SubSeq(s, 1, n)
               r == SubSeq(s, n + 1, Len(s))
           IN /\ p \in Seq(Frame) /\ r \in Seq(Frame) /\ Len(p) = n
              /\ \A i \in 1 .. n : p[i] = s[i]
              /\ Ordered(p) /\ Ordered(r) /\ Before(p, r)
              /\ UpTo(p, k) /\ UpTo(r, k)
              /\ \A t \in Seq(Frame) : Before(t, s) => Before(t, p) /\ Before(t, r)
<1> DEFINE p == SubSeq(s, 1, n)
           r == SubSeq(s, n + 1, Len(s))
<1>1. /\ p \in Seq(Frame) /\ Len(p) = n /\ DOMAIN p = 1 .. n
      /\ \A i \in 1 .. n : p[i] = s[i]
  OBVIOUS
<1>2. /\ r \in Seq(Frame) /\ DOMAIN r = 1 .. Len(s) - n
      /\ \A i \in 1 .. Len(s) - n : r[i] = s[n + i]
  OBVIOUS
<1>3. DOMAIN s = 1 .. Len(s) /\ Len(s) \in Nat
  OBVIOUS
<1> HIDE DEF p, r
<1>a. \A i \in DOMAIN p : i \in DOMAIN s /\ i <= n /\ p[i] = s[i]
  BY <1>1, <1>3
<1>b. \A i \in DOMAIN r : n + i \in DOMAIN s /\ i \in Int /\ i > 0 /\ r[i] = s[n + i]
  BY <1>2, <1>3
<1>4. Ordered(p) /\ UpTo(p, k)
  BY <1>1, <1>3 DEF Ordered, UpTo
<1>5. Ordered(r) /\ UpTo(r, k)
  <2>1. UpTo(r, k)
    BY <1>b DEF UpTo
  <2>2. ASSUME NEW i \in DOMAIN r, NEW j \in DOMAIN r, i < j, Data(r[i]), Data(r[j])
        PROVE  r[i].number < r[j].number
    <3>1. n + i \in DOMAIN s /\ n + j \in DOMAIN s /\ n + i < n + j
      BY <1>b, <2>2
    <3>. QED
      BY <1>b, <2>2, <3>1 DEF Ordered
  <2>. QED
    BY <2>1, <2>2 DEF Ordered
<1>6. Before(p, r)
  <2> SUFFICES ASSUME NEW i \in DOMAIN p, NEW j \in DOMAIN r, Data(p[i]), Data(r[j])
               PROVE  p[i].number < r[j].number
    BY DEF Before
  <2>1. i \in DOMAIN s /\ n + j \in DOMAIN s /\ i < n + j
    BY <1>a, <1>b, <1>3
  <2>. QED
    BY <1>a, <1>b, <2>1 DEF Ordered
<1>7. ASSUME NEW t \in Seq(Frame), Before(t, s) PROVE Before(t, p) /\ Before(t, r)
  <2>1. Before(t, p)
    BY <1>a, <1>7 DEF Before
  <2>2. Before(t, r)
    BY <1>b, <1>7 DEF Before
  <2>. QED
    BY <2>1, <2>2
<1>. QED
  BY <1>1, <1>2, <1>4, <1>5, <1>6, <1>7 DEF p, r

\* Two sequences, one behind the other.
LEMMA Joining ==
    ASSUME NEW s \in Seq(Frame), NEW t \in Seq(Frame), NEW k,
           Ordered(s), Ordered(t), Before(s, t), UpTo(s, k), UpTo(t, k)
    PROVE  /\ s \o t \in Seq(Frame)
           /\ Ordered(s \o t) /\ UpTo(s \o t, k)
           /\ \A u \in Seq(Frame) : Before(s, u) /\ Before(t, u) => Before(s \o t, u)
           /\ ~ HasClose(s) /\ EndsWithClose(t) => EndsWithClose(s \o t)
           /\ HasClose(s \o t) => HasClose(s) \/ HasClose(t)
<1> DEFINE w == s \o t
<1>1. /\ w \in Seq(Frame) /\ DOMAIN w = 1 .. Len(s) + Len(t) /\ Len(w) = Len(s) + Len(t)
      /\ \A i \in 1 .. Len(s) : w[i] = s[i]
      /\ \A i \in Len(s) + 1 .. Len(s) + Len(t) : w[i] = t[i - Len(s)]
  OBVIOUS
<1>2. DOMAIN s = 1 .. Len(s) /\ Len(s) \in Nat /\ DOMAIN t = 1 .. Len(t) /\ Len(t) \in Nat
  OBVIOUS
<1> HIDE DEF w
<1>3. \A i \in DOMAIN w : (i \in DOMAIN s /\ w[i] = s[i])
                          \/ (i > Len(s) /\ i - Len(s) \in DOMAIN t /\ w[i] = t[i - Len(s)])
  BY <1>1, <1>2
<1>4. Ordered(w)
  <2> SUFFICES ASSUME NEW i \in DOMAIN w, NEW j \in DOMAIN w, i < j, Data(w[i]), Data(w[j])
               PROVE  w[i].number < w[j].number
    BY DEF Ordered
  <2>1. i \in Int /\ j \in Int
    BY <1>1, <1>2
  <2>2. CASE i \in DOMAIN s /\ w[i] = s[i] /\ j \in DOMAIN s /\ w[j] = s[j]
    BY <2>2 DEF Ordered
  <2>3. CASE i \in DOMAIN s /\ w[i] = s[i] /\ j - Len(s) \in DOMAIN t /\ w[j] = t[j - Len(s)]
    BY <2>3 DEF Before
  <2>4. CASE i > Len(s) /\ i - Len(s) \in DOMAIN t /\ w[i] = t[i - Len(s)]
    <3>1. j - Len(s) \in DOMAIN t /\ w[j] = t[j - Len(s)] /\ i - Len(s) < j - Len(s)
      BY <1>2, <1>3, <2>1, <2>4
    <3>. QED
      BY <2>4, <3>1 DEF Ordered
  <2>. QED
    BY <1>3, <2>2, <2>3, <2>4
<1>5. UpTo(w, k)
  BY <1>3 DEF UpTo
<1>6. ASSUME NEW u \in Seq(Frame), Before(s, u), Before(t, u) PROVE Before(w, u)
  BY <1>3, <1>6 DEF Before
<1>7. ASSUME ~ HasClose(s), EndsWithClose(t) PROVE EndsWithClose(w)
  <2> SUFFICES ASSUME NEW i \in DOMAIN w, w[i].kind = "close" PROVE i = Len(w)
    BY DEF EndsWithClose
  <2>1. i \in Int /\ i - Len(s) \in DOMAIN t /\ w[i] = t[i - Len(s)]
    BY <1>1, <1>2, <1>3, <1>7 DEF HasClose
  <2>2. i - Len(s) = Len(t)
    BY <1>7, <2>1 DEF EndsWithClose
  <2>3. Len(w) = Len(s) + Len(t) /\ Len(s) \in Int /\ Len(t) \in Int
    BY <1>1, <1>2
  <2>. QED
    BY <2>1, <2>2, <2>3
<1>8. HasClose(w) => HasClose(s) \/ HasClose(t)
  BY <1>3 DEF HasClose
<1>. QED
  BY <1>1, <1>4, <1>5, <1>6, <1>7, <1>8 DEF w

-----------------------------------------------------------------------------
(* The invariant holds initially and is kept.                              *)

LEMMA Initially == Init => IInv
<1> SUFFICES ASSUME Init PROVE IInv
  OBVIOUS
<1>1. ShapeInv
  <2>1. sender \in [Senders -> {"out", "push"}]
    BY DEF Init
  <2>2. mState \in States /\ response \in {"none", "switch", "other"}
    BY DEF Init, States
  <2>3. \A S : <<>> \in Seq(S)
    OBVIOUS
  <2>. QED
    BY <2>1, <2>2, <2>3 DEF Init, ShapeInv
<1>2. EarlyInv
  BY DEF Init, EarlyInv, Early
<1>3. WriteInv
  BY DEF Init, WriteInv
<1>4. CloseInv
  BY DEF Init, CloseInv, EndsWithClose, HasClose
<1>5. OrderInv
  BY DEF Init, OrderInv, Ordered, Before, UpTo
<1>. QED
  BY <1>1, <1>2, <1>3, <1>4, <1>5 DEF IInv

\* Ending a connection that was open leaves its handler to be called.
LEMMA Terminating ==
    ASSUME ShapeInv, NEW STATE ts, Terminate(ts)
    PROVE  /\ mState' = "closed"
           /\ io' \in {"rest", "closed"}
           /\ mState \in {"connecting", "closed"} => io' = "rest"
BY DEF ShapeInv, States, Terminate

\* Steps that neither send nor write a frame.
NoFrameMoves == UNCHANGED <<queue, current, wire, writeFlag, accepted>>

LEMMA FramesUnmoved ==
    ASSUME IInv, NoFrameMoves
    PROVE  CloseInv' /\ OrderInv'
<1>1. CloseInv'
  BY DEF IInv, NoFrameMoves, CloseInv, EndsWithClose, HasClose
<1>2. OrderInv'
  BY DEF IInv, NoFrameMoves, OrderInv, Ordered, Before, UpTo
<1>. QED
  BY <1>1, <1>2

\* A frame is pushed behind those that are queued: a message with the next number, or
\* a control frame.
LEMMA Pushing ==
    ASSUME IInv, NEW STATE m, m \in Frame, Push(m),
           accepted' \in {accepted, accepted + 1},
           Data(m) => m.number = accepted' /\ accepted' = accepted + 1,
           UNCHANGED <<current, wire, writeFlag>>
    PROVE  queue' \in Seq(Frame) /\ posted' \in Nat /\ CloseInv' /\ OrderInv'
<1>1. /\ queue \in Seq(Frame) /\ current \in Seq(Frame) /\ wire \in Seq(Frame)
      /\ accepted \in Nat /\ accepted' \in Nat /\ accepted <= accepted'
      /\ posted \in Nat
  BY DEF IInv, ShapeInv
<1>2. Ordered(queue) /\ UpTo(queue, accepted) /\ (Data(m) => m.number = accepted' /\ accepted < accepted')
  BY <1>1 DEF IInv, OrderInv
<1>3. queue' = Append(queue, m)
  BY DEF Push
<1>4. /\ queue' \in Seq(Frame)
      /\ Ordered(queue') /\ UpTo(queue', accepted')
      /\ \A t \in Seq(Frame) : Before(t, queue) /\ UpTo(t, accepted) => Before(t, queue')
  BY <1>1, <1>2, <1>3, Appending
<1>5. posted' \in Nat
  BY <1>1 DEF Push
<1>6. CloseInv'
  BY DEF IInv, CloseInv, EndsWithClose, HasClose
<1>7. \A t \in Seq(Frame) : UpTo(t, accepted) => UpTo(t, accepted')
  <2>1. \A f \in Frame : Data(f) => f.number \in Nat
    BY DEF Frame, Data
  <2> SUFFICES ASSUME NEW t \in Seq(Frame), UpTo(t, accepted), NEW i \in DOMAIN t, Data(t[i])
               PROVE  t[i].number <= accepted'
    BY DEF UpTo
  <2>2. t[i] \in Frame
    OBVIOUS
  <2>. QED
    BY <1>1, <2>1, <2>2 DEF UpTo
<1>8. OrderInv'
  BY <1>1, <1>4, <1>7 DEF IInv, OrderInv
<1>. QED
  BY <1>4, <1>5, <1>6, <1>8

\* A frame is pushed by a thread or a handler: not before the handshake is over.
LEMMA SendPushesKeeps == ASSUME IInv, NEW t \in Senders, SendPushes(t) PROVE IInv'
<1> DEFINE m == [kind |-> "data", number |-> accepted']
<1>1. accepted' = accepted + 1 /\ accepted \in Nat
  BY DEF IInv, ShapeInv, SendPushes
<1>2. m \in Frame /\ m.number = accepted' /\ Push(m) /\ UNCHANGED <<current, wire, writeFlag>>
  BY <1>1 DEF SendPushes, Frame
<1>3. queue' \in Seq(Frame) /\ posted' \in Nat /\ CloseInv' /\ OrderInv'
  <2> HIDE DEF m
  <2>. QED
    BY <1>1, <1>2, Pushing
<1>4. ShapeInv'
  BY <1>1, <1>3 DEF IInv, ShapeInv, SendPushes
<1>5. EarlyInv'
  BY DEF IInv, EarlyInv, Early, SendPushes
<1>6. WriteInv'
  BY DEF IInv, WriteInv, SendPushes
<1>. QED
  BY <1>3, <1>4, <1>5, <1>6 DEF IInv

\* A control frame, pushed by handle_read_frame.
LEMMA PushingControl ==
    ASSUME IInv, NEW k \in {"pong", "close"}, Push([kind |-> k]),
           UNCHANGED <<current, wire, writeFlag, accepted>>
    PROVE  queue' \in Seq(Frame) /\ posted' \in Nat /\ CloseInv' /\ OrderInv'
<1> DEFINE m == [kind |-> k]
<1>1. m \in Frame /\ ~ Data(m)
  BY DEF Frame, Data
<1>2. Push(m)
  OBVIOUS
<1> HIDE DEF m
<1>. QED
  BY <1>1, <1>2, Pushing

LEMMA PongKeeps == ASSUME IInv, Pong PROVE IInv'
<1>1. queue' \in Seq(Frame) /\ posted' \in Nat /\ CloseInv' /\ OrderInv'
  BY PushingControl DEF Pong, sendVars
<1>2. ShapeInv'
  BY <1>1 DEF IInv, ShapeInv, Pong, sendVars
<1>3. EarlyInv'
  BY DEF IInv, EarlyInv, Early, Pong, NextFrame, sendVars
<1>4. WriteInv'
  BY DEF IInv, WriteInv, Pong
<1>. QED
  BY <1>1, <1>2, <1>3, <1>4 DEF IInv

LEMMA AcknowledgeKeeps == ASSUME IInv, Acknowledge PROVE IInv'
<1>1. queue' \in Seq(Frame) /\ posted' \in Nat /\ CloseInv' /\ OrderInv'
  BY PushingControl DEF Acknowledge, SendCloseFrame, sendVars
<1>2. ShapeInv'
  BY <1>1 DEF IInv, ShapeInv, Acknowledge, SendCloseFrame, States, sendVars
<1>3. EarlyInv'
  BY DEF IInv, EarlyInv, Early, Acknowledge, NextFrame, SendCloseFrame, sendVars
<1>4. WriteInv'
  BY DEF IInv, WriteInv, Acknowledge
<1>. QED
  BY <1>1, <1>2, <1>3, <1>4 DEF IInv

LEMMA ProtocolErrorKeeps == ASSUME IInv, ProtocolError PROVE IInv'
<1>0. WriteInv'
  BY DEF IInv, WriteInv, ProtocolError
<1>1. CASE mState = "open"
  <2>1. SendCloseFrame /\ io' = "rest"
    BY <1>1 DEF ProtocolError
  <2>2. queue' \in Seq(Frame) /\ posted' \in Nat /\ CloseInv' /\ OrderInv'
    BY <2>1, PushingControl DEF ProtocolError, SendCloseFrame, sendVars
  <2>3. ShapeInv'
    BY <2>1, <2>2 DEF IInv, ShapeInv, ProtocolError, SendCloseFrame, States, sendVars
  <2>4. EarlyInv'
    BY <2>1 DEF IInv, EarlyInv, Early, ProtocolError, NextFrame, SendCloseFrame, sendVars
  <2>. QED
    BY <1>0, <2>2, <2>3, <2>4 DEF IInv
<1>2. CASE mState # "open"
  <2>1. mState' = "closed" /\ io' \in {"rest", "closed"}
    BY <1>2, Terminating DEF IInv, ProtocolError
  <2>2. NoFrameMoves /\ posted' = posted
    BY <1>2 DEF ProtocolError, NoFrameMoves, sendVars
  <2>3. ShapeInv'
    BY <2>1, <2>2 DEF IInv, ShapeInv, ProtocolError, NoFrameMoves, States, sendVars
  <2>4. EarlyInv'
    BY <2>1, <2>2 DEF IInv, EarlyInv, Early, ProtocolError, NextFrame, NoFrameMoves, sendVars
  <2>. QED
    BY <1>0, <2>2, <2>3, <2>4, FramesUnmoved DEF IInv
<1>. QED
  BY <1>1, <1>2

\* The handshake's and the closing steps, and those that read.
LEMMA TimeOutKeeps == ASSUME IInv, NEW k \in Timers, TimeOut(k) PROVE IInv'
<1>1. /\ mState' = "closed" /\ io' \in {"rest", "closed"}
      /\ mState \in {"connecting", "closed"} => io' = "rest"
  BY Terminating DEF IInv, TimeOut
<1>2. NoFrameMoves
  BY DEF TimeOut, NoFrameMoves, outVars, sendVars
<1>3. ShapeInv'
  BY <1>1 DEF IInv, ShapeInv, TimeOut, States, outVars, sendVars
<1>4. EarlyInv'
  BY <1>1 DEF IInv, EarlyInv, Early, TimeOut, IoRests, outVars, sendVars
<1>5. WriteInv'
  BY DEF IInv, WriteInv, TimeOut, outVars
<1>. QED
  BY <1>2, <1>3, <1>4, <1>5, FramesUnmoved DEF IInv

LEMMA ReadFailsKeeps == ASSUME IInv, ReadFails PROVE IInv'
<1>1. /\ mState' = "closed" /\ io' \in {"rest", "closed"}
      /\ mState \in {"connecting", "closed"} => io' = "rest"
  BY Terminating DEF IInv, ReadFails
<1>2. NoFrameMoves
  BY DEF ReadFails, NoFrameMoves, outVars, sendVars
<1>3. ShapeInv'
  BY <1>1 DEF IInv, ShapeInv, ReadFails, States, outVars, sendVars
<1>4. EarlyInv'
  BY <1>1 DEF IInv, EarlyInv, Early, ReadFails, IoRests, outVars, sendVars
<1>5. WriteInv'
  BY DEF IInv, WriteInv, ReadFails, outVars
<1>. QED
  BY <1>2, <1>3, <1>4, <1>5, FramesUnmoved DEF IInv

\* The write of the response: nothing else is being written.
LEMMA ReadHandshakeKeeps == ASSUME IInv, ReadHandshake PROVE IInv'
<1>1. NoFrameMoves /\ UNCHANGED <<mState, posted, sender>>
  BY DEF ReadHandshake, NoFrameMoves, outVars, sendVars
<1>2. reading = "request" /\ writing = <<>> /\ io = "rest" /\ current = <<>> /\ reading' = "none"
  BY DEF IInv, EarlyInv, WriteInv, ReadHandshake
<1>3. \/ UNCHANGED <<writing, response, io>> /\ mState = "closed"
      \/ io' = "http" /\ UNCHANGED <<writing, response>>
      \/ writing' = <<"response">> /\ response' \in {"switch", "other"} /\ io' = io
  BY <1>2 DEF ReadHandshake
<1>4. <<"response">> \in Seq({"response", "frames", "doomed"}) /\ Len(<<"response">>) = 1
      /\ Head(<<"response">>) = "response" /\ <<"response">> # <<>>
      /\ Len(<<>>) = 0
  OBVIOUS
<1>5. ShapeInv'
  BY <1>1, <1>3, <1>4 DEF IInv, ShapeInv, NoFrameMoves
<1>6. EarlyInv'
  BY <1>1, <1>2, <1>3, <1>4 DEF IInv, EarlyInv, Early, NoFrameMoves
<1>7. WriteInv'
  <2>1. current' = <<>> /\ (writing' = <<>> \/ writing' = <<"response">>)
    BY <1>1, <1>2, <1>3 DEF NoFrameMoves
  <2>. QED
    BY <1>4, <2>1 DEF WriteInv
<1>. QED
  BY <1>1, <1>5, <1>6, <1>7, FramesUnmoved DEF IInv

LEMMA RespondHttpKeeps == ASSUME IInv, RespondHttp PROVE IInv'
<1>1. NoFrameMoves /\ UNCHANGED <<mState, posted, sender, reading>>
  BY DEF RespondHttp, NoFrameMoves, outVars, sendVars
<1>2. /\ writing = <<>> /\ reading = "none" /\ current = <<>>
      /\ io = "http" /\ io' = "rest" /\ response' = "other" /\ writing' = <<"response">>
  BY DEF IInv, EarlyInv, WriteInv, RespondHttp
<1>3. <<"response">> \in Seq({"response", "frames", "doomed"}) /\ Len(<<"response">>) = 1
      /\ Head(<<"response">>) = "response" /\ <<"response">> # <<>>
  OBVIOUS
<1>4. ShapeInv'
  BY <1>1, <1>2, <1>3 DEF IInv, ShapeInv, NoFrameMoves
<1>5. EarlyInv'
  BY <1>1, <1>2, <1>3 DEF IInv, EarlyInv, Early, NoFrameMoves
<1>6. WriteInv'
  BY <1>1, <1>2, <1>3 DEF IInv, WriteInv, NoFrameMoves
<1>. QED
  BY <1>1, <1>4, <1>5, <1>6, FramesUnmoved DEF IInv

\* A queue of at most one write, after that write.
LEMMA OneElement ==
    ASSUME NEW S, NEW s \in Seq(S), s # <<>>, Len(s) <= 1
    PROVE  Tail(s) = <<>> /\ Len(s) = 1
<1>1. Len(s) \in Nat \ {0}
  BY EmptySeq
<1>2. Len(s) = 1
  BY <1>1
<1>3. Tail(s) \in Seq(S) /\ Len(Tail(s)) = 0
  BY <1>2
<1>. QED
  BY <1>2, <1>3, EmptySeq

LEMMA LastWrite ==
    ASSUME IInv, writing # <<>>
    PROVE  Tail(writing) = <<>> /\ Len(writing) = 1
<1> DEFINE S == {"response", "frames", "doomed"}
<1>1. writing \in Seq(S) /\ Len(writing) <= 1
  BY DEF IInv, ShapeInv, WriteInv
<1> HIDE DEF S
<1>. QED
  BY <1>1, OneElement

LEMMA ResponseWrittenKeeps == ASSUME IInv, ResponseWritten PROVE IInv'
<1>1. /\ NoFrameMoves /\ UNCHANGED <<posted, sender, reading, response>>
      /\ writing # <<>> /\ Head(writing) = "response" /\ writing' = <<>>
  BY LastWrite DEF ResponseWritten, NoFrameMoves, outVars, sendVars
<1>2. reading = "none" /\ current = <<>> /\ response # "none" /\ io = "rest"
      /\ mState \in {"connecting", "closed"}
  BY <1>1 DEF IInv, EarlyInv, Early, WriteInv, ResponseWritten, IoRests
<1>3. /\ mState' \in {"open", "closed"}
      /\ io' \in {"rest", "open"}
  <2>1. CASE mState = "closed"
    BY <1>2, <2>1 DEF ResponseWritten
  <2>2. CASE mState # "closed" /\ response = "switch"
    BY <2>2 DEF ResponseWritten
  <2>3. CASE mState # "closed" /\ response = "other"
    <3>1. Terminate(timers)
      BY <2>3 DEF ResponseWritten
    <3>. QED
      BY <1>2, <3>1, Terminating DEF IInv
  <2>. QED
    BY <1>2, <2>1, <2>2, <2>3 DEF IInv, ShapeInv
<1>4. ShapeInv'
  <2>1. <<>> \in Seq({"response", "frames", "doomed"})
    OBVIOUS
  <2>. QED
    BY <1>1, <1>3, <2>1 DEF IInv, ShapeInv, NoFrameMoves, States
<1>5. EarlyInv'
  BY <1>1, <1>2, <1>3 DEF IInv, EarlyInv, Early, NoFrameMoves
<1>6. WriteInv'
  <2>1. Len(<<>>) = 0
    OBVIOUS
  <2>. QED
    BY <1>1, <1>2, <2>1 DEF IInv, WriteInv, NoFrameMoves
<1>. QED
  BY <1>1, <1>4, <1>5, <1>6, FramesUnmoved DEF IInv

\* A nonempty set of natural numbers has a least element, and Min is it.
LEMMA MinIsLeast ==
    ASSUME NEW S \in SUBSET Nat, S # {}
    PROVE  Min(S) \in S /\ \A x \in S : Min(S) <= x
<1>1. PICK m \in S : \A y \in S : ~ (y < m)
  <2>1. IsWellFoundedOn(OpToRel(<, Nat), Nat)
    BY NatLessThanWellFounded
  <2>2. PICK x \in S : \A y \in S : ~ (<<y, x>> \in OpToRel(<, Nat))
    BY <2>1, WFMin
  <2>. QED
    BY <2>2 DEF OpToRel
<1>2. \A y \in S : m <= y
  BY <1>1
<1>. QED
  BY <1>1, <1>2 DEF Min

\* write_frame pops the beginning of the queue, up to its first close frame.
LEMMA PoppableIsPrefix ==
    ASSUME queue \in Seq(Frame), queue # <<>>
    PROVE  \E n \in 1 .. Len(queue) :
              /\ Poppable = SubSeq(queue, 1, n)
              /\ \A i \in 1 .. n : queue[i].kind = "close" => i = n
<1> DEFINE closeAt == {i \in DOMAIN queue : queue[i].kind = "close"}
           n == IF closeAt = {} THEN Len(queue) ELSE Min(closeAt)
<1>1. Len(queue) \in Nat \ {0} /\ DOMAIN queue = 1 .. Len(queue)
  BY EmptySeq
<1>2. closeAt \in SUBSET Nat
  BY <1>1
<1>3. closeAt # {} => Min(closeAt) \in closeAt /\ \A i \in closeAt : Min(closeAt) <= i
  <2> HIDE DEF closeAt
  <2>. QED
    BY <1>2, MinIsLeast
<1>4. \A i \in DOMAIN queue : i \in closeAt <=> queue[i].kind = "close"
  OBVIOUS
<1>5. closeAt \subseteq DOMAIN queue
  OBVIOUS
<1>6. Poppable = SubSeq(queue, 1, n)
  BY DEF Poppable
<1>a. (closeAt = {} => n = Len(queue)) /\ (closeAt # {} => n = Min(closeAt))
  OBVIOUS
<1> HIDE DEF closeAt, n
<1>7. n \in 1 .. Len(queue) /\ \A i \in 1 .. n : queue[i].kind = "close" => i = n
  <2>1. CASE closeAt = {}
    <3>1. n = Len(queue) /\ \A i \in DOMAIN queue : queue[i].kind # "close"
      BY <1>4, <1>a, <2>1
    <3>2. n \in 1 .. Len(queue)
      BY <1>1, <3>1
    <3>3. \A i \in 1 .. n : i \in DOMAIN queue
      BY <1>1, <3>1
    <3>. QED
      BY <3>1, <3>2, <3>3
  <2>2. CASE closeAt # {}
    <3>1. n \in 1 .. Len(queue)
      BY <1>1, <1>3, <1>5, <1>a, <2>2
    <3>2. ASSUME NEW i \in 1 .. n, queue[i].kind = "close" PROVE i = n
      <4>1. i \in closeAt
        BY <1>1, <1>4, <3>1, <3>2
      <4>. QED
        BY <1>3, <1>a, <2>2, <3>1, <4>1
    <3>. QED
      BY <3>1, <3>2
  <2>. QED
    BY <2>1, <2>2
<1>. QED
  BY <1>6, <1>7

\* Nothing is being written, and no close frame has been: a prefix of the queue goes out.
LEMMA StartingWrite ==
    ASSUME IInv, ~ writeFlag, queue # <<>>, StartWrite, UNCHANGED <<wire, accepted>>
    PROVE  /\ queue' \in Seq(Frame) /\ current' \in Seq(Frame) /\ current' # <<>>
           /\ CloseInv' /\ OrderInv'
<1>1. /\ queue \in Seq(Frame) /\ wire \in Seq(Frame) /\ current = <<>> /\ ~ HasClose(wire)
      /\ Ordered(queue) /\ UpTo(queue, accepted) /\ Before(wire, queue)
  BY DEF IInv, ShapeInv, WriteInv, CloseInv, OrderInv
<1>2. PICK n \in 1 .. Len(queue) :
         /\ Poppable = SubSeq(queue, 1, n)
         /\ \A i \in 1 .. n : queue[i].kind = "close" => i = n
  BY <1>1, PoppableIsPrefix
<1> DEFINE p == SubSeq(queue, 1, n)
           r == SubSeq(queue, n + 1, Len(queue))
<1>3. Len(queue) \in Nat /\ n \in 0 .. Len(queue)
  BY <1>1
<1>4. /\ p \in Seq(Frame) /\ r \in Seq(Frame) /\ Len(p) = n
      /\ \A i \in 1 .. n : p[i] = queue[i]
      /\ Ordered(p) /\ Ordered(r) /\ Before(p, r)
      /\ UpTo(p, accepted) /\ UpTo(r, accepted)
      /\ \A t \in Seq(Frame) : Before(t, queue) => Before(t, p) /\ Before(t, r)
  BY <1>1, <1>3, Cutting
<1>5. current' = p /\ queue' = r
  BY <1>2, <1>4 DEF StartWrite
<1> HIDE DEF p, r
<1>6. current' # <<>>
  BY <1>2, <1>3, <1>4, <1>5, EmptySeq
<1>7. OrderInv'
  BY <1>1, <1>4, <1>5 DEF IInv, OrderInv
<1>8. CloseInv'
  <2>1. EndsWithClose(p)
    BY <1>2, <1>4 DEF EndsWithClose
  <2>2. EndsWithClose(wire)
    BY DEF IInv, CloseInv
  <2>. QED
    BY <1>1, <1>5, <2>1, <2>2 DEF CloseInv
<1>. QED
  BY <1>4, <1>5, <1>6, <1>7, <1>8

LEMMA WriteFrameKeeps == ASSUME IInv, WriteFrame PROVE IInv'
<1>1. /\ UNCHANGED <<mState, reading, response, io, sender, accepted, wire>>
      /\ posted > 0 /\ posted' = posted - 1 /\ posted \in Nat /\ posted' \in Nat
  BY DEF IInv, ShapeInv, WriteFrame, sendVars
<1>2. ~ Early
  BY <1>1 DEF IInv, EarlyInv
<1>3. CASE UNCHANGED <<queue, current, writeFlag, writing>>
  <2>1. ShapeInv'
    BY <1>1, <1>3 DEF IInv, ShapeInv
  <2>2. EarlyInv'
    BY <1>1, <1>2, <1>3 DEF IInv, EarlyInv, Early
  <2>3. WriteInv'
    BY <1>3 DEF IInv, WriteInv
  <2>4. NoFrameMoves
    BY <1>1, <1>3 DEF NoFrameMoves
  <2>. QED
    BY <2>1, <2>2, <2>3, <2>4, FramesUnmoved DEF IInv
<1>4. CASE ~ writeFlag /\ queue # <<>> /\ StartWrite
  <2>1. /\ queue' \in Seq(Frame) /\ current' \in Seq(Frame) /\ current' # <<>>
        /\ CloseInv' /\ OrderInv'
    BY <1>1, <1>4, StartingWrite
  <2>2. writing = <<>> /\ writeFlag' = TRUE
    BY <1>2, <1>4 DEF IInv, WriteInv, Early, StartWrite
  <2>3. PICK w \in {"doomed", "frames"} : writing' = <<w>>
    BY <1>4, <2>2 DEF StartWrite
  <2>4. /\ <<w>> \in Seq({"response", "frames", "doomed"}) /\ Len(<<w>>) = 1
        /\ Head(<<w>>) # "response" /\ <<w>> # <<>>
    OBVIOUS
  <2>5. ShapeInv'
    BY <1>1, <2>1, <2>2, <2>3, <2>4 DEF IInv, ShapeInv
  <2>6. EarlyInv'
    BY <1>1, <1>2, <2>2, <2>3, <2>4 DEF IInv, EarlyInv, Early
  <2>7. WriteInv'
    BY <2>1, <2>2, <2>3, <2>4 DEF WriteInv
  <2>. QED
    BY <2>1, <2>5, <2>6, <2>7 DEF IInv
<1>. QED
  BY <1>3, <1>4 DEF WriteFrame

\* The close frame of what has been written is its last frame, after which the write flag
\* stays set.
LEMMA FramesWrittenKeeps == ASSUME IInv, FramesWritten PROVE IInv'
<1>1. /\ UNCHANGED <<queue, reading, sender, accepted>>
      /\ writing # <<>> /\ Head(writing) = "frames" /\ writing' = <<>>
      /\ wire' = wire \o current /\ current' = <<>>
      /\ io = "rest"
  BY LastWrite DEF FramesWritten, sendVars, IoRests
<1>2. /\ current # <<>> /\ writeFlag /\ ~ HasClose(wire)
      /\ current \in Seq(Frame) /\ wire \in Seq(Frame) /\ accepted \in Nat
      /\ EndsWithClose(current)
      /\ Ordered(wire) /\ Ordered(current) /\ Before(wire, current)
      /\ UpTo(wire, accepted) /\ UpTo(current, accepted)
  BY <1>1 DEF IInv, ShapeInv, WriteInv, CloseInv, OrderInv
<1>3. ~ Early
  BY <1>1 DEF IInv, EarlyInv, Early
<1>4. /\ wire' \in Seq(Frame) /\ Ordered(wire') /\ UpTo(wire', accepted)
      /\ \A u \in Seq(Frame) : Before(wire, u) /\ Before(current, u) => Before(wire', u)
      /\ EndsWithClose(wire')
      /\ HasClose(wire') => HasClose(current)
  BY <1>1, <1>2, Joining
<1>5. HasClose(current) => Last(current).kind = "close"
  <2>1. Len(current) \in Nat \ {0}
    BY <1>2, EmptySeq
  <2>. QED
    BY <1>2, <2>1 DEF HasClose, EndsWithClose, Last
<1>6. OrderInv'
  <2>1. Ordered(<<>>) /\ UpTo(<<>>, accepted)
        /\ \A t : Before(t, <<>>) /\ Before(<<>>, t)
    BY DEF Ordered, UpTo, Before
  <2>2. queue \in Seq(Frame) /\ Before(wire', queue) /\ Ordered(queue) /\ UpTo(queue, accepted)
    BY <1>4 DEF IInv, ShapeInv, OrderInv
  <2>. QED
    BY <1>1, <1>4, <2>1, <2>2 DEF OrderInv
<1>7. /\ mState' \in {mState, "closed"}
      /\ io' \in {"rest", "closed"}
      /\ writeFlag' \in BOOLEAN /\ posted' \in Nat
      /\ HasClose(wire') => writeFlag'
      /\ UNCHANGED response
  <2>1. CASE Last(current).kind = "close"
    <3>1. Terminate(timers) /\ UNCHANGED <<writeFlag, posted, response>>
      BY <2>1 DEF FramesWritten
    <3>2. writeFlag \in BOOLEAN /\ posted \in Nat
      BY DEF IInv, ShapeInv
    <3>. QED
      BY <1>2, <3>1, <3>2, Terminating DEF IInv
  <2>2. CASE Last(current).kind # "close"
    <3>1. Release /\ UNCHANGED response
      BY <2>2 DEF FramesWritten
    <3>2. posted \in Nat /\ posted' \in Nat
      BY <3>1 DEF IInv, ShapeInv, Release
    <3>3. writeFlag' \in BOOLEAN /\ mState' = mState /\ io' = io
      BY <3>1 DEF Release
    <3>4. ~ HasClose(wire')
      BY <1>4, <1>5, <2>2
    <3>. QED
      BY <1>1, <3>1, <3>2, <3>3, <3>4
  <2>. QED
    BY <2>1, <2>2
<1>8. ShapeInv'
  BY <1>1, <1>4, <1>7, EmptySeq DEF IInv, ShapeInv, States
<1>9. EarlyInv'
  BY <1>1, <1>3, <1>7 DEF IInv, EarlyInv, Early
<1>10. WriteInv'
  BY <1>1, EmptySeq DEF WriteInv
<1>11. CloseInv'
  <2>1. EndsWithClose(<<>>)
    BY DEF EndsWithClose
  <2>. QED
    BY <1>1, <1>4, <1>7, <2>1 DEF CloseInv
<1>. QED
  BY <1>6, <1>8, <1>9, <1>10, <1>11 DEF IInv

LEMMA WriteFailsKeeps == ASSUME IInv, WriteFails PROVE IInv'
<1>1. /\ UNCHANGED <<queue, wire, writeFlag, posted, reading, response, sender, accepted>>
      /\ writing # <<>> /\ writing' = <<>>
  BY LastWrite DEF WriteFails, sendVars
<1>2. current' = <<>>
  BY <1>1 DEF IInv, WriteInv, WriteFails
<1>3. /\ mState' = "closed" /\ io' \in {"rest", "closed"}
      /\ mState \in {"connecting", "closed"} => io' = "rest"
  BY Terminating DEF IInv, WriteFails
<1>4. ShapeInv'
  BY <1>1, <1>2, <1>3, EmptySeq DEF IInv, ShapeInv, States
<1>5. EarlyInv'
  BY <1>1, <1>3 DEF IInv, EarlyInv, Early, WriteFails, IoRests
<1>6. WriteInv'
  BY <1>1, <1>2, EmptySeq DEF WriteInv
<1>7. CloseInv'
  <2>1. EndsWithClose(<<>>)
    BY DEF EndsWithClose
  <2>. QED
    BY <1>1, <1>2, <2>1 DEF IInv, CloseInv
<1>8. OrderInv'
  <2>1. Ordered(<<>>) /\ UpTo(<<>>, accepted)
        /\ \A t : Before(t, <<>>) /\ Before(<<>>, t)
    BY DEF Ordered, UpTo, Before
  <2>. QED
    BY <1>1, <1>2, <2>1 DEF IInv, OrderInv
<1>. QED
  BY <1>4, <1>5, <1>6, <1>7, <1>8 DEF IInv

\* The other steps change neither what is queued nor what is being written.
NoWriteMoves == NoFrameMoves /\ UNCHANGED <<posted, writing, response, mState>>

LEMMA QuietKeeps ==
    ASSUME IInv, NoWriteMoves, EarlyInv', sender' \in [Senders -> {"out", "push"}]
    PROVE  IInv'
<1>1. ShapeInv'
  BY DEF IInv, ShapeInv, NoWriteMoves, NoFrameMoves
<1>2. WriteInv'
  BY DEF IInv, WriteInv, NoWriteMoves, NoFrameMoves
<1>. QED
  BY <1>1, <1>2, FramesUnmoved DEF IInv, NoWriteMoves

LEMMA OtherStepsKeep ==
    ASSUME IInv,
           \/ \E k \in Timers : Expire(k)
           \/ OpenReturns \/ ReadFrames \/ IgnoreFrame \/ ReadOn
           \/ \E t \in Senders : Send(t)
           \/ Closed \/ ShutdownIsLate \/ ShutdownTimeout
           \/ UNCHANGED vars
    PROVE  IInv'
<1>1. sender \in [Senders -> {"out", "push"}]
  BY DEF IInv, ShapeInv
<1>2. EarlyInv
  BY DEF IInv
<1>3. CASE \E k \in Timers : Expire(k)
  <2>1. NoWriteMoves /\ sender' = sender
    BY <1>3 DEF Expire, NoWriteMoves, NoFrameMoves, outVars, sendVars
  <2>2. EarlyInv'
    BY <1>2, <1>3, <2>1 DEF Expire, NoWriteMoves, NoFrameMoves, EarlyInv, Early
  <2>. QED
    BY <1>1, <2>1, <2>2, QuietKeeps
<1>4. CASE OpenReturns
  <2>1. NoWriteMoves /\ sender' = sender
    BY <1>4 DEF OpenReturns, NoWriteMoves, NoFrameMoves, outVars, sendVars
  <2>2. EarlyInv'
    BY <1>2, <1>4, <2>1 DEF OpenReturns, NoWriteMoves, NoFrameMoves, EarlyInv, Early
  <2>. QED
    BY <1>1, <2>1, <2>2, QuietKeeps
<1>5. CASE ReadFrames
  <2>1. NoWriteMoves /\ sender' = sender
    BY <1>5 DEF ReadFrames, NoWriteMoves, NoFrameMoves, outVars, sendVars
  <2>2. EarlyInv'
    BY <1>2, <1>5, <2>1 DEF ReadFrames, IoRests, NoWriteMoves, NoFrameMoves, EarlyInv, Early
  <2>. QED
    BY <1>1, <2>1, <2>2, QuietKeeps
<1>6. CASE IgnoreFrame
  <2>1. NoWriteMoves /\ sender' = sender
    BY <1>6 DEF IgnoreFrame, NoWriteMoves, NoFrameMoves, outVars, sendVars
  <2>2. EarlyInv'
    BY <1>2, <1>6, <2>1 DEF IgnoreFrame, NoWriteMoves, NoFrameMoves, EarlyInv, Early
  <2>. QED
    BY <1>1, <2>1, <2>2, QuietKeeps
<1>7. CASE ReadOn
  <2>1. NoWriteMoves /\ sender' = sender
    BY <1>7 DEF ReadOn, NoWriteMoves, NoFrameMoves, outVars, sendVars
  <2>2. EarlyInv'
    BY <1>2, <1>7, <2>1 DEF ReadOn, NoWriteMoves, NoFrameMoves, EarlyInv, Early
  <2>. QED
    BY <1>1, <2>1, <2>2, QuietKeeps
<1>8. CASE \E t \in Senders : Send(t)
  <2>1. PICK t \in Senders : Send(t)
    BY <1>8
  <2>2. NoWriteMoves /\ sender' \in [Senders -> {"out", "push"}]
    BY <1>1, <2>1 DEF Send, NoWriteMoves, NoFrameMoves, outVars
  <2>3. mState = "open" /\ UNCHANGED <<reading, io, writing, mState>>
    BY <2>1 DEF Send
  <2>4. EarlyInv'
    BY <1>2, <2>3 DEF EarlyInv, Early
  <2>. QED
    BY <2>2, <2>4, QuietKeeps
<1>9. CASE Closed \/ ShutdownIsLate
  <2>1. NoWriteMoves /\ sender' = sender
    BY <1>9 DEF Closed, ShutdownIsLate, NoWriteMoves, NoFrameMoves, outVars, sendVars
  <2>2. EarlyInv'
    BY <1>2, <1>9, <2>1 DEF Closed, ShutdownIsLate, NoWriteMoves, NoFrameMoves, EarlyInv, Early
  <2>. QED
    BY <1>1, <2>1, <2>2, QuietKeeps
<1>10. CASE ShutdownTimeout
  <2>1. NoWriteMoves /\ sender' = sender
    BY <1>10 DEF ShutdownTimeout, NoWriteMoves, NoFrameMoves, outVars, sendVars
  <2>2. EarlyInv'
    BY <1>2, <1>10, <2>1 DEF ShutdownTimeout, NoWriteMoves, NoFrameMoves, EarlyInv, Early
  <2>. QED
    BY <1>1, <2>1, <2>2, QuietKeeps
<1>11. CASE UNCHANGED vars
  <2>1. NoWriteMoves /\ sender' = sender
    BY <1>11 DEF vars, NoWriteMoves, NoFrameMoves, outVars, sendVars
  <2>2. EarlyInv'
    BY <1>2, <1>11, <2>1 DEF vars, NoWriteMoves, NoFrameMoves, EarlyInv, Early
  <2>. QED
    BY <1>1, <2>1, <2>2, QuietKeeps
<1>. QED
  BY <1>3, <1>4, <1>5, <1>6, <1>7, <1>8, <1>9, <1>10, <1>11

LEMMA Invariance == IInv /\ [Next]_vars => IInv'
<1> SUFFICES ASSUME IInv, [Next]_vars PROVE IInv'
  OBVIOUS
<1>1. CASE IoWork
  BY <1>1, RespondHttpKeeps, PongKeeps, AcknowledgeKeeps, ProtocolErrorKeeps,
     WriteFrameKeeps, TimeOutKeeps, OtherStepsKeep DEF IoWork
<1>2. CASE Network
  BY <1>2, ReadHandshakeKeeps, ReadFailsKeeps, ResponseWrittenKeeps, FramesWrittenKeeps,
     WriteFailsKeeps, OtherStepsKeep DEF Network
<1>3. CASE \E t \in Senders : SendPushes(t)
  BY <1>3, SendPushesKeeps
<1>4. CASE (\E k \in Timers : Expire(k)) \/ (\E t \in Senders : Send(t)) \/ UNCHANGED vars
  BY <1>4, OtherStepsKeep
<1>. QED
  BY <1>1, <1>2, <1>3, <1>4 DEF Next

LEMMA Inductive == Spec => []IInv
<1>1. Init => IInv
  BY Initially
<1>2. IInv /\ [Next]_vars => IInv'
  BY Invariance
<1>. QED
  BY <1>1, <1>2, PTL DEF Spec

-----------------------------------------------------------------------------
(* What is written.                                                        *)

\* OneWriteAtATime of WsConnection: the buffers m_bufs belong to one async_write, however
\* many threads send.
THEOREM OneWrite == Spec => []OneWriteAtATime
<1>1. IInv => OneWriteAtATime
  BY DEF IInv, WriteInv, OneWriteAtATime
<1>. QED
  BY <1>1, Inductive, PTL

\* NothingAfterClose of WsConnection: write_frame pops no further than a close frame and
\* the write flag stays set after it; messages leave in the order in which send accepted
\* them, however many threads send how many messages.
THEOREM CloseIsLast == Spec => []NothingAfterClose
<1>1. IInv => NothingAfterClose
  BY DEF IInv, CloseInv, OrderInv, EndsWithClose, Ordered, Data, NothingAfterClose
<1>. QED
  BY <1>1, Inductive, PTL

-----------------------------------------------------------------------------
(* What the WebInterface relies on: each step of a connection is one of    *)
(* WsSession, or none.                                                     *)

\* How far the shutdown is, and which handlers can have been called.
SessionInv ==
    /\ mState = "closed" <=> shutdown \in {"now", "late", "done"}
    /\ mState # "closed" => shutdown = "no"
    /\ io = "closed" <=> shutdown = "now"
    /\ reading = "request" => /\ calls = <<>> /\ response = "none"
                              /\ mState = "connecting" \/ shutdown = "done"
    /\ mState = "connecting" /\ response = "switch" => calls = <<>>

ImplementsSafeSession == Session!Init /\ [][Session!Next]_(Session!vars)

LEMMA InitSession == Init => SessionInv /\ Session!Init
BY DEF Init, SessionInv, session, Session!Init

\* terminate fails a handshake and ends a session that is open.
LEMMA TerminateIsSession ==
    ASSUME ShapeInv, SessionInv, NEW STATE ts, Terminate(ts), io # "closed",
           reading' \in {reading, "none"}, UNCHANGED <<calls, response>>
    PROVE  SessionInv' /\ [Session!Next]_(Session!vars)
<1>1. mState \in States
  BY DEF ShapeInv
<1>2. CASE mState = "connecting"
  <2>1. mState' = "closed" /\ shutdown' = "done" /\ io' = "rest"
    BY <1>2 DEF Terminate
  <2>2. session = "new" /\ session' = "gone"
    BY <1>2, <2>1 DEF SessionInv, session
  <2>. QED
    BY <2>1, <2>2 DEF SessionInv, Session!Next, Session!Fail
<1>3. CASE mState \in {"open", "closing"}
  <2>1. mState' = "closed" /\ shutdown' = "now" /\ io' = "closed"
    BY <1>3 DEF Terminate
  <2>2. session' = "left" /\ (mState = "open" => session = "open")
        /\ (mState = "closing" => session = "left")
    BY <1>3, <2>1 DEF SessionInv, session
  <2>. QED
    BY <1>3, <2>1, <2>2 DEF SessionInv, Session!Next, Session!Leave, Session!vars
<1>4. CASE mState = "closed"
  <2>1. mState' = "closed" /\ shutdown' = shutdown /\ io' = "rest"
    BY <1>4 DEF Terminate
  <2>2. session' = session
    BY <1>4, <2>1 DEF session
  <2>. QED
    BY <1>4, <2>1, <2>2 DEF SessionInv, Session!vars
<1>. QED
  BY <1>1, <1>2, <1>3, <1>4 DEF States

\* send_close_frame leaves the open state, or the closing one as it is.
LEMMA CloseFrameIsSession ==
    ASSUME ShapeInv, SessionInv, SendCloseFrame, mState \in {"open", "closing"},
           io' # "closed", UNCHANGED <<shutdown, reading, response, calls>>
    PROVE  SessionInv' /\ [Session!Next]_(Session!vars)
<1>1. mState' = "closing" /\ session' = "left"
  BY DEF SendCloseFrame, SessionInv, session
<1>2. (mState = "open" => session = "open") /\ (mState = "closing" => session = "left")
  BY DEF SessionInv, session
<1>. QED
  BY <1>1, <1>2 DEF SessionInv, Session!Next, Session!Leave, Session!vars

\* Steps that a session does not notice.
LEMMA UnnoticedSteps ==
    ASSUME SessionInv, UNCHANGED <<mState, shutdown, calls>>,
           io' = io \/ (io # "closed" /\ io' # "closed"),
           \/ UNCHANGED <<reading, response>>
           \/ reading' # "request" /\ (response' = "other" \/ response' = response \/ calls = <<>>)
    PROVE  SessionInv' /\ [Session!Next]_(Session!vars)
<1>1. session' = session
  BY DEF session
<1>2. SessionInv'
  BY DEF SessionInv
<1>. QED
  BY <1>1, <1>2 DEF Session!vars

LEMMA HandshakeIsSession ==
    ASSUME IInv, SessionInv, ReadHandshake \/ RespondHttp \/ ResponseWritten
    PROVE  SessionInv' /\ [Session!Next]_(Session!vars)
<1>1. CASE ReadHandshake
  <2>1. /\ io = "rest" /\ reading = "request" /\ reading' = "none"
        /\ calls = <<>> /\ UNCHANGED <<mState, shutdown>>
    BY <1>1 DEF ReadHandshake, IoRests, SessionInv
  <2>2. CASE UNCHANGED calls
    <3>1. io' = io
      BY <1>1, <2>1, <2>2 DEF ReadHandshake
    <3>. QED
      BY <2>1, <2>2, <3>1, UnnoticedSteps
  <2>3. CASE calls' # calls
    <3>1. mState # "closed" /\ io' = "http" /\ calls' = <<"http">> /\ response' = response
      BY <1>1, <2>1, <2>3 DEF ReadHandshake
    <3>2. mState = "connecting"
      BY <2>1, <3>1 DEF IInv, EarlyInv, Early
    <3>3. session = "new" /\ session' = "new"
      BY <2>1, <3>2 DEF SessionInv, session
    <3>4. response = "none"
      BY <2>1 DEF SessionInv
    <3>. QED
      BY <2>1, <3>1, <3>3, <3>4 DEF SessionInv, Session!Next, Session!Request
  <2>. QED
    BY <2>2, <2>3
<1>2. CASE RespondHttp
  <2>1. /\ io = "http" /\ io' = "rest" /\ response' = "other" /\ reading' = reading
        /\ UNCHANGED <<mState, shutdown, calls>>
    BY <1>2 DEF RespondHttp
  <2>2. reading = "none"
    BY <2>1 DEF IInv, EarlyInv
  <2>. QED
    BY <2>1, <2>2, UnnoticedSteps
<1>3. CASE ResponseWritten
  <2>1. /\ io = "rest" /\ writing # <<>> /\ Head(writing) = "response"
        /\ UNCHANGED <<reading, response>>
    BY <1>3 DEF ResponseWritten, IoRests
  <2>2. mState \in {"connecting", "closed"} /\ response \in {"switch", "other"}
        /\ reading = "none"
    BY <2>1 DEF IInv, ShapeInv, EarlyInv, Early
  <2>3. CASE mState = "closed"
    <3>1. UNCHANGED <<mState, io, shutdown, calls>>
      BY <1>3, <2>3 DEF ResponseWritten
    <3>. QED
      BY <2>1, <3>1, UnnoticedSteps
  <2>4. CASE mState = "connecting" /\ response = "switch"
    <3>1. calls = <<>>
      BY <2>4 DEF SessionInv
    <3>2. mState' = "open" /\ io' = "open" /\ calls' = <<"open">> /\ shutdown' = shutdown
      BY <1>3, <2>4, <3>1 DEF ResponseWritten
    <3>3. session = "new" /\ session' = "open"
      BY <2>4, <3>2 DEF SessionInv, session
    <3>. QED
      BY <2>1, <2>2, <2>4, <3>1, <3>2, <3>3 DEF SessionInv, Session!Next, Session!Open
  <2>5. CASE mState = "connecting" /\ response = "other"
    <3>1. Terminate(timers) /\ UNCHANGED calls
      BY <1>3, <2>5 DEF ResponseWritten
    <3>. QED
      BY <2>1, <3>1, TerminateIsSession DEF IInv
  <2>. QED
    BY <2>2, <2>3, <2>4, <2>5
<1>. QED
  BY <1>1, <1>2, <1>3

LEMMA FramesAreSession ==
    ASSUME IInv, SessionInv,
           OpenReturns \/ ReadFrames \/ IgnoreFrame \/ Pong \/ Acknowledge \/ ProtocolError \/ ReadOn
    PROVE  SessionInv' /\ [Session!Next]_(Session!vars)
<1>1. CASE OpenReturns \/ ReadFrames \/ IgnoreFrame \/ Pong \/ ReadOn
  <2>1. /\ UNCHANGED <<mState, shutdown, calls, response>>
        /\ io' = io \/ (io # "closed" /\ io' # "closed")
        /\ reading' = reading \/ reading' # "request"
    BY <1>1 DEF OpenReturns, ReadFrames, IgnoreFrame, Pong, ReadOn, IoRests
  <2>. QED
    BY <2>1, UnnoticedSteps
<1>2. CASE Acknowledge
  <2>1. /\ SendCloseFrame /\ mState \in {"open", "closing"} /\ io = "frames" /\ io' = io
        /\ UNCHANGED <<shutdown, reading, response, calls>>
    BY <1>2 DEF Acknowledge, NextFrame
  <2>. QED
    BY <2>1, CloseFrameIsSession DEF IInv
<1>3. CASE ProtocolError
  <2>1. io = "frames" /\ UNCHANGED <<reading, response, calls>>
    BY <1>3 DEF ProtocolError, NextFrame
  <2>2. CASE mState = "open"
    <3>1. SendCloseFrame /\ io' = "rest" /\ UNCHANGED shutdown
      BY <1>3, <2>2 DEF ProtocolError
    <3>. QED
      BY <2>1, <2>2, <3>1, CloseFrameIsSession DEF IInv
  <2>3. CASE mState # "open"
    <3>1. Terminate(timers)
      BY <1>3, <2>3 DEF ProtocolError
    <3>. QED
      BY <2>1, <3>1, TerminateIsSession DEF IInv
  <2>. QED
    BY <2>2, <2>3
<1>. QED
  BY <1>1, <1>2, <1>3

LEMMA WritingIsSession ==
    ASSUME IInv, SessionInv,
           \/ \E k \in Timers : TimeOut(k)
           \/ ReadFails \/ WriteFrame \/ FramesWritten \/ WriteFails
    PROVE  SessionInv' /\ [Session!Next]_(Session!vars)
<1>1. io = "rest"
  BY DEF TimeOut, ReadFails, WriteFrame, FramesWritten, WriteFails, IoRests
<1>2. CASE \E k \in Timers : TimeOut(k)
  <2>1. PICK k \in Timers : TimeOut(k)
    BY <1>2
  <2>2. Terminate([timers EXCEPT ![k] = "off"]) /\ UNCHANGED <<reading, calls, response>>
    BY <2>1 DEF TimeOut
  <2>. QED
    BY <1>1, <2>2, TerminateIsSession DEF IInv
<1>3. CASE ReadFails \/ WriteFails
  <2>1. Terminate(timers) /\ reading' \in {reading, "none"} /\ UNCHANGED <<calls, response>>
    BY <1>3 DEF ReadFails, WriteFails
  <2>. QED
    BY <1>1, <2>1, TerminateIsSession DEF IInv
<1>4. CASE WriteFrame
  <2>1. UNCHANGED <<mState, shutdown, calls, io, reading, response>>
    BY <1>4 DEF WriteFrame
  <2>. QED
    BY <2>1, UnnoticedSteps
<1>5. CASE FramesWritten
  <2>1. UNCHANGED <<reading, response, calls>>
    BY <1>5 DEF FramesWritten
  <2>2. CASE Terminate(timers)
    BY <1>1, <2>1, <2>2, TerminateIsSession DEF IInv
  <2>3. CASE ~ Terminate(timers)
    <3>1. UNCHANGED <<mState, io, shutdown>>
      BY <1>5, <2>3 DEF FramesWritten, Release
    <3>. QED
      BY <2>1, <3>1, UnnoticedSteps
  <2>. QED
    BY <2>2, <2>3
<1>. QED
  BY <1>2, <1>3, <1>4, <1>5

LEMMA EndIsSession ==
    ASSUME IInv, SessionInv, Closed \/ ShutdownIsLate \/ ShutdownTimeout
    PROVE  SessionInv' /\ [Session!Next]_(Session!vars)
<1>1. UNCHANGED <<mState, reading, response>>
  BY DEF Closed, ShutdownIsLate, ShutdownTimeout
<1>2. mState = "closed" /\ session = "left"
  BY DEF Closed, ShutdownIsLate, ShutdownTimeout, SessionInv, session
<1>3. reading # "request"
  BY <1>2 DEF SessionInv, session, Closed, ShutdownIsLate, ShutdownTimeout
<1>4. CASE ShutdownIsLate
  <2>1. io = "closed" /\ io' = "rest" /\ shutdown' = "late" /\ calls' = calls
    BY <1>4 DEF ShutdownIsLate
  <2>2. session' = "left"
    BY <1>1, <1>2, <2>1 DEF session
  <2>. QED
    BY <1>1, <1>2, <1>3, <2>1, <2>2 DEF SessionInv, Session!vars
<1>5. CASE Closed \/ ShutdownTimeout
  <2>1. io' = "rest" /\ shutdown' = "done" /\ calls' = Append(calls, "close")
    BY <1>5 DEF Closed, ShutdownTimeout, IoRests
  <2>2. session' = "gone"
    BY <1>1, <1>2, <2>1 DEF session
  <2>. QED
    BY <1>1, <1>2, <1>3, <2>1, <2>2 DEF SessionInv, Session!Next, Session!Close
<1>. QED
  BY <1>4, <1>5

LEMMA StepIsSession ==
    IInv /\ SessionInv /\ [Next]_vars => SessionInv' /\ [Session!Next]_(Session!vars)
<1> SUFFICES ASSUME IInv, SessionInv, [Next]_vars
             PROVE  SessionInv' /\ [Session!Next]_(Session!vars)
  OBVIOUS
<1>1. CASE \/ \E k \in Timers : Expire(k)
           \/ \E t \in Senders : Send(t) \/ SendPushes(t)
           \/ UNCHANGED vars
  <2>1. UNCHANGED <<mState, shutdown, calls, io, reading, response>>
    BY <1>1 DEF Expire, Send, SendPushes, vars
  <2>. QED
    BY <2>1, UnnoticedSteps
<1>2. CASE IoWork
  BY <1>2, HandshakeIsSession, FramesAreSession, WritingIsSession, EndIsSession DEF IoWork
<1>3. CASE Network
  BY <1>3, HandshakeIsSession, FramesAreSession, WritingIsSession DEF Network
<1>. QED
  BY <1>1, <1>2, <1>3 DEF Next

\* The safety part of ImplementsSession, for any number of threads, messages and frames:
\* whatever timers, reads, writes and senders do in which order, the WebInterface sees
\* a request, or a websocket that opens once, is left once and is reported closed once.
THEOREM SafeSession == Spec => ImplementsSafeSession
<1>1. Init => SessionInv /\ Session!Init
  BY InitSession
<1>2. IInv /\ SessionInv /\ [Next]_vars => SessionInv' /\ [Session!Next]_(Session!vars)
  BY StepIsSession
<1>. QED
  BY <1>1, <1>2, Inductive, PTL DEF Spec, ImplementsSafeSession

=============================================================================
