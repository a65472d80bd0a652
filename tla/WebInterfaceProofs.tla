------------------------- MODULE WebInterfaceProofs -------------------------
(***************************************************************************)
(* Theorems about WebInterface, for every set of threads, clients and keys *)
(* and any number of messages: what its clients have received.             *)
(***************************************************************************)
EXTENDS WebInterface, TLAPS

\* One thread is in a callback at a time, with the message it has made last; the
\* server's thread is in no handler of a connection then.
CallInv ==
    /\ \A t, u \in caller : t = u
    /\ \A t \in Threads : t \in caller <=> calls[t] # NoCall
    /\ "web" \in caller => web = "rest"
    /\ \A t \in Threads : calls[t] # NoCall /\ calls[t].key \in Keys =>
          /\ calls[t].number = made[calls[t].key]
          /\ calls[t].at = "send" => states[calls[t].key] = calls[t].number

\* A callback is on its way to send this state of k.
OnItsWay(k) == \E t \in Threads : calls[t] # NoCall /\ calls[t].at = "send" /\ calls[t].key = k

\* OnOpen is going to send it.
ToReplay(k) == web = "opened" \/ (web = "replay" /\ k \in replay)

\* A client has no newer message than states_, and the newest unless it is to be sent.
ClientInv ==
    /\ \A c \in Clients, k \in Keys : got[c][k] <= states[k]
    /\ \A c \in connections, k \in Keys :
          got[c][k] = states[k] \/ OnItsWay(k) \/ ToReplay(k)

StatesInv == \A k \in Keys : states[k] <= made[k]

IInv == TypeOK /\ CallInv /\ StatesInv /\ (~ crashed => ClientInv)

-----------------------------------------------------------------------------

\* Init establishes the invariant.
LEMMA InitInv == Init => IInv
<1> SUFFICES ASSUME Init PROVE IInv
  OBVIOUS
<1>1. TypeOK
  <2>1. 0 \in 0 .. MaxMessages
    BY WebAssumption
  <2>2. calls \in [Threads -> Calls]
    BY DEF Init, Calls
  <2>. QED
    BY <2>1, <2>2 DEF Init, TypeOK
<1>2. CallInv /\ ClientInv /\ StatesInv
  BY DEF Init, CallInv, ClientInv, StatesInv
<1>. QED
  BY <1>1, <1>2 DEF IInv

\* What a message does: every connection has it, or the exception ends the process.
LEMMA Sending ==
    ASSUME TypeOK, NEW k \in Keys \cup {Event}, NEW n \in 0 .. MaxMessages, SendMessage(k, n)
    PROVE  /\ got' \in [Clients -> [Keys -> 0 .. MaxMessages]]
           /\ crashed' \in BOOLEAN
           /\ \A c \in Clients, j \in Keys : got'[c][j] = got[c][j] \/ (j = k /\ got'[c][j] = n)
           /\ crashed' \/ \A c \in connections : k \in Keys => got'[c][k] = n
           /\ crashed => crashed'
<1>1. CASE \A c \in connections : session[c] = "open"
  <2>1. /\ got' = [c \in Clients |-> IF c \in connections /\ k \in Keys THEN [got[c] EXCEPT ![k] = n]
                                     ELSE got[c]]
        /\ UNCHANGED crashed
    BY <1>1 DEF SendMessage
  <2>2. \A c \in Clients : got'[c] = IF c \in connections /\ k \in Keys THEN [got[c] EXCEPT ![k] = n]
                                     ELSE got[c]
    BY <2>1
  <2>3. \A c \in Clients : got'[c] \in [Keys -> 0 .. MaxMessages]
    BY <2>2 DEF TypeOK
  <2>4. got' \in [Clients -> [Keys -> 0 .. MaxMessages]]
    BY <2>1, <2>3
  <2>5. \A c \in Clients, j \in Keys : got'[c][j] = got[c][j] \/ (j = k /\ got'[c][j] = n)
    BY <2>2 DEF TypeOK
  <2>6. \A c \in connections : k \in Keys => got'[c][k] = n
    BY <2>2 DEF TypeOK
  <2>. QED
    BY <2>1, <2>4, <2>5, <2>6 DEF TypeOK
<1>2. CASE ~ \A c \in connections : session[c] = "open"
  BY <1>2 DEF SendMessage, TypeOK
<1>. QED
  BY <1>1, <1>2

LEMMA CallKeepsInv ==
    ASSUME IInv, NEW t \in Threads, NEW k \in Keys \cup {Event}, Call(t, k)
    PROVE  IInv'
<1>1. caller = {} /\ Make(t, k)
  BY DEF Call
<1>2. calls = [u \in Threads |-> NoCall]
  BY <1>1 DEF IInv, TypeOK, CallInv
<1>3. CASE k \in Keys
  <2>1. /\ made[k] < MaxMessages
        /\ made' = [made EXCEPT ![k] = @ + 1]
        /\ calls' = [calls EXCEPT ![t] = [at |-> "set", key |-> k, number |-> made[k] + 1]]
    BY <1>1, <1>3 DEF Make, IInv, TypeOK
  <2>2. made[k] + 1 \in 0 .. MaxMessages
    BY <1>3, <2>1, WebAssumption DEF IInv, TypeOK
  <2>3. calls'[t] \in Calls /\ calls'[t] # NoCall
    BY <1>2, <1>3, <2>1, <2>2 DEF Calls, NoCall
  <2>4. TypeOK'
    BY <1>1, <1>3, <2>1, <2>2, <2>3 DEF IInv, TypeOK, Make
  <2>5. CallInv'
    BY <1>1, <1>2, <1>3, <2>1, <2>2, <2>3 DEF IInv, TypeOK, CallInv, Make, WebRests
  <2>6. StatesInv'
    BY <1>1, <1>3, <2>1 DEF IInv, TypeOK, StatesInv, Make
  <2>7. ~ crashed' => ClientInv'
    BY <1>1, <1>2 DEF IInv, ClientInv, OnItsWay, ToReplay, Make
  <2>. QED
    BY <2>4, <2>5, <2>6, <2>7 DEF IInv
<1>4. CASE k \notin Keys
  <2>1. /\ calls' = [calls EXCEPT ![t] = [at |-> "send", key |-> k, number |-> 0]]
        /\ UNCHANGED made
    BY <1>1, <1>4 DEF Make
  <2>2. calls'[t] \in Calls /\ calls'[t] # NoCall
    BY <1>2, <2>1, WebAssumption DEF Calls, NoCall
  <2>3. TypeOK'
    BY <1>1, <2>1, <2>2 DEF IInv, TypeOK, Make
  <2>4. CallInv'
    BY <1>1, <1>2, <1>4, <2>1, <2>2 DEF IInv, TypeOK, CallInv, Make, WebRests
  <2>5. StatesInv' /\ (~ crashed' => ClientInv')
    BY <1>1, <1>2, <2>1 DEF IInv, ClientInv, StatesInv, OnItsWay, ToReplay, Make
  <2>. QED
    BY <2>3, <2>4, <2>5 DEF IInv
<1>. QED
  BY <1>3, <1>4

\* The state of a callback, and that of the other threads, which are in none.
LEMMA TheCall ==
    ASSUME IInv, NEW t \in Threads, calls[t] # NoCall
    PROVE  /\ t \in caller
           /\ calls[t].at \in {"set", "send"}
           /\ calls[t].key \in Keys \cup {Event}
           /\ calls[t].number \in 0 .. MaxMessages
           /\ \A u \in Threads \ {t} : calls[u] = NoCall
BY DEF IInv, TypeOK, CallInv, Calls

LEMMA SetStateKeepsInv ==
    ASSUME IInv, NEW t \in Threads, calls[t] # NoCall, SetState(t)
    PROVE  IInv'
<1> DEFINE k == calls[t].key
           n == calls[t].number
<1>1. /\ n \in 0 .. MaxMessages
      /\ \A u \in Threads \ {t} : calls[u] = NoCall
  BY TheCall
<1>2. calls[t] \in [at : {"set", "send"}, key : Keys \cup {Event}, number : 0 .. MaxMessages]
  BY DEF IInv, TypeOK, Calls
<1>3. calls'[t] = [at |-> "send", key |-> k, number |-> n]
  BY <1>2 DEF SetState, IInv, TypeOK
<1>4. calls'[t] \in Calls /\ calls'[t] # NoCall
  BY <1>2, <1>3 DEF Calls, NoCall
<1>5. \A u \in Threads \ {t} : calls'[u] = NoCall
  BY <1>1 DEF SetState, IInv, TypeOK
<1>6. TypeOK'
  BY <1>1, <1>4 DEF SetState, IInv, TypeOK
<1>7. k \in Keys => n = made[k] /\ states'[k] = n
  BY DEF SetState, IInv, CallInv, TypeOK
<1>8. \A j \in Keys : states[j] <= states'[j] /\ (j # k => states'[j] = states[j])
  BY <1>7 DEF SetState, IInv, StatesInv, TypeOK
<1>9. CallInv'
  BY <1>3, <1>4, <1>5, <1>7, TheCall DEF SetState, IInv, CallInv
<1>10. StatesInv'
  <2>1. \A j \in Keys : states[j] <= made[j] /\ made[j] \in Nat
    BY DEF IInv, StatesInv, TypeOK
  <2>2. \A j \in Keys : states'[j] <= made[j]
    BY <1>7, <1>8, <2>1
  <2>. QED
    BY <2>2 DEF StatesInv, SetState
<1>11. ASSUME ~ crashed' PROVE ClientInv'
  <2>1. ClientInv
    BY <1>11 DEF SetState, IInv
  <2>2. \A j \in Keys : ~ OnItsWay(j)
    BY <1>1 DEF OnItsWay, SetState
  <2>3. \A c \in Clients, j \in Keys : got[c][j] \in Nat /\ states[j] \in Nat /\ states'[j] \in Nat
    BY <1>6 DEF IInv, TypeOK
  <2>4. \A c \in Clients, j \in Keys : got'[c][j] <= states'[j]
    BY <1>8, <2>1, <2>3 DEF ClientInv, SetState
  <2>5. OnItsWay(k)'
    BY <1>3, <1>4 DEF OnItsWay
  <2>6. \A j \in Keys : ToReplay(j) => ToReplay(j)'
    BY DEF ToReplay, SetState
  <2>7. \A c \in connections', j \in Keys : got'[c][j] = states'[j] \/ OnItsWay(j)' \/ ToReplay(j)'
    BY <1>8, <2>1, <2>2, <2>5, <2>6 DEF ClientInv, SetState
  <2>. QED
    BY <2>4, <2>7 DEF ClientInv
<1>. QED
  BY <1>6, <1>9, <1>10, <1>11 DEF IInv

LEMMA SendKeepsInv ==
    ASSUME IInv, NEW t \in Threads, calls[t] # NoCall, Send(t)
    PROVE  IInv'
<1> DEFINE k == calls[t].key
           n == calls[t].number
<1>1. /\ t \in caller /\ k \in Keys \cup {Event} /\ n \in 0 .. MaxMessages
      /\ \A u \in Threads \ {t} : calls[u] = NoCall
  BY TheCall
<1>2. \A u \in Threads : calls'[u] = NoCall
  BY <1>1 DEF Send, IInv, TypeOK
<1>3. caller' = {}
  BY <1>1 DEF Send, IInv, CallInv
<1>4. SendMessage(k, n) /\ TypeOK
  BY DEF Send, IInv
<1>5. /\ got' \in [Clients -> [Keys -> 0 .. MaxMessages]] /\ crashed' \in BOOLEAN
      /\ \A c \in Clients, j \in Keys : got'[c][j] = got[c][j] \/ (j = k /\ got'[c][j] = n)
      /\ crashed' \/ \A c \in connections : k \in Keys => got'[c][k] = n
      /\ crashed => crashed'
  BY <1>1, <1>4, Sending
<1>6. TypeOK'
  <2>1. calls' \in [Threads -> Calls]
    BY DEF Send, IInv, TypeOK, Calls
  <2>. QED
    BY <1>3, <1>5, <2>1 DEF Send, IInv, TypeOK
<1>7. CallInv'
  BY <1>2, <1>3 DEF CallInv
<1>8. StatesInv'
  BY DEF Send, IInv, StatesInv
<1>9. k \in Keys => states[k] = n
  BY DEF Send, IInv, CallInv
<1>10. ASSUME ~ crashed' PROVE ClientInv'
  <2>1. ClientInv
    BY <1>5, <1>10 DEF IInv
  <2>2. \A c \in Clients, j \in Keys : got'[c][j] <= states[j]
    <3>1. \A j \in Keys : states[j] \in Nat
      BY DEF IInv, TypeOK
    <3>. QED
      BY <1>5, <1>9, <2>1, <3>1 DEF ClientInv
  <2>3. \A j \in Keys \ {k} : ~ OnItsWay(j)
    BY <1>1 DEF OnItsWay
  <2>4. connections \subseteq Clients
    BY DEF IInv, TypeOK
  <2>5. \A c \in connections, j \in Keys : got'[c][j] = states[j] \/ ToReplay(j)
    BY <1>5, <1>9, <1>10, <2>1, <2>3, <2>4 DEF ClientInv
  <2>. QED
    BY <2>2, <2>5 DEF ClientInv, ToReplay, Send
<1>. QED
  BY <1>6, <1>7, <1>8, <1>10 DEF IInv

-----------------------------------------------------------------------------

LEMMA OnOpenKeepsInv == ASSUME IInv, NEW c \in Clients, OnOpen(c) PROVE IInv'
<1>1. TypeOK' /\ CallInv' /\ StatesInv'
  BY DEF OnOpen, IInv, TypeOK, CallInv, StatesInv, WebRests
<1>2. ~ crashed' => ClientInv'
  BY DEF OnOpen, IInv, ClientInv, ToReplay
<1>. QED
  BY <1>1, <1>2 DEF IInv

LEMMA LockStatesKeepsInv == ASSUME IInv, LockStates PROVE IInv'
<1>1. TypeOK' /\ CallInv' /\ StatesInv'
  BY DEF LockStates, IInv, TypeOK, CallInv, StatesInv
<1>2. ASSUME ~ crashed' PROVE ClientInv'
  <2>1. ClientInv
    BY <1>2 DEF LockStates, IInv
  <2>2. \A c \in connections, k \in Keys : got[c][k] \in Nat /\ states[k] \in Nat /\ c \in Clients
    BY DEF IInv, TypeOK
  <2>3. \A k \in Keys : ToReplay(k)' \/ states[k] = 0
    BY DEF ToReplay, LockStates
  <2>4. \A c \in connections, k \in Keys : got[c][k] = states[k] \/ ToReplay(k)'
    BY <2>1, <2>2, <2>3 DEF ClientInv
  <2>. QED
    BY <2>1, <2>4 DEF ClientInv, LockStates
<1>. QED
  BY <1>1, <1>2 DEF IInv

LEMMA ReplayKeepsInv == ASSUME IInv, Replay PROVE IInv'
<1>1. CASE replay = {}
  <2>1. TypeOK' /\ CallInv' /\ StatesInv'
    BY <1>1 DEF Replay, IInv, TypeOK, CallInv, StatesInv
  <2>2. ~ crashed' => ClientInv'
    BY <1>1 DEF Replay, IInv, ClientInv, OnItsWay, ToReplay
  <2>. QED
    BY <2>1, <2>2 DEF IInv
<1>2. CASE replay # {}
  <2>1. PICK k \in replay : SendMessage(k, states[k]) /\ replay' = replay \ {k} /\ UNCHANGED web
    BY <1>2 DEF Replay
  <2>2. k \in Keys /\ states[k] \in 0 .. MaxMessages /\ TypeOK
    BY DEF IInv, TypeOK
  <2>3. /\ got' \in [Clients -> [Keys -> 0 .. MaxMessages]] /\ crashed' \in BOOLEAN
        /\ \A c \in Clients, j \in Keys : got'[c][j] = got[c][j] \/ (j = k /\ got'[c][j] = states[k])
        /\ crashed' \/ \A c \in connections : got'[c][k] = states[k]
        /\ crashed => crashed'
    BY <2>1, <2>2, Sending
  <2>4. TypeOK' /\ CallInv' /\ StatesInv'
    BY <2>1, <2>3 DEF Replay, IInv, TypeOK, CallInv, StatesInv
  <2>5. ASSUME ~ crashed' PROVE ClientInv'
    <3>1. ClientInv
      BY <2>3, <2>5 DEF IInv
    <3>2. connections \subseteq Clients /\ \A j \in Keys : states[j] \in Nat
      BY DEF IInv, TypeOK
    <3>3. \A c \in Clients, j \in Keys : got'[c][j] <= states[j]
      BY <2>3, <3>1, <3>2 DEF ClientInv
    <3>4. \A j \in Keys \ {k} : ToReplay(j) => ToReplay(j)'
      BY <2>1 DEF ToReplay
    <3>5. \A j \in Keys : OnItsWay(j)' = OnItsWay(j)
      BY DEF OnItsWay, Replay
    <3>6. \A c \in connections, j \in Keys : got'[c][j] = states[j] \/ OnItsWay(j)' \/ ToReplay(j)'
      BY <2>3, <2>5, <3>1, <3>2, <3>4, <3>5 DEF ClientInv
    <3>. QED
      BY <3>3, <3>6 DEF ClientInv, Replay
  <2>. QED
    BY <2>4, <2>5 DEF IInv
<1>. QED
  BY <1>1, <1>2

LEMMA DisconnectKeepsInv == ASSUME IInv, NEW c \in Clients, Disconnect(c) PROVE IInv'
BY DEF Disconnect, IInv, TypeOK, CallInv, StatesInv, ClientInv, OnItsWay, ToReplay

LEMMA OnCloseKeepsInv == ASSUME IInv, NEW c \in Clients, OnClose(c) PROVE IInv'
<1>1. got' = [got EXCEPT ![c] = [k \in Keys |-> 0]] /\ got'[c] = [k \in Keys |-> 0]
  BY DEF OnClose, IInv, TypeOK
<1>2. TypeOK' /\ CallInv' /\ StatesInv'
  BY <1>1, WebAssumption DEF OnClose, IInv, TypeOK, CallInv, StatesInv
<1>3. ASSUME ~ crashed' PROVE ClientInv'
  <2>1. ClientInv
    BY <1>3 DEF OnClose, IInv
  <2>2. \A d \in Clients, k \in Keys : states[k] \in Nat /\ (d # c => got'[d][k] = got[d][k])
    BY <1>1 DEF IInv, TypeOK
  <2>3. \A d \in Clients, k \in Keys : got'[d][k] <= states[k]
    BY <1>1, <2>1, <2>2 DEF ClientInv
  <2>4. \A d \in connections' : d \in connections /\ d # c /\ d \in Clients
    BY DEF OnClose, IInv, TypeOK
  <2>. QED
    BY <2>1, <2>2, <2>3, <2>4 DEF ClientInv, OnClose, OnItsWay, ToReplay
<1>. QED
  BY <1>2, <1>3 DEF IInv

LEMMA Invariance == Spec => []IInv
<1>1. ASSUME IInv, [Next]_vars PROVE IInv'
  <2> USE <1>1
  <2>1. ASSUME NEW t \in Threads, NEW k \in Keys \cup {Event}, Call(t, k) PROVE IInv'
    BY <2>1, CallKeepsInv
  <2>2. ASSUME NEW c \in Clients, OnOpen(c) \/ Disconnect(c) \/ OnClose(c) PROVE IInv'
    BY <2>2, OnOpenKeepsInv, DisconnectKeepsInv, OnCloseKeepsInv
  <2>3. CASE LockStates \/ Replay
    BY <2>3, LockStatesKeepsInv, ReplayKeepsInv
  <2>4. ASSUME NEW t \in Threads, SetState(t) \/ Send(t) PROVE IInv'
    <3>1. calls[t] # NoCall
      BY <2>4 DEF SetState, Send, NoCall
    <3>. QED
      BY <2>4, <3>1, SetStateKeepsInv, SendKeepsInv
  <2>5. CASE UNCHANGED vars
    BY <2>5 DEF vars, IInv, TypeOK, CallInv, StatesInv, ClientInv, OnItsWay, ToReplay
  <2>. QED
    BY <2>1, <2>2, <2>3, <2>4, <2>5 DEF Next, Events, Work, WebWork
<1>. QED
  BY <1>1, InitInv, PTL DEF Spec

\* Every variable keeps its type.
THEOREM TypeCorrect == Spec => []TypeOK
<1>1. IInv => TypeOK
  BY DEF IInv
<1>. QED
  BY <1>1, Invariance, PTL

\* However connections and messages are interleaved, a client that is connected has the
\* last message of every key once no message is on its way.
THEOREM ClientsHaveStates == Spec => []ClientsAreCurrent
<1>1. ASSUME IInv PROVE ClientsAreCurrent
  <2> SUFFICES ASSUME WebRests, caller = {}, ~ crashed, NEW c \in connections PROVE got[c] = states
    BY DEF ClientsAreCurrent
  <2>1. got[c] \in [Keys -> 0 .. MaxMessages] /\ states \in [Keys -> 0 .. MaxMessages]
    BY <1>1 DEF IInv, TypeOK
  <2>2. \A k \in Keys : ~ OnItsWay(k) /\ ~ ToReplay(k)
    BY <1>1 DEF IInv, CallInv, OnItsWay, ToReplay, WebRests
  <2>3. \A k \in Keys : got[c][k] = states[k]
    BY <1>1, <2>2 DEF IInv, ClientInv
  <2>. QED
    BY <2>1, <2>3
<1>. QED
  BY <1>1, Invariance, PTL

\* A client never receives an older message after a newer one.
THEOREM NothingIsStale == Spec => NoStaleMessage
<1>1. ASSUME IInv, [Next]_vars
      PROVE  [\A c \in connections \cap connections', k \in Keys : got'[c][k] >= got[c][k]]_vars
  <2> SUFFICES ASSUME Next, NEW c \in connections \cap connections', NEW k \in Keys
               PROVE  got'[c][k] >= got[c][k]
    BY <1>1
  <2>1. c \in Clients /\ got[c][k] \in Nat /\ states[k] \in Nat
    BY <1>1 DEF IInv, TypeOK
  <2>2. CASE UNCHANGED got
    BY <2>1, <2>2
  <2>3. ASSUME ~ crashed, NEW j \in Keys \cup {Event}, NEW n \in 0 .. MaxMessages,
               SendMessage(j, n), j \in Keys => n = states[j]
        PROVE  got'[c][k] >= got[c][k]
    <3>1. got'[c][k] = got[c][k] \/ (k = j /\ got'[c][k] = states[k])
      BY <1>1, <2>1, <2>3, Sending DEF IInv
    <3>2. got[c][k] <= states[k]
      BY <1>1, <2>1, <2>3 DEF IInv, ClientInv
    <3>. QED
      BY <2>1, <3>1, <3>2
  <2>4. ASSUME ~ crashed, NEW t \in Threads, Send(t) PROVE got'[c][k] >= got[c][k]
    <3>1. calls[t] # NoCall
      BY <2>4 DEF Send, NoCall
    <3>2. calls[t].key \in Keys \cup {Event} /\ calls[t].number \in 0 .. MaxMessages
      BY <1>1, <3>1, TheCall
    <3>3. SendMessage(calls[t].key, calls[t].number)
      BY <2>4 DEF Send
    <3>4. calls[t].key \in Keys => calls[t].number = states[calls[t].key]
      BY <1>1, <2>4, <3>1 DEF IInv, CallInv, Send
    <3>. QED
      BY <2>3, <2>4, <3>2, <3>3, <3>4
  <2>5. ASSUME ~ crashed, Replay PROVE got'[c][k] >= got[c][k]
    <3>1. CASE replay = {}
      BY <2>2, <2>5, <3>1 DEF Replay
    <3>2. CASE replay # {}
      <4>1. PICK j \in replay : SendMessage(j, states[j])
        BY <2>5, <3>2 DEF Replay
      <4>2. j \in Keys /\ states[j] \in 0 .. MaxMessages
        BY <1>1 DEF IInv, TypeOK
      <4>. QED
        BY <2>3, <2>5, <4>1, <4>2
    <3>. QED
      BY <3>1, <3>2
  <2>6. ASSUME NEW d \in Clients, OnClose(d) PROVE got'[c][k] >= got[c][k]
    <3>1. c # d
      BY <2>6 DEF OnClose
    <3>2. got'[c] = got[c]
      BY <1>1, <2>1, <2>6, <3>1 DEF OnClose, IInv, TypeOK
    <3>. QED
      BY <2>1, <3>2
  <2>7. ASSUME NEW t \in Threads, NEW j \in Keys \cup {Event}, Call(t, j) PROVE UNCHANGED got
    BY <2>7 DEF Call, Make
  <2>8. ASSUME NEW d \in Clients, OnOpen(d) \/ Disconnect(d) PROVE UNCHANGED got
    BY <2>8 DEF OnOpen, Disconnect
  <2>9. ASSUME NEW t \in Threads, SetState(t) PROVE UNCHANGED got
    BY <2>9 DEF SetState
  <2>10. LockStates \/ UNCHANGED vars => UNCHANGED got
    BY DEF LockStates, vars
  <2>. QED
    BY <2>2, <2>4, <2>5, <2>6, <2>7, <2>8, <2>9, <2>10 DEF Next, Events, Work, WebWork
<1>. QED
  BY <1>1, Invariance, PTL DEF Spec, NoStaleMessage
=============================================================================
