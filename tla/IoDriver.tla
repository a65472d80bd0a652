------------------------------ MODULE IoDriver ------------------------------
(***************************************************************************)
(* The class IoDriverGpio (src/src/iodrivergpio.cpp) with its poll thread, *)
(* and the two members of PumpControl it is tied to: the mutex             *)
(* callback_client_mutex_ and callback_client_.  IoDriverSimulation has    *)
(* the same thread with another source of levels.                          *)
(*                                                                         *)
(* The main thread holds callback_client_mutex_ for the whole of Register- *)
(* and UnregisterCallbackClient, the poll thread takes it in NewInput-     *)
(* State, and the runner's and the web server's thread whenever they tell  *)
(* the client something (holder = "other").  exit_mutex_ is held by the    *)
(* poll thread on its way into wait_for and by main for the notification   *)
(* alone, so that it needs no variable of its own.                         *)
(***************************************************************************)
EXTENDS Integers, FiniteSetsExt

CONSTANTS Inputs,    \* the input pins, in the order in which gpios_ holds them
          Outputs,   \* the output pins
          Unknown    \* a value that nobody has assigned or told

ASSUME PinsAssumption ==
    /\ Inputs \subseteq Nat /\ Outputs \cap Inputs = {}
    /\ Unknown \notin BOOLEAN

VARIABLES
    level,     \* the level at each pin, polarity included
    value,     \* GpioDesc::current_value_
    told,      \* states_["input_state_..."] of the WebInterface
    ready,     \* gpio_initialized_
    client,    \* callback_client_ of the PumpControl is set
    holder,    \* who has callback_client_mutex_
    poll,      \* where the poll thread is
    todo,      \* the inputs it still has to look at in this round
    main       \* where the main thread is

vars == <<level, value, told, ready, client, holder, poll, todo, main>>

Nobody == "nobody"
PollPlaces == {"none", "first", "tellfirst", "wait", "scan", "tell", "ended", "crashed"}
MainPlaces == {"init", "construct", "register", "registered", "serve", "unregister",
               "notify", "join", "stopped", "failed", "done"}

TypeOK ==
    /\ level \in [Inputs \cup Outputs -> BOOLEAN]
    /\ value \in [Inputs \cup Outputs -> BOOLEAN \cup {Unknown}]
    /\ told \in [Inputs -> BOOLEAN \cup {Unknown}]
    /\ ready \in BOOLEAN /\ client \in BOOLEAN
    /\ holder \in {Nobody, "main", "other"}
    /\ poll \in PollPlaces
    /\ todo \in SUBSET Inputs
    /\ main \in MainPlaces

Init ==
    /\ level \in [Inputs \cup Outputs -> BOOLEAN]
    /\ value = [i \in Inputs \cup Outputs |-> Unknown]
    /\ told = [i \in Inputs |-> Unknown]
    /\ ready = FALSE /\ client = FALSE
    /\ holder = Nobody
    /\ poll = "none" /\ todo = {}
    /\ main = "init"

-----------------------------------------------------------------------------
(* The world outside, and the other threads.                               *)

\* Somebody opens a door or presses a button.
Turn(i) ==
    /\ level' = [level EXCEPT ![i] = ~ @]
    /\ UNCHANGED <<value, told, ready, client, holder, poll, todo, main>>

\* The server's thread and the runner's live from the constructors until they are
\* joined, before the pins are released.
ServerRuns == main \notin {"init", "construct", "failed", "done"}

\* PUT /io/<name>: SetValue accepts outputs only.
SetValue(o, b) ==
    /\ ServerRuns
    /\ o \in Outputs
    /\ level' = [level EXCEPT ![o] = b]
    /\ value' = [value EXCEPT ![o] = b]
    /\ UNCHANGED <<told, ready, client, holder, poll, todo, main>>

\* Another thread tells the client something, a progress or a new state.
OtherLocks ==
    /\ ServerRuns
    /\ holder = Nobody
    /\ holder' = "other"
    /\ UNCHANGED <<level, value, told, ready, client, poll, todo, main>>

OtherUnlocks ==
    /\ holder = "other"
    /\ holder' = Nobody
    /\ UNCHANGED <<level, value, told, ready, client, poll, todo, main>>

-----------------------------------------------------------------------------
(* The poll thread.                                                        *)

\* The next input of the round.
NextInput == Min(todo)

\* gpioRead fails once the library is shut down; nobody catches the exception.
Look(at, then, reported) ==
    /\ poll = at
    /\ todo # {}
    /\ IF ready
         THEN /\ value' = [value EXCEPT ![NextInput] = level[NextInput]]
              /\ IF NextInput \in reported
                   THEN poll' = then /\ UNCHANGED todo
                   ELSE poll' = at /\ todo' = todo \ {NextInput}
         ELSE poll' = "crashed" /\ UNCHANGED <<value, todo>>
    /\ UNCHANGED <<level, told, ready, client, holder, main>>

\* The first round reports every input, the later ones those that have changed.
LookFirst == Look("first", "tellfirst", Inputs)
\* Fault: only rising inputs are reported.
ScanRising == Look("scan", "tell", {i \in Inputs : level[i] /\ ~ value[i]})
Scan == Look("scan", "tell", {i \in Inputs : level[i] # value[i]})

\* Fault: an input whose report has to wait for the mutex is not reported.
TellIfFree ==
    /\ poll \in {"tellfirst", "tell"}
    /\ told' = IF client /\ holder = Nobody THEN [told EXCEPT ![NextInput] = value[NextInput]] ELSE told
    /\ todo' = todo \ {NextInput}
    /\ poll' = IF poll = "tellfirst" THEN "first" ELSE "scan"
    /\ UNCHANGED <<level, value, ready, client, holder, main>>

\* Fault: NewInputState does not take the mutex.
TellUnlocked ==
    /\ poll \in {"tellfirst", "tell"}
    /\ told' = IF client THEN [told EXCEPT ![NextInput] = value[NextInput]] ELSE told
    /\ todo' = todo \ {NextInput}
    /\ poll' = IF poll = "tellfirst" THEN "first" ELSE "scan"
    /\ UNCHANGED <<level, value, ready, client, holder, main>>

\* PumpControl::NewInputState, with callback_client_mutex_.
Tell ==
    /\ poll \in {"tellfirst", "tell"}
    /\ holder = Nobody
    /\ told' = IF client THEN [told EXCEPT ![NextInput] = value[NextInput]] ELSE told
    /\ todo' = todo \ {NextInput}
    /\ poll' = IF poll = "tellfirst" THEN "first" ELSE "scan"
    /\ UNCHANGED <<level, value, ready, client, holder, main>>

\* The end of a round: wait_for releases exit_mutex_ and waits.
Rest ==
    /\ poll \in {"first", "scan"}
    /\ todo = {}
    /\ poll' = "wait"
    /\ UNCHANGED <<level, value, told, ready, client, holder, todo, main>>

\* The 50 ms are over.
Timeout ==
    /\ poll = "wait"
    /\ poll' = "scan"
    /\ todo' = Inputs
    /\ UNCHANGED <<level, value, told, ready, client, holder, main>>

\* A spurious wake-up is taken for the notification.
SpuriousWake ==
    /\ poll = "wait"
    /\ poll' = "ended"
    /\ UNCHANGED <<level, value, told, ready, client, holder, todo, main>>

-----------------------------------------------------------------------------
(* The main thread.                                                        *)

\* IoDriverGpio::Init sets up the pins and drives the outputs low.  It works on
\* copies of the descriptions: current_value_ stays unassigned.
Initialise ==
    /\ main = "init"
    /\ ready' = TRUE
    /\ level' = [i \in Inputs \cup Outputs |-> i \in Inputs /\ level[i]]
    /\ main' = "construct"
    /\ UNCHANGED <<value, told, client, holder, poll, todo>>

\* An invalid configuration, a library that does not start or a pin that refuses its
\* mode: Init throws, and the outputs may have been driven low or not.
InitialiseFails ==
    /\ main = "init"
    /\ level' \in {level, [i \in Inputs \cup Outputs |-> i \in Inputs /\ level[i]]}
    /\ main' = "failed"
    /\ UNCHANGED <<value, told, ready, client, holder, poll, todo>>

\* The constructors: the port may be taken, and then nothing is registered.
Construct ==
    /\ main = "construct"
    /\ main' \in {"register", "failed"}
    /\ UNCHANGED <<level, value, told, ready, client, holder, poll, todo>>

\* RegisterCallbackClient: with the mutex held, the driver starts its thread.
Register ==
    /\ main = "register" /\ holder = Nobody
    /\ holder' = "main"
    /\ client' = TRUE
    /\ poll' = "first" /\ todo' = Inputs
    /\ main' = "registered"
    /\ UNCHANGED <<level, value, told, ready>>

Registered ==
    /\ main = "registered"
    /\ holder' = Nobody
    /\ main' = "serve"
    /\ UNCHANGED <<level, value, told, ready, client, poll, todo>>

Signal ==
    /\ main = "serve"
    /\ main' = "unregister"
    /\ UNCHANGED <<level, value, told, ready, client, holder, poll, todo>>

\* UnregisterCallbackClient takes the mutex ...
Unregister ==
    /\ main = "unregister" /\ holder = Nobody
    /\ holder' = "main"
    /\ main' = "notify"
    /\ UNCHANGED <<level, value, told, ready, client, poll, todo>>

\* ... notifies the poll thread, which is lost unless it waits ...
Notify ==
    /\ main = "notify"
    /\ poll' = IF poll = "wait" THEN "ended" ELSE poll
    /\ main' = "join"
    /\ UNCHANGED <<level, value, told, ready, client, holder, todo>>

\* Fault: the thread is not joined.
JoinNobody ==
    /\ main = "join"
    /\ client' = FALSE
    /\ holder' = Nobody
    /\ main' = "stopped"
    /\ UNCHANGED <<level, value, told, ready, poll, todo>>

\* ... and joins it.
Join ==
    /\ main = "join"
    /\ poll = "ended"
    /\ client' = FALSE
    /\ holder' = Nobody
    /\ main' = "stopped"
    /\ UNCHANGED <<level, value, told, ready, poll, todo>>

\* The other threads are joined, then the pins are released, if they have been set up.
DeInit ==
    /\ main \in {"stopped", "failed"}
    /\ holder = Nobody
    /\ ready' = FALSE
    /\ main' = "done"
    /\ UNCHANGED <<level, value, told, client, holder, poll, todo>>

-----------------------------------------------------------------------------

PollThread == LookFirst \/ Scan \/ Tell \/ Rest \/ Timeout
MainThread ==
    \/ Initialise \/ InitialiseFails \/ Construct \/ Register \/ Registered
    \/ Unregister \/ Notify \/ Join \/ DeInit

Next ==
    \/ \E i \in Inputs : Turn(i)
    \/ \E o \in Outputs, b \in BOOLEAN : SetValue(o, b)
    \/ OtherLocks \/ OtherUnlocks
    \/ PollThread \/ SpuriousWake
    \/ MainThread \/ Signal

\* Every thread is scheduled, and who finds the mutex free again and again gets it.
Fairness ==
    /\ WF_vars(PollThread) /\ SF_vars(Tell)
    /\ WF_vars(OtherUnlocks)
    /\ WF_vars(MainThread) /\ SF_vars(Register) /\ SF_vars(Unregister) /\ SF_vars(DeInit)

Spec == Init /\ [][Next]_vars /\ Fairness

-----------------------------------------------------------------------------

\* Whenever the poll thread rests, the clients know the value of every input, however
\* long its reports had to wait for the mutex.
RestingIsTold == poll = "wait" /\ client => \A i \in Inputs : told[i] = value[i]

\* The poll thread never reads a pin that has been released: an exception on it would
\* end the process with the pumps running.
NeverCrashes == poll # "crashed"

\* A client that unregisters is not called any more, whatever the poll thread is doing.
QuietAfterUnregister ==
    [][(main \in {"notify", "join", "stopped", "done"}) => UNCHANGED told]_vars

\* Every turn of an input reaches the clients, unless it is turned back before, the
\* client unregisters, or a spurious wake-up has ended the poll thread.
TurnsAreTold ==
    \A i \in Inputs :
        client /\ told[i] # level[i] ~>
            told[i] = level[i] \/ poll = "ended" \/ main \notin {"registered", "serve"}

\* The destructor of the WebInterface gets through UnregisterCallbackClient.  The code
\* breaks this: the notification is lost on a poll thread that is looking at its
\* pins, and if that thread has a change to report it waits for the mutex that main
\* holds while joining it.
UnregisterReturns == main = "unregister" ~> main = "stopped"
=============================================================================
