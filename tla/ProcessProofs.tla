--------------------------- MODULE ProcessProofs ---------------------------
(***************************************************************************)
(* Theorems about IoDriver and Process, for every set of inputs and        *)
(* outputs: the pins in the life of the driver; that this holds of the     *)
(* process; and that the users of the gpio library are counted rightly.    *)
(***************************************************************************)
EXTENDS Process, WellFoundedInduction, TLAPS

(***************************************************************************)
(* The driver.                                                             *)
(***************************************************************************)
\* The poll thread exists from the registration until it has been joined.
ThreadInv == main \notin {"registered", "serve", "unregister", "notify", "join"}
                => poll \in {"none", "ended"}

\* The pins are set up from Initialise until DeInit.
ReadyInv == main \notin {"init", "failed", "done"} => ready

\* Main has the mutex exactly while it registers and unregisters.
HolderInv == holder = "main" <=> main \in {"registered", "notify", "join"}

\* The inductive invariant: no pin is read without being set up, because the thread
\* that reads them only exists in between.
IInv ==
    /\ main \in MainPlaces
    /\ ThreadInv
    /\ ReadyInv
    /\ HolderInv
    /\ NeverCrashes

\* The initial state satisfies it.
LEMMA InitIInv == Init => IInv
BY DEF Init, IInv, MainPlaces, ThreadInv, ReadyInv, HolderInv, NeverCrashes, Nobody

\* The inputs, the outputs and the threads that call the client preserve it.
LEMMA OthersKeepIInv ==
    ASSUME IInv,
           \/ \E i \in Inputs : Turn(i)
           \/ \E o \in Outputs, b \in BOOLEAN : SetValue(o, b)
           \/ OtherLocks \/ OtherUnlocks
    PROVE  IInv'
<1>1. UNCHANGED <<ready, poll, main>>
  BY DEF Turn, SetValue, OtherLocks, OtherUnlocks
<1>2. HolderInv'
  <2>1. CASE \E i \in Inputs : Turn(i)
    BY <2>1 DEF Turn, IInv, HolderInv
  <2>2. CASE \E o \in Outputs, b \in BOOLEAN : SetValue(o, b)
    BY <2>2 DEF SetValue, IInv, HolderInv
  <2>3. CASE OtherLocks \/ OtherUnlocks
    BY <2>3 DEF OtherLocks, OtherUnlocks, IInv, HolderInv, Nobody
  <2>. QED
    BY <2>1, <2>2, <2>3
<1>. QED
  BY <1>1, <1>2 DEF IInv, ThreadInv, ReadyInv, NeverCrashes

\* The poll thread preserves it: it only runs while the pins are set up.
LEMMA PollKeepsIInv == ASSUME IInv, PollThread \/ SpuriousWake PROVE IInv'
<1>1. UNCHANGED <<ready, holder, main>>
  BY DEF PollThread, SpuriousWake, LookFirst, Scan, Look, Tell, Rest, Timeout
<1>2. poll \notin {"none", "ended"}
  BY DEF PollThread, SpuriousWake, LookFirst, Scan, Look, Tell, Rest, Timeout
<1>3. ready
  BY <1>2 DEF IInv, ThreadInv, ReadyInv
<1>4. poll' # "crashed"
  BY <1>3 DEF PollThread, SpuriousWake, LookFirst, Scan, Look, Tell, Rest, Timeout
<1>. QED
  BY <1>1, <1>2, <1>4 DEF IInv, ThreadInv, ReadyInv, HolderInv, NeverCrashes

\* The main thread preserves it: it releases the pins after the join.
LEMMA MainKeepsIInv == ASSUME IInv, MainThread \/ Signal PROVE IInv'
<1> USE DEF IInv, MainPlaces, ThreadInv, ReadyInv, HolderInv, NeverCrashes, Nobody
<1>1. CASE Initialise \/ InitialiseFails
  BY <1>1 DEF Initialise, InitialiseFails
<1>2. CASE Construct
  BY <1>2 DEF Construct
<1>3. CASE Register \/ Registered
  BY <1>3 DEF Register, Registered
<1>4. CASE Signal \/ Unregister
  BY <1>4 DEF Signal, Unregister
<1>5. CASE Notify
  BY <1>5 DEF Notify
<1>6. CASE Join
  BY <1>6 DEF Join
<1>7. CASE DeInit
  BY <1>7 DEF DeInit
<1>. QED
  BY <1>1, <1>2, <1>3, <1>4, <1>5, <1>6, <1>7 DEF MainThread

\* Every step preserves it.
LEMMA StepKeepsIInv == ASSUME IInv, [Next]_vars PROVE IInv'
<1>1. CASE UNCHANGED vars
  BY <1>1 DEF IInv, ThreadInv, ReadyInv, HolderInv, NeverCrashes, vars
<1>. QED
  BY <1>1, OthersKeepIInv, PollKeepsIInv, MainKeepsIInv DEF Next

\* The invariant holds always, fairness or not.
LEMMA Invariance == Init /\ [][Next]_vars => []IInv
BY InitIInv, StepKeepsIInv, PTL

-----------------------------------------------------------------------------

\* No variable leaves its type; a pin is only ever told what has been read.
THEOREM TypeCorrect == Spec => []TypeOK
<1>1. Init => TypeOK
  BY DEF Init, TypeOK, PollPlaces, MainPlaces, Nobody
<1>2. ASSUME TypeOK, [Next]_vars PROVE TypeOK'
  <2> USE <1>2 DEF TypeOK
  <2>1. CASE \E i \in Inputs : Turn(i)
    BY <2>1 DEF Turn
  <2>2. CASE \E o \in Outputs, b \in BOOLEAN : SetValue(o, b)
    BY <2>2 DEF SetValue
  <2>3. CASE OtherLocks \/ OtherUnlocks
    BY <2>3 DEF OtherLocks, OtherUnlocks, Nobody
  <2>4. CASE LookFirst \/ Scan
    <3>1. /\ value' \in [Inputs \cup Outputs -> BOOLEAN \cup {Unknown}]
          /\ todo' \in SUBSET Inputs
      BY <2>4 DEF LookFirst, Scan, Look
    <3>. QED
      BY <2>4, <3>1 DEF LookFirst, Scan, Look, PollPlaces
  <2>5. CASE Tell
    <3>1. told' \in [Inputs -> BOOLEAN \cup {Unknown}]
      BY <2>5 DEF Tell
    <3>. QED
      BY <2>5, <3>1 DEF Tell, PollPlaces
  <2>6. CASE Rest \/ Timeout \/ SpuriousWake
    BY <2>6 DEF Rest, Timeout, SpuriousWake, PollPlaces
  <2>7. CASE MainThread \/ Signal
    <3>1. CASE Initialise \/ InitialiseFails
      BY <2>7, <3>1 DEF Initialise, InitialiseFails, MainPlaces
    <3>2. CASE Construct \/ Register \/ Registered \/ Signal
      BY <2>7, <3>2 DEF Construct, Register, Registered, Signal, MainPlaces, PollPlaces, Nobody
    <3>3. CASE Unregister \/ Notify \/ Join \/ DeInit
      BY <2>7, <3>3 DEF Unregister, Notify, Join, DeInit, MainPlaces, PollPlaces, Nobody
    <3>. QED
      BY <2>7, <3>1, <3>2, <3>3 DEF MainThread
  <2>8. CASE UNCHANGED vars
    BY <2>8 DEF vars
  <2>. QED
    BY <1>2, <2>1, <2>2, <2>3, <2>4, <2>5, <2>6, <2>7, <2>8 DEF Next, PollThread
<1>. QED
  BY <1>1, <1>2, PTL DEF Spec

\* No pin is read after it has been released: DeInit is reached past the join only,
\* or without a registration.
THEOREM PinsAreReleasedLast == Spec => []NeverCrashes
<1>1. IInv => NeverCrashes
  BY DEF IInv
<1>. QED
  BY Invariance, <1>1, PTL DEF Spec

\* Once main has the mutex in order to unregister, the client is told no input.
LEMMA StepIsQuiet == Init /\ [][Next]_vars => QuietAfterUnregister
<1>1. IInv /\ [Next]_vars =>
        [(main \in {"notify", "join", "stopped", "done"}) => UNCHANGED told]_vars
  <2> SUFFICES ASSUME IInv, Next, main \in {"notify", "join", "stopped", "done"}
               PROVE  UNCHANGED told
    BY DEF vars
  <2>1. holder = "main" \/ poll \in {"none", "ended"}
    BY DEF IInv, HolderInv, ThreadInv
  <2>2. ~ Tell
    BY <2>1 DEF Tell, Nobody
  <2>3. CASE \E i \in Inputs : Turn(i)
    BY <2>3 DEF Turn
  <2>4. CASE \E o \in Outputs, b \in BOOLEAN : SetValue(o, b)
    BY <2>4 DEF SetValue
  <2>5. CASE OtherLocks \/ OtherUnlocks \/ SpuriousWake
    BY <2>5 DEF OtherLocks, OtherUnlocks, SpuriousWake
  <2>6. CASE PollThread
    BY <2>2, <2>6 DEF PollThread, LookFirst, Scan, Look, Rest, Timeout
  <2>7. CASE MainThread \/ Signal
    BY <2>7 DEF MainThread, Signal, Initialise, InitialiseFails, Construct, Register,
         Registered, Unregister, Notify, Join, DeInit
  <2>. QED
    BY <2>3, <2>4, <2>5, <2>6, <2>7 DEF Next
<1>. QED
  BY Invariance, <1>1, PTL DEF QuietAfterUnregister

\* The same of the specification with its fairness.
THEOREM UnregisteredIsQuiet == Spec => QuietAfterUnregister
BY StepIsQuiet, PTL DEF Spec

-----------------------------------------------------------------------------
(* What the clients know of the inputs.                                    *)

\* The input that the poll thread looks at next is one that it has not looked at.
LEMMA NextInputIsLeft == ASSUME todo \in SUBSET Inputs, todo # {} PROVE NextInput \in todo
<1>1. todo \in SUBSET Nat
  BY PinsAssumption
<1>2. PICK i \in todo : \A j \in todo : ~ (j < i)
  <2>1. IsWellFoundedOn(OpToRel(<, Nat), Nat)
    BY NatLessThanWellFounded
  <2>2. PICK i \in todo : \A j \in todo : ~ (<<j, i>> \in OpToRel(<, Nat))
    BY <1>1, <2>1, WFMin
  <2>. QED
    BY <1>1, <2>2 DEF OpToRel
<1>3. \A j \in todo : i <= j
  BY <1>1, <1>2
<1>. QED
  BY <1>3 DEF NextInput, Min

\* What the poll thread has looked at in its first round has been told; from then on all
\* inputs have been told, except the one that it is about to tell.
ToldInv ==
    /\ todo \in SUBSET Inputs
    /\ poll \in {"tellfirst", "tell"} => todo # {}
    /\ client =>
          /\ poll \in {"first", "tellfirst"} => \A i \in Inputs \ todo : told[i] = value[i]
          /\ poll \in {"wait", "scan"} => \A i \in Inputs : told[i] = value[i]
          /\ poll = "tell" => \A i \in Inputs \ {NextInput} : told[i] = value[i]
    /\ DOMAIN told = Inputs
    /\ DOMAIN value = Inputs \cup Outputs

\* The poll thread preserves it: an input whose value changes is told before the thread
\* goes on.
LEMMA PollKeepsToldInv ==
    ASSUME ToldInv, PollThread \/ SpuriousWake PROVE ToldInv'
<1> USE DEF ToldInv
<1>1. CASE LookFirst
  <2>1. NextInput \in todo
    BY <1>1, NextInputIsLeft DEF LookFirst, Look
  <2>2. /\ UNCHANGED <<told, client>> /\ todo' = todo
        /\ poll' \in {"tellfirst", "crashed"}
        /\ \A i \in Inputs \ todo : value'[i] = value[i]
        /\ DOMAIN value' = DOMAIN value
    BY <1>1, <2>1 DEF LookFirst, Look
  <2>. QED
    BY <1>1, <2>1, <2>2 DEF LookFirst, Look
<1>2. CASE Scan
  <2>1. NextInput \in todo
    BY <1>2, NextInputIsLeft DEF Scan, Look
  <2>2. CASE ~ ready
    BY <1>2, <2>2 DEF Scan, Look
  <2>3. CASE ready /\ level[NextInput] # value[NextInput]
    <3>1. /\ poll' = "tell" /\ UNCHANGED <<told, client, todo>>
          /\ value' = [value EXCEPT ![NextInput] = level[NextInput]]
      BY <1>2, <2>1, <2>3 DEF Scan, Look
    <3>2. NextInput' = NextInput
      BY <3>1 DEF NextInput
    <3>. QED
      BY <1>2, <2>1, <3>1, <3>2 DEF Scan, Look
  <2>4. CASE ready /\ level[NextInput] = value[NextInput]
    <3>1. /\ poll' = "scan" /\ UNCHANGED <<told, client>>
          /\ todo' = todo \ {NextInput}
          /\ value' = [value EXCEPT ![NextInput] = level[NextInput]]
      BY <1>2, <2>1, <2>4 DEF Scan, Look
    <3>2. \A i \in Inputs : value'[i] = value[i]
      BY <2>4, <3>1
    <3>. QED
      BY <1>2, <3>1, <3>2 DEF Scan, Look
  <2>. QED
    BY <2>2, <2>3, <2>4
<1>3. CASE Tell
  <2>1. NextInput \in todo
    BY <1>3, NextInputIsLeft DEF Tell
  <2>. QED
    BY <1>3, <2>1 DEF Tell
<1>4. CASE Rest \/ Timeout \/ SpuriousWake
  BY <1>4 DEF Rest, Timeout, SpuriousWake
<1>. QED
  BY <1>1, <1>2, <1>3, <1>4 DEF PollThread

\* The other threads and the outside world preserve it: they know no input's value.
LEMMA OthersKeepToldInv ==
    ASSUME ToldInv,
           \/ \E i \in Inputs : Turn(i)
           \/ \E o \in Outputs, b \in BOOLEAN : SetValue(o, b)
           \/ OtherLocks \/ OtherUnlocks \/ MainThread \/ Signal
    PROVE  ToldInv'
<1> USE DEF ToldInv
<1>1. CASE \E o \in Outputs, b \in BOOLEAN : SetValue(o, b)
  <2>1. UNCHANGED <<todo, poll, client, told, NextInput>>
    BY <1>1 DEF SetValue, NextInput
  <2>2. \A i \in Inputs : value'[i] = value[i]
    BY <1>1, PinsAssumption DEF SetValue
  <2>3. DOMAIN value' = DOMAIN value
    BY <1>1 DEF SetValue
  <2>. QED
    BY <2>1, <2>2, <2>3
<1>2. CASE Register
  BY <1>2 DEF Register
<1>3. CASE \/ \E i \in Inputs : Turn(i)
           \/ OtherLocks \/ OtherUnlocks \/ Initialise \/ InitialiseFails \/ Construct
           \/ Registered \/ Unregister \/ Notify \/ Join \/ DeInit \/ Signal
  <2>1. /\ UNCHANGED <<todo, told, value, NextInput>>
        /\ poll' = poll \/ poll' = "ended"
        /\ client' => client
    BY <1>3 DEF Turn, OtherLocks, OtherUnlocks, Initialise, InitialiseFails, Construct,
       Registered, Unregister, Notify, Join, DeInit, Signal, NextInput
  <2>. QED
    BY <2>1
<1>. QED
  BY <1>1, <1>2, <1>3 DEF MainThread

LEMMA ToldInvariance == Init /\ [][Next]_vars => []ToldInv
<1>1. Init => ToldInv
  BY DEF Init, ToldInv
<1>2. ToldInv /\ [Next]_vars => ToldInv'
  <2>1. ToldInv /\ UNCHANGED vars => ToldInv'
    BY DEF ToldInv, vars, NextInput
  <2>. QED
    BY <2>1, PollKeepsToldInv, OthersKeepToldInv DEF Next
<1>. QED
  BY <1>1, <1>2, PTL

\* However long reports had to wait for the mutex, the clients know every input's value
\* when the poll thread rests, for any number of inputs and outputs.
THEOREM ReportsArrive == Spec => []RestingIsTold
<1>1. ToldInv => RestingIsTold
  BY DEF ToldInv, RestingIsTold
<1>. QED
  BY <1>1, ToldInvariance, PTL DEF Spec

(***************************************************************************)
(* The process.                                                            *)
(***************************************************************************)
\* Every step of the process is one of IoDriver, or does not touch it.
LEMMA StepIsIoDriverStep == ASSUME ProcessNext PROVE [Next]_vars
<1>1. CASE MainSteps
  <2>1. CASE InitPumps
    BY <2>1 DEF InitPumps, Next, MainThread
  <2>2. CASE ParseConfig
    BY <2>2 DEF ParseConfig, Next, MainThread
  <2>3. CASE SetUpPins
    BY <2>3 DEF SetUpPins, Next, MainThread
  <2>4. CASE Build
    BY <2>4 DEF Build, Next, MainThread
  <2>5. CASE TestSignal
    BY <2>5 DEF TestSignal, Next
  <2>6. CASE JoinThreads \/ ReleasePumps
    BY <2>6 DEF JoinThreads, ReleasePumps
  <2>7. CASE ReleasePins
    BY <2>7 DEF ReleasePins, Next, MainThread
  <2>. QED
    BY <1>1, <2>1, <2>2, <2>3, <2>4, <2>5, <2>6, <2>7 DEF MainSteps
<1>2. CASE Around
  BY <1>2 DEF Around, Next, MainThread
<1>3. CASE ServeOthers
  BY <1>3 DEF ServeOthers, Next
<1>4. CASE RunPumps \/ SigTermHandler
  BY <1>4 DEF RunPumps, SigTermHandler
<1>. QED
  BY <1>1, <1>2, <1>3, <1>4 DEF ProcessNext

\* The process implements IoDriver, with every way in which a start may fail.
THEOREM ProcessIsIoDriver == ProcessSpec => ImplementsIoDriver
<1>1. ProcessInit => Init
  BY DEF ProcessInit
<1>2. [ProcessNext]_allVars => [Next]_vars
  BY StepIsIoDriverStep DEF allVars
<1>. QED
  BY <1>1, <1>2, PTL DEF ProcessSpec, ImplementsIoDriver

\* So no pin is read after its release, whatever main has been through ...
THEOREM ProcessReleasesPinsLast == ProcessSpec => []NeverCrashes
<1>1. IInv => NeverCrashes
  BY DEF IInv
<1>. QED
  BY ProcessIsIoDriver, Invariance, <1>1, PTL DEF ImplementsIoDriver

\* ... a resting poll thread has told every input ...
THEOREM ProcessReportsArrive == ProcessSpec => []RestingIsTold
<1>1. ToldInv => RestingIsTold
  BY DEF ToldInv, RestingIsTold
<1>. QED
  BY ProcessIsIoDriver, ToldInvariance, <1>1, PTL DEF ImplementsIoDriver

\* ... and no input is told to a WebInterface that has unregistered.
THEOREM ProcessIsQuiet == ProcessSpec => QuietAfterUnregister
BY ProcessIsIoDriver, StepIsQuiet, PTL DEF ImplementsIoDriver

-----------------------------------------------------------------------------

\* The pump driver, the io driver: whether they hold a reference of the library.
PumpsHold == shield /\ pumpDriver = "ready"
PinsHold == start = "pins" \/ ready

\* A library that is up has users, and they are counted; a count without a library up is
\* that of failed calls, and is never counted down.
CountInv ==
    IF library
      THEN initOk /\ (PumpsHold \/ PinsHold) /\ count = (IF PumpsHold THEN 1 ELSE 0) + (IF PinsHold THEN 1 ELSE 0)
      ELSE ~ PumpsHold /\ ~ PinsHold /\ count \in Nat /\ (count = 0 \/ ~ initOk)

\* How far main is.
PlaceInv ==
    /\ shield \in BOOLEAN /\ library \in BOOLEAN /\ initOk \in BOOLEAN
    /\ start \in {"pumps", "config", "pins", "over"}
    /\ pumpDriver \in {"new", "ready", "unusable", "released"}
    /\ start # "over" <=> main = "init"
    /\ start = "pumps" => count = 0 /\ pumpDriver = "new"
    /\ ready \in BOOLEAN /\ (main = "init" => ~ ready)

\* While the pump driver is initialised main has not come to its end, and before and
\* after that no pump runs.
PumpsInv ==
    /\ running => pumpDriver = "ready"
    /\ threads = "up" => pumpDriver = "ready"
    /\ main = "done" => pumpDriver # "ready" /\ ~ ready

ProcessInv == PlaceInv /\ CountInv /\ PumpsInv

LEMMA InitProcessInv == ProcessInit => ProcessInv
<1> SUFFICES ASSUME ProcessInit PROVE ProcessInv
  OBVIOUS
<1> USE DEF ProcessInit, Init
<1>1. PlaceInv
  BY DEF PlaceInv
<1>2. CountInv
  BY DEF CountInv, PumpsHold, PinsHold
<1>3. PumpsInv
  BY DEF PumpsInv
<1>. QED
  BY <1>1, <1>2, <1>3 DEF ProcessInv

\* The initialisation, with all its ways to fail, keeps the count.
LEMMA StartKeepsInv ==
    ASSUME ProcessInv, InitPumps \/ ParseConfig \/ SetUpPins
    PROVE  ProcessInv'
<1> USE DEF ProcessInv, PlaceInv, CountInv, PumpsInv, PumpsHold, PinsHold, vars,
        libraryVars, signalVars, startVars, Initialised, WrapGpioInitialise
<1>1. CASE InitPumps
  <2>1. CASE start' = "over"
    BY <1>1, <2>1 DEF InitPumps, InitialiseFails
  <2>2. CASE shield /\ start' = "config"
    BY <1>1, <2>2 DEF InitPumps, InitialiseFails
  <2>3. CASE ~ shield
    BY <1>1, <2>3 DEF InitPumps, InitialiseFails
  <2>. QED
    BY <1>1, <2>1, <2>2, <2>3 DEF InitPumps
<1>2. CASE ParseConfig
  BY <1>2 DEF ParseConfig, InitialiseFails
<1>3. CASE SetUpPins
  <2>1. PlaceInv'
    BY <1>3 DEF SetUpPins, Initialise, InitialiseFails, WrapGpioTerminate
  <2>2. CountInv'
    BY <1>3 DEF SetUpPins, Initialise, InitialiseFails, WrapGpioTerminate
  <2>3. PumpsInv'
    BY <1>3 DEF SetUpPins, Initialise, InitialiseFails, WrapGpioTerminate
  <2>. QED
    BY <2>1, <2>2, <2>3
<1>. QED
  BY <1>1, <1>2, <1>3

\* Serving keeps it: no step of the threads, of the signal or of main between its
\* construction and the unregistration has to do with the library.
LEMMA ServingKeepsInv ==
    ASSUME ProcessInv,
           Build \/ TestSignal \/ Around \/ ServeOthers \/ RunPumps \/ SigTermHandler
    PROVE  ProcessInv'
<1> USE DEF ProcessInv, PlaceInv, CountInv, PumpsInv, PumpsHold, PinsHold, vars,
        libraryVars, signalVars, startVars, processVars
<1>1. CASE Build
  BY <1>1 DEF Build, Construct
<1>2. CASE TestSignal
  BY <1>2 DEF TestSignal, Signal
<1>3. CASE Around
  <2>1. UNCHANGED <<ready, processVars>> /\ (main' = main \/ main' \notin {"init", "done"})
        /\ (main = "init" <=> main' = "init")
    BY <1>3 DEF Around, Turn, PollThread, LookFirst, Scan, Look, Tell, Rest, Timeout,
         SpuriousWake, Register, Registered, Unregister, Notify, Join
  <2>. QED
    BY <2>1
<1>4. CASE ServeOthers
  <2>1. UNCHANGED <<ready, main, processVars>>
    BY <1>4 DEF ServeOthers, SetValue, OtherLocks, OtherUnlocks
  <2>. QED
    BY <2>1
<1>5. CASE RunPumps \/ SigTermHandler
  BY <1>5 DEF RunPumps, SigTermHandler
<1>. QED
  BY <1>1, <1>2, <1>3, <1>4, <1>5

\* Going down keeps it: every reference is given back once.
LEMMA DownKeepsInv ==
    ASSUME ProcessInv, JoinThreads \/ ReleasePumps \/ ReleasePins
    PROVE  ProcessInv'
<1> USE DEF ProcessInv, PlaceInv, CountInv, PumpsInv, PumpsHold, PinsHold, vars,
        libraryVars, signalVars, startVars
<1>1. CASE JoinThreads
  BY <1>1 DEF JoinThreads
<1>2. CASE ReleasePumps
  BY <1>2 DEF ReleasePumps, WrapGpioTerminate
<1>3. CASE ReleasePins
  <2>1. PlaceInv'
    BY <1>3 DEF ReleasePins, DeInit, WrapGpioTerminate
  <2>2. CountInv'
    <3>1. ~ PumpsHold /\ ~ PumpsHold' /\ start = "over" /\ ~ PinsHold'
      BY <1>3 DEF ReleasePins, DeInit
    <3>2. CASE ready
      <4>1. library /\ count = 1 /\ initOk
        BY <3>1, <3>2
      <4>2. WrapGpioTerminate
        BY <1>3, <3>2 DEF ReleasePins
      <4>3. count' = 0
        BY <4>1, <4>2 DEF WrapGpioTerminate
      <4>4. ~ library'
        BY <4>1, <4>2, Zenon DEF WrapGpioTerminate
      <4>. QED
        BY <3>1, <4>3, <4>4
    <3>3. CASE ~ ready
      <4>1. UNCHANGED <<library, count, initOk>> /\ ~ library
        BY <1>3, <3>1, <3>3 DEF ReleasePins
      <4>. QED
        BY <3>1, <4>1
    <3>. QED
      BY <3>2, <3>3
  <2>3. PumpsInv'
    BY <1>3 DEF ReleasePins, DeInit, WrapGpioTerminate
  <2>. QED
    BY <2>1, <2>2, <2>3
<1>. QED
  BY <1>1, <1>2, <1>3

LEMMA ProcessInvariance == ProcessSpec => []ProcessInv
<1>1. ProcessInv /\ [ProcessNext]_allVars => ProcessInv'
  <2> SUFFICES ASSUME ProcessInv, [ProcessNext]_allVars PROVE ProcessInv'
    OBVIOUS
  <2>1. CASE UNCHANGED allVars
    BY <2>1 DEF allVars, vars, processVars, startVars, libraryVars, signalVars, ProcessInv,
         PlaceInv, CountInv, PumpsInv, PumpsHold, PinsHold
  <2>. QED
    BY <2>1, StartKeepsInv, ServingKeepsInv, DownKeepsInv DEF ProcessNext, MainSteps
<1>. QED
  BY InitProcessInv, <1>1, PTL DEF ProcessSpec

\* An initialised driver finds the library up, whoever else has come or gone.
THEOREM DriversHaveLibrary == ProcessSpec => []LibraryIsUp
<1>1. ProcessInv => LibraryIsUp
  BY DEF ProcessInv, PlaceInv, CountInv, PumpsHold, PinsHold, LibraryIsUp
<1>. QED
  BY ProcessInvariance, <1>1, PTL

\* Every end of main leaves the pumps off and the library terminated.
THEOREM EveryEndIsClean == ProcessSpec => []EndsClean
<1>1. ProcessInv => EndsClean
  BY DEF ProcessInv, PlaceInv, CountInv, PumpsInv, PumpsHold, PinsHold, EndsClean
<1>. QED
  BY ProcessInvariance, <1>1, PTL
============================================================================
