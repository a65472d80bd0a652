------------------------- MODULE PumpControlProofs -------------------------
(***************************************************************************)
(* What holds of PumpControl for every set of pumps, flows and recipes.    *)
(*                                                                         *)
(* The theorems about TimeProgramRunner are not proved again but used: a   *)
(* step of PumpControl is one of a runner whose callers may hand over any  *)
(* time program (AnyRunner), or leaves the runner alone.                   *)
(***************************************************************************)
EXTENDS PumpControl, TimeProgramProofs

\* All time programs there are.
TimePrograms ==
    UNION {[times -> UNION {[pumps -> Flows] : pumps \in SUBSET Pumps}] :
             times \in SUBSET Runner!Keys}

AnyRunner == INSTANCE TimeProgramRunnerProofs WITH Programs <- TimePrograms

\* The instance's operators on time programs are the ones of PumpControl.
LEMMA TimeProgramsAreAll ==
    \A tp : tp \in TimePrograms <=> IsTimeProgram(tp, Runner!Keys, Pumps, Flows)
<1>1. ASSUME NEW tp \in TimePrograms
      PROVE  IsTimeProgram(tp, Runner!Keys, Pumps, Flows)
  <2>1. PICK times \in SUBSET Runner!Keys :
               tp \in [times -> UNION {[pumps -> Flows] : pumps \in SUBSET Pumps}]
    BY <1>1 DEF TimePrograms
  <2>2. ASSUME NEW t \in DOMAIN tp
        PROVE  /\ DOMAIN tp[t] \in SUBSET Pumps
               /\ tp[t] = [p \in DOMAIN tp[t] |-> tp[t][p]]
               /\ \A p \in DOMAIN tp[t] : tp[t][p] \in Flows
    <3>1. tp[t] \in UNION {[pumps -> Flows] : pumps \in SUBSET Pumps}
      BY <2>1, <2>2, Zenon
    <3>2. PICK pumps \in SUBSET Pumps : tp[t] \in [pumps -> Flows]
      BY <3>1
    <3>. QED
      BY <3>2
  <2>. QED
    BY <2>1, <2>2 DEF IsTimeProgram
<1>2. ASSUME NEW tp, IsTimeProgram(tp, Runner!Keys, Pumps, Flows)
      PROVE  tp \in TimePrograms
  <2>1. ASSUME NEW t \in DOMAIN tp
        PROVE  tp[t] \in UNION {[pumps -> Flows] : pumps \in SUBSET Pumps}
    <3>1. tp[t] \in [DOMAIN tp[t] -> Flows] /\ DOMAIN tp[t] \in SUBSET Pumps
      BY <1>2, <2>1 DEF IsTimeProgram
    <3>. QED
      BY <3>1
  <2>2. tp \in [DOMAIN tp -> UNION {[pumps -> Flows] : pumps \in SUBSET Pumps}]
    BY <1>2, <2>1 DEF IsTimeProgram
  <2>. QED
    BY <1>2, <2>2 DEF TimePrograms, IsTimeProgram
<1>. QED
  BY <1>1, <1>2

\* What the runner assumes of its constants holds.
LEMMA AnyRunnerAssumptions ==
    /\ Pumps \in SUBSET Int /\ Flows \in SUBSET Int /\ AnyRunner!Off \in Flows
    /\ ProgressPeriod \in Nat \ {0}
    /\ MaxClock \in Nat
    /\ \A tp \in TimePrograms : AnyRunner!IsTimeProgram(tp, AnyRunner!Keys, Pumps, Flows)
BY RunnerAssumption, TimeProgramsAreAll
DEF AnyRunner!Off, Off, AnyRunner!IsTimeProgram, IsTimeProgram, AnyRunner!Keys,
    Runner!Keys

\* The runner's invariant.
LEMMA RunnerInitIInv == AnyRunner!Init => AnyRunner!IInv
BY AnyRunner!InitIInv, AnyRunnerAssumptions

LEMMA RunnerNextIInv ==
    AnyRunner!IInv /\ [AnyRunner!Next]_(AnyRunner!vars) => AnyRunner!IInv'
BY AnyRunner!NextIInv, AnyRunnerAssumptions

-----------------------------------------------------------------------------
(* The runner in PumpControl.                                              *)

LEMMA InitRunner == Init => AnyRunner!Init
BY DEF Init, Runner!Init, AnyRunner!Init, Runner!Off, AnyRunner!Off

\* The runner's thread does what it does on its own, whatever its callbacks do.
LEMMA SameMoves ==
    ASSUME \/ Runner!Loop \/ Runner!DeadlineWake \/ Runner!SpuriousWake
           \/ Runner!KeepState \/ Runner!BeginIdle \/ Runner!BeginStopping
           \/ Runner!ProgramEnded \/ Runner!Report \/ Runner!RunIdle
           \/ Runner!RunStopping \/ Runner!RunEarly \/ Runner!BeginEmptyProgram
           \/ Runner!DivideByZero
    PROVE  AnyRunner!RunnerStep \/ AnyRunner!SpuriousWake
<1> USE DEF Runner!Move, Runner!Still, AnyRunner!Move, AnyRunner!Still
<1>1. \/ AnyRunner!Loop \/ AnyRunner!DeadlineWake \/ AnyRunner!SpuriousWake
      \/ AnyRunner!KeepState \/ AnyRunner!BeginIdle \/ AnyRunner!BeginStopping
      \/ AnyRunner!ProgramEnded \/ AnyRunner!Report \/ AnyRunner!RunIdle
      \/ AnyRunner!RunStopping \/ AnyRunner!RunEarly
      \/ AnyRunner!BeginEmptyProgram \/ AnyRunner!DivideByZero
  <2>1. CASE \/ Runner!Loop \/ Runner!DeadlineWake \/ Runner!SpuriousWake
             \/ Runner!KeepState \/ Runner!BeginIdle \/ Runner!BeginStopping
             \/ Runner!ProgramEnded \/ Runner!Report
    BY <2>1
    DEF Runner!Loop, Runner!DeadlineWake, Runner!SpuriousWake, Runner!KeepState,
        Runner!BeginIdle, Runner!BeginStopping, Runner!ProgramEnded, Runner!Report,
        Runner!Hour,
        AnyRunner!Loop, AnyRunner!DeadlineWake, AnyRunner!SpuriousWake,
        AnyRunner!KeepState, AnyRunner!BeginIdle, AnyRunner!BeginStopping,
        AnyRunner!ProgramEnded, AnyRunner!Report, AnyRunner!Hour
  <2>2. CASE \/ Runner!RunIdle \/ Runner!RunStopping \/ Runner!RunEarly
             \/ Runner!BeginEmptyProgram \/ Runner!DivideByZero
    BY <2>2
    DEF Runner!RunIdle, Runner!RunStopping, Runner!RunEarly,
        Runner!BeginEmptyProgram, Runner!DivideByZero, Runner!Hour, Runner!Off,
        Runner!Earlier, Runner!Degenerate,
        AnyRunner!RunIdle, AnyRunner!RunStopping, AnyRunner!RunEarly,
        AnyRunner!BeginEmptyProgram, AnyRunner!DivideByZero, AnyRunner!Hour,
        AnyRunner!Off, AnyRunner!Earlier, AnyRunner!Degenerate
  <2>. QED
    BY <2>1, <2>2
<1>. QED
  BY <1>1 DEF AnyRunner!RunnerStep

LEMMA SameEntries ==
    ASSUME Runner!BeginProgram \/ Runner!RunDue
    PROVE  AnyRunner!RunnerStep
<1>1. CASE Runner!BeginProgram
  <2>1. Runner!FirstKey(program) = AnyRunner!FirstKey(program)
    BY DEF Runner!FirstKey, AnyRunner!FirstKey, Runner!Min, AnyRunner!Min
  <2>2. AnyRunner!BeginProgram
    BY <1>1, <2>1
    DEF Runner!BeginProgram, AnyRunner!BeginProgram, Runner!Move, AnyRunner!Move
  <2>. QED
    BY <2>2 DEF AnyRunner!RunnerStep
<1>2. CASE Runner!RunDue
  <2>1. Runner!KeysAfter(program, tpTime) = AnyRunner!KeysAfter(program, tpTime)
    BY DEF Runner!KeysAfter, AnyRunner!KeysAfter
  <2>2. Runner!NextKey(program, tpTime) = AnyRunner!NextKey(program, tpTime)
    BY <2>1 DEF Runner!NextKey, AnyRunner!NextKey, Runner!Min, AnyRunner!Min
  <2>3. Runner!Override(commanded, program[tpTime])
            = AnyRunner!Override(commanded, program[tpTime])
    BY DEF Runner!Override, AnyRunner!Override
  <2>4. AnyRunner!RunDue
    BY <1>2, <2>1, <2>2, <2>3
    DEF Runner!RunDue, AnyRunner!RunDue, Runner!Move, AnyRunner!Move,
        Runner!Earlier, AnyRunner!Earlier, Runner!Refused, AnyRunner!Refused,
        Runner!Off, AnyRunner!Off
  <2>. QED
    BY <2>4 DEF AnyRunner!RunnerStep
<1>. QED
  BY <1>1, <1>2

\* The operations that PumpControl calls.
LEMMA SameOperations ==
    ASSUME \/ Runner!Shutdown
           \/ /\ IsTimeProgram(timeprogram, Runner!Keys, Pumps, Flows)
              /\ Runner!StartProgram(timeprogram)
    PROVE  AnyRunner!Operation
<1>1. CASE Runner!Shutdown
  BY <1>1 DEF Runner!Shutdown, AnyRunner!Shutdown, Runner!MutexFree,
     AnyRunner!MutexFree, Runner!Notify, AnyRunner!Notify, AnyRunner!Operation
<1>2. CASE /\ IsTimeProgram(timeprogram, Runner!Keys, Pumps, Flows)
           /\ Runner!StartProgram(timeprogram)
  <2>1. timeprogram \in TimePrograms
    BY <1>2, TimeProgramsAreAll
  <2>2. AnyRunner!StartProgram(timeprogram)
    BY <1>2 DEF Runner!StartProgram, AnyRunner!StartProgram, Runner!MutexFree,
       AnyRunner!MutexFree, Runner!Notify, AnyRunner!Notify
  <2>. QED
    BY <2>1, <2>2 DEF AnyRunner!Operation
<1>. QED
  BY <1>1, <1>2

\* The steps of PumpControl, besides requests, that are no step of its runner.
Aside ==
    \/ \E thread \in Threads : Deliver(thread)
    \/ CreateTimeProgram \/ GiveUp \/ SwitchPump \/ StartPumpTimed
    \/ Construct \/ Listen \/ RegisterCallbackClient \/ Signal
    \/ UnregisterCallbackClient \/ StopServer \/ JoinServer \/ JoinRunner
    \/ MapRace \/ Ended

LEMMA AsideLeavesRunner ==
    ASSUME Aside \/ Request PROVE UNCHANGED runnerVars
<1>1. CASE \E thread \in Threads : Deliver(thread)
  BY <1>1 DEF Deliver
<1>2. CASE CreateTimeProgram \/ GiveUp \/ SwitchPump \/ StartPumpTimed
  BY <1>2 DEF CreateTimeProgram, GiveUp, SwitchPump, StartPumpTimed
<1>3. CASE Request
  BY <1>3 DEF Request, StartProgram, EnterServiceMode, LeaveServiceMode, Switch
<1>4. CASE \/ Construct \/ Listen \/ RegisterCallbackClient \/ Signal
           \/ UnregisterCallbackClient \/ StopServer \/ JoinServer \/ JoinRunner
           \/ MapRace
  BY <1>4
  DEF Construct, Listen, RegisterCallbackClient, Signal, UnregisterCallbackClient,
      StopServer, JoinServer, JoinRunner, MapRace
<1>5. CASE Ended
  BY <1>5 DEF Ended, vars, runnerVars
<1>. QED
  BY <1>1, <1>2, <1>3, <1>4, <1>5 DEF Aside

\* The steps of PumpControl that are one of its runner.
Along ==
    \/ Tick \/ RunnerAlone \/ RunnerCrashes \/ TimeProgramRunnerProgramEnded
    \/ TimeProgramRunnerStateUpdate \/ SetFlow \/ SetAllPumpsOff
    \/ HandOver \/ ShutdownRunner

LEMMA NextSplits ==
    ASSUME Next
    PROVE  Aside \/ Along \/ Request
BY DEF Next, Progress, RunnerThread, WebThread, MainThread, Aside, Along, Threads

\* Whatever PumpControl does is allowed to a runner and its callers.
LEMMA NextRunner ==
    ASSUME IsTimeProgram(timeprogram, Runner!Keys, Pumps, Flows), [Next]_vars
    PROVE  [AnyRunner!Next]_(AnyRunner!vars)
<1>1. CASE UNCHANGED runnerVars
  BY <1>1 DEF runnerVars, AnyRunner!vars
<1>2. CASE Along
  <2>1. CASE Tick
    BY <2>1 DEF Tick, Runner!Tick, AnyRunner!Tick, AnyRunner!Next
  <2>2. CASE HandOver \/ ShutdownRunner
    BY <2>2, SameOperations DEF HandOver, ShutdownRunner, AnyRunner!Next
  <2>3. CASE \/ RunnerAlone \/ RunnerCrashes \/ TimeProgramRunnerProgramEnded
             \/ TimeProgramRunnerStateUpdate \/ SetFlow \/ SetAllPumpsOff
    BY <2>3, SameMoves, SameEntries
    DEF RunnerAlone, RunnerCrashes, TimeProgramRunnerProgramEnded,
        TimeProgramRunnerStateUpdate, SetFlow, SetAllPumpsOff, AnyRunner!Next
  <2>. QED
    BY <1>2, <2>1, <2>2, <2>3 DEF Along
<1>3. CASE UNCHANGED vars
  BY <1>1, <1>3 DEF vars, runnerVars
<1>. QED
  BY <1>1, <1>2, <1>3, NextSplits, AsideLeavesRunner

-----------------------------------------------------------------------------
(* The inductive invariant of Spec.                                        *)

\* The types of PumpControl's own variables.
OwnTypes ==
    /\ pcState \in PcStates
    /\ IsTimeProgram(timeprogram, Runner!Keys, Pumps, Flows)
    /\ client \in BOOLEAN
    /\ reported \in PcStates \cup {Nothing}
    /\ pending \in [Threads -> PcStates \cup {Nothing}]
    /\ web \in WebPlaces
    /\ main \in MainPlaces
    /\ flow \in [Pumps -> Flows]

\* How the life of the process, the server's thread and the runner's are ordered: the
\* runner is only told to stop when no request is served any more, and from the time
\* that it has switched the pumps off nothing switches one on.
LifecycleInv ==
    /\ main \in {"construct", "listen", "shutdown", "joinrunner", "done"} => web.at = "off"
    /\ target = "stopping" => main \in {"joinrunner", "done"}
    /\ main = "done" => pc = "exit"
    /\ state = "stopping" /\ pc # "act" => \A p \in Pumps : flow[p] = Off

Inv == AnyRunner!IInv /\ OwnTypes /\ LifecycleInv

LEMMA InitInv == Init => Inv
<1> SUFFICES ASSUME Init PROVE Inv
  OBVIOUS
<1>1. AnyRunner!IInv
  BY InitRunner, RunnerInitIInv
<1>2. OwnTypes
  BY RunnerAssumption, EmptyIsTimeProgram
  DEF Init, OwnTypes, PcStates, WebPlaces, MainPlaces
<1>3. LifecycleInv
  BY DEF Init, LifecycleInv, Runner!Init
<1>. QED
  BY <1>1, <1>2, <1>3 DEF Inv

\* What the runner's invariant says in terms of PumpControl.
LEMMA RunnerKnows ==
    ASSUME Inv
    PROVE  /\ Runner!TypeOK
           /\ DOMAIN program \in SUBSET Int
           /\ \A t \in DOMAIN program : \A p \in DOMAIN program[t] : program[t][p] \in Flows
           /\ state \in {"init", "idle", "active", "stopping"}
           /\ target \in {"idle", "active", "stopping"}
           /\ target = "active" => state \in {"idle", "active"}
           /\ state = "stopping" => target = "stopping"
           /\ pc = "act" => target = state
           /\ pc = "ended" => state = "active" /\ target = "idle"
           /\ pc = "report" => target # state
           /\ pc = "exit" => state = "stopping"
           /\ pc = "act" /\ state = "active" => tpTime \in DOMAIN program
           /\ state = "idle" /\ target = "active" => issued = {}
<1>1. AnyRunner!TypeOK /\ AnyRunner!ControlInv /\ AnyRunner!NextEntryInv
  BY DEF Inv, AnyRunner!IInv
<1>2. Runner!TypeOK
  BY <1>1 DEF AnyRunner!TypeOK, Runner!TypeOK, AnyRunner!States, Runner!States,
     AnyRunner!Points, Runner!Points, AnyRunner!IsTimeProgram, Runner!IsTimeProgram,
     AnyRunner!Hour, Runner!Hour, AnyRunner!Keys, Runner!Keys
<1>3. /\ DOMAIN program \in SUBSET Int
      /\ \A t \in DOMAIN program : \A p \in DOMAIN program[t] : program[t][p] \in Flows
  BY <1>2, RunnerAssumption DEF Runner!TypeOK, Runner!IsTimeProgram, Runner!Keys
<1>. QED
  BY <1>1, <1>2, <1>3
  DEF Runner!TypeOK, Runner!States, AnyRunner!ControlInv, AnyRunner!NoFatal,
      AnyRunner!NextEntryInv, AnyRunner!Remaining

\* The largest flow is one of the flows.
LEMMA MaxFlowIsFlow == MaxFlow \in Flows
BY FlowsAssumption DEF MaxFlow, Max

\* Setting the state keeps its type.
LEMMA SetStateType ==
    ASSUME OwnTypes, NEW thread \in Threads, NEW new \in PcStates, SetState(thread, new)
    PROVE  /\ pcState' \in PcStates
           /\ pending' \in [Threads -> PcStates \cup {Nothing}]
BY DEF OwnTypes, SetState

\* The web server's thread keeps the types.
LEMMA RequestKeepsTypes ==
    ASSUME OwnTypes, Request PROVE OwnTypes'
<1> USE DEF OwnTypes
<1>1. CASE \E r \in Recipes : StartProgram(r)
  <2>1. PICK r \in Recipes : StartProgram(r)
    BY <1>1
  <2>2. pcState' \in PcStates /\ pending' \in [Threads -> PcStates \cup {Nothing}]
    BY <2>1, SetStateType DEF StartProgram, Threads, PcStates
  <2>3. web' \in WebPlaces
    BY <2>1 DEF StartProgram, WebPlaces
  <2>. QED
    BY <2>1, <2>2, <2>3 DEF StartProgram, WebStays
<1>2. CASE EnterServiceMode \/ LeaveServiceMode
  <2>1. pcState' \in PcStates /\ pending' \in [Threads -> PcStates \cup {Nothing}]
    BY <1>2, SetStateType DEF EnterServiceMode, LeaveServiceMode, Threads, PcStates
  <2>2. web' \in WebPlaces
    BY <1>2 DEF EnterServiceMode, LeaveServiceMode, WebPlaces
  <2>. QED
    BY <1>2, <2>1, <2>2 DEF EnterServiceMode, LeaveServiceMode, WebStays
<1>3. CASE Switch
  <2>1. PICK p \in Pumps :
           web' \in {[at |-> "switch", pump |-> p, on |-> TRUE],
                    [at |-> "switch", pump |-> p, on |-> FALSE],
                    [at |-> "timed", pump |-> p]}
    BY <1>3 DEF Switch
  <2>2. /\ [at |-> "switch", pump |-> p, on |-> TRUE] \in [at : {"switch"}, pump : Pumps, on : BOOLEAN]
        /\ [at |-> "switch", pump |-> p, on |-> FALSE] \in [at : {"switch"}, pump : Pumps, on : BOOLEAN]
        /\ [at |-> "timed", pump |-> p] \in [at : {"timed", "sleep"}, pump : Pumps]
    OBVIOUS
  <2>3. web' \in WebPlaces
    BY <2>1, <2>2 DEF WebPlaces
  <2>. QED
    BY <1>3, <2>3 DEF Switch, WebStays
<1>. QED
  BY <1>1, <1>2, <1>3 DEF Request

LEMMA WebThreadKeepsTypes ==
    ASSUME OwnTypes,
           CreateTimeProgram \/ HandOver \/ GiveUp \/ SwitchPump \/ StartPumpTimed
    PROVE  OwnTypes'
<1> USE DEF OwnTypes
<1>1. CASE CreateTimeProgram
  <2>1. PICK r \in Recipes : web = [at |-> "compile", recipe |-> r]
    BY <1>1 DEF CreateTimeProgram, WebPlaces, Resting
  <2>2. /\ web.recipe = r
        /\ r.outcome \in Outcomes
        /\ IsTimeProgram(r.written, Runner!Keys, Pumps, Flows)
    BY <2>1, RecipesAssumption
  <2>3. IsTimeProgram(timeprogram', Runner!Keys, Pumps, Flows)
    BY <1>1, <2>2, MergeType DEF CreateTimeProgram
  <2>4. web' \in {[at |-> "fail"], [at |-> "cancel"], [at |-> "handover", recipe |-> r]}
    <3>1. [web EXCEPT !.at = "handover"] = [at |-> "handover", recipe |-> r]
      BY <2>1
    <3>. QED
      BY <1>1, <2>2, <3>1 DEF CreateTimeProgram, Outcomes
  <2>5. web' \in WebPlaces
    BY <2>4 DEF WebPlaces
  <2>. QED
    BY <1>1, <2>3, <2>5 DEF CreateTimeProgram
<1>2. CASE HandOver
  <2>1. web' \in WebPlaces
    BY <1>2 DEF HandOver, WebPlaces
  <2>. QED
    BY <1>2, <2>1 DEF HandOver, WebStays
<1>3. CASE GiveUp
  <2>1. pcState' \in PcStates /\ pending' \in [Threads -> PcStates \cup {Nothing}]
    BY <1>3, SetStateType DEF GiveUp, Threads, PcStates
  <2>2. web' \in WebPlaces
    BY <1>3 DEF GiveUp, WebPlaces
  <2>. QED
    BY <1>3, <2>1, <2>2 DEF GiveUp, WebStays
<1>4. CASE SwitchPump
  <2>1. flow' \in [Pumps -> Flows]
    BY <1>4, MaxFlowIsFlow, RunnerAssumption DEF SwitchPump
  <2>2. web' \in WebPlaces
    BY <1>4 DEF SwitchPump, WebPlaces
  <2>. QED
    BY <1>4, <2>1, <2>2 DEF SwitchPump
<1>5. CASE StartPumpTimed
  <2>1. flow' \in [Pumps -> Flows]
    BY <1>5, MaxFlowIsFlow, RunnerAssumption DEF StartPumpTimed
  <2>2. web' \in WebPlaces
    <3>1. PICK p \in Pumps : web \in {[at |-> "timed", pump |-> p], [at |-> "sleep", pump |-> p]}
      BY <1>5 DEF StartPumpTimed, WebPlaces, Resting
    <3>2. web' \in {[at |-> "sleep", pump |-> p], Resting}
      BY <1>5, <3>1 DEF StartPumpTimed
    <3>. QED
      BY <3>2 DEF WebPlaces
  <2>. QED
    BY <1>5, <2>1, <2>2 DEF StartPumpTimed
<1>. QED
  BY <1>1, <1>2, <1>3, <1>4, <1>5

\* The delivery of a state and the runner's thread keep the types.
LEMMA RunnerThreadKeepsTypes ==
    ASSUME Inv,
           \/ Tick \/ RunnerAlone \/ RunnerCrashes \/ TimeProgramRunnerProgramEnded
           \/ TimeProgramRunnerStateUpdate \/ SetFlow \/ SetAllPumpsOff
           \/ \E thread \in Threads : Deliver(thread)
    PROVE  OwnTypes'
<1> USE DEF OwnTypes
<1>1. OwnTypes
  BY DEF Inv
<1>2. CASE Tick \/ RunnerAlone \/ RunnerCrashes
  BY <1>1, <1>2 DEF Tick, RunnerAlone, RunnerCrashes
<1>3. CASE TimeProgramRunnerProgramEnded
  BY <1>1, <1>3, EmptyIsTimeProgram DEF TimeProgramRunnerProgramEnded
<1>4. CASE TimeProgramRunnerStateUpdate
  <2>1. pcState' \in PcStates /\ pending' \in [Threads -> PcStates \cup {Nothing}]
    BY <1>1, <1>4, SetStateType DEF TimeProgramRunnerStateUpdate, Threads, PcStates
  <2>. QED
    BY <1>1, <1>4, <2>1 DEF TimeProgramRunnerStateUpdate
<1>5. CASE SetFlow
  <2>1. \A p \in DOMAIN program[tpTime] : program[tpTime][p] \in Flows
    BY <1>5, RunnerKnows DEF SetFlow, Runner!RunDue
  <2>2. flow' \in [Pumps -> Flows]
    BY <1>1, <1>5, <2>1, OverrideType DEF SetFlow
  <2>. QED
    BY <1>1, <1>5, <2>2 DEF SetFlow
<1>6. CASE SetAllPumpsOff
  BY <1>1, <1>6, RunnerAssumption DEF SetAllPumpsOff
<1>7. CASE \E thread \in Threads : Deliver(thread)
  <2>1. PICK thread \in Threads : Deliver(thread)
    BY <1>7
  <2>2. web' \in WebPlaces
    BY <1>1, <2>1 DEF Deliver, WebPlaces
  <2>. QED
    BY <1>1, <2>1, <2>2 DEF Deliver
<1>. QED
  BY <1>2, <1>3, <1>4, <1>5, <1>6, <1>7

\* The main thread keeps the types.
LEMMA MainThreadKeepsTypes ==
    ASSUME OwnTypes,
           \/ Construct \/ Listen \/ RegisterCallbackClient \/ Signal
           \/ UnregisterCallbackClient \/ StopServer \/ JoinServer \/ ShutdownRunner
           \/ JoinRunner \/ MapRace \/ Ended
    PROVE  OwnTypes'
<1> USE DEF OwnTypes
<1>1. CASE Construct
  <2>1. pcState' \in PcStates /\ pending' \in [Threads -> PcStates \cup {Nothing}]
    BY <1>1, SetStateType DEF Construct, Threads, PcStates
  <2>. QED
    BY <1>1, <2>1 DEF Construct, MainStays, MainPlaces
<1>2. CASE Listen \/ JoinServer
  <2>1. web' \in WebPlaces
    BY <1>2 DEF Listen, JoinServer, WebPlaces
  <2>. QED
    BY <1>2, <2>1 DEF Listen, JoinServer, MainStays, MainPlaces
<1>3. CASE \/ RegisterCallbackClient \/ Signal \/ UnregisterCallbackClient
           \/ StopServer \/ ShutdownRunner \/ JoinRunner \/ MapRace
  BY <1>3
  DEF RegisterCallbackClient, Signal, UnregisterCallbackClient, StopServer,
      ShutdownRunner, JoinRunner, MapRace, MainStays, MainPlaces
<1>4. CASE Ended
  BY <1>4 DEF Ended, vars
<1>. QED
  BY <1>1, <1>2, <1>3, <1>4

LEMMA NextKeepsTypes == ASSUME Inv, [Next]_vars PROVE OwnTypes'
<1>1. OwnTypes
  BY DEF Inv
<1>2. CASE Aside \/ Request
  BY <1>1, <1>2, RequestKeepsTypes, WebThreadKeepsTypes, RunnerThreadKeepsTypes,
     MainThreadKeepsTypes
  DEF Aside
<1>3. CASE Along
  BY <1>1, <1>3, WebThreadKeepsTypes, RunnerThreadKeepsTypes, MainThreadKeepsTypes
  DEF Along
<1>4. CASE UNCHANGED vars
  BY <1>1, <1>4 DEF vars, OwnTypes
<1>. QED
  BY <1>2, <1>3, <1>4, NextSplits

\* The runner's thread keeps the order of the process's life: after it has been told to
\* stop it executes nothing any more, and it switches the pumps off before it exits.
LEMMA RunnerThreadKeepsLifecycle ==
    ASSUME Inv,
           \/ Tick \/ RunnerAlone \/ RunnerCrashes \/ TimeProgramRunnerProgramEnded
           \/ TimeProgramRunnerStateUpdate \/ SetFlow \/ SetAllPumpsOff
    PROVE  LifecycleInv'
<1> USE RunnerKnows DEF LifecycleInv
<1>1. LifecycleInv
  BY DEF Inv
<1>2. CASE Tick
  BY <1>1, <1>2 DEF Tick, Runner!Tick
<1>3. CASE RunnerAlone \/ RunnerCrashes
  <2>1. UNCHANGED <<state, target, web, main, flow>> /\ pc # "exit"
        /\ (pc' = "act" \/ pc # "act" \/ state # "stopping")
    BY <1>3
    DEF RunnerAlone, RunnerCrashes, Runner!Loop, Runner!DeadlineWake,
        Runner!SpuriousWake, Runner!KeepState, Runner!BeginProgram, Runner!BeginIdle,
        Runner!BeginStopping, Runner!RunEarly, Runner!RunIdle,
        Runner!BeginEmptyProgram, Runner!DivideByZero, Runner!Still, Runner!Move
  <2>. QED
    BY <1>1, <2>1
<1>4. CASE TimeProgramRunnerProgramEnded
  BY <1>1, <1>4
  DEF TimeProgramRunnerProgramEnded, Runner!ProgramEnded, Runner!Still, Runner!Move
<1>5. CASE TimeProgramRunnerStateUpdate
  BY <1>1, <1>5 DEF TimeProgramRunnerStateUpdate, Runner!Report, Runner!Move
<1>6. CASE SetFlow
  <2>1. /\ state = "active" /\ state' = state /\ pc = "act"
        /\ target' \in {target, "idle"} /\ UNCHANGED <<web, main>>
    BY <1>6 DEF SetFlow, Runner!RunDue
  <2>. QED
    BY <1>1, <2>1
<1>7. CASE SetAllPumpsOff
  BY <1>1, <1>7 DEF SetAllPumpsOff, Runner!RunStopping, Runner!Move
<1>. QED
  BY <1>2, <1>3, <1>4, <1>5, <1>6, <1>7

\* The server's thread keeps it: it is at rest when the runner is told to stop.
LEMMA WebThreadKeepsLifecycle ==
    ASSUME Inv,
           \/ CreateTimeProgram \/ HandOver \/ GiveUp \/ SwitchPump \/ StartPumpTimed
           \/ Request \/ \E thread \in Threads : Deliver(thread)
    PROVE  LifecycleInv'
<1> USE DEF LifecycleInv
<1>1. LifecycleInv
  BY DEF Inv
<1>2. CASE HandOver
  <2>1. /\ web.at = "handover" /\ UNCHANGED <<state, main, flow>>
        /\ pc \in {"loop", "wait", "ready", "exit"}
        /\ target' = target \/ (target' = "active" /\ state = "idle")
    BY <1>2 DEF HandOver, WebStays, Runner!StartProgram, Runner!MutexFree
  <2>. QED
    BY <1>1, <2>1, RunnerKnows
<1>3. CASE SwitchPump \/ StartPumpTimed
  BY <1>1, <1>3, RunnerKnows DEF SwitchPump, StartPumpTimed, runnerVars
<1>4. CASE CreateTimeProgram \/ GiveUp
  BY <1>1, <1>4 DEF CreateTimeProgram, GiveUp, WebStays, runnerVars
<1>5. CASE Request
  <2>1. web = Resting /\ UNCHANGED <<state, target, pc, main, flow>>
    BY <1>5 DEF Request, StartProgram, EnterServiceMode, LeaveServiceMode, Switch,
       WebRests, WebStays, runnerVars
  <2>. QED
    BY <1>1, <2>1 DEF Resting
<1>6. CASE \E thread \in Threads : Deliver(thread)
  BY <1>1, <1>6 DEF Deliver, runnerVars
<1>. QED
  BY <1>2, <1>3, <1>4, <1>5, <1>6

\* The main thread keeps it.
LEMMA MainThreadKeepsLifecycle ==
    ASSUME Inv,
           \/ Construct \/ Listen \/ RegisterCallbackClient \/ Signal
           \/ UnregisterCallbackClient \/ StopServer \/ JoinServer \/ ShutdownRunner
           \/ JoinRunner \/ MapRace \/ Ended
    PROVE  LifecycleInv'
<1> USE RunnerKnows DEF LifecycleInv
<1>1. LifecycleInv
  BY DEF Inv
<1>2. CASE ShutdownRunner
  <2>1. /\ main = "shutdown" /\ main' = "joinrunner" /\ UNCHANGED <<state, web, flow>>
        /\ pc \in {"loop", "wait", "ready", "exit"}
    BY <1>2 DEF ShutdownRunner, MainStays, Runner!Shutdown, Runner!MutexFree
  <2>. QED
    BY <1>1, <2>1
<1>3. CASE \/ Construct \/ Listen \/ RegisterCallbackClient \/ Signal
           \/ UnregisterCallbackClient \/ StopServer \/ JoinServer \/ JoinRunner
           \/ MapRace
  <2>1. UNCHANGED <<state, target, pc, flow>>
    BY <1>3 DEF Construct, Listen, RegisterCallbackClient, Signal,
       UnregisterCallbackClient, StopServer, JoinServer, JoinRunner, MapRace,
       MainStays, runnerVars
  <2>. QED
    BY <1>1, <1>3, <2>1 DEF Construct, Listen, RegisterCallbackClient, Signal,
       UnregisterCallbackClient, StopServer, JoinServer, JoinRunner, MapRace, MapIsShared
<1>4. CASE Ended
  BY <1>1, <1>4 DEF Ended, vars
<1>. QED
  BY <1>2, <1>3, <1>4

LEMMA NextInv == Inv /\ [Next]_vars => Inv'
<1> SUFFICES ASSUME Inv, [Next]_vars PROVE Inv'
  OBVIOUS
<1>1. AnyRunner!IInv'
  BY NextRunner, RunnerNextIInv DEF Inv, OwnTypes
<1>2. OwnTypes'
  BY NextKeepsTypes
<1>3. LifecycleInv'
  <2>1. CASE Aside \/ Along \/ Request
    BY <2>1, RunnerThreadKeepsLifecycle, WebThreadKeepsLifecycle,
       MainThreadKeepsLifecycle
    DEF Aside, Along
  <2>2. CASE UNCHANGED vars
    BY <2>2 DEF Inv, LifecycleInv, vars
  <2>. QED
    BY <2>1, <2>2, NextSplits
<1>. QED
  BY <1>1, <1>2, <1>3 DEF Inv

LEMMA Invariance == Spec => []Inv
BY InitInv, NextInv, PTL DEF Spec

\* Type correctness of PumpControl and of the runner in it.
THEOREM TypeCorrect == Spec => []TypeOK
<1>1. Inv => TypeOK
  BY RunnerKnows DEF Inv, OwnTypes, TypeOK
<1>. QED
  BY <1>1, Invariance, PTL

\* When the process has ended normally, all pumps are off, whatever it was doing when the
\* signal came.
THEOREM EndIsOff == Spec => []DoneIsOff
<1>1. Inv => DoneIsOff
  BY RunnerKnows DEF Inv, LifecycleInv, DoneIsOff
<1>. QED
  BY <1>1, Invariance, PTL

-----------------------------------------------------------------------------
(* The runner in PumpControl, from the first moment on and for all recipes. *)

\* PumpControl uses its runner as the module TimeProgramRunner allows, whatever time
\* programs the recipes are compiled to: the safety part of UsesRunner.
THEOREM RunnerIsUsed == Spec => AnyRunner!Init /\ [][AnyRunner!Next]_(AnyRunner!vars)
<1>1. Inv /\ [Next]_vars => [AnyRunner!Next]_(AnyRunner!vars)
  BY NextRunner DEF Inv, OwnTypes
<1>. QED
  BY <1>1, InitRunner, Invariance, PTL DEF Spec

\* In the whole system neither LOG(FATAL) is reached, only a degenerate program crashes
\* the runner, programs are executed in order, completely and in time, and the runner
\* leaves all pumps off after a program and when it has stopped.
THEOREM RunnerIsSafe ==
    Spec => [](/\ AnyRunner!NoFatal /\ AnyRunner!FollowsProgram /\ AnyRunner!CompletedProgramIsOff
               /\ AnyRunner!NeverOversleeps /\ AnyRunner!StoppedIsOff)
<1>1. Inv => /\ AnyRunner!NoFatal /\ AnyRunner!FollowsProgram /\ AnyRunner!CompletedProgramIsOff
             /\ AnyRunner!NeverOversleeps /\ AnyRunner!StoppedIsOff
  BY AnyRunner!IInvIsSafe, AnyRunnerAssumptions DEF Inv
<1>. QED
  BY <1>1, Invariance, PTL

\* Orders, service mode, manual switching, start and end of the process included,
\* PumpControl executes time programs as DosingContract says.
THEOREM DosingIsKept == Spec => AnyRunner!ImplementsContract
<1>1. Init => AnyRunner!Contract!Init
  BY InitRunner, AnyRunner!InitImplements, AnyRunnerAssumptions
<1>2. Inv /\ Inv' /\ [Next]_vars =>
         [AnyRunner!Contract!Next]_(AnyRunner!Contract!contract)
  BY NextRunner, AnyRunner!NextImplements, AnyRunnerAssumptions DEF Inv, OwnTypes
<1>. QED
  BY <1>1, <1>2, Invariance, PTL
  DEF Spec, AnyRunner!ImplementsContract, AnyRunner!Contract!Spec

-----------------------------------------------------------------------------
(* The settled system.                                                     *)

\* What the server's thread knows: it has taken its request in the settled system, and
\* at each of its places the state is still the one that it has set or tested, because
\* the only thread that could change it is a runner without a program.
PlaceInv ==
    /\ main = "construct" => target = "idle" /\ state \in {"init", "idle"}
    /\ web.at \notin {"rest", "off"} => state # "init"
    /\ web.at \in {"compile", "handover", "fail", "cancel"} =>
          pcState = "active" /\ target = "idle" /\ state = "idle"
    /\ web.at \in {"switch", "timed", "sleep"} => pcState = "service"

\* The pump driver has been told what the runner has commanded.
DriverInv ==
    state = "active" =>
        \A t \in issued : \A p \in DOMAIN program[t] : flow[p] = commanded[p]

SettledInv == Inv /\ PlaceInv /\ BusyIsActive /\ DriverInv

LEMMA InitSettledInv == Init => SettledInv
<1> SUFFICES ASSUME Init PROVE SettledInv
  OBVIOUS
<1>1. PlaceInv /\ BusyIsActive /\ DriverInv
  BY DEF Init, Runner!Init, PlaceInv, BusyIsActive, DriverInv
<1>. QED
  BY <1>1, InitInv DEF SettledInv

\* The steps of the runner's thread that change none of the variables involved.
LEMMA MovesKeepSettledInv ==
    ASSUME SettledInv,
           \/ Tick \/ RunnerAlone \/ RunnerCrashes \/ TimeProgramRunnerProgramEnded
           \/ SetAllPumpsOff \/ \E thread \in Threads : Deliver(thread)
    PROVE  PlaceInv' /\ BusyIsActive' /\ DriverInv'
<1> USE DEF SettledInv, PlaceInv, BusyIsActive, DriverInv
<1>1. CASE \/ Tick \/ RunnerAlone \/ RunnerCrashes \/ TimeProgramRunnerProgramEnded
           \/ \E thread \in Threads : Deliver(thread)
  <2>1. /\ UNCHANGED <<state, target, program, commanded, issued, pcState, main, flow>>
        /\ web' = web \/ web' = Resting
    <3>1. CASE Tick
      BY <3>1 DEF Tick, Runner!Tick
    <3>2. CASE RunnerAlone \/ RunnerCrashes
      BY <3>2
      DEF RunnerAlone, RunnerCrashes, Runner!Loop, Runner!DeadlineWake,
          Runner!SpuriousWake, Runner!KeepState, Runner!BeginProgram,
          Runner!BeginIdle, Runner!BeginStopping, Runner!RunEarly, Runner!RunIdle,
          Runner!BeginEmptyProgram, Runner!DivideByZero, Runner!Still
    <3>3. CASE TimeProgramRunnerProgramEnded
      BY <3>3 DEF TimeProgramRunnerProgramEnded, Runner!ProgramEnded, Runner!Still
    <3>4. CASE \E thread \in Threads : Deliver(thread)
      BY <3>4 DEF Deliver, runnerVars
    <3>. QED
      BY <1>1, <3>1, <3>2, <3>3, <3>4
  <2>. QED
    BY <2>1 DEF Resting
<1>2. CASE SetAllPumpsOff
  BY <1>2 DEF SetAllPumpsOff, Runner!RunStopping
<1>. QED
  BY <1>1, <1>2

\* A new state of the runner: a program begins with no entry executed, and it ends, or
\* the runner leaves INIT, while no request is at a place that relies on the state.
LEMMA ReportKeepsSettledInv ==
    ASSUME SettledInv, TimeProgramRunnerStateUpdate
    PROVE  PlaceInv' /\ BusyIsActive' /\ DriverInv'
<1> USE RunnerKnows DEF SettledInv, PlaceInv, BusyIsActive, DriverInv
<1>1. /\ pc = "report" /\ state' = target /\ target # state
      /\ UNCHANGED <<target, program, commanded, issued, web, main, flow>>
      /\ pcState' = IF target = "idle" THEN "idle" ELSE pcState
  BY DEF TimeProgramRunnerStateUpdate, Runner!Report, SetState
<1>2. target = "idle" => state \in {"init", "active"}
  BY <1>1
<1>3. PlaceInv'
  BY <1>1, <1>2
<1>4. BusyIsActive'
  BY <1>1
<1>5. DriverInv'
  BY <1>1
<1>. QED
  BY <1>3, <1>4, <1>5

\* An entry is executed: the pump driver is told the flows that are commanded.
LEMMA SetFlowKeepsSettledInv ==
    ASSUME SettledInv, SetFlow
    PROVE  PlaceInv' /\ BusyIsActive' /\ DriverInv'
<1> USE RunnerKnows DEF SettledInv, PlaceInv, BusyIsActive, DriverInv
<1>1. /\ pc = "act" /\ state = "active" /\ tpTime \in DOMAIN program
      /\ UNCHANGED <<state, program, pcState, web, main>>
      /\ target' \in {target, "idle"}
      /\ commanded' = Runner!Override(commanded, program[tpTime])
      /\ flow' = Override(flow, program[tpTime])
      /\ issued' = issued \cup {tpTime}
  BY DEF SetFlow, Runner!RunDue
<1>2. flow \in [Pumps -> Flows] /\ commanded \in [Pumps -> Flows]
  BY DEF Inv, OwnTypes, Runner!TypeOK
<1>3. issued \in SUBSET DOMAIN program
      /\ (\A t \in DOMAIN program : DOMAIN program[t] \in SUBSET Pumps)
  BY DEF Inv, Runner!TypeOK, Runner!IsTimeProgram
<1>4. DriverInv'
  <2>1. ASSUME NEW t \in issued', NEW p \in DOMAIN program[t]
        PROVE  flow'[p] = commanded'[p]
    <3>1. p \in Pumps
      BY <1>1, <1>3, <2>1
    <3>2. CASE p \in DOMAIN program[tpTime]
      BY <1>1, <1>2, <3>1, <3>2 DEF Override, Runner!Override
    <3>3. CASE p \notin DOMAIN program[tpTime]
      <4>1. flow[p] = commanded[p]
        BY <1>1, <2>1, <3>3
      <4>. QED
        BY <1>1, <1>2, <3>1, <3>3, <4>1 DEF Override, Runner!Override
    <3>. QED
      BY <3>2, <3>3
  <2>. QED
    BY <1>1, <2>1
<1>. QED
  BY <1>1, <1>4

\* A request that has been taken in the settled system.
LEMMA RequestKeepsSettledInv ==
    ASSUME SettledInv, Settled, Request
    PROVE  PlaceInv' /\ BusyIsActive' /\ DriverInv'
<1> USE DEF SettledInv, PlaceInv, BusyIsActive, DriverInv
<1>1. /\ web = Resting /\ main' = main /\ state # "init" /\ flow' = flow
      /\ UNCHANGED <<state, target, program, commanded, issued>>
  BY DEF Request, StartProgram, EnterServiceMode, LeaveServiceMode, Switch, WebRests,
     WebStays, runnerVars, Settled
<1>2. target # "stopping" /\ (main = "construct" => web.at = "off")
  BY <1>1 DEF Inv, LifecycleInv, Resting
<1>3. pcState # "active" => target = "idle" /\ state = "idle"
  BY <1>1, <1>2, RunnerKnows
<1>4. CASE \E r \in Recipes : StartProgram(r)
  <2>1. pcState # "active"
    BY <1>4 DEF StartProgram, Allowed, Inv, OwnTypes, PcStates
  <2>2. pcState' = "active" /\ web'.at = "compile"
    BY <1>4 DEF StartProgram, SetState
  <2>. QED
    BY <1>1, <1>2, <1>3, <2>1, <2>2 DEF Resting
<1>5. CASE EnterServiceMode \/ LeaveServiceMode
  <2>1. pcState \in {"idle", "service"} /\ web'.at \in {"rest", "locked"}
    BY <1>1, <1>5 DEF EnterServiceMode, LeaveServiceMode, Resting
  <2>. QED
    BY <1>1, <1>2, <1>3, <2>1 DEF Resting
<1>6. CASE Switch
  <2>1. pcState = "service" /\ pcState' = pcState /\ web'.at \in {"switch", "timed"}
    BY <1>6 DEF Switch
  <2>. QED
    BY <1>1, <1>2, <1>3, <2>1
<1>. QED
  BY <1>4, <1>5, <1>6 DEF Request

\* The server's thread goes on with a request.
LEMMA WebThreadKeepsSettledInv ==
    ASSUME SettledInv,
           CreateTimeProgram \/ HandOver \/ GiveUp \/ SwitchPump \/ StartPumpTimed
    PROVE  PlaceInv' /\ BusyIsActive' /\ DriverInv'
<1> USE DEF SettledInv, PlaceInv, BusyIsActive, DriverInv
<1>1. CASE CreateTimeProgram
  <2>1. PICK r \in Recipes : web = [at |-> "compile", recipe |-> r]
    BY <1>1 DEF CreateTimeProgram, Inv, OwnTypes, WebPlaces, Resting
  <2>2. [web EXCEPT !.at = "handover"] = [at |-> "handover", recipe |-> r]
    BY <2>1
  <2>3. web'.at \in {"fail", "cancel", "handover"}
    BY <1>1, <2>1, <2>2, RecipesAssumption DEF CreateTimeProgram, Outcomes
  <2>4. UNCHANGED <<state, target, program, commanded, issued, pcState, main, flow>>
    BY <1>1 DEF CreateTimeProgram, runnerVars
  <2>. QED
    BY <2>1, <2>3, <2>4
<1>2. CASE HandOver
  <2>1. /\ web.at = "handover" /\ web' = Resting
        /\ UNCHANGED <<state, commanded, pcState, main, flow>>
        /\ state = "idle" /\ target' = "active"
    BY <1>2 DEF HandOver, WebStays, Runner!StartProgram
  <2>2. main # "construct"
    BY <2>1 DEF Inv, LifecycleInv
  <2>. QED
    BY <2>1, <2>2 DEF Resting
<1>3. CASE GiveUp
  <2>1. /\ web.at \in {"fail", "cancel"} /\ web' = Resting
        /\ UNCHANGED <<state, target, program, commanded, issued, main, flow>>
    BY <1>3 DEF GiveUp, WebStays, runnerVars
  <2>. QED
    BY <2>1 DEF Resting
<1>4. CASE SwitchPump \/ StartPumpTimed
  <2>1. /\ web.at \in {"switch", "timed", "sleep"}
        /\ web'.at \in {"rest", "sleep"}
        /\ UNCHANGED <<state, target, program, commanded, issued, pcState, main>>
    <3>1. CASE SwitchPump
      BY <3>1 DEF SwitchPump, runnerVars, Resting
    <3>2. CASE StartPumpTimed
      <4>1. PICK p \in Pumps : web \in {[at |-> "timed", pump |-> p], [at |-> "sleep", pump |-> p]}
        BY <3>2 DEF StartPumpTimed, Inv, OwnTypes, WebPlaces, Resting
      <4>. QED
        BY <3>2, <4>1 DEF StartPumpTimed, runnerVars, Resting
    <3>. QED
      BY <1>4, <3>1, <3>2
  <2>. QED
    BY <2>1
<1>. QED
  BY <1>1, <1>2, <1>3, <1>4

\* The main thread: it constructs the PumpControl before any program, and it ends the
\* runner after the last request.
LEMMA MainThreadKeepsSettledInv ==
    ASSUME SettledInv,
           \/ Construct \/ Listen \/ RegisterCallbackClient \/ Signal
           \/ UnregisterCallbackClient \/ StopServer \/ JoinServer \/ ShutdownRunner
           \/ JoinRunner \/ MapRace \/ Ended
    PROVE  PlaceInv' /\ BusyIsActive' /\ DriverInv'
<1> USE DEF SettledInv, PlaceInv, BusyIsActive, DriverInv
<1>1. CASE ShutdownRunner
  <2>1. /\ main = "shutdown" /\ main' = "joinrunner" /\ target' \in {target, "stopping"}
        /\ UNCHANGED <<state, program, commanded, issued, pcState, web, flow>>
    BY <1>1 DEF ShutdownRunner, MainStays, Runner!Shutdown
  <2>2. web.at = "off"
    BY <2>1 DEF Inv, LifecycleInv
  <2>. QED
    BY <2>1, <2>2
<1>2. CASE Construct
  <2>1. /\ main = "construct" /\ main' = "listen"
        /\ UNCHANGED <<state, target, program, commanded, issued, web, flow>>
    BY <1>2 DEF Construct, MainStays, runnerVars
  <2>2. web.at = "off"
    BY <2>1 DEF Inv, LifecycleInv
  <2>. QED
    BY <2>1, <2>2
<1>3. CASE \/ Listen \/ RegisterCallbackClient \/ Signal \/ UnregisterCallbackClient
           \/ StopServer \/ JoinServer \/ JoinRunner \/ MapRace
  <2>1. /\ UNCHANGED <<state, target, program, commanded, issued, pcState, flow>>
        /\ main' # "construct"
        /\ web' = web \/ web'.at \in {"rest", "off"}
    BY <1>3 DEF Listen, RegisterCallbackClient, Signal, UnregisterCallbackClient,
       StopServer, JoinServer, JoinRunner, MapRace, MainStays, runnerVars, Resting
  <2>. QED
    BY <2>1
<1>4. CASE Ended
  BY <1>4 DEF Ended, vars
<1>. QED
  BY <1>1, <1>2, <1>3, <1>4

LEMMA SettledSplits ==
    ASSUME SettledNext
    PROVE  Next /\ (Aside \/ Along \/ (Settled /\ Request))
BY DEF SettledNext, Next, Progress, RunnerThread, WebThread, MainThread, Aside, Along,
       Threads

LEMMA NextSettledInv == SettledInv /\ [SettledNext]_vars => SettledInv'
<1> SUFFICES ASSUME SettledInv, [SettledNext]_vars PROVE SettledInv'
  OBVIOUS
<1>1. Inv'
  BY NextInv, SettledSplits DEF SettledInv
<1>2. PlaceInv' /\ BusyIsActive' /\ DriverInv'
  <2>1. CASE UNCHANGED vars
    BY <2>1 DEF vars, SettledInv, PlaceInv, BusyIsActive, DriverInv
  <2>2. CASE Settled /\ Request
    BY <2>2, RequestKeepsSettledInv
  <2>3. CASE Along
    BY <2>3, MovesKeepSettledInv, ReportKeepsSettledInv, SetFlowKeepsSettledInv,
       WebThreadKeepsSettledInv, MainThreadKeepsSettledInv
    DEF Along
  <2>4. CASE Aside
    BY <2>4, MovesKeepSettledInv, WebThreadKeepsSettledInv, MainThreadKeepsSettledInv
    DEF Aside
  <2>. QED
    BY <2>1, <2>2, <2>3, <2>4, SettledSplits
<1>. QED
  BY <1>1, <1>2 DEF SettledInv

LEMMA SettledInvariance == SettledSpec => []SettledInv
BY InitSettledInv, NextSettledInv, PTL DEF SettledSpec

\* A runner that has a program, accepted or begun, means an active system.
THEOREM ProgramMeansActive == SettledSpec => []BusyIsActive
<1>1. SettledInv => BusyIsActive
  BY DEF SettledInv
<1>. QED
  BY <1>1, SettledInvariance, PTL

\* Pumps are switched by hand in the service mode only, although its test and the
\* switching are apart.
THEOREM ManualIsInService == SettledSpec => []SwitchIsInService
<1>1. SettledInv => SwitchIsInService
  BY DEF SettledInv, PlaceInv, BusyIsActive, SwitchIsInService
<1>. QED
  BY <1>1, SettledInvariance, PTL

\* During a program the pump driver does what the executed entries say, for all recipes.
THEOREM PumpsFollowProgram == SettledSpec => []DriverFollows
<1>1. ASSUME SettledInv, state = "active", NEW p \in Pumps, NEW t \in issued,
             IsLastFor(program, issued, p, t)
      PROVE  flow[p] = program[t][p]
  <2>1. AnyRunner!FollowsProgram
    BY <1>1, AnyRunner!IInvIsSafe, AnyRunnerAssumptions DEF SettledInv, Inv
  <2>2. AnyRunner!IsLastFor(program, issued, p, t)
    BY <1>1 DEF IsLastFor, AnyRunner!IsLastFor
  <2>3. commanded[p] = program[t][p]
    <3>1. pc = "crashed" => tpTime \in DOMAIN program
      BY <1>1
      DEF SettledInv, Inv, AnyRunner!IInv, AnyRunner!ControlInv,
          AnyRunner!NextEntryInv, AnyRunner!Remaining
    <3>2. \A u \in DOMAIN program : AnyRunner!Refused(program[u]) = {}
      <4>1. ASSUME NEW u \in DOMAIN program, NEW q \in DOMAIN program[u]
            PROVE  ~ (program[u][q] < AnyRunner!Off)
        <5>1. program[u][q] \in Flows
          BY <1>1, RunnerKnows DEF SettledInv
        <5>2. program[u][q] \in Int /\ Off <= program[u][q] /\ Off \in Int
          BY <5>1, RunnerAssumption, FlowsAssumption
        <5>. QED
          BY <5>2 DEF AnyRunner!Off, Off
      <4>. QED
        BY <4>1 DEF AnyRunner!Refused
    <3>3. ~ AnyRunner!Interrupted
      BY <3>1, <3>2 DEF AnyRunner!Interrupted
    <3>. QED
      BY <1>1, <2>1, <2>2, <3>3 DEF AnyRunner!FollowsProgram
  <2>4. p \in DOMAIN program[t]
    BY <1>1 DEF IsLastFor
  <2>. QED
    BY <1>1, <2>3, <2>4 DEF SettledInv, DriverInv
<1>2. SettledInv => DriverFollows
  BY <1>1 DEF DriverFollows
<1>. QED
  BY <1>2, SettledInvariance, PTL

\* timeprogram_ needs no mutex: the server's thread uses it when the runner is idle, and
\* the runner's thread clears it when it is active.
THEOREM MapNeedsNoMutex == SettledSpec => []MapIsNotShared
<1>1. SettledInv => MapIsNotShared
  BY RunnerKnows DEF SettledInv, PlaceInv, MapIsNotShared, MapIsShared
<1>. QED
  BY <1>1, SettledInvariance, PTL

\* No order is dropped silently.
THEOREM EveryStartIsTaken == SettledSpec => StartIsTaken
<1>1. SettledInv => (HandOver => target' = "active" /\ program' = timeprogram)
  BY DEF SettledInv, PlaceInv, HandOver, Runner!StartProgram
<1>. QED
  BY <1>1, SettledInvariance, PTL DEF StartIsTaken

\* No order takes the runner away from another one.
THEOREM ProgramIsKept == SettledSpec => NoReplacement
<1>1. ASSUME SettledInv, [SettledNext]_vars, target = "active" \/ state = "active"
      PROVE  UNCHANGED program
  <2>1. CASE HandOver
    BY <1>1, <2>1 DEF SettledInv, PlaceInv, HandOver
  <2>2. CASE ShutdownRunner
    BY <2>2 DEF ShutdownRunner, Runner!Shutdown
  <2>3. CASE Along /\ ~ HandOver /\ ~ ShutdownRunner
    BY <2>3
    DEF Along, Tick, Runner!Tick, RunnerAlone, RunnerCrashes,
        TimeProgramRunnerProgramEnded, TimeProgramRunnerStateUpdate, SetFlow,
        SetAllPumpsOff, Runner!Loop, Runner!DeadlineWake, Runner!SpuriousWake,
        Runner!KeepState, Runner!BeginProgram, Runner!BeginIdle,
        Runner!BeginStopping, Runner!RunEarly, Runner!RunIdle,
        Runner!BeginEmptyProgram, Runner!DivideByZero, Runner!ProgramEnded,
        Runner!Report, Runner!RunDue, Runner!RunStopping, Runner!Still
  <2>4. CASE Aside \/ Request
    BY <2>4, AsideLeavesRunner DEF runnerVars
  <2>5. CASE UNCHANGED vars
    BY <2>5 DEF vars
  <2>. QED
    BY <1>1, <2>1, <2>2, <2>3, <2>4, <2>5, SettledSplits
<1>2. SettledInv /\ [SettledNext]_vars =>
          [target = "active" \/ state = "active" => UNCHANGED program]_vars
  BY <1>1
<1>. QED
  BY <1>2, SettledInvariance, PTL DEF SettledSpec, NoReplacement

-----------------------------------------------------------------------------
(* What is handed over, when requests that fail leave nothing behind.      *)

FailuresWriteNothing ==
    \A r \in Recipes : r.outcome \in {"broken", "short"} => r.written = <<>>

\* timeprogram_ is empty from the end of a program to the next compilation.
CleanInv ==
    /\ web.at = "handover" => timeprogram = web.recipe.written
    /\ \/ timeprogram = <<>>
       \/ web.at = "handover"
       \/ target \in {"active", "stopping"}
       \/ state = "active" /\ pc # "report"

\* The runner's thread: it leaves the active state through ProgramEnded only.
LEMMA RunnerThreadKeepsClean ==
    ASSUME SettledInv, CleanInv,
           \/ Tick \/ RunnerAlone \/ RunnerCrashes \/ TimeProgramRunnerProgramEnded
           \/ TimeProgramRunnerStateUpdate \/ SetFlow \/ SetAllPumpsOff
    PROVE  CleanInv'
<1> USE RunnerKnows DEF SettledInv, CleanInv
<1>1. CASE Tick
  BY <1>1 DEF Tick, Runner!Tick
<1>2. CASE RunnerAlone \/ RunnerCrashes
  <2>1. /\ UNCHANGED <<state, target, timeprogram, web>>
        /\ pc' = "report" => state # "active" \/ target = "stopping"
    BY <1>2
    DEF RunnerAlone, RunnerCrashes, Runner!Loop, Runner!DeadlineWake,
        Runner!SpuriousWake, Runner!KeepState, Runner!BeginProgram, Runner!BeginIdle,
        Runner!BeginStopping, Runner!RunEarly, Runner!RunIdle,
        Runner!BeginEmptyProgram, Runner!DivideByZero, Runner!Still, Runner!Move
  <2>. QED
    BY <2>1
<1>3. CASE TimeProgramRunnerProgramEnded
  <2>1. timeprogram' = <<>> /\ web' = web /\ state = "active"
    BY <1>3 DEF TimeProgramRunnerProgramEnded, Runner!ProgramEnded
  <2>2. web.at # "handover"
    BY <2>1 DEF PlaceInv
  <2>. QED
    BY <2>1, <2>2
<1>4. CASE TimeProgramRunnerStateUpdate
  BY <1>4 DEF TimeProgramRunnerStateUpdate, Runner!Report
<1>5. CASE SetFlow
  BY <1>5 DEF SetFlow, Runner!RunDue, Runner!Move
<1>6. CASE SetAllPumpsOff
  BY <1>6 DEF SetAllPumpsOff, Runner!RunStopping
<1>. QED
  BY <1>1, <1>2, <1>3, <1>4, <1>5, <1>6

\* The compilation of a recipe starts with an empty program.
LEMMA CreateTimeProgramKeepsClean ==
    ASSUME FailuresWriteNothing, SettledInv, CleanInv, CreateTimeProgram
    PROVE  CleanInv'
<1>1. PICK r \in Recipes : web = [at |-> "compile", recipe |-> r]
  BY DEF CreateTimeProgram, SettledInv, Inv, OwnTypes, WebPlaces, Resting
<1>2. web.at = "compile" /\ web.recipe = r
      /\ [web EXCEPT !.at = "handover"] = [at |-> "handover", recipe |-> r]
  BY <1>1
<1>3. r.outcome \in Outcomes /\ IsTimeProgram(r.written, Runner!Keys, Pumps, Flows)
  BY RecipesAssumption
<1>4. timeprogram = <<>>
  BY <1>2 DEF SettledInv, PlaceInv, CleanInv
<1>5. timeprogram' = IF r.outcome = "rejected" THEN <<>> ELSE r.written
  BY <1>2, <1>3, <1>4, MergeIntoEmpty DEF CreateTimeProgram
<1>6. CASE r.outcome = "good"
  <2>1. web' = [at |-> "handover", recipe |-> r]
    BY <1>2, <1>6 DEF CreateTimeProgram
  <2>. QED
    BY <1>5, <1>6, <2>1 DEF CleanInv
<1>7. CASE r.outcome # "good"
  <2>1. web' \in {[at |-> "fail"], [at |-> "cancel"]}
    BY <1>2, <1>3, <1>7 DEF CreateTimeProgram, Outcomes
  <2>2. timeprogram' = <<>>
    BY <1>3, <1>5, <1>7 DEF FailuresWriteNothing, Outcomes
  <2>. QED
    BY <2>1, <2>2 DEF CleanInv
<1>. QED
  BY <1>6, <1>7

\* Everything else.
LEMMA OthersKeepClean ==
    ASSUME SettledInv, CleanInv,
           \/ Settled /\ Request
           \/ Aside /\ ~ CreateTimeProgram
           \/ HandOver \/ ShutdownRunner
    PROVE  CleanInv'
<1> USE DEF CleanInv
<1>1. CASE HandOver
  BY <1>1
  DEF HandOver, WebStays, Resting, Runner!StartProgram, SettledInv, PlaceInv
<1>2. CASE ShutdownRunner
  <2>1. main = "shutdown" /\ UNCHANGED <<timeprogram, web>>
        /\ (UNCHANGED <<state, target, pc>> \/ target' = "stopping")
    BY <1>2 DEF ShutdownRunner, MainStays, Runner!Shutdown
  <2>. QED
    BY <2>1
<1>3. CASE Settled /\ Request
  <2>1. /\ UNCHANGED <<timeprogram, state, target, pc>>
        /\ web.at = "rest" /\ web'.at # "handover"
    BY <1>3 DEF Request, StartProgram, EnterServiceMode, LeaveServiceMode, Switch,
       WebRests, WebStays, runnerVars, Resting
  <2>. QED
    BY <2>1
<1>4. CASE Aside /\ ~ CreateTimeProgram
  <2>1. UNCHANGED <<timeprogram, state, target, pc>>
    BY <1>4, AsideLeavesRunner
    DEF Aside, runnerVars, Deliver, GiveUp, SwitchPump, StartPumpTimed, Construct,
        Listen, RegisterCallbackClient, Signal, UnregisterCallbackClient, StopServer,
        JoinServer, JoinRunner, MapRace, Ended, vars, WebStays, MainStays
  <2>2. \/ web' = web
        \/ web.at # "handover" /\ web'.at # "handover"
    <3>1. CASE StartPumpTimed
      <4>1. PICK p \in Pumps : web \in {[at |-> "timed", pump |-> p], [at |-> "sleep", pump |-> p]}
        BY <3>1 DEF StartPumpTimed, SettledInv, Inv, OwnTypes, WebPlaces, Resting
      <4>. QED
        BY <3>1, <4>1 DEF StartPumpTimed, Resting
    <3>2. CASE Listen
      BY <3>2 DEF Listen, SettledInv, Inv, LifecycleInv, Resting
    <3>3. CASE Aside /\ ~ CreateTimeProgram /\ ~ StartPumpTimed /\ ~ Listen
      BY <3>3
      DEF Aside, Deliver, GiveUp, SwitchPump, Construct, RegisterCallbackClient,
          Signal, UnregisterCallbackClient, StopServer, JoinServer, JoinRunner,
          MapRace, Ended, vars, Resting
    <3>. QED
      BY <1>4, <3>1, <3>2, <3>3
  <2>. QED
    BY <2>1, <2>2
<1>. QED
  BY <1>1, <1>2, <1>3, <1>4

\* What the runner gets is the program of the request and nothing else, if requests that
\* fail write nothing; so those that fail in a later line are the only cause of leftovers.
THEOREM OnlyFailuresLeaveEntries == FailuresWriteNothing /\ SettledSpec => OwnRecipe
<1> SUFFICES ASSUME FailuresWriteNothing PROVE SettledSpec => OwnRecipe
  OBVIOUS
<1>1. Init => CleanInv
  BY DEF Init, CleanInv
<1>2. SettledInv /\ CleanInv /\ [SettledNext]_vars => CleanInv'
  <2> SUFFICES ASSUME SettledInv, CleanInv, [SettledNext]_vars
               PROVE  CleanInv'
    OBVIOUS
  <2>1. CASE CreateTimeProgram
    BY <2>1, CreateTimeProgramKeepsClean
  <2>2. CASE UNCHANGED vars
    BY <2>2 DEF vars, CleanInv
  <2>3. CASE \/ Tick \/ RunnerAlone \/ RunnerCrashes \/ TimeProgramRunnerProgramEnded
             \/ TimeProgramRunnerStateUpdate \/ SetFlow \/ SetAllPumpsOff
    BY <2>3, RunnerThreadKeepsClean
  <2>4. CASE \/ Settled /\ Request
             \/ Aside /\ ~ CreateTimeProgram
             \/ HandOver \/ ShutdownRunner
    BY <2>4, OthersKeepClean
  <2>. QED
    BY <2>1, <2>2, <2>3, <2>4, SettledSplits DEF Along
<1>3. CleanInv => (HandOver => timeprogram = web.recipe.written)
  BY DEF CleanInv, HandOver
<1>. QED
  BY <1>1, <1>2, <1>3, SettledInvariance, PTL DEF SettledSpec, OwnRecipe
=============================================================================
