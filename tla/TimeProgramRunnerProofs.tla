---------------------- MODULE TimeProgramRunnerProofs ----------------------
(***************************************************************************)
(* The safety invariants of TimeProgramRunner, for every set of pumps,     *)
(* flows and programs, every progress period and every horizon.            *)
(***************************************************************************)
EXTENDS TimeProgramRunner, TimeProgramProofs

\* How the commanded state, the current state and the position of the thread relate.
ControlInv ==
    /\ NoFatal
    /\ state = "stopping" => target = "stopping"
    /\ pc = "act" => target = state
    /\ pc = "ended" => state = "active" /\ target = "idle"
    /\ pc = "report" => target # state
    /\ state = "stopping" => pc \in {"act", "loop", "exit"}
    /\ pc = "exit" => state = "stopping"
    /\ pc = "crashed" /\ state = "active" => target = "active"

\* What is due next while a program is accepted, begun and executed.
NextEntryInv ==
    /\ state = "idle" /\ target = "active" => issued = {}
    /\ pc = "report" /\ target = "active" =>
          tpTime \in DOMAIN program /\ (\A u \in DOMAIN program : tpTime <= u)
    /\ state = "active" /\ target = "active" =>
          tpTime \in Remaining /\ (\A u \in Remaining : tpTime <= u)

\* The executed entries are an initial segment and none was early.
OrderInv ==
    /\ \A t \in issued, u \in Remaining : t < u
    /\ state = "active" => \A t \in issued : t <= now

\* Until SetAllPumpsOff is called the pumps have been told what the executed entries
\* say, and afterwards to stop.
Released == state = "stopping" /\ pc # "act"
Follows ==
    \A p \in Pumps : \A t \in issued :
       IsLastFor(program, issued, p, t) => commanded[p] = program[t][p]
FlowInv ==
    /\ Released => \A p \in Pumps : commanded[p] = Off
    /\ ~ Released /\ ~ Interrupted => Follows

\* The inductive invariant.
IInv ==
    /\ TypeOK
    /\ ControlInv
    /\ NextEntryInv
    /\ OrderInv
    /\ FlowInv
    /\ NeverOversleeps

-----------------------------------------------------------------------------

\* The initial state satisfies the inductive invariant.
LEMMA InitIInv == Init => IInv
<1> SUFFICES ASSUME Init PROVE IInv
  OBVIOUS
<1> USE ConstantsAssumption DEF Init
<1>1. DOMAIN program = {} /\ issued = {}
  OBVIOUS
<1>2. IsTimeProgram(program, Keys, Pumps, Flows)
  BY <1>1 DEF IsTimeProgram
<1>3. TypeOK
  BY <1>2 DEF TypeOK, States, Points, Hour
<1>4. ControlInv
  BY DEF ControlInv, NoFatal
<1>5. NextEntryInv /\ OrderInv /\ FlowInv
  BY <1>1 DEF NextEntryInv, OrderInv, FlowInv, Follows, Released, Interrupted, Remaining
<1>6. NeverOversleeps
  BY DEF NeverOversleeps
<1>. QED
  BY <1>3, <1>4, <1>5, <1>6 DEF IInv

\* The keys of a time program are numbers, and there is one below all of them.
LEMMA KeysAreInt ==
    ASSUME TypeOK
    PROVE  /\ DOMAIN program \in SUBSET Int
           /\ -MaxClock \in Int /\ \A u \in DOMAIN program : -MaxClock <= u
BY ConstantsAssumption DEF TypeOK, IsTimeProgram, Keys

\* A step of the runner's thread preserves the inductive invariant: the steps that
\* only move the thread on.
LEMMA MovesKeepIInv ==
    ASSUME IInv,
           \/ Loop \/ DeadlineWake \/ SpuriousWake \/ KeepState \/ BeginEmptyProgram
           \/ BeginIdle \/ BeginStopping \/ ProgramEnded \/ DivideByZero
    PROVE  IInv'
<1> USE DEF IInv
<1>1. Still /\ pc' \in Points
  BY DEF Loop, DeadlineWake, SpuriousWake, KeepState, BeginEmptyProgram, BeginIdle,
         BeginStopping, ProgramEnded, DivideByZero, Move, Points, TypeOK
<1>2. TypeOK'
  BY <1>1 DEF TypeOK, Still
<1>3. ControlInv'
  BY <1>1 DEF ControlInv, NoFatal, NextEntryInv, Remaining, Still, Move, TypeOK,
       States, Loop, DeadlineWake, SpuriousWake, KeepState, BeginEmptyProgram,
       BeginIdle, BeginStopping, ProgramEnded, DivideByZero
<1>4. NextEntryInv'
  BY <1>1 DEF NextEntryInv, ControlInv, Remaining, Still, Move,
       Loop, DeadlineWake, SpuriousWake, KeepState, BeginEmptyProgram,
       BeginIdle, BeginStopping, ProgramEnded, DivideByZero
<1>5. OrderInv'
  BY <1>1 DEF OrderInv, Remaining, Still
<1>6. FlowInv'
  <2>1. Released' => Released
    BY <1>1 DEF Released, ControlInv, Still, Move, Loop, DeadlineWake, SpuriousWake,
         KeepState, BeginEmptyProgram, BeginIdle, BeginStopping, ProgramEnded,
         DivideByZero
  <2>. QED
    BY <1>1, <2>1 DEF FlowInv, Follows, Released, Interrupted, IsLastFor, Still,
       ControlInv, Move,
       Loop, DeadlineWake, SpuriousWake, KeepState, BeginEmptyProgram,
       BeginIdle, BeginStopping, ProgramEnded, DivideByZero
<1>7. NeverOversleeps'
  BY <1>1 DEF NeverOversleeps, Remaining, Still, ControlInv, Move,
       Loop, DeadlineWake, SpuriousWake, KeepState, BeginEmptyProgram,
       BeginIdle, BeginStopping, ProgramEnded, DivideByZero
<1>. QED
  BY <1>2, <1>3, <1>4, <1>5, <1>6, <1>7

\* The passage of time preserves it: what was due stays due.
LEMMA TickKeepsIInv == ASSUME IInv, Tick PROVE IInv'
<1> USE DEF IInv, Tick
<1>1. TypeOK'
  BY ConstantsAssumption DEF TypeOK
<1>2. ControlInv'
  BY DEF ControlInv, NoFatal, Degenerate
<1>3. NextEntryInv' /\ FlowInv'
  BY DEF NextEntryInv, Remaining, FlowInv, Released, Interrupted, Follows, IsLastFor
<1>4. OrderInv'
  BY KeysAreInt DEF OrderInv, Remaining, TypeOK
<1>5. NeverOversleeps'
  BY ConstantsAssumption DEF NeverOversleeps, Remaining, TypeOK, Hour
<1>. QED
  BY <1>1, <1>2, <1>3, <1>4, <1>5

\* Beginning a program selects its first entry and starts the clock.
LEMMA BeginProgramKeepsIInv == ASSUME IInv, BeginProgram PROVE IInv'
<1> USE DEF IInv, BeginProgram, Move
<1>1. /\ FirstKey(program) \in DOMAIN program
      /\ \A u \in DOMAIN program : FirstKey(program) <= u
  BY KeysAreInt, FirstKeyIsLeast
<1>2. TypeOK'
  BY <1>1, KeysAreInt, ConstantsAssumption DEF TypeOK, Points
<1>3. ControlInv'
  BY DEF ControlInv, NoFatal
<1>4. NextEntryInv'
  BY <1>1 DEF NextEntryInv, Remaining
<1>5. OrderInv' /\ NeverOversleeps'
  BY DEF OrderInv, NeverOversleeps, Remaining
<1>6. FlowInv'
  BY DEF FlowInv, Released, Interrupted, Follows, IsLastFor
<1>. QED
  BY <1>2, <1>3, <1>4, <1>5, <1>6

\* Reporting makes the commanded state the current one.
LEMMA ReportKeepsIInv == ASSUME IInv, Report PROVE IInv'
<1> USE DEF IInv, Report, Move
<1>1. TypeOK'
  BY DEF TypeOK, Points
<1>2. ControlInv'
  BY DEF ControlInv, NoFatal
<1>3. target = "active" => state = "idle" /\ issued = {}
  BY DEF ControlInv, NoFatal, NextEntryInv
<1>4. NextEntryInv'
  BY <1>3 DEF NextEntryInv, Remaining
<1>5. OrderInv'
  <2>1. state' = "active" => issued' = {}
    BY <1>3
  <2>. QED
    BY <2>1 DEF OrderInv, Remaining
<1>6. NeverOversleeps'
  BY DEF NeverOversleeps
<1>7. FlowInv'
  BY DEF FlowInv, Released, Interrupted, Follows, IsLastFor, ControlInv
<1>. QED
  BY <1>1, <1>2, <1>4, <1>5, <1>6, <1>7

\* Executing an entry: it is the least of the remaining ones, so that it is the last
\* one for each of its pumps, and the next key is the least of those left.
LEMMA RunDueKeepsIInv == ASSUME IInv, RunDue PROVE IInv'
<1> USE DEF IInv, RunDue, Move
<1>1. state = "active" /\ target = "active" /\ pc = "act"
  BY DEF ControlInv
<1>2. tpTime \in Remaining /\ (\A u \in Remaining : tpTime <= u)
  BY <1>1 DEF NextEntryInv
<1>3. DOMAIN program \in SUBSET Int /\ tpTime \in DOMAIN program
  BY <1>2, KeysAreInt DEF Remaining
<1>4. Remaining' = KeysAfter(program, tpTime)
  <2>1. \A t \in issued : t < tpTime
    BY <1>2 DEF OrderInv
  <2>2. ASSUME NEW u \in Remaining, u # tpTime PROVE u > tpTime
    BY <1>2, <1>3, <2>2 DEF Remaining
  <2>. QED
    BY <1>3, <2>1, <2>2 DEF Remaining, KeysAfter, TypeOK
<1>5. commanded' \in [Pumps -> Flows]
  <2>1. \A p \in DOMAIN program[tpTime] : program[tpTime][p] \in Flows
    BY <1>3 DEF TypeOK, IsTimeProgram
  <2>. QED
    BY <2>1, OverrideType DEF TypeOK
<1>6. ASSUME KeysAfter(program, tpTime) # {}
      PROVE  TypeOK' /\ ControlInv' /\ NextEntryInv' /\ NeverOversleeps'
  <2>1. /\ NextKey(program, tpTime) \in KeysAfter(program, tpTime)
        /\ \A u \in KeysAfter(program, tpTime) : NextKey(program, tpTime) <= u
    BY <1>3, <1>6, KeysAreInt, NextKeyIsLeast
  <2>2. tpTime' = NextKey(program, tpTime) /\ tpTime' \in Int /\ target' = target
    BY <1>3, <1>6, <2>1 DEF KeysAfter
  <2>3. TypeOK'
    BY <1>3, <1>5, <1>6, <2>2, ConstantsAssumption DEF TypeOK, Points, Earlier
  <2>4. ControlInv' /\ NextEntryInv'
    BY <1>1, <1>4, <2>1, <2>2
    DEF ControlInv, NoFatal, NextEntryInv
  <2>5. NeverOversleeps'
    BY <1>1, <1>4, <1>6, <2>1, <2>2, ConstantsAssumption
    DEF NeverOversleeps, Earlier, Hour, TypeOK
  <2>. QED
    BY <2>3, <2>4, <2>5
<1>7. ASSUME KeysAfter(program, tpTime) = {}
      PROVE  TypeOK' /\ ControlInv' /\ NextEntryInv' /\ NeverOversleeps'
  <2>1. target' = "idle" /\ wakeup' = now /\ tpTime' = tpTime
    BY <1>7
  <2>2. TypeOK'
    BY <1>3, <1>5, <2>1, ConstantsAssumption DEF TypeOK, States, Points
  <2>3. ControlInv' /\ NextEntryInv' /\ NeverOversleeps'
    BY <1>1, <2>1 DEF ControlInv, NoFatal, NextEntryInv,
                      NeverOversleeps
  <2>. QED
    BY <2>2, <2>3
<1>8. OrderInv'
  <2>1. \A t \in issued', u \in Remaining' : t < u
    <3>1. ASSUME NEW t \in issued, NEW u \in Remaining' PROVE t < u
      BY <1>2, <1>3, <1>4 DEF OrderInv, KeysAfter, Remaining, TypeOK
    <3>2. ASSUME NEW u \in Remaining' PROVE tpTime < u
      BY <1>3, <1>4 DEF KeysAfter
    <3>. QED
      BY <3>1, <3>2
  <2>. QED
    BY <1>1, <2>1 DEF OrderInv, TypeOK
<1>9. FlowInv'
  <2>1. Follows
    BY <1>1 DEF FlowInv, Released, Interrupted
  <2>2. \A t \in issued : t < tpTime
    BY <1>2 DEF OrderInv
  <2>3. ASSUME NEW p \in Pumps, NEW t \in issued', IsLastFor(program, issued', p, t)
        PROVE  commanded'[p] = program[t][p]
    <3>1. p \in DOMAIN commanded
      BY DEF TypeOK
    <3>2. CASE p \in DOMAIN program[tpTime]
      <4>1. t = tpTime
        BY <1>3, <2>2, <2>3, <3>2 DEF IsLastFor, TypeOK
      <4>. QED
        BY <3>1, <3>2, <4>1 DEF Override
    <3>3. CASE p \notin DOMAIN program[tpTime]
      <4>1. t \in issued /\ IsLastFor(program, issued, p, t)
        BY <2>3, <3>3 DEF IsLastFor
      <4>. QED
        BY <2>1, <3>1, <3>3, <4>1 DEF Follows, Override
    <3>. QED
      BY <3>2, <3>3
  <2>. QED
    BY <1>1, <2>3 DEF FlowInv, Released, Interrupted, Follows
<1>. QED
  BY <1>6, <1>7, <1>8, <1>9

\* A throw leaves an entry half executed, and nothing moves any more.
LEMMA RunThrowsKeepsIInv == ASSUME IInv, RunThrows PROVE IInv'
<1> USE DEF IInv, RunThrows, Move
<1>1. state = "active" /\ target = "active" /\ tpTime \in Remaining
  BY DEF ControlInv, NextEntryInv
<1>2. \A p \in DOMAIN program[tpTime] : program[tpTime][p] \in Flows
  BY <1>1 DEF TypeOK, IsTimeProgram, Remaining
<1>3. commanded' \in [Pumps -> Flows]
  BY <1>2, OverrideType DEF TypeOK, BeforeRefused
<1>4. TypeOK'
  BY <1>3 DEF TypeOK, Points
<1>5. ControlInv' /\ NextEntryInv' /\ OrderInv'
  BY <1>1 DEF ControlInv, NoFatal, NextEntryInv, OrderInv, Remaining
<1>6. FlowInv' /\ NeverOversleeps'
  BY <1>1 DEF FlowInv, Released, Interrupted, NeverOversleeps
<1>. QED
  BY <1>4, <1>5, <1>6

\* Nothing is due yet: the runner goes back to sleep, but not for too long.
LEMMA RunEarlyKeepsIInv == ASSUME IInv, RunEarly PROVE IInv'
<1> USE DEF IInv, RunEarly, Move
<1>1. TypeOK'
  BY ConstantsAssumption DEF TypeOK, Points, Earlier
<1>2. ControlInv' /\ NextEntryInv' /\ OrderInv'
  BY DEF ControlInv, NoFatal, NextEntryInv, OrderInv, Remaining
<1>3. FlowInv'
  BY DEF FlowInv, Released, Interrupted, Follows, IsLastFor
<1>4. NeverOversleeps'
  BY ConstantsAssumption
  DEF NeverOversleeps, NextEntryInv, Remaining, Earlier, Hour, TypeOK
<1>. QED
  BY <1>1, <1>2, <1>3, <1>4

\* An idle runner goes to sleep.
LEMMA RunIdleKeepsIInv == ASSUME IInv, RunIdle PROVE IInv'
BY DEF IInv, RunIdle, Move, TypeOK, Points, Hour, ControlInv, NoFatal,
       NextEntryInv, OrderInv, Remaining, FlowInv, Released,
       Interrupted, Follows, IsLastFor, NeverOversleeps

\* A stopping runner switches all pumps off.
LEMMA RunStoppingKeepsIInv == ASSUME IInv, RunStopping PROVE IInv'
<1> USE DEF IInv, RunStopping, Move
<1>1. TypeOK'
  BY ConstantsAssumption DEF TypeOK, Points
<1>2. ControlInv' /\ NextEntryInv' /\ OrderInv' /\ NeverOversleeps'
  BY DEF ControlInv, NoFatal, NextEntryInv, OrderInv, Remaining,
         NeverOversleeps
<1>3. FlowInv'
  BY DEF FlowInv, Released, Interrupted
<1>. QED
  BY <1>1, <1>2, <1>3

\* An accepted program is a time program with nothing executed yet.
LEMMA StartProgramKeepsIInv ==
    ASSUME IInv, NEW tp \in Programs, StartProgram(tp) PROVE IInv'
<1> USE DEF IInv, StartProgram
<1>1. CASE state = "idle"
  <2>1. IsTimeProgram(tp, Keys, Pumps, Flows)
    BY ProgramsAssumption
  <2>2. /\ target' = "active" /\ program' = tp /\ issued' = {} /\ state' = state
        /\ pc' \in {"loop", "wait", "ready", "exit"} /\ (pc' = "exit" => pc = "exit")
    BY <1>1 DEF Notify, MutexFree
  <2>3. TypeOK'
    BY <2>1, <2>2 DEF TypeOK, States, Points
  <2>4. ControlInv' /\ NextEntryInv' /\ OrderInv' /\ NeverOversleeps'
    BY <1>1, <2>2 DEF ControlInv, NoFatal, NextEntryInv,
                      OrderInv, NeverOversleeps
  <2>5. FlowInv'
    BY <1>1, <2>2 DEF FlowInv, Released, Interrupted, Follows
  <2>. QED
    BY <2>3, <2>4, <2>5
<1>2. CASE state # "idle"
  BY <1>2 DEF TypeOK, ControlInv, NoFatal, NextEntryInv,
              OrderInv, Remaining, FlowInv, Released, Interrupted, Follows, IsLastFor,
              NeverOversleeps
<1>. QED
  BY <1>1, <1>2

\* A request to stop changes the commanded state only.
LEMMA RequestsKeepIInv ==
    ASSUME IInv, Shutdown \/ EmergencyStopProgram PROVE IInv'
<1> USE DEF IInv, Shutdown, EmergencyStopProgram
<1>1. /\ UNCHANGED <<state, program, tpTime, now, wakeup, commanded, issued>>
      /\ pc # "crashed"
      /\ \/ UNCHANGED <<target, pc>>
         \/ /\ target' \in {"idle", "stopping"}
            /\ state # "stopping"
            /\ target' = "idle" => state = "active"
            /\ pc' \in {"loop", "wait", "ready", "exit"} /\ (pc' = "exit" => pc = "exit")
  BY DEF Notify, MutexFree
<1>2. TypeOK'
  BY <1>1 DEF TypeOK, States, Points
<1>3. ControlInv' /\ NextEntryInv' /\ OrderInv'
  BY <1>1 DEF ControlInv, NoFatal, NextEntryInv, OrderInv,
              Remaining
<1>4. FlowInv' /\ NeverOversleeps'
  BY <1>1 DEF FlowInv, Released, Interrupted, Follows, IsLastFor, NeverOversleeps,
              Remaining
<1>. QED
  BY <1>2, <1>3, <1>4

\* Every step preserves the inductive invariant.
LEMMA NextIInv == IInv /\ [Next]_vars => IInv'
<1> SUFFICES ASSUME IInv, [Next]_vars PROVE IInv'
  OBVIOUS
<1>1. CASE UNCHANGED vars
  BY <1>1 DEF vars, IInv, TypeOK, ControlInv, NoFatal,
              NextEntryInv, OrderInv, Remaining, FlowInv, Released, Interrupted,
              Follows, IsLastFor, NeverOversleeps
<1>2. CASE Tick
  BY <1>2, TickKeepsIInv
<1>3. CASE RunnerStep
  BY <1>3, MovesKeepIInv, BeginProgramKeepsIInv, ReportKeepsIInv, RunDueKeepsIInv,
     RunThrowsKeepsIInv, RunEarlyKeepsIInv, RunIdleKeepsIInv, RunStoppingKeepsIInv DEF RunnerStep
<1>4. CASE SpuriousWake
  BY <1>4, MovesKeepIInv
<1>5. CASE Operation
  BY <1>5, StartProgramKeepsIInv, RequestsKeepIInv DEF Operation
<1>. QED
  BY <1>1, <1>2, <1>3, <1>4, <1>5 DEF Next, Crashed

-----------------------------------------------------------------------------

\* The inductive invariant always holds.
LEMMA Invariance == Spec => []IInv
BY InitIInv, NextIInv, PTL DEF Spec

\* A completed program that switches its pumps off leaves them off.
LEMMA IInvCompletes == IInv => CompletedProgramIsOff
<1> SUFFICES ASSUME IInv, Settles(program), Remaining = {}, NEW p \in PumpsOf(program)
             PROVE  commanded[p] = Off
  BY DEF CompletedProgramIsOff
<1>1. issued = DOMAIN program
  BY DEF IInv, TypeOK, Remaining
<1>2. p \in Pumps
  BY DEF IInv, TypeOK, IsTimeProgram, PumpsOf
<1>3. PICK t \in DOMAIN program :
         IsLastFor(program, DOMAIN program, p, t) /\ program[t][p] = Off
  BY DEF Settles, SwitchesOff
<1>4. ~ Interrupted
  BY DEF IInv, ControlInv, NextEntryInv, Interrupted
<1>. QED
  BY <1>1, <1>2, <1>3, <1>4 DEF IInv, FlowInv, Released, Follows

\* The inductive invariant implies what the runner does right.
LEMMA IInvIsSafe ==
    IInv => /\ TypeOK /\ NoFatal /\ FollowsProgram
            /\ CompletedProgramIsOff /\ NeverOversleeps /\ StoppedIsOff
<1>1. IInv => /\ TypeOK /\ NoFatal /\ NeverOversleeps
  BY DEF IInv, ControlInv
<1>2. IInv => FollowsProgram
  BY DEF IInv, OrderInv, FlowInv, Released, Interrupted, Follows, FollowsProgram
<1>3. IInv => StoppedIsOff
  BY DEF IInv, ControlInv, FlowInv, Released, StoppedIsOff
<1>. QED
  BY <1>1, <1>2, <1>3, IInvCompletes

\* Type correctness of the runner's state.
THEOREM TypeCorrect == Spec => []TypeOK
BY IInvIsSafe, Invariance, PTL

\* Neither LOG(FATAL) of Run is ever reached.
THEOREM FatalIsUnreachable == Spec => []NoFatal
BY IInvIsSafe, Invariance, PTL

\* Entries are executed in order, completely and not early, and the pumps do what the
\* executed entries say.
THEOREM ProgramIsFollowed == Spec => []FollowsProgram
BY IInvIsSafe, Invariance, PTL

\* A completed program that switches its pumps off leaves them off.
THEOREM CompletionIsOff == Spec => []CompletedProgramIsOff
BY IInvIsSafe, Invariance, PTL

\* The runner wakes up in time for the next entry.
THEOREM WakesInTime == Spec => []NeverOversleeps
BY IInvIsSafe, Invariance, PTL

\* When the runner's thread has ended, all pumps are off.
THEOREM StopIsOff == Spec => []StoppedIsOff
BY IInvIsSafe, Invariance, PTL

-----------------------------------------------------------------------------
(* The refinement of DosingContract.                                       *)

\* The steps that the contract does not see.
LEMMA HiddenSteps ==
    ASSUME IInv,
           \/ Tick \/ Loop \/ DeadlineWake \/ SpuriousWake \/ KeepState \/ BeginProgram
           \/ BeginIdle \/ BeginStopping \/ ProgramEnded \/ RunEarly \/ RunIdle
    PROVE  UNCHANGED Contract!contract
<1>1. UNCHANGED <<state, target, program, issued, commanded>>
  BY DEF Tick, Loop, DeadlineWake, SpuriousWake, KeepState, BeginProgram, BeginIdle,
         BeginStopping, ProgramEnded, RunEarly, RunIdle, Still
<1>2. UNCHANGED <<Remaining, phase>>
  BY <1>1 DEF Remaining, phase, IInv, ControlInv, Move, Tick, Loop, DeadlineWake,
         SpuriousWake, KeepState, BeginProgram, BeginIdle, BeginStopping, ProgramEnded,
         RunEarly, RunIdle
<1>. QED
  BY <1>1, <1>2 DEF Contract!contract

\* The steps of the contract that the runner's thread takes.
LEMMA VisibleSteps ==
    ASSUME IInv, IInv',
           \/ BeginEmptyProgram \/ DivideByZero \/ Report \/ RunDue \/ RunThrows
           \/ RunStopping
    PROVE  [Contract!Next]_(Contract!contract)
<1> USE DEF IInv
<1>1. CASE BeginEmptyProgram \/ DivideByZero
  <2>1. UNCHANGED <<program, commanded, Remaining>> /\ phase' = "crashed"
    BY <1>1 DEF BeginEmptyProgram, DivideByZero, Still, Move, Remaining, phase
  <2>2. phase \in {"accepted", "dosing"} /\ Degenerate(program)
    BY <1>1 DEF BeginEmptyProgram, DivideByZero, Degenerate, phase, ControlInv
  <2>. QED
    BY <2>1, <2>2 DEF Contract!Next, Contract!Crash, Contract!Degenerate, Degenerate
<1>2. CASE Report
  <2>1. UNCHANGED <<program, commanded, Remaining>> /\ pc = "report" /\ pc' = "act"
        /\ state' = target /\ target' = target /\ target # state /\ state # "stopping"
    BY <1>2 DEF Report, Move, Remaining, ControlInv
  <2>2. CASE target = "active"
    <3>1. phase = "accepted" /\ phase' = "dosing" /\ Remaining # {}
      BY <2>1, <2>2 DEF phase, NextEntryInv, ControlInv, NoFatal, Remaining
    <3>. QED
      BY <2>1, <3>1 DEF Contract!Next, Contract!Begin
  <2>3. CASE target # "active" /\ state = "active"
    <3>1. phase = (IF Remaining = {} THEN "dosing" ELSE "halting") /\ phase' = "free"
      BY <2>1, <2>3 DEF phase
    <3>. QED
      BY <2>1, <3>1 DEF Contract!Next, Contract!Finish, Contract!Halted
  <2>4. CASE target # "active" /\ state # "active"
    <3>1. phase = "free" /\ phase' = "free"
      BY <2>1, <2>4 DEF phase
    <3>. QED
      BY <2>1, <3>1 DEF Contract!contract
  <2>. QED
    BY <2>2, <2>3, <2>4
<1>3. CASE RunDue
  <2>1. state = "active" /\ target = "active" /\ pc = "act" /\ state' = state
        /\ pc' = "loop" /\ program' = program
    BY <1>3 DEF RunDue, Move, ControlInv
  <2>2. tpTime \in Remaining /\ (\A u \in Remaining : tpTime <= u)
    BY <2>1 DEF NextEntryInv
  <2>3. Remaining' = Remaining \ {tpTime}
    BY <1>3, <2>1 DEF RunDue, Remaining
  <2>4. target' # "active" => Remaining' = {}
    <3>1. target' # "active" => KeysAfter(program, tpTime) = {}
      BY <1>3, <2>1 DEF RunDue
    <3>2. DOMAIN program \in SUBSET Int
      BY KeysAreInt
    <3>3. \A u \in Remaining \ {tpTime} : u > tpTime
      BY <2>2, <3>2 DEF Remaining
    <3>. QED
      BY <2>3, <3>1, <3>3 DEF KeysAfter, Remaining
  <2>5. phase = "dosing" /\ phase' = "dosing"
    BY <2>1, <2>4 DEF phase
  <2>6. commanded' = Override(commanded, program[tpTime])
    BY <1>3 DEF RunDue
  <2>7. Contract!Execute
    BY <1>3, <2>1, <2>2, <2>3, <2>5, <2>6
    DEF RunDue, Contract!Execute, Contract!Override, Override, Contract!Refused,
        Refused, Contract!Off, Off
  <2>. QED
    BY <2>7 DEF Contract!Next
<1>4. CASE RunThrows
  <2>1. state = "active" /\ target = "active" /\ pc = "act" /\ pc' = "crashed"
        /\ UNCHANGED <<program, Remaining>>
    BY <1>4 DEF RunThrows, Move, ControlInv, Remaining
  <2>2. tpTime \in Remaining /\ (\A u \in Remaining : tpTime <= u)
    BY <2>1 DEF NextEntryInv
  <2>3. phase = "dosing" /\ phase' = "crashed"
    BY <2>1 DEF phase
  <2>4. /\ Refused(program[tpTime]) # {}
        /\ commanded' = Override(commanded, BeforeRefused(program[tpTime]))
    BY <1>4 DEF RunThrows
  <2>5. Contract!Crash
    BY <2>1, <2>2, <2>3, <2>4
    DEF Contract!Crash, Contract!Override, Override, Contract!Refused, Refused,
        Contract!BeforeRefused, BeforeRefused, Contract!Off, Off
  <2>. QED
    BY <2>5 DEF Contract!Next
<1>5. CASE RunStopping
  <2>1. UNCHANGED <<program, Remaining>> /\ phase = "free" /\ phase' = "closed"
    BY <1>5 DEF RunStopping, Move, Remaining, phase
  <2>. QED
    BY <1>5, <2>1 DEF RunStopping, Contract!Next, Contract!Close, Contract!Off, Off
<1>. QED
  BY <1>1, <1>2, <1>3, <1>4, <1>5

\* The operations are steps of the contract.
LEMMA OperationSteps ==
    ASSUME IInv, IInv', Operation
    PROVE  [Contract!Next]_(Contract!contract)
<1> USE DEF IInv
<1>1. CASE \E tp \in Programs : StartProgram(tp)
  <2>1. PICK tp \in Programs : StartProgram(tp)
    BY <1>1
  <2>2. CASE state = "idle"
    <3>1. /\ program' = tp /\ Remaining' = DOMAIN tp /\ commanded' = commanded
          /\ state' = "idle" /\ target' = "active" /\ pc' # "crashed" /\ pc # "crashed"
      BY <2>1, <2>2 DEF StartProgram, Remaining, Notify, MutexFree
    <3>2. phase \in {"free", "accepted"} /\ phase' = "accepted"
      BY <2>2, <3>1 DEF phase
    <3>. QED
      BY <3>1, <3>2 DEF Contract!Next, Contract!Accept
  <2>3. CASE state # "idle"
    BY <2>1, <2>3 DEF StartProgram, phase, Remaining, Contract!contract
  <2>. QED
    BY <2>2, <2>3
<1>2. CASE Shutdown \/ EmergencyStopProgram
  <2>1. UNCHANGED <<state, program, commanded, Remaining>>
    BY <1>2 DEF Shutdown, EmergencyStopProgram, Remaining
  <2>2. CASE UNCHANGED <<target, pc>>
    BY <2>1, <2>2 DEF phase, Contract!contract
  <2>3. CASE ~ UNCHANGED <<target, pc>>
    <3>1. /\ target' # "active" /\ state # "stopping" /\ pc # "crashed" /\ pc' # "crashed"
      BY <1>2, <2>3 DEF Shutdown, EmergencyStopProgram, Notify, MutexFree
    <3>2. CASE state = "active"
      <4>1. phase' = (IF Remaining = {} THEN "dosing" ELSE "halting")
        BY <2>1, <3>1, <3>2 DEF phase
      <4>2. \/ phase = phase'
            \/ phase = "dosing" /\ phase' = "halting" /\ Remaining # {}
        BY <3>1, <3>2, <4>1 DEF phase
      <4>. QED
        BY <2>1, <4>2 DEF Contract!Next, Contract!Halt, Contract!contract
    <3>3. CASE state # "active"
      <4>1. phase' = "free" /\ phase \in {"free", "accepted"}
        BY <2>1, <3>1, <3>3 DEF phase
      <4>. QED
        BY <2>1, <4>1 DEF Contract!Next, Contract!Withdraw, Contract!contract
    <3>. QED
      BY <3>2, <3>3
  <2>. QED
    BY <2>2, <2>3
<1>. QED
  BY <1>1, <1>2 DEF Operation

\* The runner starts as the contract does, and each of its steps is one of the contract
\* or none.
LEMMA InitImplements == Init => Contract!Init
BY DEF Init, Contract!Init, phase, Remaining, Contract!Off, Off

LEMMA NextImplements ==
    IInv /\ IInv' /\ [Next]_vars => [Contract!Next]_(Contract!contract)
<1> SUFFICES ASSUME IInv, IInv', [Next]_vars
             PROVE  [Contract!Next]_(Contract!contract)
  OBVIOUS
<1>1. CASE UNCHANGED vars
  BY <1>1 DEF vars, Contract!contract, phase, Remaining
<1>2. CASE Tick \/ RunnerStep \/ SpuriousWake
  BY <1>2, HiddenSteps, VisibleSteps DEF RunnerStep
<1>3. CASE Operation
  BY <1>3, OperationSteps
<1>. QED
  BY <1>1, <1>2, <1>3 DEF Next, Crashed

\* The runner implements the contract of an executor of time programs.
THEOREM Refinement == Spec => ImplementsContract
BY InitImplements, NextImplements, Invariance, PTL
DEF Spec, ImplementsContract, Contract!Spec
=============================================================================
