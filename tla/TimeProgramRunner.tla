------------------------- MODULE TimeProgramRunner -------------------------
(***************************************************************************)
(* The class TimeProgramRunner (src/src/timeprogramrunner.cpp): a thread   *)
(* that executes one time program at a time against its callback client,   *)
(* and the three operations other threads call on it.                      *)
(*                                                                         *)
(* state_machine_mutex_ is held by the runner from Enter until the end of  *)
(* its iteration, and by each operation for its whole body; the mutex is   *)
(* therefore a function of pc (see MutexFree).  time_lock_mutex_ is used   *)
(* by the runner alone and protects nothing, so that a notify_one that     *)
(* finds the runner outside wait_until (pc # "wait") has no effect.        *)
(***************************************************************************)
EXTENDS TimeProgram

CONSTANTS Pumps,           \* pump numbers
          Flows,           \* flows a pump can be commanded to
          Programs,        \* time programs that callers hand over
          ProgressPeriod,  \* the 1000 ms between two progress updates
          MaxClock         \* bound: the clock stops here

ASSUME ConstantsAssumption ==
    /\ Pumps \in SUBSET Int /\ Flows \in SUBSET Int /\ Off \in Flows
    /\ ProgressPeriod \in Nat \ {0}
    /\ MaxClock \in Nat

\* A key lies before the start of the program if a recipe has negative amounts.
Keys == (-MaxClock) .. MaxClock

ASSUME ProgramsAssumption ==
    \A tp \in Programs : IsTimeProgram(tp, Keys, Pumps, Flows)

VARIABLES
    state,      \* timeprogramrunner_state_
    target,     \* timeprogramrunner_target_state_
    program,    \* timeprogram_
    tpTime,     \* the local timeprogram_time of Run
    now,        \* steady_clock::now() - start_time
    wakeup,     \* wakeup_time_point - start_time, or Hour
    pc,         \* where the runner's thread is
    commanded,  \* what SetFlow and SetAllPumpsOff last told the callback client
    issued      \* history: the entries of program that have been executed

vars == <<state, target, program, tpTime, now, wakeup, pc, commanded, issued>>

States == {"init", "idle", "active", "stopping"}
Points == {"loop", "wait", "ready", "ended", "report", "act", "exit", "crashed"}

\* The wake-up time one hour ahead that an idle runner sets: later than any other.
Hour == MaxClock + ProgressPeriod + 1

TypeOK ==
    /\ state \in States
    /\ target \in States
    /\ IsTimeProgram(program, Keys, Pumps, Flows)
    /\ tpTime \in Int
    /\ now \in 0 .. MaxClock
    /\ wakeup \in Int
    /\ pc \in Points
    /\ commanded \in [Pumps -> Flows]
    /\ issued \in SUBSET DOMAIN program

Init ==
    /\ state = "init"
    /\ target = "idle"
    /\ program = <<>>
    /\ tpTime = 0
    /\ now = 0
    /\ wakeup = 0
    /\ pc = "loop"
    /\ commanded = [p \in Pumps |-> Off]
    /\ issued = {}

-----------------------------------------------------------------------------
(* Time.  Only the time that passes since the start of a program matters.  *)

Tick ==
    /\ state = "active"
    /\ pc # "crashed"
    /\ now < MaxClock
    /\ now' = now + 1
    /\ UNCHANGED <<state, target, program, tpTime, wakeup, pc, commanded, issued>>

-----------------------------------------------------------------------------
(* The runner's thread.                                                    *)

Move(to) == pc' = to
Still == UNCHANGED <<state, target, program, tpTime, now, wakeup, commanded, issued>>

\* The test of the while loop.
Loop ==
    /\ pc = "loop"
    /\ Move(IF state = "stopping" THEN "exit" ELSE "wait")
    /\ Still

\* Fault: an idle runner waits without a time limit.
DeadlineWakeOnlyActive ==
    /\ pc = "wait"
    /\ wakeup <= now
    /\ Move("ready")
    /\ Still

\* wait_until returns because its time has come; it also returns early, now and
\* then, without a reason.
DeadlineWake ==
    /\ pc = "wait"
    /\ wakeup = Hour \/ wakeup <= now
    /\ Move("ready")
    /\ Still

SpuriousWake ==
    /\ pc = "wait"
    /\ Move("ready")
    /\ Still

\* The runner takes the mutex and finds nothing commanded.
KeepState ==
    /\ pc = "ready"
    /\ target = state
    /\ Move("act")
    /\ Still

\* The commanded state differs.  A program is commanded in the idle state only
\* (see NoFatal).  Dereferencing begin() of an empty program is undefined; the
\* thread crashes at rbegin() at the latest.
BeginProgram ==
    /\ pc = "ready"
    /\ target = "active" /\ state = "idle"
    /\ DOMAIN program # {}
    /\ tpTime' = FirstKey(program)
    /\ now' = 0
    /\ Move("report")
    /\ UNCHANGED <<state, target, program, wakeup, commanded, issued>>

BeginEmptyProgram ==
    /\ pc = "ready"
    /\ target = "active" /\ state = "idle"
    /\ DOMAIN program = {}
    /\ Move("crashed")
    /\ Still

BeginIdle ==
    /\ pc = "ready"
    /\ target = "idle" /\ state # "idle"
    /\ Move(IF state = "active" THEN "ended" ELSE "report")
    /\ Still

BeginStopping ==
    /\ pc = "ready"
    /\ target = "stopping" /\ state # "stopping"
    /\ Move("report")
    /\ Still

\* callback_client_->TimeProgramRunnerProgramEnded(programm_id_)
ProgramEnded ==
    /\ pc = "ended"
    /\ Move("report")
    /\ Still

\* The state is assigned and callback_client_->TimeProgramRunnerStateUpdate called.
Report ==
    /\ pc = "report"
    /\ state' = target
    /\ Move("act")
    /\ UNCHANGED <<target, program, tpTime, now, wakeup, commanded, issued>>

\* 100 * current_time / end_time with end_time 0: the build traps or goes on.
DivideByZero ==
    /\ pc = "act"
    /\ state = "active"
    /\ Degenerate(program)
    /\ Move("crashed")
    /\ Still

Earlier(a, b) == IF a <= b THEN a ELSE b

\* Fault: the entry is executed without waiting for its time.
RunDueAtOnce ==
    /\ pc = "act"
    /\ state = "active"
    /\ commanded' = Override(commanded, program[tpTime])
    /\ issued' = issued \cup {tpTime}
    /\ IF KeysAfter(program, tpTime) # {}
         THEN /\ tpTime' = NextKey(program, tpTime)
              /\ wakeup' = Earlier(now + ProgressPeriod, tpTime')
              /\ UNCHANGED target
         ELSE /\ target' = "idle"
              /\ wakeup' = now
              /\ UNCHANGED tpTime
    /\ Move("loop")
    /\ UNCHANGED <<state, program, now>>

\* An entry is due: its SetFlow calls are made and the next entry is selected, or,
\* after the last one, the runner commands itself back to idle.
RunDue ==
    /\ pc = "act"
    /\ state = "active"
    /\ now >= tpTime
    /\ Refused(program[tpTime]) = {}
    /\ commanded' = Override(commanded, program[tpTime])
    /\ issued' = issued \cup {tpTime}
    /\ IF KeysAfter(program, tpTime) # {}
         THEN /\ tpTime' = NextKey(program, tpTime)
              /\ wakeup' = Earlier(now + ProgressPeriod, tpTime')
              /\ UNCHANGED target
         ELSE /\ target' = "idle"
              /\ wakeup' = now
              /\ UNCHANGED tpTime
    /\ Move("loop")
    /\ UNCHANGED <<state, program, now>>

\* One of the SetFlow calls throws.  Nothing catches it on this thread, and the program
\* is terminated with the pumps as they are.
RunThrows ==
    /\ pc = "act"
    /\ state = "active"
    /\ now >= tpTime
    /\ Refused(program[tpTime]) # {}
    /\ commanded' = Override(commanded, BeforeRefused(program[tpTime]))
    /\ Move("crashed")
    /\ UNCHANGED <<state, target, program, tpTime, now, wakeup, issued>>

\* Fault: the runner sleeps for the whole progress period.
RunEarlyWholePeriod ==
    /\ pc = "act"
    /\ state = "active"
    /\ now < tpTime
    /\ wakeup' = now + ProgressPeriod
    /\ Move("loop")
    /\ UNCHANGED <<state, target, program, tpTime, now, commanded, issued>>

\* No entry is due yet: only the progress is reported.
RunEarly ==
    /\ pc = "act"
    /\ state = "active"
    /\ now < tpTime
    /\ wakeup' = Earlier(now + ProgressPeriod, tpTime)
    /\ Move("loop")
    /\ UNCHANGED <<state, target, program, tpTime, now, commanded, issued>>

RunIdle ==
    /\ pc = "act"
    /\ state = "idle"
    /\ wakeup' = Hour
    /\ Move("loop")
    /\ UNCHANGED <<state, target, program, tpTime, now, commanded, issued>>

\* Fault: the thread stops without switching the pumps off.
RunStoppingOnly ==
    /\ pc = "act"
    /\ state = "stopping"
    /\ Move("loop")
    /\ Still

\* callback_client_->SetAllPumpsOff()
RunStopping ==
    /\ pc = "act"
    /\ state = "stopping"
    /\ commanded' = [p \in Pumps |-> Off]
    /\ Move("loop")
    /\ UNCHANGED <<state, target, program, tpTime, now, wakeup, issued>>

RunnerStep ==
    \/ Loop \/ DeadlineWake \/ KeepState \/ BeginProgram \/ BeginEmptyProgram
    \/ BeginIdle \/ BeginStopping \/ ProgramEnded \/ Report \/ DivideByZero
    \/ RunDue \/ RunThrows \/ RunEarly \/ RunIdle \/ RunStopping

-----------------------------------------------------------------------------
(* The operations, called from other threads.                              *)

\* state_machine_mutex_ can be taken.
MutexFree == pc \in {"loop", "wait", "ready", "exit"}

\* notify_one: it wakes the runner up if it waits and is lost otherwise.
Notify == pc' = IF pc = "wait" THEN "ready" ELSE pc

\* Fault: the state is not tested.
StartProgramAnyState(tp) ==
    /\ MutexFree
    /\ target' = "active" /\ program' = tp /\ issued' = {} /\ Notify
    /\ UNCHANGED <<state, tpTime, now, wakeup, commanded>>

\* Fault: a program is accepted while another one is executed.
StartProgramUnlessStopping(tp) ==
    /\ MutexFree
    /\ IF state \in {"idle", "active"}
         THEN target' = "active" /\ program' = tp /\ issued' = {} /\ Notify
         ELSE UNCHANGED <<target, program, issued, pc>>
    /\ UNCHANGED <<state, tpTime, now, wakeup, commanded>>

\* Outside the idle state the program is dropped; the caller is not told.
StartProgram(tp) ==
    /\ MutexFree
    /\ IF state = "idle"
         THEN target' = "active" /\ program' = tp /\ issued' = {} /\ Notify
         ELSE UNCHANGED <<target, program, issued, pc>>
    /\ UNCHANGED <<state, tpTime, now, wakeup, commanded>>

Shutdown ==
    /\ MutexFree
    /\ IF state # "stopping"
         THEN target' = "stopping" /\ Notify
         ELSE UNCHANGED <<target, pc>>
    /\ UNCHANGED <<state, program, tpTime, now, wakeup, commanded, issued>>

EmergencyStopProgram ==
    /\ MutexFree
    /\ IF state = "active"
         THEN target' = "idle" /\ Notify
         ELSE UNCHANGED <<target, pc>>
    /\ UNCHANGED <<state, program, tpTime, now, wakeup, commanded, issued>>

Operation ==
    \/ \E tp \in Programs : StartProgram(tp)
    \/ Shutdown
    \/ EmergencyStopProgram

\* The process is gone.
Crashed == pc = "crashed" /\ UNCHANGED vars

Next == Tick \/ RunnerStep \/ SpuriousWake \/ Operation \/ Crashed

\* The runner's thread is scheduled and time passes; callers owe nothing.
Spec == Init /\ [][Next]_vars /\ WF_vars(RunnerStep) /\ WF_vars(Tick)

-----------------------------------------------------------------------------
(* What the runner does right.                                             *)

\* The entries that are still to be executed.
Remaining == DOMAIN program \ issued

\* The two LOG(FATAL) lines of Run are never reached, whatever operations are
\* called when: "init" is never commanded and never met by the state switch, and a
\* program only ever begins in the idle state.
NoFatal ==
    /\ target # "init"
    /\ pc = "act" => state # "init"
    /\ target = "active" => state \in {"idle", "active"}

\* The thread has crashed in the middle of an entry.
Interrupted == pc = "crashed" /\ state = "active" /\ Refused(program[tpTime]) # {}

\* Entries are executed in ascending order, none is skipped and none is early, and
\* what each pump was last told is what the last executed entry for it says, unless
\* an entry has been interrupted.
FollowsProgram ==
    /\ \A t \in issued, u \in Remaining : t < u
    /\ state = "active" => \A t \in issued : t <= now
    /\ \A p \in Pumps : \A t \in issued :
          IsLastFor(program, issued, p, t) /\ state # "stopping" /\ ~ Interrupted
             => commanded[p] = program[t][p]

\* Once a program that ends with its pumps off has been executed to its end, every
\* pump it used is off: the dispenser does not drip between two orders.
CompletedProgramIsOff ==
    Settles(program) /\ Remaining = {} =>
        \A p \in PumpsOf(program) : commanded[p] = Off

\* A runner that executes a program never sleeps past its next entry, nor longer
\* than the progress period.
NeverOversleeps ==
    state = "active" /\ target = "active" /\ pc \in {"loop", "wait"} =>
        /\ tpTime \in Remaining
        /\ wakeup <= tpTime /\ wakeup <= now + ProgressPeriod

\* Once stopped, the runner's thread never commands a pump again and all are off.
StoppedIsOff == pc = "exit" => \A p \in Pumps : commanded[p] = Off

\* Every accepted program is executed to its end or ended by a request: the wake-up
\* once an hour makes up for a lost notification.
AcceptedProgramEnds ==
    target = "active" ~> (state # "active" /\ target # "active") \/ pc = "crashed"

\* The runner never sleeps for the hour while a command waits for it.  The README
\* says that ingredients start "as fast as possible"; the code breaks this.
NoCommandSleepsAnHour == pc = "wait" /\ wakeup = Hour => target = state
-----------------------------------------------------------------------------
(* The runner implements DosingContract.                                   *)

phase ==
    CASE pc = "crashed" -> "crashed"
      [] pc # "crashed" /\ state = "stopping" /\ pc # "act" -> "closed"
      [] pc # "crashed" /\ state = "active" /\ (target = "active" \/ Remaining = {}) -> "dosing"
      [] pc # "crashed" /\ state = "active" /\ target # "active" /\ Remaining # {} -> "halting"
      [] pc # "crashed" /\ state = "idle" /\ target = "active" -> "accepted"
      [] OTHER -> "free"

Contract == INSTANCE DosingContract
                WITH recipe <- program, todo <- Remaining, flow <- commanded

\* Every step of the runner is a step of the contract or changes nothing in it.  In
\* particular it crashes only where the contract does, with the flows it names.
ImplementsContract == Contract!Spec
=============================================================================
