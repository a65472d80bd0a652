---------------------------- MODULE PumpControl ----------------------------
(***************************************************************************)
(* The class PumpControl (src/src/pumpcontrol.cpp) between its three       *)
(* callers: the main thread, which constructs and destroys it, the web     *)
(* server's thread, which calls it for one HTTP request after the other,   *)
(* and the thread of its TimeProgramRunner, which calls it back.           *)
(*                                                                         *)
(* The runner is an instance of TimeProgramRunner: a step of the runner    *)
(* here is a step there together with what the callback does.  The io      *)
(* driver is IoDriverNone, which has no thread; see IoDriver.              *)
(*                                                                         *)
(* state_mutex_ protects pumpcontrol_state_ for the length of one step,    *)
(* except in EnterServiceMode and LeaveServiceMode, which hold it until    *)
(* the new state has been delivered (web.at = "locked").  SetPumpControl-  *)
(* State delivers the new state after it has released the mutex: the       *)
(* delivery is a step of its own, and pending says what it will deliver.   *)
(***************************************************************************)
EXTENDS TimeProgram

CONSTANTS Pumps, Flows, Programs, ProgressPeriod, MaxClock,
          Recipes           \* the bodies of PUT /program requests

VARIABLES
    \* the variables of the runner
    state, target, program, tpTime, now, wakeup, pc, commanded, issued,
    pcState,      \* pumpcontrol_state_
    timeprogram,  \* timeprogram_
    client,       \* callback_client_ is set
    reported,     \* states_["pump_control_state"] of the WebInterface
    pending,      \* the state a thread still has to deliver
    web,          \* the web server's thread: where it is and with which argument
    main,         \* the main thread
    flow          \* the flow each pump of the pump driver runs with

runnerVars == <<state, target, program, tpTime, now, wakeup, pc, commanded, issued>>
vars == <<state, target, program, tpTime, now, wakeup, pc, commanded, issued,
          pcState, timeprogram, client, reported, pending, web, main, flow>>

Runner == INSTANCE TimeProgramRunner

Threads == {"main", "web", "runner"}
PcStates == {"uninitialized", "idle", "active", "service", "error"}
Nothing == "nothing"

(***************************************************************************)
(* A recipe is what StartProgram makes of a request body: "rejected"       *)
(* before CreateTimeProgram is called (decryption, parser, missing         *)
(* ingredient), "broken" when CreateTimeProgram throws on a later line,    *)
(* "short" when the resulting time is not positive, or "good"; and the     *)
(* entries that CreateTimeProgram has written by then.                     *)
(***************************************************************************)
Outcomes == {"rejected", "broken", "short", "good"}

\* What the runner assumes.
ASSUME RunnerAssumption ==
    /\ Pumps \in SUBSET Int /\ Flows \in SUBSET Int /\ Off \in Flows
    /\ ProgressPeriod \in Nat \ {0}
    /\ MaxClock \in Nat

\* Switching a pump on by hand is asking for its largest flow.  No flow is refused by
\* SetFlow: those of recipes are possible ones (see FlowsArePossible of Recipe).
ASSUME FlowsAssumption ==
    /\ \E f \in Flows : \A g \in Flows : g <= f
    /\ \A f \in Flows : Off <= f

ASSUME RecipesAssumption ==
    \A r \in Recipes :
        /\ r.outcome \in Outcomes
        /\ IsTimeProgram(r.written, Runner!Keys, Pumps, Flows)

Resting == [at |-> "rest"]
WebPlaces ==
    {Resting, [at |-> "off"], [at |-> "locked"], [at |-> "fail"], [at |-> "cancel"]}
    \cup [at : {"compile", "handover"}, recipe : Recipes]
    \cup [at : {"switch"}, pump : Pumps, on : BOOLEAN]
    \cup [at : {"timed", "sleep"}, pump : Pumps]

MainPlaces == {"construct", "listen", "register", "serve", "unregister", "stopweb",
               "joinweb", "shutdown", "joinrunner", "done", "crashed"}

TypeOK ==
    /\ Runner!TypeOK
    /\ pcState \in PcStates
    /\ IsTimeProgram(timeprogram, Runner!Keys, Pumps, Flows)
    /\ client \in BOOLEAN
    /\ reported \in PcStates \cup {Nothing}
    /\ pending \in [Threads -> PcStates \cup {Nothing}]
    /\ web \in WebPlaces
    /\ main \in MainPlaces
    /\ flow \in [Pumps -> Flows]

Init ==
    /\ Runner!Init
    /\ pcState = "uninitialized"
    /\ timeprogram = <<>>
    /\ client = FALSE
    /\ reported = Nothing
    /\ pending = [t \in Threads |-> Nothing]
    /\ web = [at |-> "off"]
    /\ main = "construct"
    /\ flow = [p \in Pumps |-> Off]

-----------------------------------------------------------------------------
(* SetPumpControlState.                                                    *)

\* Fault: a start while another program is active does not throw.
AllowedWithRestart ==
    [from \in PcStates |->
        CASE from = "active" -> {"idle", "error", "active"}
          [] from = "service" -> {"idle", "error", "service"}
          [] from \in {"idle", "error"} -> {"active", "idle", "error", "service"}
          [] from = "uninitialized" -> {"idle"}]

\* The state switches that do not throw.
Allowed ==
    [from \in PcStates |->
        CASE from = "active" -> {"idle", "error"}
          [] from = "service" -> {"idle", "error", "service"}
          [] from \in {"idle", "error"} -> {"active", "idle", "error", "service"}
          [] from = "uninitialized" -> {"idle"}]

\* state_mutex_ can be taken.
StateMutexFree == web.at # "locked"

\* Changes the state and leaves its delivery to the thread.
SetState(thread, new) ==
    /\ pcState' = new
    /\ pending' = [pending EXCEPT ![thread] = IF new = pcState THEN Nothing ELSE new]

\* Fault: the service mode is entered and left without releasing state_mutex_.
DeliverKeepingMutex(thread) ==
    /\ pending[thread] # Nothing
    /\ pending' = [pending EXCEPT ![thread] = Nothing]
    /\ reported' = IF client THEN pending[thread] ELSE reported
    /\ UNCHANGED <<runnerVars, pcState, timeprogram, client, web, main, flow>>

\* callback_client_->NewPumpControlState(new_state), under callback_client_mutex_.
Deliver(thread) ==
    /\ pending[thread] # Nothing
    /\ pending' = [pending EXCEPT ![thread] = Nothing]
    /\ reported' = IF client THEN pending[thread] ELSE reported
    /\ web' = IF thread = "web" /\ web.at = "locked" THEN Resting ELSE web
    /\ UNCHANGED <<runnerVars, pcState, timeprogram, client, main, flow>>

-----------------------------------------------------------------------------
(* The runner's thread and its callbacks.                                  *)

RunnerMayRun == pending["runner"] = Nothing

Tick ==
    /\ Runner!Tick
    /\ UNCHANGED <<pcState, timeprogram, client, reported, pending, web, main, flow>>

\* Steps without a callback that concerns the state of PumpControl.
RunnerAlone ==
    /\ RunnerMayRun
    /\ \/ Runner!Loop \/ Runner!DeadlineWake \/ Runner!SpuriousWake \/ Runner!KeepState
       \/ Runner!BeginProgram \/ Runner!BeginIdle \/ Runner!BeginStopping
       \/ Runner!RunEarly \/ Runner!RunIdle
    /\ UNCHANGED <<pcState, timeprogram, client, reported, pending, web, main, flow>>

\* A program without an entry after time 0; the process is gone.
RunnerCrashes ==
    /\ RunnerMayRun
    /\ Runner!BeginEmptyProgram \/ Runner!DivideByZero
    /\ UNCHANGED <<pcState, timeprogram, client, reported, pending, web, main, flow>>

\* Fault: timeprogram_ is not cleared.
ProgramEndedKeepsMap ==
    /\ RunnerMayRun
    /\ Runner!ProgramEnded
    /\ UNCHANGED <<pcState, timeprogram, client, reported, pending, web, main, flow>>

TimeProgramRunnerProgramEnded ==
    /\ RunnerMayRun
    /\ Runner!ProgramEnded
    /\ timeprogram' = <<>>
    /\ UNCHANGED <<pcState, client, reported, pending, web, main, flow>>

\* Fault: the end of a program does not change the state.
StateUpdateIgnored ==
    /\ RunnerMayRun
    /\ Runner!Report
    /\ UNCHANGED <<pcState, timeprogram, client, reported, pending, web, main, flow>>

TimeProgramRunnerStateUpdate ==
    /\ RunnerMayRun
    /\ Runner!Report
    /\ IF target = "idle"
         THEN StateMutexFree /\ SetState("runner", "idle")
         ELSE UNCHANGED <<pcState, pending>>
    /\ UNCHANGED <<timeprogram, client, reported, web, main, flow>>

\* Fault: the state becomes idle with the last entry, before the program has ended.
SetFlowThenIdle ==
    /\ RunnerMayRun
    /\ Runner!RunDue
    /\ flow' = Override(flow, program[tpTime])
    /\ IF target' = "idle" THEN SetState("runner", "idle") ELSE UNCHANGED <<pcState, pending>>
    /\ UNCHANGED <<timeprogram, client, reported, web, main>>

\* SetFlow, called for each pump of the entry: pump and flow are possible ones, so that
\* it neither throws nor corrects the flow, and the pump driver is told it as it is.
SetFlow ==
    /\ RunnerMayRun
    /\ Runner!RunDue
    /\ flow' = Override(flow, program[tpTime])
    /\ UNCHANGED <<pcState, timeprogram, client, reported, pending, web, main>>

\* Fault: the pump driver is not told.
SetNoPumpOff ==
    /\ RunnerMayRun
    /\ Runner!RunStopping
    /\ UNCHANGED <<pcState, timeprogram, client, reported, pending, web, main, flow>>

SetAllPumpsOff ==
    /\ RunnerMayRun
    /\ Runner!RunStopping
    /\ flow' = [p \in Pumps |-> Off]
    /\ UNCHANGED <<pcState, timeprogram, client, reported, pending, web, main>>

-----------------------------------------------------------------------------
(* The web server's thread: HTTP requests.                                 *)

WebStays == UNCHANGED <<timeprogram, client, reported, main, flow>>
\* Fault: the server takes requests although it has been stopped.
WebNeverStops == web = Resting /\ pending["web"] = Nothing

\* The server's thread may take a request.
WebRests == web = Resting /\ pending["web"] = Nothing /\ main # "joinweb"

\* StartProgram; in any other state the switch to active throws and nothing changes.
StartProgram(r) ==
    /\ WebRests
    /\ "active" \in Allowed[pcState]
    /\ SetState("web", "active")
    /\ web' = [at |-> "compile", recipe |-> r]
    /\ WebStays /\ UNCHANGED runnerVars

\* Parsing, CheckIngredients and CreateTimeProgram, which writes into timeprogram_.
CreateTimeProgram ==
    /\ web.at = "compile"
    /\ pending["web"] = Nothing
    /\ timeprogram' = IF web.recipe.outcome = "rejected" THEN timeprogram
                      ELSE Merge(timeprogram, web.recipe.written)
    /\ web' = CASE web.recipe.outcome \in {"rejected", "broken"} -> [at |-> "fail"]
                [] web.recipe.outcome = "short" -> [at |-> "cancel"]
                [] web.recipe.outcome = "good" -> [web EXCEPT !.at = "handover"]
    /\ UNCHANGED <<runnerVars, pcState, client, reported, pending, main, flow>>

\* Fault: the runner is commanded without its mutex.
HandOverUnlocked ==
    /\ web.at = "handover"
    /\ state = "idle"
    /\ target' = "active" /\ program' = timeprogram /\ issued' = {}
    /\ web' = Resting
    /\ WebStays
    /\ UNCHANGED <<state, tpTime, now, wakeup, pc, commanded, pcState, pending>>

\* timeprogramrunner_->StartProgram("no order name", timeprogram_)
HandOver ==
    /\ web.at = "handover"
    /\ Runner!StartProgram(timeprogram)
    /\ web' = Resting
    /\ WebStays /\ UNCHANGED <<pcState, pending>>

\* catch(...) and the branch for max_time <= 0.
GiveUp ==
    /\ web.at \in {"fail", "cancel"}
    /\ LET new == IF web.at = "fail" THEN "error" ELSE "idle"
       IN  new \in Allowed[pcState] /\ SetState("web", new)
    /\ web' = Resting
    /\ WebStays /\ UNCHANGED runnerVars

EnterServiceMode ==
    /\ WebRests
    /\ pcState \in {"idle", "service"}
    /\ SetState("web", "service")
    /\ web' = IF pcState = "service" THEN web ELSE [at |-> "locked"]
    /\ WebStays /\ UNCHANGED runnerVars

\* Fault: the state is not tested.
LeaveAnyMode ==
    /\ WebRests
    /\ SetState("web", "idle")
    /\ web' = IF pcState = "idle" THEN web ELSE [at |-> "locked"]
    /\ WebStays /\ UNCHANGED runnerVars

LeaveServiceMode ==
    /\ WebRests
    /\ pcState \in {"idle", "service"}
    /\ SetState("web", "idle")
    /\ web' = IF pcState = "idle" THEN web ELSE [at |-> "locked"]
    /\ WebStays /\ UNCHANGED runnerVars

\* Fault: the state is not tested.
SwitchInAnyState ==
    /\ WebRests
    /\ \E p \in Pumps : web' = [at |-> "switch", pump |-> p, on |-> FALSE]
    /\ WebStays /\ UNCHANGED <<runnerVars, pcState, pending>>

\* SwitchPump and StartPumpTimed test the state without the mutex and act later.
Switch ==
    /\ WebRests
    /\ pcState = "service"
    /\ \E p \in Pumps :
          web' \in {[at |-> "switch", pump |-> p, on |-> TRUE],
                    [at |-> "switch", pump |-> p, on |-> FALSE],
                    [at |-> "timed", pump |-> p]}
    /\ WebStays /\ UNCHANGED <<runnerVars, pcState, pending>>

\* SetFlow with the pump's max_flow or 0.
MaxFlow == Max(Flows)
SwitchPump ==
    /\ web.at = "switch"
    /\ flow' = [flow EXCEPT ![web.pump] = IF web.on THEN MaxFlow ELSE Off]
    /\ web' = Resting
    /\ UNCHANGED <<runnerVars, pcState, timeprogram, client, reported, pending, main>>

\* The pump runs while the web server's thread sleeps.
StartPumpTimed ==
    /\ web.at \in {"timed", "sleep"}
    /\ flow' = [flow EXCEPT ![web.pump] = IF web.at = "timed" THEN MaxFlow ELSE Off]
    /\ web' = IF web.at = "timed" THEN [web EXCEPT !.at = "sleep"] ELSE Resting
    /\ UNCHANGED <<runnerVars, pcState, timeprogram, client, reported, pending, main>>

Request ==
    \/ \E r \in Recipes : StartProgram(r)
    \/ EnterServiceMode \/ LeaveServiceMode \/ Switch

-----------------------------------------------------------------------------
(* The main thread.                                                        *)

MainStays == UNCHANGED <<timeprogram, flow>>

\* The end of the constructor; the runner's thread already runs.
Construct ==
    /\ main = "construct"
    /\ "idle" \in Allowed[pcState]
    /\ SetState("main", "idle")
    /\ main' = "listen"
    /\ MainStays /\ UNCHANGED <<runnerVars, client, reported, web>>

\* The constructor of WebInterface starts the server's thread before it registers.
Listen ==
    /\ main = "listen"
    /\ pending["main"] = Nothing
    /\ web' = Resting
    /\ main' = "register"
    /\ MainStays /\ UNCHANGED <<runnerVars, pcState, client, reported, pending>>

RegisterCallbackClient ==
    /\ main = "register"
    /\ client' = TRUE
    /\ reported' = pcState
    /\ main' = "serve"
    /\ MainStays /\ UNCHANGED <<runnerVars, pcState, pending, web>>

\* SIGTERM or SIGINT: the WebInterface is destroyed, then the PumpControl.
Signal ==
    /\ main = "serve"
    /\ main' = "unregister"
    /\ MainStays /\ UNCHANGED <<runnerVars, pcState, client, reported, pending, web>>

UnregisterCallbackClient ==
    /\ main = "unregister"
    /\ client' = FALSE
    /\ main' = "stopweb"
    /\ MainStays /\ UNCHANGED <<runnerVars, pcState, reported, pending, web>>

\* server_.stop(): the server's thread finishes its request and takes no other.
StopServer ==
    /\ main = "stopweb"
    /\ main' = "joinweb"
    /\ MainStays /\ UNCHANGED <<runnerVars, pcState, client, reported, pending, web>>

JoinServer ==
    /\ main = "joinweb"
    /\ web = Resting /\ pending["web"] = Nothing
    /\ web' = [at |-> "off"]
    /\ main' = "shutdown"
    /\ MainStays /\ UNCHANGED <<runnerVars, pcState, client, reported, pending>>

ShutdownRunner ==
    /\ main = "shutdown"
    /\ Runner!Shutdown
    /\ main' = "joinrunner"
    /\ MainStays /\ UNCHANGED <<pcState, client, reported, pending, web>>

JoinRunner ==
    /\ main = "joinrunner"
    /\ pc = "exit"
    /\ main' = "done"
    /\ MainStays /\ UNCHANGED <<runnerVars, pcState, client, reported, pending, web>>

-----------------------------------------------------------------------------

RunnerThread ==
    \/ RunnerAlone \/ RunnerCrashes \/ TimeProgramRunnerProgramEnded
    \/ TimeProgramRunnerStateUpdate \/ SetFlow \/ SetAllPumpsOff \/ Deliver("runner")

WebThread ==
    \/ CreateTimeProgram \/ HandOver \/ GiveUp \/ SwitchPump \/ StartPumpTimed
    \/ Deliver("web")

MainThread ==
    \/ Construct \/ Listen \/ RegisterCallbackClient \/ UnregisterCallbackClient
    \/ StopServer \/ JoinServer \/ ShutdownRunner \/ JoinRunner \/ Deliver("main")

\* timeprogram_ is written or copied by the web server's thread while the runner's
\* thread clears it.  The data race is undefined; here it ends the process.
MapIsShared == web.at \in {"compile", "handover"} /\ pc = "ended"
MapRace ==
    /\ MapIsShared
    /\ main' = "crashed"
    /\ UNCHANGED <<runnerVars, pcState, timeprogram, client, reported, pending, web, flow>>

Alive == pc # "crashed" /\ main # "crashed"
Ended == (main = "done" \/ ~ Alive) /\ UNCHANGED vars

Progress == Tick \/ RunnerThread \/ WebThread \/ Signal \/ MainThread \/ MapRace

Next == (Alive /\ (Progress \/ Request)) \/ Ended

\* The threads are scheduled and time passes.  A thread that finds a mutex free again
\* and again gets it: the runner releases state_machine_mutex_ for the length of its
\* sleep, the web server's thread state_mutex_ between two requests.  Clients and
\* signals owe nothing.
Fairness ==
    /\ WF_vars(Alive /\ RunnerThread)
    /\ SF_vars(Alive /\ TimeProgramRunnerStateUpdate)
    /\ WF_vars(Alive /\ WebThread) /\ SF_vars(Alive /\ HandOver)
    /\ WF_vars(Alive /\ MainThread) /\ SF_vars(Alive /\ ShutdownRunner)
    /\ WF_vars(Alive /\ Tick)

Spec == Init /\ [][Next]_vars /\ Fairness

(***************************************************************************)
(* The settled system: no request arrives before the runner's thread has   *)
(* left the state INIT and delivered that, a matter of microseconds after  *)
(* the start of the process.                                               *)
(***************************************************************************)
Settled == state # "init" /\ (program = <<>> => pending["runner"] = Nothing)

SettledNext == (Alive /\ (Progress \/ (Settled /\ Request))) \/ Ended

SettledSpec == Init /\ [][SettledNext]_vars /\ Fairness

-----------------------------------------------------------------------------
(* What holds from the first moment on.                                    *)

\* When the process has ended normally, every pump is off: those of a program that was
\* cut by the shutdown, and those that a client had switched on in service mode.
DoneIsOff == main = "done" => \A p \in Pumps : flow[p] = Off

\* The destructors come to an end, whatever the server's and the runner's thread are
\* doing: nobody waits for a mutex or a join for ever.  The io driver is the one without
\* a thread; what a poll thread changes is in IoDriver.
ShutdownCompletes == main = "unregister" ~> main = "done" \/ ~ Alive

\* The web server's thread gets through with every request.
RequestsAreAnswered == web.at # "rest" ~> web.at \in {"rest", "off"} \/ ~ Alive

-----------------------------------------------------------------------------
(* What holds in the settled system.                                       *)

\* While the runner has a program, accepted or begun, the state is "active"; so no
\* second program, no service mode and no manual switching can get in its way.
BusyIsActive == target = "active" \/ state = "active" => pcState = "active"

\* SwitchPump and StartPumpTimed test the state without the mutex: it still is
\* "service" when they act on it, and no program runs.
SwitchIsInService ==
    web.at \in {"switch", "timed", "sleep"} => pcState = "service" /\ state # "active"

\* While a program is executed, each pump runs with the flow that the last executed
\* entry for it asks for: nobody else has reached the pump driver since.
DriverFollows ==
    state = "active" =>
        \A p \in Pumps : \A t \in issued :
            IsLastFor(program, issued, p, t) => flow[p] = program[t][p]

\* The web server's thread and the runner's never use timeprogram_ at the same time,
\* although no mutex protects it.
MapIsNotShared == ~ MapIsShared

\* A program that is handed over is taken by the runner, which drops it silently
\* unless it is idle; HandleStartProgram answers 200 in any case.  It holds in the
\* settled system; the code breaks it before.
StartIsTaken == [][HandOver => target' = "active" /\ program' = timeprogram]_vars

\* The program that the runner has is not exchanged before it has ended.
NoReplacement == [][target = "active" \/ state = "active" => UNCHANGED program]_vars

\* What is handed over is the program of this request and nothing else, provided that
\* requests that fail have written nothing.  The code breaks this when an earlier
\* request failed after it had written some entries.
OwnRecipe == [][HandOver => timeprogram = web.recipe.written]_vars

\* Seen from its runner, PumpControl is one of the callers that the module
\* TimeProgramRunner allows, with the fairness it asks for: what is proved there of
\* every caller holds here.
UsesRunner == Runner!Spec

\* An active system becomes idle or failed in the end, or it is shut down: no order
\* blocks the dispenser for ever.
ActiveEnds == pcState = "active" ~> pcState # "active" \/ pc = "exit" \/ ~ Alive

\* When no state is on its way, the clients have been told the current one.  The code
\* breaks this: two threads deliver their states in another order than they set them.
ReportedIsCurrent ==
    client /\ (\A t \in Threads : pending[t] = Nothing)
        => reported = pcState
=============================================================================
