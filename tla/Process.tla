------------------------------ MODULE Process ------------------------------
(***************************************************************************)
(* The life of the process (src/src/main.cpp): the drivers are             *)
(* initialised, the PumpControl and the WebInterface constructed, main     *)
(* waits for a signal, and all of it is taken down again, from wherever    *)
(* the start has got to.                                                   *)
(*                                                                         *)
(* The io driver is the one of IoDriver, whose steps these are, with what  *)
(* main does around them.  It shares the gpio library with the pump driver *)
(* if that is the shield; wrapGpioInitialise and wrapGpioTerminate of      *)
(* gpioinithelper.cpp count the users.                                     *)
(***************************************************************************)
EXTENDS IoDriver

VARIABLES
    shield,      \* the pump driver is PumpDriverShield
    start,       \* how far the initialisation is: "pumps", "config", "pins", "over"
    pumpDriver,  \* "new", "ready" (pump_driver_initialized), "unusable", "released"
    running,     \* a pump is running
    count,       \* gpio_init_counter
    initOk,      \* gpio_init_rv is not negative
    library,     \* gpioInitialise has succeeded and gpioTerminate not been called
    threads,     \* the runner's and the server's thread: "none", "up", "joined"
    got,         \* sig_term_got
    sleeping     \* main is in sleep(), past its test of sig_term_got

libraryVars == <<count, initOk, library>>
signalVars == <<got, sleeping>>
startVars == <<shield, start, pumpDriver>>
processVars == <<startVars, running, libraryVars, threads, signalVars>>
allVars == <<vars, processVars>>

ProcessInit ==
    /\ Init
    /\ shield \in BOOLEAN
    /\ start = "pumps" /\ pumpDriver = "new"
    /\ running = FALSE
    /\ count = 0 /\ initOk = TRUE /\ library = FALSE
    /\ threads = "none"
    /\ got = FALSE /\ sleeping = FALSE

-----------------------------------------------------------------------------
(* The gpio library and its users.                                         *)

\* What wrapGpioInitialise returns, where gpioInitialise would return result.
Initialised(result) == IF count = 0 THEN result ELSE initOk

WrapGpioInitialise(result) ==
    /\ count' = count + 1
    /\ initOk' = Initialised(result)
    /\ library' = IF count = 0 THEN result ELSE library

\* Fault: whoever comes first terminates the library.
WrapGpioTerminateAlways ==
    /\ count' = count - 1
    /\ library' = FALSE
    /\ initOk' = TRUE

WrapGpioTerminate ==
    /\ count' = count - 1
    /\ library' = (library /\ count # 1)
    /\ initOk' = (initOk \/ count = 1)

\* Init of the pump driver: the shield's throws at a bad configuration; it and the
\* firmata's return false when there is no library or no port.
InitPumps ==
    /\ main = "init" /\ start = "pumps"
    /\ \/ /\ shield /\ InitialiseFails
          /\ start' = "over"
          /\ UNCHANGED <<pumpDriver, libraryVars>>
       \/ /\ shield
          /\ \E result \in BOOLEAN :
                /\ WrapGpioInitialise(result)
                /\ pumpDriver' = IF Initialised(result) THEN "ready" ELSE "unusable"
          /\ start' = "config" /\ UNCHANGED vars
       \/ /\ ~ shield
          /\ pumpDriver' \in {"ready", "unusable"}
          /\ start' = "config" /\ UNCHANGED <<vars, libraryVars>>
    /\ UNCHANGED <<shield, running, threads, signalVars>>

\* Init of the io driver, although the pump driver may be unusable.
ParseConfig ==
    /\ main = "init" /\ start = "config"
    /\ \/ /\ InitialiseFails
          /\ start' = "over"
          /\ UNCHANGED libraryVars
       \/ \E result \in BOOLEAN :
             /\ WrapGpioInitialise(result)
             /\ IF Initialised(result)
                  THEN start' = "pins" /\ UNCHANGED vars
                  ELSE start' = "over" /\ InitialiseFails
    /\ UNCHANGED <<shield, pumpDriver, running, threads, signalVars>>

\* Fault: the library is not given back when a pin refuses its mode.
SetUpPinsKeeping ==
    /\ main = "init" /\ start = "pins"
    /\ start' = "over"
    /\ Initialise \/ InitialiseFails
    /\ UNCHANGED <<shield, pumpDriver, running, libraryVars, threads, signalVars>>

SetUpPins ==
    /\ main = "init" /\ start = "pins"
    /\ start' = "over"
    /\ \/ Initialise /\ UNCHANGED libraryVars
       \/ InitialiseFails /\ WrapGpioTerminate
    /\ UNCHANGED <<shield, pumpDriver, running, threads, signalVars>>

\* Without a pump driver there is nothing to construct; the PumpControl starts the
\* runner's thread, the WebInterface the server's, unless its port is taken.
Build ==
    /\ Construct
    /\ IF pumpDriver = "ready"
         THEN threads' = "up"
         ELSE main' = "failed" /\ UNCHANGED threads
    /\ UNCHANGED <<startVars, running, libraryVars, signalVars>>

-----------------------------------------------------------------------------
(* Serving.                                                                *)

\* SetPumpCurrent, by the runner or a request; gpioPWM of the shield does nothing
\* without the library.
RunPumps ==
    /\ threads = "up" /\ ServerRuns
    /\ shield => library
    /\ running' \in BOOLEAN
    /\ UNCHANGED <<vars, startVars, libraryVars, threads, signalVars>>

\* What the threads do to the pins and to the client, until they have been joined.
ServeOthers ==
    /\ threads = "up"
    /\ \/ \E o \in Outputs, b \in BOOLEAN : SetValue(o, b)
       \/ OtherLocks \/ OtherUnlocks
    /\ UNCHANGED processVars

Around ==
    /\ \/ \E i \in Inputs : Turn(i)
       \/ PollThread \/ SpuriousWake
       \/ Register \/ Registered \/ Unregister \/ Notify \/ Join
    /\ UNCHANGED processVars

\* SIGTERM or SIGINT: any thread may get it; only main's sleep is ended by it.
SigTermHandler ==
    /\ main # "done"
    /\ got' = TRUE
    /\ \/ sleeping' = FALSE
       \/ threads = "up" /\ UNCHANGED sleeping
    /\ UNCHANGED <<vars, startVars, running, libraryVars, threads>>

\* Fault: main clears the flag before it tests it.
TestSignalForgetting ==
    /\ main = "serve" /\ ~ sleeping
    /\ sleeping' = TRUE
    /\ got' = FALSE
    /\ UNCHANGED <<vars, startVars, running, libraryVars, threads>>

\* while(!sig_term_got) sleep(0xffffffff): a signal between the test and the sleep does
\* not keep main from sleeping on.
TestSignal ==
    /\ main = "serve" /\ ~ sleeping
    /\ IF got THEN Signal /\ UNCHANGED sleeping ELSE sleeping' = TRUE /\ UNCHANGED vars
    /\ UNCHANGED <<startVars, running, libraryVars, threads, got>>

-----------------------------------------------------------------------------
(* Down again.                                                             *)

\* The destructors of the WebInterface and of the PumpControl join their threads.
JoinThreads ==
    /\ main \in {"stopped", "failed"}
    /\ threads = "up"
    /\ holder # "other"
    /\ threads' = "joined"
    /\ UNCHANGED <<vars, startVars, running, libraryVars, signalVars>>

\* DeInit of the pump driver, if it has been initialised: the pumps are switched off.
ReleasePumps ==
    /\ main \in {"stopped", "failed"}
    /\ threads # "up"
    /\ pumpDriver = "ready"
    /\ pumpDriver' = "released"
    /\ running' = FALSE
    /\ IF shield THEN WrapGpioTerminate ELSE UNCHANGED libraryVars
    /\ UNCHANGED <<vars, shield, start, threads, signalVars>>

\* Fault: main does not wait for the threads.
ReleasePinsEarly ==
    /\ main \in {"unregister", "stopped", "failed"}
    /\ IF ready THEN WrapGpioTerminate ELSE UNCHANGED libraryVars
    /\ ready' = FALSE
    /\ main' = "done"
    /\ UNCHANGED <<level, value, told, client, holder, poll, todo>>
    /\ UNCHANGED <<startVars, running, threads, signalVars>>

\* DeInit of the io driver, if it has been initialised.
ReleasePins ==
    /\ threads # "up"
    /\ pumpDriver # "ready"
    /\ DeInit
    /\ IF ready THEN WrapGpioTerminate ELSE UNCHANGED libraryVars
    /\ UNCHANGED <<startVars, running, threads, signalVars>>

MainSteps ==
    \/ InitPumps \/ ParseConfig \/ SetUpPins \/ Build
    \/ TestSignal
    \/ JoinThreads \/ ReleasePumps \/ ReleasePins

ProcessNext ==
    \/ MainSteps \/ Around \/ ServeOthers \/ RunPumps \/ SigTermHandler

\* As in IoDriver; nobody has to send a signal.
ProcessFairness ==
    /\ WF_allVars(PollThread /\ UNCHANGED processVars)
    /\ SF_allVars(Tell /\ UNCHANGED processVars)
    /\ WF_allVars(OtherUnlocks /\ threads = "up" /\ UNCHANGED processVars)
    /\ WF_allVars(MainSteps)
    /\ WF_allVars((Registered \/ Notify \/ Join) /\ UNCHANGED processVars)
    /\ SF_allVars(Register /\ UNCHANGED processVars)
    /\ SF_allVars(Unregister /\ UNCHANGED processVars)
    /\ SF_allVars(JoinThreads)

ProcessSpec == ProcessInit /\ [][ProcessNext]_allVars /\ ProcessFairness

-----------------------------------------------------------------------------

\* The process does with the io driver what IoDriver allows: what is shown of IoDriver
\* holds of every start, every failed start and every shutdown.
ImplementsIoDriver == Init /\ [][Next]_vars

\* Whoever comes and goes in which order, and whatever fails, the library is up as long
\* as a driver that uses it is initialised.
LibraryIsUp == ready \/ (shield /\ pumpDriver = "ready") => library

\* Whatever has failed, at the end no pump is running and the library is terminated.
EndsClean == main = "done" => ~ running /\ ~ library

\* A start that has failed, and a shutdown that has got through the unregistration, end
\* the process; and a signal that main notices ends its waiting.
ComesDown ==
    /\ main \in {"failed", "stopped"} ~> main = "done"
    /\ main = "serve" /\ got /\ ~ sleeping ~> main = "unregister"
=============================================================================
