# PumpControl in TLA+

Specifications of the program in `../src`: a controller for the pumps of a
cocktail mixer. It takes recipes over HTTP, compiles a recipe to a *time
program* (which pump runs with which flow from which millisecond on), executes
it, and tells its websocket clients what is going on. It talks to them through
the websocketpp in `../src/lib`, which is built into the program and modelled as
far as the program uses it. Line numbers below are of files in `src/src` unless
they name another directory.

## 1. The system

Four threads share the program's objects:

| thread | runs | started / joined |
|---|---|---|
| main | `main`: constructs driver objects, `PumpControl`, `WebInterface`; sleeps; destroys them after SIGTERM or SIGINT | the process |
| web | `server_.run()`: HTTP requests, opened and closed websockets, one event at a time | constructor / destructor of `WebInterface` |
| runner | `TimeProgramRunner::Run` | constructor / destructor of `TimeProgramRunner`, inside those of `PumpControl` |
| poll | `IoDriverGpio::PollLoop` or `IoDriverSimulation::Simulate` | `RegisterCallbackClient` / `UnregisterCallbackClient` of the driver, inside those of `PumpControl` |

and five mutexes: `state_machine_mutex_` (runner), `state_mutex_` and
`callback_client_mutex_` (`PumpControl`), `states_mutex_` and
`connection_mutex_` (`WebInterface`). `time_lock_mutex_` and `exit_mutex_` only
accompany condition variables.

| component | state | operations | makes it correct |
|---|---|---|---|
| `TimeProgramRunner` (timeprogramrunner.cpp) | state, commanded state, time program, wake-up time | `StartProgram`, `EmergencyStopProgram`, `Shutdown`, the loop | a program is executed in order, in time, to its end; the pumps are off afterwards; no command is forgotten |
| `PumpControl`, state machine (pumpcontrol.cpp) | `pumpcontrol_state_`, `timeprogram_`, the client | start of an order, service mode, manual switching, callbacks of the runner | one program at a time and nothing else while it runs; clients know the state |
| `PumpControl`, recipe compiler (162-318) | the time program being written | `CreateTimeProgram` | amounts, order, flows within the pumps' ranges, pumps off at the end |
| `PumpControl`, ingredients and amounts (427-472, 518-540) | which pump has which ingredient, how much is left | set, delete, track | an ingredient belongs to one pump, amounts decrease by what is dispensed |
| `WebInterface` (webinterface.cpp) | connections, last message per key | request handlers, `OnOpen`, `OnClose`, callbacks | every client ends up with the current states; no thread is stopped by a client |
| io drivers (iodriver*.cpp) | pins and their last values | poll thread, `SetValue`, register, unregister, `DeInit` | every change is told, none after unregistering, the thread can be stopped |
| `gpioinithelper` | how many users the gpio library has, whether its start succeeded | two wrappers | the library is up while it is used and terminated at the end |
| `main` | which drivers are initialised, `sig_term_got` | start, wait, end | whatever fails, what has been initialised is released, and the process ends |
| pump drivers | pins, a serial port | `Init`, `SetPumpCurrent`, `DeInit` | pumps off after `DeInit` |
| websocketpp, connection (`lib/websocketpp/impl/connection_impl.hpp`, `transport/asio/connection.hpp`) | `m_state`, timers, send queue, write flag | handlers of asio; `send`, from any thread | one write at a time, in order; handlers called in order; no connection is left open for ever |
| websocketpp, parsers (`http/impl/request.hpp`, `processors/hybi13.hpp`) | the bytes of an unfinished line, frame or message | `consume` | the same result however the bytes arrive |
| decryption, options | bytes, options | | pure functions, parsing |

How they call each other: web -> `PumpControl` -> runner (`StartProgram`, under
the runner's mutex); runner -> `PumpControl` (`TimeProgramRunnerStateUpdate`,
`...ProgramEnded`, `SetFlow`, `SetAllPumpsOff`, all while the runner holds its
own mutex) -> pump driver, and -> client; poll -> `PumpControl::NewInputState`
-> client; client calls go through `callback_client_mutex_` into `WebInterface`.

What is hard: notifications of a condition variable without a predicate and
without its mutex; states set under a mutex and delivered after it; an
unprotected time program shared by two threads; exceptions in the middle of
writing into it; joins while a mutex is held; starts that fail halfway, and the
order in which everything is torn down; messages of several threads on one
socket that is being closed, with timers that expire while something else ends
the connection; reads that cut the input at any byte. `PROJECT.json` lists the
hazards line by line.

## 2. Modules

| module | models |
|---|---|
| `TimeProgram` | the data type: a function from times to partial functions from pumps to flows, its iteration and merging |
| `TimeProgramRunner` | the runner's thread and operations, with time |
| `DosingContract` | the abstract specification of the runner: accept, execute entry by entry, finish or halt, close |
| `PumpControl` | `PumpControl` between the main, the web and the runner's thread; uses `TimeProgramRunner` by `INSTANCE` |
| `Recipe` | `CreateTimeProgram`, component by component |
| `IoDriver` | the poll thread, and registration, unregistration and release around it |
| `WebInterface` | messages to websocket clients that come and go |
| `Process` | `main` from the first driver's `Init` to the last `DeInit`, around `IoDriver`, which it EXTENDS; `gpioinithelper` |
| `WsConnection` | a connection of the server: handshake, frames, sending, closing, timers |
| `WsSession` | the abstract specification of a connection that `WebInterface` relies on |
| `HttpRequest`, `Hybi13` | the two parsers, as steps over bytes |
| `WsInput` | what a client sends, cut into reads; composes the parsers, and says what the bytes mean |
| `MC...` | instances for TLC |
| `TimeProgramProofs`, `TimeProgramRunnerProofs`, `PumpControlProofs`, `RecipeProofs`, `ProcessProofs`, `WebInterfaceProofs`, `WsConnectionProofs`, `WsInputProofs` | theorems |

An operator whose comment begins with "Fault:" is not part of a specification.
It is a variant of the definition below it with a plausible mistake, and shows
that a property can notice this mistake (section 6).

### TimeProgramRunner

`state`, `target`, `program`, `wakeup` are members of the class or locals of
`Run`; `pc` says where the thread is: at the loop test (21), in `wait_until`
(22), before the mutex (23, `ready`), in the callbacks (`ended`, `report`), in
the second switch (`act`). One iteration of `Run` holds the mutex from line 23
to its end, which is `pc` in `ended`, `report`, `act`; the operations are
therefore enabled at all other points, and `Notify` has an effect only in
`wait`. The clock `now` counts milliseconds since the start of the program in
progress, up to `MaxClock`; `tpTime` is `timeprogram_time`. `commanded` is what
the client was last told for each pump, `issued` a history of executed entries.
`Hour` is the wake-up time of an idle runner: it can come at any moment.
Computing a percentage of a program that ends at 0, and beginning an empty one,
are undefined in C++; they are allowed to crash the thread or not. A `SetFlow`
call that throws (`RunThrows`) leaves the calls before it made and ends the
process, since nothing on this thread catches. Keys may be negative: a recipe with a negative amount
has entries before its start.

### PumpControl

Every action of the runner appears together with what its callback does in
`PumpControl`. The web thread's place `web` is `rest` between two requests,
`compile` and `handover` inside `StartProgram`, `locked` inside `Enter-` and
`LeaveServiceMode` (which hold `state_mutex_` until the delivery is made),
`switch`, `timed`, `sleep` in manual switching; `main` walks through
construction and destruction. `SetState` changes `pcState` and leaves in
`pending` what the thread still has to deliver (386-391 run after the mutex is
released). A request body is a *recipe*: what `StartProgram` makes of it and
what it has written into `timeprogram_` by then. Requests that throw because of
the state change nothing and are not actions. `SetFlow` neither throws (543-552)
nor corrects a flow (554-558) here: the flows of recipes are within the ranges
of their pumps (`FlowsArePossible` of `Recipe`, proved for all recipes), those
of manual switching are 0 and `max_flow`, and no flow of the module is negative
(`FlowsAssumption`). The numbers of the pumps are those of the configuration,
1 to 8.

### Recipe

`phase` is the loop that is being executed: over the lines, over the calls of
`SeparateTooFastIngredients`, over the components of a line. Each turn of a loop
is a step, and `Component` is one of three, by timing. `Fail` is an exception;
it may come before any component that is still to be read, and leaves what has
been written. `start` and `compiled` are histories. Flows are whole numbers of
parts of 1 ml/ms (`Unit`), amounts are ml. Amounts and sleeps are any integers,
since nothing checks what `get<int>()` returns (169, 177, 196, 225, 246). With a
negative amount a pump is switched off before it is switched on, and stays on;
with a negative sleep the next line may start before the end of this one (264).
The properties of what is poured and of the distance of lines are therefore
about recipes in which nothing is negative (`NothingNegative`); `EndsOff` is about every
pump without a negative amount, and `FlowsArePossible` about every recipe.
Floating-point rounding and the overflow of `int` are abstracted; truncation to
milliseconds, which is towards 0, is not. Quotients are compared crosswise.
The maps of an interpolated line are keyed by pump, so that `LastAmount` is the
last amount given for it.

### IoDriver

`holder` is the owner of `callback_client_mutex_`; the poll thread's round is
`scan`/`tell` over `todo`. `IoDriverSimulation` has the same thread with levels
of its own, so that `Turn` (anything may happen at an input) covers it.
`ready` stands for `gpio_initialized_`; reading after `DeInit` throws.

### WebInterface

Messages of a key are numbered. `caller` is the thread in a callback (one, by
`callback_client_mutex_`). The websocket library is external and modelled by
what `SendMessage` and the handlers see of it: a session leaves `open` with one
event of the server's thread, its close handler is called by a later one, and
`send` throws in between (`websocketpp/impl/connection_impl.hpp`, `send`).

`Disconnect` is such an event; `WsConnection` shows where it comes from.

### Process

Every step is a step of `IoDriver` with what `main` does at that moment, or
leaves the variables of `IoDriver` alone; `ImplementsIoDriver` says so, and the
properties of `IoDriver` are checked here, where its `Init` may fail and where
the pump driver may hold the same library. `start` splits `main`'s place `init`:
the pump driver's `Init`, the configuration and library of the io driver, its
pins. `shield` is chosen at the start: the other pump drivers do not use the
library. The wrappers take what `gpioInitialise` would answer as a parameter.
`TestSignal` and `sleeping` keep the test of `sig_term_got` and `sleep` apart.

### WsConnection

All handlers run on the server's thread; `io` is the handler that has been
entered and not left, where its parts must be told apart, and `rest` otherwise.
`reading` and `writing` are the outstanding operations of asio, `posted` the
calls of `write_frame` in its queue. `send` is two steps: the test of `m_state`
(`Send`) and the push (`SendPushes`), for any of `Senders`. `timers` has one
timer for the handshake and one for each close frame, since `m_handshake_timer`
is overwritten without cancelling what it held; an `expired` timer has its
handler queued, which a cancel does not take back. `session` maps this to the
states of `WsSession`.

### HttpRequest, Hybi13, WsInput

A byte knows what it is part of (a place in a line, a frame's head, its key's
position in a payload), so that a parser that loses, repeats or misplaces one
fails its validation or delivers something else. `consume` is one action per
branch of its loop. Text is made of plain characters and of characters of two
bytes (`lead`, `tail`). `Meaning` and `IsGoodRequest` in `WsInput` are the
reference: they look at whole frames and lines and know nothing of reads. They
follow the protocol, also where the code does not (`FragmentedTextsEnd`).

## 3. What the runs check

| run | bounds | shows |
|---|---|---|
| `runner` | 2 pumps, flows -1 to 2, six programs (parallel, sequential with a gap longer than the progress period and a late first key, only key 0, empty, with keys before the start and the last one 0, with a negative flow in the middle), clock 0-7, period 2 | neither `LOG(FATAL)` is reached; order, no entry early or skipped; pumps off after completion and after stopping; never sleeps past an entry; every accepted program ends, unless the thread crashes; implements `DosingContract`, which says on which programs it may crash, and what has been executed then |
| `settled` | 2 pumps, three programs, five recipes (good, zero, rejected, without lines), clock 0-2; requests once the runner has started | a busy runner means `active`; the pump driver follows the program; `timeprogram_` is never shared; a handed-over program is taken; an order executes the entries of its own recipe only, if rejected ones write nothing; every active phase ends; the composition is a behaviour of `TimeProgramRunner` |
| `startup` | one program, good and rejected recipes, clock 0-1; requests from the first moment | the pumps are off when the process has ended; shutdown completes; every request is answered |
| `recipe` | 3 pumps (a narrow range, a single flow, a wide range), 75 lines (9 mixtures with all timings and 2 sleeps, 5 mixtures with negative amounts, 4 lines with a negative sleep, one invalid), recipes of 2 lines, failure after any component | flows in range for all of them; each pump without a negative amount off at the end; if nothing is negative: volumes, distance of lines, interpolated pumps end together |
| `web_clients` | 2 threads, 2 clients, 2 keys, 2 messages per key | clients are current; nothing stale; no callback blocks |
| `process` | 2 inputs, 1 output, shield or not, every failure of the start | a resting poll thread has told everything; every change is told; nothing after unregistering; no released pin is read; the library is up while used; no pump runs and the library is terminated at the end; failed starts and shutdowns end; a behaviour of `IoDriver` |
| `ws_connection` | 2 sending threads, 2 messages, 2 frames of 5 kinds | one write at a time; nothing after the close frame, data in order; accepted messages are written; a behaviour of `WsSession`, with its fairness |
| `ws_input` | 9 requests (in and out of order, with bodies), 289 sequences of two or three frames (11 good, 8 bad kinds), 4 requests followed by more bytes (one to upgrade, with a body; three that are not, with a body, an empty one and none); all cuts | the request that is taken is the one sent, without a byte of what follows; the messages delivered are those sent, up to the first refused frame |

The bounds are the smallest in which the interesting cases meet: two pumps with
different ends in one program, a gap above the progress period (so that a
progress wake-up and an entry's wake-up both occur), a second order after a
first, three kinds of pumps in one interpolated line and two of them too fast
for the third, two inputs of which one waits while the other turns, a client
that connects while a message is between `states_` and its sending, a message
pushed behind a close frame while another is being written, an invalid close
frame behind a valid one, a character and a masking key cut by two frames and by
reads. Payload sizes are scaled (2 units are small, 4 extended, 6 the largest
message) so that every size boundary is crossed. `ws_connection` and `ws_input`
end: a connection is over, or a client has nothing more to say; they are checked
without deadlocks.

**Violations.** These runs state what the code, a comment or a message says and
show that the program does otherwise:

| run | what happens |
|---|---|
| `lost_wakeup` | `StartProgram` notifies while the runner is between the end of its iteration and `wait_until`: the program starts up to an hour later. `AcceptedProgramEnds` shows that it does start |
| `leftover` | an order fails in a later line after `CreateTimeProgram` has written entries of the first one into `timeprogram_`; they are dispensed with the next order |
| `io_hang` | shutdown with an io driver that has a thread: the notification is lost, or the thread waits for the mutex that main holds while joining |
| `web_disconnect` | a message to a websocket that is closing throws; on the runner's, the poll or the server's thread this terminates the process |

Divergences met while modelling that no run shows. A start request that arrives
before the runner has left its initial state is answered with 200 and dropped
(`StartIsTaken` fails under `Spec`), which is why everything in `settled` is
about the system after that moment, microseconds after the start, and has its
own `SettledSpec`. Two threads may set the state one after the other and deliver
it in the opposite order, so that the clients keep the older one
(`ReportedIsCurrent` fails). A signal that arrives between the test of
`sig_term_got` and `sleep` is noticed with the next one. `TrackAmounts` works on
a copy of the flow log, so that nothing is ever subtracted. websocketpp counts
the three bytes of its delimiter array, and not two, towards the size of a
header, once more for each read. What is to "ensure that text messages end on a
valid UTF8 code point" (hybi13.hpp:514) looks at the opcode of the last frame and not of
the message, so that a text of several frames may end inside a character and is
delivered; `FramesAreRead` fails for it, and `FragmentedTextsEnd` excludes just
this. The comment at http/impl/request.hpp:103-105 says that a body is captured
"if this was not an upgrade request and has a content length"; the code tests the
length only, and captures the body of an upgrade request as well. That is what
HTTP says, and what `RequestIsRead` demands of all requests alike; by the
comment the body would be read as frames. Its open-handshake timer, if it expires while the response
is being written, ends a connection that the client believes open. Further:
pumpcontrolinterface.h:30 gives flows in ml/s and main.cpp:148 in l/s while
pumpcontrol.cpp:181 uses them as ml/ms; README.md:30 lets all pumps of timing 2
"end with the slowest together", but pumps that are too fast even at their
smallest flow end earlier; `IoDriverGpio::GetDesc` describes inputs as outputs
(216); the same ingredient twice in a parallel line is dispensed once and not
for the sum of its amounts, and if it is an interpolated line and the pump has a
single flow or is separated, the line's end (222) follows the last amount while
each switching off (233) follows its own: after 4 ml and then 1 ml a pump is
switched off three durations behind the end of its line, in the middle of the
next one, and cuts its dose short (`DosesAreRight`, `LinesAreApart` and
`InterpolatedEndTogether` fail with `Lines <- TwiceLines`, which breaks
`FixedPumpsOnce`); an order of zero amounts is accepted and makes the runner
divide by zero; one with a negative amount is accepted as well and leaves the
pump running after its end.

## 4. Fairness

Threads are scheduled: weak fairness of the steps of each thread, and of `Tick`,
the passing of time up to its bound. A thread that waits for a mutex which is
free again and again gets it: strong fairness of the steps that take a mutex.
This is an assumption about the scheduler, since POSIX promises no order among
those who wait for a mutex; the code makes it a mild one, because the runner
releases its mutex for the length of its sleep, and web its own between two
requests. Clients, signals, inputs, spurious wake-ups and the operations of the
runner are under no fairness: they may never happen. In `Process` the steps of
main are fair, but no signal has to come. In `WsConnection` the server's thread,
the sending threads and the clock are fair and the peer owes nothing:
`ImplementsSession` needs the timers. `MessagesAreWritten` is conditional on a
peer that reads. `AcceptedProgramEnds` needs the wake-up after an hour because
of the lost notification, and the fairness of `DeadlineWake` provides it.

## 5. Proofs

`TimeProgramRunnerProofs` proves, for all sets of pumps, flows and programs and
every period and clock bound that satisfy the two assumptions of
`TimeProgramRunner` (0 is a flow, the period is positive, programs are
functions of the right type; a flow may be negative, and is then refused), that
`Spec` implies each safety property that the run `runner` checks, and
`ImplementsContract`.

None of the properties is inductive. The inductive invariant `IInv` adds to
`TypeOK` what the thread knows at each point:

- `ControlInv`: which pairs of `state` and `target` are possible at which `pc` (a program is
  only ever commanded in the idle state, and once the runner has taken a stop
  nothing else is commanded), which gives `NoFatal`. Before it has been taken a
  stop can be lost: `StartProgram` in the idle state and `EmergencyStopProgram`
  in the active one assign the same `target`. `PumpControl` shuts the runner down when
  nobody else calls it any more, which is why `ShutdownCompletes` holds;
- `NextEntryInv`, `OrderInv`: that the next entry is the least of the remaining ones, and that the executed
  entries are those before it and not after `now`, which gives `FollowsProgram`
  and, with the entry's own time, `NeverOversleeps`;
- `FlowInv`: that the last command of each pump is the one of the last executed entry that
  names it; with `Remaining = {}` this is the last entry of the program, which
  gives `CompletedProgramIsOff`;
- that between the callback `SetAllPumpsOff` and the exit nothing changes the
  flows, which gives `StoppedIsOff`.

Lemma `Invariance` has one step per action. `Refinement` then shows that under
`IInv` each step maps to one step of the contract or to none: `RunDue` to
`Execute`, the `Report` after the last entry to `Finish`, `RunThrows` to a `Crash`
that has executed the next entry up to the pump concerned, and so on.
`TimeProgramProofs` has the facts about keys and overriding they rest on.

`PumpControlProofs` does not repeat them. `RunnerIsUsed` says that each step of
`PumpControl` is, for the runner, one of `TimeProgramRunner` with callers that
may hand over any time program (`AnyRunner`), or leaves it alone; its lemmas
then give `RunnerIsSafe` and `DosingIsKept`, the contract, for the composition.
The assumptions are those of `PumpControl`: 0 is a flow, there is a largest one,
and recipes have one of the modelled outcomes. On top of the runner's invariant:

- `LifecycleInv` (the web thread is gone before the runner is told to stop, main
  ends after it) gives `DoneIsOff`, for requests from the first moment on;
- `PlaceInv` says what the web thread still knows after it has released
  `state_mutex_`: from `compile` to `handover` the state is `active` and the
  runner idle, in manual switching it is `service`. Nobody else can change
  that, since the runner changes the state only at the end of a program. It
  needs the settled system and gives `BusyIsActive`, `MapIsNotShared`,
  `StartIsTaken`, and two more that no run lists: manual switching only in service
  (`SwitchIsInService`), and no program exchanged (`NoReplacement`);
- `DriverInv` (what the runner has commanded is what the driver was told)
  gives `DriverFollows`;
- `CleanInv` (`timeprogram_` is empty from the end of a program to the next
  compilation) gives `OwnRecipe` under the hypothesis `FailuresWriteNothing`.
  The run `leftover` shows that the hypothesis is needed, the theorem that
  nothing else is.

`RecipeProofs` is about every set of pumps with positive flows and every recipe of
any length. Its first part is unconditional, with amounts and sleeps that are any
integers: `TypeCorrect`, `FlowsFit` and `ProgramsEndOff` (for each pump
without a negative amount), from the invariant `AnyInv`. The second part,
`RecipesKeepLinesApart`, `RecipesEndTogether` and `DosesAreKept`, is about
recipes in which nothing is negative: its invariants are implications from
`NothingNegative`, which can be lost but not regained when another line is read.

The main work is with quotients that are compared
crosswise (`Longer`: transitive, total, and a longer time is never a smaller
number of milliseconds) and with extremes of finite sets. `SeparatedInv` says
that whatever order they are found in, only pumps that cannot wait are
separated, and when the recursion stops all of them are: `CanWait` is defined
for each pump alone, by its smallest flow and the slowest pump's largest one,
with no recursion. Hence `InterpolatedFlowFits`, and `FlowInv`: only a flow that
is still to be overwritten in its own line can be out of range. `EndsOff` is
inductive because a component's two entries are written in one turn, also when
they fall on one key. For the distance of lines, `EntriesInv` and `ApartInv`
keep every entry within its line's stretch, with all pumps off at its end (by
`EndsOff` when the line ends, and later because what is written later changes
nothing before, `PastStays`); `TogetherInv` keeps the pumps that can wait
running to the end. Both need `FixedPumpsOnce`: a pump that an interpolated line
names twice is one that runs until the end anyway, since it can wait and has a
range of flows. Without it `WrittenInTime` is false, and so are both properties
(section 3, divergences).

`DosesAreKept` is the theorem about amounts: `DosesAreRight`, sums and all. The
sums of the library are defined by an equation, of which `SumExists` and
`SumInAnyOrder` say that it has a solution and that the order does not matter;
`AllNumbers` (a set of numbers with 0 that is closed under the successor) does
the work of induction. So `Volume` and `Wanted` become running totals:
`Delivers`, in the order of time, and `Asks`, in the order of the components.
`DosesInv` is then inductive: each line so far has delivered what it asks for,
the line being compiled what its components so far ask for, and a pump whose
component has not come has no command since the line began. A component adds
less than a millisecond's flow too little (`WholeDose`; `SlowedDose` when it is
stretched to the time of the slowest one), changes no other pump and nothing
before it (`RunFlow`). The theorem needs `FixedPumpsOnce`, and `FlowsAreWhole`: the
unit is fine enough for the flows of interpolated lines, so that the only
rounding is the one of durations. The run's recipes satisfy both (`ASSUME` in
`MCRecipe`).

`ProcessProofs` begins with `IoDriver`. It proves, for all sets of inputs and outputs, that no pin is read
after its release, that nothing is told after unregistering, and that a resting
poll thread has told all values (`RestingIsTold`). Its invariant
says when the poll thread can exist (`ThreadInv`), when the pins are set up
(`ReadyInv`) and when main has the mutex (`HolderInv`): whoever reads a pin is a
thread that lives, and main releases the pins only past the join. `ToldInv` follows
the thread through a round: what it has looked at has been told, but for the one
input in its hands.

It then proves that each step of `ProcessSpec` is one of `IoDriver` or none, so
that these three hold for the whole process, and, again for all pins, `LibraryIsUp` and `EndsClean`. The invariant
counts: while the library is up, `gpio_init_counter` is the number of drivers that
hold it; while it is not, nobody holds it, and a count above zero is that of
calls that failed, which `gpio_init_rv` remembers and nobody takes back.

`WebInterfaceProofs` proves `ClientsAreCurrent` and `NoStaleMessage` for any
number of threads, clients, keys and messages. Its invariant: one thread at a
time is in a callback, with the message that was made last (`CallInv`); no client
has a message newer than `states`; and what a connected client has of a key is
what `states` has, unless a callback is about to send that message or `OnOpen`
is about to replay it. A replay is never of an old state, because `states_mutex_`
is held until it is over.

`WsConnectionProofs` proves `OneWriteAtATime` and `NothingAfterClose` for any
number of sending threads, messages and frames. What holds it together is
`m_write_flag`: it is set whenever frames are being written (`WriteInv`), and
after a close frame it stays set with nothing being written (`CloseInv`), so
that `write_frame` never pops again. The response of the handshake is written
without the flag; that no frame meets it is `EarlyInv`: before the connection is
open nothing is sent. `OrderInv` says that data is numbered upwards within and
across `wire`, `current` and `queue`; three lemmas on appending, cutting and
joining sequences carry it through each step.

 `SafeSession` adds that every step of a connection is one of `WsSession` or
none. `SessionInv` ties the shutdown of the transport to `m_state` and says that
nothing is called before the request has been read; terminating is treated once
(`TerminateIsSession`) for the timers, failed reads and writes and protocol
errors that may all come first.

`WsInputProofs` proves `RequestIsRead` for every input, every way to cut it into
reads and all limits. The strategy is a layout: a stream is the concatenation of
places (the bytes of a line with its CR and LF, the empty line, the body, the
frames), and `FlattenLaysOut` gives the position of each line in it, by induction
over the number of lines. The invariant then says where the parser is. `chunk` and
`stream` together are the rest of what the client sends (`Cut`); the lines taken are a
prefix of those sent, and `headers` is what is made of them (`LinesInv`); `lineBuf`
holds exactly the bytes behind those lines, of which at most an unfinished line has
been looked at (`Buffered`, `Waiting`, `Looking`); after the empty line `needed` is the
part of the body still missing (`InBody`, `AtEnd`). `FirstDelimiter` is its heart: the first CR LF in
what is buffered is the end of the next line, wherever the reads ended, because
no earlier position of the layout has one.

Its hypotheses are about the inputs and are satisfied by those of the run (`ASSUME` in
`MCWsInput`). `LengthsAreOnce` and `BodiesAreWhole`: the client does not contradict
itself about the length. `HeadersFit`: each read that ends within a line adds three to `headerBytes`, for a
delimiter that was not there, and a line of n bytes and its CR LF add n + 3. A byte is
therefore counted at most five times (three for a read, two for its line: the bounds in
`Waiting` and `Looking`), so that a header of a fifth of `max_header_size`, 3200 bytes for
the 16000 of the code, is never refused for its size, however it is cut. Above that
the outcome may depend on the reads.

It then proves `FramesAreRead` under these hypotheses and `FragmentedTextsEnd`, for
frames of any number and length and any limits of their sizes. The reference `Meaning` is a fold; what
it computes is unrolled to a function `Meanings` with the meaning of the first k
frames (`MeaningsMean`), by an induction over k like that for the layout. The
invariant `FInv` says which frame is being read and where in it: the two bytes of
the header (`InBasic`), the size and the key (`InExtended`), the payload
(`InPayload`) or its end (`InReady`). In each of them `chunk` and `stream` are what
is `Ahead` in the layout of the frames, `delivered` is what the frames before mean
(`Steady`), and the parser's message is what they leave unfinished (`Holds`) with
the first i units of this frame, the place in the key being i modulo 4 and the
validator's state being whether unit i is a lead (`Current`). There is one lemma
per step of `consume`. Two facts carry them. The validator, which sees the text a
part after the other, accepts exactly the text that is good as a whole
(`TextGoesOn`), so that it refuses early only what would be refused in the end
(`TextSoFar`). And a frame is refused by the parser, at whichever of its four
checks, exactly if the reference refuses it (`GoodFrameIs`, `IsRefused`), after
which nothing more is delivered (`OutGrows`). The hypothesis is needed in one place: where
the last frame of a fragmented text would have to be refused for the character in
which it ends.

Only model-checked: all liveness, which includes `ActiveEnds` and the fairness
in `UsesRunner` and `ImplementsSession` (the prover does not handle it). Every
invariant and every action property of the passing runs is stated by a theorem,
some of them under conditions on the inputs, which are named above.

## 6. That the properties can fail

`PROJECT.json` pairs each property of each passing run with a fault: the
definition is replaced by the variant and TLC finds the property violated. For
instance: executing an entry without waiting for its time, taking the bytes
behind a body for a part of it, leaving service mode from any state, notifying
the poll thread without joining it, rounding the end of a dose up.

## 7. Not modelled

The pwm interpolation (arithmetic on tables), pins and the serial protocol of
the pump drivers, a device that stops answering; decryption (pure functions; a
failure is a rejected recipe); parsing of recipes, options and the text of
headers; logging, json, firmata and serial libraries. Floating-point rounding,
and sums of times that do not fit into an `int`. The clamping of flows in
`SetFlow`, which no recipe reaches. Ingredients and amounts: maps that only the
server's thread writes, and a `TrackAmounts` that subtracts nothing. Of websocketpp: the client's role, TLS, proxies,
extensions, the versions before hybi13, pausing and deferred responses, which
the program does not use, and the preparation of frames to send.

## 8. Plan

Done, in this order: runner and contract with proofs, `PumpControl`, `IoDriver`
with proofs, `WebInterface`, `Recipe`, `Process` with proofs, `WsConnection`
with `WsSession`, the parsers with `WsInput`, proofs of
`WebInterface`, `WsConnection`, `PumpControl`, `Recipe` and its amounts, and the
requests and the frames of `WsInput`.

1. `WebInterface` over `WsSession`: its `session` split in the states of the
   connection, so that `Disconnect` is `Leave` and `OnClose` is `Close`; the
   theorems of `WebInterfaceProofs` with it.
2. The simulation io driver's own sequence of inputs, shown to be one of
   `IoDriver`.
