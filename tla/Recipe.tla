------------------------------- MODULE Recipe -------------------------------
(***************************************************************************)
(* PumpControl::CreateTimeProgram (src/src/pumpcontrol.cpp): how the lines *)
(* of a recipe become the entries of a time program, one component of a    *)
(* line per step.                                                          *)
(*                                                                         *)
(* Volumes are counted in ml and times in ms.  The code's flows are        *)
(* floating-point numbers; here a flow is a number of parts, Unit parts    *)
(* being one ml per ms.  The instances choose flows and amounts for which  *)
(* every quotient of an interpolated line is a whole number of parts, so   *)
(* that the only rounding is the code's own, of durations to milliseconds. *)
(*                                                                         *)
(* An amount is the one of the recipe after amount_override_ and rounding. *)
(* Nothing checks the amounts and sleeps of a recipe: they are integers.   *)
(***************************************************************************)
EXTENDS TimeProgram, Sequences

CONSTANTS Unit,               \* parts of a flow of 1 ml per ms
          MinFlow, MaxFlow,   \* pump_definitions_: the flows of each pump
          Lines,              \* the lines that recipes are made of
          MaxLines            \* bound: the length of a recipe

Pumps == DOMAIN MaxFlow
Timings == {"machine", "fast", "interpolated", "sequential", "invalid"}

ASSUME RecipeAssumption ==
    /\ Unit \in Nat \ {0} /\ MaxLines \in Nat
    /\ Pumps \in SUBSET Nat /\ DOMAIN MinFlow = Pumps
    /\ \A p \in Pumps : MinFlow[p] \in Nat \ {0} /\ MaxFlow[p] \in Nat /\ MinFlow[p] <= MaxFlow[p]
    /\ \A l \in Lines :
          /\ l.timing \in Timings /\ l.sleep \in Int
          /\ l.components \in Seq([pump : Pumps, amount : Int])

NoLine == [timing |-> "machine", sleep |-> 0, components |-> <<>>]

VARIABLES
    timeprogram,  \* the time program being written
    time,         \* when the next line or component starts; in the end the result
    phase,        \* the loop that is being executed, or how it has ended
    line,         \* the line being compiled, or NoLine
    start,        \* history: when it starts
    end,          \* when it ends: max_time, or the end_time of an interpolated line
    next,         \* which of its components comes next
    separated,    \* separated_pumps
    compiled      \* history: the lines so far, each with its start and its end

vars == <<timeprogram, time, phase, line, start, end, next, separated, compiled>>

TypeOK ==
    /\ IsTimeProgram(timeprogram, Int, Pumps, Int)
    /\ time \in Int
    /\ phase \in {"lines", "separate", "components", "done", "failed"}
    /\ line \in Lines \cup {NoLine}
    /\ start \in Int /\ end \in Int
    /\ next \in 1 .. Len(line.components) + 1
    /\ separated \in SUBSET Pumps
    /\ compiled \in Seq([line : Lines, start : Int, end : Int]) /\ Len(compiled) <= MaxLines

Init ==
    /\ timeprogram = <<>>
    /\ time = 0
    /\ phase = "lines"
    /\ line = NoLine /\ start = 0 /\ end = 0 /\ next = 1 /\ separated = {}
    /\ compiled = <<>>

-----------------------------------------------------------------------------
(* One component.                                                          *)

\* timeprogram[t][p] = flow
Put(tp, t, p, flow) == Merge(tp, [u \in {t} |-> [q \in {p} |-> flow]])

\* (int)(x / y), which rounds towards 0; y is positive.
Truncate(x, y) == IF x >= 0 THEN x \div y ELSE -((-x) \div y)

\* (int)max_duration
Duration(amount, flow) == Truncate(amount * Unit, flow)

\* Fault: the end is rounded up, and a whole one by one more.
EndTimeRoundedUp(amount, flow) == Truncate(time * flow + amount * Unit, flow) + 1

\* int end_time = time + amount / flow: the sum is rounded.
EndTime(amount, flow) == Truncate(time * flow + amount * Unit, flow)

\* A pump runs with a flow from one time to another; with a negative amount it is
\* switched on after it has been switched off.
Run(tp, from, to, p, flow) == Put(Put(tp, from, p, flow), to, p, Off)

\* A component at its pump's flow, for as long as it takes.
Dose(tp, c, flow) == Run(tp, time, EndTime(c.amount, flow), c.pump, flow)

-----------------------------------------------------------------------------
(* TIMING_INTERPOLATED_FINISH_PARALLEL                                     *)

\* The pumps of some components, and the amount that the time maps are computed from:
\* the last one given for the pump.
PumpsIn(components) == {components[i].pump : i \in DOMAIN components}
LastAmount(components) ==
    [p \in PumpsIn(components) |->
        components[Max({i \in DOMAIN components : components[i].pump = p})].amount]

\* The first of the pumps for which amount / flow is largest (GetMaxElement) or smallest
\* (GetMinElement); quotients are compared crosswise.
Slowest(ps, amount, flow) ==
    Min({p \in ps : \A q \in ps : amount[p] * flow[q] >= amount[q] * flow[p]})
Fastest(ps, amount, flow) ==
    Min({p \in ps : \A q \in ps : amount[p] * flow[q] <= amount[q] * flow[p]})

\* The pump with max_duration, over all components, and what is left of the time maps.
SlowestIn(components) == Slowest(PumpsIn(components), LastAmount(components), MaxFlow)
Remaining == PumpsIn(line.components) \ separated

\* Fault: no pump is separated.
NoneTooFast(ps) == FALSE

\* Fault: the pumps are compared with the slowest one at its smallest flow.
TooFastByMinFlow(ps) ==
    LET amount == LastAmount(line.components)
        fast == Fastest(ps, amount, MinFlow)
        slow == Slowest(ps, amount, MinFlow)
    IN  ps # {} /\ amount[fast] * MinFlow[slow] < amount[slow] * MinFlow[fast]

\* One of the pumps is, at its smallest flow, done before the slowest one is done at its
\* largest.
TooFast(ps) ==
    LET amount == LastAmount(line.components)
        fast == Fastest(ps, amount, MinFlow)
        slow == Slowest(ps, amount, MaxFlow)
    IN  ps # {} /\ amount[fast] * MaxFlow[slow] < amount[slow] * MinFlow[fast]

\* A call of SeparateTooFastIngredients that calls itself for the other pumps.
SeparateTooFastIngredients ==
    /\ phase = "separate"
    /\ TooFast(Remaining)
    /\ separated' = separated \cup {Fastest(Remaining, LastAmount(line.components), MinFlow)}
    /\ UNCHANGED <<timeprogram, time, phase, line, start, end, next, compiled>>

\* The last call, and the end of the line.
ComputeEnd ==
    /\ phase = "separate"
    /\ ~ TooFast(Remaining)
    /\ LET slow == SlowestIn(line.components)
       IN  end' = IF line.components = <<>> THEN time
                  ELSE time + Duration(LastAmount(line.components)[slow], MaxFlow[slow])
    /\ phase' = "components"
    /\ UNCHANGED <<timeprogram, time, line, start, next, separated, compiled>>

\* amount / max_duration; without any amount it is overwritten at once.
InterpolatedFlow(c) ==
    LET slow == SlowestIn(line.components)
        amount == LastAmount(line.components)[slow]
    IN  IF amount = 0 THEN Off ELSE (c.amount * MaxFlow[slow]) \div amount

InterpolatedComponent(c) ==
    /\ line.timing = "interpolated"
    /\ timeprogram' =
          IF c.pump \in separated \/ MinFlow[c.pump] = MaxFlow[c.pump]
            THEN Dose(timeprogram, c, MinFlow[c.pump])
            ELSE Run(timeprogram, time, end, c.pump, InterpolatedFlow(c))
    /\ UNCHANGED <<time, end>>

-----------------------------------------------------------------------------
(* The other timings, and the lines.                                       *)

\* Fault: the pump is not switched off at the end.
FastWithoutEnd(c) ==
    /\ line.timing \in {"machine", "fast"}
    /\ timeprogram' = Put(timeprogram, time, c.pump, MaxFlow[c.pump])
    /\ end' = Max({end, EndTime(c.amount, MaxFlow[c.pump])})
    /\ UNCHANGED time

\* TIMING_BY_MACHINE, TIMING_ALL_FAST_START_PARALLEL
FastComponent(c) ==
    /\ line.timing \in {"machine", "fast"}
    /\ timeprogram' = Dose(timeprogram, c, MaxFlow[c.pump])
    /\ end' = Max({end, EndTime(c.amount, MaxFlow[c.pump])})
    /\ UNCHANGED time

\* TIMING_SEQUENTIAL
SequentialComponent(c) ==
    /\ line.timing = "sequential"
    /\ timeprogram' = Dose(timeprogram, c, MaxFlow[c.pump])
    /\ end' = Max({end, EndTime(c.amount, MaxFlow[c.pump])})
    /\ time' = end'

\* The next turn of the loop over the components.
Component ==
    /\ phase = "components" /\ next <= Len(line.components)
    /\ LET c == line.components[next]
       IN  FastComponent(c) \/ InterpolatedComponent(c) \/ SequentialComponent(c)
    /\ next' = next + 1
    /\ UNCHANGED <<phase, line, start, separated, compiled>>

\* The next turn of the loop over the lines.
BeginLine(l) ==
    /\ phase = "lines" /\ Len(compiled) < MaxLines
    /\ l.timing # "invalid"
    /\ phase' = IF l.timing = "interpolated" THEN "separate" ELSE "components"
    /\ line' = l /\ start' = time /\ end' = time /\ next' = 1 /\ separated' = {}
    /\ UNCHANGED <<timeprogram, time, compiled>>

\* Fault: the next line starts when this one ends.
EndLineWithoutSleep ==
    /\ phase = "components" /\ next > Len(line.components)
    /\ time' = end
    /\ compiled' = Append(compiled, [line |-> line, start |-> start, end |-> end])
    /\ phase' = "lines" /\ line' = NoLine /\ next' = 1 /\ separated' = {}
    /\ UNCHANGED <<timeprogram, start, end>>

EndLine ==
    /\ phase = "components" /\ next > Len(line.components)
    /\ time' = end + line.sleep + 1
    /\ compiled' = Append(compiled, [line |-> line, start |-> start, end |-> end])
    /\ phase' = "lines" /\ line' = NoLine /\ next' = 1 /\ separated' = {}
    /\ UNCHANGED <<timeprogram, start, end>>

\* An exception: for a line without timing or with an unknown one, or for a component
\* that lacks something; what has been written before stays.  An interpolated line has
\* read all of its components before it writes.
Fail ==
    /\ \/ phase = "lines" /\ Len(compiled) < MaxLines
       \/ phase = "components" /\ line.timing # "interpolated" /\ next <= Len(line.components)
    /\ phase' = "failed"
    /\ time' = -1
    /\ UNCHANGED <<timeprogram, line, start, end, next, separated, compiled>>

Finish ==
    /\ phase = "lines"
    /\ phase' = "done"
    /\ UNCHANGED <<timeprogram, time, line, start, end, next, separated, compiled>>

Ended == phase \in {"done", "failed"} /\ UNCHANGED vars

Next ==
    \/ \E l \in Lines : BeginLine(l)
    \/ SeparateTooFastIngredients \/ ComputeEnd \/ Component
    \/ EndLine \/ Fail \/ Finish \/ Ended

Spec == Init /\ [][Next]_vars

-----------------------------------------------------------------------------
(* What is negative in a recipe.                                           *)

\* The lines read so far, a failed one included.
LinesRead == {compiled[i].line : i \in DOMAIN compiled} \cup {line}

\* No amount for a pump is negative in a line.
HasNoNegative(l, p) ==
    \A i \in DOMAIN l.components : l.components[i].pump = p => l.components[i].amount >= 0

NaturalLines ==
    {l \in Lines : l.sleep >= 0 /\ \A i \in DOMAIN l.components : l.components[i].amount >= 0}
NothingNegative == LinesRead \subseteq NaturalLines \cup {NoLine}

-----------------------------------------------------------------------------
(* What the time program does when it is followed.                         *)

\* The flow of a pump at a moment: the last command up to then.
FlowIn(tp, p, t) ==
    LET commands == {u \in DOMAIN tp : u <= t /\ p \in DOMAIN tp[u]}
    IN  IF commands = {} THEN Off ELSE tp[Max(commands)][p]
FlowAt(p, t) == FlowIn(timeprogram, p, t)

\* The pumps of an interpolated line that can be slowed down until the slowest one ends.
CanWait(components) ==
    LET amount == LastAmount(components)
        slow == SlowestIn(components)
    IN  {p \in PumpsIn(components) :
            amount[p] * MaxFlow[slow] >= amount[slow] * MinFlow[p]}

\* What is assumed of recipes: no interpolated line names a pump twice, except one that
\* runs until the end whatever its amount.
FixedPumpsOnce ==
    \A l \in NaturalLines : l.timing = "interpolated" =>
        \A i, j \in DOMAIN l.components :
            LET p == l.components[i].pump
            IN  i # j /\ l.components[j].pump = p =>
                    p \in CanWait(l.components) /\ MinFlow[p] # MaxFlow[p]

\* What is assumed of the unit: the flow of each of them is a whole number of parts.
FlowsAreWhole ==
    \A l \in NaturalLines : l.timing = "interpolated" =>
        LET amount == LastAmount(l.components)
            slow == SlowestIn(l.components)
        IN  \A p \in CanWait(l.components) :
                \E flow \in MinFlow[p] .. MaxFlow[p] :
                    flow * amount[slow] = amount[p] * MaxFlow[slow]

\* What a pump delivers in [from, to), in parts.
Volume(p, from, to) == MapThenSumSet(LAMBDA t : FlowAt(p, t), from .. (to - 1))

Components(l, p) == {i \in DOMAIN l.components : l.components[i].pump = p}
Wanted(l, p) == MapThenSumSet(LAMBDA i : l.components[i].amount, Components(l, p)) * Unit

\* Every line dispenses the amounts it asks for, short of less than a millisecond's
\* flow per component; a line in which a pump has several components only if they
\* come one after the other.
DosesAreRight ==
    NothingNegative => \A i \in DOMAIN compiled : \A p \in Pumps :
        LET l == compiled[i].line
            n == Cardinality(Components(l, p))
            volume == Volume(p, compiled[i].start, compiled[i].end)
        IN  n <= 1 \/ l.timing = "sequential" =>
                volume <= Wanted(l, p) /\ (n > 0 => Wanted(l, p) - n * MaxFlow[p] < volume)

\* After a line all pumps are off for its sleep and until the next line starts, and the
\* result of CreateTimeProgram lies after every entry.
LinesAreApart ==
    NothingNegative /\ phase \in {"lines", "done"} =>
        /\ \A t \in DOMAIN timeprogram : t < time
        /\ \A i \in DOMAIN compiled :
              LET following == IF i < Len(compiled) THEN compiled[i + 1].start ELSE time
              IN  /\ following - compiled[i].end > compiled[i].line.sleep
                  /\ \A p \in Pumps : \A t \in compiled[i].end .. (following - 1) :
                        FlowAt(p, t) = Off

\* SetFlow never has to correct a flow: whatever the mixture, no pump is asked for less
\* or more than it can do.  Within a line that names a pump twice the first of its flows
\* may be out of range; the second one overwrites it.
FlowsArePossible ==
    phase # "components" =>
        \A t \in DOMAIN timeprogram : \A p \in DOMAIN timeprogram[t] :
            timeprogram[t][p] = Off \/ timeprogram[t][p] \in MinFlow[p] .. MaxFlow[p]

\* Whether it is finished or was interrupted by an exception, and however sleeps and the
\* amounts of other pumps overlap: a time program ends with every pump switched off for
\* which no amount is negative.  (It leaves the others on.)
EndsOff ==
    \A p \in PumpsOf(timeprogram) :
        (\A l \in LinesRead : HasNoNegative(l, p)) => SwitchesOff(timeprogram, p)

\* In an interpolated line the pumps that can end together do so.
InterpolatedEndTogether ==
    NothingNegative => \A i \in DOMAIN compiled :
        LET l == compiled[i].line
        IN  l.timing = "interpolated" /\ compiled[i].end > compiled[i].start =>
                \A p \in CanWait(l.components) : FlowAt(p, compiled[i].end - 1) # Off
=============================================================================
