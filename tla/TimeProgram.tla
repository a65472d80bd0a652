---------------------------- MODULE TimeProgram ----------------------------
(***************************************************************************)
(* The data type TimeProgramRunner::TimeProgram                            *)
(* (src/src/timeprogramrunner.h:14), a std::map from a time in             *)
(* milliseconds to a std::map from a pump number to a flow.  Here it is a  *)
(* function from a finite set of times to partial functions from pumps to  *)
(* flows; the empty map is the function with empty domain.                 *)
(***************************************************************************)
EXTENDS Integers, FiniteSetsExt

\* The flow that switches a pump off.
Off == 0

\* All time programs over the given times, pumps and flows.
IsTimeProgram(tp, times, pumps, flows) ==
    /\ DOMAIN tp \in SUBSET times
    /\ tp = [t \in DOMAIN tp |-> tp[t]]
    /\ \A t \in DOMAIN tp :
          /\ DOMAIN tp[t] \in SUBSET pumps
          /\ tp[t] = [p \in DOMAIN tp[t] |-> tp[t][p]]
          /\ \A p \in DOMAIN tp[t] : tp[t][p] \in flows

\* timeprogram_.begin()->first: std::map iterates in the order of its keys.
FirstKey(tp) == Min(DOMAIN tp)

\* The keys that follow t, and the one that it++ moves to.
KeysAfter(tp, t) == {u \in DOMAIN tp : u > t}
NextKey(tp, t) == Min(KeysAfter(tp, t))

\* A program whose last key is 0 (or that has none): its end time is no divisor.
Degenerate(tp) == (DOMAIN tp # {} => 0 \in DOMAIN tp) /\ \A t \in DOMAIN tp : t <= 0

\* Fault: entries that switch a pump off are taken for unset ones.
OverrideUnlessOff(flow, entry) ==
    [p \in DOMAIN flow |->
        IF p \in DOMAIN entry /\ entry[p] # Off THEN entry[p] ELSE flow[p]]

\* The flows after the SetFlow calls of one entry of the program.
Override(flow, entry) ==
    [p \in DOMAIN flow |-> IF p \in DOMAIN entry THEN entry[p] ELSE flow[p]]

\* The pumps of an entry for which SetFlow throws, and the entry as far as it is executed:
\* its calls are made in the order of the pumps, up to the one that throws.
Refused(entry) == {p \in DOMAIN entry : entry[p] < Off}
BeforeRefused(entry) ==
    [p \in {q \in DOMAIN entry : \A r \in Refused(entry) : q < r} |-> entry[p]]

\* The program after the entries of other have been written into it one by one, as
\* timeprogram[time][pump] = flow does.
Merge(tp, other) ==
    [t \in DOMAIN tp \cup DOMAIN other |->
        IF t \notin DOMAIN other THEN tp[t]
        ELSE IF t \notin DOMAIN tp THEN other[t]
        ELSE [p \in DOMAIN tp[t] \cup DOMAIN other[t] |->
                IF p \in DOMAIN other[t] THEN other[t][p] ELSE tp[t][p]]]

\* t is the last of the given times at which the program commands pump p.
IsLastFor(tp, times, p, t) ==
    /\ t \in times
    /\ p \in DOMAIN tp[t]
    /\ \A u \in times : p \in DOMAIN tp[u] => u <= t

\* The pumps that the program commands at all.
PumpsOf(tp) == UNION {DOMAIN tp[t] : t \in DOMAIN tp}

\* The program ends with a pump switched off, and with every pump it uses.
SwitchesOff(tp, p) ==
    \E t \in DOMAIN tp : IsLastFor(tp, DOMAIN tp, p, t) /\ tp[t][p] = Off
Settles(tp) == \A p \in PumpsOf(tp) : SwitchesOff(tp, p)
=============================================================================
