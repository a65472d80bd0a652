--------------------------- MODULE DosingContract ---------------------------
(***************************************************************************)
(* What TimeProgramRunner promises its caller, without threads, mutexes    *)
(* and clocks: an accepted time program is executed entry by entry in the  *)
(* order of its keys and completely, unless somebody asks for a halt; it   *)
(* is not exchanged once it has begun; after closing, all pumps are off    *)
(* for good.                                                               *)
(***************************************************************************)
EXTENDS TimeProgram

CONSTANTS Pumps, Flows, Programs

VARIABLES
    phase,      \* what the executor is doing
    recipe,     \* the last accepted program
    todo,       \* its entries that are not executed yet
    flow        \* the flows that are commanded

contract == <<phase, recipe, todo, flow>>

Phases == {"free", "accepted", "dosing", "halting", "closed", "crashed"}

TypeOK ==
    /\ phase \in Phases
    /\ todo \in SUBSET DOMAIN recipe
    /\ flow \in [Pumps -> Flows]

Init ==
    /\ phase = "free"
    /\ recipe = <<>>
    /\ todo = {}
    /\ flow = [p \in Pumps |-> Off]

\* A program is accepted in the idle phase only; before it begins a later one
\* replaces it.
Accept ==
    /\ phase \in {"free", "accepted"}
    /\ phase' = "accepted"
    /\ recipe' \in Programs
    /\ todo' = DOMAIN recipe'
    /\ UNCHANGED flow

Withdraw ==
    /\ phase = "accepted"
    /\ phase' = "free"
    /\ UNCHANGED <<recipe, todo, flow>>

Begin ==
    /\ phase = "accepted"
    /\ todo # {}
    /\ phase' = "dosing"
    /\ UNCHANGED <<recipe, todo, flow>>

Execute ==
    /\ phase = "dosing"
    /\ \E t \in todo :
          /\ \A u \in todo : t <= u
          /\ Refused(recipe[t]) = {}
          /\ todo' = todo \ {t}
          /\ flow' = Override(flow, recipe[t])
    /\ UNCHANGED <<phase, recipe>>

Finish ==
    /\ phase = "dosing"
    /\ todo = {}
    /\ phase' = "free"
    /\ UNCHANGED <<recipe, todo, flow>>

\* Somebody asks for a halt in the middle of a program; it is granted later.
Halt ==
    /\ phase = "dosing"
    /\ todo # {}
    /\ phase' = "halting"
    /\ UNCHANGED <<recipe, todo, flow>>

Halted ==
    /\ phase = "halting"
    /\ phase' = "free"
    /\ UNCHANGED <<recipe, todo, flow>>

Close ==
    /\ phase = "free"
    /\ phase' = "closed"
    /\ flow' = [p \in Pumps |-> Off]
    /\ UNCHANGED <<recipe, todo>>

\* It crashes on a program without a length, and on an entry with a flow that is
\* refused, after the flows of the pumps before: no other program crashes it.
Crash ==
    /\ phase \in {"accepted", "dosing"}
    /\ phase' = "crashed"
    /\ \/ Degenerate(recipe) /\ UNCHANGED flow
       \/ \E t \in todo :
             /\ phase = "dosing"
             /\ \A u \in todo : t <= u
             /\ Refused(recipe[t]) # {}
             /\ flow' = Override(flow, BeforeRefused(recipe[t]))
    /\ UNCHANGED <<recipe, todo>>

Next ==
    \/ Accept \/ Withdraw \/ Begin \/ Execute \/ Finish
    \/ Halt \/ Halted \/ Close \/ Crash

Spec == Init /\ [][Next]_contract
=============================================================================
