--------------------------- MODULE MCPumpControl ---------------------------
(***************************************************************************)
(* TLC instance of PumpControl: two pumps and short recipes.               *)
(***************************************************************************)
EXTENDS PumpControl, TLC

MCPumps == {1, 2}
MCFlows == {0, 1}

One == (0 :> (1 :> 1)) @@ (1 :> (1 :> 0))
Two == (0 :> (2 :> 1)) @@ (2 :> (2 :> 0))
ZeroLength == 0 :> (1 :> 0)

Good(tp) == [outcome |-> "good", written |-> tp]
Rejected == [outcome |-> "rejected", written |-> <<>>]
Short == [outcome |-> "short", written |-> <<>>]
\* The first line is written, the second one has an invalid timing mode.
Broken == [outcome |-> "broken", written |-> Two]

\* Recipes that fail leave nothing behind.
CleanRecipes == {Good(One), Good(Two), Good(ZeroLength), Rejected, Short}
CleanPrograms == {One, Two, ZeroLength}
\* A few recipes for the time before the system has settled, when two threads may
\* use timeprogram_ at once and even an empty program may be handed over.
FewRecipes == {Good(One), Rejected}
FewPrograms == {One, <<>>}

\* Recipes may fail after the first line.
BrokenRecipes == {Good(One), Broken}
BrokenPrograms == {One, Merge(Two, One)}
=============================================================================
