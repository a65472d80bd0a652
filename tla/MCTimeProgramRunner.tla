------------------------ MODULE MCTimeProgramRunner ------------------------
(***************************************************************************)
(* TLC instance of TimeProgramRunner: two pumps and six programs.          *)
(***************************************************************************)
EXTENDS TimeProgramRunner, TLC

MCPumps == {1, 2}
MCFlows == {-1, 0, 1, 2}

\* Two pumps in parallel, the second one slower.
Parallel == (0 :> (1 :> 2 @@ 2 :> 1)) @@ (2 :> (1 :> 0)) @@ (3 :> (2 :> 0))
\* An empty line, then one pump after the other with a pause in between that is
\* longer than the progress period.
Sequential == (1 :> (2 :> 2)) @@ (2 :> (2 :> 0)) @@ (5 :> (1 :> 1)) @@ (6 :> (1 :> 0))
\* All amounts are zero.
ZeroLength == 0 :> (1 :> 0 @@ 2 :> 0)
\* No component at all.
NoEntry == <<>>

\* A negative amount: the pump is switched off first.  The last key is 0.
OffBeforeOn == (-2 :> (1 :> 0)) @@ (0 :> (1 :> 2))
\* The flow of the second pump is refused, after that of the first.
Throws == (-1 :> (1 :> 2)) @@ (1 :> (1 :> 1 @@ 2 :> -1)) @@ (2 :> (1 :> 0))

MCPrograms == {Parallel, Sequential, ZeroLength, NoEntry, OffBeforeOn, Throws}
=============================================================================
