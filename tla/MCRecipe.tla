------------------------------ MODULE MCRecipe ------------------------------
(***************************************************************************)
(* The instance of Recipe that TLC checks: a pump with a narrow range of   *)
(* flows, one with a single flow, and a strong one with a wide range.      *)
(***************************************************************************)
EXTENDS Recipe

MCMinFlow == <<8, 12, 16>>
MCMaxFlow == <<28, 12, 48>>

Part(p, a) == [pump |-> p, amount |-> a]
Line(timing, sleep, components) == [timing |-> timing, sleep |-> sleep, components |-> components]

\* Components for one line: none, one, equal and unequal ones on several pumps, an
\* amount of 0, the same pump twice, and two pumps that are too fast for the third.
Mixtures ==
    {<<>>, <<Part(1, 4)>>, <<Part(3, 0)>>, <<Part(1, 4), Part(2, 2)>>,
     <<Part(3, 1), Part(2, 4), Part(1, 4)>>, <<Part(3, 4), Part(1, 4)>>,
     <<Part(1, 0), Part(3, 4)>>, <<Part(1, 2), Part(1, 4)>>,
     <<Part(1, 14), Part(2, 1), Part(3, 2)>>}

\* Negative amounts: alone, before and behind others of the same pump, with a pump that
\* has a positive one, and none that is not.
NegativeMixtures ==
    {<<Part(1, -2)>>, <<Part(1, -2), Part(1, 4)>>, <<Part(1, 4), Part(1, -2)>>,
     <<Part(2, 4), Part(1, -4)>>, <<Part(3, -2), Part(2, -1), Part(1, -7)>>}

MCLines ==
    {Line(t, s, c) : t \in {"fast", "interpolated", "sequential"}, s \in {0, 2}, c \in Mixtures}
    \cup {Line(t, 0, c) : t \in {"fast", "interpolated", "sequential"}, c \in NegativeMixtures}
    \cup {Line(t, -5, c) : t \in {"fast", "interpolated"},
                           c \in {<<Part(1, 4), Part(2, 2)>>, <<Part(3, 4), Part(1, 4)>>}}
    \cup {Line("invalid", 0, <<Part(1, 4)>>), Line("machine", 0, <<Part(2, 1)>>)}

\* Lines that name the pump with a single flow twice, and one that names it once: with
\* these for Lines most of the properties fail.
TwiceLines ==
    {Line("interpolated", 2, <<Part(2, 4), Part(2, 1)>>),
     Line("interpolated", 2, <<Part(2, 1), Part(2, 4)>>), Line("fast", 0, <<Part(2, 4)>>)}

\* What the theorems of RecipeProofs assume of the lines of a recipe.
ASSUME FlowsAreWhole
ASSUME FixedPumpsOnce
=============================================================================
