----------------------------- MODULE MCProcess -----------------------------
(***************************************************************************)
(* The instance of Process that TLC checks: two inputs, one output.        *)
(***************************************************************************)
EXTENDS Process

MCInputs == {1, 2}
MCOutputs == {3}
=============================================================================
