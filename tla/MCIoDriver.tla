----------------------------- MODULE MCIoDriver -----------------------------
(***************************************************************************)
(* The instance of IoDriver that TLC checks: two inputs, one output.       *)
(***************************************************************************)
EXTENDS IoDriver

MCInputs == {1, 2}
MCOutputs == {3}
=============================================================================
