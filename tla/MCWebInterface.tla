--------------------------- MODULE MCWebInterface ---------------------------
(***************************************************************************)
(* The instance of WebInterface that TLC checks: the server's thread and   *)
(* another one, two clients, two keys with two messages each.              *)
(***************************************************************************)
EXTENDS WebInterface

MCThreads == {"web", "runner"}
=============================================================================
