----------------------------- MODULE MCReporter -----------------------------
(***************************************************************************)
(* The handler that starts a run, of any kind of trigger or of none, and   *)
(* two others that move and report it: enough for every overlap of a slow  *)
(* report with a later one, and of two reports of the same state.          *)
(***************************************************************************)
EXTENDS Reporter
=============================================================================
