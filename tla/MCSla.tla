------------------------------- MODULE MCSla -------------------------------
(***************************************************************************)
(* TLC instance of SlaSweeps: two sweeps on one row or one task, two        *)
(* people, and time enough for a row to go through all the levels.          *)
(***************************************************************************)
EXTENDS SlaSweeps
=============================================================================
