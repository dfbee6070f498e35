-------------------------- MODULE MCRecalculation --------------------------
(***************************************************************************)
(* TLC instance of Recalculation: a fact of any kind that any of two cases  *)
(* may depend on, two handlers, two evaluators, faults between them.        *)
(***************************************************************************)
EXTENDS Recalculation, TLC

CONSTANTS c1, c2, f1

\* The fact belongs to the first case.
HomeOfFacts == f1 :> c1
=============================================================================
