--------------------------- MODULE MCOpportunity ---------------------------
(***************************************************************************)
(* TLC instance of Opportunity: one opportunity of either class, two        *)
(* reviewers, two handlers of its event, and faults between them.           *)
(***************************************************************************)
EXTENDS Opportunity
=============================================================================
