----------------------------- MODULE MCSnapshot -----------------------------
(***************************************************************************)
(* TLC instance of SnapshotLifecycle: one run with two handlers and two     *)
(* people, three snapshots.                                                 *)
(***************************************************************************)
EXTENDS SnapshotLifecycle, TLC

\* The people are interchangeable, and so are the handlers.
Symmetric == Permutations(Users) \cup Permutations(Handlers)
=============================================================================
