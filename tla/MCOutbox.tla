------------------------------ MODULE MCOutbox ------------------------------
(***************************************************************************)
(* TLC instance of Outbox: two relays, three events of which one has no     *)
(* consumer, batches of two so that a row waits for the next cycle.         *)
(***************************************************************************)
EXTENDS Outbox
=============================================================================
