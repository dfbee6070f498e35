---------------------------- MODULE MCExtraction ----------------------------
(***************************************************************************)
(* TLC instances of ExtractionPipeline: one document, two handlers and two  *)
(* people, a crash and a duplicate delivery.                                *)
(***************************************************************************)
EXTENDS ExtractionPipeline
=============================================================================
