-------------------------------- MODULE MCOcr --------------------------------
(***************************************************************************)
(* TLC instances of OcrPipeline: one document OCR reads and one it does not, *)
(* three handlers, a crash and two duplicate deliveries.                     *)
(***************************************************************************)
EXTENDS OcrPipeline
=============================================================================
