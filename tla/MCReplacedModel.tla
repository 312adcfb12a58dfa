--------------------------- MODULE MCReplacedModel --------------------------
(* NormalizedModel for TLC, with documents that lack arrays.               *)
EXTENDS MCRenderings, NormalizedModel
=============================================================================
