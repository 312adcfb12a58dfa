-------------------------- MODULE MCNormalizedModel -------------------------
(* NormalizedModel for TLC, with documents that have all their arrays.     *)
EXTENDS MCRenderings, NormalizedModel

ASSUME DocumentsAssumption == DocumentsAreWhole
=============================================================================
