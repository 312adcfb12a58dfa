--------------------------- MODULE MCSchemaLoader ---------------------------
(* SchemaLoader for TLC.  Callers and URLs are interchangeable; a run that *)
(* checks liveness does not use that.                                      *)
EXTENDS SchemaLoader, TLC

CONSTANTS w1, w2, u1, u2

Symmetry == Permutations({w1, w2}) \cup Permutations({u1, u2})
=============================================================================
