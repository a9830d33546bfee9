---------------------------- MODULE MCSchemaCache ----------------------------
(* TLC instances of SchemaCache.  Processes are interchangeable in a run     *)
(* without liveness properties.                                              *)
EXTENDS SchemaCache, TLC

Symmetry == Permutations(Procs)
=============================================================================
