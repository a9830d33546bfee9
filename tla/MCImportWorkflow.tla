------------------------- MODULE MCImportWorkflow -------------------------
(* TLC instances of ImportWorkflow.  Datasets are interchangeable in a run  *)
(* without liveness properties.                                             *)
EXTENDS ImportWorkflow, TLC

Symmetry == Permutations(Datasets)
=============================================================================
