---------------------------- MODULE MCProjectsCache ----------------------------
(* TLC instance of ProjectsCache. *)
EXTENDS ProjectsCache

ASSUME ProjectsCacheAssumption
=============================================================================
