---------------------------- MODULE MCCatalogueIndex ----------------------------
(* TLC instance of CatalogueIndex alone. *)
EXTENDS CatalogueIndex
=============================================================================
