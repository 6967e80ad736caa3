------------------------------ MODULE MCCatalog ------------------------------
(* Instances of Catalog for TLC. *)
EXTENDS Catalog, TLC
CONSTANTS c1, c2, k1, k2
=============================================================================
