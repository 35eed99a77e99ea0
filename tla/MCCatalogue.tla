------------------------------ MODULE MCCatalogue ------------------------------
(***************************************************************************)
(* Instances of Catalogue for TLC: two products, two titles, three files.  *)
(***************************************************************************)
EXTENDS Catalogue, TLC

CONSTANTS t1, t2

Symmetry == Permutations(Products) \cup Permutations(Handlers) \cup Permutations({t1, t2})
==============================================================================
