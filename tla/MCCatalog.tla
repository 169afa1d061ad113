------------------------------ MODULE MCCatalog ------------------------------
(***************************************************************************)
(* Instances of Catalog.  Where nobody administers, or everybody does,     *)
(* people are only told apart, so they may be permuted, as may requests.   *)
(***************************************************************************)
EXTENDS Catalog, TLC

Symmetry == Permutations(Users) \cup Permutations(Calls)
=============================================================================
