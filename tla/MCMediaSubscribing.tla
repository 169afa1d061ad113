------------------------- MODULE MCMediaSubscribing -------------------------
(***************************************************************************)
(* Instances of MediaSubscribing.  Transports and consumers are only told  *)
(* apart, so each may be permuted.                                         *)
(***************************************************************************)
EXTENDS MediaSubscribing

Symmetry == Permutations(Transports) \cup Permutations(Consumers)
=============================================================================
