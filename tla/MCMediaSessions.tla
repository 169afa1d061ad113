-------------------------- MODULE MCMediaSessions --------------------------
(***************************************************************************)
(* MediaSessions for TLC: neither the people nor the requests differ.      *)
(***************************************************************************)
EXTENDS MediaSessions, TLC

CONSTANTS ana, bia, t1, t2

Symmetry == Permutations(People) \cup Permutations(Tasks)

=============================================================================
