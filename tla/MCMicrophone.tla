---------------------------- MODULE MCMicrophone ----------------------------
(***************************************************************************)
(* Instances of Microphone.  Captures, publications, transports and        *)
(* producers are only told apart, so each may be permuted.                 *)
(***************************************************************************)
EXTENDS Microphone, TLC

Symmetry ==
    Permutations(Captures) \cup Permutations(Publications)
        \cup Permutations(Transports) \cup Permutations(Producers)
=============================================================================
