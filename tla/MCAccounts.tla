----------------------------- MODULE MCAccounts -----------------------------
(***************************************************************************)
(* Instances of Accounts.  Tokens, calls, identities and browsers are only *)
(* told apart, so each may be permuted; and what became of a token that    *)
(* nobody holds makes no difference, for it is issued anew as any other.   *)
(***************************************************************************)
EXTENDS Accounts

Symmetry ==
    Permutations(Browsers) \cup Permutations(Identities) \cup
    Permutations(Tokens) \cup Permutations(Calls)

View ==
    <<account, mail, linked, calls, pages,
      [t \in Tokens |-> IF Unused(t) THEN "free" ELSE tokens[t]]>>
=============================================================================
