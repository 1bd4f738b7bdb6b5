----------------------------- MODULE MCSessions -----------------------------
(* Sessions on small instances.                                            *)
EXTENDS Sessions, TLC

\* Ids carry no meaning, apart from the tokens that are older than sessions.
Symmetry ==
  Permutations(Requests) \cup Permutations(Users) \cup Permutations(Sessions)
    \cup Permutations(Tokens \ LegacyTokens)

=============================================================================
