--------------------------- MODULE MCProviderFetch ---------------------------
(* Two attempts for two intents with one call: one each, or both of one. *)
EXTENDS ProviderFetch, TLC

CONSTANTS i1, i2, a1, a2

TwoIntents == {i1, i2}
TwoAttempts == {a1, a2}
FetchSymmetry == Permutations(TwoIntents) \cup Permutations(TwoAttempts)
=============================================================================
