---------------------------- MODULE MCSecureStore ----------------------------
(* Instance of SecureStore for TLC. *)
EXTENDS SecureStore, TLC

CONSTANTS c1, c2, k1, k2, v1, v2

TwoClients == {c1, c2}
TwoKeys == {k1, k2}
TwoValues == {v1, v2}

AnyOrder == Permutations(TwoClients) \cup Permutations(TwoKeys) \cup Permutations(TwoValues)
=============================================================================
