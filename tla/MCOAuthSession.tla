--------------------------- MODULE MCOAuthSession ---------------------------
(* Instances of OAuthSession for TLC. *)
EXTENDS OAuthSession, TLC

CONSTANTS p1, t1, t2, t3

OneProc == {p1}
TwoThreads == {t1, t2}
ThreeThreads == {t1, t2, t3}

AllInOne == [t \in Threads |-> p1]
(* A process, named for its thread, for each request. *)
OneEach == [t \in Threads |-> t]

ThreadSymmetry == Permutations({t1, t2, t3})
=============================================================================
