---------------------------- MODULE MCDocsBrowser ----------------------------
(* Instances of DocsBrowser for TLC. *)
EXTENDS DocsBrowser

OneQuery == {"charge"}
TwoWidths == {80, 100}
ThirdPage == {3}
=============================================================================
