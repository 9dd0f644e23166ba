-------------------------- MODULE MCPluginLifecycle --------------------------
(* Instances of PluginLifecycle for TLC. *)
EXTENDS PluginLifecycle

ThreeVersions == 1..3
OldReleases == {1, 2}
NoFile == {}
HalfFile == {0}
=============================================================================
