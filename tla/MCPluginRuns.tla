---------------------------- MODULE MCPluginRuns ----------------------------
(* Small instances of PluginRuns for TLC.                                  *)
EXTENDS PluginRuns, TLC

TabSymmetry == Permutations(Tabs)
=============================================================================
