---------------------------- MODULE MCSharedReading ----------------------------
(******************************************************************************)
(* Two tabs on one record, three positions, a cap of two bookmarks.           *)
(******************************************************************************)
EXTENDS SharedReading, TLC

Symmetry == Permutations(Tabs) \cup Permutations(Cfis)
================================================================================
