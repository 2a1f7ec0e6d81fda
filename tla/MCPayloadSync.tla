---------------------------- MODULE MCPayloadSync ----------------------------
(* Two synchronizations of a document with two versions and two contents.  *)
EXTENDS PayloadSync, TLC

MCSymmetry == Permutations(Syncs) \cup Permutations(Definitions)
=============================================================================
