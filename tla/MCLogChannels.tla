---------------------------- MODULE MCLogChannels ----------------------------
(* LogChannels for TLC. *)
EXTENDS LogChannels, TLC

Symmetry == Permutations(Goroutines) \cup Permutations(Names)
==============================================================================
