----------------------------- MODULE MC_Channels -----------------------------
(* Small instances of Channels for TLC. *)
EXTENDS Channels, TLC

Alike == Permutations(Users) \cup Permutations(Servers)
         \cup Permutations(Names) \cup Permutations(Cells)
=============================================================================
