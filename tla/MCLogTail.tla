----------------------------- MODULE MCLogTail -----------------------------
(* Instance of LogTail for TLC. *)
EXTENDS LogTail, TLC
Perms == Permutations(Tails) \union Permutations(Files)
=============================================================================
