---------------------------- MODULE MCDirectory ----------------------------
(* Instances of Directory for TLC. *)
EXTENDS Directory, TLC

Perms == Permutations(Proc) \cup Permutations(Dir) \cup Permutations(File) \cup Permutations(Name)
=============================================================================
