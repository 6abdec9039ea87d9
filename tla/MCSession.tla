----------------------------- MODULE MCSession -----------------------------
(* Instances of the session store for TLC.                                  *)
EXTENDS SessionProperties, TLC

Perms == Permutations(Procs) \cup Permutations(Inodes)
=============================================================================
