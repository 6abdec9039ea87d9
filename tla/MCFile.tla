------------------------------- MODULE MCFile -------------------------------
(* Instances of the file tools for TLC.                                     *)
EXTENDS FileProperties, TLC

Perms == Permutations(Tools) \cup Permutations(Files)
=============================================================================
