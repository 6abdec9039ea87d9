----------------------------- MODULE MCEventLog -----------------------------
(* Instances of the event log for TLC.                                      *)
EXTENDS EventLog, TLC

Perms == Permutations(Threads) \cup Permutations(Events)
=============================================================================
