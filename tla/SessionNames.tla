---------------------------- MODULE SessionNames ----------------------------
(* Resume by name reads the sessions one after another while their owners   *)
(* rename, close and remove them.  History variables remember which of them *)
(* had the name all the time and which had it at some time, so that what    *)
(* the scan may conclude can be stated.                                     *)
EXTENDS SessionProperties, TLC

VARIABLES steady,  \* steady[p]: the sessions that have had the name process
                   \* p asks for at every moment since it listed the root
          ever     \* ever[p]: those that have had it at some moment since

Scanning(p) == proc[p].op = "resume" /\ proc[p].pc = "scan"

Named(p) == {i \in Ids : Match(i, proc[p].ask)}

InitNames == Init /\ steady = [p \in Procs |-> {}] /\ ever = [p \in Procs |-> {}]

NextNames ==
  /\ Next
  /\ steady' = [p \in Procs |->
                  IF ~Scanning(p)' THEN {}
                  ELSE IF ~Scanning(p) THEN Named(p)'
                  ELSE steady[p] \cap Named(p)']
  /\ ever' = [p \in Procs |->
                IF ~Scanning(p)' THEN {}
                ELSE IF ~Scanning(p) THEN Named(p)'
                ELSE ever[p] \cup Named(p)']

SpecNames == InitNames /\ [][NextNames]_<<vars, steady, ever>>

\* docs/spec.md:300, 376, 410: Resume opens a session by name only when it has
\* had that name at some moment since the root was listed -- it may have been
\* given another since (store.go:188) -- and no other session has had it all
\* along, and reports that there is none only when none has had it all along
\* (store.go:154-188).
NameResolution ==
  [][\A p \in Procs :
       ResumeChoose(p) =>
         \/ /\ proc'[p].pc = "lock" /\ proc'[p].cur \in ever[p]
            /\ steady[p] \subseteq {proc'[p].cur}
         \/ proc'[p].pc = "idle" /\ Cardinality(proc[p].found) > 1
         \/ proc'[p].pc = "idle" /\ steady[p] = {}]_<<vars, steady, ever>>

Perms == Permutations(Procs) \cup Permutations(Inodes)
=============================================================================
