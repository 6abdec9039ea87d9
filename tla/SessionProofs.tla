---------------------------- MODULE SessionProofs ----------------------------
(* Proofs about the session store, for any number of processes, sessions,   *)
(* names and lock files.                                                    *)
EXTENDS SessionNames, FiniteSetTheorems, TLAPS

-----------------------------------------------------------------------------
(* Facts about the data.                                                    *)

\* The values a process starts from have their types.
LEMMA IdleType == Idle \in Proc /\ NoMeta \in Meta
BY NameAssumption, TimeAssumption
   DEF Idle, Proc, Ops, Steps, NoMeta, Meta, Statuses, NoId, Saved

\* The steps and the calls, by name.
LEMMA StepNames ==
  /\ "idle" \in Steps /\ "scan" \in Steps /\ "lock" \in Steps
  /\ "meta" \in Steps /\ "summary" \in Steps /\ "events" \in Steps
  /\ "snapshot" \in Steps /\ "ready" \in Steps /\ "remove" \in Steps
  /\ "use" \in Ops /\ "cleanup" \in Ops
BY DEF Steps, Ops

\* Step(p, r) with r in Proc keeps proc a function into Proc.
LEMMA StepType ==
  ASSUME NEW p \in Procs, NEW r \in Proc, proc \in [Procs -> Proc], Step(p, r)
  PROVE  proc' \in [Procs -> Proc]
BY DEF Step

-----------------------------------------------------------------------------
(* Type correctness.                                                        *)

LEMMA TypeInit == Init => SessionInv
<1> SUFFICES ASSUME Init PROVE SessionInv
  OBVIOUS
<1>1. TypeOK
  BY IdleType, TimeAssumption DEF Init, TypeOK, Entries
<1>2. \A p \in Procs : proc[p].pc = "idle" /\ proc[p].fd = NoInode
                       /\ proc[p].todo = {} /\ proc[p].found = {}
  BY DEF Init, Idle
<1>3. UnusedIsAbsent /\ ListedIsUsed /\ CurrentIsUsed
  BY <1>2 DEF Init, UnusedIsAbsent, ListedIsUsed, CurrentIsUsed
<1>4. UnlinkIsDoomed /\ OpenedIsLinked /\ OneHolder /\ StepOfCall
  BY <1>2 DEF UnlinkIsDoomed, OpenedIsLinked, OneHolder, Holds,
              StepOfCall, StepsOf, Init, Idle
<1> QED
  BY <1>1, <1>3, <1>4 DEF SessionInv


-----------------------------------------------------------------------------
(* The invariant is disturbed in few ways.  Fits says what the new state r   *)
(* of process p must satisfy, Keeps what a step may do to the disk; a step   *)
(* that satisfies both preserves SessionInv.                                 *)

\* What p lists, works on, has open and has locked is in order in r.
Fits(p, r) ==
  /\ \A i \in r.todo \cup r.found : life'[i] # "unused"
  /\ IF r.pc \in {"idle", "scan"} THEN r.fd = NoInode
     ELSE r.cur \in Ids /\ life'[r.cur] # "unused"
  /\ r.pc \in StepsOf[r.op]
  /\ r.pc = "unlink" => life'[r.cur] = "doomed"
  /\ r.fd # NoInode /\ life'[r.cur] # "doomed" =>
       "owner.lock" \in dir'[r.cur] /\ link'[r.cur] = r.fd
  /\ r.fd # NoInode /\ r.pc # "lock" =>
       \A q \in Procs \ {p} : ~(Has(q, r.cur) /\ proc[q].fd = r.fd)

\* Lives only go forward, and a session keeps its lock file until a RemoveAll
\* of it begins.
Keeps ==
  /\ \A i \in Ids : life'[i] = "unused" => life[i] = "unused" /\ dir'[i] = {}
  /\ \A i \in Ids : life[i] = "doomed" => life'[i] = "doomed"
  /\ \A i \in Ids : life'[i] # "doomed" /\ "owner.lock" \in dir[i] =>
                      "owner.lock" \in dir'[i] /\ link'[i] = link[i]

DiskType == /\ clock' \in 0..MaxClock
            /\ dir' \in [Ids -> SUBSET Entries]
            /\ meta' \in [Ids -> Meta]
            /\ link' \in [Ids -> Inodes \cup {NoInode}]
            /\ life' \in [Ids -> {"unused", "live", "stray", "doomed"}]

\* A step of process p to r preserves the invariant if r fits the new disk
\* and the disk keeps what the other processes rely on.
LEMMA StepKeepsInv ==
  ASSUME SessionInv, NEW p \in Procs, NEW r \in Proc, Step(p, r),
         DiskType, Keeps, Fits(p, r)
  PROVE  SessionInv'
<1> USE DEF SessionInv
<1>1. TypeOK'
  BY StepType DEF TypeOK, DiskType
<1>2. /\ proc'[p] = r
      /\ \A q \in Procs \ {p} : proc'[q] = proc[q]
  BY DEF TypeOK, Step
<1>3. UnusedIsAbsent'
  BY DEF UnusedIsAbsent, Keeps
<1>4. ListedIsUsed'
  <2>1. \A i \in r.todo \cup r.found : life'[i] # "unused"
    BY DEF Fits
  <2>2. \A q \in Procs \ {p} : \A i \in proc[q].todo \cup proc[q].found :
          i \in Ids /\ life'[i] # "unused"
    BY DEF ListedIsUsed, Keeps, TypeOK, Proc
  <2> QED
    BY <1>2, <2>1, <2>2 DEF ListedIsUsed
<1>5. CurrentIsUsed'
  BY <1>2 DEF CurrentIsUsed, Fits, Keeps
<1>6. UnlinkIsDoomed' /\ StepOfCall'
  BY <1>2 DEF UnlinkIsDoomed, StepOfCall, CurrentIsUsed, Fits, Keeps
<1>7. OpenedIsLinked'
  <2>1. ASSUME NEW q \in Procs \ {p},
               proc[q].fd # NoInode, life'[proc[q].cur] # "doomed"
        PROVE  /\ "owner.lock" \in dir'[proc[q].cur]
               /\ link'[proc[q].cur] = proc[q].fd
    <3>1. proc[q].cur \in Ids /\ life[proc[q].cur] # "doomed"
      BY <2>1 DEF CurrentIsUsed, Keeps, DiskType, TypeOK
    <3> QED
      BY <2>1, <3>1 DEF OpenedIsLinked, Keeps
  <2> QED
    BY <1>2, <2>1 DEF OpenedIsLinked, Fits
<1>8. OneHolder'
  <2>1. ASSUME NEW q \in Procs, NEW o \in Procs, q # o, q # p,
               Holds(q)', Holds(o)',
               proc'[q].cur = proc'[o].cur, proc'[q].fd = proc'[o].fd
        PROVE  FALSE
    <3>1. proc'[q] = proc[q] /\ Holds(q)
      BY <1>2, <2>1 DEF Holds
    <3>2. CASE o = p
      BY <1>2, <2>1, <3>1, <3>2 DEF Fits, Has, Holds
    <3>3. CASE o # p
      BY <1>2, <2>1, <3>1, <3>3 DEF OneHolder, Holds
    <3> QED
      BY <3>2, <3>3
  <2> QED
    BY <2>1 DEF OneHolder, Holds
<1> QED
  BY <1>1, <1>3, <1>4, <1>5, <1>6, <1>7, <1>8

\* A step that leaves the disk alone keeps it.
LEMMA SameDisk ==
  ASSUME SessionInv, UNCHANGED <<clock, disk>>
  PROVE  DiskType /\ Keeps
BY DEF SessionInv, TypeOK, UnusedIsAbsent, disk, DiskType, Keeps

\* Neither does time, nor a step that changes nothing, disturb it.
LEMMA IdleStepKeepsInv ==
  ASSUME SessionInv, UNCHANGED proc, DiskType, Keeps
  PROVE  SessionInv'
<1> USE DEF SessionInv
<1>1. TypeOK' /\ UnusedIsAbsent'
  BY DEF TypeOK, UnusedIsAbsent, DiskType, Keeps
<1>2. ListedIsUsed'
  BY DEF ListedIsUsed, Keeps, TypeOK, Proc
<1>3. CurrentIsUsed' /\ UnlinkIsDoomed' /\ StepOfCall'
  BY DEF CurrentIsUsed, UnlinkIsDoomed, StepOfCall, Keeps
<1>4. OpenedIsLinked'
  <2>1. ASSUME NEW q \in Procs,
               proc[q].fd # NoInode, life'[proc[q].cur] # "doomed"
        PROVE  /\ "owner.lock" \in dir'[proc[q].cur]
               /\ link'[proc[q].cur] = proc[q].fd
    <3>1. proc[q].cur \in Ids /\ life[proc[q].cur] # "doomed"
      BY <2>1 DEF CurrentIsUsed, Keeps, DiskType, TypeOK
    <3> QED
      BY <2>1, <3>1 DEF OpenedIsLinked, Keeps
  <2> QED
    BY <2>1 DEF OpenedIsLinked
<1>5. OneHolder'
  BY DEF OneHolder, Holds
<1> QED
  BY <1>1, <1>2, <1>3, <1>4, <1>5

-----------------------------------------------------------------------------
(* Every action fits.  First the steps that leave the disk alone.            *)

\* A process that keeps its session and its lock file, or lets both go.
LEMMA LocalStepKeepsInv ==
  ASSUME SessionInv, NEW p \in Procs, NEW r \in Proc, Step(p, r),
         UNCHANGED <<clock, disk>>, Fits(p, r)
  PROVE  SessionInv'
BY SameDisk, StepKeepsInv

\* Idle and the next entry of a cleanup hold nothing.
LEMMA IdleFits ==
  ASSUME SessionInv, NEW p \in Procs, UNCHANGED <<clock, disk>>
  PROVE  /\ Fits(p, Idle)
         /\ NextEntry(p) \in Proc /\ Fits(p, NextEntry(p))
<1>1. /\ proc[p] \in Proc
      /\ \A i \in proc[p].todo : life'[i] # "unused"
  BY DEF SessionInv, TypeOK, ListedIsUsed, disk
<1>2. Fits(p, Idle)
  BY DEF Fits, Idle, StepsOf
<1>3. NextEntry(p) \in Proc
  <2>1. /\ proc[p].asof \in 0..MaxClock
        /\ proc[p].todo \ {proc[p].cur} \in SUBSET Ids
    BY <1>1 DEF Proc
  <2> QED
    BY <2>1, StepNames, IdleType DEF NextEntry, Proc
<1>4. Fits(p, NextEntry(p))
  BY <1>1 DEF Fits, NextEntry, Idle, StepsOf
<1> QED
  BY <1>2, <1>3, <1>4

\* Each process has its type.
LEMMA ProcType ==
  ASSUME SessionInv, NEW p \in Procs
  PROVE  /\ TypeOK /\ proc[p] \in Proc
         /\ proc[p].todo \subseteq Ids /\ proc[p].found \subseteq Ids
BY DEF SessionInv, TypeOK, Proc

\* What the invariant says of one process.
LEMMA ProcFacts ==
  ASSUME SessionInv, NEW p \in Procs
  PROVE  /\ TypeOK /\ proc[p] \in Proc
         /\ \A i \in proc[p].todo \cup proc[p].found :
              i \in Ids /\ life[i] # "unused"
         /\ IF proc[p].pc \in {"idle", "scan"} THEN proc[p].fd = NoInode
            ELSE proc[p].cur \in Ids /\ life[proc[p].cur] # "unused"
         /\ proc[p].op \in Ops /\ proc[p].pc \in StepsOf[proc[p].op]
         /\ proc[p].pc = "unlink" => life[proc[p].cur] = "doomed"
         /\ proc[p].fd # NoInode /\ life[proc[p].cur] # "doomed" =>
              /\ "owner.lock" \in dir[proc[p].cur]
              /\ link[proc[p].cur] = proc[p].fd
         /\ Holds(p) =>
              \A q \in Procs \ {p} :
                ~(Has(q, proc[p].cur) /\ proc[q].fd = proc[p].fd)
BY DEF SessionInv, TypeOK, ListedIsUsed, CurrentIsUsed, StepOfCall,
       UnlinkIsDoomed, OpenedIsLinked, OneHolder, Has, Proc

LEMMA AcquireKeepsInv ==
  ASSUME SessionInv, NEW p \in Procs, Acquire(p)
  PROVE  SessionInv'
<1>0. /\ TypeOK /\ proc[p] \in Proc
      /\ \A i \in proc[p].todo \cup proc[p].found :
           i \in Ids /\ life[i] # "unused"
      /\ \/ proc[p].pc \in {"idle", "scan"}
         \/ proc[p].cur \in Ids /\ life[proc[p].cur] # "unused"
      /\ proc[p].fd # NoInode /\ life[proc[p].cur] # "doomed" =>
           /\ "owner.lock" \in dir[proc[p].cur]
           /\ link[proc[p].cur] = proc[p].fd
  BY ProcFacts
<1>a. proc[p].op \in Ops /\ proc[p].pc \in StepsOf[proc[p].op]
  BY ProcFacts
<1>1. CASE OpenLockFile(p)
  <2> DEFINE i == proc[p].cur
  <2>1. i \in Ids /\ life[i] # "unused"
    BY <1>1 DEF OpenLockFile, SessionInv, CurrentIsUsed
  <2>2. CASE /\ "owner.lock" \in dir[i]
             /\ Step(p, [proc[p] EXCEPT !.fd = link[i]])
             /\ UNCHANGED <<dir, link>>
    <3> DEFINE r == [proc[p] EXCEPT !.fd = link[i]]
    <3>1. r \in Proc
      BY <1>0, <2>1 DEF TypeOK, Proc
    <3>2. UNCHANGED <<clock, disk>>
      BY <1>1, <2>2 DEF OpenLockFile, disk
    <3>3. Fits(p, r)
      BY <1>0, <1>a, <1>1, <2>1, <2>2, <3>2
         DEF Fits, OpenLockFile, Proc, Ops, StepsOf, disk
    <3> QED
      BY <2>2, <3>1, <3>2, <3>3, LocalStepKeepsInv
  <2>3. CASE /\ "owner.lock" \notin dir[i]
             /\ \E n \in Inodes :
                  /\ ~Referenced(i, n)
                  /\ Step(p, [proc[p] EXCEPT !.fd = n])
                  /\ link' = [link EXCEPT ![i] = n]
             /\ Add(i, "owner.lock")
    <3>1. PICK n \in Inodes :
            /\ Step(p, [proc[p] EXCEPT !.fd = n])
            /\ link' = [link EXCEPT ![i] = n]
      BY <2>3
    <3> DEFINE r == [proc[p] EXCEPT !.fd = n]
    <3>2. r \in Proc
      BY <1>0 DEF Proc
    <3>3. DiskType
      BY <1>0, <1>1, <2>1, <2>3, <3>1
         DEF OpenLockFile, TypeOK, DiskType, Add, Entries
    <3>4. Keeps
      BY <1>0, <1>1, <2>1, <2>3, <3>1
         DEF OpenLockFile, TypeOK, Keeps, Add, SessionInv, UnusedIsAbsent
    <3>5. Fits(p, r)
      BY <1>0, <1>a, <1>1, <2>1, <2>3, <3>1
         DEF Fits, OpenLockFile, TypeOK, Proc, Ops, StepsOf, Add
    <3> QED
      BY <3>1, <3>2, <3>3, <3>4, <3>5, StepKeepsInv
  <2> QED
    BY <1>1, <2>2, <2>3 DEF OpenLockFile
<1>2. CASE OpenLockFails(p)
  <2>1. CASE proc[p].op # "create"
    BY <1>2, <2>1, IdleFits, IdleType, LocalStepKeepsInv DEF OpenLockFails
  <2>2. CASE proc[p].op = "create"
    <3> DEFINE r == [proc[p] EXCEPT !.pc = "remove"]
    <3>1. r \in Proc
      BY <1>0 DEF Proc, Steps
    <3>2. Fits(p, r)
      BY <1>0, <1>2, <2>2 DEF OpenLockFails, Fits, Proc, StepsOf, disk
    <3> QED
      BY <1>2, <2>2, <3>1, <3>2, LocalStepKeepsInv DEF OpenLockFails, Goto
  <2> QED
    BY <2>1, <2>2
<1>3. CASE TryLock(p)
  <2> DEFINE s == AfterLock[proc[p].op]
             r == [proc[p] EXCEPT !.pc = s]
  <2>1. s \in StepsOf[proc[p].op] /\ s \in {"meta", "reread", "remove"}
    BY <1>a, <1>3 DEF TryLock, AfterLock, Ops, StepsOf
  <2>2. r \in Proc
    BY <1>0, <2>1 DEF Proc, Steps
  <2>3. Fits(p, r)
    BY <1>0, <1>3, <2>1 DEF TryLock, Fits, Proc, Locked, disk
  <2> QED
    BY <1>3, <2>2, <2>3, LocalStepKeepsInv DEF TryLock, Goto
<1>4. CASE LockBusy(p)
  <2>1. CASE proc[p].op = "create"
    <3> DEFINE r == [proc[p] EXCEPT !.pc = "remove", !.fd = NoInode]
    <3>1. r \in Proc
      BY <1>0 DEF Proc, Steps
    <3>2. Fits(p, r)
      BY <1>0, <1>4, <2>1 DEF LockBusy, Fits, Proc, StepsOf, disk
    <3> QED
      BY <1>4, <2>1, <3>1, <3>2, LocalStepKeepsInv DEF LockBusy
  <2> QED
    BY <1>4, <2>1, IdleFits, IdleType, LocalStepKeepsInv DEF LockBusy
<1> QED
  BY <1>1, <1>2, <1>3, <1>4 DEF Acquire

LEMMA CreateKeepsInv ==
  ASSUME SessionInv, NEW p \in Procs, Create(p)
  PROVE  SessionInv'
<1> DEFINE i == proc[p].cur
           m == [proc[p].mem EXCEPT !.updated = clock]
<1>1. ASSUME NEW f \in Entries, NEW next \in Steps, NEW r \in Proc,
             i \in Ids, life[i] # "unused", proc[p].op = "create",
             next \in {"summary", "events", "snapshot"},
             \/ r = [proc[p] EXCEPT !.pc = next]
             \/ r = [proc[p] EXCEPT !.pc = next, !.mem = m],
             proc[p].pc # "lock",
             Step(p, r), Add(i, f), meta' \in [Ids -> Meta],
             UNCHANGED <<clock, link, life>>
      PROVE  SessionInv'
  <2>1. DiskType
    BY <1>1, ProcFacts DEF DiskType, TypeOK, Add
  <2>2. Keeps
    BY <1>1, ProcFacts DEF Keeps, TypeOK, Add, SessionInv, UnusedIsAbsent
  <2>3. Fits(p, r)
    <3>1. r.pc = next /\ r.op = "create" /\ r.cur = i /\ r.fd = proc[p].fd
          /\ r.todo = proc[p].todo /\ r.found = proc[p].found
      BY <1>1, ProcType DEF Proc
    <3>2. r.pc \in StepsOf[r.op]
      BY <1>1, <3>1 DEF StepsOf
    <3> QED
      BY <1>1, <3>1, <3>2, ProcFacts DEF Fits, TypeOK, Add, Holds
  <2> QED
    BY <1>1, <2>1, <2>2, <2>3, StepKeepsInv
<1>2. ASSUME proc[p].pc \in {"meta", "summary", "events", "snapshot"}
      PROVE  i \in Ids /\ life[i] # "unused" /\ proc[p].op = "create"
  BY <1>2, ProcFacts DEF StepsOf, Ops
<1>3. CASE CreateMeta(p)
  <2> DEFINE r == [proc[p] EXCEPT !.pc = "summary", !.mem = m]
  <2>1. m \in Meta /\ r \in Proc
    <3>1. clock \in 0..MaxClock /\ proc[p].mem \in Meta /\ proc[p] \in Proc
      BY ProcFacts DEF TypeOK, Proc
    <3>2. m \in Meta
      BY <3>1 DEF Meta
    <3> QED
      BY <3>1, <3>2 DEF Proc, Steps
  <2>2. meta' \in [Ids -> Meta]
    BY <1>3, <2>1, ProcFacts DEF CreateMeta, TypeOK
  <2> QED
    BY <1>1, <1>2, <1>3, <2>1, <2>2 DEF CreateMeta, Entries, Steps
<1>4. ASSUME NEW f \in Entries, NEW pc \in {"summary", "events"},
             NEW next \in {"events", "snapshot"}, CreateFile(p, f, pc, next)
      PROVE  SessionInv'
  <2> DEFINE r == [proc[p] EXCEPT !.pc = next]
  <2>1. r \in Proc /\ next \in Steps
    <3>1. proc[p] \in Proc
      BY ProcType
    <3>2. next \in Steps
      BY StepNames
    <3> QED
      BY <3>1, <3>2 DEF Proc
  <2>2. meta' \in [Ids -> Meta] /\ proc[p].pc # "lock"
    BY <1>4, ProcFacts DEF CreateFile, TypeOK
  <2>3. /\ i \in Ids /\ life[i] # "unused" /\ proc[p].op = "create"
        /\ next \in {"summary", "events", "snapshot"}
        /\ Step(p, r) /\ Add(i, f) /\ UNCHANGED <<clock, link, life>>
    BY <1>2, <1>4 DEF CreateFile, Goto
  <2> QED
    BY <1>1, <2>1, <2>2, <2>3
<1>5. CASE CreateReturn(p)
  <2> DEFINE r == [proc[p] EXCEPT !.op = "use", !.pc = "ready"]
  <2>1. r \in Proc
    <3>1. "use" \in Ops /\ "ready" \in Steps
      BY DEF Ops, Steps
    <3> QED
      BY <3>1, ProcType DEF Proc
  <2>2. Fits(p, r)
    BY <1>2, <1>5, ProcFacts DEF CreateReturn, Fits, Proc, StepsOf, Holds, disk
  <2> QED
    BY <1>5, <2>1, <2>2, LocalStepKeepsInv DEF CreateReturn
<1>6. CASE CreateFails(p)
  <2> DEFINE r == [proc[p] EXCEPT !.pc = "remove", !.fd = NoInode]
  <2>1. r \in Proc
    <3>1. proc[p] \in Proc
      BY ProcType
    <3> QED
      BY <3>1, StepNames DEF Proc
  <2>2. Fits(p, r)
    BY <1>2, <1>6, ProcFacts DEF CreateFails, Fits, Proc, StepsOf, disk
  <2> QED
    BY <1>6, <2>1, <2>2, LocalStepKeepsInv DEF CreateFails
<1> QED
  BY <1>3, <1>4, <1>5, <1>6
     DEF Create, CreateSummary, CreateEvents, Entries

LEMMA ResumeKeepsInv ==
  ASSUME SessionInv, NEW p \in Procs, Resume(p)
  PROVE  SessionInv'
<1> DEFINE i == proc[p].cur
<1>1. CASE ResumeEntry(p)
  <2>1. PICK j \in Ids :
          /\ First(j, proc[p].todo)
          /\ LET match == IF Match(j, proc[p].ask) THEN {j} ELSE {} IN
             Step(p, [proc[p] EXCEPT !.todo = @ \ {j}, !.found = @ \cup match])
    BY <1>1 DEF ResumeEntry
  <2> DEFINE match == IF Match(j, proc[p].ask) THEN {j} ELSE {}
             r == [proc[p] EXCEPT !.todo = @ \ {j}, !.found = @ \cup match]
  <2>2. r \in Proc
    BY ProcType DEF Proc
  <2>3. j \in proc[p].todo /\ match \subseteq {j}
    BY <2>1 DEF First
  <2>4. Fits(p, r)
    <3>1. /\ r.pc = proc[p].pc /\ r.op = proc[p].op /\ r.cur = i
          /\ r.fd = proc[p].fd /\ r.todo \subseteq proc[p].todo
          /\ r.found \subseteq proc[p].found \cup {j}
      BY <2>3, ProcType DEF Proc
    <3> HIDE DEF r
    <3> QED
      BY <1>1, <2>3, <3>1, ProcFacts DEF Fits, ResumeEntry, StepsOf, disk
  <2> QED
    BY <1>1, <2>1, <2>2, <2>4, LocalStepKeepsInv DEF ResumeEntry
<1>2. CASE ResumeChoose(p)
  <2>1. CASE Step(p, Idle)
    BY <1>2, <2>1, IdleFits, IdleType, LocalStepKeepsInv DEF ResumeChoose
  <2>2. CASE \E j \in proc[p].found :
               Step(p, [proc[p] EXCEPT !.pc = "lock", !.cur = j])
    <3>1. PICK j \in proc[p].found :
            Step(p, [proc[p] EXCEPT !.pc = "lock", !.cur = j])
      BY <2>2
    <3> DEFINE r == [proc[p] EXCEPT !.pc = "lock", !.cur = j]
    <3>2. j \in Ids /\ life[j] # "unused" /\ proc[p].fd = NoInode
      BY <1>2, ProcFacts DEF ResumeChoose, StepsOf
    <3>3. r \in Proc
      <4>1. "lock" \in Steps /\ proc[p] \in Proc
        BY ProcType DEF Steps
      <4> QED
        BY <3>2, <4>1 DEF Proc
    <3>4. Fits(p, r)
      <4>1. /\ r.pc = "lock" /\ r.op = "resume" /\ r.cur = j
            /\ r.fd = NoInode /\ r.todo = {} /\ r.found = proc[p].found
        BY <1>2, <3>2, ProcType DEF ResumeChoose, Proc
      <4>2. UNCHANGED life
        BY <1>2 DEF ResumeChoose, disk
      <4> HIDE DEF r
      <4> QED
        BY <3>2, <4>1, <4>2, ProcFacts DEF Fits, StepsOf
    <3> QED
      BY <1>2, <3>1, <3>3, <3>4, LocalStepKeepsInv DEF ResumeChoose
  <2> QED
    BY <1>2, <2>1, <2>2 DEF ResumeChoose
<1>3. CASE Reread(p)
  <2>1. CASE HasMeta(i)
    <3> DEFINE r == [proc[p] EXCEPT !.pc = "check", !.mem = meta[i]]
    <3>1. i \in Ids /\ proc[p].op = "resume"
      BY <1>3, ProcFacts DEF Reread, StepsOf, Ops
    <3>2. r \in Proc
      <4>1. "check" \in Steps /\ meta[i] \in Meta /\ proc[p] \in Proc
        BY <3>1, ProcType DEF TypeOK, Steps
      <4> QED
        BY <4>1 DEF Proc
    <3>3. Fits(p, r)
      BY <1>3, <3>1, ProcFacts DEF Fits, Reread, Proc, StepsOf, Holds, disk
    <3> QED
      BY <1>3, <2>1, <3>2, <3>3, LocalStepKeepsInv DEF Reread
  <2> QED
    BY <1>3, <2>1, IdleFits, IdleType, LocalStepKeepsInv DEF Reread
<1>4. CASE Check(p)
  <2> DEFINE r == [Idle EXCEPT !.op = "use", !.pc = "ready", !.cur = i,
                               !.fd = proc[p].fd, !.mem = proc[p].mem]
  <2>1. CASE Step(p, r)
    <3>1. r \in Proc
      BY IdleType, ProcType DEF Proc, Ops, Steps
    <3>2. Fits(p, r)
      BY <1>4, ProcFacts DEF Fits, Check, Proc, Idle, StepsOf, Holds, disk
    <3> QED
      BY <1>4, <2>1, <3>1, <3>2, LocalStepKeepsInv DEF Check
  <2> QED
    BY <1>4, <2>1, IdleFits, IdleType, LocalStepKeepsInv DEF Check
<1> QED
  BY <1>1, <1>2, <1>3, <1>4 DEF Resume

LEMMA CleanupKeepsInv ==
  ASSUME SessionInv, NEW p \in Procs, CleanupExpired(p)
  PROVE  SessionInv'
<1>1. CASE CleanupEntry(p)
  <2>1. PICK j \in Ids :
          /\ First(j, proc[p].todo)
          /\ \/ Step(p, [proc[p] EXCEPT !.pc = "lock", !.cur = j])
             \/ Step(p, [proc[p] EXCEPT !.todo = @ \ {j}])
    BY <1>1 DEF CleanupEntry
  <2>2. life[j] # "unused" /\ proc[p].fd = NoInode
    BY <1>1, <2>1, ProcFacts DEF CleanupEntry, First, StepsOf
  <2>3. CASE Step(p, [proc[p] EXCEPT !.pc = "lock", !.cur = j])
    <3> DEFINE r == [proc[p] EXCEPT !.pc = "lock", !.cur = j]
    <3>1. r \in Proc
      <4>1. "lock" \in Steps /\ proc[p] \in Proc
        BY ProcType DEF Steps
      <4> QED
        BY <2>1, <4>1 DEF Proc
    <3>2. Fits(p, r)
      BY <1>1, <2>2, ProcFacts DEF Fits, CleanupEntry, Proc, StepsOf, disk
    <3> QED
      BY <1>1, <2>3, <3>1, <3>2, LocalStepKeepsInv DEF CleanupEntry
  <2>4. CASE Step(p, [proc[p] EXCEPT !.todo = @ \ {j}])
    <3> DEFINE r == [proc[p] EXCEPT !.todo = @ \ {j}]
    <3>1. r \in Proc
      BY ProcType DEF Proc
    <3>2. Fits(p, r)
      BY <1>1, <2>2, ProcFacts DEF Fits, CleanupEntry, Proc, StepsOf, disk
    <3> QED
      BY <1>1, <2>4, <3>1, <3>2, LocalStepKeepsInv DEF CleanupEntry
  <2> QED
    BY <2>1, <2>3, <2>4
<1>2. CASE CleanupEnd(p)
  BY <1>2, IdleFits, IdleType, LocalStepKeepsInv DEF CleanupEnd
<1> QED
  BY <1>1, <1>2 DEF CleanupExpired

LEMMA RemoveAllKeepsInv ==
  ASSUME SessionInv, NEW p \in Procs, RemoveAll(p)
  PROVE  SessionInv'
<1> DEFINE i == proc[p].cur
<1>0. ASSUME proc[p].pc \in {"remove", "unlink"}
      PROVE  /\ i \in Ids /\ life[i] # "unused"
             /\ proc[p].op \in {"create", "cleanup", "use"}
  BY <1>0, ProcFacts DEF StepsOf, Ops
<1>1. CASE RemoveList(p)
  <2> DEFINE r == [proc[p] EXCEPT !.pc = "unlink", !.names = dir[i] \ {"."}]
  <2>1. r \in Proc
    <3>1. "unlink" \in Steps /\ proc[p] \in Proc /\ dir[i] \subseteq Entries
      BY <1>0, <1>1, ProcType DEF RemoveList, TypeOK, Steps
    <3> QED
      BY <3>1 DEF Proc
  <2>2. DiskType
    BY <1>0, <1>1, ProcType DEF RemoveList, TypeOK, DiskType
  <2>3. Keeps
    BY <1>0, <1>1, ProcType
       DEF RemoveList, TypeOK, Keeps, SessionInv, UnusedIsAbsent
  <2>4. Fits(p, r)
    <3>1. /\ r.pc = "unlink" /\ r.op = proc[p].op /\ r.cur = i
          /\ r.fd = proc[p].fd /\ r.todo = proc[p].todo
          /\ r.found = proc[p].found
      BY ProcType DEF Proc
    <3>2. life' = [life EXCEPT ![i] = "doomed"] /\ proc[p].pc = "remove"
          /\ life \in [Ids -> {"unused", "live", "stray", "doomed"}]
      BY <1>1, ProcType DEF RemoveList, TypeOK
    <3> HIDE DEF r
    <3> QED
      BY <1>0, <3>1, <3>2, ProcFacts DEF Fits, StepsOf, Holds
  <2> QED
    BY <1>1, <2>1, <2>2, <2>3, <2>4, StepKeepsInv DEF RemoveList
<1>2. ASSUME NEW f \in Entries, Unlink(p, f)
      PROVE  SessionInv'
  <2> DEFINE r == [proc[p] EXCEPT !.names = @ \ {f}]
  <2>1. r \in Proc
    BY ProcType DEF Proc
  <2>2. life[i] = "doomed" /\ i \in Ids
    BY <1>0, <1>2, ProcFacts DEF Unlink
  <2>3. DiskType
    BY <1>2, <2>2, IdleType, ProcType DEF Unlink, TypeOK, DiskType
  <2>4. Keeps
    BY <1>2, <2>2, ProcType
       DEF Unlink, TypeOK, Keeps, SessionInv, UnusedIsAbsent
  <2>5. Fits(p, r)
    <3>1. /\ r.pc = "unlink" /\ r.op = proc[p].op /\ r.cur = i
          /\ r.fd = proc[p].fd /\ r.todo = proc[p].todo
          /\ r.found = proc[p].found
      BY <1>2, ProcType DEF Unlink, Proc
    <3> HIDE DEF r
    <3> QED
      BY <1>0, <1>2, <2>2, <3>1, ProcFacts DEF Fits, Unlink, StepsOf, Holds
  <2> QED
    BY <1>2, <2>1, <2>3, <2>4, <2>5, StepKeepsInv DEF Unlink
<1>3. ASSUME NEW f \in Entries, UnlinkFails(p, f)
      PROVE  SessionInv'
  <2> DEFINE r == [proc[p] EXCEPT !.names = @ \ {f}]
  <2>1. r \in Proc
    BY ProcType DEF Proc
  <2>2. Fits(p, r)
    <3>1. /\ r.pc = "unlink" /\ r.op = proc[p].op /\ r.cur = i
          /\ r.fd = proc[p].fd /\ r.todo = proc[p].todo
          /\ r.found = proc[p].found
      BY <1>3, ProcType DEF UnlinkFails, Proc
    <3> HIDE DEF r
    <3> QED
      BY <1>0, <1>3, <3>1, ProcFacts
         DEF Fits, UnlinkFails, StepsOf, Holds, disk
  <2> QED
    BY <1>3, <2>1, <2>2, LocalStepKeepsInv DEF UnlinkFails
<1>4. CASE Rmdir(p)
  <2>0. /\ life[i] = "doomed" /\ i \in Ids
        /\ proc[p].op \in {"create", "cleanup", "use"}
    BY <1>0, <1>4, ProcFacts DEF Rmdir
  <2>1. DiskType
    BY <1>4, <2>0, ProcType DEF Rmdir, TypeOK, DiskType
  <2>2. Keeps
    BY <1>4, <2>0, ProcType
       DEF Rmdir, TypeOK, Keeps, SessionInv, UnusedIsAbsent
  <2>3. CASE proc[p].op = "create"
    <3>1. Fits(p, Idle)
      BY DEF Fits, Idle, StepsOf
    <3> QED
      BY <1>4, <2>1, <2>2, <2>3, <3>1, IdleType, StepKeepsInv DEF Rmdir
  <2>4. CASE proc[p].op # "create"
    <3> DEFINE r == [proc[p] EXCEPT !.pc = "unlock"]
    <3>1. r \in Proc
      BY ProcType DEF Proc, Steps
    <3>2. Fits(p, r)
      BY <1>4, <2>0, <2>4, ProcFacts DEF Fits, Rmdir, Proc, StepsOf, Holds
    <3> QED
      BY <1>4, <2>1, <2>2, <2>4, <3>1, <3>2, StepKeepsInv DEF Rmdir, Goto
  <2> QED
    BY <2>3, <2>4
<1>5. CASE RmdirFails(p)
  <2>1. CASE proc[p].op = "use"
    <3> DEFINE r == [proc[p] EXCEPT !.pc = "ready"]
    <3>1. r \in Proc
      BY ProcType DEF Proc, Steps
    <3>2. Fits(p, r)
      BY <1>0, <1>5, <2>1, ProcFacts
         DEF Fits, RmdirFails, Proc, StepsOf, Holds, disk
    <3> QED
      BY <1>5, <2>1, <3>1, <3>2, LocalStepKeepsInv DEF RmdirFails, Goto
  <2> QED
    BY <1>5, <2>1, IdleFits, IdleType, LocalStepKeepsInv DEF RmdirFails
<1> QED
  BY <1>1, <1>2, <1>3, <1>4, <1>5 DEF RemoveAll

LEMMA BeginKeepsInv ==
  ASSUME SessionInv, NEW p \in Procs, Begin(p)
  PROVE  SessionInv'
<1>0. \A i \in Ids : Exists(i) => life[i] # "unused"
  BY DEF SessionInv, UnusedIsAbsent, Exists
<1>1. ASSUME NEW i \in Ids, NEW n \in Names \cup {NoName}, CreateDir(p, i, n)
      PROVE  SessionInv'
  <2> DEFINE r == [Idle EXCEPT !.op = "create", !.pc = "lock", !.cur = i,
                               !.mem = [NoMeta EXCEPT !.name = n]]
  <2>1. r \in Proc
    <3>1. [NoMeta EXCEPT !.name = n] \in Meta
      BY IdleType DEF Meta
    <3> QED
      BY <3>1, IdleType DEF Proc, Ops, Steps
  <2>2. DiskType
    BY <1>1, ProcType DEF CreateDir, TypeOK, DiskType, Entries
  <2>3. Keeps
    BY <1>1, ProcType DEF CreateDir, TypeOK, Keeps, SessionInv, UnusedIsAbsent
  <2>4. Fits(p, r)
    BY <1>1, ProcType DEF CreateDir, TypeOK, Fits, Idle, StepsOf
  <2> QED
    BY <1>1, <2>1, <2>2, <2>3, <2>4, StepKeepsInv DEF CreateDir
<1>2. ASSUME NEW i \in Ids, ResumeById(p, i)
      PROVE  SessionInv'
  <2> DEFINE r == [Idle EXCEPT !.op = "resume", !.pc = "lock", !.cur = i]
  <2>1. r \in Proc
    BY IdleType DEF Proc, Ops, Steps
  <2>2. Fits(p, r)
    BY <1>2 DEF ResumeById, HasMeta, SessionInv, UnusedIsAbsent, Fits, Idle,
                StepsOf, disk
  <2> QED
    BY <1>2, <2>1, <2>2, LocalStepKeepsInv DEF ResumeById
<1>3. ASSUME NEW n \in Names, ResumeByName(p, n)
      PROVE  SessionInv'
  <2> DEFINE r == [Idle EXCEPT !.op = "resume", !.pc = "scan",
                               !.ask = n, !.todo = Listing]
  <2>1. r \in Proc
    BY IdleType DEF Proc, Ops, Steps, Listing
  <2>2. Fits(p, r)
    BY <1>0, <1>3 DEF ResumeByName, Listing, Fits, Idle, StepsOf, disk
  <2> QED
    BY <1>3, <2>1, <2>2, LocalStepKeepsInv DEF ResumeByName
<1>4. CASE CleanupStart(p)
  <2> DEFINE r == [Idle EXCEPT !.op = "cleanup", !.pc = "scan",
                               !.asof = clock, !.todo = Listing]
  <2>1. r \in Proc
    BY IdleType, ProcType DEF TypeOK, Proc, Ops, Steps, Listing
  <2>2. Fits(p, r)
    BY <1>0, <1>4 DEF CleanupStart, Listing, Fits, Idle, StepsOf, disk
  <2> QED
    BY <1>4, <2>1, <2>2, LocalStepKeepsInv DEF CleanupStart
<1> QED
  BY <1>1, <1>2, <1>3, <1>4 DEF Begin

\* A ready process has a session open; whatever it does to the files of its
\* session, the lock file stays.
LEMMA UseKeepsInv ==
  ASSUME SessionInv, NEW p \in Procs, Use(p)
  PROVE  SessionInv'
<1> DEFINE i == proc[p].cur
<1>1. /\ TypeOK /\ proc[p] \in Proc
      /\ proc[p].mem \in Meta /\ clock \in 0..MaxClock
  BY ProcType DEF TypeOK, Proc
<1>2. ASSUME proc[p].pc = "ready"
      PROVE  i \in Ids /\ life[i] # "unused" /\ proc[p].op = "use"
  BY <1>2, ProcFacts DEF StepsOf, Ops
<1>3. ASSUME NEW r \in Proc, NEW pc \in {"ready", "remove", "unlock"},
             NEW D \in SUBSET Entries, dir[i] \ Saved \subseteq D,
             proc[p].pc = "ready", Step(p, r),
             /\ r.pc = pc /\ r.op = "use" /\ r.cur = i /\ r.fd = proc[p].fd
             /\ r.todo = proc[p].todo /\ r.found = proc[p].found,
             dir' = [dir EXCEPT ![i] = D], meta' \in [Ids -> Meta],
             UNCHANGED <<clock, link, life>>
      PROVE  SessionInv'
  <2>0. "owner.lock" \in dir[i] => "owner.lock" \in D
    BY <1>3 DEF Saved
  <2>1. DiskType
    BY <1>1, <1>2, <1>3 DEF TypeOK, DiskType
  <2>2. Keeps
    BY <1>1, <1>2, <1>3, <2>0 DEF TypeOK, Keeps, SessionInv, UnusedIsAbsent
  <2>3. Fits(p, r)
    BY <1>1, <1>2, <1>3, <2>0, ProcFacts DEF TypeOK, Fits, StepsOf, Holds
  <2> QED
    BY <1>3, <2>1, <2>2, <2>3, StepKeepsInv
<1>4. ASSUME NEW m \in Meta, NEW next \in {"ready", "remove", "unlock"},
             NEW files \in SUBSET Entries,
             proc[p].pc = "ready", Persisted(p, m, files, next)
      PROVE  SessionInv'
  <2> DEFINE r == [proc[p] EXCEPT !.mem = m, !.dirty = @ \ {"meta.json"},
                                  !.pc = next]
             D == dir[i] \cup files
  <2>1. r \in Proc
    BY <1>1 DEF Proc, Steps
  <2>2. /\ r.pc = next /\ r.op = "use" /\ r.cur = i /\ r.fd = proc[p].fd
        /\ r.todo = proc[p].todo /\ r.found = proc[p].found
    BY <1>1, <1>2, <1>4 DEF Proc
  <2>3. meta' \in [Ids -> Meta]
    BY <1>1, <1>2, <1>4 DEF Persisted, TypeOK
  <2>4. D \in SUBSET Entries /\ dir[i] \ Saved \subseteq D
    BY <1>1, <1>2, <1>4 DEF TypeOK
  <2>5. /\ Step(p, r) /\ dir' = [dir EXCEPT ![i] = D]
        /\ UNCHANGED <<clock, link, life>>
    BY <1>4 DEF Persisted
  <2> HIDE DEF r, D
  <2> QED
    BY <1>3, <1>4, <2>1, <2>2, <2>3, <2>4, <2>5
<1>5. ASSUME NEW m \in Meta, NEW files \in SUBSET Entries,
             proc[p].pc = "ready", NotPersisted(p, m, files)
      PROVE  SessionInv'
  <2> DEFINE r == [proc[p] EXCEPT !.mem = m, !.dirty = @ \cup {"meta.json"}]
  <2>1. r \in Proc
    BY <1>1 DEF Proc, Saved
  <2>2. /\ r.pc = "ready" /\ r.op = "use" /\ r.cur = i /\ r.fd = proc[p].fd
        /\ r.todo = proc[p].todo /\ r.found = proc[p].found
    BY <1>1, <1>2, <1>5 DEF Proc
  <2>3. PICK lost \in {{}, {"meta.json"}} :
          /\ dir' = [dir EXCEPT ![i] = (@ \cup files) \ lost]
          /\ meta' = IF lost = {} THEN meta ELSE [meta EXCEPT ![i] = NoMeta]
    BY <1>5 DEF NotPersisted
  <2> DEFINE D == (dir[i] \cup files) \ lost
  <2>4. D \in SUBSET Entries /\ dir[i] \ Saved \subseteq D
    BY <1>1, <1>2, <1>5 DEF TypeOK, Saved
  <2>5. meta' \in [Ids -> Meta]
    BY <1>1, <1>2, <1>5, <2>3, IdleType DEF TypeOK
  <2>6. /\ Step(p, r) /\ dir' = [dir EXCEPT ![i] = D]
        /\ UNCHANGED <<clock, link, life>>
    BY <1>5, <2>3 DEF NotPersisted
  <2> HIDE DEF r, D
  <2> QED
    BY <1>3, <1>5, <2>1, <2>2, <2>4, <2>5, <2>6
<1>6. ASSUME NEW dirty \in SUBSET Saved, NEW D \in SUBSET Entries,
             dir[i] \ Saved \subseteq D, proc[p].pc = "ready",
             Step(p, [proc[p] EXCEPT !.dirty = dirty]),
             dir' = [dir EXCEPT ![i] = D], UNCHANGED <<clock, meta, link, life>>
      PROVE  SessionInv'
  <2> DEFINE r == [proc[p] EXCEPT !.dirty = dirty]
  <2>1. r \in Proc /\ meta' \in [Ids -> Meta]
    BY <1>1, <1>6 DEF Proc, TypeOK
  <2>2. /\ r.pc = "ready" /\ r.op = "use" /\ r.cur = i /\ r.fd = proc[p].fd
        /\ r.todo = proc[p].todo /\ r.found = proc[p].found
    BY <1>1, <1>2, <1>6 DEF Proc
  <2>3. Step(p, r) /\ UNCHANGED <<clock, link, life>>
    BY <1>6
  <2> HIDE DEF r
  <2> QED
    BY <1>3, <1>6, <2>1, <2>2, <2>3
<1>7. ASSUME NEW m \in Meta, proc[p].pc = "ready", Persist(p, m)
      PROVE  SessionInv'
  <2>1. {"meta.json"} \in SUBSET Entries /\ {} \in SUBSET Entries
    BY DEF Entries
  <2> QED
    BY <1>4, <1>5, <1>7, <2>1 DEF Persist
<1>8. ASSUME NEW n \in Names \cup {NoName}, SetName(p, n)
      PROVE  SessionInv'
  <2>1. [proc[p].mem EXCEPT !.name = n, !.updated = clock] \in Meta
    BY <1>1 DEF Meta
  <2> QED
    BY <1>7, <1>8, <2>1 DEF SetName
<1>9. ASSUME NEW n \in Names \cup {NoName}, NEW s \in Statuses,
             SaveMeta(p, n, s)
      PROVE  SessionInv'
  <2>1. [name |-> n, updated |-> clock, status |-> s] \in Meta
    BY <1>1 DEF Meta
  <2> QED
    BY <1>7, <1>9, <2>1 DEF SaveMeta
<1>10. CASE SaveSummary(p) \/ SummaryLost(p)
  <2>1. /\ dir[i] \cup {"summary.json"} \in SUBSET Entries
        /\ dir[i] \ {"summary.json"} \in SUBSET Entries
        /\ dir[i] \ Saved \subseteq dir[i] \ {"summary.json"}
        /\ proc[p].dirty \ {"summary.json"} \in SUBSET Saved
        /\ proc[p].dirty \cup {"summary.json"} \in SUBSET Saved
    BY <1>1, <1>2, <1>10
       DEF SaveSummary, SummaryLost, TypeOK, Proc, Entries, Saved
  <2>2. /\ SaveSummary(p) =>
             Step(p, [proc[p] EXCEPT !.dirty = proc[p].dirty \ {"summary.json"}])
        /\ SummaryLost(p) =>
             Step(p, [proc[p] EXCEPT !.dirty = proc[p].dirty \cup {"summary.json"}])
    BY DEF SaveSummary, SummaryLost
  <2>3. CASE SaveSummary(p)
    BY <1>6, <2>1, <2>2, <2>3 DEF SaveSummary, Add
  <2>4. CASE SummaryLost(p)
    BY <1>6, <2>1, <2>2, <2>4 DEF SummaryLost
  <2> QED
    BY <1>10, <2>3, <2>4
<1>11. CASE AppendEvent(p)
  <2> DEFINE m == [proc[p].mem EXCEPT !.updated = clock]
  <2>1. /\ m \in Meta /\ {"events.jsonl"} \in SUBSET Entries
        /\ {"events.jsonl", "meta.json"} \in SUBSET Entries
    BY <1>1 DEF Meta, Entries
  <2>2. /\ proc[p].pc = "ready"
        /\ \/ Persisted(p, m, {"events.jsonl", "meta.json"}, "ready")
           \/ NotPersisted(p, m, {"events.jsonl"})
    BY <1>11 DEF AppendEvent
  <2> HIDE DEF m
  <2> QED
    BY <1>4, <1>5, <2>1, <2>2
<1>12. ASSUME NEW s \in {"clean", "aborted"}, Close(p, s)
       PROVE  SessionInv'
  <2> DEFINE m == [proc[p].mem EXCEPT !.status = s, !.updated = clock]
             next == IF s = "clean" /\ m.name = NoName
                     THEN "remove" ELSE "unlock"
  <2>1. /\ m \in Meta /\ next \in {"ready", "remove", "unlock"}
        /\ {"meta.json"} \in SUBSET Entries /\ {} \in SUBSET Entries
    BY <1>1 DEF Meta, Statuses, Entries
  <2>2. /\ proc[p].pc = "ready"
        /\ Persisted(p, m, {"meta.json"}, next) \/ NotPersisted(p, m, {})
    BY <1>12 DEF Close
  <2> HIDE DEF m, next
  <2> QED
    BY <1>4, <1>5, <2>1, <2>2
<1> QED
  BY <1>8, <1>9, <1>10, <1>11, <1>12 DEF Use

-----------------------------------------------------------------------------
(* The theorems.                                                            *)

LEMMA NextKeepsInv ==
  ASSUME SessionInv, [Next]_vars
  PROVE  SessionInv'
<1>1. ASSUME NEW p \in Procs, Unlock(p)
      PROVE  SessionInv'
  BY <1>1, IdleFits, IdleType, LocalStepKeepsInv DEF Unlock
<1>2. ASSUME NEW p \in Procs, Crash(p)
      PROVE  SessionInv'
  BY <1>2, IdleFits, IdleType, LocalStepKeepsInv DEF Crash
<1>5. ASSUME NEW p \in Procs, UnlockFails(p)
      PROVE  SessionInv'
  <2> DEFINE i == proc[p].cur
             r == [proc[p] EXCEPT !.pc = "ready", !.fd = NoInode]
  <2>1. CASE proc[p].op = "cleanup"
    BY <1>5, <2>1, IdleFits, IdleType, LocalStepKeepsInv DEF UnlockFails, disk
  <2>2. CASE proc[p].op # "cleanup"
    <3>1. i \in Ids /\ life[i] # "unused" /\ proc[p].op = "use"
      BY <1>5, <2>2, ProcFacts DEF UnlockFails, StepsOf, Ops
    <3>2. /\ Step(p, r)
          /\ life' = [life EXCEPT ![i] = IF @ = "live" THEN "stray" ELSE @]
          /\ UNCHANGED <<clock, dir, meta, link>>
      BY <1>5, <2>2 DEF UnlockFails
    <3>3. r \in Proc
      <4>1. proc[p] \in Proc
        BY ProcType
      <4> QED
        BY <4>1, StepNames DEF Proc
    <3>4. DiskType
      BY <3>1, <3>2, ProcType DEF TypeOK, DiskType
    <3>5. Keeps
      BY <3>1, <3>2, ProcType DEF TypeOK, Keeps, SessionInv, UnusedIsAbsent
    <3>6. Fits(p, r)
      <4>1. /\ r.pc = "ready" /\ r.op = "use" /\ r.cur = i /\ r.fd = NoInode
            /\ r.todo = proc[p].todo /\ r.found = proc[p].found
        BY <3>1, ProcType DEF Proc
      <4>2. life'[i] # "unused"
        BY <3>1, <3>2, ProcType DEF TypeOK
      <4>3. \A j \in r.todo \cup r.found : life'[j] # "unused"
        BY <3>1, <3>2, <4>1, ProcFacts DEF TypeOK
      <4> HIDE DEF r
      <4> QED
        BY <3>1, <4>1, <4>2, <4>3 DEF Fits, StepsOf
    <3> QED
      BY <3>2, <3>3, <3>4, <3>5, <3>6, StepKeepsInv
  <2> QED
    BY <2>1, <2>2
<1>3. CASE Tick
  <2>1. clock' \in 0..MaxClock
    BY <1>3, TimeAssumption DEF Tick, SessionInv, TypeOK
  <2>2. DiskType /\ Keeps
    BY <1>3, <2>1 DEF Tick, disk, SessionInv, TypeOK, UnusedIsAbsent,
                      DiskType, Keeps
  <2> QED
    BY <1>3, <2>2, IdleStepKeepsInv DEF Tick
<1>4. CASE UNCHANGED vars
  BY <1>4, SameDisk, IdleStepKeepsInv DEF vars, disk
<1> QED
  BY <1>1, <1>2, <1>3, <1>4, <1>5, BeginKeepsInv, UseKeepsInv, AcquireKeepsInv,
     CreateKeepsInv, ResumeKeepsInv, CleanupKeepsInv, RemoveAllKeepsInv
     DEF Next, Progress

\* SessionInv is an invariant of the session store.
THEOREM SessionInvariant == Spec => []SessionInv
<1>1. Init => SessionInv
  BY TypeInit
<1>2. SessionInv /\ [Next]_vars => SessionInv'
  BY NextKeepsInv
<1> QED
  BY <1>1, <1>2, PTL DEF Spec

\* The variables keep their types in every execution.
THEOREM SessionTypeOK == Spec => []TypeOK
<1>1. SessionInv => TypeOK
  BY DEF SessionInv
<1> QED
  BY <1>1, SessionInvariant, PTL

\* Mutual exclusion (store.go:102,193,239): however many processes open,
\* crash and expire sessions, two of them have the lock of one session only
\* after a RemoveAll of it has begun.  Both have the linked lock file open,
\* so they have one file, and a file is locked by one process.
THEOREM SessionExclusive == Spec => []ExclusiveOwner
<1>1. SessionInv => ExclusiveOwner
  <2> SUFFICES ASSUME SessionInv, NEW p \in Procs, NEW q \in Procs,
                      NEW i \in Ids, p # q, Has(p, i), Has(q, i),
                      life[i] # "doomed"
               PROVE  FALSE
    BY DEF ExclusiveOwner
  <2>1. proc[p].fd = link[i] /\ proc[q].fd = link[i]
    BY DEF SessionInv, OpenedIsLinked, Has, Holds
  <2> QED
    BY <2>1 DEF SessionInv, OneHolder, Has
<1> QED
  BY <1>1, SessionInvariant, PTL

-----------------------------------------------------------------------------
(* What the owner of a session may rely on: a second inductive invariant,   *)
(* which stands on the first.                                               *)

\* What a process that has come so far has of its session: its lock, then
\* one file after the other, and the metadata it remembers.  Who has a session
\* open has its lock while the session is live.
OwnedLock(p) ==
  LET r == proc[p]  i == r.cur IN
  \/ r.pc \in {"meta", "summary", "events", "snapshot", "reread", "check"}
  \/ r.op = "cleanup" /\ r.pc \in {"remove", "unlink", "unlock"}
  \/ r.op = "use" /\ i \in Ids /\ life[i] = "live"
  => r.fd # NoInode
OwnedFiles(p) ==
  LET r == proc[p]  i == r.cur IN
  i \in Ids /\ life[i] = "live" =>
    /\ r.pc \in {"summary", "events", "snapshot", "check"} =>
         "meta.json" \in dir[i] /\ meta[i] = r.mem
    /\ r.pc \in {"events", "snapshot"} => "summary.json" \in dir[i]
    /\ r.pc = "snapshot" => "events.jsonl" \in dir[i]
    /\ r.op = "use" => /\ dir[i] \cup r.dirty = Entries
                       /\ "meta.json" \notin r.dirty => meta[i] = r.mem
    /\ r.op = "use" /\ r.pc = "remove" =>
         "meta.json" \notin r.dirty /\ r.mem.name = NoName /\ r.mem.status = "clean"

Present == \A i \in Ids : life[i] = "live" => "." \in dir[i]

\* An identifier not yet taken has no metadata.
Blank == \A i \in Ids : life[i] = "unused" => meta[i] = NoMeta

\* A session is made by one process.
SoleMaker ==
  \A p, q \in Procs :
    proc[p].op = "create" /\ proc[q].op = "create" /\ proc[p].cur = proc[q].cur
    => p = q

OwnerInv == /\ Present /\ Blank /\ SoleMaker
            /\ \A p \in Procs : OwnedLock(p) /\ OwnedFiles(p)

\* Whoever takes something away from a session, or changes its metadata, has
\* its lock, or has closed it without success.
Writes(p) ==
  \A i \in Ids :
    life[i] # "doomed" /\ life'[i] # "doomed" =>
      \/ meta'[i] = meta[i] /\ dir[i] \subseteq dir'[i]
      \/ Has(p, i)
      \/ life[i] = "stray" /\ Open(p, i)

\* What a step of p does to the sessions.
DiskRule(p) ==
  /\ Writes(p) /\ Present'
  /\ \A i \in Ids : life'[i] = "live" => life[i] \in {"unused", "live"}
  /\ \A i \in Ids : life'[i] = "unused" =>
                     life[i] = "unused" /\ meta'[i] = meta[i]

\* Two processes never have the lock of a live session.
LEMMA OneOwner ==
  ASSUME SessionInv, NEW p \in Procs, NEW q \in Procs, NEW i \in Ids,
         Has(p, i), Has(q, i), life[i] = "live"
  PROVE  p = q
<1>1. proc[p].fd = link[i] /\ proc[q].fd = link[i]
  BY DEF SessionInv, OpenedIsLinked, Has, Holds
<1> QED
  BY <1>1 DEF SessionInv, OneHolder, Has

\* A step of p, when the disk and what p has are in order.
LEMMA OwnerStep ==
  ASSUME SessionInv, OwnerInv, SessionInv', NEW p \in Procs, NEW r \in Proc,
         Step(p, r), DiskRule(p), (OwnedLock(p) /\ OwnedFiles(p))',
         r.op = "create" => \/ proc[p].op = "create" /\ proc[p].cur = r.cur
                            \/ r.cur \in Ids /\ life[r.cur] = "unused"
  PROVE  OwnerInv'
<1>1. /\ proc'[p] = r
      /\ \A q \in Procs \ {p} : proc'[q] = proc[q]
  BY DEF SessionInv, TypeOK, Step
<1>2. ASSUME NEW q \in Procs \ {p}
      PROVE  (OwnedLock(q) /\ OwnedFiles(q))'
  <2> DEFINE i == proc[q].cur
  <2>1. /\ OwnedLock(q) /\ OwnedFiles(q) /\ proc'[q] = proc[q]
        /\ proc[q].pc \in StepsOf[proc[q].op] /\ proc[q].op \in Ops
    BY <1>1, ProcFacts DEF OwnerInv
  <2>2. OwnedLock(q)'
    <3>1. i \in Ids /\ life'[i] = "live" /\ proc[q].op = "use" => life[i] = "live"
      BY <2>1, ProcFacts DEF DiskRule, StepsOf
    <3> QED
      BY <2>1, <3>1 DEF OwnedLock
  <2>3. SUFFICES ASSUME i \in Ids, life'[i] = "live",
                        proc[q].pc \notin {"idle", "scan", "lock"},
                        proc[q].fd # NoInode
                 PROVE  OwnedFiles(q)'
    BY <2>1, <2>2 DEF OwnedFiles, OwnedLock, StepsOf, Ops
  <2>4. life[i] = "live" /\ Has(q, i)
    BY <2>3, ProcFacts DEF DiskRule, TypeOK, Has, Holds
  <2>5. ~Has(p, i)
    BY <2>3, <2>4, OneOwner
  <2>6. /\ meta'[i] = meta[i] /\ dir[i] \subseteq dir'[i]
        /\ dir'[i] \subseteq Entries
    BY <2>3, <2>4, <2>5 DEF DiskRule, Writes, SessionInv, TypeOK
  <2>7. /\ "meta.json" \in dir[i] => "meta.json" \in dir'[i]
        /\ "summary.json" \in dir[i] => "summary.json" \in dir'[i]
        /\ "events.jsonl" \in dir[i] => "events.jsonl" \in dir'[i]
        /\ dir[i] \cup proc[q].dirty = Entries =>
             dir'[i] \cup proc[q].dirty = Entries
    BY <2>6
  <2>8. LET r0 == proc[q] IN
          /\ r0.pc \in {"summary", "events", "snapshot", "check"} =>
               "meta.json" \in dir[i] /\ meta[i] = r0.mem
          /\ r0.pc \in {"events", "snapshot"} => "summary.json" \in dir[i]
          /\ r0.pc = "snapshot" => "events.jsonl" \in dir[i]
          /\ r0.op = "use" => /\ dir[i] \cup r0.dirty = Entries
                              /\ "meta.json" \notin r0.dirty => meta[i] = r0.mem
          /\ r0.op = "use" /\ r0.pc = "remove" =>
               /\ "meta.json" \notin r0.dirty
               /\ r0.mem.name = NoName /\ r0.mem.status = "clean"
    BY <2>1, <2>3, <2>4 DEF OwnedFiles
  <2> QED
    BY <2>1, <2>6, <2>7, <2>8 DEF OwnedFiles
<1>3. SoleMaker'
  <2>1. ASSUME NEW q \in Procs \ {p}, r.op = "create", proc[q].op = "create",
               r.cur = proc[q].cur
        PROVE  FALSE
    <3>1. proc[q].cur \in Ids /\ life[proc[q].cur] # "unused"
      BY <2>1, ProcFacts DEF StepsOf
    <3>2. proc[p].op = "create" /\ proc[p].cur = proc[q].cur
      BY <2>1, <3>1
    <3> QED
      BY <2>1, <3>2 DEF OwnerInv, SoleMaker
  <2> QED
    BY <1>1, <2>1 DEF OwnerInv, SoleMaker
<1>4. Present' /\ Blank'
  BY DEF DiskRule, OwnerInv, Blank
<1>5. \A q \in Procs : (OwnedLock(q) /\ OwnedFiles(q))'
  BY <1>2
<1> QED
  BY <1>3, <1>4, <1>5 DEF OwnerInv

\* A step that leaves the disk alone.
LEMMA QuietDisk ==
  ASSUME SessionInv, OwnerInv, NEW p \in Procs, UNCHANGED disk
  PROVE  DiskRule(p)
BY DEF disk, DiskRule, Writes, OwnerInv, Present

LEMMA QuietStep ==
  ASSUME SessionInv, OwnerInv, SessionInv', NEW p \in Procs, NEW r \in Proc,
         Step(p, r), UNCHANGED disk, (OwnedLock(p) /\ OwnedFiles(p))',
         r.op = "create" => proc[p].op = "create" /\ proc[p].cur = r.cur
  PROVE  OwnerInv' /\ DiskRule(p)
BY QuietDisk, OwnerStep

\* A process that is in no call, scans or has yet to lock claims nothing, and
\* neither does a Create that has failed.
LEMMA ClaimsNothing ==
  ASSUME SessionInv, NEW p \in Procs, NEW r \in Proc, Step(p, r),
         \/ r.pc \in {"idle", "scan", "lock"} /\ r.op # "use"
         \/ r.pc \in {"remove", "unlink"} /\ r.op = "create"
  PROVE  (OwnedLock(p) /\ OwnedFiles(p))'
<1>1. proc'[p] = r
  BY DEF SessionInv, TypeOK, Step
<1> QED
  BY <1>1 DEF OwnedLock, OwnedFiles

LEMMA QuietIdle ==
  ASSUME SessionInv, OwnerInv, SessionInv', NEW p \in Procs, UNCHANGED disk,
         Step(p, Idle) \/ Step(p, NextEntry(p))
  PROVE  OwnerInv' /\ DiskRule(p)
<1>1. NextEntry(p) \in Proc
  <2>1. proc[p] \in Proc
    BY ProcType
  <2> QED
    BY <2>1, IdleType DEF NextEntry, Proc, Ops, Steps, Idle
<1>2. CASE Step(p, Idle)
  <2>1. Idle.pc = "idle" /\ Idle.op = "none"
    BY DEF Idle
  <2> QED
    BY <1>2, <2>1, IdleType, ClaimsNothing, QuietStep
<1>3. CASE Step(p, NextEntry(p))
  <2>1. NextEntry(p).pc = "scan" /\ NextEntry(p).op = "cleanup"
    BY DEF NextEntry, Idle
  <2> QED
    BY <1>1, <1>3, <2>1, ClaimsNothing, QuietStep
<1> QED
  BY <1>2, <1>3

LEMMA AcquireKeepsOwner ==
  ASSUME SessionInv, OwnerInv, SessionInv', NEW p \in Procs, Acquire(p)
  PROVE  OwnerInv' /\ DiskRule(p)
<1> DEFINE i == proc[p].cur
<1>0. /\ TypeOK /\ proc[p] \in Proc /\ proc[p].pc = "lock" /\ i \in Ids
      /\ life[i] # "unused" /\ proc[p].op \in {"create", "resume", "cleanup"}
  <2>1. proc[p].pc = "lock"
    BY DEF Acquire, OpenLockFile, OpenLockFails, TryLock, LockBusy
  <2>2. proc[p].op \in Ops /\ proc[p].pc \in StepsOf[proc[p].op]
    BY ProcFacts
  <2>3. proc[p].op \in {"create", "resume", "cleanup"}
    BY <2>1, <2>2 DEF StepsOf, Ops
  <2> QED
    BY <2>1, <2>3, ProcFacts
<1>1. CASE OpenLockFile(p)
  <2>1. PICK n \in Inodes \cup {NoInode} : Step(p, [proc[p] EXCEPT !.fd = n])
    BY <1>0, <1>1 DEF OpenLockFile, TypeOK
  <2> DEFINE r == [proc[p] EXCEPT !.fd = n]
  <2>2. r \in Proc /\ r.pc = "lock" /\ r.op = proc[p].op /\ r.cur = i
    BY <1>0 DEF Proc
  <2> HIDE DEF r
  <2>3. (OwnedLock(p) /\ OwnedFiles(p))'
    BY <1>0, <2>1, <2>2, ClaimsNothing DEF r
  <2>4. DiskRule(p)
    BY <1>0, <1>1 DEF OpenLockFile, Add, TypeOK, DiskRule, Writes, OwnerInv, Present
  <2> QED
    BY <2>1, <2>2, <2>3, <2>4, OwnerStep DEF r
<1>2. CASE OpenLockFails(p) \/ LockBusy(p)
  <2>1. UNCHANGED disk
    BY <1>2 DEF OpenLockFails, LockBusy
  <2>2. CASE Step(p, Idle) \/ Step(p, NextEntry(p))
    BY <2>1, <2>2, QuietIdle
  <2>3. CASE proc[p].op = "create" /\ Step(p, [proc[p] EXCEPT !.pc = "remove"])
    <3> DEFINE r == [proc[p] EXCEPT !.pc = "remove"]
    <3>1. r \in Proc /\ r.pc = "remove" /\ r.op = "create" /\ r.cur = i
      BY <1>0, <2>3 DEF Proc, Steps
    <3> QED
      BY <2>1, <2>3, <3>1, ClaimsNothing, QuietStep
  <2>4. CASE /\ proc[p].op = "create"
             /\ Step(p, [proc[p] EXCEPT !.pc = "remove", !.fd = NoInode])
    <3> DEFINE r == [proc[p] EXCEPT !.pc = "remove", !.fd = NoInode]
    <3>1. r \in Proc /\ r.pc = "remove" /\ r.op = "create" /\ r.cur = i
      BY <1>0, <2>4 DEF Proc, Steps
    <3> QED
      BY <2>1, <2>4, <3>1, ClaimsNothing, QuietStep
  <2> QED
    BY <1>2, <2>2, <2>3, <2>4 DEF OpenLockFails, LockBusy, Goto
<1>3. CASE TryLock(p)
  <2> DEFINE s == AfterLock[proc[p].op]
             r == [proc[p] EXCEPT !.pc = s]
  <2>1. /\ s \in {"meta", "reread", "remove"}
        /\ Step(p, r) /\ UNCHANGED disk /\ proc[p].fd # NoInode
    BY <1>0, <1>3 DEF TryLock, AfterLock, Goto
  <2>2. r \in Proc /\ r.pc = s /\ r.op = proc[p].op /\ r.cur = i
        /\ r.fd = proc[p].fd
    BY <1>0, <2>1 DEF Proc, Steps
  <2> HIDE DEF r, s
  <2>3. proc'[p] = r
    BY <1>0, <2>1 DEF TypeOK, Step
  <2>4. (OwnedLock(p) /\ OwnedFiles(p))'
    BY <1>0, <2>1, <2>2, <2>3 DEF OwnedLock, OwnedFiles
  <2> QED
    BY <2>1, <2>2, <2>4, QuietStep
<1> QED
  BY <1>1, <1>2, <1>3 DEF Acquire

LEMMA CreateKeepsOwner ==
  ASSUME SessionInv, OwnerInv, SessionInv', NEW p \in Procs, Create(p)
  PROVE  OwnerInv' /\ DiskRule(p)
<1> DEFINE i == proc[p].cur
<1>0. /\ TypeOK /\ proc[p] \in Proc /\ i \in Ids /\ life[i] # "unused"
      /\ proc[p].op = "create" /\ proc[p].fd # NoInode
      /\ OwnedFiles(p) /\ Has(p, i)
      /\ life[i] = "live" => "owner.lock" \in dir[i] /\ "." \in dir[i]
  <2>1. proc[p].pc \in {"meta", "summary", "events", "snapshot"}
    BY DEF Create, CreateMeta, CreateSummary, CreateEvents, CreateFile,
           CreateReturn, CreateFails
  <2>2. OwnedLock(p) /\ OwnedFiles(p) /\ Present
    BY DEF OwnerInv
  <2>3. proc[p].fd # NoInode
    BY <2>1, <2>2 DEF OwnedLock
  <2>4. /\ TypeOK /\ proc[p] \in Proc /\ i \in Ids /\ life[i] # "unused"
        /\ proc[p].op = "create"
    BY <2>1, ProcFacts DEF StepsOf, Ops
  <2>5. life[i] = "live" => "owner.lock" \in dir[i] /\ "." \in dir[i]
    BY <2>2, <2>3, <2>4, ProcFacts DEF Present
  <2> QED
    BY <2>1, <2>2, <2>3, <2>4, <2>5 DEF Has, Holds
<1>1. CASE CreateMeta(p)
  <2> DEFINE m == [proc[p].mem EXCEPT !.updated = clock]
             r == [proc[p] EXCEPT !.pc = "summary", !.mem = m]
  <2>1. m \in Meta
    <3>1. clock \in 0..MaxClock /\ proc[p].mem \in Meta
      BY <1>0 DEF TypeOK, Proc
    <3> QED
      BY <3>1 DEF Meta
  <2> HIDE DEF m
  <2>2. /\ r \in Proc /\ r.pc = "summary" /\ r.op = "create" /\ r.cur = i
        /\ r.fd = proc[p].fd /\ r.mem = m
    BY <1>0, <2>1 DEF Proc, Steps
  <2>3. /\ Step(p, r) /\ meta' = [meta EXCEPT ![i] = m] /\ Add(i, "meta.json")
        /\ life' = life
    BY <1>1 DEF CreateMeta, m
  <2> HIDE DEF r
  <2>4. proc'[p] = r /\ meta'[i] = m /\ "meta.json" \in dir'[i]
    BY <1>0, <2>3 DEF TypeOK, Step, Add
  <2>5. (OwnedLock(p) /\ OwnedFiles(p))'
    BY <1>0, <2>2, <2>3, <2>4 DEF OwnedLock, OwnedFiles
  <2>6. DiskRule(p)
    BY <1>0, <2>3 DEF Add, TypeOK, DiskRule, Writes, OwnerInv, Present
  <2> QED
    BY <1>0, <2>2, <2>3, <2>5, <2>6, OwnerStep
<1>2. CASE CreateSummary(p) \/ CreateEvents(p)
  <2>1. PICK f \in {"summary.json", "events.jsonl"},
             next \in {"events", "snapshot"} :
          /\ Step(p, [proc[p] EXCEPT !.pc = next]) /\ Add(i, f)
          /\ meta' = meta /\ life' = life
          /\ \/ proc[p].pc = "summary" /\ f = "summary.json" /\ next = "events"
             \/ proc[p].pc = "events" /\ f = "events.jsonl" /\ next = "snapshot"
    BY <1>2 DEF CreateSummary, CreateEvents, CreateFile, Goto
  <2> DEFINE r == [proc[p] EXCEPT !.pc = next]
  <2>2. /\ r \in Proc /\ r.pc = next /\ r.op = "create" /\ r.cur = i
        /\ r.fd = proc[p].fd /\ r.mem = proc[p].mem
    BY <1>0 DEF Proc, Steps
  <2> HIDE DEF r
  <2>3. proc'[p] = r /\ dir'[i] = dir[i] \cup {f}
    BY <1>0, <2>1 DEF TypeOK, Step, Add, r
  <2>4. (OwnedLock(p) /\ OwnedFiles(p))'
    BY <1>0, <2>1, <2>2, <2>3 DEF OwnedLock, OwnedFiles
  <2>5. DiskRule(p)
    BY <1>0, <2>1 DEF Add, TypeOK, DiskRule, Writes, OwnerInv, Present
  <2> QED
    BY <1>0, <2>1, <2>2, <2>4, <2>5, OwnerStep DEF r
<1>3. CASE CreateReturn(p)
  <2> DEFINE r == [proc[p] EXCEPT !.op = "use", !.pc = "ready"]
  <2>1. /\ r \in Proc /\ r.pc = "ready" /\ r.op = "use" /\ r.cur = i
        /\ r.fd = proc[p].fd /\ r.mem = proc[p].mem
    BY <1>0 DEF Proc, Ops, Steps
  <2>2. Step(p, r) /\ UNCHANGED disk /\ proc[p].pc = "snapshot"
    BY <1>3 DEF CreateReturn
  <2> HIDE DEF r
  <2>3. proc'[p] = r
    BY <1>0, <2>2 DEF TypeOK, Step
  <2>4. life[i] = "live" => dir[i] = Entries /\ meta[i] = proc[p].mem
    BY <1>0, <2>2 DEF OwnedFiles, Entries, TypeOK
  <2>5. life[i] = "live" => dir[i] \cup r.dirty = Entries
    BY <1>0, <2>1, <2>4 DEF Proc, Entries, Saved
  <2>6. (OwnedLock(p) /\ OwnedFiles(p))'
    BY <1>0, <2>1, <2>2, <2>3, <2>4, <2>5 DEF OwnedLock, OwnedFiles, disk
  <2> QED
    BY <2>1, <2>2, <2>6, QuietStep
<1>4. CASE CreateFails(p)
  <2> DEFINE r == [proc[p] EXCEPT !.pc = "remove", !.fd = NoInode]
  <2>1. r \in Proc /\ r.pc = "remove" /\ r.op = "create" /\ r.cur = i
    BY <1>0 DEF Proc, Steps
  <2>2. Step(p, r) /\ UNCHANGED disk
    BY <1>4 DEF CreateFails
  <2> QED
    BY <1>0, <2>1, <2>2, ClaimsNothing, QuietStep
<1> QED
  BY <1>1, <1>2, <1>3, <1>4 DEF Create

LEMMA ResumeKeepsOwner ==
  ASSUME SessionInv, OwnerInv, SessionInv', NEW p \in Procs, Resume(p)
  PROVE  OwnerInv' /\ DiskRule(p)
<1> DEFINE i == proc[p].cur
<1>0. /\ TypeOK /\ proc[p] \in Proc /\ UNCHANGED disk /\ proc[p].op = "resume"
      /\ OwnedLock(p) /\ OwnedFiles(p)
  <2>1. proc[p].pc \in {"reread", "check"} \/ proc[p].op = "resume"
    BY DEF Resume, ResumeEntry, ResumeChoose, Reread, Check
  <2>2. UNCHANGED disk
    BY DEF Resume, ResumeEntry, ResumeChoose, Reread, Check
  <2> QED
    BY <2>1, <2>2, ProcFacts DEF StepsOf, Ops, OwnerInv
<1>1. CASE ResumeEntry(p)
  <2>1. PICK j \in Ids, match \in SUBSET Ids :
          Step(p, [proc[p] EXCEPT !.todo = @ \ {j}, !.found = @ \cup match])
    <3>1. PICK j \in Ids :
            LET match == IF Match(j, proc[p].ask) THEN {j} ELSE {} IN
            Step(p, [proc[p] EXCEPT !.todo = @ \ {j}, !.found = @ \cup match])
      BY <1>1 DEF ResumeEntry
    <3> DEFINE match == IF Match(j, proc[p].ask) THEN {j} ELSE {}
    <3>2. match \in SUBSET Ids
      OBVIOUS
    <3> QED
      BY <3>1, <3>2
  <2> DEFINE r == [proc[p] EXCEPT !.todo = @ \ {j}, !.found = @ \cup match]
  <2>2. r \in Proc /\ r.pc = "scan" /\ r.op = "resume"
    BY <1>0, <1>1 DEF Proc, ResumeEntry
  <2> HIDE DEF r
  <2> QED
    BY <1>0, <2>1, <2>2, ClaimsNothing, QuietStep DEF r
<1>2. CASE ResumeChoose(p)
  <2>1. CASE Step(p, Idle)
    BY <1>0, <2>1, QuietIdle
  <2>2. CASE \E j \in proc[p].found :
               Step(p, [proc[p] EXCEPT !.pc = "lock", !.cur = j])
    <3>1. PICK j \in proc[p].found :
            Step(p, [proc[p] EXCEPT !.pc = "lock", !.cur = j])
      BY <2>2
    <3> DEFINE r == [proc[p] EXCEPT !.pc = "lock", !.cur = j]
    <3>2. r \in Proc /\ r.pc = "lock" /\ r.op = "resume"
      BY <1>0, ProcFacts DEF Proc, Steps
    <3> HIDE DEF r
    <3> QED
      BY <1>0, <3>1, <3>2, ClaimsNothing, QuietStep DEF r
  <2> QED
    BY <1>2, <2>1, <2>2 DEF ResumeChoose
<1>3. CASE Reread(p)
  <2>1. CASE HasMeta(i)
    <3> DEFINE r == [proc[p] EXCEPT !.pc = "check", !.mem = meta[i]]
    <3>1. i \in Ids /\ proc[p].fd # NoInode
      BY <1>0, <1>3, ProcFacts DEF Reread, OwnedLock
    <3>2. /\ r \in Proc /\ r.pc = "check" /\ r.op = "resume" /\ r.cur = i
          /\ r.fd = proc[p].fd /\ r.mem = meta[i]
      BY <1>0, <3>1 DEF TypeOK, Proc, Steps
    <3>3. Step(p, r)
      BY <1>3, <2>1 DEF Reread
    <3> HIDE DEF r
    <3>4. proc'[p] = r
      BY <1>0, <3>3 DEF TypeOK, Step
    <3>5. (OwnedLock(p) /\ OwnedFiles(p))'
      BY <1>0, <2>1, <3>1, <3>2, <3>4 DEF OwnedLock, OwnedFiles, HasMeta, disk
    <3> QED
      BY <1>0, <3>2, <3>3, <3>5, QuietStep
  <2> QED
    BY <1>0, <1>3, <2>1, QuietIdle DEF Reread
<1>4. CASE Check(p)
  <2> DEFINE r == [Idle EXCEPT !.op = "use", !.pc = "ready", !.cur = i,
                               !.fd = proc[p].fd, !.mem = proc[p].mem]
  <2>1. CASE {"events.jsonl", "summary.json"} \subseteq dir[i]
    <3>1. i \in Ids /\ proc[p].fd # NoInode
      BY <1>0, <1>4, ProcFacts DEF Check, OwnedLock
    <3>2. /\ r \in Proc /\ r.pc = "ready" /\ r.op = "use" /\ r.cur = i
          /\ r.fd = proc[p].fd /\ r.mem = proc[p].mem
      BY <1>0, IdleType DEF Proc, Ops, Steps
    <3>3. Step(p, r)
      BY <1>4, <2>1 DEF Check
    <3> HIDE DEF r
    <3>4. proc'[p] = r
      BY <1>0, <3>3 DEF TypeOK, Step
    <3>5. life[i] = "live" => dir[i] = Entries /\ meta[i] = proc[p].mem
      <4>1. life[i] = "live" => "owner.lock" \in dir[i] /\ "." \in dir[i]
        BY <3>1, ProcFacts DEF OwnerInv, Present
      <4> QED
        BY <1>0, <1>4, <2>1, <3>1, <4>1 DEF OwnedFiles, Entries, TypeOK, Check
    <3>6. life[i] = "live" => dir[i] \cup r.dirty = Entries
      BY <1>0, <3>2, <3>5 DEF Proc, Entries, Saved
    <3>7. (OwnedLock(p) /\ OwnedFiles(p))'
      BY <1>0, <3>1, <3>2, <3>4, <3>5, <3>6 DEF OwnedLock, OwnedFiles, disk
    <3> QED
      BY <1>0, <3>2, <3>3, <3>7, QuietStep
  <2> QED
    BY <1>0, <1>4, <2>1, QuietIdle DEF Check
<1> QED
  BY <1>1, <1>2, <1>3, <1>4 DEF Resume

LEMMA CleanupKeepsOwner ==
  ASSUME SessionInv, OwnerInv, SessionInv', NEW p \in Procs, CleanupExpired(p)
  PROVE  OwnerInv' /\ DiskRule(p)
<1>1. CASE CleanupEntry(p)
  <2>1. PICK j \in Ids :
          \/ Step(p, [proc[p] EXCEPT !.pc = "lock", !.cur = j])
          \/ Step(p, [proc[p] EXCEPT !.todo = @ \ {j}])
    BY <1>1 DEF CleanupEntry
  <2>2. /\ UNCHANGED disk /\ proc[p].op = "cleanup" /\ proc[p].pc = "scan"
        /\ proc[p] \in Proc
    BY <1>1, ProcType DEF CleanupEntry
  <2>3. CASE Step(p, [proc[p] EXCEPT !.pc = "lock", !.cur = j])
    <3> DEFINE r == [proc[p] EXCEPT !.pc = "lock", !.cur = j]
    <3>1. r \in Proc /\ r.pc = "lock" /\ r.op = "cleanup"
      BY <2>2 DEF Proc, Steps
    <3> QED
      BY <2>2, <2>3, <3>1, ClaimsNothing, QuietStep
  <2>4. CASE Step(p, [proc[p] EXCEPT !.todo = @ \ {j}])
    <3> DEFINE r == [proc[p] EXCEPT !.todo = @ \ {j}]
    <3>1. r \in Proc /\ r.pc = "scan" /\ r.op = "cleanup"
      BY <2>2 DEF Proc, Steps
    <3> QED
      BY <2>2, <2>4, <3>1, ClaimsNothing, QuietStep
  <2> QED
    BY <2>1, <2>3, <2>4
<1>2. CASE CleanupEnd(p)
  BY <1>2, QuietIdle DEF CleanupEnd
<1> QED
  BY <1>1, <1>2 DEF CleanupExpired

\* A RemoveAll takes only what is doomed.
LEMMA RemoveAllKeepsOwner ==
  ASSUME SessionInv, OwnerInv, SessionInv', NEW p \in Procs, RemoveAll(p)
  PROVE  OwnerInv' /\ DiskRule(p)
<1> DEFINE i == proc[p].cur
<1>0. /\ TypeOK /\ proc[p] \in Proc /\ i \in Ids /\ life[i] # "unused"
      /\ proc[p].op \in {"create", "cleanup", "use"}
      /\ proc[p].pc \in {"remove", "unlink"}
      /\ proc[p].pc = "unlink" => life[i] = "doomed"
      /\ OwnedLock(p)
  <2>1. proc[p].pc \in {"remove", "unlink"}
    BY DEF RemoveAll, RemoveList, Rmdir, RmdirFails, Unlink, UnlinkFails
  <2> QED
    BY <2>1, ProcFacts DEF StepsOf, Ops, OwnerInv
<1>1. ASSUME NEW r \in Proc, Step(p, r), r.op = proc[p].op, r.cur = i,
             r.fd = proc[p].fd, r.pc \in {"unlink", "unlock", "ready"},
             r.pc # "unlink" => proc[p].op # "create",
             life'[i] = "doomed", DiskRule(p)
      PROVE  OwnerInv' /\ DiskRule(p)
  <2>1. proc'[p] = r
    BY <1>0, <1>1 DEF TypeOK, Step
  <2>2. (OwnedLock(p) /\ OwnedFiles(p))'
    BY <1>0, <1>1, <2>1 DEF OwnedLock, OwnedFiles
  <2> QED
    BY <1>1, <2>2, OwnerStep
<1>2. CASE RemoveList(p)
  <2> DEFINE r == [proc[p] EXCEPT !.pc = "unlink", !.names = dir[i] \ {"."}]
  <2>1. /\ r \in Proc /\ r.pc = "unlink" /\ r.op = proc[p].op /\ r.cur = i
        /\ r.fd = proc[p].fd
    BY <1>0 DEF TypeOK, Proc, Steps
  <2>2. Step(p, r) /\ life'[i] = "doomed"
    BY <1>0, <1>2 DEF RemoveList, TypeOK
  <2>3. DiskRule(p)
    BY <1>0, <1>2 DEF RemoveList, TypeOK, DiskRule, Writes, OwnerInv, Present
  <2> HIDE DEF r
  <2> QED
    BY <1>1, <2>1, <2>2, <2>3
<1>3. ASSUME NEW f \in Entries, Unlink(p, f) \/ UnlinkFails(p, f)
      PROVE  OwnerInv' /\ DiskRule(p)
  <2> DEFINE r == [proc[p] EXCEPT !.names = @ \ {f}]
  <2>1. /\ r \in Proc /\ r.pc = "unlink" /\ r.op = proc[p].op /\ r.cur = i
        /\ r.fd = proc[p].fd
    BY <1>0, <1>3 DEF Proc, Unlink, UnlinkFails
  <2>2. Step(p, r) /\ life' = life /\ life[i] = "doomed"
    BY <1>0, <1>3 DEF Unlink, UnlinkFails, disk
  <2>3. DiskRule(p)
    <3>1. \A j \in Ids \ {i} : dir'[j] = dir[j] /\ meta'[j] = meta[j]
      BY <1>0, <1>3 DEF Unlink, UnlinkFails, TypeOK, disk
    <3> QED
      BY <2>2, <3>1 DEF DiskRule, Writes, OwnerInv, Present
  <2> HIDE DEF r
  <2> QED
    BY <1>1, <2>1, <2>2, <2>3
<1>4. CASE Rmdir(p)
  <2>1. life' = life /\ life[i] = "doomed"
    BY <1>0, <1>4 DEF Rmdir
  <2>2. DiskRule(p)
    <3>1. \A j \in Ids \ {i} : dir'[j] = dir[j] /\ meta'[j] = meta[j]
      BY <1>0, <1>4 DEF Rmdir, TypeOK
    <3> QED
      BY <2>1, <3>1 DEF DiskRule, Writes, OwnerInv, Present
  <2>3. CASE Step(p, Idle)
    <3>1. Idle.pc = "idle" /\ Idle.op = "none"
      BY DEF Idle
    <3> QED
      BY <2>2, <2>3, <3>1, IdleType, ClaimsNothing, OwnerStep
  <2>4. CASE proc[p].op # "create" /\ Step(p, [proc[p] EXCEPT !.pc = "unlock"])
    <3> DEFINE r == [proc[p] EXCEPT !.pc = "unlock"]
    <3>1. /\ r \in Proc /\ r.pc = "unlock" /\ r.op = proc[p].op /\ r.cur = i
          /\ r.fd = proc[p].fd
      BY <1>0 DEF Proc, Steps
    <3> HIDE DEF r
    <3> QED
      BY <1>1, <2>1, <2>2, <2>4, <3>1 DEF r
  <2> QED
    BY <1>4, <2>3, <2>4 DEF Rmdir, Goto
<1>5. CASE RmdirFails(p)
  <2>1. UNCHANGED disk /\ life' = life /\ life[i] = "doomed"
    BY <1>0, <1>5 DEF RmdirFails, disk
  <2>2. CASE Step(p, Idle)
    BY <2>1, <2>2, QuietIdle
  <2>3. CASE proc[p].op = "use" /\ Step(p, [proc[p] EXCEPT !.pc = "ready"])
    <3> DEFINE r == [proc[p] EXCEPT !.pc = "ready"]
    <3>1. /\ r \in Proc /\ r.pc = "ready" /\ r.op = proc[p].op /\ r.cur = i
          /\ r.fd = proc[p].fd
      BY <1>0 DEF Proc, Steps
    <3> HIDE DEF r
    <3> QED
      BY <1>1, <2>1, <2>3, <3>1, QuietDisk DEF r
  <2> QED
    BY <1>5, <2>2, <2>3 DEF RmdirFails, Goto
<1> QED
  BY <1>2, <1>3, <1>4, <1>5 DEF RemoveAll

LEMMA BeginKeepsOwner ==
  ASSUME SessionInv, OwnerInv, SessionInv', NEW p \in Procs, Begin(p)
  PROVE  OwnerInv' /\ DiskRule(p)
<1>1. ASSUME NEW i \in Ids, NEW n \in Names \cup {NoName}, CreateDir(p, i, n)
      PROVE  OwnerInv' /\ DiskRule(p)
  <2> DEFINE m == [NoMeta EXCEPT !.name = n]
             r == [Idle EXCEPT !.op = "create", !.pc = "lock", !.cur = i, !.mem = m]
  <2>1. m \in Meta
    BY IdleType DEF Meta
  <2> HIDE DEF m
  <2>2. r \in Proc /\ r.pc = "lock" /\ r.op = "create" /\ r.cur = i
    BY <2>1, IdleType DEF Proc, Ops, Steps
  <2>3. Step(p, r) /\ life[i] = "unused"
    BY <1>1 DEF CreateDir, m
  <2> HIDE DEF r
  <2>4. DiskRule(p)
    BY <1>1, ProcType
       DEF CreateDir, TypeOK, DiskRule, Writes, OwnerInv, Present, SessionInv,
           UnusedIsAbsent
  <2> QED
    BY <2>2, <2>3, <2>4, ClaimsNothing, OwnerStep
<1>2. ASSUME NEW i \in Ids, ResumeById(p, i)
      PROVE  OwnerInv' /\ DiskRule(p)
  <2> DEFINE r == [Idle EXCEPT !.op = "resume", !.pc = "lock", !.cur = i]
  <2>1. r \in Proc /\ r.pc = "lock" /\ r.op = "resume"
    BY IdleType DEF Proc, Ops, Steps
  <2> QED
    BY <1>2, <2>1, ClaimsNothing, QuietStep DEF ResumeById
<1>3. ASSUME NEW n \in Names, ResumeByName(p, n)
      PROVE  OwnerInv' /\ DiskRule(p)
  <2> DEFINE r == [Idle EXCEPT !.op = "resume", !.pc = "scan",
                               !.ask = n, !.todo = Listing]
  <2>1. r \in Proc /\ r.pc = "scan" /\ r.op = "resume"
    BY IdleType DEF Proc, Ops, Steps, Listing
  <2> QED
    BY <1>3, <2>1, ClaimsNothing, QuietStep DEF ResumeByName
<1>4. CASE CleanupStart(p)
  <2> DEFINE r == [Idle EXCEPT !.op = "cleanup", !.pc = "scan",
                               !.asof = clock, !.todo = Listing]
  <2>1. r \in Proc /\ r.pc = "scan" /\ r.op = "cleanup"
    BY IdleType, ProcType DEF TypeOK, Proc, Ops, Steps, Listing
  <2> QED
    BY <1>4, <2>1, ClaimsNothing, QuietStep DEF CleanupStart
<1> QED
  BY <1>1, <1>2, <1>3, <1>4 DEF Begin

LEMMA UseKeepsOwner ==
  ASSUME SessionInv, OwnerInv, SessionInv', NEW p \in Procs, Use(p)
  PROVE  OwnerInv' /\ DiskRule(p)
<1> DEFINE i == proc[p].cur
<1>0. /\ TypeOK /\ proc[p] \in Proc /\ proc[p].mem \in Meta /\ clock \in 0..MaxClock
      /\ proc[p].pc = "ready" /\ proc[p].op = "use" /\ i \in Ids
      /\ life[i] # "unused" /\ OwnedFiles(p) /\ Open(p, i)
      /\ life[i] = "live" => proc[p].fd # NoInode /\ Has(p, i)
  <2>1. proc[p].pc = "ready"
    BY DEF Use, SetName, SaveMeta, SaveSummary, SummaryLost, AppendEvent, Close
  <2>2. OwnedLock(p) /\ OwnedFiles(p)
    BY DEF OwnerInv
  <2> QED
    BY <2>1, <2>2, ProcFacts
       DEF StepsOf, Ops, OwnedLock, Has, Holds, Open, TypeOK, Proc
<1>1. ASSUME NEW r \in Proc, Step(p, r), NEW D \in SUBSET Entries,
             r.op = "use", r.cur = i, r.fd = proc[p].fd,
             dir' = [dir EXCEPT ![i] = D], "." \in dir[i] => "." \in D,
             dir[i] \cup proc[p].dirty = Entries => D \cup r.dirty = Entries,
             life' = life, \A j \in Ids \ {i} : meta'[j] = meta[j],
             r.pc \in {"ready", "remove", "unlock"},
             "meta.json" \notin r.dirty /\ life[i] = "live" => meta'[i] = r.mem,
             r.pc = "remove" => /\ "meta.json" \notin r.dirty
                                /\ r.mem.name = NoName /\ r.mem.status = "clean"
      PROVE  OwnerInv' /\ DiskRule(p)
  <2>1. proc'[p] = r /\ dir'[i] = D /\ \A j \in Ids \ {i} : dir'[j] = dir[j]
    BY <1>0, <1>1 DEF TypeOK, Step
  <2>2. life[i] = "live" => D \cup r.dirty = Entries
    BY <1>0, <1>1 DEF OwnedFiles
  <2>4. OwnedLock(p)'
    BY <1>0, <1>1, <2>1 DEF OwnedLock
  <2>5. OwnedFiles(p)'
    BY <1>0, <1>1, <2>1, <2>2 DEF OwnedFiles
  <2>6. DiskRule(p)
    <3>1. Present /\ Present'
      BY <1>1, <2>1 DEF Present, OwnerInv
    <3>2. Writes(p)
      BY <1>0, <1>1, <2>1 DEF Writes, TypeOK
    <3>3. \A j \in Ids : life'[j] = "unused" => meta'[j] = meta[j]
      BY <1>0, <1>1
    <3> QED
      BY <1>1, <3>1, <3>2, <3>3 DEF DiskRule
  <2> QED
    BY <1>1, <2>4, <2>5, <2>6, OwnerStep
<1>2. ASSUME NEW m \in Meta, NEW next \in {"ready", "remove", "unlock"},
             NEW files \in SUBSET Entries, "meta.json" \in files,
             Persisted(p, m, files, next),
             next = "remove" => m.name = NoName /\ m.status = "clean"
      PROVE  OwnerInv' /\ DiskRule(p)
  <2> DEFINE r == [proc[p] EXCEPT !.mem = m, !.dirty = @ \ {"meta.json"},
                                  !.pc = next]
             D == dir[i] \cup files
  <2>1. /\ r \in Proc /\ r.pc = next /\ r.op = "use" /\ r.cur = i
        /\ r.fd = proc[p].fd /\ r.mem = m /\ r.dirty = proc[p].dirty \ {"meta.json"}
    BY <1>0 DEF Proc, Steps
  <2>2. /\ Step(p, r) /\ dir' = [dir EXCEPT ![i] = D]
        /\ life' = life /\ meta' = [meta EXCEPT ![i] = m]
    BY <1>2 DEF Persisted
  <2>3. meta'[i] = m /\ \A j \in Ids \ {i} : meta'[j] = meta[j]
    BY <1>0, <2>2 DEF TypeOK
  <2>4. /\ D \in SUBSET Entries
        /\ "." \in dir[i] => "." \in D
        /\ dir[i] \cup proc[p].dirty = Entries => D \cup r.dirty = Entries
    BY <1>0, <1>2, <2>1 DEF TypeOK, Proc
  <2> HIDE DEF r, D
  <2> QED
    BY <1>1, <1>2, <2>1, <2>2, <2>3, <2>4
<1>3. ASSUME NEW m \in Meta, NEW files \in SUBSET Entries,
             NotPersisted(p, m, files)
      PROVE  OwnerInv' /\ DiskRule(p)
  <2> DEFINE r == [proc[p] EXCEPT !.mem = m, !.dirty = @ \cup {"meta.json"}]
  <2>1. /\ r \in Proc /\ r.pc = "ready" /\ r.op = "use" /\ r.cur = i
        /\ r.fd = proc[p].fd /\ r.dirty = proc[p].dirty \cup {"meta.json"}
    BY <1>0 DEF Proc, Steps, Saved
  <2>2. PICK lost \in {{}, {"meta.json"}} :
          /\ dir' = [dir EXCEPT ![i] = (@ \cup files) \ lost]
          /\ meta' = IF lost = {} THEN meta ELSE [meta EXCEPT ![i] = NoMeta]
    BY <1>3 DEF NotPersisted
  <2> DEFINE D == (dir[i] \cup files) \ lost
  <2>3. Step(p, r) /\ life' = life /\ dir' = [dir EXCEPT ![i] = D]
    BY <1>3, <2>2 DEF NotPersisted
  <2>4. \A j \in Ids \ {i} : meta'[j] = meta[j]
    BY <1>0, <2>2 DEF TypeOK
  <2>5. /\ D \in SUBSET Entries
        /\ "." \in dir[i] => "." \in D
        /\ dir[i] \cup proc[p].dirty = Entries => D \cup r.dirty = Entries
    <3>1. dir[i] \subseteq Entries /\ proc[p].dirty \subseteq Saved
          /\ lost \subseteq {"meta.json"} /\ "meta.json" \in Entries
      BY <1>0, <2>2 DEF TypeOK, Proc, Entries
    <3> HIDE DEF r
    <3> QED
      BY <2>1, <3>1
  <2>6. /\ r.pc \in {"ready", "remove", "unlock"} /\ r.pc # "remove"
        /\ "meta.json" \in r.dirty
    BY <2>1
  <2> HIDE DEF r, D
  <2> QED
    BY <1>1, <2>1, <2>3, <2>4, <2>5, <2>6
<1>4. ASSUME NEW dirty \in SUBSET Saved, NEW D \in SUBSET Entries,
             \/ D = dir[i] \cup {"summary.json"}
                /\ dirty = proc[p].dirty \ {"summary.json"}
             \/ D = dir[i] \ {"summary.json"}
                /\ dirty = proc[p].dirty \cup {"summary.json"},
             Step(p, [proc[p] EXCEPT !.dirty = dirty]),
             dir' = [dir EXCEPT ![i] = D], UNCHANGED <<meta, life>>
      PROVE  OwnerInv' /\ DiskRule(p)
  <2> DEFINE r == [proc[p] EXCEPT !.dirty = dirty]
  <2>1. /\ r \in Proc /\ r.pc = "ready" /\ r.op = "use" /\ r.cur = i
        /\ r.fd = proc[p].fd /\ r.dirty = dirty /\ r.mem = proc[p].mem
    BY <1>0, <1>4 DEF Proc
  <2>2. "meta.json" \notin dirty /\ life[i] = "live" => meta'[i] = proc[p].mem
    BY <1>0, <1>4 DEF OwnedFiles
  <2>3. /\ "." \in dir[i] => "." \in D
        /\ dir[i] \cup proc[p].dirty = Entries => D \cup dirty = Entries
    <3>1. "summary.json" \in Entries
      BY DEF Entries
    <3> QED
      BY <1>4, <3>1
  <2>4. Step(p, r) /\ life' = life /\ \A j \in Ids \ {i} : meta'[j] = meta[j]
    BY <1>4
  <2>5. D \in SUBSET Entries /\ dir' = [dir EXCEPT ![i] = D]
    BY <1>4
  <2>6. r.pc \in {"ready", "remove", "unlock"} /\ r.pc # "remove"
    BY <2>1
  <2> HIDE DEF r
  <2> QED
    BY <1>1, <2>1, <2>2, <2>3, <2>4, <2>5, <2>6
<1>5. ASSUME NEW m \in Meta, Persist(p, m)
      PROVE  OwnerInv' /\ DiskRule(p)
  <2>1. {"meta.json"} \in SUBSET Entries /\ {} \in SUBSET Entries
    BY DEF Entries
  <2> QED
    BY <1>2, <1>3, <1>5, <2>1 DEF Persist
<1>6. ASSUME NEW n \in Names \cup {NoName}, SetName(p, n)
      PROVE  OwnerInv' /\ DiskRule(p)
  <2>1. [proc[p].mem EXCEPT !.name = n, !.updated = clock] \in Meta
    BY <1>0 DEF Meta
  <2> QED
    BY <1>5, <1>6, <2>1 DEF SetName
<1>7. ASSUME NEW n \in Names \cup {NoName}, NEW s \in Statuses, SaveMeta(p, n, s)
      PROVE  OwnerInv' /\ DiskRule(p)
  <2>1. [name |-> n, updated |-> clock, status |-> s] \in Meta
    BY <1>0 DEF Meta
  <2> QED
    BY <1>5, <1>7, <2>1 DEF SaveMeta
<1>8. CASE SaveSummary(p) \/ SummaryLost(p)
  <2>1. /\ dir[i] \cup {"summary.json"} \in SUBSET Entries
        /\ dir[i] \ {"summary.json"} \in SUBSET Entries
        /\ proc[p].dirty \ {"summary.json"} \in SUBSET Saved
        /\ proc[p].dirty \cup {"summary.json"} \in SUBSET Saved
    BY <1>0 DEF TypeOK, Proc, Entries, Saved
  <2>2. /\ SaveSummary(p) =>
             Step(p, [proc[p] EXCEPT !.dirty = proc[p].dirty \ {"summary.json"}])
        /\ SummaryLost(p) =>
             Step(p, [proc[p] EXCEPT !.dirty = proc[p].dirty \cup {"summary.json"}])
    BY DEF SaveSummary, SummaryLost
  <2>3. CASE SaveSummary(p)
    BY <1>4, <2>1, <2>2, <2>3 DEF SaveSummary, Add
  <2>4. CASE SummaryLost(p)
    BY <1>4, <2>1, <2>2, <2>4 DEF SummaryLost
  <2> QED
    BY <1>8, <2>3, <2>4
<1>9. CASE AppendEvent(p)
  <2> DEFINE m == [proc[p].mem EXCEPT !.updated = clock]
  <2>1. /\ m \in Meta /\ {"events.jsonl"} \in SUBSET Entries
        /\ {"events.jsonl", "meta.json"} \in SUBSET Entries
    BY <1>0 DEF Meta, Entries
  <2>2. \/ Persisted(p, m, {"events.jsonl", "meta.json"}, "ready")
        \/ NotPersisted(p, m, {"events.jsonl"})
    BY <1>9 DEF AppendEvent
  <2> HIDE DEF m
  <2> QED
    BY <1>2, <1>3, <2>1, <2>2
<1>10. ASSUME NEW s \in {"clean", "aborted"}, Close(p, s)
       PROVE  OwnerInv' /\ DiskRule(p)
  <2> DEFINE m == [proc[p].mem EXCEPT !.status = s, !.updated = clock]
             next == IF s = "clean" /\ m.name = NoName THEN "remove" ELSE "unlock"
  <2>1. /\ m \in Meta /\ next \in {"ready", "remove", "unlock"}
        /\ next = "remove" => m.name = NoName /\ m.status = "clean"
    BY <1>0 DEF Meta, Statuses
  <2>2. Persisted(p, m, {"meta.json"}, next) \/ NotPersisted(p, m, {})
    BY <1>10 DEF Close
  <2>3. {"meta.json"} \in SUBSET Entries /\ {} \in SUBSET Entries
    BY DEF Entries
  <2> HIDE DEF m, next
  <2> QED
    BY <1>2, <1>3, <2>1, <2>2, <2>3
<1> QED
  BY <1>6, <1>7, <1>8, <1>9, <1>10 DEF Use

\* A process that fails to unlock leaves its session to itself.
LEMMA UnlockFailsKeepsOwner ==
  ASSUME SessionInv, OwnerInv, SessionInv', NEW p \in Procs, UnlockFails(p)
  PROVE  OwnerInv' /\ DiskRule(p)
<1> DEFINE i == proc[p].cur
           r == [proc[p] EXCEPT !.pc = "ready", !.fd = NoInode]
<1>1. CASE proc[p].op = "cleanup"
  BY <1>1, QuietIdle DEF UnlockFails, disk
<1>2. CASE proc[p].op # "cleanup"
  <2>1. TypeOK /\ proc[p] \in Proc /\ i \in Ids /\ proc[p].op = "use"
    BY <1>2, ProcFacts DEF UnlockFails, StepsOf, Ops
  <2>2. /\ Step(p, r)
        /\ life' = [life EXCEPT ![i] = IF @ = "live" THEN "stray" ELSE @]
        /\ UNCHANGED <<dir, meta>>
    BY <1>2 DEF UnlockFails
  <2>3. r \in Proc /\ r.pc = "ready" /\ r.op = "use" /\ r.cur = i
    BY <2>1, StepNames DEF Proc
  <2> HIDE DEF r
  <2>4. proc'[p] = r /\ life'[i] # "live"
    BY <2>1, <2>2 DEF TypeOK, Step
  <2>5. (OwnedLock(p) /\ OwnedFiles(p))'
    BY <2>3, <2>4 DEF OwnedLock, OwnedFiles
  <2>6. \A j \in Ids : /\ life'[j] = "live" => life[j] = "live"
                       /\ life'[j] = "unused" => life[j] = "unused"
    BY <2>1, <2>2 DEF TypeOK
  <2>7. DiskRule(p)
    BY <2>2, <2>6 DEF DiskRule, Writes, OwnerInv, Present
  <2> QED
    BY <2>2, <2>3, <2>5, <2>7, OwnerStep
<1> QED
  BY <1>1, <1>2

\* Every step of a process.
LEMMA ProcKeepsOwner ==
  ASSUME SessionInv, OwnerInv, SessionInv', NEW p \in Procs,
         Begin(p) \/ Use(p) \/ Progress(p) \/ Crash(p)
  PROVE  OwnerInv' /\ DiskRule(p)
<1>1. CASE Unlock(p) \/ Crash(p)
  BY <1>1, QuietIdle DEF Unlock, Crash
<1> QED
  BY <1>1, BeginKeepsOwner, UseKeepsOwner, AcquireKeepsOwner, CreateKeepsOwner,
     ResumeKeepsOwner, CleanupKeepsOwner, RemoveAllKeepsOwner,
     UnlockFailsKeepsOwner DEF Progress

LEMMA QuietKeepsOwner ==
  ASSUME SessionInv, OwnerInv, UNCHANGED <<disk, proc>>
  PROVE  OwnerInv'
<1>1. UNCHANGED <<dir, meta, link, life, proc>>
  BY DEF disk
<1>2. Present' /\ Blank' /\ SoleMaker'
  BY <1>1 DEF OwnerInv, Present, Blank, SoleMaker
<1>3. ASSUME NEW p \in Procs PROVE (OwnedLock(p) /\ OwnedFiles(p))'
  BY <1>1 DEF OwnerInv, OwnedLock, OwnedFiles
<1> QED
  BY <1>2, <1>3 DEF OwnerInv

LEMMA OwnerInit == Init => OwnerInv
<1> SUFFICES ASSUME Init PROVE OwnerInv
  OBVIOUS
<1>1. \A p \in Procs : /\ proc[p].op = "none" /\ proc[p].pc = "idle"
                       /\ proc[p].cur \notin Ids
  BY IdsAssumption DEF Init, Idle, NoId
<1> QED
  BY <1>1 DEF Init, OwnerInv, Present, Blank, SoleMaker, OwnedLock, OwnedFiles

\* While a session is live - no RemoveAll of it has begun and no Close of it has
\* failed to unlock - whoever has it open has its lock, and the files and the
\* metadata it relies on, and nobody else changes them (store.go:107-129,
\* 203-217).
THEOREM OwnerInvariant == Spec => []OwnerInv
<1>1. SessionInv /\ SessionInv' /\ OwnerInv /\ [Next]_vars => OwnerInv'
  <2> SUFFICES ASSUME SessionInv, SessionInv', OwnerInv, [Next]_vars PROVE OwnerInv'
    OBVIOUS
  <2>1. CASE Tick \/ UNCHANGED vars
    BY <2>1, QuietKeepsOwner DEF Tick, vars, disk
  <2> QED
    BY <2>1, ProcKeepsOwner DEF Next
<1> QED
  BY <1>1, OwnerInit, SessionInvariant, PTL DEF Spec

\* The metadata that an open, live session has in memory is that of its
\* meta.json, unless its own last save failed (store.go:203).
THEOREM OwnerIsCoherent == Spec => []MetaCoherent
<1>1. SessionInv /\ OwnerInv => MetaCoherent
  <2> SUFFICES ASSUME SessionInv, OwnerInv, NEW p \in Procs, NEW i \in Ids,
                      Open(p, i), life[i] = "live", "meta.json" \notin proc[p].dirty
               PROVE  HasMeta(i) /\ meta[i] = proc[p].mem
    BY DEF MetaCoherent
  <2> QED
    <3>1. dir[i] \cup proc[p].dirty = Entries /\ meta[i] = proc[p].mem
      BY DEF OwnerInv, OwnedFiles, Open
    <3> QED
      BY <3>1 DEF HasMeta, Entries
<1> QED
  BY <1>1, SessionInvariant, OwnerInvariant, PTL

\* An open, live session has all of its files, but for those that its own last
\* save could not replace (store.go:107-129, 203-217, 447).
THEOREM OpenHasAllFiles == Spec => []OpenIsComplete
<1>1. OwnerInv => OpenIsComplete
  BY DEF OwnerInv, OwnedFiles, Open, OpenIsComplete
<1> QED
  BY <1>1, OwnerInvariant, PTL

\* A removal of a live session by Close or by CleanupExpired takes one that
\* nobody else has open, and Close only one that is saved as unnamed and clean.
THEOREM RemovalsAreJustified == Spec => RemovalJustified
<1>1. SessionInv /\ OwnerInv /\ [Next]_vars =>
        [\A p \in Procs, i \in Ids :
           /\ proc[p].cur = i /\ proc[p].pc = "remove" /\ proc'[p].pc = "unlink"
           /\ proc[p].op # "create" /\ life[i] = "live"
           => /\ \A q \in Procs \ {p} : ~Open(q, i)
              /\ proc[p].op = "use" =>
                   meta[i].name = NoName /\ meta[i].status = "clean"]_vars
  <2> SUFFICES ASSUME SessionInv, OwnerInv, NEW p \in Procs, NEW i \in Ids,
                      proc[p].cur = i, proc[p].pc = "remove",
                      proc[p].op # "create", life[i] = "live"
               PROVE  /\ \A q \in Procs \ {p} : ~Open(q, i)
                      /\ proc[p].op = "use" =>
                           meta[i].name = NoName /\ meta[i].status = "clean"
    OBVIOUS
  <2>1. Has(p, i)
    <3>1. OwnedLock(p) /\ proc[p].op \in {"use", "cleanup"}
      BY ProcFacts DEF OwnerInv, StepsOf, Ops
    <3> QED
      BY <3>1 DEF OwnedLock, Has, Holds
  <2>2. ASSUME NEW q \in Procs \ {p}, Open(q, i) PROVE FALSE
    <3>1. proc[q].pc \in {"ready", "remove", "unlink", "unlock"}
      BY <2>2, ProcFacts DEF Open, StepsOf
    <3>2. Has(q, i)
      BY <2>2, <3>1 DEF Open, OwnerInv, OwnedLock, Has, Holds
    <3> QED
      BY <2>1, <2>2, <3>2, OneOwner
  <2> QED
    BY <2>2 DEF OwnerInv, OwnedFiles
<1> QED
  BY <1>1, SessionInvariant, OwnerInvariant, PTL DEF Spec, RemovalJustified

\* A step of one process leaves the others where they are.
LEMMA OthersStay ==
  ASSUME SessionInv, NEW p \in Procs, Begin(p) \/ Use(p) \/ Progress(p) \/ Crash(p)
  PROVE  \A q \in Procs \ {p} : proc'[q] = proc[q]
<1> USE DEF Step, Goto, SessionInv, TypeOK
<1>1. CASE Begin(p)
  BY <1>1 DEF Begin, CreateDir, ResumeById, ResumeByName, CleanupStart
<1>2. CASE Use(p)
  BY <1>2 DEF Use, SetName, SaveMeta, SaveSummary, AppendEvent, Close, Persist,
              Persisted, NotPersisted, SummaryLost
<1>3. CASE Acquire(p)
  BY <1>3 DEF Acquire, OpenLockFile, OpenLockFails, TryLock, LockBusy
<1>4. CASE Create(p)
  BY <1>4 DEF Create, CreateMeta, CreateSummary, CreateEvents, CreateFile,
              CreateReturn, CreateFails
<1>5. CASE Resume(p)
  BY <1>5 DEF Resume, ResumeEntry, ResumeChoose, Reread, Check
<1>6. CASE CleanupExpired(p) \/ Unlock(p) \/ UnlockFails(p) \/ Crash(p)
  BY <1>6 DEF CleanupExpired, CleanupEntry, CleanupEnd, Unlock, UnlockFails, Crash
<1>7. CASE RemoveAll(p)
  BY <1>7 DEF RemoveAll, RemoveList, Rmdir, RmdirFails, Unlink, UnlinkFails
<1> QED
  BY <1>1, <1>2, <1>3, <1>4, <1>5, <1>6, <1>7 DEF Progress

\* Only who has the lock of a session, or who has closed it without success,
\* changes its metadata or removes something from it, until a RemoveAll of it
\* begins: the unlocked reads of Resume and of CleanupExpired never turn into
\* writes.
THEOREM WritersHaveLock == Spec => OnlyOwnerWrites
<1>1. SessionInv /\ SessionInv' /\ OwnerInv /\ [Next]_vars =>
        [\A i \in Ids :
           /\ life[i] # "doomed" /\ life'[i] # "doomed"
           /\ meta'[i] # meta[i] \/ ~(dir[i] \subseteq dir'[i])
           => \E p \in Procs : /\ \/ Has(p, i)
                                  \/ life[i] = "stray" /\ Open(p, i)
                               /\ \A q \in Procs \ {p} : proc'[q] = proc[q]]_vars
  <2> SUFFICES ASSUME SessionInv, SessionInv', OwnerInv, Next, NEW i \in Ids,
                      life[i] # "doomed", life'[i] # "doomed",
                      meta'[i] # meta[i] \/ ~(dir[i] \subseteq dir'[i])
               PROVE  \E p \in Procs :
                        /\ Has(p, i) \/ (life[i] = "stray" /\ Open(p, i))
                        /\ \A q \in Procs \ {p} : proc'[q] = proc[q]
    BY DEF vars
  <2>1. ~Tick
    BY DEF Tick, disk
  <2>2. PICK p \in Procs : Begin(p) \/ Use(p) \/ Progress(p) \/ Crash(p)
    BY <2>1 DEF Next
  <2>3. Has(p, i) \/ (life[i] = "stray" /\ Open(p, i))
    BY <2>2, ProcKeepsOwner DEF DiskRule, Writes
  <2> QED
    BY <2>2, <2>3, OthersStay
<1> QED
  BY <1>1, SessionInvariant, OwnerInvariant, PTL DEF Spec, OnlyOwnerWrites

-----------------------------------------------------------------------------
(* The store implements the register: what a step of a process does to each *)
(* session is a step of the register or none.                               *)

\* Process p has a part in a session: it makes it or has its lock.
Claims(p) == proc[p].op = "create" \/ Holds(p)

\* The register of session i is left alone by a step of p.
SameView(p, i) ==
  /\ StageOf(i)' = StageOf(i)
  /\ life[i] = "live" => /\ meta'[i] = meta[i]
                         /\ Making(p, i)' <=> Making(p, i)
                         /\ Has(p, i)' <=> Has(p, i)

\* The steps of the register, by what becomes of p's part in session i.
MakeView(p, i) ==
  /\ life[i] = "unused" /\ life'[i] = "live" /\ meta'[i] = meta[i]
  /\ Making(p, i)' /\ ~Has(p, i)'
MadeView(p, i) ==
  /\ life[i] = "live" /\ life'[i] = "live" /\ meta'[i] = meta[i]
  /\ Making(p, i) /\ ~Making(p, i)'
  /\ Has(p, i)' => Has(p, i)
TakeView(p, i) ==
  /\ life[i] = "live" /\ life'[i] = "live" /\ meta'[i] = meta[i]
  /\ Making(p, i)' <=> Making(p, i)
  /\ Has(p, i)' /\ \A q \in Procs : ~Has(q, i)
WriteView(p, i) ==
  /\ life[i] = "live" /\ life'[i] = "live"
  /\ Making(p, i)' <=> Making(p, i)
  /\ Has(p, i) /\ Has(p, i)'
LeaveView(p, i) ==
  /\ life[i] = "live" /\ life'[i] = "live" /\ meta'[i] = meta[i]
  /\ Making(p, i)' <=> Making(p, i)
  /\ Has(p, i) /\ ~Has(p, i)'
GiveUpView(p, i) ==
  /\ life[i] = "live" /\ life'[i] \in {"stray", "doomed"}
  /\ Has(p, i) \/ Making(p, i)

Views(p, i) == \/ MakeView(p, i) \/ MadeView(p, i) \/ TakeView(p, i)
               \/ WriteView(p, i) \/ LeaveView(p, i) \/ GiveUpView(p, i)

\* A step of p concerns one session at most.
Moves(p) ==
  \/ \A j \in Ids : SameView(p, j)
  \/ \E i \in Ids : Views(p, i) /\ \A j \in Ids \ {i} : SameView(p, j)

Unmoved(j) == /\ StageOf(j)' = StageOf(j) /\ MakersOf(j)' = MakersOf(j)
              /\ OwnersOf(j)' = OwnersOf(j) /\ ValueOf(j)' = ValueOf(j)

\* The others' parts stay, so that p's part decides.
LEMMA OthersParts ==
  ASSUME NEW p \in Procs, \A q \in Procs \ {p} : proc'[q] = proc[q]
  PROVE  \A q \in Procs \ {p}, i \in Ids :
           (Making(q, i)' <=> Making(q, i)) /\ (Has(q, i)' <=> Has(q, i))
BY DEF Making, Has, Holds

LEMMA SameViewUnmoved ==
  ASSUME NEW p \in Procs, \A q \in Procs \ {p} : proc'[q] = proc[q],
         NEW j \in Ids, SameView(p, j)
  PROVE  Unmoved(j)
<1>1. CASE life[j] # "live"
  BY <1>1 DEF SameView, Unmoved, StageOf, MakersOf, OwnersOf, ValueOf, OfLive
<1>2. CASE life[j] = "live"
  <2>1. \A q \in Procs : /\ Making(q, j)' <=> Making(q, j)
                         /\ Has(q, j)' <=> Has(q, j)
    BY <1>2, OthersParts DEF SameView
  <2>2. {q \in Procs : Making(q, j)}' = {q \in Procs : Making(q, j)}
    BY <2>1
  <2>3. {q \in Procs : Has(q, j)}' = {q \in Procs : Has(q, j)}
    BY <2>1
  <2>4. life'[j] = "live" /\ meta'[j] = meta[j]
    BY <1>2 DEF SameView, StageOf
  <2> QED
    BY <1>2, <2>2, <2>3, <2>4
       DEF Unmoved, StageOf, MakersOf, OwnersOf, ValueOf, OfLive
<1> QED
  BY <1>1, <1>2

\* Who makes a session is alone in that, and so is who has its lock.
LEMMA SoleParts ==
  ASSUME SessionInv, OwnerInv, NEW p \in Procs, NEW i \in Ids, life[i] = "live"
  PROVE  /\ Making(p, i) => MakersOf(i) = {p}
         /\ Has(p, i) => OwnersOf(i) = {p}
<1>1. \A q \in Procs : Making(p, i) /\ Making(q, i) => q = p
  BY DEF OwnerInv, SoleMaker, Making
<1>2. \A q \in Procs : Has(p, i) /\ Has(q, i) => q = p
  BY OneOwner
<1> QED
  BY <1>1, <1>2 DEF MakersOf, OwnersOf, OfLive

\* What p's part in session i becomes.
LEMMA NextParts ==
  ASSUME NEW p \in Procs, \A q \in Procs \ {p} : proc'[q] = proc[q],
         NEW i \in Ids, life[i] = "live", life'[i] = "live"
  PROVE  /\ MakersOf(i)' = (MakersOf(i) \ {p}) \cup
                           (IF Making(p, i)' THEN {p} ELSE {})
         /\ OwnersOf(i)' = (OwnersOf(i) \ {p}) \cup
                           (IF Has(p, i)' THEN {p} ELSE {})
<1>1. {q \in Procs : Making(q, i)}' =
        ({q \in Procs : Making(q, i)} \ {p}) \cup
        (IF Making(p, i)' THEN {p} ELSE {})
  BY OthersParts
<1>2. {q \in Procs : Has(q, i)}' =
        ({q \in Procs : Has(q, i)} \ {p}) \cup
        (IF Has(p, i)' THEN {p} ELSE {})
  BY OthersParts
<1> QED
  BY <1>1, <1>2 DEF MakersOf, OwnersOf, OfLive

\* Only session i changes: the four functions of the register.
OnlyAt(i) ==
  /\ [j \in Ids |-> StageOf(j)]' =
       [[j \in Ids |-> StageOf(j)] EXCEPT ![i] = StageOf(i)']
  /\ [j \in Ids |-> MakersOf(j)]' =
       [[j \in Ids |-> MakersOf(j)] EXCEPT ![i] = MakersOf(i)']
  /\ [j \in Ids |-> OwnersOf(j)]' =
       [[j \in Ids |-> OwnersOf(j)] EXCEPT ![i] = OwnersOf(i)']
  /\ [j \in Ids |-> ValueOf(j)]' =
       [[j \in Ids |-> ValueOf(j)] EXCEPT ![i] = ValueOf(i)']

LEMMA OneSession ==
  ASSUME NEW i \in Ids, \A j \in Ids \ {i} : Unmoved(j)
  PROVE  OnlyAt(i)
BY DEF Unmoved, OnlyAt

\* A function that changes at i alone, and not there either, stays as it is.
LEMMA OnlyAtSame ==
  ASSUME NEW i \in Ids, OnlyAt(i)
  PROVE  /\ StageOf(i)' = StageOf(i) =>
              [j \in Ids |-> StageOf(j)]' = [j \in Ids |-> StageOf(j)]
         /\ MakersOf(i)' = MakersOf(i) =>
              [j \in Ids |-> MakersOf(j)]' = [j \in Ids |-> MakersOf(j)]
         /\ OwnersOf(i)' = OwnersOf(i) =>
              [j \in Ids |-> OwnersOf(j)]' = [j \in Ids |-> OwnersOf(j)]
         /\ ValueOf(i)' = ValueOf(i) =>
              [j \in Ids |-> ValueOf(j)]' = [j \in Ids |-> ValueOf(j)]
<1>1. ASSUME NEW f, NEW g, NEW v, f = [j \in Ids |-> f[j]],
             g = [f EXCEPT ![i] = v], v = f[i]
      PROVE  g = f
  BY <1>1
<1> QED
  BY <1>1 DEF OnlyAt

\* Process p's part in session i decides who makes the session and who has it.
LEMMA PartMoved ==
  ASSUME SessionInv, OwnerInv, NEW p \in Procs,
         \A q \in Procs \ {p} : proc'[q] = proc[q],
         NEW i \in Ids, life[i] = "live", life'[i] = "live"
  PROVE  /\ Making(p, i) /\ ~Making(p, i)' =>
              MakersOf(i) = {p} /\ MakersOf(i)' = {}
         /\ (Making(p, i)' <=> Making(p, i)) => MakersOf(i)' = MakersOf(i)
         /\ Has(p, i) /\ ~Has(p, i)' => OwnersOf(i) = {p} /\ OwnersOf(i)' = {}
         /\ (Has(p, i)' <=> Has(p, i)) => OwnersOf(i)' = OwnersOf(i)
         /\ ~Has(p, i)' => OwnersOf(i)' = OwnersOf(i) \ {p}
         /\ OwnersOf(i) = {} /\ Has(p, i)' => OwnersOf(i)' = {p}
<1>1. /\ MakersOf(i)' = (MakersOf(i) \ {p}) \cup
                         (IF Making(p, i)' THEN {p} ELSE {})
      /\ OwnersOf(i)' = (OwnersOf(i) \ {p}) \cup
                         (IF Has(p, i)' THEN {p} ELSE {})
  BY NextParts
<1>2. /\ Making(p, i) => MakersOf(i) = {p}
      /\ Has(p, i) => OwnersOf(i) = {p}
  BY SoleParts
<1>3. (p \in MakersOf(i) => Making(p, i)) /\ (p \in OwnersOf(i) => Has(p, i))
  BY DEF MakersOf, OwnersOf, OfLive
<1>4. CASE Making(p, i)'
  BY <1>1, <1>2, <1>3, <1>4
<1>5. CASE ~Making(p, i)'
  BY <1>1, <1>2, <1>3, <1>5
<1> QED
  BY <1>4, <1>5

LEMMA NobodysSession ==
  ASSUME SessionInv, NEW i \in Ids, life[i] = "unused"
  PROVE  \A q \in Procs : ~Making(q, i) /\ ~Has(q, i)
<1> SUFFICES ASSUME NEW q \in Procs, Making(q, i) \/ Has(q, i) PROVE FALSE
  OBVIOUS
<1>1. proc[q].pc \notin {"idle", "scan"} /\ proc[q].cur = i
  BY ProcFacts DEF Making, Has, Holds, StepsOf
<1> QED
  BY <1>1, ProcFacts

LEMMA MoveIsRegister ==
  ASSUME SessionInv, OwnerInv, SessionInv', NEW p \in Procs,
         \A q \in Procs \ {p} : proc'[q] = proc[q], Moves(p)
  PROVE  [Register!RegisterNext]_(Register!register)
<1>1. CASE \A j \in Ids : SameView(p, j)
  <2>1. \A j \in Ids : Unmoved(j)
    BY <1>1, SameViewUnmoved
  <2> QED
    BY <2>1 DEF Unmoved, Register!register
<1>2. CASE \E i \in Ids : Views(p, i) /\ \A j \in Ids \ {i} : SameView(p, j)
  <2>1. PICK i \in Ids : Views(p, i) /\ \A j \in Ids \ {i} : SameView(p, j)
    BY <1>2
  <2>2. OnlyAt(i)
    BY <2>1, SameViewUnmoved, OneSession
  <2>9. /\ StageOf(i)' = StageOf(i) =>
             [j \in Ids |-> StageOf(j)]' = [j \in Ids |-> StageOf(j)]
        /\ MakersOf(i)' = MakersOf(i) =>
             [j \in Ids |-> MakersOf(j)]' = [j \in Ids |-> MakersOf(j)]
        /\ OwnersOf(i)' = OwnersOf(i) =>
             [j \in Ids |-> OwnersOf(j)]' = [j \in Ids |-> OwnersOf(j)]
        /\ ValueOf(i)' = ValueOf(i) =>
             [j \in Ids |-> ValueOf(j)]' = [j \in Ids |-> ValueOf(j)]
    BY <2>2, OnlyAtSame
  <2> SUFFICES Register!RegisterNext
    OBVIOUS
  <2>3. CASE MakeView(p, i)
    <3>1. /\ StageOf(i) = "unused" /\ StageOf(i)' = "live"
      BY <2>3 DEF MakeView, StageOf
    <3>2. MakersOf(i)' = {p}
      <4>1. \A q \in Procs : Making(q, i)' <=> q = p
        BY <2>3, NobodysSession, OthersParts DEF MakeView
      <4> QED
        BY <2>3, <4>1 DEF MakeView, MakersOf, OfLive
    <3>3. OwnersOf(i)' = OwnersOf(i)
      <4>1. \A q \in Procs : ~Has(q, i)'
        BY <2>3, NobodysSession, OthersParts DEF MakeView
      <4> QED
        BY <2>3, <4>1 DEF MakeView, OwnersOf, OfLive
    <3>4. ValueOf(i)' = ValueOf(i)
      BY <2>3 DEF MakeView, ValueOf, OfLive, OwnerInv, Blank
    <3>5. Register!Make(p, i)
      BY <2>2, <3>1, <3>2, <3>3, <3>4, <2>9 DEF OnlyAt, Register!Make
    <3> QED
      BY <3>5 DEF Register!RegisterNext
  <2>4. CASE MadeView(p, i)
    <3>1. life[i] = "live" /\ life'[i] = "live" /\ ValueOf(i)' = ValueOf(i)
          /\ StageOf(i) = "live" /\ StageOf(i)' = StageOf(i)
      BY <2>4 DEF MadeView, StageOf, ValueOf, OfLive
    <3>2. MakersOf(i) = {p} /\ MakersOf(i)' = {}
      BY <2>4, <3>1, PartMoved DEF MadeView
    <3>3. OwnersOf(i)' = OwnersOf(i) \/ OwnersOf(i)' = OwnersOf(i) \ {p}
      BY <2>4, <3>1, PartMoved DEF MadeView
    <3>4. Register!Made(p, i)
      BY <2>2, <3>1, <3>2, <3>3, <2>9 DEF OnlyAt, Register!Made
    <3> QED
      BY <3>4 DEF Register!RegisterNext
  <2>5. CASE TakeView(p, i)
    <3>1. life[i] = "live" /\ life'[i] = "live" /\ ValueOf(i)' = ValueOf(i)
          /\ StageOf(i) = "live" /\ StageOf(i)' = StageOf(i)
      BY <2>5 DEF TakeView, StageOf, ValueOf, OfLive
    <3>2. OwnersOf(i) = {} /\ OwnersOf(i)' = {p}
      <4>1. OwnersOf(i) = {}
        BY <2>5, <3>1 DEF TakeView, OwnersOf, OfLive
      <4> QED
        BY <2>5, <3>1, <4>1, PartMoved DEF TakeView
    <3>3. MakersOf(i)' = MakersOf(i)
      BY <2>5, <3>1, PartMoved DEF TakeView
    <3>4. Register!Take(p, i)
      BY <2>2, <3>1, <3>2, <3>3, <2>9 DEF OnlyAt, Register!Take
    <3> QED
      BY <3>4 DEF Register!RegisterNext
  <2>6. CASE WriteView(p, i)
    <3>1. life[i] = "live" /\ life'[i] = "live" /\ ValueOf(i)' = meta'[i]
          /\ StageOf(i) = "live" /\ StageOf(i)' = StageOf(i)
          /\ meta'[i] \in Meta
      BY <2>6 DEF WriteView, StageOf, ValueOf, OfLive, SessionInv, TypeOK
    <3>2. OwnersOf(i) = {p} /\ OwnersOf(i)' = OwnersOf(i)
      <4>1. Has(p, i) /\ Has(p, i)'
        BY <2>6 DEF WriteView
      <4>2. OwnersOf(i)' = OwnersOf(i)
        BY <3>1, <4>1, PartMoved
      <4> QED
        BY <3>1, <4>1, <4>2, SoleParts
    <3>3. MakersOf(i)' = MakersOf(i)
      BY <2>6, <3>1, PartMoved DEF WriteView
    <3>4. Register!Write(p, i, meta'[i])
      BY <2>2, <3>1, <3>2, <3>3, <2>9 DEF OnlyAt, Register!Write
    <3> QED
      BY <3>1, <3>4 DEF Register!RegisterNext
  <2>7. CASE LeaveView(p, i)
    <3>1. life[i] = "live" /\ life'[i] = "live" /\ ValueOf(i)' = ValueOf(i)
          /\ StageOf(i) = "live" /\ StageOf(i)' = StageOf(i)
      BY <2>7 DEF LeaveView, StageOf, ValueOf, OfLive
    <3>2. OwnersOf(i) = {p} /\ OwnersOf(i)' = {}
      BY <2>7, <3>1, PartMoved DEF LeaveView
    <3>3. MakersOf(i)' = MakersOf(i)
      BY <2>7, <3>1, PartMoved DEF LeaveView
    <3>4. Register!Leave(p, i)
      BY <2>2, <3>1, <3>2, <3>3, <2>9 DEF OnlyAt, Register!Leave
    <3> QED
      BY <3>4 DEF Register!RegisterNext
  <2>8. CASE GiveUpView(p, i)
    <3>1. /\ StageOf(i) = "live" /\ StageOf(i)' = "gone" /\ MakersOf(i)' = {}
          /\ OwnersOf(i)' = {} /\ ValueOf(i)' = NoMeta
      BY <2>8 DEF GiveUpView, StageOf, MakersOf, OwnersOf, ValueOf, OfLive
    <3>2. OwnersOf(i) = {p} \/ MakersOf(i) = {p}
      BY <2>8, SoleParts DEF GiveUpView
    <3>3. Register!GiveUp(p, i)
      BY <2>2, <3>1, <3>2 DEF OnlyAt, Register!GiveUp
    <3> QED
      BY <3>3 DEF Register!RegisterNext
  <2> QED
    BY <2>1, <2>3, <2>4, <2>5, <2>6, <2>7, <2>8 DEF Views
<1> QED
  BY <1>1, <1>2 DEF Moves

\* No session changes its life, and no live session its metadata.
QuietLives ==
  \A j \in Ids : life'[j] = life[j] /\ (life[j] = "live" => meta'[j] = meta[j])

SamePart(p) == /\ proc'[p].cur = proc[p].cur
               /\ proc'[p].op = "create" <=> proc[p].op = "create"
               /\ Holds(p)' <=> Holds(p)

\* A process that keeps its part, or has none before and after.
LEMMA SamePartMoves ==
  ASSUME NEW p \in Procs, QuietLives,
         SamePart(p) \/ (~Claims(p) /\ ~Claims(p)')
  PROVE  Moves(p)
<1>1. ASSUME NEW j \in Ids
      PROVE  (Making(p, j)' <=> Making(p, j)) /\ (Has(p, j)' <=> Has(p, j))
  BY DEF SamePart, Claims, Making, Has
<1> QED
  BY <1>1 DEF QuietLives, SameView, StageOf, Moves

\* A process that ends its part, or a part of it.
LEMMA EndMoves ==
  ASSUME NEW p \in Procs, QuietLives,
         \/ ~Claims(p)'
         \/ /\ proc'[p].cur = proc[p].cur
            /\ proc'[p].op = "create" => proc[p].op = "create"
            /\ Holds(p)' => Holds(p)
  PROVE  Moves(p)
<1>0. PICK i : i = proc[p].cur
  OBVIOUS
<1>1. \A j \in Ids : /\ Making(p, j)' => Making(p, j)
                     /\ Has(p, j)' => Has(p, j)
                     /\ j # i => ~Making(p, j) /\ ~Has(p, j)
  BY <1>0 DEF Claims, Making, Has
<1>2. \A j \in Ids \ {i} : SameView(p, j)
  BY <1>1 DEF QuietLives, SameView, StageOf
<1>3. CASE i \notin Ids \/ life[i] # "live"
  BY <1>2, <1>3 DEF QuietLives, SameView, StageOf, Moves
<1>4. CASE i \in Ids /\ life[i] = "live"
  <2>1. life'[i] = "live" /\ meta'[i] = meta[i]
    BY <1>4 DEF QuietLives
  <2>2. CASE Making(p, i) /\ ~Making(p, i)'
    BY <1>1, <1>2, <1>4, <2>1, <2>2 DEF MadeView, Views, Moves
  <2>3. CASE (Making(p, i)' <=> Making(p, i)) /\ Has(p, i) /\ ~Has(p, i)'
    BY <1>2, <1>4, <2>1, <2>3 DEF LeaveView, Views, Moves
  <2>4. CASE (Making(p, i)' <=> Making(p, i)) /\ (Has(p, i)' <=> Has(p, i))
    BY <1>2, <2>1, <2>4, <1>4 DEF SameView, StageOf, Moves
  <2> QED
    BY <1>1, <1>4, <2>2, <2>3, <2>4
<1> QED
  BY <1>3, <1>4

\* A process that writes its session.
LEMMA WriteMoves ==
  ASSUME NEW p \in Procs, SamePart(p),
         proc[p].cur \in Ids /\ life[proc[p].cur] = "live" => Holds(p),
         \A j \in Ids : life'[j] = life[j],
         \A j \in Ids \ {proc[p].cur} : meta'[j] = meta[j]
  PROVE  Moves(p)
<1> DEFINE i == proc[p].cur
<1>1. ASSUME NEW j \in Ids
      PROVE  (Making(p, j)' <=> Making(p, j)) /\ (Has(p, j)' <=> Has(p, j))
  BY DEF SamePart, Making, Has
<1>2. \A j \in Ids \ {i} : SameView(p, j)
  BY <1>1 DEF SameView, StageOf
<1>3. CASE i \notin Ids \/ life[i] # "live"
  BY <1>2, <1>3 DEF SameView, StageOf, Moves
<1>4. CASE i \in Ids /\ life[i] = "live"
  BY <1>1, <1>2, <1>4 DEF Has, WriteView, Views, Moves
<1> QED
  BY <1>3, <1>4

LEMMA QuietDiskLives ==
  ASSUME UNCHANGED <<life, meta>>
  PROVE  QuietLives
BY DEF QuietLives

\* What a step makes of its process.
LEMMA StepTo ==
  ASSUME SessionInv, NEW p \in Procs, NEW r, Step(p, r)
  PROVE  proc'[p] = r
BY DEF Step, SessionInv, TypeOK

LEMMA IdleMoves ==
  ASSUME SessionInv, NEW p \in Procs, QuietLives,
         Step(p, Idle) \/ Step(p, NextEntry(p))
  PROVE  Moves(p)
<1>0. proc'[p] = Idle \/ proc'[p] = NextEntry(p)
  BY StepTo
<1>1. proc'[p].op # "create" /\ proc'[p].fd = NoInode
  <2>1. Idle.op = "none" /\ Idle.fd = NoInode
    BY DEF Idle
  <2>2. NextEntry(p).op = "cleanup" /\ NextEntry(p).fd = NoInode
    BY DEF Idle, NextEntry
  <2> QED
    BY <1>0, <2>1, <2>2
<1>2. ~Claims(p)'
  BY <1>1 DEF Claims, Holds
<1> QED
  BY <1>2, EndMoves

LEMMA AcquireMoves ==
  ASSUME SessionInv, OwnerInv, NEW p \in Procs, Acquire(p)
  PROVE  Moves(p)
<1>1. proc[p].pc = "lock" /\ ~Holds(p) /\ proc[p] \in Proc
  BY ProcType DEF Acquire, OpenLockFile, OpenLockFails, TryLock, LockBusy, Holds
<1>2. CASE OpenLockFile(p)
  <2>1. PICK n : Step(p, [proc[p] EXCEPT !.fd = n])
    BY <1>2 DEF OpenLockFile
  <2>2. SamePart(p)
    BY <1>1, <2>1, StepTo DEF Proc, SamePart, Holds
  <2> QED
    BY <1>2, <2>2, QuietDiskLives, SamePartMoves DEF OpenLockFile
<1>3. CASE OpenLockFails(p)
  <2>1. QuietLives
    BY <1>3, QuietDiskLives DEF OpenLockFails, disk
  <2>2. CASE proc[p].op = "create"
    <3>1. proc'[p] = [proc[p] EXCEPT !.pc = "remove"] /\ proc[p].fd = NoInode
      BY <1>3, <2>2, StepTo DEF OpenLockFails, Goto
    <3>2. SamePart(p)
      BY <1>1, <3>1 DEF Proc, SamePart, Holds
    <3> QED
      BY <2>1, <3>2, SamePartMoves
  <2>3. CASE proc[p].op # "create"
    BY <1>3, <2>1, <2>3, IdleMoves DEF OpenLockFails
  <2> QED
    BY <2>2, <2>3
<1>4. CASE TryLock(p)
  <2>1. PICK i, s : /\ i = proc[p].cur /\ s = AfterLock[proc[p].op]
    OBVIOUS
  <2>2. /\ proc[p].fd # NoInode /\ i \in Ids /\ life[i] # "unused"
        /\ life[i] = "live" => link[i] = proc[p].fd
        /\ s \in {"meta", "reread", "remove"}
    BY <1>1, <1>4, <2>1, ProcFacts DEF TryLock, AfterLock, Ops, StepsOf
  <2>3. UNCHANGED disk /\ proc'[p] = [proc[p] EXCEPT !.pc = s]
    BY <1>4, <2>1, StepTo DEF TryLock, Goto
  <2>4. /\ proc'[p].cur = i /\ proc'[p].op = proc[p].op
        /\ Holds(p)' /\ UNCHANGED <<life, meta>>
    BY <1>1, <2>1, <2>2, <2>3 DEF Proc, Holds, disk
  <2>5. ASSUME NEW j \in Ids
        PROVE  /\ Making(p, j)' <=> Making(p, j)
               /\ Has(p, j)' <=> j = i
               /\ ~Has(p, j)
    BY <1>1, <2>1, <2>4 DEF Making, Has
  <2>6. CASE life[i] # "live"
    BY <2>4, <2>5, <2>6 DEF SameView, StageOf, Moves
  <2>7. CASE life[i] = "live"
    <3>1. ASSUME NEW q \in Procs, Has(q, i) PROVE FALSE
      <4>1. proc[q].cur = i /\ proc[q].fd = link[i]
        BY <2>7, <3>1, ProcFacts DEF Has, Holds
      <4> QED
        BY <1>4, <2>1, <2>2, <2>7, <3>1, <4>1 DEF TryLock, Locked
    <3>2. TakeView(p, i)
      BY <2>2, <2>4, <2>5, <2>7, <3>1 DEF TakeView
    <3>3. \A j \in Ids \ {i} : SameView(p, j)
      BY <2>4, <2>5 DEF SameView, StageOf
    <3> QED
      BY <2>2, <3>2, <3>3 DEF Views, Moves
  <2> QED
    BY <2>6, <2>7
<1>5. CASE LockBusy(p)
  <2>1. QuietLives
    BY <1>5, QuietDiskLives DEF LockBusy, disk
  <2>2. CASE Step(p, [proc[p] EXCEPT !.pc = "remove", !.fd = NoInode])
    <3>1. proc'[p] = [proc[p] EXCEPT !.pc = "remove", !.fd = NoInode]
      BY <2>2, StepTo
    <3>2. SamePart(p)
      BY <1>1, <2>2, <3>1 DEF Proc, SamePart, Holds
    <3> QED
      BY <2>1, <3>2, SamePartMoves
  <2> QED
    BY <1>5, <2>1, <2>2, IdleMoves DEF LockBusy
<1> QED
  BY <1>2, <1>3, <1>4, <1>5 DEF Acquire

LEMMA CreateMoves ==
  ASSUME SessionInv, OwnerInv, NEW p \in Procs, Create(p)
  PROVE  Moves(p)
<1>1. /\ proc[p].pc \in {"meta", "summary", "events", "snapshot"}
      /\ proc[p] \in Proc
  BY ProcType DEF Create, CreateMeta, CreateSummary, CreateEvents, CreateFile,
                  CreateReturn, CreateFails
<1>2. Holds(p) /\ proc[p].op = "create"
  BY <1>1, ProcFacts DEF OwnerInv, OwnedLock, Holds, Ops, StepsOf
<1>3. CASE CreateMeta(p)
  <2>1. PICK m : /\ Step(p, [proc[p] EXCEPT !.pc = "summary", !.mem = m])
                 /\ meta' = [meta EXCEPT ![proc[p].cur] = m]
    BY <1>3 DEF CreateMeta
  <2>2. SamePart(p)
    <3>1. proc'[p] = [proc[p] EXCEPT !.pc = "summary", !.mem = m]
      BY <2>1, StepTo
    <3>2. /\ proc'[p].cur = proc[p].cur /\ proc'[p].op = proc[p].op
          /\ proc'[p].fd = proc[p].fd /\ proc'[p].pc = "summary"
      BY <1>1, <3>1 DEF Proc
    <3> QED
      BY <1>2, <3>2 DEF SamePart, Holds
  <2>3. life' = life /\ \A j \in Ids \ {proc[p].cur} : meta'[j] = meta[j]
    BY <1>3, <2>1, ProcType DEF TypeOK, CreateMeta
  <2> QED
    BY <1>2, <2>2, <2>3, WriteMoves
<1>4. CASE CreateSummary(p) \/ CreateEvents(p)
  <2>1. PICK next \in {"events", "snapshot"} :
          Step(p, [proc[p] EXCEPT !.pc = next]) /\ UNCHANGED <<life, meta>>
    BY <1>4 DEF CreateSummary, CreateEvents, CreateFile, Goto
  <2>2. SamePart(p)
    BY <1>1, <1>2, <2>1, StepTo DEF Proc, SamePart, Holds
  <2> QED
    BY <2>1, <2>2, QuietDiskLives, SamePartMoves
<1>5. CASE CreateReturn(p) \/ CreateFails(p)
  <2>1. \/ Step(p, [proc[p] EXCEPT !.op = "use", !.pc = "ready"])
        \/ Step(p, [proc[p] EXCEPT !.pc = "remove", !.fd = NoInode])
    BY <1>5 DEF CreateReturn, CreateFails
  <2>2. UNCHANGED <<life, meta>>
    BY <1>5 DEF CreateReturn, CreateFails, disk
  <2>3. /\ proc'[p].cur = proc[p].cur
        /\ proc'[p].op = "create" => proc[p].op = "create"
        /\ Holds(p)' => Holds(p)
    <3>1. \/ proc'[p] = [proc[p] EXCEPT !.op = "use", !.pc = "ready"]
          \/ proc'[p] = [proc[p] EXCEPT !.pc = "remove", !.fd = NoInode]
      BY <2>1, StepTo
    <3>2. proc'[p].cur = proc[p].cur
      BY <1>1, <3>1 DEF Proc
    <3> QED
      BY <1>2, <3>2
  <2> QED
    BY <2>2, <2>3, QuietDiskLives, EndMoves
<1> QED
  BY <1>3, <1>4, <1>5 DEF Create

LEMMA ResumeMoves ==
  ASSUME SessionInv, OwnerInv, NEW p \in Procs, Resume(p) \/ CleanupExpired(p)
  PROVE  Moves(p)
<1>1. QuietLives /\ proc[p] \in Proc
  BY QuietDiskLives, ProcType
     DEF Resume, CleanupExpired, ResumeEntry, ResumeChoose, Reread, Check,
         CleanupEntry, CleanupEnd, disk
<1>2. CASE ResumeEntry(p) \/ ResumeChoose(p) \/ CleanupEntry(p) \/ CleanupEnd(p)
  <2>1. proc[p].pc = "scan"
    BY <1>2 DEF ResumeEntry, ResumeChoose, CleanupEntry, CleanupEnd
  <2>2. proc[p].fd = NoInode /\ proc[p].op # "create"
    BY <2>1, ProcFacts DEF Ops, StepsOf
  <2>3. \/ Step(p, Idle)
        \/ \E i \in Ids : Step(p, [proc[p] EXCEPT !.pc = "lock", !.cur = i])
        \/ \E i \in Ids, match \in SUBSET Ids :
              Step(p, [proc[p] EXCEPT !.todo = @ \ {i}, !.found = @ \cup match])
        \/ \E i \in Ids : Step(p, [proc[p] EXCEPT !.todo = @ \ {i}])
    <3>1. CASE ResumeEntry(p)
      BY <3>1 DEF ResumeEntry
    <3>2. CASE ResumeChoose(p)
      <4>1. proc[p].found \subseteq Ids
        BY ProcType
      <4> QED
        BY <3>2, <4>1 DEF ResumeChoose
    <3>3. CASE CleanupEntry(p)
      BY <3>3 DEF CleanupEntry
    <3>4. CASE CleanupEnd(p)
      BY <3>4 DEF CleanupEnd
    <3> QED
      BY <1>2, <3>1, <3>2, <3>3, <3>4
  <2>4. proc'[p] = Idle \/ (proc'[p].fd = NoInode /\ proc'[p].op = proc[p].op)
    <3>1. \/ proc'[p] = Idle
          \/ \E i \in Ids : proc'[p] = [proc[p] EXCEPT !.pc = "lock", !.cur = i]
          \/ \E i \in Ids, match \in SUBSET Ids :
                proc'[p] = [proc[p] EXCEPT !.todo = @ \ {i}, !.found = @ \cup match]
          \/ \E i \in Ids : proc'[p] = [proc[p] EXCEPT !.todo = @ \ {i}]
      BY <2>3, StepTo
    <3> QED
      BY <1>1, <2>2, <3>1 DEF Proc
  <2>5. ~Claims(p)'
    BY <2>2, <2>4 DEF Claims, Holds, Idle
  <2> QED
    BY <1>1, <2>5, EndMoves
<1>3. CASE Reread(p) \/ Check(p)
  <2>1. proc[p].pc \in {"reread", "check"}
    BY <1>3 DEF Reread, Check
  <2>2. Holds(p) /\ proc[p].op = "resume"
    BY <2>1, ProcFacts DEF OwnerInv, OwnedLock, Holds, Ops, StepsOf
  <2>3. \/ Step(p, Idle)
        \/ \E m : Step(p, [proc[p] EXCEPT !.pc = "check", !.mem = m])
        \/ Step(p, [Idle EXCEPT !.op = "use", !.pc = "ready",
                      !.cur = proc[p].cur, !.fd = proc[p].fd, !.mem = proc[p].mem])
    BY <1>3 DEF Reread, Check
  <2>4. CASE ~Step(p, Idle)
    <3>1. \/ \E m : proc'[p] = [proc[p] EXCEPT !.pc = "check", !.mem = m]
          \/ proc'[p] = [Idle EXCEPT !.op = "use", !.pc = "ready",
                           !.cur = proc[p].cur, !.fd = proc[p].fd,
                           !.mem = proc[p].mem]
      BY <2>3, <2>4, StepTo
    <3>2. /\ proc'[p].cur = proc[p].cur /\ proc'[p].fd = proc[p].fd
          /\ proc'[p].op \in {"resume", "use"} /\ proc'[p].pc \in {"check", "ready"}
      <4>1. CASE \E m : proc'[p] = [proc[p] EXCEPT !.pc = "check", !.mem = m]
        BY <1>1, <2>2, <4>1 DEF Proc
      <4>2. CASE proc'[p] = [Idle EXCEPT !.op = "use", !.pc = "ready",
                               !.cur = proc[p].cur, !.fd = proc[p].fd,
                               !.mem = proc[p].mem]
        BY <4>2 DEF Idle
      <4> QED
        BY <3>1, <4>1, <4>2
    <3>3. SamePart(p)
      BY <2>2, <3>2 DEF SamePart, Holds
    <3> QED
      BY <1>1, <3>3, SamePartMoves
  <2> QED
    BY <1>1, <2>4, IdleMoves
<1> QED
  BY <1>2, <1>3 DEF Resume, CleanupExpired

LEMMA RemoveAllMoves ==
  ASSUME SessionInv, OwnerInv, NEW p \in Procs, RemoveAll(p)
  PROVE  Moves(p)
<1>0. PICK i : i = proc[p].cur
  OBVIOUS
<1>1. /\ TypeOK /\ proc[p] \in Proc /\ proc[p].pc \in {"remove", "unlink"}
      /\ i \in Ids /\ life[i] # "unused"
      /\ proc[p].pc = "unlink" => life[i] = "doomed"
      /\ life[i] = "live" => Making(p, i) \/ Has(p, i)
  <2>1. proc[p].pc \in {"remove", "unlink"}
    BY DEF RemoveAll, RemoveList, Rmdir, RmdirFails, Unlink, UnlinkFails
  <2>2. i \in Ids /\ proc[p].op \in {"create", "cleanup", "use"}
    BY <1>0, <2>1, ProcFacts DEF StepsOf, Ops
  <2>3. life[i] = "live" /\ proc[p].op # "create" => proc[p].fd # NoInode
    BY <1>0, <2>1, <2>2 DEF OwnerInv, OwnedLock
  <2> QED
    BY <1>0, <2>1, <2>2, <2>3, ProcFacts DEF Making, Has, Holds
<1>2. CASE RemoveList(p)
  <2>1. /\ life' = [life EXCEPT ![i] = "doomed"] /\ meta' = meta
        /\ proc'[p] = [proc[p] EXCEPT !.pc = "unlink", !.names = dir[i] \ {"."}]
    BY <1>0, <1>2, StepTo DEF RemoveList
  <2>2. life'[i] = "doomed" /\ \A j \in Ids \ {i} : life'[j] = life[j]
    BY <1>1, <2>1 DEF TypeOK
  <2>3. proc'[p].cur = i
    BY <1>0, <1>1, <2>1 DEF Proc
  <2>4. \A j \in Ids \ {i} : SameView(p, j)
    BY <1>0, <2>1, <2>2, <2>3 DEF SameView, StageOf, Making, Has
  <2>5. CASE life[i] = "live"
    BY <1>1, <2>2, <2>4, <2>5 DEF GiveUpView, Views, Moves
  <2>6. CASE life[i] # "live"
    <3>1. life[i] \in {"stray", "doomed"}
      BY <1>1, <2>6 DEF TypeOK
    <3> QED
      BY <2>2, <2>4, <3>1 DEF SameView, StageOf, Moves
  <2> QED
    BY <2>5, <2>6
<1>3. CASE proc[p].pc = "unlink"
  <2>1. life' = life /\ \A j \in Ids \ {i} : meta'[j] = meta[j]
    BY <1>0, <1>1, <1>3
       DEF TypeOK, RemoveAll, RemoveList, Rmdir, RmdirFails, Unlink, UnlinkFails,
           disk
  <2>2. QuietLives
    BY <1>1, <1>3, <2>1 DEF QuietLives
  <2>3. \/ \E f \in Entries : Step(p, [proc[p] EXCEPT !.names = @ \ {f}])
        \/ Step(p, Idle)
        \/ \E s \in {"unlock", "ready"} : Step(p, [proc[p] EXCEPT !.pc = s])
    BY <1>3 DEF RemoveAll, RemoveList, Rmdir, RmdirFails, Unlink, UnlinkFails, Goto
  <2>4. CASE ~Step(p, Idle)
    <3>1. \/ \E f \in Entries : proc'[p] = [proc[p] EXCEPT !.names = @ \ {f}]
          \/ \E s \in {"unlock", "ready"} : proc'[p] = [proc[p] EXCEPT !.pc = s]
      BY <2>3, <2>4, StepTo
    <3>2. SamePart(p)
      BY <1>1, <1>3, <3>1 DEF Proc, SamePart, Holds
    <3> QED
      BY <2>2, <3>2, SamePartMoves
  <2> QED
    BY <2>2, <2>4, IdleMoves
<1> QED
  BY <1>1, <1>2, <1>3
     DEF RemoveAll, RemoveList, Rmdir, RmdirFails, Unlink, UnlinkFails

LEMMA BeginMoves ==
  ASSUME SessionInv, OwnerInv, NEW p \in Procs, Begin(p)
  PROVE  Moves(p)
<1>1. proc[p].pc = "idle" /\ ~Claims(p)
  <2>1. proc[p].pc = "idle"
    BY DEF Begin, CreateDir, ResumeById, ResumeByName, CleanupStart
  <2> QED
    BY <2>1, ProcFacts DEF Claims, Holds, Ops, StepsOf
<1>2. CASE \E i \in Ids, n \in Names \cup {NoName} : CreateDir(p, i, n)
  <2>1. PICK i \in Ids, n \in Names \cup {NoName} : CreateDir(p, i, n)
    BY <1>2
  <2>2. proc'[p] = [Idle EXCEPT !.op = "create", !.pc = "lock", !.cur = i,
                                !.mem = [NoMeta EXCEPT !.name = n]]
    BY <2>1, StepTo DEF CreateDir
  <2>3. /\ proc'[p].op = "create" /\ proc'[p].cur = i /\ proc'[p].fd = NoInode
    BY <2>2 DEF Idle
  <2>4. \A j \in Ids : /\ Making(p, j)' <=> j = i
                       /\ ~Has(p, j)' /\ ~Making(p, j) /\ ~Has(p, j)
    BY <1>1, <2>3 DEF Making, Has, Holds, Claims
  <2>5. /\ life[i] = "unused" /\ life'[i] = "live" /\ meta' = meta
        /\ \A j \in Ids \ {i} : life'[j] = life[j]
    BY <2>1, ProcType DEF CreateDir, TypeOK
  <2>6. MakeView(p, i) /\ \A j \in Ids \ {i} : SameView(p, j)
    BY <2>4, <2>5 DEF MakeView, SameView, StageOf
  <2> QED
    BY <2>6 DEF Views, Moves
<1>3. CASE \/ \E i \in Ids : ResumeById(p, i)
           \/ \E n \in Names : ResumeByName(p, n)
           \/ CleanupStart(p)
  <2>1. UNCHANGED <<life, meta>>
    BY <1>3 DEF ResumeById, ResumeByName, CleanupStart, disk
  <2>2. \/ \E i \in Ids :
             proc'[p] = [Idle EXCEPT !.op = "resume", !.pc = "lock", !.cur = i]
        \/ \E n \in Names :
             proc'[p] = [Idle EXCEPT !.op = "resume", !.pc = "scan",
                                     !.ask = n, !.todo = Listing]
        \/ proc'[p] = [Idle EXCEPT !.op = "cleanup", !.pc = "scan",
                                   !.asof = clock, !.todo = Listing]
    BY <1>3, StepTo DEF ResumeById, ResumeByName, CleanupStart
  <2>3. proc'[p].op # "create" /\ proc'[p].fd = NoInode
    BY <2>2 DEF Idle
  <2>4. ~Claims(p)'
    BY <2>3 DEF Claims, Holds
  <2> QED
    BY <2>1, <2>4, QuietDiskLives, EndMoves
<1> QED
  BY <1>2, <1>3 DEF Begin

LEMMA UseMoves ==
  ASSUME SessionInv, OwnerInv, NEW p \in Procs, Use(p)
  PROVE  Moves(p)
<1>1. /\ TypeOK /\ proc[p] \in Proc /\ proc[p].pc = "ready"
      /\ proc[p].op = "use" /\ proc[p].cur \in Ids
      /\ life[proc[p].cur] = "live" => Holds(p)
  <2>1. proc[p].pc = "ready"
    BY DEF Use, SetName, SaveMeta, SaveSummary, SummaryLost, AppendEvent, Close
  <2> QED
    BY <2>1, ProcFacts DEF OwnerInv, OwnedLock, Holds, Ops, StepsOf
<1>2. ASSUME NEW m, NEW files, NEW next \in {"ready", "remove", "unlock"},
             Persisted(p, m, files, next)
      PROVE  Moves(p)
  <2>1. proc'[p] = [proc[p] EXCEPT !.mem = m, !.dirty = @ \ {"meta.json"},
                                   !.pc = next]
    BY <1>2, StepTo DEF Persisted
  <2>2. SamePart(p)
    BY <1>1, <2>1 DEF Proc, SamePart, Holds
  <2>3. life' = life /\ \A j \in Ids \ {proc[p].cur} : meta'[j] = meta[j]
    BY <1>1, <1>2 DEF Persisted, TypeOK
  <2> QED
    BY <1>1, <2>2, <2>3, WriteMoves
<1>3. ASSUME NEW m, NEW files, NotPersisted(p, m, files)
      PROVE  Moves(p)
  <2>1. proc'[p] = [proc[p] EXCEPT !.mem = m, !.dirty = @ \cup {"meta.json"}]
    BY <1>3, StepTo DEF NotPersisted
  <2>2. SamePart(p)
    BY <1>1, <2>1 DEF Proc, SamePart, Holds
  <2>3. life' = life /\ \A j \in Ids \ {proc[p].cur} : meta'[j] = meta[j]
    BY <1>1, <1>3 DEF NotPersisted, TypeOK
  <2> QED
    BY <1>1, <2>2, <2>3, WriteMoves
<1>4. ASSUME NEW m, Persist(p, m) PROVE Moves(p)
  BY <1>2, <1>3, <1>4 DEF Persist
<1>5. CASE SaveSummary(p) \/ SummaryLost(p)
  <2>1. PICK d : Step(p, [proc[p] EXCEPT !.dirty = d]) /\ UNCHANGED <<life, meta>>
    BY <1>5 DEF SaveSummary, SummaryLost
  <2>2. SamePart(p)
    BY <1>1, <2>1, StepTo DEF Proc, SamePart, Holds
  <2> QED
    BY <2>1, <2>2, QuietDiskLives, SamePartMoves
<1>6. CASE AppendEvent(p)
  BY <1>2, <1>3, <1>6 DEF AppendEvent
<1>7. ASSUME NEW s \in {"clean", "aborted"}, Close(p, s) PROVE Moves(p)
  <2>1. PICK m, next :
          /\ next \in {"ready", "remove", "unlock"}
          /\ Persisted(p, m, {"meta.json"}, next) \/ NotPersisted(p, m, {})
    BY <1>7 DEF Close
  <2> QED
    BY <1>2, <1>3, <2>1
<1>8. CASE \E n \in Names \cup {NoName} : SetName(p, n)
  BY <1>4, <1>8 DEF SetName
<1>9. CASE \E n \in Names \cup {NoName}, s \in Statuses : SaveMeta(p, n, s)
  BY <1>4, <1>9 DEF SaveMeta
<1> QED
  BY <1>5, <1>6, <1>7, <1>8, <1>9 DEF Use

\* A Close that fails to unlock gives its session up.
LEMMA UnlockFailsMoves ==
  ASSUME SessionInv, OwnerInv, NEW p \in Procs, UnlockFails(p)
  PROVE  Moves(p)
<1> DEFINE i == proc[p].cur
<1>1. CASE proc[p].op = "cleanup"
  <2>1. QuietLives /\ Step(p, Idle)
    BY <1>1, QuietDiskLives DEF UnlockFails
  <2> QED
    BY <2>1, IdleMoves
<1>2. CASE proc[p].op # "cleanup"
  <2>1. /\ TypeOK /\ proc[p] \in Proc /\ i \in Ids /\ proc[p].op = "use"
        /\ proc[p].pc = "unlock" /\ life[i] # "unused"
    BY <1>2, ProcFacts DEF UnlockFails, StepsOf, Ops
  <2>2. /\ proc'[p] = [proc[p] EXCEPT !.pc = "ready", !.fd = NoInode]
        /\ life' = [life EXCEPT ![i] = IF @ = "live" THEN "stray" ELSE @]
        /\ meta' = meta
    BY <1>2, StepTo DEF UnlockFails
  <2>3. proc'[p].cur = i
    BY <2>1, <2>2 DEF Proc
  <2>4. \A j \in Ids \ {i} : life'[j] = life[j]
    BY <2>1, <2>2 DEF TypeOK
  <2>5. \A j \in Ids \ {i} : SameView(p, j)
    BY <2>2, <2>3, <2>4 DEF SameView, StageOf, Making, Has
  <2>6. CASE life[i] = "live"
    <3>1. Has(p, i)
      BY <2>1, <2>6 DEF OwnerInv, OwnedLock, Has, Holds
    <3>2. life'[i] = "stray"
      BY <2>1, <2>2, <2>6 DEF TypeOK
    <3> QED
      BY <2>1, <2>5, <2>6, <3>1, <3>2 DEF GiveUpView, Views, Moves
  <2>7. CASE life[i] # "live"
    <3>1. life'[i] = life[i]
      BY <2>1, <2>2, <2>7 DEF TypeOK
    <3> QED
      BY <2>5, <2>7, <3>1 DEF SameView, StageOf, Moves
  <2> QED
    BY <2>6, <2>7
<1> QED
  BY <1>1, <1>2

LEMMA ProcMoves ==
  ASSUME SessionInv, OwnerInv, NEW p \in Procs,
         Begin(p) \/ Use(p) \/ Progress(p) \/ Crash(p)
  PROVE  Moves(p)
<1>1. CASE Unlock(p) \/ Crash(p)
  <2>1. QuietLives /\ (Step(p, Idle) \/ Step(p, NextEntry(p)))
    BY <1>1, QuietDiskLives DEF Unlock, Crash, disk
  <2> QED
    BY <2>1, IdleMoves
<1> QED
  BY <1>1, BeginMoves, UseMoves, AcquireMoves, CreateMoves, ResumeMoves,
     RemoveAllMoves, UnlockFailsMoves DEF Progress

\* Time passes, or nothing happens.
LEMMA QuietIsRegister ==
  ASSUME UNCHANGED <<disk, proc>>
  PROVE  UNCHANGED Register!register
<1>1. UNCHANGED <<life, meta, proc>>
  BY DEF disk
<1>2. ASSUME NEW j \in Ids PROVE Unmoved(j)
  <2>1. \A q \in Procs : (Making(q, j)' <=> Making(q, j)) /\ (Has(q, j)' <=> Has(q, j))
    BY <1>1 DEF Making, Has, Holds
  <2>2. {q \in Procs : Making(q, j)}' = {q \in Procs : Making(q, j)}
    BY <2>1
  <2>3. {q \in Procs : Has(q, j)}' = {q \in Procs : Has(q, j)}
    BY <2>1
  <2> QED
    BY <1>1, <2>2, <2>3
       DEF Unmoved, StageOf, MakersOf, OwnersOf, ValueOf, OfLive
<1> QED
  BY <1>2 DEF Unmoved, Register!register

LEMMA InitIsRegister == Init => Register!RegisterInit
<1> SUFFICES ASSUME Init PROVE Register!RegisterInit
  OBVIOUS
<1>1. ASSUME NEW i \in Ids
      PROVE  /\ StageOf(i) = "unused" /\ MakersOf(i) = {} /\ OwnersOf(i) = {}
             /\ ValueOf(i) = NoMeta
  BY DEF Init, StageOf, MakersOf, OwnersOf, ValueOf, OfLive
<1> QED
  BY <1>1 DEF Register!RegisterInit

\* Whatever is interleaved, crashes or fails, a session is a register owned by
\* one process at a time: its value changes only by its owner, until its owner,
\* or the process whose Create of it has failed, gives it up by a RemoveAll or
\* by a Close that fails to unlock.
THEOREM StoreIsRegister == Spec => ImplementsRegister
<1>1. SessionInv /\ SessionInv' /\ OwnerInv /\ [Next]_vars =>
        [Register!RegisterNext]_(Register!register)
  <2> SUFFICES ASSUME SessionInv, SessionInv', OwnerInv, [Next]_vars
               PROVE  [Register!RegisterNext]_(Register!register)
    OBVIOUS
  <2>1. CASE Tick \/ UNCHANGED vars
    BY <2>1, QuietIsRegister DEF Tick, vars, disk
  <2>2. ASSUME NEW p \in Procs, Begin(p) \/ Use(p) \/ Progress(p) \/ Crash(p)
        PROVE  [Register!RegisterNext]_(Register!register)
    BY <2>2, ProcMoves, OthersStay, MoveIsRegister
  <2> QED
    BY <2>1, <2>2 DEF Next
<1> QED
  BY <1>1, InitIsRegister, SessionInvariant, OwnerInvariant, PTL
     DEF Spec, ImplementsRegister, Register!RegisterSpec

-----------------------------------------------------------------------------
(* Resume by name.                                                          *)

\* A directory that is there has its own entry, and that is never unlinked.
DotInv == /\ \A i \in Ids : dir[i] # {} => "." \in dir[i]
          /\ \A p \in Procs : "." \notin proc[p].names

\* What a step of p may do to directories and to what it unlinks.
DotRule(p) == /\ \A i \in Ids : dir'[i] # {} => "." \in dir'[i]
              /\ "." \notin proc'[p].names

LEMMA DotAdd ==
  ASSUME SessionInv, DotInv, NEW p \in Procs, proc'[p].names = proc[p].names,
         \/ UNCHANGED dir
         \/ \E i \in Ids : Exists(i) /\ \E files \in SUBSET Entries :
              dir' = [dir EXCEPT ![i] = @ \cup files]
  PROVE  DotRule(p)
BY ProcType DEF TypeOK, DotInv, DotRule, Exists

\* A file other than the directory itself may go.
LEMMA DotRemoves ==
  ASSUME SessionInv, DotInv, NEW p \in Procs, proc'[p].names = proc[p].names,
         NEW i \in Ids, NEW files \in SUBSET Entries, NEW lost, "." \notin lost,
         files = {} \/ Exists(i), dir' = [dir EXCEPT ![i] = (@ \cup files) \ lost]
  PROVE  DotRule(p)
BY ProcType DEF TypeOK, DotInv, DotRule, Exists

LEMMA DotIdle ==
  ASSUME SessionInv, DotInv, NEW p \in Procs, UNCHANGED dir,
         Step(p, Idle) \/ Step(p, NextEntry(p))
  PROVE  DotRule(p)
<1>1. proc'[p] = Idle \/ proc'[p] = NextEntry(p)
  BY StepTo
<1>2. Idle.names = {} /\ NextEntry(p).names = {}
  BY DEF Idle, NextEntry
<1> QED
  BY <1>1, <1>2 DEF DotInv, DotRule

LEMMA DotAcquire ==
  ASSUME SessionInv, DotInv, NEW p \in Procs, Acquire(p)
  PROVE  DotRule(p)
<1>1. proc[p] \in Proc /\ TypeOK /\ proc[p].cur \in Ids
  <2>1. proc[p].pc = "lock"
    BY DEF Acquire, OpenLockFile, OpenLockFails, TryLock, LockBusy
  <2> QED
    BY <2>1, ProcFacts
<1>2. CASE OpenLockFile(p)
  <2>1. PICK n : Step(p, [proc[p] EXCEPT !.fd = n])
    BY <1>2 DEF OpenLockFile
  <2>2. proc'[p].names = proc[p].names
    BY <1>1, <2>1, StepTo DEF Proc
  <2>3. \/ UNCHANGED dir
        \/ dir' = [dir EXCEPT ![proc[p].cur] = @ \cup {"owner.lock"}]
    BY <1>2 DEF OpenLockFile, Add
  <2>4. Exists(proc[p].cur) /\ {"owner.lock"} \in SUBSET Entries
    BY <1>2 DEF OpenLockFile, Entries
  <2> QED
    BY <1>1, <2>2, <2>3, <2>4, DotAdd
<1>3. CASE OpenLockFails(p) \/ TryLock(p) \/ LockBusy(p)
  <2>1. UNCHANGED dir
    BY <1>3 DEF OpenLockFails, TryLock, LockBusy, disk
  <2>2. \/ Step(p, Idle) \/ Step(p, NextEntry(p))
        \/ \E s : Step(p, [proc[p] EXCEPT !.pc = s])
        \/ Step(p, [proc[p] EXCEPT !.pc = "remove", !.fd = NoInode])
    <3>1. CASE OpenLockFails(p)
      BY <3>1 DEF OpenLockFails, Goto
    <3>2. CASE TryLock(p)
      BY <3>2 DEF TryLock, Goto
    <3>3. CASE LockBusy(p)
      BY <3>3 DEF LockBusy
    <3> QED
      BY <1>3, <3>1, <3>2, <3>3
  <2>3. CASE ~(Step(p, Idle) \/ Step(p, NextEntry(p)))
    <3>1. \/ \E s : proc'[p] = [proc[p] EXCEPT !.pc = s]
          \/ proc'[p] = [proc[p] EXCEPT !.pc = "remove", !.fd = NoInode]
      BY <2>2, <2>3, StepTo
    <3>2. proc'[p].names = proc[p].names
      BY <1>1, <3>1 DEF Proc
    <3> QED
      BY <2>1, <3>2, DotAdd
  <2> QED
    BY <2>1, <2>3, DotIdle
<1> QED
  BY <1>2, <1>3 DEF Acquire

LEMMA DotCreate ==
  ASSUME SessionInv, DotInv, NEW p \in Procs, Create(p)
  PROVE  DotRule(p)
<1>1. proc[p] \in Proc /\ TypeOK /\ proc[p].cur \in Ids
  <2>1. proc[p].pc \in {"meta", "summary", "events", "snapshot"}
    BY DEF Create, CreateMeta, CreateSummary, CreateEvents, CreateFile,
           CreateReturn, CreateFails
  <2> QED
    BY <2>1, ProcFacts
<1>2. CASE CreateMeta(p) \/ CreateSummary(p) \/ CreateEvents(p)
  <2>1. /\ Exists(proc[p].cur)
        /\ \E f \in Entries : Add(proc[p].cur, f)
        /\ \/ \E m : Step(p, [proc[p] EXCEPT !.pc = "summary", !.mem = m])
           \/ \E s : Step(p, [proc[p] EXCEPT !.pc = s])
    BY <1>2 DEF CreateMeta, CreateSummary, CreateEvents, CreateFile, Goto, Entries
  <2>2. \/ \E m : proc'[p] = [proc[p] EXCEPT !.pc = "summary", !.mem = m]
        \/ \E s : proc'[p] = [proc[p] EXCEPT !.pc = s]
    BY <2>1, StepTo
  <2>3. proc'[p].names = proc[p].names
    BY <1>1, <2>2 DEF Proc
  <2>4. \E files \in SUBSET Entries :
          dir' = [dir EXCEPT ![proc[p].cur] = @ \cup files]
    BY <2>1 DEF Add
  <2> QED
    BY <1>1, <2>1, <2>3, <2>4, DotAdd
<1>3. CASE CreateReturn(p) \/ CreateFails(p)
  <2>1. UNCHANGED dir
    BY <1>3 DEF CreateReturn, CreateFails, disk
  <2>2. \/ proc'[p] = [proc[p] EXCEPT !.op = "use", !.pc = "ready"]
        \/ proc'[p] = [proc[p] EXCEPT !.pc = "remove", !.fd = NoInode]
    BY <1>3, StepTo DEF CreateReturn, CreateFails
  <2>3. proc'[p].names = proc[p].names
    BY <1>1, <2>2 DEF Proc
  <2> QED
    BY <2>1, <2>3, DotAdd
<1> QED
  BY <1>2, <1>3 DEF Create

LEMMA DotScan ==
  ASSUME SessionInv, DotInv, NEW p \in Procs, Resume(p) \/ CleanupExpired(p)
  PROVE  DotRule(p)
<1>1. UNCHANGED dir /\ proc[p] \in Proc
  BY ProcType
     DEF Resume, CleanupExpired, ResumeEntry, ResumeChoose, Reread, Check,
         CleanupEntry, CleanupEnd, disk
<1>2. proc'[p].names = proc[p].names \/ proc'[p].names = {}
  <2>1. CASE ResumeEntry(p)
    <3>1. PICK i, match :
            Step(p, [proc[p] EXCEPT !.todo = @ \ {i}, !.found = @ \cup match])
      BY <2>1 DEF ResumeEntry
    <3> QED
      BY <1>1, <3>1, StepTo DEF Proc
  <2>2. CASE ResumeChoose(p) \/ CleanupEntry(p) \/ CleanupEnd(p)
    <3>1. \/ Step(p, Idle)
          \/ \E i : Step(p, [proc[p] EXCEPT !.pc = "lock", !.cur = i])
          \/ \E i : Step(p, [proc[p] EXCEPT !.todo = @ \ {i}])
      BY <2>2 DEF ResumeChoose, CleanupEntry, CleanupEnd
    <3>2. \/ proc'[p] = Idle
          \/ \E i : proc'[p] = [proc[p] EXCEPT !.pc = "lock", !.cur = i]
          \/ \E i : proc'[p] = [proc[p] EXCEPT !.todo = @ \ {i}]
      BY <3>1, StepTo
    <3>3. Idle.names = {}
      BY DEF Idle
    <3> QED
      BY <1>1, <3>2, <3>3 DEF Proc
  <2>3. CASE Reread(p) \/ Check(p)
    <3>1. \/ Step(p, Idle)
          \/ \E m : Step(p, [proc[p] EXCEPT !.pc = "check", !.mem = m])
          \/ Step(p, [Idle EXCEPT !.op = "use", !.pc = "ready",
                        !.cur = proc[p].cur, !.fd = proc[p].fd,
                        !.mem = proc[p].mem])
      BY <2>3 DEF Reread, Check
    <3>2. \/ proc'[p] = Idle
          \/ \E m : proc'[p] = [proc[p] EXCEPT !.pc = "check", !.mem = m]
          \/ proc'[p] = [Idle EXCEPT !.op = "use", !.pc = "ready",
                           !.cur = proc[p].cur, !.fd = proc[p].fd,
                           !.mem = proc[p].mem]
      BY <3>1, StepTo
    <3>3. Idle.names = {}
      BY DEF Idle
    <3>4. [Idle EXCEPT !.op = "use", !.pc = "ready", !.cur = proc[p].cur,
                       !.fd = proc[p].fd, !.mem = proc[p].mem].names = {}
      BY DEF Idle
    <3> QED
      BY <1>1, <3>2, <3>3, <3>4 DEF Proc
  <2> QED
    BY <2>1, <2>2, <2>3 DEF Resume, CleanupExpired
<1> QED
  BY <1>1, <1>2 DEF DotInv, DotRule

LEMMA DotRemove ==
  ASSUME SessionInv, DotInv, NEW p \in Procs, RemoveAll(p)
  PROVE  DotRule(p)
<1>0. PICK i : i = proc[p].cur
  OBVIOUS
<1>1. proc[p] \in Proc /\ TypeOK /\ i \in Ids
  <2>1. proc[p].pc \in {"remove", "unlink"}
    BY DEF RemoveAll, RemoveList, Rmdir, RmdirFails, Unlink, UnlinkFails
  <2> QED
    BY <1>0, <2>1, ProcFacts
<1>2. CASE RemoveList(p)
  <2>1. proc'[p] = [proc[p] EXCEPT !.pc = "unlink", !.names = dir[i] \ {"."}]
    BY <1>0, <1>2, StepTo DEF RemoveList
  <2>2. proc'[p].names = dir[i] \ {"."}
    BY <1>1, <2>1 DEF Proc
  <2> QED
    BY <1>2, <2>2 DEF RemoveList, DotInv, DotRule
<1>3. ASSUME NEW f, Unlink(p, f) \/ UnlinkFails(p, f)
      PROVE  DotRule(p)
  <2>1. proc'[p] = [proc[p] EXCEPT !.names = @ \ {f}]
    BY <1>3, StepTo DEF Unlink, UnlinkFails
  <2>2. proc'[p].names = proc[p].names \ {f}
    BY <1>1, <2>1 DEF Proc
  <2>3. f # "." /\ (dir' = dir \/ dir' = [dir EXCEPT ![i] = @ \ {f}])
    BY <1>0, <1>3 DEF Unlink, UnlinkFails, disk, DotInv
  <2>4. \A j \in Ids : dir'[j] = dir[j] \/ dir'[j] = dir[j] \ {f}
    BY <1>1, <2>3 DEF TypeOK
  <2> QED
    BY <2>2, <2>3, <2>4 DEF DotInv, DotRule
<1>4. CASE Rmdir(p) \/ RmdirFails(p)
  <2>1. dir' = dir \/ dir' = [dir EXCEPT ![i] = {}]
    BY <1>0, <1>4 DEF Rmdir, RmdirFails, disk
  <2>2. \A j \in Ids : dir'[j] = dir[j] \/ dir'[j] = {}
    BY <1>1, <2>1 DEF TypeOK
  <2>3. \/ proc'[p] = Idle
        \/ \E s : proc'[p] = [proc[p] EXCEPT !.pc = s]
    BY <1>4, StepTo DEF Rmdir, RmdirFails, Goto
  <2>4. Idle.names = {}
    BY DEF Idle
  <2>5. proc'[p].names = proc[p].names \/ proc'[p].names = {}
    BY <1>1, <2>3, <2>4 DEF Proc
  <2> QED
    BY <2>2, <2>5 DEF DotInv, DotRule
<1> QED
  BY <1>2, <1>3, <1>4 DEF RemoveAll

LEMMA DotBegin ==
  ASSUME SessionInv, DotInv, NEW p \in Procs, Begin(p)
  PROVE  DotRule(p)
<1>1. CASE \E i \in Ids, n \in Names \cup {NoName} : CreateDir(p, i, n)
  <2>1. PICK i \in Ids, n \in Names \cup {NoName} : CreateDir(p, i, n)
    BY <1>1
  <2>2. proc'[p] = [Idle EXCEPT !.op = "create", !.pc = "lock", !.cur = i,
                                !.mem = [NoMeta EXCEPT !.name = n]]
    BY <2>1, StepTo DEF CreateDir
  <2>3. proc'[p].names = {}
    BY <2>2 DEF Idle
  <2>4. \A j \in Ids : dir'[j] = dir[j] \/ dir'[j] = {"."}
    BY <2>1, ProcType DEF CreateDir, TypeOK
  <2> QED
    BY <2>3, <2>4 DEF DotInv, DotRule
<1>2. CASE \/ \E i \in Ids : ResumeById(p, i)
           \/ \E n \in Names : ResumeByName(p, n)
           \/ CleanupStart(p)
  <2>1. UNCHANGED dir
    BY <1>2 DEF ResumeById, ResumeByName, CleanupStart, disk
  <2>2. \/ \E i \in Ids :
             proc'[p] = [Idle EXCEPT !.op = "resume", !.pc = "lock", !.cur = i]
        \/ \E n \in Names :
             proc'[p] = [Idle EXCEPT !.op = "resume", !.pc = "scan",
                                     !.ask = n, !.todo = Listing]
        \/ proc'[p] = [Idle EXCEPT !.op = "cleanup", !.pc = "scan",
                                   !.asof = clock, !.todo = Listing]
    BY <1>2, StepTo DEF ResumeById, ResumeByName, CleanupStart
  <2>3. proc'[p].names = {}
    BY <2>2 DEF Idle
  <2> QED
    BY <2>1, <2>3 DEF DotInv, DotRule
<1> QED
  BY <1>1, <1>2 DEF Begin

LEMMA DotUse ==
  ASSUME SessionInv, DotInv, NEW p \in Procs, Use(p)
  PROVE  DotRule(p)
<1>1. TypeOK /\ proc[p] \in Proc /\ proc[p].cur \in Ids
  <2>1. proc[p].pc = "ready"
    BY DEF Use, SetName, SaveMeta, SaveSummary, SummaryLost, AppendEvent, Close
  <2> QED
    BY <2>1, ProcFacts
<1>2. ASSUME NEW m, NEW files \in SUBSET Entries, NEW next,
             Persisted(p, m, files, next)
      PROVE  DotRule(p)
  <2>1. proc'[p] = [proc[p] EXCEPT !.mem = m, !.dirty = @ \ {"meta.json"},
                                   !.pc = next]
    BY <1>2, StepTo DEF Persisted
  <2>2. proc'[p].names = proc[p].names
    BY <1>1, <2>1 DEF Proc
  <2> QED
    BY <1>1, <1>2, <2>2, DotAdd DEF Persisted
<1>3. ASSUME NEW m, NEW files \in SUBSET Entries,
             NotPersisted(p, m, files), files = {} \/ Exists(proc[p].cur)
      PROVE  DotRule(p)
  <2>1. proc'[p] = [proc[p] EXCEPT !.mem = m, !.dirty = @ \cup {"meta.json"}]
    BY <1>3, StepTo DEF NotPersisted
  <2>2. proc'[p].names = proc[p].names
    BY <1>1, <2>1 DEF Proc
  <2>3. PICK lost \in SUBSET {"meta.json"} :
          dir' = [dir EXCEPT ![proc[p].cur] = (@ \cup files) \ lost]
    BY <1>3 DEF NotPersisted
  <2> QED
    BY <1>1, <1>3, <2>2, <2>3, DotRemoves
<1>4. /\ {} \in SUBSET Entries /\ {"meta.json"} \in SUBSET Entries
      /\ {"events.jsonl"} \in SUBSET Entries
      /\ {"events.jsonl", "meta.json"} \in SUBSET Entries
      /\ {"summary.json"} \in SUBSET Entries
  BY DEF Entries
<1>5. ASSUME NEW m, Persist(p, m) PROVE DotRule(p)
  BY <1>2, <1>3, <1>4, <1>5 DEF Persist
<1>6. CASE SaveSummary(p) \/ SummaryLost(p)
  <2>1. PICK d : Step(p, [proc[p] EXCEPT !.dirty = d])
    BY <1>6 DEF SaveSummary, SummaryLost
  <2>2. proc'[p].names = proc[p].names
    BY <1>1, <2>1, StepTo DEF Proc
  <2>3. CASE SaveSummary(p)
    BY <1>1, <1>4, <2>2, <2>3, DotAdd DEF SaveSummary, Add
  <2>4. CASE SummaryLost(p)
    <3>1. dir' = [dir EXCEPT ![proc[p].cur] = (@ \cup {}) \ {"summary.json"}]
      BY <2>4 DEF SummaryLost
    <3> QED
      BY <1>1, <1>4, <2>2, <3>1, DotRemoves
  <2> QED
    BY <1>6, <2>3, <2>4
<1>7. CASE AppendEvent(p)
  BY <1>2, <1>3, <1>4, <1>7 DEF AppendEvent
<1>8. ASSUME NEW s, Close(p, s) PROVE DotRule(p)
  BY <1>2, <1>3, <1>4, <1>8 DEF Close
<1>9. CASE \E n \in Names \cup {NoName} : SetName(p, n)
  BY <1>5, <1>9 DEF SetName
<1>10. CASE \E n \in Names \cup {NoName}, s \in Statuses : SaveMeta(p, n, s)
  BY <1>5, <1>10 DEF SaveMeta
<1> QED
  BY <1>6, <1>7, <1>8, <1>9, <1>10 DEF Use

LEMMA DotStep ==
  ASSUME SessionInv, DotInv, [Next]_vars
  PROVE  DotInv'
<1>1. CASE Tick \/ UNCHANGED vars
  BY <1>1 DEF Tick, vars, disk, DotInv
<1>2. ASSUME NEW p \in Procs, Begin(p) \/ Use(p) \/ Progress(p) \/ Crash(p)
      PROVE  DotInv'
  <2>1. DotRule(p)
    <3>1. CASE Unlock(p) \/ Crash(p)
      BY <3>1, DotIdle DEF Unlock, Crash, disk
    <3>2. CASE UnlockFails(p)
      <4>1. UNCHANGED dir
        BY <3>2 DEF UnlockFails
      <4>2. CASE Step(p, Idle)
        BY <4>1, <4>2, DotIdle
      <4>3. CASE Step(p, [proc[p] EXCEPT !.pc = "ready", !.fd = NoInode])
        BY <4>1, <4>3, StepTo, ProcType DEF DotInv, DotRule, Proc
      <4> QED
        BY <3>2, <4>2, <4>3 DEF UnlockFails
    <3> QED
      BY <1>2, <3>1, <3>2, DotBegin, DotUse, DotAcquire, DotCreate, DotScan, DotRemove
         DEF Progress
  <2> QED
    BY <1>2, <2>1, OthersStay DEF DotInv, DotRule
<1> QED
  BY <1>1, <1>2 DEF Next

\* Only listing the root and reading an entry make or keep p a scan by name.
LEMMA ScanStep ==
  ASSUME SessionInv, NEW p \in Procs,
         Begin(p) \/ Use(p) \/ Progress(p) \/ Crash(p), Scanning(p)'
  PROVE  /\ UNCHANGED disk
         /\ \/ ResumeEntry(p)
            \/ ~Scanning(p) /\ \E n \in Names : ResumeByName(p, n)
<1>1. /\ proc[p] \in Proc /\ proc'[p].pc = "scan" /\ proc'[p].op = "resume"
      /\ proc[p].pc \in StepsOf[proc[p].op] /\ proc[p].op \in Ops
  BY ProcFacts DEF Scanning
<1>2. Idle.pc = "idle" /\ NextEntry(p).op = "cleanup"
  BY DEF Idle, NextEntry
<1>3. ~(Step(p, Idle) \/ Step(p, NextEntry(p)))
  <2>1. proc'[p] # Idle /\ proc'[p] # NextEntry(p)
    BY <1>1, <1>2
  <2> QED
    BY <2>1, StepTo
<1>4. ASSUME NEW s, Goto(p, s) PROVE s = "scan"
  <2>1. proc'[p] = [proc[p] EXCEPT !.pc = s]
    BY <1>4, StepTo DEF Goto
  <2> QED
    BY <1>1, <2>1 DEF Proc
<1>5. CASE Begin(p)
  <2>1. proc[p].pc = "idle"
    BY <1>5 DEF Begin, CreateDir, ResumeById, ResumeByName, CleanupStart
  <2>2. CASE \E n \in Names : ResumeByName(p, n)
    BY <2>1, <2>2 DEF ResumeByName, Scanning
  <2>3. CASE \/ \E i \in Ids, n \in Names \cup {NoName} : CreateDir(p, i, n)
             \/ \E i \in Ids : ResumeById(p, i)
             \/ CleanupStart(p)
    <3>1. \/ \E i \in Ids, n \in Names \cup {NoName} :
               proc'[p] = [Idle EXCEPT !.op = "create", !.pc = "lock", !.cur = i,
                             !.mem = [NoMeta EXCEPT !.name = n]]
          \/ \E i \in Ids :
               proc'[p] = [Idle EXCEPT !.op = "resume", !.pc = "lock", !.cur = i]
          \/ proc'[p] = [Idle EXCEPT !.op = "cleanup", !.pc = "scan",
                                     !.asof = clock, !.todo = Listing]
      BY <2>3, StepTo DEF CreateDir, ResumeById, CleanupStart
    <3>2. proc'[p].op # "resume" \/ proc'[p].pc # "scan"
      BY <3>1 DEF Idle
    <3> QED
      BY <1>1, <3>2
  <2> QED
    BY <1>5, <2>2, <2>3 DEF Begin
<1>6. CASE Use(p)
  <2>1. proc[p].pc = "ready"
    BY <1>6 DEF Use, SetName, SaveMeta, SaveSummary, SummaryLost, AppendEvent, Close
  <2>2. ASSUME NEW m, NEW files, NEW s, s # "scan", Persisted(p, m, files, s)
        PROVE  FALSE
    <3>1. proc'[p] = [proc[p] EXCEPT !.mem = m, !.dirty = @ \ {"meta.json"},
                                     !.pc = s]
      BY <2>2, StepTo DEF Persisted
    <3> QED
      BY <1>1, <2>2, <3>1 DEF Proc
  <2>3. ASSUME NEW m, NEW files, NotPersisted(p, m, files)
        PROVE  FALSE
    <3>1. proc'[p] = [proc[p] EXCEPT !.mem = m, !.dirty = @ \cup {"meta.json"}]
      BY <2>3, StepTo DEF NotPersisted
    <3> QED
      BY <1>1, <2>1, <3>1 DEF Proc
  <2>4. CASE SaveSummary(p) \/ SummaryLost(p)
    <3>1. PICK d : Step(p, [proc[p] EXCEPT !.dirty = d])
      BY <2>4 DEF SaveSummary, SummaryLost
    <3> QED
      BY <1>1, <2>1, <3>1, StepTo DEF Proc
  <2>5. CASE ~(SaveSummary(p) \/ SummaryLost(p))
    <3>1. PICK m, files, s :
            /\ s # "scan"
            /\ Persisted(p, m, files, s) \/ NotPersisted(p, m, files)
      BY <1>6, <2>5 DEF Use, SetName, SaveMeta, AppendEvent, Close, Persist
    <3> QED
      BY <2>2, <2>3, <3>1
  <2> QED
    BY <2>4, <2>5
<1>7. CASE Acquire(p)
  <2>1. proc[p].pc = "lock"
    BY <1>7 DEF Acquire, OpenLockFile, OpenLockFails, TryLock, LockBusy
  <2>2. \/ \E n : Step(p, [proc[p] EXCEPT !.fd = n])
        \/ Step(p, [proc[p] EXCEPT !.pc = "remove", !.fd = NoInode])
        \/ Goto(p, "remove") \/ Goto(p, AfterLock[proc[p].op])
    <3>1. CASE OpenLockFile(p) \/ OpenLockFails(p)
      BY <1>3, <3>1 DEF OpenLockFile, OpenLockFails
    <3>2. CASE TryLock(p) \/ LockBusy(p)
      BY <1>3, <3>2 DEF TryLock, LockBusy
    <3> QED
      BY <1>7, <3>1, <3>2 DEF Acquire
  <2>3. AfterLock[proc[p].op] # "scan"
    BY <1>1, <2>1 DEF AfterLock, Ops, StepsOf
  <2>4. \/ \E n : proc'[p] = [proc[p] EXCEPT !.fd = n]
        \/ proc'[p] = [proc[p] EXCEPT !.pc = "remove", !.fd = NoInode]
    BY <1>4, <2>2, <2>3, StepTo
  <2> QED
    BY <1>1, <2>1, <2>4 DEF Proc
<1>8. CASE Create(p)
  <2>1. \/ \E m : Step(p, [proc[p] EXCEPT !.pc = "summary", !.mem = m])
        \/ \E s \in {"events", "snapshot"} : Goto(p, s)
        \/ Step(p, [proc[p] EXCEPT !.op = "use", !.pc = "ready"])
        \/ Step(p, [proc[p] EXCEPT !.pc = "remove", !.fd = NoInode])
    BY <1>8 DEF Create, CreateMeta, CreateSummary, CreateEvents, CreateFile,
                CreateReturn, CreateFails
  <2>2. \/ \E m : proc'[p] = [proc[p] EXCEPT !.pc = "summary", !.mem = m]
        \/ proc'[p] = [proc[p] EXCEPT !.op = "use", !.pc = "ready"]
        \/ proc'[p] = [proc[p] EXCEPT !.pc = "remove", !.fd = NoInode]
    BY <1>4, <2>1, StepTo
  <2> QED
    BY <1>1, <2>2 DEF Proc
<1>9. CASE Resume(p)
  <2>1. CASE ResumeEntry(p)
    BY <2>1 DEF ResumeEntry
  <2>2. CASE ~ResumeEntry(p)
    <3>1. \/ \E i : Step(p, [proc[p] EXCEPT !.pc = "lock", !.cur = i])
          \/ \E m : Step(p, [proc[p] EXCEPT !.pc = "check", !.mem = m])
          \/ Step(p, [Idle EXCEPT !.op = "use", !.pc = "ready",
                        !.cur = proc[p].cur, !.fd = proc[p].fd,
                        !.mem = proc[p].mem])
      BY <1>3, <1>9, <2>2 DEF Resume, ResumeChoose, Reread, Check
    <3>2. \/ \E i : proc'[p] = [proc[p] EXCEPT !.pc = "lock", !.cur = i]
          \/ \E m : proc'[p] = [proc[p] EXCEPT !.pc = "check", !.mem = m]
          \/ proc'[p] = [Idle EXCEPT !.op = "use", !.pc = "ready",
                           !.cur = proc[p].cur, !.fd = proc[p].fd,
                           !.mem = proc[p].mem]
      BY <3>1, StepTo
    <3>3. [Idle EXCEPT !.op = "use", !.pc = "ready", !.cur = proc[p].cur,
                       !.fd = proc[p].fd, !.mem = proc[p].mem].pc = "ready"
      BY DEF Idle
    <3> QED
      BY <1>1, <3>2, <3>3 DEF Proc
  <2> QED
    BY <2>1, <2>2
<1>10. CASE CleanupExpired(p)
  <2>1. proc[p].op = "cleanup"
    BY <1>10 DEF CleanupExpired, CleanupEntry, CleanupEnd
  <2>2. \/ \E i : Step(p, [proc[p] EXCEPT !.pc = "lock", !.cur = i])
        \/ \E i : Step(p, [proc[p] EXCEPT !.todo = @ \ {i}])
    BY <1>3, <1>10 DEF CleanupExpired, CleanupEntry, CleanupEnd
  <2>3. \/ \E i : proc'[p] = [proc[p] EXCEPT !.pc = "lock", !.cur = i]
        \/ \E i : proc'[p] = [proc[p] EXCEPT !.todo = @ \ {i}]
    BY <2>2, StepTo
  <2> QED
    BY <1>1, <2>1, <2>3 DEF Proc
<1>11. CASE RemoveAll(p)
  <2>1. proc[p].pc \in {"remove", "unlink"}
    BY <1>11 DEF RemoveAll, RemoveList, Rmdir, RmdirFails, Unlink, UnlinkFails
  <2>2. \/ Step(p, [proc[p] EXCEPT !.pc = "unlink",
                                   !.names = dir[proc[p].cur] \ {"."}])
        \/ \E f \in Entries : Step(p, [proc[p] EXCEPT !.names = @ \ {f}])
        \/ Goto(p, "unlock") \/ Goto(p, "ready")
    BY <1>3, <1>11
       DEF RemoveAll, RemoveList, Rmdir, RmdirFails, Unlink, UnlinkFails
  <2>3. \/ proc'[p] = [proc[p] EXCEPT !.pc = "unlink",
                                      !.names = dir[proc[p].cur] \ {"."}]
        \/ \E f \in Entries : proc'[p] = [proc[p] EXCEPT !.names = @ \ {f}]
    BY <1>4, <2>2, StepTo
  <2> QED
    BY <1>1, <2>1, <2>3 DEF Proc
<1>12. CASE Unlock(p) \/ Crash(p)
  BY <1>3, <1>12 DEF Unlock, Crash
<1>13. CASE UnlockFails(p)
  <2>1. Step(p, Idle) \/ Step(p, [proc[p] EXCEPT !.pc = "ready", !.fd = NoInode])
    BY <1>13 DEF UnlockFails
  <2>2. proc'[p] = [proc[p] EXCEPT !.pc = "ready", !.fd = NoInode]
    BY <1>3, <2>1, StepTo
  <2> QED
    BY <1>1, <2>2 DEF Proc
<1> QED
  BY <1>5, <1>6, <1>7, <1>8, <1>9, <1>10, <1>11, <1>12, <1>13 DEF Progress

\* What a scan by name knows so far: the sessions that have had the name all
\* along are among those found or yet to be read, and those found have had it.
Known(p) ==
  Scanning(p) => /\ steady[p] \subseteq Named(p) /\ Named(p) \subseteq ever[p]
                 /\ steady[p] \subseteq proc[p].todo \cup proc[p].found
                 /\ proc[p].found \subseteq ever[p] /\ IsFiniteSet(proc[p].found)
NamesInv == \A p \in Procs : Known(p)

\* What a step does to the two histories of a scan.
LEMMA Histories ==
  ASSUME NextNames, NEW p \in Procs, Scanning(p)'
  PROVE  /\ ~Scanning(p) => steady'[p] = Named(p)' /\ ever'[p] = Named(p)'
         /\ Scanning(p) => /\ steady'[p] = steady[p] \cap Named(p)'
                           /\ ever'[p] = ever[p] \cup Named(p)'
BY DEF NextNames

\* The step of a scan itself, or of somebody else.
LEMMA ScanGoesOn ==
  ASSUME SessionInv, NextNames, NEW p \in Procs, Scanning(p)'
  PROVE  \/ Scanning(p) /\ proc'[p] = proc[p]
         \/ UNCHANGED disk /\ ResumeEntry(p)
         \/ UNCHANGED disk /\ ~Scanning(p) /\ \E n \in Names : ResumeByName(p, n)
<1>1. CASE Tick
  BY <1>1 DEF Tick, Scanning
<1>2. CASE ~Tick
  <2>1. PICK q \in Procs : Begin(q) \/ Use(q) \/ Progress(q) \/ Crash(q)
    BY <1>2 DEF NextNames, Next
  <2>2. CASE q = p
    BY <2>1, <2>2, ScanStep
  <2>3. CASE q # p
    <3>1. proc'[p] = proc[p]
      BY <2>1, <2>3, OthersStay
    <3> QED
      BY <3>1 DEF Scanning
  <2> QED
    BY <2>2, <2>3
<1> QED
  BY <1>1, <1>2

LEMMA KnownStep ==
  ASSUME SessionInv, DotInv, NextNames, NEW p \in Procs, Known(p)
  PROVE  Known(p)'
<1> SUFFICES ASSUME Scanning(p)'
             PROVE  /\ steady'[p] \subseteq Named(p)' /\ Named(p)' \subseteq ever'[p]
                    /\ steady'[p] \subseteq proc'[p].todo \cup proc'[p].found
                    /\ proc'[p].found \subseteq ever'[p]
                    /\ IsFiniteSet(proc'[p].found)
  BY DEF Known
<1>1. CASE Scanning(p) /\ proc'[p] = proc[p]
  BY <1>1, Histories DEF Known
<1>2. CASE UNCHANGED disk /\ ResumeEntry(p)
  <2>1. Scanning(p) /\ proc[p] \in Proc /\ UNCHANGED <<dir, meta>>
    BY <1>2, ProcType DEF ResumeEntry, Scanning, disk
  <2>2. PICK i \in Ids, match \in SUBSET Ids :
          /\ match = IF Match(i, proc[p].ask) THEN {i} ELSE {}
          /\ Step(p, [proc[p] EXCEPT !.todo = @ \ {i}, !.found = @ \cup match])
    BY <1>2 DEF ResumeEntry
  <2>3. proc'[p] = [proc[p] EXCEPT !.todo = @ \ {i}, !.found = @ \cup match]
    BY <2>2, StepTo
  <2>4. /\ proc'[p].todo = proc[p].todo \ {i}
        /\ proc'[p].found = proc[p].found \cup match
        /\ proc'[p].ask = proc[p].ask
    BY <2>1, <2>3 DEF Proc
  <2>5. Named(p)' = Named(p)
    BY <2>1, <2>4 DEF Named, Match, HasMeta
  <2>6. steady'[p] = steady[p] /\ ever'[p] = ever[p]
    <3>1. /\ steady'[p] = steady[p] \cap Named(p)'
          /\ ever'[p] = ever[p] \cup Named(p)'
      BY <2>1, Histories
    <3>2. steady[p] \subseteq Named(p) /\ Named(p) \subseteq ever[p]
      BY <2>1 DEF Known
    <3> QED
      BY <2>5, <3>1, <3>2
  <2>7. match \subseteq Named(p) /\ (i \in Named(p) => i \in match)
    BY <2>2 DEF Named
  <2>8. IsFiniteSet(proc[p].found \cup match)
    <3>1. IsFiniteSet(proc[p].found) /\ IsFiniteSet(proc[p].found \cup {i})
      BY <2>1, FS_AddElement DEF Known
    <3>2. match = {} \/ match = {i}
      BY <2>2
    <3>3. CASE match = {}
      BY <3>1, <3>3
    <3> QED
      BY <3>1, <3>2, <3>3
  <2> QED
    BY <2>1, <2>4, <2>5, <2>6, <2>7, <2>8 DEF Known
<1>3. CASE /\ UNCHANGED disk /\ ~Scanning(p)
           /\ \E n \in Names : ResumeByName(p, n)
  <2>1. PICK n \in Names :
          Step(p, [Idle EXCEPT !.op = "resume", !.pc = "scan",
                               !.ask = n, !.todo = Listing])
    BY <1>3 DEF ResumeByName
  <2>2. proc'[p] = [Idle EXCEPT !.op = "resume", !.pc = "scan",
                                !.ask = n, !.todo = Listing]
    BY <2>1, StepTo
  <2>3. proc'[p].todo = Listing /\ proc'[p].found = {}
    BY <2>2 DEF Idle
  <2>4. dir' = dir
    BY <1>3 DEF disk
  <2>5. Named(p)' \subseteq Listing
    BY <2>4 DEF Named, Match, HasMeta, Listing, Exists, DotInv
  <2> QED
    BY <1>3, <2>3, <2>5, Histories, FS_EmptySet
<1> QED
  BY <1>1, <1>2, <1>3, ScanGoesOn

LEMMA KnownStays ==
  ASSUME NEW p \in Procs, Known(p), UNCHANGED <<vars, steady, ever>>
  PROVE  Known(p)'
<1>1. UNCHANGED <<dir, meta, proc, steady, ever>>
  BY DEF vars
<1>2. Scanning(p)' <=> Scanning(p)
  BY <1>1 DEF Scanning
<1>3. Named(p)' = Named(p)
  BY <1>1 DEF Named, Match, HasMeta
<1> QED
  BY <1>1, <1>2, <1>3 DEF Known

\* What a scan finds and what it knows hold together, however the sessions are
\* renamed, saved, created and removed while it reads them.
THEOREM NamesInvariant == SpecNames => [](SessionInv /\ DotInv /\ NamesInv)
<1>1. InitNames => DotInv /\ NamesInv
  BY DEF InitNames, Init, Idle, DotInv, NamesInv, Known, Scanning
<1>2. SessionInv /\ DotInv /\ NamesInv /\ [NextNames]_<<vars, steady, ever>> =>
        DotInv' /\ NamesInv'
  <2> SUFFICES ASSUME SessionInv, DotInv, NamesInv,
                      [NextNames]_<<vars, steady, ever>>
               PROVE  DotInv' /\ NamesInv'
    OBVIOUS
  <2>1. [Next]_vars
    BY DEF NextNames
  <2> QED
    BY <2>1, DotStep, KnownStep, KnownStays DEF NamesInv
<1>3. SpecNames => Spec
  <2>1. InitNames => Init
    BY DEF InitNames
  <2>2. [NextNames]_<<vars, steady, ever>> => [Next]_vars
    BY DEF NextNames
  <2> QED
    BY <2>1, <2>2, PTL DEF SpecNames, Spec
<1> QED
  BY <1>1, <1>2, <1>3, SessionInvariant, PTL DEF SpecNames

\* Resume by name opens a session only when it has had the name at some moment
\* since the root was listed and no other has had it all along, and reports
\* that there is none only when none has had it all along (store.go:154-188).
THEOREM NamesAreResolved == SpecNames => NameResolution
<1>1. SessionInv /\ NamesInv =>
        [\A p \in Procs :
           ResumeChoose(p) =>
             \/ /\ proc'[p].pc = "lock" /\ proc'[p].cur \in ever[p]
                /\ steady[p] \subseteq {proc'[p].cur}
             \/ proc'[p].pc = "idle" /\ Cardinality(proc[p].found) > 1
             \/ proc'[p].pc = "idle" /\ steady[p] = {}]_<<vars, steady, ever>>
  <2> SUFFICES ASSUME SessionInv, NamesInv, NEW p \in Procs, ResumeChoose(p)
               PROVE  \/ /\ proc'[p].pc = "lock" /\ proc'[p].cur \in ever[p]
                         /\ steady[p] \subseteq {proc'[p].cur}
                      \/ proc'[p].pc = "idle" /\ Cardinality(proc[p].found) > 1
                      \/ proc'[p].pc = "idle" /\ steady[p] = {}
    OBVIOUS
  <2>1. /\ proc[p].todo = {} /\ steady[p] \subseteq proc[p].found
        /\ proc[p].found \subseteq ever[p] /\ IsFiniteSet(proc[p].found)
        /\ proc[p] \in Proc
    BY ProcType DEF ResumeChoose, NamesInv, Known, Scanning
  <2>2. CASE \E i \in proc[p].found :
               /\ proc[p].found = {i}
               /\ Step(p, [proc[p] EXCEPT !.pc = "lock", !.cur = i])
    <3>1. PICK i : /\ proc[p].found = {i}
                   /\ Step(p, [proc[p] EXCEPT !.pc = "lock", !.cur = i])
      BY <2>2
    <3>2. proc'[p] = [proc[p] EXCEPT !.pc = "lock", !.cur = i]
      BY <3>1, StepTo
    <3>3. proc'[p].pc = "lock" /\ proc'[p].cur = i
      BY <2>1, <3>2 DEF Proc
    <3> QED
      BY <2>1, <3>1, <3>3
  <2>3. CASE Cardinality(proc[p].found) # 1 /\ Step(p, Idle)
    <3>1. proc'[p].pc = "idle"
      <4>1. proc'[p] = Idle
        BY <2>3, StepTo
      <4> QED
        BY <4>1 DEF Idle
    <3>2. /\ Cardinality(proc[p].found) \in Nat
          /\ Cardinality(proc[p].found) = 0 => proc[p].found = {}
      BY <2>1, FS_CardinalityType, FS_EmptySet
    <3>3. Cardinality(proc[p].found) > 1 \/ Cardinality(proc[p].found) = 0
      BY <2>3, <3>2
    <3> QED
      BY <2>1, <3>1, <3>2, <3>3
  <2> QED
    BY <2>2, <2>3 DEF ResumeChoose
<1> QED
  BY <1>1, NamesInvariant, PTL DEF SpecNames, NameResolution

=============================================================================
