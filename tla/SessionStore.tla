---------------------------- MODULE SessionStore ----------------------------
(***************************************************************************)
(* The session store of internal/session/store.go: Brunel processes that   *)
(* create, resume, rename, save, close and expire the session directories  *)
(* of one store root.  They share nothing but the file system: a session   *)
(* belongs to the process that holds an exclusive lock on the file         *)
(* owner.lock of its directory.  The lock is on the file that was opened,  *)
(* not on its name, so the model gives lock files an identity (an inode):  *)
(* a RemoveAll that unlinks the name lets the next opener create and lock  *)
(* a different file.                                                       *)
(*                                                                         *)
(* One action is one file system call, or a run of calls of which no other *)
(* process can see the middle.  Contents are kept only as far as they      *)
(* decide something: of meta.json the name, the status and UpdatedAt, of   *)
(* summary.json and events.jsonl that they are there (module EventLog has  *)
(* the events).  Temporary files and the snapshot directory are left out.  *)
(***************************************************************************)
EXTENDS Integers, FiniteSets

CONSTANTS Procs,      \* openers of the store (processes, or stores in one)
          Ids,        \* session ULIDs, as numbers: listings ascend
          Names,      \* session names a user may give
          NoName,     \* Meta.Name = nil
          Inodes,     \* identities of owner.lock files
          NoInode,    \* no file open
          MaxClock,   \* the clock stops here
          Retention,  \* abortedRetention, in ticks of the clock
          Faults,     \* TRUE: file system calls may fail
          Crashes     \* TRUE: a process may die in the middle of anything

ASSUME IdsAssumption == Ids \subseteq Nat \ {0}
ASSUME NameAssumption == NoName \notin Names
ASSUME InodeAssumption == NoInode \notin Inodes
ASSUME TimeAssumption == MaxClock \in Nat /\ Retention \in Nat
ASSUME SwitchAssumption == Faults \in BOOLEAN /\ Crashes \in BOOLEAN

VARIABLES clock,      \* the wall clock, shared by all processes
          dir,        \* dir[i]: the names in session directory i; {} if none
          meta,       \* meta[i]: what meta.json says; NoMeta if not there
          link,       \* link[i]: the file named owner.lock, or NoInode
          life,       \* history: "unused", "live", "stray" once its owner
                      \* failed to close the lock, or "doomed" once a
                      \* RemoveAll of the directory has begun
          proc        \* proc[p]: the call process p is in, and its session

disk == <<dir, meta, link, life>>
vars == <<clock, dir, meta, link, life, proc>>

-----------------------------------------------------------------------------
(* The data. "." stands for the directory itself.                          *)

Entries == {".", "meta.json", "summary.json", "events.jsonl", "owner.lock"}
NoId == 0
Statuses == {"running", "aborted", "clean"}
Saved == {"meta.json", "summary.json"}  \* what writeJSONAtomic replaces
Meta == [name : Names \cup {NoName}, updated : 0..MaxClock, status : Statuses]
NoMeta == [name |-> NoName, updated |-> 0, status |-> "running"]

Ops == {"none", "create", "resume", "cleanup", "use"}
Steps == {"idle", "scan", "lock", "meta", "summary", "events", "snapshot",
          "reread", "check", "ready", "remove", "unlink", "unlock"}

Proc == [op    : Ops,                    \* the call
         pc    : Steps,                  \* its next step
         cur   : Ids \cup {NoId},        \* the session it works on
         fd    : Inodes \cup {NoInode},  \* the owner.lock file it has open
         mem   : Meta,                   \* Session.meta, once it has one
         dirty : SUBSET Saved,           \* history: their last save failed
         todo  : SUBSET Ids,             \* entries of the listing not yet read
         found : SUBSET Ids,             \* Resume: the matches so far
         ask   : Names \cup {NoName},    \* Resume: the name asked for
         asof  : 0..MaxClock,            \* CleanupExpired: its argument now
         names : SUBSET Entries]         \* RemoveAll: names still to unlink

Idle == [op |-> "none", pc |-> "idle", cur |-> NoId, fd |-> NoInode,
         mem |-> NoMeta, dirty |-> {}, todo |-> {}, found |-> {},
         ask |-> NoName, asof |-> 0, names |-> {}]

Exists(i) == "." \in dir[i]
HasMeta(i) == "meta.json" \in dir[i]
Listing == {i \in Ids : Exists(i)}
First(i, S) == i \in S /\ \A j \in S : i =< j

\* p has the lock: it has an owner.lock file open and is past locking it.
Holds(p) == proc[p].fd # NoInode /\ proc[p].pc # "lock"
Has(p, i) == proc[p].cur = i /\ Holds(p)
Referenced(i, n) == \E q \in Procs : proc[q].cur = i /\ proc[q].fd = n
Locked(i, n) == \E q \in Procs : Has(q, i) /\ proc[q].fd = n

\* abortedRetention: what CleanupExpired removes.
Expired(m, now) == /\ m.name = NoName
                   /\ now - m.updated >= Retention
                   /\ m.status \in {"aborted", "running"}

Step(p, r) == proc' = [proc EXCEPT ![p] = r]
Goto(p, step) == Step(p, [proc[p] EXCEPT !.pc = step])
Add(i, f) == dir' = [dir EXCEPT ![i] = @ \cup {f}]

\* CleanupExpired goes on to the next entry of its listing.
NextEntry(p) == [Idle EXCEPT !.op = "cleanup", !.pc = "scan",
                   !.asof = proc[p].asof,
                   !.todo = proc[p].todo \ {proc[p].cur}]

Init == /\ clock = 0
        /\ dir = [i \in Ids |-> {}]
        /\ meta = [i \in Ids |-> NoMeta]
        /\ link = [i \in Ids |-> NoInode]
        /\ life = [i \in Ids |-> "unused"]
        /\ proc = [p \in Procs |-> Idle]

-----------------------------------------------------------------------------
(* acquireSessionLock: open or create owner.lock, then lock what was opened *)
(* without waiting.  Create, Resume and CleanupExpired call it.             *)

\* Mutant of OpenLockFile: CREATE_ALWAYS, a new file each time.
OpenLockFileAnew(p) ==
  LET i == proc[p].cur IN
  /\ proc[p].pc = "lock" /\ proc[p].fd = NoInode
  /\ Exists(i)
  /\ \E n \in Inodes :
       /\ ~Referenced(i, n)
       /\ Step(p, [proc[p] EXCEPT !.fd = n])
       /\ link' = [link EXCEPT ![i] = n]
  /\ Add(i, "owner.lock")
  /\ UNCHANGED <<clock, meta, life>>

OpenLockFile(p) ==
  LET i == proc[p].cur IN
  /\ proc[p].pc = "lock" /\ proc[p].fd = NoInode
  /\ Exists(i)
  /\ \/ /\ "owner.lock" \in dir[i]
        /\ Step(p, [proc[p] EXCEPT !.fd = link[i]])
        /\ UNCHANGED <<dir, link>>
     \/ /\ "owner.lock" \notin dir[i]
        /\ \E n \in Inodes :
             /\ ~Referenced(i, n)
             /\ Step(p, [proc[p] EXCEPT !.fd = n])
             /\ link' = [link EXCEPT ![i] = n]
        /\ Add(i, "owner.lock")
  /\ UNCHANGED <<clock, meta, life>>

\* A storage error: Create removes its directory, the others return it.
OpenLockFails(p) ==
  /\ proc[p].pc = "lock" /\ proc[p].fd = NoInode
  /\ Faults \/ ~Exists(proc[p].cur)
  /\ IF proc[p].op = "create" THEN Goto(p, "remove") ELSE Step(p, Idle)
  /\ UNCHANGED <<clock, disk>>

AfterLock == [create |-> "meta", resume |-> "reread", cleanup |-> "remove"]

\* Mutant of TryLock: a shared lock where the code asks for an exclusive one.
TryLockShared(p) ==
  /\ proc[p].pc = "lock" /\ proc[p].fd # NoInode
  /\ Goto(p, AfterLock[proc[p].op])
  /\ UNCHANGED <<clock, disk>>

TryLock(p) ==
  /\ proc[p].pc = "lock" /\ proc[p].fd # NoInode
  /\ ~Locked(proc[p].cur, proc[p].fd)
  /\ Goto(p, AfterLock[proc[p].op])
  /\ UNCHANGED <<clock, disk>>

\* Mutant of LockBusy: wait for the lock (no LOCKFILE_FAIL_IMMEDIATELY).
LockBusyWaits(p) == FALSE

\* E_SESSION_BUSY ends a Resume; CleanupExpired skips the session.
LockBusy(p) ==
  /\ proc[p].pc = "lock" /\ proc[p].fd # NoInode
  /\ Locked(proc[p].cur, proc[p].fd)
  /\ \/ proc[p].op = "create"
        /\ Step(p, [proc[p] EXCEPT !.pc = "remove", !.fd = NoInode])
     \/ proc[p].op = "resume" /\ Step(p, Idle)
     \/ proc[p].op = "cleanup" /\ Step(p, NextEntry(p))
  /\ UNCHANGED <<clock, disk>>

-----------------------------------------------------------------------------
(* Store.Create.  A ULID already taken makes Mkdir fail and is retried.     *)

CreateDir(p, i, n) ==
  /\ proc[p].pc = "idle"
  /\ life[i] = "unused"
  /\ dir' = [dir EXCEPT ![i] = {"."}]
  /\ life' = [life EXCEPT ![i] = "live"]
  /\ Step(p, [Idle EXCEPT !.op = "create", !.pc = "lock", !.cur = i,
                          !.mem = [NoMeta EXCEPT !.name = n]])
  /\ UNCHANGED <<clock, meta, link>>

\* Mutant of CreateMeta: UpdatedAt is rounded up.
CreateMetaAhead(p) ==
  LET i == proc[p].cur
      m == [proc[p].mem EXCEPT !.updated = clock + 1] IN
  /\ proc[p].pc = "meta" /\ Exists(i)
  /\ meta' = [meta EXCEPT ![i] = m]
  /\ Add(i, "meta.json")
  /\ Step(p, [proc[p] EXCEPT !.pc = "summary", !.mem = m])
  /\ UNCHANGED <<clock, link, life>>

CreateMeta(p) ==
  LET i == proc[p].cur
      m == [proc[p].mem EXCEPT !.updated = clock] IN
  /\ proc[p].pc = "meta" /\ Exists(i)
  /\ meta' = [meta EXCEPT ![i] = m]
  /\ Add(i, "meta.json")
  /\ Step(p, [proc[p] EXCEPT !.pc = "summary", !.mem = m])
  /\ UNCHANGED <<clock, link, life>>

CreateFile(p, f, pc, next) ==
  /\ proc[p].pc = pc /\ Exists(proc[p].cur)
  /\ Add(proc[p].cur, f)
  /\ Goto(p, next)
  /\ UNCHANGED <<clock, meta, link, life>>

CreateSummary(p) == CreateFile(p, "summary.json", "summary", "events")
CreateEvents(p) == CreateFile(p, "events.jsonl", "events", "snapshot")

\* The snapshot directory, outside Git, and the return of the session.
CreateReturn(p) ==
  /\ proc[p].pc = "snapshot"
  /\ Step(p, [proc[p] EXCEPT !.op = "use", !.pc = "ready"])
  /\ UNCHANGED <<clock, disk>>

\* Any of these steps may fail: the lock is closed first, then the
\* directory removed.
CreateFails(p) ==
  /\ proc[p].pc \in {"meta", "summary", "events", "snapshot"}
  /\ Faults \/ ~Exists(proc[p].cur)
  /\ Step(p, [proc[p] EXCEPT !.pc = "remove", !.fd = NoInode])
  /\ UNCHANGED <<clock, disk>>

-----------------------------------------------------------------------------
(* Store.Resume and openSession.                                            *)

\* Mutant of ResumeById: mark the session as running before locking it.
ResumeByIdMarks(p, i) ==
  /\ proc[p].pc = "idle" /\ HasMeta(i)
  /\ Step(p, [Idle EXCEPT !.op = "resume", !.pc = "lock", !.cur = i])
  /\ meta' = [meta EXCEPT ![i].status = "running"]
  /\ UNCHANGED <<clock, dir, link, life>>

\* By ULID: read its meta.json (no action when there is none: NOT_FOUND).
ResumeById(p, i) ==
  /\ proc[p].pc = "idle" /\ HasMeta(i)
  /\ Step(p, [Idle EXCEPT !.op = "resume", !.pc = "lock", !.cur = i])
  /\ UNCHANGED <<clock, disk>>

\* By name: list the root, then read each meta.json in turn, unlocked.
ResumeByName(p, n) ==
  /\ proc[p].pc = "idle"
  /\ Step(p, [Idle EXCEPT !.op = "resume", !.pc = "scan",
                          !.ask = n, !.todo = Listing])
  /\ UNCHANGED <<clock, disk>>

Match(i, n) == HasMeta(i) /\ meta[i].name = n

ResumeEntry(p) ==
  /\ proc[p].pc = "scan" /\ proc[p].op = "resume"
  /\ \E i \in Ids :
       /\ First(i, proc[p].todo)
       /\ LET match == IF Match(i, proc[p].ask) THEN {i} ELSE {} IN
          Step(p, [proc[p] EXCEPT !.todo = @ \ {i}, !.found = @ \cup match])
  /\ UNCHANGED <<clock, disk>>

\* Mutant of ResumeChoose: open a match even if there are several.
ResumeChooseAny(p) ==
  /\ proc[p].pc = "scan" /\ proc[p].op = "resume" /\ proc[p].todo = {}
  /\ \/ \E i \in proc[p].found :
          Step(p, [proc[p] EXCEPT !.pc = "lock", !.cur = i])
     \/ proc[p].found = {} /\ Step(p, Idle)
  /\ UNCHANGED <<clock, disk>>

\* One match is opened; none is NOT_FOUND, several are AMBIGUOUS.
ResumeChoose(p) ==
  /\ proc[p].pc = "scan" /\ proc[p].op = "resume" /\ proc[p].todo = {}
  /\ \/ \E i \in proc[p].found :
          /\ proc[p].found = {i}
          /\ Step(p, [proc[p] EXCEPT !.pc = "lock", !.cur = i])
     \/ Cardinality(proc[p].found) # 1 /\ Step(p, Idle)
  /\ UNCHANGED <<clock, disk>>

\* openSession, lock held: read meta.json again and keep what it says.
Reread(p) ==
  LET i == proc[p].cur IN
  /\ proc[p].pc = "reread"
  /\ IF HasMeta(i)
     THEN Step(p, [proc[p] EXCEPT !.pc = "check", !.mem = meta[i]])
     ELSE Step(p, Idle)
  /\ UNCHANGED <<clock, disk>>

\* Mutant of Check: the events log is not looked for.
CheckSummary(p) ==
  LET i == proc[p].cur IN
  /\ proc[p].pc = "check"
  /\ IF "summary.json" \in dir[i]
     THEN Step(p, [Idle EXCEPT !.op = "use", !.pc = "ready", !.cur = i,
                               !.fd = proc[p].fd, !.mem = proc[p].mem])
     ELSE Step(p, Idle)
  /\ UNCHANGED <<clock, disk>>

\* openSession: the log and the summary must be readable.
Check(p) ==
  LET i == proc[p].cur IN
  /\ proc[p].pc = "check"
  /\ IF {"events.jsonl", "summary.json"} \subseteq dir[i]
     THEN Step(p, [Idle EXCEPT !.op = "use", !.pc = "ready", !.cur = i,
                               !.fd = proc[p].fd, !.mem = proc[p].mem])
     ELSE Step(p, Idle)
  /\ UNCHANGED <<clock, disk>>

-----------------------------------------------------------------------------
(* Store.CleanupExpired, called by NewStore and by itself.                  *)

CleanupStart(p) ==
  /\ proc[p].pc = "idle"
  /\ Step(p, [Idle EXCEPT !.op = "cleanup", !.pc = "scan",
                          !.asof = clock, !.todo = Listing])
  /\ UNCHANGED <<clock, disk>>

\* Mutant of CleanupEntry: only sessions that never reached Close.
CleanupEntryRunning(p) ==
  /\ proc[p].pc = "scan" /\ proc[p].op = "cleanup"
  /\ \E i \in Ids :
       /\ First(i, proc[p].todo)
       /\ IF /\ HasMeta(i) /\ Expired(meta[i], proc[p].asof)
             /\ meta[i].status = "running"
          THEN Step(p, [proc[p] EXCEPT !.pc = "lock", !.cur = i])
          ELSE Step(p, [proc[p] EXCEPT !.todo = @ \ {i}])
  /\ UNCHANGED <<clock, disk>>

\* Mutant of CleanupEntry: the session is removed without its lock.
CleanupEntryUnlocked(p) ==
  /\ proc[p].pc = "scan" /\ proc[p].op = "cleanup"
  /\ \E i \in Ids :
       /\ First(i, proc[p].todo)
       /\ IF HasMeta(i) /\ Expired(meta[i], proc[p].asof)
          THEN Step(p, [proc[p] EXCEPT !.pc = "remove", !.cur = i])
          ELSE Step(p, [proc[p] EXCEPT !.todo = @ \ {i}])
  /\ UNCHANGED <<clock, disk>>

\* The unlocked read of meta.json that decides the session's fate.
CleanupEntry(p) ==
  /\ proc[p].pc = "scan" /\ proc[p].op = "cleanup"
  /\ \E i \in Ids :
       /\ First(i, proc[p].todo)
       /\ IF HasMeta(i) /\ Expired(meta[i], proc[p].asof)
          THEN Step(p, [proc[p] EXCEPT !.pc = "lock", !.cur = i])
          ELSE Step(p, [proc[p] EXCEPT !.todo = @ \ {i}])
  /\ UNCHANGED <<clock, disk>>

CleanupEnd(p) ==
  /\ proc[p].pc = "scan" /\ proc[p].op = "cleanup" /\ proc[p].todo = {}
  /\ Step(p, Idle)
  /\ UNCHANGED <<clock, disk>>

-----------------------------------------------------------------------------
(* os.RemoveAll of the session directory: one listing, an unlink of each    *)
(* name listed, and an rmdir that fails if something is left.               *)

RemoveList(p) ==
  LET i == proc[p].cur IN
  /\ proc[p].pc = "remove"
  /\ life' = [life EXCEPT ![i] = "doomed"]
  /\ Step(p, [proc[p] EXCEPT !.pc = "unlink", !.names = dir[i] \ {"."}])
  /\ UNCHANGED <<clock, dir, meta, link>>

Unlink(p, f) ==
  /\ proc[p].pc = "unlink" /\ f \in proc[p].names
  /\ dir' = [dir EXCEPT ![proc[p].cur] = @ \ {f}]
  /\ meta' = IF f = "meta.json" THEN [meta EXCEPT ![proc[p].cur] = NoMeta]
                                ELSE meta
  /\ link' = IF f = "owner.lock" THEN [link EXCEPT ![proc[p].cur] = NoInode]
                                 ELSE link
  /\ Step(p, [proc[p] EXCEPT !.names = @ \ {f}])
  /\ UNCHANGED <<clock, life>>

UnlinkFails(p, f) ==
  /\ Faults
  /\ proc[p].pc = "unlink" /\ f \in proc[p].names
  /\ Step(p, [proc[p] EXCEPT !.names = @ \ {f}])
  /\ UNCHANGED <<clock, disk>>

Rmdir(p) ==
  LET i == proc[p].cur IN
  /\ proc[p].pc = "unlink" /\ proc[p].names = {}
  /\ dir[i] \subseteq {"."}
  /\ dir' = [dir EXCEPT ![i] = {}]
  /\ IF proc[p].op = "create" THEN Step(p, Idle) ELSE Goto(p, "unlock")
  /\ UNCHANGED <<clock, meta, link, life>>

\* Create ignores the error, CleanupExpired closes the lock and returns it,
\* Close returns it and leaves the session open.
RmdirFails(p) ==
  /\ proc[p].pc = "unlink" /\ proc[p].names = {}
  /\ ~(dir[proc[p].cur] \subseteq {"."})
  /\ IF proc[p].op = "use" THEN Goto(p, "ready") ELSE Step(p, Idle)
  /\ UNCHANGED <<clock, disk>>

\* lock.Close; CleanupExpired goes on to the next session.
Unlock(p) ==
  /\ proc[p].pc = "unlock" /\ proc[p].fd # NoInode
  /\ Step(p, IF proc[p].op = "cleanup" THEN NextEntry(p) ELSE Idle)
  /\ UNCHANGED <<clock, disk>>

\* UnlockFileEx fails, as it always does with the handle of an earlier Close.
\* The handle is closed all the same, and the lock gone with it.  The pass of
\* CleanupExpired ends with the error; Close returns it and leaves the session
\* open, without its lock.
UnlockFails(p) ==
  /\ proc[p].pc = "unlock"
  /\ Faults \/ proc[p].fd = NoInode
  /\ IF proc[p].op = "cleanup"
     THEN Step(p, Idle) /\ UNCHANGED life
     ELSE /\ Step(p, [proc[p] EXCEPT !.pc = "ready", !.fd = NoInode])
          /\ life' = [life EXCEPT ![proc[p].cur] =
                        IF @ = "live" THEN "stray" ELSE @]
  /\ UNCHANGED <<clock, dir, meta, link>>

-----------------------------------------------------------------------------
(* The Session returned by Create and Resume.  A call on a session that is  *)
(* closed changes nothing and is not modelled.                              *)

\* Mutant of Persisted: the new meta is written but not kept.
PersistedOnly(p, m, files, next) ==
  LET i == proc[p].cur IN
  /\ Exists(i)
  /\ meta' = [meta EXCEPT ![i] = m]
  /\ dir' = [dir EXCEPT ![i] = @ \cup files]
  /\ Step(p, [proc[p] EXCEPT !.dirty = @ \ {"meta.json"}, !.pc = next])
  /\ UNCHANGED <<clock, link, life>>

\* persistMetaLocked: the session's meta changes in memory; then meta.json is
\* replaced atomically, or the write fails.  files are the names it leaves.
Persisted(p, m, files, next) ==
  LET i == proc[p].cur IN
  /\ Exists(i)
  /\ meta' = [meta EXCEPT ![i] = m]
  /\ dir' = [dir EXCEPT ![i] = @ \cup files]
  /\ Step(p, [proc[p] EXCEPT !.mem = m, !.dirty = @ \ {"meta.json"},
                             !.pc = next])
  /\ UNCHANGED <<clock, link, life>>

\* A save that fails leaves the file as it was, or none: ReplaceFileW, called
\* without a backup name, may have moved it away and not put the new one in its
\* place.
NotPersisted(p, m, files) ==
  LET i == proc[p].cur IN
  /\ Faults \/ ~Exists(i)
  /\ \E lost \in {{}} \cup (IF Faults THEN {{"meta.json"}} ELSE {}) :
       /\ dir' = [dir EXCEPT ![i] = (@ \cup files) \ lost]
       /\ meta' = IF lost = {} THEN meta ELSE [meta EXCEPT ![i] = NoMeta]
  /\ Step(p, [proc[p] EXCEPT !.mem = m, !.dirty = @ \cup {"meta.json"}])
  /\ UNCHANGED <<clock, link, life>>

Persist(p, m) == \/ Persisted(p, m, {"meta.json"}, "ready")
                 \/ NotPersisted(p, m, {})

SetName(p, n) ==
  /\ proc[p].pc = "ready"
  /\ Persist(p, [proc[p].mem EXCEPT !.name = n, !.updated = clock])

SaveMeta(p, n, s) ==
  /\ proc[p].pc = "ready"
  /\ Persist(p, [name |-> n, updated |-> clock, status |-> s])

SaveSummary(p) ==
  /\ proc[p].pc = "ready" /\ Exists(proc[p].cur)
  /\ Add(proc[p].cur, "summary.json")
  /\ Step(p, [proc[p] EXCEPT !.dirty = @ \ {"summary.json"}])
  /\ UNCHANGED <<clock, meta, link, life>>

\* Likewise; a failure that leaves the file changes nothing.
SummaryLost(p) ==
  /\ Faults
  /\ proc[p].pc = "ready"
  /\ dir' = [dir EXCEPT ![proc[p].cur] = @ \ {"summary.json"}]
  /\ Step(p, [proc[p] EXCEPT !.dirty = @ \cup {"summary.json"}])
  /\ UNCHANGED <<clock, meta, link, life>>

\* AppendEvent opens events.jsonl, creating it if it is not there, appends,
\* and then saves UpdatedAt; the append may be done and the save fail.
AppendEvent(p) ==
  LET m == [proc[p].mem EXCEPT !.updated = clock] IN
  /\ proc[p].pc = "ready" /\ Exists(proc[p].cur)
  /\ \/ Persisted(p, m, {"events.jsonl", "meta.json"}, "ready")
     \/ NotPersisted(p, m, {"events.jsonl"})

\* Mutant of Close: named sessions are removed too.
CloseRemovesNamed(p, s) ==
  LET m == [proc[p].mem EXCEPT !.status = s, !.updated = clock]
      next == IF s = "clean" THEN "remove" ELSE "unlock" IN
  /\ proc[p].pc = "ready"
  /\ \/ Persisted(p, m, {"meta.json"}, next)
     \/ NotPersisted(p, m, {})

\* Close saves the final status; an unnamed session that ends cleanly is
\* removed before the lock is given up.
Close(p, s) ==
  LET m == [proc[p].mem EXCEPT !.status = s, !.updated = clock]
      next == IF s = "clean" /\ m.name = NoName THEN "remove" ELSE "unlock" IN
  /\ proc[p].pc = "ready"
  /\ \/ Persisted(p, m, {"meta.json"}, next)
     \/ NotPersisted(p, m, {})

-----------------------------------------------------------------------------
(* The environment: a process dies, and the system closes its files, which  *)
(* releases its lock; time passes.                                          *)

Crash(p) == /\ Crashes
            /\ proc[p].pc # "idle"
            /\ Step(p, Idle)
            /\ UNCHANGED <<clock, disk>>

Tick == /\ clock < MaxClock
        /\ clock' = clock + 1
        /\ UNCHANGED <<disk, proc>>

Acquire(p) == OpenLockFile(p) \/ OpenLockFails(p) \/ TryLock(p) \/ LockBusy(p)
Create(p) == \/ CreateMeta(p) \/ CreateSummary(p) \/ CreateEvents(p)
             \/ CreateReturn(p) \/ CreateFails(p)
Resume(p) == ResumeEntry(p) \/ ResumeChoose(p) \/ Reread(p) \/ Check(p)
CleanupExpired(p) == CleanupEntry(p) \/ CleanupEnd(p)
RemoveAll(p) == \/ RemoveList(p) \/ Rmdir(p) \/ RmdirFails(p)
                \/ \E f \in Entries : Unlink(p, f) \/ UnlinkFails(p, f)

\* The calls a process may make when it is in none.
Begin(p) == \/ \E i \in Ids, n \in Names \cup {NoName} : CreateDir(p, i, n)
            \/ \E i \in Ids : ResumeById(p, i)
            \/ \E n \in Names : ResumeByName(p, n)
            \/ CleanupStart(p)

\* The calls on an open session.
Use(p) == \/ \E n \in Names \cup {NoName} : SetName(p, n)
          \/ \E n \in Names \cup {NoName}, s \in Statuses : SaveMeta(p, n, s)
          \/ SaveSummary(p) \/ SummaryLost(p) \/ AppendEvent(p)
          \/ \E s \in {"clean", "aborted"} : Close(p, s)

\* The steps of a call that has begun: a running process takes them.
Progress(p) == \/ Acquire(p) \/ Create(p) \/ Resume(p) \/ CleanupExpired(p)
               \/ RemoveAll(p) \/ Unlock(p) \/ UnlockFails(p)

Next == \/ \E p \in Procs : Begin(p) \/ Use(p) \/ Progress(p) \/ Crash(p)
        \/ Tick

Spec == Init /\ [][Next]_vars

=============================================================================
