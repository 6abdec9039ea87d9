------------------------- MODULE SessionProperties -------------------------
(* What the session store promises, stated over module SessionStore.        *)
EXTENDS SessionStore

\* Every variable has its type.
TypeOK == /\ clock \in 0..MaxClock
          /\ dir \in [Ids -> SUBSET Entries]
          /\ meta \in [Ids -> Meta]
          /\ link \in [Ids -> Inodes \cup {NoInode}]
          /\ life \in [Ids -> {"unused", "live", "stray", "doomed"}]
          /\ proc \in [Procs -> Proc]

\* Process p has session i open: Create or Resume gave it a Session that
\* Close has not finished with.
Open(p, i) == proc[p].cur = i /\ proc[p].op = "use"

-----------------------------------------------------------------------------
(* Safety that holds.                                                       *)

\* The owner.lock protocol (store.go:102,193,239) lets two processes hold
\* the lock of one session only after a RemoveAll of it has begun.
ExclusiveOwner ==
  \A p, q \in Procs, i \in Ids :
    p # q /\ Has(p, i) /\ Has(q, i) => life[i] = "doomed"

\* The metadata an open session keeps in memory is what its meta.json says:
\* no other process has written it since openSession read it again under the
\* lock (store.go:203).  Only the owner's own failed save tells them apart, or
\* a Close that failed to unlock: the session stays open without its lock
\* (store.go:393-395), and from then on nothing is claimed.
MetaCoherent ==
  \A p \in Procs, i \in Ids :
    Open(p, i) /\ life[i] = "live" /\ "meta.json" \notin proc[p].dirty =>
      HasMeta(i) /\ meta[i] = proc[p].mem

\* A Session is never returned without its three files and its lock file,
\* whatever crashed or failed before (store.go:107-129, 203-217).  While it is
\* open it loses no file but one that its own last save could not replace
\* (replace_file_windows.go:33-42, store.go:447).
OpenIsComplete ==
  \A p \in Procs, i \in Ids :
    Open(p, i) /\ life[i] = "live" => dir[i] \cup proc[p].dirty = Entries

\* A RemoveAll that begins in Close or in CleanupExpired takes a session
\* that nobody else has open, unless a Close of it has failed to unlock; the
\* one in Close takes a session whose saved metadata is unnamed and clean
\* (store.go:388, 239-246).
RemovalJustified ==
  [][\A p \in Procs, i \in Ids :
       /\ proc[p].cur = i /\ proc[p].pc = "remove" /\ proc'[p].pc = "unlink"
       /\ proc[p].op # "create" /\ life[i] = "live"
       => /\ \A q \in Procs \ {p} : ~Open(q, i)
          /\ proc[p].op = "use" =>
               meta[i].name = NoName /\ meta[i].status = "clean"]_vars

\* Whoever changes a session's metadata or unlinks one of its files has its
\* lock, until a RemoveAll of it has begun: the unlocked reads of Resume and
\* CleanupExpired never turn into writes.  The only one to write without the
\* lock is who closed the session, failed to unlock it and still has it open
\* (store.go:393-395).
OnlyOwnerWrites ==
  [][\A i \in Ids :
       /\ life[i] # "doomed" /\ life'[i] # "doomed"
       /\ meta'[i] # meta[i] \/ ~(dir[i] \subseteq dir'[i])
       => \E p \in Procs : /\ \/ Has(p, i)
                              \/ life[i] = "stray" /\ Open(p, i)
                           /\ \A q \in Procs \ {p} : proc'[q] = proc[q]]_vars

-----------------------------------------------------------------------------
(* The store implements module SessionRegister: without its files, locks    *)
(* and scans, a session is a register owned by one process at a time.  Of a *)
(* session whose removal has begun, or whose owner failed to let go of the  *)
(* lock, nothing is promised.                                               *)

Making(p, i) == proc[p].op = "create" /\ proc[p].cur = i
OfLive(i, x, none) == IF life[i] = "live" THEN x ELSE none

StageOf(i) == IF life[i] \in {"stray", "doomed"} THEN "gone" ELSE life[i]
MakersOf(i) == OfLive(i, {p \in Procs : Making(p, i)}, {})
OwnersOf(i) == OfLive(i, {p \in Procs : Has(p, i)}, {})
ValueOf(i) == OfLive(i, meta[i], NoMeta)

Register == INSTANCE SessionRegister WITH
  Values <- Meta, NoValue <- NoMeta,
  stage <- [i \in Ids |-> StageOf(i)],
  makers <- [i \in Ids |-> MakersOf(i)],
  owners <- [i \in Ids |-> OwnersOf(i)],
  value <- [i \in Ids |-> ValueOf(i)]

\* docs/spec.md:292-300, store.go:65-398: whatever is interleaved, crashes or
\* fails, every step of a process is a step of the register or none.  Only its
\* owner, or the process whose Create of it has failed (store.go:108-129),
\* begins to remove a session, or leaves it unlocked and open.
ImplementsRegister == Register!RegisterSpec

-----------------------------------------------------------------------------
(* Why ExclusiveOwner holds: an inductive strengthening of it.              *)

\* An identifier not yet taken has no directory, and what a listing has
\* found has been taken.
UnusedIsAbsent == \A i \in Ids : life[i] = "unused" => dir[i] = {}
ListedIsUsed == \A p \in Procs : \A i \in proc[p].todo \cup proc[p].found :
                  life[i] # "unused"

\* A process past its scan works on one session; before that it has no
\* lock file open.
CurrentIsUsed ==
  \A p \in Procs :
    IF proc[p].pc \in {"idle", "scan"} THEN proc[p].fd = NoInode
    ELSE proc[p].cur \in Ids /\ life[proc[p].cur] # "unused"

\* Each call has steps of its own.
StepsOf ==
  [none    |-> {"idle"},
   create  |-> {"lock", "meta", "summary", "events", "snapshot",
                "remove", "unlink"},
   resume  |-> {"scan", "lock", "reread", "check"},
   cleanup |-> {"scan", "lock", "remove", "unlink", "unlock"},
   use     |-> {"ready", "remove", "unlink", "unlock"}]
StepOfCall == \A p \in Procs : proc[p].pc \in StepsOf[proc[p].op]

\* Files are unlinked only by a RemoveAll that is on record.
UnlinkIsDoomed ==
  \A p \in Procs : proc[p].pc = "unlink" => life[proc[p].cur] = "doomed"

\* Whoever has the lock file of a session open has the one that is linked.
OpenedIsLinked ==
  \A p \in Procs :
    proc[p].fd # NoInode /\ life[proc[p].cur] # "doomed" =>
      /\ "owner.lock" \in dir[proc[p].cur]
      /\ link[proc[p].cur] = proc[p].fd

\* A file is locked by one process.
OneHolder ==
  \A p, q \in Procs :
    /\ Holds(p) /\ Holds(q)
    /\ proc[p].cur = proc[q].cur /\ proc[p].fd = proc[q].fd
    => p = q

SessionInv == /\ TypeOK /\ UnusedIsAbsent /\ ListedIsUsed /\ CurrentIsUsed
              /\ StepOfCall /\ UnlinkIsDoomed /\ OpenedIsLinked /\ OneHolder

-----------------------------------------------------------------------------
(* What a doc or a test says and the code does not do.                      *)

\* docs/spec.md:296 and the comment at store.go:55: cleanup is for unnamed
\* sessions that ended abnormally 72 hours ago.  CleanupExpired decides
\* before it has the lock and does not look again.
CleanupRemovesOnlyExpired ==
  [][\A p \in Procs, i \in Ids :
       /\ proc[p].cur = i /\ proc[p].op = "cleanup" /\ life[i] = "live"
       /\ proc[p].pc = "remove" /\ proc'[p].pc = "unlink"
       => Expired(meta[i], clock)]_vars

\* docs/spec.md:411 (EC-9): cleanup of what is not there succeeds.  When
\* another cleanup has removed the directory first, taking the lock fails
\* and the pass ends with an error (store.go:243), and with it NewStore.
CleanupToleratesVanished ==
  [][\A p \in Procs :
       /\ proc[p].op = "cleanup" /\ proc[p].pc = "lock"
       /\ ~Exists(proc[p].cur)
       => proc'[p].pc # "idle"]_vars

-----------------------------------------------------------------------------
(* Liveness.  A running process goes on with the call it is in, and store   *)
(* startups, which call CleanupExpired, keep happening.                     *)

FairSpec == /\ Spec
            /\ \A p \in Procs : WF_vars(Progress(p)) /\ SF_vars(CleanupStart(p))

\* Every call returns: nobody waits for a lock (lock_windows.go:38), and a
\* CleanupExpired that skips a busy session goes on.
CallsReturn ==
  \A p \in Procs : proc[p].pc \notin {"idle", "ready"} ~>
                   proc[p].pc \in {"idle", "ready"}

\* A session left by an abnormal end is removed by the startups that follow
\* its expiry, unless somebody opens it first (store.go:55-59, 222-256).
ExpiredIsCollected ==
  \A i \in Ids :
    HasMeta(i) /\ life[i] = "live" /\ Expired(meta[i], clock) ~>
      ~HasMeta(i) \/ \E p \in Procs : Open(p, i)
=============================================================================
