------------------------------ MODULE EventLog ------------------------------
(***************************************************************************)
(* The event log of one session (internal/session/store.go): AppendEvent,  *)
(* ReadEvents, SaveSummary, openSession and Close, called by the           *)
(* goroutines of whichever process owns the session.  SessionStore shows   *)
(* that there is one owner at a time.  A line of events.jsonl is the       *)
(* record of an event, or Garbage if it is no longer JSON; after the last  *)
(* newline there may be a fragment.  Processes die, power is lost, and,    *)
(* if IOErrors, writes come up short and syncs fail.                       *)
(***************************************************************************)
EXTENDS Integers, Sequences

CONSTANTS Threads,   \* goroutines that share the session
          NoThread,  \* the mutex is free
          Events,    \* payloads
          Garbage,   \* a malformed line
          MaxLines,  \* no append is begun on a longer file
          IOErrors,  \* TRUE: write, sync and close may fail
          Rereads    \* TRUE: after an append that failed, callers read the
                     \* log (ReadEvents) before they append again

ASSUME ThreadAssumption == NoThread \notin Threads
ASSUME EventAssumption == Events # {}
ASSUME GarbageAssumption == Garbage \notin [seq : Nat, event : Events]
ASSUME BoundAssumption == MaxLines \in Nat
ASSUME SwitchAssumption == IOErrors \in BOOLEAN /\ Rereads \in BOOLEAN

VARIABLES lines,     \* the complete lines of events.jsonl
          frag,      \* TRUE: bytes follow the last newline
          synced,    \* how many of the lines a loss of power would leave
          summary,   \* LastEventSeq in summary.json
          open,      \* TRUE: a process has the session open
          lastSeq,   \* Session.lastSeq
          trailing,  \* Session.trailingEvents
          mu,        \* who holds Session.mu
          call,      \* call[t]: the AppendEvent of t: its next step, its event
          stale,     \* history: an append has failed since the log was read
          acked      \* history: the events that AppendEvent has returned

file == <<lines, frag, synced>>
vars == <<lines, frag, synced, summary, open, lastSeq, trailing, mu, call,
          stale, acked>>

-----------------------------------------------------------------------------
(* readEvents: every complete line is an event and they are numbered 1, 2,  *)
(* 3, ...; otherwise E_SESSION_CORRUPT.  A fragment is reported, not read.  *)

Record == [seq : Nat, event : Events]
Readable == \A n \in DOMAIN lines : lines[n] # Garbage /\ lines[n].seq = n

\* Mutant of Write's effect on the file: the file is opened to overwrite.
WrittenOver(r) == IF frag THEN Append(lines, r) ELSE <<r>>

\* A line written after a fragment is glued to it and neither is JSON.
Written(r) == Append(lines, IF frag THEN Garbage ELSE r)

NoCall == [pc |-> "idle", event |-> CHOOSE e \in Events : TRUE]
Pcs == {"idle", "write", "sync", "close", "save"}

Init == /\ lines = <<>> /\ frag = FALSE /\ synced = 0
        /\ summary = 0
        /\ open = TRUE /\ lastSeq = 0 /\ trailing = FALSE
        /\ mu = NoThread
        /\ call = [t \in Threads |-> NoCall]
        /\ stale = FALSE
        /\ acked = {}

Goto(t, step) == call' = [call EXCEPT ![t].pc = step]

\* AppendEvent returns: the deferred Unlock.
Return(t) == mu' = NoThread /\ call' = [call EXCEPT ![t] = NoCall]

-----------------------------------------------------------------------------
(* AppendEvent, under Session.mu from its first line to its last.           *)

\* Mutant of AppendBegin: append even after a fragment.
AppendBeginAnyTail(t, e) ==
  /\ open /\ mu = NoThread
  /\ Rereads => ~stale
  /\ Len(lines) < MaxLines
  /\ mu' = t
  /\ call' = [call EXCEPT ![t] = [pc |-> "write", event |-> e]]
  /\ UNCHANGED <<file, summary, open, lastSeq, trailing, stale, acked>>

\* A closed session and a log with a fragment at its end refuse.
AppendBegin(t, e) ==
  /\ open /\ ~trailing /\ mu = NoThread
  /\ Rereads => ~stale
  /\ Len(lines) < MaxLines
  /\ mu' = t
  /\ call' = [call EXCEPT ![t] = [pc |-> "write", event |-> e]]
  /\ UNCHANGED <<file, summary, open, lastSeq, trailing, stale, acked>>

Write(t) ==
  /\ call[t].pc = "write"
  /\ lines' = Written([seq |-> lastSeq + 1, event |-> call[t].event])
  /\ frag' = FALSE
  /\ Goto(t, "sync")
  /\ UNCHANGED <<synced, summary, open, lastSeq, trailing, mu, stale, acked>>

\* A short write: part of the line, or nothing, is in the file.
WriteFails(t) ==
  /\ IOErrors /\ call[t].pc = "write"
  /\ frag' \in {frag, TRUE}
  /\ Return(t)
  /\ stale' = TRUE
  /\ UNCHANGED <<lines, synced, summary, open, lastSeq, trailing, acked>>

\* Mutant of Sync: off by one.
SyncAhead(t) ==
  /\ call[t].pc = "sync"
  /\ synced' = Len(lines) + 1
  /\ Goto(t, "close")
  /\ UNCHANGED <<lines, frag, summary, open, lastSeq, trailing, mu, stale,
                 acked>>

\* Mutant of Sync: the data stays in the system's cache.
SyncNothing(t) ==
  /\ call[t].pc = "sync"
  /\ Goto(t, "close")
  /\ UNCHANGED <<file, summary, open, lastSeq, trailing, mu, stale, acked>>

Sync(t) ==
  /\ call[t].pc = "sync"
  /\ synced' = Len(lines)
  /\ Goto(t, "close")
  /\ UNCHANGED <<lines, frag, summary, open, lastSeq, trailing, mu, stale,
                 acked>>

\* The file is closed, and only then is lastSeq advanced.
CloseFile(t) ==
  /\ call[t].pc = "close"
  /\ lastSeq' = lastSeq + 1
  /\ Goto(t, "save")
  /\ UNCHANGED <<file, summary, open, trailing, mu, stale, acked>>

\* The sync or the close fails: an error is returned and nothing is undone.
SyncOrCloseFails(t) ==
  /\ IOErrors /\ call[t].pc \in {"sync", "close"}
  /\ Return(t)
  /\ stale' = TRUE
  /\ UNCHANGED <<file, summary, open, lastSeq, trailing, acked>>

\* persistMetaLocked, then the event is returned.
SaveMeta(t) ==
  /\ call[t].pc = "save"
  /\ acked' = acked \cup {[seq |-> lastSeq, event |-> call[t].event]}
  /\ Return(t)
  /\ UNCHANGED <<file, summary, open, lastSeq, trailing, stale>>

\* ... which may fail after the event is in the log.
SaveMetaFails(t) ==
  /\ IOErrors /\ call[t].pc = "save"
  /\ Return(t)
  /\ UNCHANGED <<file, summary, open, lastSeq, trailing, stale, acked>>

-----------------------------------------------------------------------------
(* The other calls; each runs to its end under the mutex.                   *)

\* ReadEvents takes lastSeq and the fragment flag from the file.
ReadEvents ==
  /\ open /\ mu = NoThread /\ Readable
  /\ lastSeq' = Len(lines) /\ trailing' = frag
  /\ stale' = FALSE
  /\ UNCHANGED <<file, summary, open, mu, call, acked>>

\* Mutant of SaveSummary: the caller's LastEventSeq as it is.
SaveSummaryRaw(n) ==
  /\ open /\ mu = NoThread
  /\ summary' = n
  /\ UNCHANGED <<file, open, lastSeq, trailing, mu, call, stale, acked>>

\* SaveSummary raises the caller's LastEventSeq to lastSeq.
SaveSummary(n) ==
  /\ open /\ mu = NoThread
  /\ summary' = IF n < lastSeq THEN lastSeq ELSE n
  /\ UNCHANGED <<file, open, lastSeq, trailing, mu, call, stale, acked>>

Close ==
  /\ open /\ mu = NoThread
  /\ open' = FALSE
  /\ UNCHANGED <<file, summary, lastSeq, trailing, mu, call, stale, acked>>

\* openSession by this or by another process; a corrupt log is refused.
Open ==
  /\ ~open /\ Readable
  /\ open' = TRUE /\ lastSeq' = Len(lines) /\ trailing' = frag
  /\ stale' = FALSE
  /\ UNCHANGED <<file, summary, mu, call, acked>>

-----------------------------------------------------------------------------
(* The environment.                                                         *)

\* The process is gone, with its mutex, its calls and its memory.
Gone == /\ open' = FALSE /\ mu' = NoThread
        /\ call' = [t \in Threads |-> NoCall]
        /\ stale' = FALSE
        /\ UNCHANGED <<summary, lastSeq, trailing, acked>>

\* It dies; if it was writing, part of the line may be in the file.
Crash == /\ open
         /\ \/ frag' = TRUE /\ \E t \in Threads : call[t].pc = "write"
            \/ frag' = frag
         /\ Gone
         /\ UNCHANGED <<lines, synced>>

\* The machine stops: what was not synced may be lost, or lost in part.
PowerLoss == /\ \E n \in synced..Len(lines) :
                  /\ lines' = SubSeq(lines, 1, n)
                  /\ synced' = n
                  /\ \/ n < Len(lines) /\ frag' \in BOOLEAN
                     \/ /\ n = Len(lines)
                        /\ \/ frag' = frag
                           \/ \E t \in Threads :
                                call[t].pc = "write" /\ frag' = TRUE
             /\ Gone

Next == \/ \E t \in Threads :
             \/ \E e \in Events : AppendBegin(t, e)
             \/ Write(t) \/ WriteFails(t)
             \/ Sync(t) \/ CloseFile(t) \/ SyncOrCloseFails(t)
             \/ SaveMeta(t) \/ SaveMetaFails(t)
        \/ ReadEvents
        \/ \E n \in 0..MaxLines : SaveSummary(n)
        \/ Close \/ Open \/ Crash \/ PowerLoss

Spec == Init /\ [][Next]_vars

-----------------------------------------------------------------------------
(* Properties.                                                              *)

TypeOK == /\ lines \in Seq(Record \cup {Garbage}) /\ Len(lines) =< MaxLines
          /\ frag \in BOOLEAN /\ synced \in 0..Len(lines)
          /\ summary \in Nat /\ lastSeq \in Nat
          /\ open \in BOOLEAN /\ trailing \in BOOLEAN /\ stale \in BOOLEAN
          /\ mu \in Threads \cup {NoThread}
          /\ call \in [Threads -> [pc : Pcs, event : Events]]
          /\ acked \subseteq Record

\* docs/spec.md:48, 297: every event that AppendEvent has returned is found
\* by whoever reads the log later, whatever has crashed in between.
AckedReadable ==
  Readable /\ \A a \in acked : a.seq =< Len(lines) /\ lines[a.seq] = a

\* docs/spec.md:297, 388 (INV-2) and session_test.go:270: no step changes a
\* line that is still in the file after it, synced or not.  Lines go only in
\* a step that also takes the session from whoever had it open (a loss of
\* power), and then none that was synced.  Nothing follows a fragment.
OnlyAppends ==
  [][/\ \A n \in DOMAIN lines \cap DOMAIN lines' : lines'[n] = lines[n]
     /\ Len(lines') < Len(lines) => ~open' /\ synced =< Len(lines')
     /\ frag /\ lines' # lines => Len(lines') < Len(lines)]_vars

\* The summary accounts for every event returned before it was saved: its
\* LastEventSeq is not behind (store.go:300-302).
SummaryNotBehind ==
  [][summary' # summary => \A a \in acked : a.seq =< summary']_vars

\* The log as its readers see it implements AppendOnlyLog.
Abstract == INSTANCE AppendOnlyLog
              WITH log <- [n \in DOMAIN lines |->
                             IF lines[n] = Garbage THEN Garbage
                                                   ELSE lines[n].event]
ImplementsAppendOnlyLog == Abstract!ASpec
=============================================================================
