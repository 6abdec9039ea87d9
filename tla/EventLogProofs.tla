---------------------------- MODULE EventLogProofs ----------------------------
(* Proofs about the event log, for any number of goroutines and events.     *)
EXTENDS EventLog, SequenceTheorems, TLAPS

-----------------------------------------------------------------------------
(* What holds of every caller, careful or not.                              *)

\* The mutex is held from the first line of AppendEvent to the last.
Holder == /\ \A t \in Threads : call[t].pc # "idle" <=> mu = t
          /\ mu # NoThread => open /\ ~trailing

\* lastSeq is not ahead of the file, nor of what is synced once it is.
Counted ==
  /\ \A t \in Threads :
       /\ call[t].pc = "write" => Len(lines) < MaxLines
       /\ call[t].pc = "sync" => lastSeq < Len(lines)
       /\ call[t].pc = "close" => lastSeq < synced
       /\ call[t].pc = "save" => 0 < lastSeq /\ lastSeq =< synced
  /\ open => lastSeq =< Len(lines) /\ \A a \in acked : a.seq =< lastSeq
  /\ \A a \in acked : 0 < a.seq /\ a.seq =< synced

BaseInv == TypeOK /\ Holder /\ Counted

-----------------------------------------------------------------------------
(* What holds if nobody appends after an append that failed without having  *)
(* read the log: the file, the counter and the fragment flag agree.         *)

LastIs(r) == lines[Len(lines)] = r

Agreed ==
  /\ stale => IOErrors
  /\ open /\ ~stale /\ mu = NoThread => lastSeq = Len(lines) /\ trailing = frag
  /\ mu # NoThread => ~stale /\ ~frag
  /\ \A t \in Threads :
       /\ call[t].pc = "write" => lastSeq = Len(lines)
       /\ call[t].pc \in {"sync", "close"} =>
            /\ Len(lines) = lastSeq + 1
            /\ LastIs([seq |-> lastSeq + 1, event |-> call[t].event])
       /\ call[t].pc = "save" =>
            /\ Len(lines) = lastSeq
            /\ LastIs([seq |-> lastSeq, event |-> call[t].event])

LogInv == BaseInv /\ AckedReadable /\ Agreed

-----------------------------------------------------------------------------
(* Sequences of lines, and calls.                                           *)

Line == Record \cup {Garbage}

\* One more line at the end.
LEMMA OneMore ==
  ASSUME NEW s \in Seq(Line), NEW r \in Line
  PROVE  /\ Append(s, r) \in Seq(Line) /\ Len(Append(s, r)) = Len(s) + 1
         /\ \A n \in 1..Len(s) : Append(s, r)[n] = s[n]
         /\ Append(s, r)[Len(s) + 1] = r
BY AppendProperties

\* The lines up to n.
LEMMA Prefix ==
  ASSUME NEW S, NEW s \in Seq(S), NEW n \in 0..Len(s)
  PROVE  /\ SubSeq(s, 1, n) \in Seq(S) /\ Len(SubSeq(s, 1, n)) = n
         /\ DOMAIN SubSeq(s, 1, n) = 1..n
         /\ \A i \in 1..n : SubSeq(s, 1, n)[i] = s[i]
<1>1. n \in Int /\ 1 \in Int /\ \A i \in 1..n : s[i] \in S
  OBVIOUS
<1>2. /\ SubSeq(s, 1, n) \in Seq(S)
      /\ Len(SubSeq(s, 1, n)) = IF 1 =< n THEN n - 1 + 1 ELSE 0
      /\ \A i \in 1..n - 1 + 1 : SubSeq(s, 1, n)[i] = s[1 + i - 1]
  BY <1>1, SubSeqProperties
<1>3. n - 1 + 1 = n /\ \A i \in 1..n : 1 + i - 1 = i
  OBVIOUS
<1>4. Len(SubSeq(s, 1, n)) = n /\ \A i \in 1..n : SubSeq(s, 1, n)[i] = s[i]
  BY <1>2, <1>3
<1>5. DOMAIN SubSeq(s, 1, n) = 1..Len(SubSeq(s, 1, n))
  BY <1>2
<1> QED
  BY <1>2, <1>4, <1>5

LEMMA NoCallType == NoCall \in [pc : Pcs, event : Events] /\ NoCall.pc = "idle"
<1>1. (CHOOSE e \in Events : TRUE) \in Events
  BY EventAssumption
<1> QED
  BY <1>1 DEF NoCall, Pcs

\* Who is in AppendEvent holds the mutex; everybody else is idle.
LEMMA Serving ==
  ASSUME BaseInv, NEW t \in Threads, call[t].pc # "idle"
  PROVE  /\ mu = t /\ mu # NoThread /\ open /\ ~trailing
         /\ \A u \in Threads \ {t} : call[u].pc = "idle"
BY ThreadAssumption DEF BaseInv, Holder

LEMMA Free ==
  ASSUME BaseInv, mu = NoThread
  PROVE  \A u \in Threads : call[u].pc = "idle"
BY ThreadAssumption DEF BaseInv, Holder

\* A call goes to its next step.
LEMMA GotoCalls ==
  ASSUME TypeOK, NEW t \in Threads, NEW step \in Pcs, Goto(t, step)
  PROVE  /\ call' \in [Threads -> [pc : Pcs, event : Events]]
         /\ call'[t].pc = step /\ call'[t].event = call[t].event
         /\ \A u \in Threads \ {t} : call'[u] = call[u]
BY DEF TypeOK, Goto

\* A call returns.
LEMMA ReturnCalls ==
  ASSUME BaseInv, NEW t \in Threads, call[t].pc # "idle", Return(t)
  PROVE  /\ call' \in [Threads -> [pc : Pcs, event : Events]]
         /\ mu' = NoThread /\ \A u \in Threads : call'[u].pc = "idle"
<1>1. \A u \in Threads : call'[u] = IF u = t THEN NoCall ELSE call[u]
  BY DEF Return, BaseInv, TypeOK
<1>2. call' \in [Threads -> [pc : Pcs, event : Events]]
  BY NoCallType DEF Return, BaseInv, TypeOK
<1> QED
  BY <1>1, <1>2, Serving, NoCallType DEF Return

-----------------------------------------------------------------------------
(* The base invariant, step by step.                                        *)

LEMMA TypeFacts ==
  ASSUME TypeOK
  PROVE  /\ lines \in Seq(Line) /\ Len(lines) \in Nat /\ Len(lines) =< MaxLines
         /\ lastSeq \in Nat /\ synced \in Nat /\ synced =< Len(lines)
         /\ summary \in Nat /\ MaxLines \in Nat
         /\ \A a \in acked : a \in Record /\ a.seq \in Nat
         /\ \A t \in Threads : call[t].event \in Events /\ call[t].pc \in Pcs
BY BoundAssumption DEF TypeOK, Line, Record

LEMMA AppendBeginKeepsBase ==
  ASSUME BaseInv, NEW t \in Threads, NEW e \in Events, AppendBegin(t, e)
  PROVE  BaseInv'
<1>1. /\ \A u \in Threads :
           call'[u] = IF u = t THEN [pc |-> "write", event |-> e] ELSE call[u]
      /\ mu' = t /\ t # NoThread /\ \A u \in Threads : call[u].pc = "idle"
      /\ open /\ ~trailing /\ Len(lines) < MaxLines
      /\ UNCHANGED <<file, summary, open, lastSeq, trailing, stale, acked>>
  BY Free, ThreadAssumption DEF AppendBegin, BaseInv, TypeOK
<1>2. TypeOK'
  BY <1>1 DEF AppendBegin, BaseInv, TypeOK, Pcs, file
<1>3. Holder'
  BY <1>1 DEF BaseInv, Holder
<1>4. Counted'
  BY <1>1 DEF BaseInv, Counted, file
<1> QED
  BY <1>2, <1>3, <1>4 DEF BaseInv

\* A record that is written becomes a line, Garbage after a fragment.
LEMMA WrittenLines ==
  ASSUME BaseInv, NEW t \in Threads, Write(t)
  PROVE  /\ lines' \in Seq(Line) /\ Len(lines') = Len(lines) + 1
         /\ \A n \in 1..Len(lines) : lines'[n] = lines[n]
         /\ ~frag => lines'[Len(lines) + 1] =
                       [seq |-> lastSeq + 1, event |-> call[t].event]
<1> DEFINE r == IF frag THEN Garbage
                ELSE [seq |-> lastSeq + 1, event |-> call[t].event]
<1>1. r \in Line
  BY TypeFacts DEF BaseInv, Line, Record
<1>2. lines' = Append(lines, r) /\ lines \in Seq(Line)
  BY TypeFacts DEF Write, Written, BaseInv
<1> HIDE DEF r
<1>3. /\ Append(lines, r) \in Seq(Line) /\ Len(Append(lines, r)) = Len(lines) + 1
      /\ \A n \in 1..Len(lines) : Append(lines, r)[n] = lines[n]
      /\ Append(lines, r)[Len(lines) + 1] = r
  BY <1>1, <1>2, OneMore
<1> QED
  BY <1>2, <1>3 DEF r

LEMMA WriteKeepsBase ==
  ASSUME BaseInv, NEW t \in Threads, Write(t)
  PROVE  BaseInv'
<1>1. /\ call[t].pc = "write" /\ mu = t /\ open /\ ~trailing /\ frag' = FALSE
      /\ \A u \in Threads \ {t} : call[u].pc = "idle"
      /\ UNCHANGED <<synced, summary, open, lastSeq, trailing, mu, stale, acked>>
  BY Serving DEF Write
<1>2. /\ call' \in [Threads -> [pc : Pcs, event : Events]]
      /\ call'[t].pc = "sync" /\ \A u \in Threads \ {t} : call'[u] = call[u]
  BY GotoCalls DEF Write, BaseInv, Pcs
<1>3. /\ lines' \in Seq(Line) /\ Len(lines') = Len(lines) + 1
      /\ Len(lines) < MaxLines
  BY <1>1, WrittenLines DEF BaseInv, Counted
<1>4. TypeOK'
  <2>1. Len(lines') =< MaxLines /\ synced \in 0..Len(lines')
    BY <1>3, TypeFacts DEF BaseInv
  <2>2. lines' \in Seq(Record \cup {Garbage})
    BY <1>3 DEF Line
  <2> QED
    BY <1>1, <1>2, <2>1, <2>2 DEF BaseInv, TypeOK
<1>5. Holder'
  BY <1>1, <1>2 DEF BaseInv, Holder
<1>6. Counted'
  BY <1>1, <1>2, <1>3, TypeFacts DEF BaseInv, Counted
<1> QED
  BY <1>4, <1>5, <1>6 DEF BaseInv

\* A call returns early, or late without the event.
LEMMA FailKeepsBase ==
  ASSUME BaseInv, NEW t \in Threads, call[t].pc # "idle", Return(t),
         frag' \in BOOLEAN, stale' \in BOOLEAN,
         UNCHANGED <<lines, synced, summary, open, lastSeq, trailing, acked>>
  PROVE  BaseInv'
<1>1. /\ call' \in [Threads -> [pc : Pcs, event : Events]]
      /\ mu' = NoThread /\ \A u \in Threads : call'[u].pc = "idle"
  BY ReturnCalls
<1>2. TypeOK'
  BY <1>1 DEF BaseInv, TypeOK
<1>3. Holder' /\ Counted'
  BY <1>1, ThreadAssumption DEF BaseInv, Holder, Counted
<1> QED
  BY <1>2, <1>3 DEF BaseInv

LEMMA SyncKeepsBase ==
  ASSUME BaseInv, NEW t \in Threads, Sync(t) \/ CloseFile(t)
  PROVE  BaseInv'
<1>1. PICK step \in {"close", "save"} : Goto(t, step) /\ (step = "close" <=> Sync(t))
  BY DEF Sync, CloseFile
<1>2. /\ call[t].pc = IF step = "close" THEN "sync" ELSE "close"
      /\ synced' = IF step = "close" THEN Len(lines) ELSE synced
      /\ lastSeq' = IF step = "close" THEN lastSeq ELSE lastSeq + 1
      /\ UNCHANGED <<lines, frag, summary, open, trailing, mu, stale, acked>>
  BY <1>1 DEF Sync, CloseFile, file
<1>3. /\ call' \in [Threads -> [pc : Pcs, event : Events]]
      /\ call'[t].pc = step /\ \A u \in Threads \ {t} : call'[u] = call[u]
  BY <1>1, GotoCalls DEF BaseInv, Pcs
<1>4. mu = t /\ \A u \in Threads \ {t} : call[u].pc = "idle"
  BY <1>2, Serving
<1>5. TypeOK'
  <2>1. TypeOK /\ Len(lines) \in Nat /\ lastSeq \in Nat
    BY TypeFacts DEF BaseInv
  <2>2. lastSeq' \in Nat /\ synced' \in 0..Len(lines)
    BY <1>2, <2>1 DEF TypeOK
  <2> QED
    BY <1>2, <1>3, <2>1, <2>2 DEF TypeOK
<1>6. Holder'
  BY <1>2, <1>3, <1>4 DEF BaseInv, Holder
<1>7. Counted'
  BY <1>2, <1>3, <1>4, TypeFacts DEF BaseInv, Counted
<1> QED
  BY <1>5, <1>6, <1>7 DEF BaseInv

LEMMA SaveMetaKeepsBase ==
  ASSUME BaseInv, NEW t \in Threads, SaveMeta(t)
  PROVE  BaseInv'
<1> DEFINE a == [seq |-> lastSeq, event |-> call[t].event]
<1>1. /\ call[t].pc = "save" /\ acked' = acked \cup {a}
      /\ UNCHANGED <<lines, frag, synced, summary, open, lastSeq, trailing, stale>>
  BY DEF SaveMeta, file
<1>2. /\ call' \in [Threads -> [pc : Pcs, event : Events]]
      /\ mu' = NoThread /\ \A u \in Threads : call'[u].pc = "idle"
  BY <1>1, ReturnCalls DEF SaveMeta
<1>3. a \in Record /\ a.seq = lastSeq /\ 0 < lastSeq /\ lastSeq =< synced
  BY <1>1, TypeFacts DEF BaseInv, Counted, Record
<1> HIDE DEF a
<1>4. TypeOK'
  BY <1>1, <1>2, <1>3 DEF BaseInv, TypeOK
<1>5. Holder' /\ Counted'
  BY <1>1, <1>2, <1>3, ThreadAssumption, TypeFacts DEF BaseInv, Holder, Counted
<1> QED
  BY <1>4, <1>5 DEF BaseInv

LEMMA OtherCallsKeepBase ==
  ASSUME BaseInv,
         ReadEvents \/ (\E n \in 0..MaxLines : SaveSummary(n)) \/ Close \/ Open
  PROVE  BaseInv'
<1>1. mu = NoThread /\ \A u \in Threads : call[u].pc = "idle"
  <2>1. ~open => mu = NoThread
    BY DEF BaseInv, Holder
  <2> QED
    BY <2>1, Free DEF ReadEvents, SaveSummary, Close, Open
<1>2. UNCHANGED <<lines, frag, synced, mu, call, acked>>
  BY DEF ReadEvents, SaveSummary, Close, Open, file
<1>3. /\ summary' \in Nat /\ lastSeq' \in {lastSeq, Len(lines)}
      /\ lastSeq' = lastSeq => open' = FALSE \/ open \/ lastSeq = Len(lines)
      /\ open' \in BOOLEAN /\ trailing' \in BOOLEAN /\ stale' \in BOOLEAN
  <2>1. ASSUME NEW n \in 0..MaxLines, SaveSummary(n)
        PROVE  /\ summary' \in Nat
               /\ UNCHANGED <<open, lastSeq, trailing, stale>> /\ open
    BY <2>1, TypeFacts DEF SaveSummary, BaseInv
  <2>2. CASE ReadEvents \/ Close \/ Open
    BY <2>2, TypeFacts DEF ReadEvents, Close, Open, BaseInv, TypeOK
  <2> QED
    BY <2>1, <2>2 DEF BaseInv, TypeOK
<1>4. TypeOK'
  BY <1>2, <1>3, TypeFacts DEF BaseInv, TypeOK
<1>5. Holder'
  BY <1>1, <1>2, ThreadAssumption DEF Holder
<1>6. Counted'
  <2>1. \A a \in acked : a.seq =< Len(lines)
    BY TypeFacts DEF BaseInv, Counted
  <2> QED
    BY <1>1, <1>2, <1>3, <2>1, TypeFacts DEF BaseInv, Counted
<1> QED
  BY <1>4, <1>5, <1>6 DEF BaseInv

\* What is left when the machine stops is a prefix with all that was synced.
LEMMA LeftLines ==
  ASSUME BaseInv, PowerLoss
  PROVE  \E n \in 0..Len(lines) :
           /\ synced =< n /\ synced' = n /\ lines' = SubSeq(lines, 1, n)
           /\ lines' \in Seq(Line) /\ Len(lines') = n
           /\ \A i \in 1..n : lines'[i] = lines[i]
<1>1. PICK n \in synced..Len(lines) : lines' = SubSeq(lines, 1, n) /\ synced' = n
  BY DEF PowerLoss
<1>2. n \in 0..Len(lines) /\ synced =< n /\ lines \in Seq(Line)
  BY TypeFacts DEF BaseInv
<1>3. /\ SubSeq(lines, 1, n) \in Seq(Line) /\ Len(SubSeq(lines, 1, n)) = n
      /\ \A i \in 1..n : SubSeq(lines, 1, n)[i] = lines[i]
  BY <1>2, Prefix
<1> QED
  BY <1>1, <1>2, <1>3

LEMMA CrashKeepsBase ==
  ASSUME BaseInv, Crash \/ PowerLoss
  PROVE  BaseInv'
<1>1. /\ open' = FALSE /\ mu' = NoThread /\ stale' = FALSE
      /\ call' = [t \in Threads |-> NoCall]
      /\ UNCHANGED <<summary, lastSeq, trailing, acked>>
  BY DEF Crash, PowerLoss, Gone
<1>2. \A t \in Threads : call'[t].pc = "idle"
  BY <1>1, NoCallType
<1>3. /\ lines' \in Seq(Line) /\ Len(lines') =< Len(lines)
      /\ synced' \in Nat /\ synced =< synced' /\ synced' =< Len(lines')
  <2>1. CASE Crash
    BY <2>1, TypeFacts DEF Crash, BaseInv
  <2>2. CASE PowerLoss
    BY <2>2, LeftLines, TypeFacts DEF BaseInv
  <2> QED
    BY <2>1, <2>2
<1>4. frag' \in BOOLEAN
  BY DEF Crash, PowerLoss, BaseInv, TypeOK
<1>5. Len(lines') =< MaxLines
  BY <1>3, TypeFacts DEF BaseInv
<1>6. TypeOK'
  <2>1. synced' \in 0..Len(lines')
    BY <1>3
  <2>2. lines' \in Seq(Record \cup {Garbage})
    BY <1>3 DEF Line
  <2>3. call' \in [Threads -> [pc : Pcs, event : Events]]
    BY <1>1, NoCallType
  <2> QED
    BY <1>1, <1>4, <1>5, <2>1, <2>2, <2>3 DEF BaseInv, TypeOK
<1>7. Holder'
  BY <1>1, <1>2, ThreadAssumption DEF Holder
<1>8. Counted'
  BY <1>1, <1>2, <1>3, TypeFacts DEF BaseInv, Counted
<1> QED
  BY <1>6, <1>7, <1>8 DEF BaseInv

LEMMA BaseInit == Init => BaseInv
<1> SUFFICES ASSUME Init PROVE BaseInv
  OBVIOUS
<1>1. Len(lines) = 0 /\ \A t \in Threads : call[t].pc = "idle"
  BY NoCallType DEF Init
<1>2. TypeOK
  <2>1. lines \in Seq(Record \cup {Garbage})
    BY DEF Init
  <2>2. call \in [Threads -> [pc : Pcs, event : Events]]
    BY NoCallType DEF Init
  <2>3. /\ frag \in BOOLEAN /\ open \in BOOLEAN /\ trailing \in BOOLEAN
        /\ stale \in BOOLEAN
    BY DEF Init
  <2>4. /\ Len(lines) =< MaxLines /\ synced \in 0..Len(lines)
        /\ summary \in Nat /\ lastSeq \in Nat
    BY <1>1, BoundAssumption DEF Init
  <2>5. mu \in Threads \cup {NoThread} /\ acked \subseteq Record
    BY DEF Init
  <2> QED
    BY <2>1, <2>2, <2>3, <2>4, <2>5 DEF TypeOK
<1>3. Holder /\ Counted
  BY <1>1, ThreadAssumption DEF Init, Holder, Counted
<1> QED
  BY <1>2, <1>3 DEF BaseInv

LEMMA BaseStep == BaseInv /\ [Next]_vars => BaseInv'
<1> SUFFICES ASSUME BaseInv, [Next]_vars PROVE BaseInv'
  OBVIOUS
<1>1. CASE UNCHANGED vars
  BY <1>1 DEF vars, file, BaseInv, TypeOK, Holder, Counted
<1>2. ASSUME NEW t \in Threads,
             WriteFails(t) \/ SyncOrCloseFails(t) \/ SaveMetaFails(t)
      PROVE  BaseInv'
  <2>1. /\ call[t].pc # "idle" /\ Return(t) /\ frag' \in BOOLEAN
        /\ stale' \in BOOLEAN
        /\ UNCHANGED <<lines, synced, summary, open, lastSeq, trailing, acked>>
    BY <1>2 DEF WriteFails, SyncOrCloseFails, SaveMetaFails, file, BaseInv, TypeOK
  <2> QED
    BY <2>1, FailKeepsBase
<1> QED
  BY <1>1, <1>2, AppendBeginKeepsBase, WriteKeepsBase, SyncKeepsBase,
     SaveMetaKeepsBase, OtherCallsKeepBase, CrashKeepsBase DEF Next

LEMMA BaseHolds == Spec => []BaseInv
BY BaseInit, BaseStep, PTL DEF Spec

\* Every variable has its type.
THEOREM EventLogTypeOK == Spec => []TypeOK
<1>1. BaseInv => TypeOK
  BY DEF BaseInv
<1> QED
  BY <1>1, BaseHolds, PTL

\* A summary that is saved is not behind any event that was returned before,
\* whatever the caller said and whatever failed (store.go:300-302).
THEOREM SummaryIsCurrent == Spec => SummaryNotBehind
<1>1. ASSUME BaseInv, Next, summary' # summary
      PROVE  \A a \in acked : a.seq =< summary'
  <2>1. PICK n \in 0..MaxLines : SaveSummary(n)
    BY <1>1 DEF Next, AppendBegin, Write, WriteFails, Sync, CloseFile,
       SyncOrCloseFails, SaveMeta, SaveMetaFails, ReadEvents, Close, Open, Crash,
       PowerLoss, Gone
  <2>2. open /\ lastSeq =< summary' /\ summary' \in Nat
    BY <1>1, <2>1, TypeFacts DEF SaveSummary, BaseInv
  <2> QED
    BY <1>1, <2>2, TypeFacts DEF BaseInv, Counted
<1>2. BaseInv /\ [Next]_vars =>
        [summary' # summary => \A a \in acked : a.seq =< summary']_vars
  BY <1>1
<1> QED
  BY <1>2, BaseHolds, PTL DEF Spec, SummaryNotBehind

-----------------------------------------------------------------------------
(* The file and the counter agree, step by step.                            *)

\* A step that leaves the lines, and does not return an event.
LEMMA SameLinesReadable ==
  ASSUME AckedReadable, UNCHANGED <<lines, acked>>
  PROVE  AckedReadable'
BY DEF AckedReadable, Readable

LEMMA AppendBeginKeepsLog ==
  ASSUME LogInv, Rereads \/ ~IOErrors, NEW t \in Threads, NEW e \in Events,
         AppendBegin(t, e)
  PROVE  LogInv'
<1>1. BaseInv'
  BY AppendBeginKeepsBase DEF LogInv
<1>2. /\ \A u \in Threads :
           call'[u] = IF u = t THEN [pc |-> "write", event |-> e] ELSE call[u]
      /\ \A u \in Threads : call[u].pc = "idle"
      /\ mu = NoThread /\ open /\ ~trailing /\ (Rereads => ~stale)
      /\ UNCHANGED <<lines, frag, open, lastSeq, trailing, stale, acked>>
  BY Free DEF AppendBegin, LogInv, BaseInv, TypeOK, file
<1>3. ~stale /\ lastSeq = Len(lines) /\ ~frag
  BY <1>2 DEF LogInv, BaseInv, TypeOK, Agreed
<1>4. Agreed'
  BY <1>2, <1>3 DEF Agreed, LogInv
<1> QED
  BY <1>1, <1>2, <1>4, SameLinesReadable DEF LogInv

LEMMA WriteKeepsLog ==
  ASSUME LogInv, NEW t \in Threads, Write(t)
  PROVE  LogInv'
<1>1. BaseInv'
  BY WriteKeepsBase DEF LogInv
<1>2. /\ call[t].pc = "write" /\ mu = t /\ mu # NoThread /\ frag' = FALSE
      /\ \A u \in Threads \ {t} : call[u].pc = "idle"
      /\ UNCHANGED <<open, lastSeq, trailing, mu, stale, acked>>
  BY Serving DEF Write, LogInv
<1>3. /\ call'[t].pc = "sync" /\ call'[t].event = call[t].event
      /\ \A u \in Threads \ {t} : call'[u] = call[u]
  BY GotoCalls DEF Write, LogInv, BaseInv, Pcs
<1>4. ~stale /\ ~frag /\ lastSeq = Len(lines)
  BY <1>2 DEF LogInv, Agreed
<1> DEFINE r == [seq |-> lastSeq + 1, event |-> call[t].event]
<1>5. /\ lines \in Seq(Line) /\ lines' \in Seq(Line) /\ Len(lines') = Len(lines) + 1
      /\ \A n \in 1..Len(lines) : lines'[n] = lines[n]
      /\ lines'[Len(lines) + 1] = r
  BY <1>4, WrittenLines, TypeFacts DEF LogInv, BaseInv
<1>6. r \in Record /\ r.seq = Len(lines) + 1
  BY <1>4, TypeFacts DEF LogInv, BaseInv, Record
<1>7. r # Garbage
  BY <1>6, GarbageAssumption DEF Record
<1> HIDE DEF r
<1>8. AckedReadable'
  <2>1. \A n \in 1..Len(lines) + 1 : n \in 1..Len(lines) \/ n = Len(lines) + 1
    BY <1>5
  <2>2. Readable'
    BY <1>5, <1>6, <1>7, <2>1 DEF LogInv, AckedReadable, Readable
  <2>3. ASSUME NEW a \in acked PROVE a.seq =< Len(lines') /\ lines'[a.seq] = a
    <3>1. a.seq \in 1..Len(lines) /\ lines[a.seq] = a
      BY TypeFacts DEF LogInv, BaseInv, Counted, AckedReadable
    <3> QED
      BY <1>5, <3>1
  <2> QED
    BY <1>2, <2>2, <2>3 DEF AckedReadable
<1>9. Agreed'
  BY <1>2, <1>3, <1>4, <1>5 DEF LogInv, Agreed, LastIs, r
<1> QED
  BY <1>1, <1>8, <1>9 DEF LogInv

\* A call that returns early leaves the log stale, if what failed was the
\* write, the sync or the close; at the metadata the log is as it should be.
LEMMA FailKeepsLog ==
  ASSUME LogInv, NEW t \in Threads,
         WriteFails(t) \/ SyncOrCloseFails(t) \/ SaveMetaFails(t)
  PROVE  LogInv'
<1>1. /\ call[t].pc # "idle" /\ Return(t) /\ frag' \in BOOLEAN
      /\ stale' \in BOOLEAN /\ IOErrors
      /\ UNCHANGED <<lines, synced, summary, open, lastSeq, trailing, acked>>
      /\ stale' \/ (call[t].pc = "save" /\ stale' = stale /\ frag' = frag)
  BY DEF WriteFails, SyncOrCloseFails, SaveMetaFails, file, LogInv, BaseInv, TypeOK
<1>2. BaseInv'
  BY <1>1, FailKeepsBase DEF LogInv
<1>3. mu' = NoThread /\ \A u \in Threads : call'[u].pc = "idle"
  BY <1>1, ReturnCalls DEF LogInv
<1>4. mu # NoThread /\ trailing = FALSE /\ frag \in BOOLEAN
  BY <1>1, Serving DEF LogInv, BaseInv, TypeOK
<1>5. Agreed'
  BY <1>1, <1>3, <1>4 DEF LogInv, Agreed
<1> QED
  BY <1>1, <1>2, <1>5, SameLinesReadable DEF LogInv

LEMMA SyncKeepsLog ==
  ASSUME LogInv, NEW t \in Threads, Sync(t) \/ CloseFile(t)
  PROVE  LogInv'
<1>1. BaseInv'
  BY SyncKeepsBase DEF LogInv
<1>2. PICK step \in {"close", "save"} : Goto(t, step) /\ (step = "close" <=> Sync(t))
  BY DEF Sync, CloseFile
<1>3. /\ call[t].pc = IF step = "close" THEN "sync" ELSE "close"
      /\ lastSeq' = IF step = "close" THEN lastSeq ELSE lastSeq + 1
      /\ UNCHANGED <<lines, frag, summary, open, trailing, mu, stale, acked>>
  BY <1>2 DEF Sync, CloseFile, file
<1>4. /\ call'[t].pc = step /\ call'[t].event = call[t].event
      /\ \A u \in Threads \ {t} : call'[u] = call[u]
  BY <1>2, GotoCalls DEF LogInv, BaseInv, Pcs
<1>5. mu = t /\ mu # NoThread /\ \A u \in Threads \ {t} : call[u].pc = "idle"
  BY <1>3, Serving DEF LogInv
<1>6. Agreed'
  BY <1>3, <1>4, <1>5 DEF LogInv, Agreed, LastIs
<1> QED
  BY <1>1, <1>3, <1>6, SameLinesReadable DEF LogInv

LEMMA SaveMetaKeepsLog ==
  ASSUME LogInv, NEW t \in Threads, SaveMeta(t)
  PROVE  LogInv'
<1> DEFINE a == [seq |-> lastSeq, event |-> call[t].event]
<1>1. BaseInv'
  BY SaveMetaKeepsBase DEF LogInv
<1>2. /\ call[t].pc = "save" /\ acked' = acked \cup {a}
      /\ UNCHANGED <<lines, frag, open, lastSeq, trailing, stale>>
  BY DEF SaveMeta, file
<1>3. mu' = NoThread /\ \A u \in Threads : call'[u].pc = "idle"
  BY <1>2, ReturnCalls DEF SaveMeta, LogInv
<1>4. /\ mu # NoThread /\ trailing = FALSE /\ frag = FALSE /\ ~stale
      /\ lastSeq = Len(lines) /\ lines[Len(lines)] = a
  BY <1>2, Serving DEF LogInv, BaseInv, TypeOK, Agreed, LastIs
<1>5. a.seq = Len(lines)
  BY <1>4
<1> HIDE DEF a
<1>6. AckedReadable'
  BY <1>2, <1>4, <1>5, TypeFacts DEF LogInv, BaseInv, AckedReadable, Readable
<1>7. Agreed'
  BY <1>2, <1>3, <1>4 DEF LogInv, Agreed
<1> QED
  BY <1>1, <1>6, <1>7 DEF LogInv

LEMMA OtherCallsKeepLog ==
  ASSUME LogInv,
         ReadEvents \/ (\E n \in 0..MaxLines : SaveSummary(n)) \/ Close \/ Open
  PROVE  LogInv'
<1>1. BaseInv'
  BY OtherCallsKeepBase DEF LogInv
<1>2. mu = NoThread /\ \A u \in Threads : call[u].pc = "idle"
  <2>1. ~open => mu = NoThread
    BY DEF LogInv, BaseInv, Holder
  <2> QED
    BY <2>1, Free DEF ReadEvents, SaveSummary, Close, Open, LogInv
<1>3. UNCHANGED <<lines, frag, mu, call, acked>>
  BY DEF ReadEvents, SaveSummary, Close, Open, file
<1>4. \/ ~open' /\ stale' = stale
      \/ UNCHANGED <<open, lastSeq, trailing, stale>>
      \/ lastSeq' = Len(lines) /\ trailing' = frag /\ stale' = FALSE
  BY DEF ReadEvents, SaveSummary, Close, Open
<1>5. Agreed'
  BY <1>2, <1>3, <1>4 DEF LogInv, Agreed
<1> QED
  BY <1>1, <1>3, <1>5, SameLinesReadable DEF LogInv

\* What a crash or a loss of power leaves has every event that was returned.
LEMMA CrashKeepsLog ==
  ASSUME LogInv, Crash \/ PowerLoss
  PROVE  LogInv'
<1>1. BaseInv'
  BY CrashKeepsBase DEF LogInv
<1>2. /\ open' = FALSE /\ mu' = NoThread /\ stale' = FALSE /\ acked' = acked
      /\ call' = [t \in Threads |-> NoCall]
  BY DEF Crash, PowerLoss, Gone
<1>3. \A t \in Threads : call'[t].pc = "idle"
  BY <1>2, NoCallType
<1>4. Agreed'
  BY <1>2, <1>3 DEF Agreed
<1>5. AckedReadable'
  <2>1. CASE Crash
    BY <1>2, <2>1, SameLinesReadable DEF Crash, LogInv
  <2>2. CASE PowerLoss
    <3>1. PICK n \in 0..Len(lines) :
            /\ synced =< n /\ lines' \in Seq(Line) /\ Len(lines') = n
            /\ \A i \in 1..n : lines'[i] = lines[i]
      BY <2>2, LeftLines DEF LogInv
    <3>2. lines \in Seq(Line)
      BY TypeFacts DEF LogInv, BaseInv
    <3>3. Readable'
      BY <3>1, <3>2 DEF LogInv, AckedReadable, Readable
    <3>4. ASSUME NEW a \in acked PROVE a.seq =< n /\ lines'[a.seq] = a
      <4>1. a.seq \in 1..n
        BY <3>1, TypeFacts DEF LogInv, BaseInv, Counted
      <4> QED
        BY <3>1, <4>1 DEF LogInv, AckedReadable
    <3> QED
      BY <1>2, <3>1, <3>3, <3>4 DEF AckedReadable
  <2> QED
    BY <2>1, <2>2
<1> QED
  BY <1>1, <1>4, <1>5 DEF LogInv

LEMMA LogInit == Init => LogInv
<1> SUFFICES ASSUME Init PROVE LogInv
  OBVIOUS
<1>1. Len(lines) = 0 /\ \A t \in Threads : call[t].pc = "idle"
  BY NoCallType DEF Init
<1>2. AckedReadable
  <2>1. DOMAIN lines = {}
    BY DEF Init
  <2> QED
    BY <2>1 DEF Init, AckedReadable, Readable
<1>3. Agreed
  BY <1>1 DEF Init, Agreed
<1> QED
  BY <1>2, <1>3, BaseInit DEF LogInv

LEMMA LogStep ==
  ASSUME Rereads \/ ~IOErrors
  PROVE  LogInv /\ [Next]_vars => LogInv'
<1> SUFFICES ASSUME LogInv, [Next]_vars PROVE LogInv'
  OBVIOUS
<1>1. CASE UNCHANGED vars
  BY <1>1, SameLinesReadable, BaseStep DEF vars, file, LogInv, Agreed, LastIs
<1> QED
  BY <1>1, AppendBeginKeepsLog, WriteKeepsLog, FailKeepsLog, SyncKeepsLog,
     SaveMetaKeepsLog, OtherCallsKeepLog, CrashKeepsLog DEF Next

\* The file, the counter and the fragment flag agree, as long as nobody appends
\* after a failed append without having read the log, or nothing fails.
THEOREM LogInvariant ==
  ASSUME Rereads \/ ~IOErrors
  PROVE  Spec => []LogInv
BY LogInit, LogStep, PTL DEF Spec

\* Every event that AppendEvent has returned is found by whoever reads the log
\* later, whatever has crashed in between (docs/spec.md:48, 297).
THEOREM AckedStaysReadable ==
  ASSUME Rereads \/ ~IOErrors
  PROVE  Spec => []AckedReadable
<1>1. LogInv => AckedReadable
  BY DEF LogInv
<1> QED
  BY <1>1, LogInvariant, PTL

\* How a step changes the lines: it adds the record of the event at hand, or
\* power is lost.
LEMMA LinesChange ==
  ASSUME LogInv, [Next]_vars, lines' # lines
  PROVE  PowerLoss \/ \E t \in Threads : Write(t)
BY DEF Next, vars, file, AppendBegin, WriteFails, Sync, CloseFile, SyncOrCloseFails,
   SaveMeta, SaveMetaFails, ReadEvents, SaveSummary, Close, Open, Crash, Gone

\* No step changes a line that is still in the file after it; lines go only
\* when the session is also taken from whoever had it open, and none that was
\* synced; nothing follows a fragment (docs/spec.md:297, 388,
\* session_test.go:270).
THEOREM LogOnlyGrows ==
  ASSUME Rereads \/ ~IOErrors
  PROVE  Spec => OnlyAppends
<1> DEFINE Grows ==
      /\ \A n \in DOMAIN lines \cap DOMAIN lines' : lines'[n] = lines[n]
      /\ Len(lines') < Len(lines) => ~open' /\ synced =< Len(lines')
      /\ frag /\ lines' # lines => Len(lines') < Len(lines)
<1>1. ASSUME LogInv, [Next]_vars PROVE Grows
  <2>1. synced \in Nat /\ Len(lines) \in Nat /\ synced =< Len(lines)
    BY <1>1, TypeFacts DEF LogInv, BaseInv
  <2>2. CASE lines' = lines
    BY <2>1, <2>2
  <2>3. ASSUME NEW t \in Threads, Write(t) PROVE Grows
    <3>1. ~frag
      BY <1>1, <2>3, Serving DEF LogInv, Agreed, Write
    <3>2. /\ Len(lines') = Len(lines) + 1
          /\ \A n \in 1..Len(lines) : lines'[n] = lines[n]
      BY <1>1, <2>3, WrittenLines DEF LogInv
    <3>3. DOMAIN lines = 1..Len(lines)
      BY <1>1, TypeFacts DEF LogInv, BaseInv
    <3> QED
      BY <2>1, <3>1, <3>2, <3>3
  <2>4. CASE PowerLoss
    <3>1. PICK n \in 0..Len(lines) :
            /\ synced =< n /\ lines' = SubSeq(lines, 1, n)
            /\ Len(lines') = n /\ \A i \in 1..n : lines'[i] = lines[i]
      BY <1>1, <2>4, LeftLines DEF LogInv
    <3>2. frag /\ n = Len(lines) => lines' = lines
      <4>1. lines \in Seq(Line) /\ lines' \in Seq(Line)
        BY <1>1, <2>4, LeftLines, TypeFacts DEF LogInv, BaseInv
      <4>2. n = Len(lines) => lines' = lines
        BY <3>1, <4>1, SeqEqual
      <4> QED
        BY <4>2
    <3>3. ~open' /\ DOMAIN lines' = 1..n
      BY <1>1, <2>4, <3>1, LeftLines, TypeFacts
      DEF LogInv, BaseInv, PowerLoss, Gone
    <3> QED
      BY <2>1, <3>1, <3>2, <3>3
  <2> QED
    BY <1>1, <2>2, <2>3, <2>4, LinesChange
<1>2. LogInv /\ [Next]_vars =>
        [/\ \A n \in DOMAIN lines \cap DOMAIN lines' : lines'[n] = lines[n]
         /\ Len(lines') < Len(lines) => ~open' /\ synced =< Len(lines')
         /\ frag /\ lines' # lines => Len(lines') < Len(lines)]_vars
  BY <1>1
<1> QED
  BY <1>2, LogInvariant, PTL DEF Spec, OnlyAppends

-----------------------------------------------------------------------------
(* The log as readers see it: its lines' events.                            *)

EventsOf(s) == [n \in DOMAIN s |-> IF s[n] = Garbage THEN Garbage ELSE s[n].event]

LEMMA EventsOfSeq ==
  ASSUME NEW s \in Seq(Line)
  PROVE  /\ EventsOf(s) \in Seq(Events \cup {Garbage}) /\ Len(EventsOf(s)) = Len(s)
         /\ \A n \in 1..Len(s) :
              EventsOf(s)[n] = IF s[n] = Garbage THEN Garbage ELSE s[n].event
<1>1. DOMAIN s = 1..Len(s) /\ Len(s) \in Nat
  OBVIOUS
<1>2. \A n \in 1..Len(s) :
        (IF s[n] = Garbage THEN Garbage ELSE s[n].event) \in Events \cup {Garbage}
  BY DEF Line, Record
<1>3. EventsOf(s) = [n \in 1..Len(s) |->
                       IF s[n] = Garbage THEN Garbage ELSE s[n].event]
  BY <1>1 DEF EventsOf
<1> QED
  BY <1>1, <1>2, <1>3

\* The record that Write adds appends its event to what readers see.
LEMMA WriteAppends ==
  ASSUME LogInv, NEW t \in Threads, Write(t)
  PROVE  Abstract!AAppend
<1> DEFINE e == call[t].event
<1>1. call[t].pc = "write" /\ mu # NoThread /\ e \in Events
  BY Serving, TypeFacts DEF Write, LogInv, BaseInv
<1>2. ~frag
  BY <1>1 DEF LogInv, Agreed
<1>3. /\ lines \in Seq(Line) /\ lines' \in Seq(Line) /\ Len(lines') = Len(lines) + 1
      /\ \A n \in 1..Len(lines) : lines'[n] = lines[n]
      /\ lines'[Len(lines) + 1] = [seq |-> lastSeq + 1, event |-> e]
      /\ Len(lines) \in Nat
  BY <1>2, WrittenLines, TypeFacts DEF LogInv, BaseInv
<1>4. [seq |-> lastSeq + 1, event |-> e] # Garbage
  BY <1>1, TypeFacts, GarbageAssumption DEF LogInv, BaseInv
<1> HIDE DEF e
<1>5. /\ EventsOf(lines) \in Seq(Events \cup {Garbage})
      /\ EventsOf(lines') \in Seq(Events \cup {Garbage})
      /\ Len(EventsOf(lines)) = Len(lines) /\ Len(EventsOf(lines')) = Len(lines) + 1
      /\ \A n \in 1..Len(lines) : EventsOf(lines')[n] = EventsOf(lines)[n]
      /\ EventsOf(lines')[Len(lines) + 1] = e
  <2>1. \A n \in 1..Len(lines) : n \in 1..Len(lines) + 1
    BY <1>3
  <2>2. Len(lines) + 1 \in 1..Len(lines) + 1
    BY <1>3
  <2>3. /\ EventsOf(lines) \in Seq(Events \cup {Garbage})
        /\ Len(EventsOf(lines)) = Len(lines)
        /\ \A n \in 1..Len(lines) : EventsOf(lines)[n] =
             IF lines[n] = Garbage THEN Garbage ELSE lines[n].event
    BY <1>3, EventsOfSeq
  <2>4. /\ EventsOf(lines') \in Seq(Events \cup {Garbage})
        /\ Len(EventsOf(lines')) = Len(lines) + 1
        /\ \A n \in 1..Len(lines) + 1 : EventsOf(lines')[n] =
             IF lines'[n] = Garbage THEN Garbage ELSE lines'[n].event
    BY <1>3, EventsOfSeq
  <2>5. \A n \in 1..Len(lines) : EventsOf(lines')[n] = EventsOf(lines)[n]
    BY <1>3, <2>1, <2>3, <2>4
  <2>6. EventsOf(lines')[Len(lines) + 1] = e
    BY <1>3, <1>4, <2>2, <2>4
  <2> QED
    BY <2>3, <2>4, <2>5, <2>6
<1>6. EventsOf(lines') = Append(EventsOf(lines), e)
  <2>1. e \in Events \cup {Garbage}
    BY <1>1 DEF e
  <2> DEFINE s == EventsOf(lines)
             u == EventsOf(lines')
  <2> HIDE DEF s, u
  <2>2. /\ s \in Seq(Events \cup {Garbage}) /\ u \in Seq(Events \cup {Garbage})
        /\ Len(s) = Len(lines) /\ Len(u) = Len(lines) + 1
        /\ \A n \in 1..Len(lines) : u[n] = s[n]
        /\ u[Len(lines) + 1] = e
    BY <1>5 DEF s, u
  <2>3. /\ Append(s, e) \in Seq(Events \cup {Garbage})
        /\ Len(Append(s, e)) = Len(lines) + 1
        /\ \A n \in 1..Len(lines) : Append(s, e)[n] = s[n]
        /\ Append(s, e)[Len(lines) + 1] = e
    BY <2>1, <2>2, AppendProperties
  <2>4. \A n \in 1..Len(u) : n \in 1..Len(lines) \/ n = Len(lines) + 1
    BY <1>3, <2>2
  <2>5. \A n \in 1..Len(u) : u[n] = Append(s, e)[n]
    BY <2>2, <2>3, <2>4
  <2>6. u = Append(s, e)
    BY <2>2, <2>3, <2>5, SeqEqual
  <2> QED
    BY <2>6 DEF s, u
<1>7. acked' = acked
  BY DEF Write
<1> QED
  BY <1>1, <1>6, <1>7 DEF Abstract!AAppend, EventsOf, e

\* The event that is returned is the last of the log.
LEMMA SaveMetaAcks ==
  ASSUME LogInv, NEW t \in Threads, SaveMeta(t)
  PROVE  Abstract!AAck
<1> DEFINE a == [seq |-> lastSeq, event |-> call[t].event]
<1>1. /\ call[t].pc = "save" /\ acked' = acked \cup {a} /\ lines' = lines
  BY DEF SaveMeta, file
<1>2. /\ lastSeq = Len(lines) /\ lines[Len(lines)] = a /\ 0 < lastSeq
      /\ lines \in Seq(Line) /\ Len(lines) \in Nat
  BY <1>1, TypeFacts DEF LogInv, BaseInv, Counted, Agreed, LastIs
<1>3. Len(lines) \in 1..Len(lines) /\ lines[Len(lines)] # Garbage
  BY <1>2 DEF LogInv, AckedReadable, Readable
<1>4. Len(EventsOf(lines)) = Len(lines) /\ EventsOf(lines)[Len(lines)] = a.event
  BY <1>2, <1>3, EventsOfSeq
<1>5. a = [seq |-> Len(lines), event |-> EventsOf(lines)[Len(lines)]]
  BY <1>2, <1>4
<1>6. EventsOf(lines)' = EventsOf(lines)
  BY <1>1 DEF EventsOf
<1> HIDE DEF a
<1> QED
  BY <1>1, <1>3, <1>4, <1>5, <1>6 DEF Abstract!AAck, EventsOf

\* A loss of power takes back events that were not returned.
LEMMA PowerLossLoses ==
  ASSUME LogInv, PowerLoss
  PROVE  Abstract!ALose
<1>1. PICK n \in 0..Len(lines) :
        /\ synced =< n /\ lines' \in Seq(Line) /\ Len(lines') = n
        /\ \A i \in 1..n : lines'[i] = lines[i]
  BY LeftLines DEF LogInv
<1>2. lines \in Seq(Line) /\ acked' = acked
  BY TypeFacts DEF LogInv, BaseInv, PowerLoss, Gone
<1> DEFINE s == EventsOf(lines)
           u == EventsOf(lines')
<1>3. /\ s \in Seq(Events \cup {Garbage}) /\ Len(s) = Len(lines)
      /\ u \in Seq(Events \cup {Garbage}) /\ Len(u) = n
  BY <1>1, <1>2, EventsOfSeq
<1>4. \A i \in 1..n : u[i] = s[i]
  <2>1. \A i \in 1..n : i \in 1..Len(lines)
    BY <1>1, <1>2
  <2> QED
    BY <1>1, <1>2, <2>1, EventsOfSeq
<1> HIDE DEF s, u
<1>5. u = SubSeq(s, 1, n)
  <2>1. /\ SubSeq(s, 1, n) \in Seq(Events \cup {Garbage}) /\ Len(SubSeq(s, 1, n)) = n
        /\ \A i \in 1..n : SubSeq(s, 1, n)[i] = s[i]
    BY <1>3, Prefix
  <2> QED
    BY <1>3, <1>4, <2>1, SeqEqual
<1>6. \A a \in acked : a.seq =< n
  BY <1>1, TypeFacts DEF LogInv, BaseInv, Counted
<1>7. n \in 0..Len(s)
  BY <1>3
<1> QED
  BY <1>2, <1>5, <1>6, <1>7 DEF Abstract!ALose, s, u, EventsOf

\* The log as its readers see it is a sequence that grows by whole events, and
\* loses none that AppendEvent has returned (docs/spec.md:297).
THEOREM LogIsAppendOnly ==
  ASSUME Rereads \/ ~IOErrors
  PROVE  Spec => ImplementsAppendOnlyLog
<1>1. Init => Abstract!AInit
  <2> SUFFICES ASSUME Init PROVE Abstract!AInit
    OBVIOUS
  <2>1. DOMAIN lines = {}
    BY DEF Init
  <2>2. [n \in DOMAIN lines |-> IF lines[n] = Garbage THEN Garbage
                                                     ELSE lines[n].event] = <<>>
    BY <2>1
  <2> QED
    BY <2>2 DEF Init, Abstract!AInit
<1>2. LogInv /\ [Next]_vars => [Abstract!ANext]_(Abstract!avars)
  <2> SUFFICES ASSUME LogInv, [Next]_vars
               PROVE  Abstract!ANext \/ UNCHANGED Abstract!avars
    OBVIOUS
  <2>1. CASE \E t \in Threads : Write(t) \/ SaveMeta(t)
    BY <2>1, WriteAppends, SaveMetaAcks DEF Abstract!ANext
  <2>2. CASE PowerLoss
    BY <2>2, PowerLossLoses DEF Abstract!ANext
  <2>3. CASE ~PowerLoss /\ ~\E t \in Threads : Write(t) \/ SaveMeta(t)
    <3>1. lines' = lines
      BY <2>3, LinesChange
    <3>2. acked' = acked
      BY <2>3 DEF Next, vars, AppendBegin, WriteFails, Sync, CloseFile,
         SyncOrCloseFails, SaveMetaFails, ReadEvents, SaveSummary, Close, Open,
         Crash, Gone
    <3> QED
      BY <3>1, <3>2 DEF Abstract!avars
  <2> QED
    BY <2>1, <2>2, <2>3
<1> QED
  BY <1>1, <1>2, LogInvariant, PTL DEF Spec, ImplementsAppendOnlyLog, Abstract!ASpec
=============================================================================
