----------------------------- MODULE RunnerProofs -----------------------------
(* Proofs about Runner.Run, for any number of concurrent calls and of       *)
(* processes that their commands start.                                     *)
EXTENDS RunnerProperties, TLAPS

-----------------------------------------------------------------------------
(* The inductive invariant.  Each part is about one call: its goroutine, its *)
(* handles and its tree of processes.                                       *)

Members == {"main"} \cup Kids
Before == {"job", "limits", "lock", "stdin", "outpipe", "errpipe", "start"}
Creating == {"stdin", "outpipe", "errpipe", "start", "ends"}
Ending == {"exit", "stdout", "stderr"}
After == {"wait", "code", "kill"} \cup Ending
ReadEnds(ss) == {ReadEnd[s] : s \in ss}

\* The lock is held while there are inheritable handles.
MutexOf(c) == call[c].pc \in Creating <=> mutex = c

\* Which handles are open and which will be closed at the return.
HandlesOf(c) ==
  LET pc == call[c].pc  defers == call[c].defers IN
  /\ pc = "job" => open[c] = {} /\ defers = {}
  /\ pc \in {"limits", "lock", "stdin"} => open[c] = {"job"} /\ defers = {"job"}
  /\ pc = "outpipe" => open[c] = {"job", "stdin"} /\ defers = {"job"}
  /\ pc = "errpipe" => /\ open[c] = {"job", "stdin", "outR", "outW"}
                       /\ defers = {"job", "outR"}
  /\ pc = "start" \/ (pc = "ends" /\ state[Main(c)] = "none") =>
       /\ open[c] = {"job", "stdin", "outR", "outW", "errR", "errW"}
       /\ defers = {"job", "outR", "errR"}
  /\ pc = "ends" /\ state[Main(c)] # "none" =>
       /\ open[c] = {"job", "stdin", "outR", "outW", "errR", "errW", "proc",
                     "thread"}
       /\ defers = {"job", "outR", "errR", "proc"}
  /\ pc \in {"assign", "resume"} =>
       /\ open[c] = {"job", "outR", "errR", "proc", "thread"}
       /\ defers = {"job", "outR", "errR", "proc"}
  /\ pc \in After =>
       /\ open[c] = {"job", "proc"} \cup ReadEnds(Streams \ drained[c])
       /\ defers = {"job", "proc"}
  /\ pc = "done" =>
       open[c] = IF call[c].result = "unconfirmed"
                 THEN ReadEnds(Streams \ drained[c]) ELSE {}
  /\ pc \notin After \cup {"done"} => drained[c] = {}

\* What the processes of the tree may be doing.
TreeOf(c) ==
  LET pc == call[c].pc IN
  /\ pc \in Before => \A k \in Members : state[<<c, k>>] = "none"
  /\ pc \in {"ends", "assign", "resume"} =>
       \A k \in Kids : state[<<c, k>>] = "none"
  /\ pc = "ends" => state[Main(c)] \in {"none", "suspended"}
  /\ pc \in {"assign", "resume"} => state[Main(c)] = "suspended"
  /\ pc \in After \cup {"resume"} => call[c].bound
  /\ pc \in {"wait", "code", "kill"} => state[Main(c)] \in {"running", "exited"}
  /\ pc \in Ending /\ ~call[c].failed => \A k \in Members : ~Alive(<<c, k>>)
  /\ pc = "done" => \A k \in Members : state[<<c, k>>] # "running"
  /\ pc \notin After \cup {"done"} => c \notin gone
  /\ c \in gone => Ended(Main(c)) \/ "wait" \in missed[c]
  /\ pc \in {"code", "stdout", "stderr"} => c \in gone

\* Who has copies of the write ends of the pipes.
PipesOf(c) ==
  \A k \in Members :
    /\ \A h \in holds[<<c, k>>] : h[1] = c
    /\ \A s \in drained[c] \ missed[c] : <<c, s>> \notin holds[<<c, k>>]

\* The exit code has been asked for, of a process that had ended by itself.
Exited(c) ==
  /\ call[c].code # "unread"
  /\ "wait" \notin missed[c] =>
       state[Main(c)] = "exited" /\ call[c].code \in {"own", "zero"}

\* What the call has to report.
OutcomeOf(c) ==
  LET r == call[c] IN
  /\ r.pc # "done" => r.result = "none"
  /\ r.pc \notin {"kill", "done"} \cup Ending => r.err = "none" /\ r.code = "unread"
  /\ r.pc \in {"kill"} \cup Ending =>
       IF r.err = "none" THEN Exited(c) ELSE r.code = "unread"
  /\ r.pc = "stderr" => "stdout" \in drained[c]
  /\ r.result = "ok" => Exited(c)
  /\ r.result \in {"timeout", "cancelled"} => r.code = "unread"
  /\ r.result \in {"ok", "timeout", "cancelled"} =>
       c \in gone /\ drained[c] = Streams
  /\ Prompt /\ r.result = "unconfirmed" => r.failed

Good(c) == MutexOf(c) /\ HandlesOf(c) /\ TreeOf(c) /\ PipesOf(c) /\ OutcomeOf(c)

RunnerInv == TypeOK /\ ~misclosed /\ \A c \in Calls : Good(c)

-----------------------------------------------------------------------------
(* What a step does to the call it belongs to and to the others.            *)

LEMMA MemberOf ==
  ASSUME NEW c \in Calls
  PROVE  /\ Main(c) = <<c, "main">> /\ "main" \in Members
         /\ \A k \in Members : <<c, k>> \in Processes
BY DEF Main, Members, Processes

\* A process is a member of the tree of one call.
LEMMA ProcessOf ==
  ASSUME NEW p \in Processes
  PROVE  p[1] \in Calls /\ p[2] \in Members /\ p = <<p[1], p[2]>>
BY DEF Processes, Members

\* Nothing that call d has to do with has changed.
Same(d) ==
  /\ call'[d] = call[d] /\ open'[d] = open[d] /\ drained'[d] = drained[d]
  /\ missed'[d] = missed[d]
  /\ mutex' = d <=> mutex = d
  /\ d \in gone' <=> d \in gone
  /\ \A k \in Members : /\ state'[<<d, k>>] = state[<<d, k>>]
                        /\ holds'[<<d, k>>] = holds[<<d, k>>]

LEMMA SameIsGood ==
  ASSUME NEW d \in Calls, Good(d), Same(d)
  PROVE  Good(d)'
<1>1. /\ Main(d) = <<d, "main">>
      /\ \A k \in Members : state'[<<d, k>>] = state[<<d, k>>]
      /\ state'[Main(d)] = state[Main(d)]
  BY MemberOf DEF Same
<1>2. MutexOf(d)'
  BY DEF Good, Same, MutexOf
<1>3. HandlesOf(d)'
  <2>1. /\ call'[d] = call[d] /\ open'[d] = open[d] /\ drained'[d] = drained[d]
        /\ state'[Main(d)] = state[Main(d)]
    BY <1>1 DEF Same
  <2>2. HandlesOf(d)
    BY DEF Good
  <2> QED
    BY <2>1, <2>2, ZenonT(30) DEF HandlesOf
<1>4. TreeOf(d)'
  <2>1. Kids \subseteq Members
    BY DEF Members
  <2> QED
    BY <1>1, <2>1 DEF Good, Same, TreeOf, Alive, Ended
<1>5. PipesOf(d)'
  BY DEF Good, Same, PipesOf
<1>6. OutcomeOf(d)'
  BY <1>1 DEF Good, Same, OutcomeOf, Exited
<1> QED
  BY <1>2, <1>3, <1>4, <1>5, <1>6 DEF Good

LEMMA LocalStep ==
  ASSUME RunnerInv, NEW c \in Calls, TypeOK', misclosed' = FALSE, Good(c)',
         \A d \in Calls \ {c} : Same(d)
  PROVE  RunnerInv'
<1>1. ASSUME NEW d \in Calls PROVE Good(d)'
  BY SameIsGood DEF RunnerInv
<1> QED
  BY <1>1 DEF RunnerInv

LEMMA CallStep ==
  ASSUME TypeOK, NEW c \in Calls, NEW r \in Call, To(c, r)
  PROVE  /\ call' \in [Calls -> Call] /\ call'[c] = r
         /\ \A d \in Calls \ {c} : call'[d] = call[d]
BY DEF TypeOK, To

LEMMA CloseStep ==
  ASSUME RunnerInv, NEW c \in Calls, NEW hs, hs \subseteq open[c],
         CloseHandles(c, hs)
  PROVE  /\ open' \in [Calls -> SUBSET Handles] /\ misclosed' = FALSE
         /\ open'[c] = open[c] \ hs
         /\ \A d \in Calls \ {c} : open'[d] = open[d]
<1>1. misclosed = FALSE
  BY DEF RunnerInv, TypeOK
<1>2. misclosed' = FALSE
  BY <1>1 DEF CloseHandles
<1>3. open \in [Calls -> SUBSET Handles]
  BY DEF RunnerInv, TypeOK
<1> QED
  BY <1>2, <1>3 DEF CloseHandles

LEMMA OpenStep ==
  ASSUME TypeOK, NEW c \in Calls, NEW hs \in SUBSET Handles,
         open' = [open EXCEPT ![c] = @ \cup hs]
  PROVE  /\ open' \in [Calls -> SUBSET Handles]
         /\ open'[c] = open[c] \cup hs
         /\ \A d \in Calls \ {c} : open'[d] = open[d]
BY DEF TypeOK

\* One process changes: what it is after the step, and what it holds.
TypeOfState == [Processes -> {"none", "suspended", "running", "dying", "exited",
                              "dead"}]
NewState(c, m, x) ==
  /\ state' \in TypeOfState
  /\ \A d \in Calls, k \in Members :
       state'[<<d, k>>] = IF d = c /\ k = m THEN x ELSE state[<<d, k>>]
NewHolds(c, m, hs) ==
  /\ holds' \in [Processes -> SUBSET (Calls \X Streams)]
  /\ \A d \in Calls, k \in Members :
       holds'[<<d, k>>] = IF d = c /\ k = m THEN hs ELSE holds[<<d, k>>]

LEMMA StateStep ==
  ASSUME TypeOK, NEW c \in Calls, NEW m \in Members,
         NEW x \in {"none", "suspended", "running", "dying", "exited", "dead"},
         state' = [state EXCEPT ![<<c, m>>] = x]
  PROVE  NewState(c, m, x)
BY DEF TypeOK, Processes, Members, NewState, TypeOfState

LEMMA HoldsStep ==
  ASSUME TypeOK, NEW c \in Calls, NEW m \in Members,
         NEW x \in SUBSET (Calls \X Streams),
         holds' = [holds EXCEPT ![<<c, m>>] = x]
  PROVE  NewHolds(c, m, x)
BY DEF TypeOK, Processes, Members, NewHolds

\* The tree of a call in its job is terminated: nobody in it is alive, and
\* who has ended has ended.
LEMMA KilledStep ==
  ASSUME TypeOK, NEW c \in Calls, state' = Killed(c)
  PROVE  /\ state' \in [Processes -> {"none", "suspended", "running", "dying",
                                     "exited", "dead"}]
         /\ \A d \in Calls, k \in Members :
              state'[<<d, k>>] = IF d = c /\ Alive(<<d, k>>) /\ call[c].bound
                                 THEN "dying" ELSE state[<<d, k>>]
<1>1. \A p \in Processes :
        state'[p] = IF p[1] = c /\ Alive(p) /\ call[c].bound THEN "dying"
                    ELSE state[p]
  BY DEF Killed
<1>2. \A d \in Calls, k \in Members : <<d, k>> \in Processes /\ <<d, k>>[1] = d
  BY MemberOf
<1>3. state' \in [Processes -> {"none", "suspended", "running", "dying",
                               "exited", "dead"}]
  BY DEF Killed, TypeOK
<1> QED
  BY <1>1, <1>2, <1>3

\* A call goes to its next step and changes nothing else.
LEMMA GotoStep ==
  ASSUME TypeOK, NEW c \in Calls, NEW step \in Steps, Goto(c, step)
  PROVE  /\ call' \in [Calls -> Call] /\ call'[c] = [call[c] EXCEPT !.pc = step]
         /\ call'[c].pc = step /\ call'[c].bound = call[c].bound
         /\ call'[c].defers = call[c].defers /\ call'[c].err = call[c].err
         /\ call'[c].code = call[c].code /\ call'[c].failed = call[c].failed
         /\ call'[c].result = call[c].result
         /\ \A d \in Calls \ {c} : call'[d] = call[d]
<1>1. call[c] \in Call
  BY DEF TypeOK
<1>2. [call[c] EXCEPT !.pc = step] \in Call
  BY <1>1 DEF Call
<1>3. call' \in [Calls -> Call] /\ call'[c] = [call[c] EXCEPT !.pc = step]
      /\ \A d \in Calls \ {c} : call'[d] = call[d]
  BY <1>2, CallStep DEF Goto
<1> QED
  BY <1>1, <1>3 DEF Call

\* A call returns.
Returned(c, result, hs) ==
  /\ call' \in [Calls -> Call] /\ call'[c].pc = "done"
  /\ call'[c].result = result /\ call'[c].bound = call[c].bound
  /\ call'[c].err = call[c].err /\ call'[c].code = call[c].code
  /\ call'[c].failed = call[c].failed
  /\ \A d \in Calls \ {c} : call'[d] = call[d]
  /\ open' \in [Calls -> SUBSET Handles] /\ misclosed' = FALSE
  /\ open'[c] = open[c] \ (hs \cup call[c].defers)
  /\ \A d \in Calls \ {c} : open'[d] = open[d]

LEMMA ReturnStep ==
  ASSUME RunnerInv, NEW c \in Calls,
         NEW result \in {"ok", "timeout", "cancelled", "internal", "unconfirmed"},
         NEW hs \in SUBSET Handles, hs \cup call[c].defers \subseteq open[c],
         Return(c, result, hs)
  PROVE  Returned(c, result, hs)
<1> DEFINE r == [call[c] EXCEPT !.pc = "done", !.result = result, !.defers = {}]
<1>1. call[c] \in Call
  BY DEF RunnerInv, TypeOK
<1>2. /\ r \in Call /\ r.pc = "done" /\ r.result = result
      /\ r.bound = call[c].bound /\ r.err = call[c].err /\ r.code = call[c].code
      /\ r.failed = call[c].failed
  BY <1>1 DEF Call, Steps
<1>3. To(c, r) /\ CloseHandles(c, hs \cup call[c].defers)
  BY DEF Return
<1> HIDE DEF r
<1>4. call' \in [Calls -> Call] /\ call'[c] = r
      /\ \A d \in Calls \ {c} : call'[d] = call[d]
  BY <1>2, <1>3, CallStep DEF RunnerInv
<1> QED
  BY <1>2, <1>3, <1>4, CloseStep DEF Returned

-----------------------------------------------------------------------------
(* Before there is a process.                                               *)

\* The steps that open handles, or nothing.
SetupStep(c, step, new, deferred, next) ==
  \/ step = "job" /\ new = {"job"} /\ deferred = {"job"} /\ next = "limits"
  \/ step = "limits" /\ new = {} /\ deferred = {} /\ next = "lock"
  \/ step = "stdin" /\ new = {"stdin"} /\ deferred = {} /\ next = "outpipe"
  \/ step = "outpipe" /\ new = {"outR", "outW"} /\ deferred = {"outR"} /\ next = "errpipe"
  \/ step = "errpipe" /\ new = {"errR", "errW"} /\ deferred = {"errR"} /\ next = "start"

LEMMA SetupKeepsInv ==
  ASSUME RunnerInv, NEW c \in Calls, NEW step, NEW new, NEW deferred, NEW next,
         SetupStep(c, step, new, deferred, next),
         Setup(c, step, new, deferred, next)
  PROVE  RunnerInv'
<1> DEFINE r == [call[c] EXCEPT !.pc = next, !.defers = @ \cup deferred]
<1>1. /\ new \in SUBSET Handles /\ deferred \in SUBSET Handles
      /\ step \in Before /\ next \in Before /\ next # "job"
      /\ step \in Creating <=> next \in Creating
  BY DEF SetupStep, Handles, Before, Creating
<1>2. call[c] \in Call /\ call[c].pc = step /\ TypeOK /\ Good(c)
  BY DEF RunnerInv, TypeOK, Setup
<1>3. /\ r \in Call /\ r.pc = next /\ r.defers = call[c].defers \cup deferred
      /\ r.bound = call[c].bound /\ r.err = call[c].err /\ r.code = call[c].code
      /\ r.result = call[c].result
  BY <1>1, <1>2 DEF Call, Steps, Before
<1>4. /\ To(c, r) /\ open' = [open EXCEPT ![c] = @ \cup new]
      /\ UNCHANGED <<mutex, misclosed, state, holds, gone, drained, missed>>
  BY DEF Setup, os, seen
<1> HIDE DEF r
<1>5. /\ call' \in [Calls -> Call] /\ call'[c] = r
      /\ \A d \in Calls \ {c} : call'[d] = call[d]
      /\ open' \in [Calls -> SUBSET Handles] /\ open'[c] = open[c] \cup new
      /\ \A d \in Calls \ {c} : open'[d] = open[d]
  BY <1>1, <1>2, <1>3, <1>4, CallStep, OpenStep
<1>6. TypeOK' /\ misclosed' = FALSE
  BY <1>2, <1>4, <1>5 DEF TypeOK, RunnerInv
<1>7. \A d \in Calls \ {c} : Same(d)
  BY <1>4, <1>5 DEF Same
<1>8. MutexOf(c)'
  BY <1>1, <1>2, <1>3, <1>4, <1>5 DEF Good, MutexOf
<1>9. HandlesOf(c)'
  <2>1. drained'[c] = {}
    BY <1>1, <1>2, <1>4 DEF Good, HandlesOf, Before, After, Ending
  <2>2. CASE step = "job"
    BY <1>2, <1>3, <1>5, <2>1, <2>2 DEF SetupStep, Good, HandlesOf, After, Ending
  <2>3. CASE step = "limits"
    BY <1>2, <1>3, <1>5, <2>1, <2>3 DEF SetupStep, Good, HandlesOf, After, Ending
  <2>4. CASE step = "stdin"
    BY <1>2, <1>3, <1>5, <2>1, <2>4 DEF SetupStep, Good, HandlesOf, After, Ending
  <2>5. CASE step = "outpipe"
    BY <1>2, <1>3, <1>5, <2>1, <2>5 DEF SetupStep, Good, HandlesOf, After, Ending
  <2>6. CASE step = "errpipe"
    BY <1>2, <1>3, <1>5, <2>1, <2>6 DEF SetupStep, Good, HandlesOf, After, Ending
  <2> QED
    BY <2>2, <2>3, <2>4, <2>5, <2>6 DEF SetupStep
<1>10. TreeOf(c)'
  BY <1>1, <1>2, <1>3, <1>4, <1>5 DEF Good, TreeOf, Before, After, Ending, Ended
<1>11. PipesOf(c)'
  BY <1>2, <1>4 DEF Good, PipesOf
<1>12. OutcomeOf(c)'
  BY <1>1, <1>2, <1>3, <1>4, <1>5 DEF Good, OutcomeOf, Before, Ending
<1> QED
  BY <1>6, <1>7, <1>8, <1>9, <1>10, <1>11, <1>12, LocalStep DEF Good

\* A call that returns without a process that it could have started.
LEMMA FailedKeepsInv ==
  ASSUME RunnerInv, NEW c \in Calls, NEW hs \in SUBSET Handles,
         call[c].pc \in Before \/ (call[c].pc = "ends" /\ state[Main(c)] = "none"),
         hs \cup call[c].defers = open[c],
         Return(c, "internal", hs),
         mutex' = IF mutex = c THEN NoCall ELSE mutex,
         UNCHANGED <<os, seen>>
  PROVE  RunnerInv'
<1>1. TypeOK /\ Good(c) /\ c # NoCall /\ \A d \in Calls : d # NoCall
  BY CallAssumption DEF RunnerInv
<1>2. /\ call' \in [Calls -> Call] /\ call'[c].pc = "done"
      /\ call'[c].result = "internal"
      /\ \A d \in Calls \ {c} : call'[d] = call[d]
      /\ open' \in [Calls -> SUBSET Handles] /\ misclosed' = FALSE
      /\ open'[c] = {} /\ \A d \in Calls \ {c} : open'[d] = open[d]
  <2>1. hs \cup call[c].defers \subseteq open[c]
    OBVIOUS
  <2>2. open[c] \ (hs \cup call[c].defers) = {}
    OBVIOUS
  <2>3. Returned(c, "internal", hs)
    BY <2>1, ReturnStep
  <2> QED
    BY <2>2, <2>3 DEF Returned
<1>3. UNCHANGED <<state, holds, gone, drained, missed>>
  BY DEF os, seen
<1>4. TypeOK'
  BY <1>1, <1>2, <1>3 DEF TypeOK
<1>5. \A d \in Calls \ {c} : Same(d)
  BY <1>1, <1>2, <1>3 DEF Same
<1>6. MutexOf(c)'
  BY <1>1, <1>2 DEF MutexOf, Creating
<1>7. HandlesOf(c)'
  BY <1>2 DEF HandlesOf, After, Ending
<1>8. TreeOf(c)'
  <2>1. \A k \in Members : state[<<c, k>>] = "none"
    BY <1>1, MemberOf DEF Good, TreeOf, Members
  <2>2. c \notin gone
    BY <1>1 DEF Good, TreeOf, Before, After, Ending
  <2> QED
    BY <1>2, <1>3, <2>1, <2>2 DEF TreeOf, Before, After, Ending
<1>9. PipesOf(c)'
  BY <1>1, <1>3 DEF Good, PipesOf
<1>10. OutcomeOf(c)'
  BY <1>2 DEF OutcomeOf, Ending
<1> QED
  BY <1>2, <1>4, <1>5, <1>6, <1>7, <1>8, <1>9, <1>10, LocalStep DEF Good

\* What Run closes itself when it gives up, and what its deferred calls close,
\* is all there is.
LEMMA GiveUpKeepsInv ==
  ASSUME RunnerInv, NEW c \in Calls,
         \/ SetupFails(c, "job", {}) \/ SetupFails(c, "limits", {})
         \/ SetupFails(c, "stdin", {}) \/ SetupFails(c, "outpipe", {"stdin"})
         \/ SetupFails(c, "errpipe", {"stdin", "outW"})
  PROVE  RunnerInv'
<1>1. Good(c)
  BY DEF RunnerInv
<1>2. CASE SetupFails(c, "job", {})
  <2>1. {} \cup call[c].defers = open[c] /\ call[c].pc \in Before
    BY <1>1, <1>2 DEF SetupFails, Good, HandlesOf, Before
  <2> QED
    BY <1>2, <2>1, FailedKeepsInv DEF SetupFails, Handles
<1>3. CASE SetupFails(c, "limits", {}) \/ SetupFails(c, "stdin", {})
  <2>1. {} \cup call[c].defers = open[c] /\ call[c].pc \in Before
    BY <1>1, <1>3 DEF SetupFails, Good, HandlesOf, Before
  <2> QED
    BY <1>3, <2>1, FailedKeepsInv DEF SetupFails, Handles
<1>4. CASE SetupFails(c, "outpipe", {"stdin"})
  <2>1. {"stdin"} \cup call[c].defers = open[c] /\ call[c].pc \in Before
    BY <1>1, <1>4 DEF SetupFails, Good, HandlesOf, Before
  <2> QED
    BY <1>4, <2>1, FailedKeepsInv DEF SetupFails, Handles
<1>5. CASE SetupFails(c, "errpipe", {"stdin", "outW"})
  <2>1. {"stdin", "outW"} \cup call[c].defers = open[c] /\ call[c].pc \in Before
    BY <1>1, <1>5 DEF SetupFails, Good, HandlesOf, Before
  <2> QED
    BY <1>5, <2>1, FailedKeepsInv DEF SetupFails, Handles
<1> QED
  BY <1>2, <1>3, <1>4, <1>5

LEMMA PrepareKeepsInv ==
  ASSUME RunnerInv, NEW c \in Calls,
         CreateJob(c) \/ SetLimits(c) \/ OpenNul(c) \/ OutputPipe(c) \/ ErrorPipe(c)
  PROVE  RunnerInv'
BY SetupKeepsInv, GiveUpKeepsInv
DEF CreateJob, SetLimits, OpenNul, OutputPipe, ErrorPipe, SetupStep

LEMMA LockKeepsInv ==
  ASSUME RunnerInv, NEW c \in Calls, Lock(c)
  PROVE  RunnerInv'
<1>1. /\ TypeOK /\ Good(c) /\ c # NoCall /\ call[c].pc = "lock"
      /\ mutex = NoCall /\ mutex' = c
      /\ UNCHANGED <<open, misclosed, state, holds, gone, drained, missed>>
  BY CallAssumption DEF RunnerInv, Lock, os, seen
<1>2. /\ call' \in [Calls -> Call]
      /\ call'[c].pc = "stdin" /\ call'[c].bound = call[c].bound
      /\ call'[c].defers = call[c].defers /\ call'[c].err = call[c].err
      /\ call'[c].code = call[c].code /\ call'[c].result = call[c].result
      /\ \A d \in Calls \ {c} : call'[d] = call[d]
  BY <1>1, GotoStep DEF Lock, Steps
<1>3. TypeOK' /\ misclosed' = FALSE
  BY <1>1, <1>2 DEF TypeOK, RunnerInv
<1>4. \A d \in Calls \ {c} : Same(d)
  BY <1>1, <1>2, CallAssumption DEF Same
<1>5. MutexOf(c)'
  BY <1>1, <1>2 DEF MutexOf, Creating
<1>6. HandlesOf(c)'
  BY <1>1, <1>2 DEF Good, HandlesOf, After, Ending
<1>7. TreeOf(c)'
  BY <1>1, <1>2 DEF Good, TreeOf, Before, After, Ending, Ended
<1>8. PipesOf(c)'
  BY <1>1 DEF Good, PipesOf
<1>9. OutcomeOf(c)'
  BY <1>1, <1>2 DEF Good, OutcomeOf, Ending
<1> QED
  BY <1>3, <1>4, <1>5, <1>6, <1>7, <1>8, <1>9, LocalStep DEF Good

-----------------------------------------------------------------------------
(* The process is created, suspended.  Whoever else has pipes open that a   *)
(* new process would inherit would have the lock.                           *)

LEMMA ReadEndsAre ==
  ASSUME NEW ss \in SUBSET Streams
  PROVE  ReadEnds(ss) \subseteq {"outR", "errR"}
BY DEF ReadEnds, ReadEnd, Streams

LEMMA OwnWriteEnds ==
  ASSUME RunnerInv, NEW d \in Calls, "outW" \in open[d] \/ "errW" \in open[d]
  PROVE  mutex = d
<1>1. Good(d) /\ call[d].pc \in Steps /\ drained[d] \subseteq Streams
  BY DEF RunnerInv, TypeOK, Call
<1>2. ReadEnds(Streams \ drained[d]) \subseteq {"outR", "errR"}
  BY ReadEndsAre
<1>3. call[d].pc \notin After \cup {"done"}
  BY <1>1, <1>2 DEF Good, HandlesOf
<1>4. call[d].pc \in Creating
  BY <1>1, <1>3 DEF Good, HandlesOf, Creating, Steps, After, Ending
<1> QED
  BY <1>1, <1>4 DEF Good, MutexOf

LEMMA OwnInheritable ==
  ASSUME RunnerInv, NEW c \in Calls, call[c].pc = "start"
  PROVE  Inheritable \subseteq {c} \X Streams
<1> SUFFICES ASSUME NEW h \in Calls \X Streams, WriteEnd[h[2]] \in open[h[1]]
             PROVE  h[1] = c
  BY DEF Inheritable
<1>1. h[1] \in Calls /\ h[2] \in {"stdout", "stderr"} /\ Good(c)
  BY DEF Streams, RunnerInv
<1>2. WriteEnd[h[2]] \in {"outW", "errW"}
  BY <1>1 DEF WriteEnd
<1>3. "outW" \in open[h[1]] \/ "errW" \in open[h[1]]
  BY <1>2
<1> QED
  BY <1>1, <1>3, OwnWriteEnds DEF Good, MutexOf, Creating

LEMMA StartSuspendedKeepsInv ==
  ASSUME RunnerInv, NEW c \in Calls, StartSuspended(c)
  PROVE  RunnerInv'
<1> DEFINE r == [call[c] EXCEPT !.pc = "ends", !.defers = @ \cup {"proc"}]
<1>1. TypeOK /\ Good(c) /\ call[c] \in Call /\ call[c].pc = "start"
  BY DEF RunnerInv, TypeOK, StartSuspended
<1>2. /\ r \in Call /\ r.pc = "ends" /\ r.defers = call[c].defers \cup {"proc"}
      /\ r.bound = call[c].bound /\ r.err = call[c].err /\ r.code = call[c].code
      /\ r.result = call[c].result
  BY <1>1 DEF Call, Steps, Handles
<1>3. /\ To(c, r) /\ open' = [open EXCEPT ![c] = @ \cup {"proc", "thread"}]
      /\ state' = [state EXCEPT ![<<c, "main">>] = "suspended"]
      /\ holds' = [holds EXCEPT ![<<c, "main">>] = Inheritable]
      /\ UNCHANGED <<mutex, misclosed, gone, drained, missed>>
  BY MemberOf DEF StartSuspended, seen
<1>4. Inheritable \in SUBSET (Calls \X Streams) /\ \A h \in Inheritable : h[1] = c
  BY <1>1, OwnInheritable DEF Inheritable
<1>5. {"proc", "thread"} \in SUBSET Handles
  BY DEF Handles
<1> HIDE DEF r
<1>6. /\ call' \in [Calls -> Call] /\ call'[c] = r
      /\ \A d \in Calls \ {c} : call'[d] = call[d]
  BY <1>1, <1>2, <1>3, CallStep
<1>7. /\ open' \in [Calls -> SUBSET Handles]
      /\ open'[c] = open[c] \cup {"proc", "thread"}
      /\ \A d \in Calls \ {c} : open'[d] = open[d]
  BY <1>1, <1>3, <1>5, OpenStep
<1>8. NewState(c, "main", "suspended")
  BY <1>1, <1>3, MemberOf, StateStep
<1>9. NewHolds(c, "main", Inheritable)
  BY <1>1, <1>3, <1>4, MemberOf, HoldsStep
<1>10. TypeOK' /\ misclosed' = FALSE
  BY <1>1, <1>3, <1>6, <1>7, <1>8, <1>9
  DEF TypeOK, RunnerInv, NewState, NewHolds, TypeOfState
<1>11. \A d \in Calls \ {c} : Same(d)
  BY <1>3, <1>6, <1>7, <1>8, <1>9 DEF Same, NewState, NewHolds
<1>12. state[Main(c)] = "none" /\ state'[Main(c)] = "suspended" /\ drained[c] = {}
       /\ drained'[c] = {} /\ c \notin gone /\ \A k \in Kids : state[<<c, k>>] = "none"
  <2>1. \A k \in Members : state[<<c, k>>] = "none"
    BY <1>1 DEF Good, TreeOf, Before
  <2>2. state[Main(c)] = "none" /\ \A k \in Kids : state[<<c, k>>] = "none"
    BY <2>1, MemberOf DEF Members
  <2>3. drained[c] = {}
    BY <1>1 DEF Good, HandlesOf, After, Ending
  <2>4. c \notin gone
    BY <1>1 DEF Good, TreeOf, After, Ending
  <2> QED
    BY <1>3, <1>8, <2>2, <2>3, <2>4, MemberOf DEF NewState
<1>13. MutexOf(c)'
  BY <1>1, <1>2, <1>3, <1>6 DEF Good, MutexOf, Creating
<1>14. HandlesOf(c)'
  <2>1. /\ open[c] = {"job", "stdin", "outR", "outW", "errR", "errW"}
        /\ call[c].defers = {"job", "outR", "errR"}
    BY <1>1 DEF Good, HandlesOf
  <2>2. /\ open'[c] = {"job", "stdin", "outR", "outW", "errR", "errW", "proc",
                       "thread"}
        /\ call'[c].defers = {"job", "outR", "errR", "proc"}
    BY <1>2, <1>6, <1>7, <2>1
  <2> QED
    BY <1>2, <1>6, <1>12, <2>2 DEF HandlesOf, After, Ending
<1>15. TreeOf(c)'
  <2>1. \A k \in Kids : state'[<<c, k>>] = "none"
    BY <1>8, <1>12, KidAssumption DEF Members, NewState
  <2> QED
    BY <1>2, <1>3, <1>6, <1>12, <2>1 DEF TreeOf, Before, After, Ending
<1>16. PipesOf(c)'
  BY <1>1, <1>4, <1>9, <1>12 DEF Good, PipesOf, NewHolds
<1>17. OutcomeOf(c)'
  BY <1>1, <1>2, <1>6 DEF Good, OutcomeOf, Ending
<1> QED
  BY <1>10, <1>11, <1>13, <1>14, <1>15, <1>16, <1>17, LocalStep DEF Good

-----------------------------------------------------------------------------
(* The steps that change the call and nothing else.                         *)

LEMMA OnlyCallKeepsInv ==
  ASSUME RunnerInv, NEW c \in Calls, NEW r \in Call, To(c, r),
         UNCHANGED <<mutex, open, misclosed, os, seen>>,
         (MutexOf(c) /\ HandlesOf(c) /\ TreeOf(c) /\ OutcomeOf(c))'
  PROVE  RunnerInv'
<1>1. /\ TypeOK /\ Good(c) /\ misclosed = FALSE
      /\ UNCHANGED <<mutex, open, misclosed, state, holds, gone, drained, missed>>
  BY DEF RunnerInv, TypeOK, os, seen
<1>2. /\ call' \in [Calls -> Call] /\ call'[c] = r
      /\ \A d \in Calls \ {c} : call'[d] = call[d]
  BY <1>1, CallStep
<1>3. TypeOK'
  BY <1>1, <1>2 DEF TypeOK
<1>4. \A d \in Calls \ {c} : Same(d)
  BY <1>1, <1>2 DEF Same
<1>5. PipesOf(c)'
  BY <1>1 DEF Good, PipesOf
<1> QED
  BY <1>1, <1>3, <1>4, <1>5, LocalStep DEF Good

\* A call goes to its next step.
LEMMA OnlyGotoKeepsInv ==
  ASSUME RunnerInv, NEW c \in Calls,
         \/ StartFails(c) \/ WaitExit(c) \/ ExitSeen(c) \/ OutputSeen(c)
  PROVE  RunnerInv'
<1>1. PICK step \in {"ends", "code", "stdout", "stderr"} :
        /\ Goto(c, step)
        /\ step = "ends" => call[c].pc = "start"
        /\ step = "code" => call[c].pc = "wait" /\ c \in gone
        /\ step = "stdout" => call[c].pc = "exit" /\ c \in gone
        /\ step = "stderr" => call[c].pc = "stdout" /\ "stdout" \in drained[c]
        /\ UNCHANGED <<mutex, open, misclosed, os, seen>>
  BY DEF StartFails, WaitExit, ExitSeen, OutputSeen
<1>2. /\ TypeOK /\ Good(c) /\ call[c] \in Call
      /\ UNCHANGED <<mutex, open, misclosed, state, holds, gone, drained, missed>>
  BY <1>1 DEF RunnerInv, TypeOK, os, seen
<1> DEFINE r == [call[c] EXCEPT !.pc = step]
<1>3. r \in Call /\ To(c, r)
  BY <1>1, <1>2 DEF Call, Steps, Goto
<1>4. /\ call'[c].pc = step /\ call'[c].bound = call[c].bound
      /\ call'[c].defers = call[c].defers /\ call'[c].err = call[c].err
      /\ call'[c].code = call[c].code /\ call'[c].failed = call[c].failed
      /\ call'[c].result = call[c].result
  BY <1>1, <1>2, GotoStep DEF Steps
<1> HIDE DEF r
<1>5. MutexOf(c)'
  BY <1>1, <1>2, <1>4 DEF Good, MutexOf, Creating
<1>6. HandlesOf(c)'
  <2>1. CASE step = "ends"
    <3>1. state[Main(c)] = "none" /\ drained[c] = {}
      BY <1>1, <1>2, <2>1, MemberOf DEF Good, TreeOf, HandlesOf, Before, After, Ending
    <3> QED
      BY <1>1, <1>2, <1>4, <2>1, <3>1 DEF Good, HandlesOf, After, Ending
  <2>2. CASE step # "ends"
    BY <1>1, <1>2, <1>4, <2>2 DEF Good, HandlesOf, After, Ending
  <2> QED
    BY <2>1, <2>2
<1>7. TreeOf(c)'
  <2>1. CASE step = "ends"
    <3>1. \A k \in Members : state[<<c, k>>] = "none"
      BY <1>1, <1>2, <2>1 DEF Good, TreeOf, Before
    <3>2. state[Main(c)] = "none" /\ \A k \in Kids : state[<<c, k>>] = "none"
      BY <3>1, MemberOf DEF Members
    <3>3. c \notin gone
      BY <1>1, <1>2, <2>1 DEF Good, TreeOf, After, Ending
    <3> QED
      BY <1>2, <1>4, <2>1, <3>2, <3>3 DEF TreeOf, Before, After, Ending
  <2>2. CASE step # "ends"
    BY <1>1, <1>2, <1>4, <2>2 DEF Good, TreeOf, Before, After, Ending, Ended, Alive
  <2> QED
    BY <2>1, <2>2
<1>8. OutcomeOf(c)'
  <2>1. Exited(c) => Exited(c)'
    BY <1>2, <1>4 DEF Exited
  <2> QED
    BY <1>1, <1>2, <1>4, <2>1 DEF Good, OutcomeOf, Ending
<1> QED
  BY <1>2, <1>1, <1>3, <1>5, <1>6, <1>7, <1>8, OnlyCallKeepsInv

LEMMA CloseChildEndsKeepsInv ==
  ASSUME RunnerInv, NEW c \in Calls, CloseChildEnds(c)
  PROVE  RunnerInv'
<1> DEFINE ends == {"stdin", "outW", "errW"}
<1>1. /\ TypeOK /\ Good(c) /\ call[c].pc = "ends" /\ c # NoCall
      /\ mutex = c /\ mutex' = NoCall /\ \A d \in Calls : d # NoCall
      /\ UNCHANGED <<state, holds, gone, drained, missed>>
  BY CallAssumption DEF RunnerInv, CloseChildEnds, os, seen, Good, MutexOf, Creating
<1>2. CASE state[Main(c)] = "none"
  <2>1. ends \cup call[c].defers = open[c]
    BY <1>1, <1>2 DEF Good, HandlesOf
  <2>2. ends \in SUBSET Handles
    BY DEF Handles
  <2>3. Return(c, "internal", ends)
    BY <1>2 DEF CloseChildEnds
  <2> HIDE DEF ends
  <2>4. UNCHANGED <<os, seen>>
    BY DEF CloseChildEnds
  <2> QED
    BY <1>1, <1>2, <2>1, <2>2, <2>3, <2>4, FailedKeepsInv
<1>3. CASE state[Main(c)] # "none"
  <2>1. /\ open[c] = {"job", "stdin", "outR", "outW", "errR", "errW", "proc",
                      "thread"}
        /\ call[c].defers = {"job", "outR", "errR", "proc"}
        /\ drained[c] = {} /\ state[Main(c)] = "suspended" /\ ends \subseteq open[c]
    BY <1>1, <1>3 DEF Good, HandlesOf, TreeOf, After, Ending
  <2>2. CloseHandles(c, ends) /\ Goto(c, "assign")
    BY <1>3 DEF CloseChildEnds
  <2>3. /\ call' \in [Calls -> Call]
        /\ call'[c].pc = "assign" /\ call'[c].bound = call[c].bound
        /\ call'[c].defers = call[c].defers /\ call'[c].err = call[c].err
        /\ call'[c].code = call[c].code /\ call'[c].failed = call[c].failed
        /\ call'[c].result = call[c].result
        /\ \A d \in Calls \ {c} : call'[d] = call[d]
    BY <1>1, <2>2, GotoStep DEF Steps
  <2>4. /\ open' \in [Calls -> SUBSET Handles] /\ misclosed' = FALSE
        /\ open'[c] = {"job", "outR", "errR", "proc", "thread"}
        /\ \A d \in Calls \ {c} : open'[d] = open[d]
    <3>1. open[c] \ ends = {"job", "outR", "errR", "proc", "thread"}
      BY <2>1
    <3> HIDE DEF ends
    <3> QED
      BY <2>1, <2>2, <3>1, CloseStep
  <2>5. TypeOK'
    BY <1>1, <2>3, <2>4 DEF TypeOK
  <2>6. \A d \in Calls \ {c} : Same(d)
    BY <1>1, <2>3, <2>4 DEF Same
  <2>7. MutexOf(c)'
    BY <1>1, <2>3 DEF MutexOf, Creating
  <2>8. HandlesOf(c)'
    BY <1>1, <2>1, <2>3, <2>4 DEF HandlesOf, After, Ending
  <2>9. TreeOf(c)'
    BY <1>1, <2>1, <2>3 DEF Good, TreeOf, Before, After, Ending, Ended
  <2>10. PipesOf(c)'
    BY <1>1 DEF Good, PipesOf
  <2>11. OutcomeOf(c)'
    BY <1>1, <2>3 DEF Good, OutcomeOf, Ending
  <2> QED
    BY <2>4, <2>5, <2>6, <2>7, <2>8, <2>9, <2>10, <2>11, LocalStep DEF Good
<1> QED
  BY <1>2, <1>3

\* The process enters the job.
LEMMA AssignKeepsInv ==
  ASSUME RunnerInv, NEW c \in Calls, Assign(c)
  PROVE  RunnerInv'
<1> DEFINE r == [call[c] EXCEPT !.pc = "resume", !.bound = TRUE]
<1>1. /\ TypeOK /\ Good(c) /\ call[c] \in Call /\ call[c].pc = "assign"
      /\ UNCHANGED <<mutex, open, misclosed, os, seen>>
      /\ UNCHANGED <<state, holds, gone, drained, missed>>
  BY DEF RunnerInv, TypeOK, Assign, os, seen
<1>2. /\ r \in Call /\ r.pc = "resume" /\ r.bound = TRUE
      /\ r.defers = call[c].defers /\ r.err = call[c].err
      /\ r.code = call[c].code /\ r.result = call[c].result
  BY <1>1 DEF Call, Steps
<1>3. To(c, r)
  BY DEF Assign
<1> HIDE DEF r
<1>4. call'[c] = r
  BY <1>1, <1>2, <1>3, CallStep
<1>5. MutexOf(c)'
  BY <1>1, <1>2, <1>4 DEF Good, MutexOf, Creating
<1>6. HandlesOf(c)'
  BY <1>1, <1>2, <1>4 DEF Good, HandlesOf, After, Ending
<1>7. TreeOf(c)'
  BY <1>1, <1>2, <1>4 DEF Good, TreeOf, Before, After, Ending, Ended
<1>8. OutcomeOf(c)'
  BY <1>1, <1>2, <1>4 DEF Good, OutcomeOf, Ending
<1> QED
  BY <1>1, <1>2, <1>3, <1>5, <1>6, <1>7, <1>8, OnlyCallKeepsInv

\* The wait is over: the timer, the cancellation, or the exit code is taken.
LEMMA DecideKeepsInv ==
  ASSUME RunnerInv, NEW c \in Calls,
         WaitTimeout(c) \/ WaitCancelled(c) \/ GetExitCode(c)
  PROVE  RunnerInv'
<1>1. PICK err \in {"none", "timeout", "cancelled"},
           code \in {"unread", "own", "active", "zero"} :
        /\ To(c, [call[c] EXCEPT !.pc = "kill", !.err = err, !.code = code])
        /\ \/ call[c].pc = "wait" /\ err # "none" /\ code = "unread"
           \/ /\ call[c].pc = "code" /\ err = "none" /\ code # "unread"
              /\ Ended(Main(c)) => code # "active"
        /\ UNCHANGED <<mutex, open, misclosed, os, seen>>
  <2>1. /\ call[c] \in Call /\ Good(c)
    BY DEF RunnerInv, TypeOK
  <2>2. ASSUME NEW e \in {"timeout", "cancelled"}, WaitEnds(c, e)
        PROVE  /\ To(c, [call[c] EXCEPT !.pc = "kill", !.err = e, !.code = "unread"])
               /\ call[c].pc = "wait"
               /\ UNCHANGED <<mutex, open, misclosed, os, seen>>
    <3>1. call[c].code = "unread" /\ call[c].pc = "wait"
      BY <2>1, <2>2 DEF WaitEnds, Good, OutcomeOf, Ending
    <3>2. [call[c] EXCEPT !.pc = "kill", !.err = e, !.code = "unread"]
            = [call[c] EXCEPT !.pc = "kill", !.err = e]
      BY <2>1, <3>1 DEF Call
    <3> QED
      BY <2>2, <3>1, <3>2 DEF WaitEnds
  <2>3. ASSUME GetExitCode(c)
        PROVE  \E code \in {"own", "active", "zero"} :
                 /\ Ended(Main(c)) => code # "active"
                 /\ To(c, [call[c] EXCEPT !.pc = "kill", !.err = "none", !.code = code])
                 /\ call[c].pc = "code"
                 /\ UNCHANGED <<mutex, open, misclosed, os, seen>>
    <3>1. PICK code \in {"own", "active", "zero"} :
            /\ Ended(Main(c)) => code # "active"
            /\ To(c, [call[c] EXCEPT !.pc = "kill", !.code = code])
      BY <2>3 DEF GetExitCode
    <3>2. call[c].err = "none" /\ call[c].pc = "code"
      BY <2>1, <2>3 DEF GetExitCode, Good, OutcomeOf, Ending
    <3>3. [call[c] EXCEPT !.pc = "kill", !.err = "none", !.code = code]
            = [call[c] EXCEPT !.pc = "kill", !.code = code]
      BY <2>1, <3>2 DEF Call
    <3> QED
      BY <2>3, <3>1, <3>2, <3>3 DEF GetExitCode
  <2>4. CASE WaitTimeout(c)
    BY <2>2, <2>4 DEF WaitTimeout
  <2>5. CASE WaitCancelled(c)
    BY <2>2, <2>5 DEF WaitCancelled
  <2>6. CASE GetExitCode(c)
    BY <2>3, <2>6
  <2> QED
    BY <2>4, <2>5, <2>6
<1> DEFINE r == [call[c] EXCEPT !.pc = "kill", !.err = err, !.code = code]
<1>2. /\ TypeOK /\ Good(c) /\ call[c] \in Call
      /\ UNCHANGED <<state, holds, gone, drained, missed, open, mutex>>
  BY <1>1 DEF RunnerInv, TypeOK, os, seen
<1>3. /\ r \in Call /\ r.pc = "kill" /\ r.bound = call[c].bound
      /\ r.defers = call[c].defers /\ r.err = err
      /\ r.code = code /\ r.result = call[c].result
  BY <1>2 DEF Call, Steps
<1> HIDE DEF r
<1>4. To(c, r) /\ call'[c] = r
  BY <1>1, <1>2, <1>3, CallStep DEF r
<1>5. MutexOf(c)'
  BY <1>1, <1>2, <1>3, <1>4 DEF Good, MutexOf, Creating
<1>6. HandlesOf(c)'
  BY <1>1, <1>2, <1>3, <1>4 DEF Good, HandlesOf, After, Ending
<1>7. TreeOf(c)'
  BY <1>1, <1>2, <1>3, <1>4 DEF Good, TreeOf, Before, After, Ending, Ended
<1>8. OutcomeOf(c)'
  <2>1. err = "none" => Exited(c)'
    <3>1. err = "none" /\ "wait" \notin missed[c] => state[Main(c)] = "exited"
      BY <1>1, <1>2 DEF Good, TreeOf, Ended
    <3> QED
      BY <1>1, <1>2, <1>3, <1>4, <3>1 DEF Exited, Ended
  <2> QED
    BY <1>1, <1>2, <1>3, <1>4, <2>1 DEF Good, OutcomeOf, Ending
<1> QED
  BY <1>1, <1>3, <1>4, <1>5, <1>6, <1>7, <1>8, OnlyCallKeepsInv

-----------------------------------------------------------------------------
(* The steps that terminate the tree, and the returns after it exists.      *)

\* What a termination that succeeds, and one of a single process, does.
OthersKeepState(c) ==
  \A d \in Calls \ {c}, k \in Members : state'[<<d, k>>] = state[<<d, k>>]
EndedStays(c) ==
  \A k \in Members : Ended(<<c, k>>) => state'[<<c, k>>] = state[<<c, k>>]

LEMMA KilledTree ==
  ASSUME TypeOK, NEW c \in Calls, state' = Killed(c), call[c].bound
  PROVE  /\ state' \in TypeOfState /\ OthersKeepState(c) /\ EndedStays(c)
         /\ \A k \in Members : state'[<<c, k>>] \notin {"suspended", "running"}
BY KilledStep DEF TypeOfState, OthersKeepState, EndedStays, Alive, Ended

LEMMA DyingMain ==
  ASSUME TypeOK, NEW c \in Calls, Alive(Main(c)),
         state' = [state EXCEPT ![<<c, "main">>] = "dying"]
  PROVE  /\ state' \in TypeOfState /\ OthersKeepState(c) /\ EndedStays(c)
         /\ state'[<<c, "main">>] = "dying"
         /\ \A k \in Members : k # "main" => state'[<<c, k>>] = state[<<c, k>>]
<1>1. Main(c) = <<c, "main">> /\ "main" \in Members
  BY MemberOf
<1>2. NewState(c, "main", "dying")
  BY <1>1, StateStep
<1>3. ~Ended(<<c, "main">>)
  BY <1>1 DEF Alive, Ended
<1> QED
  BY <1>1, <1>2, <1>3 DEF NewState, OthersKeepState, EndedStays

\* A return with a tree that has been told to go.
LEMMA DoneKeepsInv ==
  ASSUME RunnerInv, NEW c \in Calls, mutex # c,
         NEW result \in {"ok", "timeout", "cancelled", "internal", "unconfirmed"},
         NEW hs, Returned(c, result, hs),
         UNCHANGED <<mutex, holds, gone, drained, missed>>,
         open[c] \ (hs \cup call[c].defers)
           = IF result = "unconfirmed" THEN ReadEnds(Streams \ drained[c]) ELSE {},
         state' \in TypeOfState, OthersKeepState(c), EndedStays(c),
         \A k \in Members : state'[<<c, k>>] # "running",
         result = "ok" => Exited(c),
         result \in {"timeout", "cancelled"} => call[c].code = "unread",
         result \in {"ok", "timeout", "cancelled"} =>
           c \in gone /\ drained[c] = Streams,
         Prompt /\ result = "unconfirmed" => call[c].failed
  PROVE  RunnerInv'
<1>1. TypeOK /\ Good(c)
  BY DEF RunnerInv
<1>2. /\ call' \in [Calls -> Call] /\ call'[c].pc = "done"
      /\ call'[c].result = result
      /\ call'[c].code = call[c].code /\ call'[c].failed = call[c].failed
      /\ \A d \in Calls \ {c} : call'[d] = call[d]
      /\ open' \in [Calls -> SUBSET Handles] /\ misclosed' = FALSE
      /\ open'[c] = open[c] \ (hs \cup call[c].defers)
      /\ \A d \in Calls \ {c} : open'[d] = open[d]
  BY DEF Returned
<1>3. TypeOK'
  BY <1>1, <1>2 DEF TypeOK, TypeOfState
<1>4. \A d \in Calls \ {c} : Same(d)
  BY <1>1, <1>2 DEF Same, OthersKeepState
<1>5. MutexOf(c)'
  BY <1>2 DEF MutexOf, Creating
<1>6. HandlesOf(c)'
  BY <1>2 DEF HandlesOf, After, Ending
<1>7. Ended(Main(c)) => state'[Main(c)] = state[Main(c)]
  BY MemberOf DEF EndedStays
<1>8. TreeOf(c)'
  <2>1. c \in gone => Ended(Main(c))' \/ "wait" \in missed[c]
    BY <1>1, <1>7 DEF Good, TreeOf, Ended
  <2> QED
    BY <1>2, <2>1 DEF TreeOf, Before, After, Ending
<1>9. PipesOf(c)'
  BY <1>1 DEF Good, PipesOf
<1>10. OutcomeOf(c)'
  <2>1. Exited(c) => Exited(c)'
    BY <1>2, <1>7 DEF Exited, Ended
  <2> QED
    BY <1>2, <2>1 DEF OutcomeOf, Ending
<1> QED
  BY <1>2, <1>3, <1>4, <1>5, <1>6, <1>8, <1>9, <1>10, LocalStep DEF Good

LEMMA AssignFailsKeepsInv ==
  ASSUME RunnerInv, NEW c \in Calls, AssignFails(c)
  PROVE  RunnerInv'
<1>1. /\ TypeOK /\ Good(c) /\ call[c].pc = "assign"
      /\ Return(c, "internal", {"thread"})
      /\ UNCHANGED <<mutex, holds, gone, drained, missed>>
      /\ state' \in {state, [state EXCEPT ![Main(c)] = "dying"]}
  BY DEF RunnerInv, AssignFails, seen
<1>2. {"thread"} \in SUBSET Handles /\ mutex # c
  BY <1>1 DEF Handles, Good, MutexOf, Creating
<1>3. {"thread"} \cup call[c].defers = open[c]
  BY <1>1 DEF Good, HandlesOf
<1>4. {"thread"} \cup call[c].defers \subseteq open[c]
      /\ open[c] \ ({"thread"} \cup call[c].defers) = {}
  BY <1>3
<1>5. state[Main(c)] = "suspended" /\ \A k \in Kids : state[<<c, k>>] = "none"
  BY <1>1 DEF Good, TreeOf
<1>6. /\ state' \in TypeOfState /\ OthersKeepState(c) /\ EndedStays(c)
      /\ \A k \in Members : state'[<<c, k>>] # "running"
  <2>1. CASE state' = state
    BY <1>1, <1>5, <2>1, MemberOf
    DEF TypeOK, TypeOfState, OthersKeepState, EndedStays, Members
  <2>2. CASE state' = [state EXCEPT ![Main(c)] = "dying"]
    <3>1. Alive(Main(c))
      BY <1>5 DEF Alive
    <3>2. /\ state' \in TypeOfState /\ OthersKeepState(c) /\ EndedStays(c)
          /\ state'[<<c, "main">>] = "dying"
          /\ \A k \in Members : k # "main" => state'[<<c, k>>] = state[<<c, k>>]
      BY <1>1, <2>2, <3>1, DyingMain DEF Main
    <3> QED
      BY <1>5, <3>2 DEF Members
  <2> QED
    BY <1>1, <2>1, <2>2
<1> QED
  BY <1>1, <1>2, <1>4, <1>6, ReturnStep, DoneKeepsInv

LEMMA ResumeFailsKeepsInv ==
  ASSUME RunnerInv, NEW c \in Calls, ResumeFails(c)
  PROVE  RunnerInv'
<1>1. /\ TypeOK /\ Good(c) /\ call[c].pc = "resume"
      /\ Return(c, "internal", {"thread"}) /\ state' = Killed(c)
      /\ UNCHANGED <<mutex, holds, gone, drained, missed>>
  BY DEF RunnerInv, ResumeFails, seen
<1>2. {"thread"} \in SUBSET Handles /\ mutex # c
  BY <1>1 DEF Handles, Good, MutexOf, Creating
<1>3. {"thread"} \cup call[c].defers = open[c]
  BY <1>1 DEF Good, HandlesOf
<1>4. {"thread"} \cup call[c].defers \subseteq open[c]
      /\ open[c] \ ({"thread"} \cup call[c].defers) = {}
  BY <1>3
<1>5. /\ state' \in TypeOfState /\ OthersKeepState(c) /\ EndedStays(c)
      /\ \A k \in Members : state'[<<c, k>>] # "running"
  BY <1>1, KilledTree DEF Good, TreeOf
<1> QED
  BY <1>1, <1>2, <1>4, <1>5, ReturnStep, DoneKeepsInv

\* Every handle but the read ends that drainPipe still has is closed.
LEMMA EndingHandles ==
  ASSUME RunnerInv, NEW c \in Calls, call[c].pc \in Ending
  PROVE  /\ {} \cup call[c].defers \subseteq open[c]
         /\ open[c] \ ({} \cup call[c].defers) = ReadEnds(Streams \ drained[c])
<1>1. Good(c) /\ drained[c] \subseteq Streams
  BY DEF RunnerInv, TypeOK
<1>2. ReadEnds(Streams \ drained[c]) \subseteq {"outR", "errR"}
  BY ReadEndsAre
<1>3. /\ open[c] = {"job", "proc"} \cup ReadEnds(Streams \ drained[c])
      /\ call[c].defers = {"job", "proc"}
  BY <1>1 DEF Good, HandlesOf, After
<1> QED
  BY <1>2, <1>3

LEMMA ReturnOutputKeepsInv ==
  ASSUME RunnerInv, NEW c \in Calls, ReturnOutput(c)
  PROVE  RunnerInv'
<1> DEFINE result == IF call[c].err = "none" THEN "ok" ELSE call[c].err
<1>1. /\ TypeOK /\ Good(c) /\ call[c].pc = "stderr" /\ "stderr" \in drained[c]
      /\ Return(c, result, {}) /\ state' = Killed(c)
      /\ UNCHANGED <<mutex, holds, gone, drained, missed>>
  BY DEF RunnerInv, ReturnOutput, seen
<1>2. drained[c] = Streams
  <2>1. "stdout" \in drained[c] /\ drained[c] \subseteq Streams
    BY <1>1 DEF Good, OutcomeOf, TypeOK
  <2> QED
    BY <1>1, <2>1 DEF Streams
<1>3. /\ result \in {"ok", "timeout", "cancelled"}
      /\ result = "ok" => Exited(c)
      /\ result \in {"timeout", "cancelled"} => call[c].code = "unread"
      /\ c \in gone /\ mutex # c
  <2>1. call[c].err \in {"none", "timeout", "cancelled"}
    BY <1>1 DEF TypeOK, Call
  <2>2. c \in gone /\ mutex # c
    BY <1>1 DEF Good, TreeOf, MutexOf, Creating
  <2> QED
    BY <1>1, <2>1, <2>2 DEF Good, OutcomeOf, Ending
<1>4. /\ {} \cup call[c].defers \subseteq open[c]
      /\ open[c] \ ({} \cup call[c].defers) = {}
  <2>1. ReadEnds(Streams \ drained[c]) = {}
    BY <1>2 DEF ReadEnds
  <2> QED
    BY <1>1, <2>1, EndingHandles DEF Ending
<1>5. /\ state' \in TypeOfState /\ OthersKeepState(c) /\ EndedStays(c)
      /\ \A k \in Members : state'[<<c, k>>] # "running"
  BY <1>1, KilledTree DEF Good, TreeOf, After, Ending
<1> HIDE DEF result
<1> QED
  BY <1>1, <1>2, <1>3, <1>4, <1>5, ReturnStep, DoneKeepsInv

\* The grace period: what has been terminated is not waited for in vain.
LEMMA GraceHasCause ==
  ASSUME RunnerInv, NEW c \in Calls, call[c].pc \in Ending, ~call[c].failed
  PROVE  Coming(c)
<1>1. Good(c) /\ \A k \in Members : ~Alive(<<c, k>>)
  BY DEF RunnerInv, Good, TreeOf
<1>2. ~Alive(Main(c))
  BY <1>1, MemberOf
<1>3. ASSUME NEW p \in Processes, <<c, call[c].pc>> \in holds[p]
      PROVE  ~Alive(p)
  <2>1. p[1] \in Calls /\ p[2] \in Members /\ p = <<p[1], p[2]>>
    BY ProcessOf
  <2>2. \A h \in holds[<<p[1], p[2]>>] : h[1] = p[1]
    BY <2>1 DEF RunnerInv, Good, PipesOf
  <2>3. c = p[1]
    BY <1>3, <2>1, <2>2
  <2> QED
    BY <1>1, <2>1, <2>3
<1> QED
  BY <1>2, <1>3 DEF Coming, Ending, Streams

LEMMA GraceExpiresKeepsInv ==
  ASSUME RunnerInv, NEW c \in Calls, GraceExpires(c)
  PROVE  RunnerInv'
<1>1. /\ TypeOK /\ Good(c) /\ call[c].pc \in Ending
      /\ Return(c, "unconfirmed", {}) /\ state' = Killed(c)
      /\ UNCHANGED <<mutex, holds, gone, drained, missed>>
  BY DEF RunnerInv, GraceExpires, Ending, seen
<1>2. Prompt => call[c].failed
  BY <1>1, GraceHasCause DEF GraceExpires
<1>3. /\ {} \cup call[c].defers \subseteq open[c]
      /\ open[c] \ ({} \cup call[c].defers) = ReadEnds(Streams \ drained[c])
  BY <1>1, EndingHandles
<1>4. /\ state' \in TypeOfState /\ OthersKeepState(c) /\ EndedStays(c)
      /\ \A k \in Members : state'[<<c, k>>] # "running"
  BY <1>1, KilledTree DEF Good, TreeOf, After
<1>5. mutex # c
  BY <1>1 DEF Good, MutexOf, Creating, Ending
<1> QED
  BY <1>1, <1>2, <1>3, <1>4, <1>5, ReturnStep, DoneKeepsInv

LEMMA ResumeKeepsInv ==
  ASSUME RunnerInv, NEW c \in Calls, Resume(c)
  PROVE  RunnerInv'
<1> DEFINE r == [call[c] EXCEPT !.pc = "wait", !.defers = @ \ {"outR", "errR"}]
<1>1. /\ TypeOK /\ Good(c) /\ call[c] \in Call /\ call[c].pc = "resume"
      /\ state' = [state EXCEPT ![<<c, "main">>] = "running"]
      /\ To(c, r) /\ CloseHandles(c, {"thread"})
      /\ UNCHANGED <<mutex, holds, gone, drained, missed>>
  BY DEF RunnerInv, TypeOK, Resume, Main, seen
<1>2. /\ r \in Call /\ r.pc = "wait" /\ r.defers = call[c].defers \ {"outR", "errR"}
      /\ r.bound = call[c].bound /\ r.err = call[c].err /\ r.code = call[c].code
      /\ r.result = call[c].result
  BY <1>1 DEF Call, Steps
<1> HIDE DEF r
<1>3. /\ call' \in [Calls -> Call] /\ call'[c] = r
      /\ \A d \in Calls \ {c} : call'[d] = call[d]
  BY <1>1, <1>2, CallStep
<1>4. /\ open[c] = {"job", "outR", "errR", "proc", "thread"}
      /\ call[c].defers = {"job", "outR", "errR", "proc"} /\ drained[c] = {}
  BY <1>1 DEF Good, HandlesOf, After, Ending
<1>5. /\ open' \in [Calls -> SUBSET Handles] /\ misclosed' = FALSE
      /\ open'[c] = open[c] \ {"thread"}
      /\ \A d \in Calls \ {c} : open'[d] = open[d]
  <2>1. {"thread"} \subseteq open[c]
    BY <1>4
  <2> QED
    BY <1>1, <2>1, CloseStep
<1>6. NewState(c, "main", "running")
  BY <1>1, MemberOf, StateStep
<1>7. state[Main(c)] = "suspended" /\ state'[Main(c)] = "running"
      /\ \A k \in Kids : state'[<<c, k>>] = "none"
  <2>1. state[Main(c)] = "suspended" /\ \A k \in Kids : state[<<c, k>>] = "none"
    BY <1>1 DEF Good, TreeOf
  <2> QED
    BY <1>6, <2>1, MemberOf, KidAssumption DEF Members, NewState
<1>8. TypeOK'
  BY <1>1, <1>3, <1>5, <1>6 DEF TypeOK, TypeOfState, NewState
<1>9. \A d \in Calls \ {c} : Same(d)
  BY <1>1, <1>3, <1>5, <1>6 DEF Same, NewState
<1>10. MutexOf(c)'
  BY <1>1, <1>2, <1>3 DEF Good, MutexOf, Creating
<1>11. HandlesOf(c)'
  <2>1. ReadEnds(Streams \ drained[c]) = {"outR", "errR"}
    BY <1>4 DEF ReadEnds, ReadEnd, Streams
  <2>2. open'[c] = {"job", "proc"} \cup {"outR", "errR"}
        /\ call'[c].defers = {"job", "proc"}
    BY <1>2, <1>3, <1>4, <1>5
  <2>3. open'[c] = {"job", "proc"} \cup ReadEnds(Streams \ drained'[c])
    BY <1>1, <2>1, <2>2
  <2> QED
    BY <1>2, <1>3, <2>2, <2>3 DEF HandlesOf, After
<1>12. TreeOf(c)'
  <2>1. c \notin gone
    BY <1>1 DEF Good, TreeOf, After, Ending
  <2> QED
    BY <1>1, <1>2, <1>3, <1>7, <2>1 DEF Good, TreeOf, Before, After, Ending
<1>13. PipesOf(c)'
  BY <1>1 DEF Good, PipesOf
<1>14. OutcomeOf(c)'
  BY <1>1, <1>2, <1>3 DEF Good, OutcomeOf, Ending
<1> QED
  BY <1>5, <1>8, <1>9, <1>10, <1>11, <1>12, <1>13, <1>14, LocalStep DEF Good

\* Whether or not the job could be terminated, the grace period begins.
LEMMA GraceKeepsInv ==
  ASSUME RunnerInv, NEW c \in Calls, call[c].pc = "kill",
         NEW r \in Call, To(c, r), r.pc = "exit", r.bound = call[c].bound,
         r.defers = call[c].defers, r.err = call[c].err,
         r.code = call[c].code, r.result = call[c].result,
         UNCHANGED <<mutex, open, misclosed, holds, gone, drained, missed>>,
         state' \in TypeOfState, OthersKeepState(c), EndedStays(c),
         ~r.failed =>
           \A k \in Members : state'[<<c, k>>] \notin {"suspended", "running"}
  PROVE  RunnerInv'
<1>1. TypeOK /\ Good(c) /\ misclosed' = FALSE
  BY DEF RunnerInv, TypeOK
<1>2. /\ call' \in [Calls -> Call] /\ call'[c] = r
      /\ \A d \in Calls \ {c} : call'[d] = call[d]
  BY <1>1, CallStep
<1>3. Ended(Main(c)) => state'[Main(c)] = state[Main(c)]
  BY MemberOf DEF EndedStays
<1>4. TypeOK'
  BY <1>1, <1>2 DEF TypeOK, TypeOfState
<1>5. \A d \in Calls \ {c} : Same(d)
  BY <1>1, <1>2 DEF Same, OthersKeepState
<1>6. MutexOf(c)'
  BY <1>1, <1>2 DEF Good, MutexOf, Creating
<1>7. HandlesOf(c)'
  <2>1. /\ open[c] = {"job", "proc"} \cup ReadEnds(Streams \ drained[c])
        /\ call[c].defers = {"job", "proc"}
    BY <1>1 DEF Good, HandlesOf, After
  <2> QED
    BY <1>2, <2>1 DEF HandlesOf, After, Ending
<1>8. TreeOf(c)'
  <2>1. call[c].bound /\ (c \in gone => Ended(Main(c))' \/ "wait" \in missed[c])
    BY <1>1, <1>3 DEF Good, TreeOf, After, Ended
  <2>2. ~r.failed => \A k \in Members : ~Alive(<<c, k>>)'
    BY DEF Alive
  <2> QED
    BY <1>2, <2>1, <2>2 DEF TreeOf, Before, After, Ending
<1>9. PipesOf(c)'
  BY <1>1 DEF Good, PipesOf
<1>10. OutcomeOf(c)'
  <2>1. IF call[c].err = "none" THEN Exited(c) ELSE call[c].code = "unread"
    BY <1>1 DEF Good, OutcomeOf
  <2>2. call[c].result = "none"
    BY <1>1 DEF Good, OutcomeOf
  <2>3. Exited(c) => Exited(c)'
    BY <1>2, <1>3 DEF Exited, Ended
  <2> QED
    BY <1>2, <2>1, <2>2, <2>3 DEF OutcomeOf, Ending
<1> QED
  BY <1>1, <1>4, <1>5, <1>6, <1>7, <1>8, <1>9, <1>10, LocalStep DEF Good

LEMMA TerminateTreeKeepsInv ==
  ASSUME RunnerInv, NEW c \in Calls, TerminateTree(c)
  PROVE  RunnerInv'
<1> DEFINE r == [call[c] EXCEPT !.pc = "exit"]
<1>1. /\ TypeOK /\ call[c] \in Call /\ call[c].pc = "kill" /\ call[c].bound
      /\ To(c, r) /\ state' = Killed(c)
      /\ UNCHANGED <<mutex, open, misclosed, holds, gone, drained, missed>>
  BY DEF RunnerInv, TypeOK, TerminateTree, Goto, Good, TreeOf, After, seen
<1>2. /\ r \in Call /\ r.pc = "exit" /\ r.bound = call[c].bound
      /\ r.defers = call[c].defers /\ r.err = call[c].err
      /\ r.code = call[c].code /\ r.result = call[c].result
  BY <1>1 DEF Call, Steps
<1> HIDE DEF r
<1>3. /\ state' \in TypeOfState /\ OthersKeepState(c) /\ EndedStays(c)
      /\ \A k \in Members : state'[<<c, k>>] \notin {"suspended", "running"}
  BY <1>1, KilledTree
<1> QED
  BY <1>1, <1>2, <1>3, GraceKeepsInv

LEMMA TerminateTreeFailsKeepsInv ==
  ASSUME RunnerInv, NEW c \in Calls, TerminateTreeFails(c)
  PROVE  RunnerInv'
<1> DEFINE r == [call[c] EXCEPT !.pc = "exit", !.failed = TRUE]
<1>1. /\ TypeOK /\ call[c] \in Call /\ call[c].pc = "kill" /\ To(c, r)
      /\ UNCHANGED <<mutex, open, misclosed, holds, gone, drained, missed>>
  BY DEF RunnerInv, TypeOK, TerminateTreeFails, seen
<1>2. /\ r \in Call /\ r.pc = "exit" /\ r.bound = call[c].bound
      /\ r.defers = call[c].defers /\ r.err = call[c].err
      /\ r.code = call[c].code /\ r.result = call[c].result /\ r.failed = TRUE
  BY <1>1 DEF Call, Steps
<1> HIDE DEF r
<1>3. state' \in TypeOfState /\ OthersKeepState(c) /\ EndedStays(c)
  <2>1. CASE UNCHANGED state
    BY <1>1, <2>1 DEF TypeOK, TypeOfState, OthersKeepState, EndedStays
  <2>2. CASE /\ state[Main(c)] = "running"
             /\ state' = [state EXCEPT ![<<c, "main">>] = "dying"]
    <3>1. Alive(Main(c))
      BY <2>2 DEF Alive
    <3> QED
      BY <1>1, <2>2, <3>1, DyingMain
  <2> QED
    BY <2>1, <2>2 DEF TerminateTreeFails, Main
<1> QED
  BY <1>1, <1>2, <1>3, GraceKeepsInv

-----------------------------------------------------------------------------
(* The goroutines that outlive a call.                                      *)

LEMMA SeeExitKeepsInv ==
  ASSUME RunnerInv, NEW c \in Calls, SeeExit(c)
  PROVE  RunnerInv'
<1>1. /\ TypeOK /\ Good(c) /\ misclosed' = FALSE
      /\ gone' = gone \cup {c} /\ c \notin gone
      /\ call[c].pc \in After \cup {"done"}
      /\ UNCHANGED <<mutex, call, open, misclosed, state, holds, drained>>
  BY DEF RunnerInv, TypeOK, SeeExit, os, Waiting, Good, OutcomeOf, After, Ending
<1>2. /\ missed' \in [Calls -> SUBSET ({"wait"} \cup Streams)]
      /\ \A d \in Calls \ {c} : missed'[d] = missed[d]
      /\ missed[c] \subseteq missed'[c] /\ missed'[c] \subseteq missed[c] \cup {"wait"}
      /\ Ended(Main(c)) \/ "wait" \in missed'[c]
  <2>1. CASE Ended(Main(c)) /\ UNCHANGED missed
    BY <1>1, <2>1 DEF TypeOK
  <2>2. CASE missed' = [missed EXCEPT ![c] = @ \cup {"wait"}]
    BY <1>1, <2>2 DEF TypeOK
  <2> QED
    BY <2>1, <2>2 DEF SeeExit
<1>2a. TypeOK'
  BY <1>1, <1>2 DEF TypeOK
<1>3. \A d \in Calls \ {c} : Same(d)
  BY <1>1, <1>2 DEF Same
<1>4. MutexOf(c)' /\ HandlesOf(c)'
  <2>1. MutexOf(c) /\ HandlesOf(c)
    BY <1>1 DEF Good
  <2>2. MutexOf(c)'
    BY <1>1, <2>1 DEF MutexOf
  <2>3. /\ call'[c] = call[c] /\ open'[c] = open[c] /\ drained'[c] = drained[c]
        /\ state'[Main(c)] = state[Main(c)]
    BY <1>1
  <2>4. HandlesOf(c)'
    BY <2>1, <2>3, ZenonT(30) DEF HandlesOf
  <2> QED
    BY <2>2, <2>4
<1>5. TreeOf(c)'
  BY <1>1, <1>2 DEF Good, TreeOf, Ended, Alive
<1>6. PipesOf(c)'
  BY <1>1, <1>2 DEF Good, PipesOf
<1>7. OutcomeOf(c)'
  <2>1. Exited(c) => Exited(c)'
    BY <1>1, <1>2 DEF Exited
  <2> QED
    BY <1>1, <2>1 DEF Good, OutcomeOf
<1> QED
  BY <1>1, <1>2a, <1>3, <1>4, <1>5, <1>6, <1>7, LocalStep DEF Good

LEMMA DrainPipeKeepsInv ==
  ASSUME RunnerInv, NEW c \in Calls, NEW s \in Streams, DrainPipe(c, s)
  PROVE  RunnerInv'
<1>1. /\ TypeOK /\ Good(c) /\ Draining(c, s) /\ s \notin drained[c]
      /\ drained[c] \subseteq Streams
      /\ CloseHandles(c, {ReadEnd[s]})
      /\ drained' = [drained EXCEPT ![c] = @ \cup {s}]
      /\ UNCHANGED <<mutex, call, state, holds, gone>>
  BY DEF RunnerInv, TypeOK, DrainPipe, os, Draining
<1>1a. /\ missed' \in [Calls -> SUBSET ({"wait"} \cup Streams)]
       /\ \A d \in Calls \ {c} : missed'[d] = missed[d]
       /\ missed[c] \subseteq missed'[c] /\ missed'[c] \subseteq missed[c] \cup {s}
       /\ s \in missed'[c] \/ \A k \in Members : <<c, s>> \notin holds[<<c, k>>]
  <2>1. CASE AtEnd(c, s) /\ UNCHANGED missed
    BY <1>1, <2>1, MemberOf DEF TypeOK, AtEnd
  <2>2. CASE missed' = [missed EXCEPT ![c] = @ \cup {s}]
    BY <1>1, <2>2 DEF TypeOK
  <2> QED
    BY <2>1, <2>2 DEF DrainPipe
<1>1b. "wait" \in missed'[c] <=> "wait" \in missed[c]
  BY <1>1a DEF Streams
<1>2. /\ drained' \in [Calls -> SUBSET Streams] /\ drained'[c] = drained[c] \cup {s}
      /\ \A d \in Calls \ {c} : drained'[d] = drained[d]
  BY <1>1 DEF TypeOK
<1>3. \/ call[c].pc \in After
      \/ call[c].pc = "done" /\ call[c].result = "unconfirmed"
  BY <1>1 DEF Draining, After, Ending, Good, OutcomeOf
<1>4. ReadEnd[s] \in ReadEnds(Streams \ drained[c])
  BY <1>1 DEF ReadEnds
<1>5. ReadEnds(Streams \ drained[c]) \ {ReadEnd[s]} = ReadEnds(Streams \ drained'[c])
  <2>1. ReadEnd["stdout"] = "outR" /\ ReadEnd["stderr"] = "errR"
    BY DEF ReadEnd
  <2>2. \A t \in Streams : ReadEnd[t] = ReadEnd[s] => t = s
    BY <2>1 DEF Streams
  <2> QED
    BY <1>2, <2>2 DEF ReadEnds
<1>6. ReadEnd[s] \in {"outR", "errR"}
  BY <1>4, ReadEndsAre
<1>7. {ReadEnd[s]} \subseteq open[c]
  BY <1>1, <1>3, <1>4 DEF Good, HandlesOf, After, Ending
<1>8. /\ open' \in [Calls -> SUBSET Handles] /\ misclosed' = FALSE
      /\ open'[c] = open[c] \ {ReadEnd[s]}
      /\ \A d \in Calls \ {c} : open'[d] = open[d]
  BY <1>1, <1>7, CloseStep
<1>9. TypeOK'
  BY <1>1, <1>1a, <1>2, <1>8 DEF TypeOK
<1>10. \A d \in Calls \ {c} : Same(d)
  BY <1>1, <1>1a, <1>2, <1>8 DEF Same
<1>11. MutexOf(c)'
  BY <1>1 DEF Good, MutexOf
<1>12. HandlesOf(c)'
  <2>1. CASE call[c].pc \in After
    <3>1. /\ open[c] = {"job", "proc"} \cup ReadEnds(Streams \ drained[c])
          /\ call[c].defers = {"job", "proc"}
      BY <1>1, <2>1 DEF Good, HandlesOf
    <3>2. open'[c] = {"job", "proc"} \cup ReadEnds(Streams \ drained'[c])
      BY <1>5, <1>6, <1>8, <3>1
    <3> QED
      BY <1>1, <2>1, <3>1, <3>2 DEF HandlesOf, After, Ending
  <2>2. CASE call[c].pc = "done" /\ call[c].result = "unconfirmed"
    <3>1. open[c] = ReadEnds(Streams \ drained[c])
      BY <1>1, <2>2 DEF Good, HandlesOf
    <3>2. open'[c] = ReadEnds(Streams \ drained'[c])
      BY <1>5, <1>8, <3>1
    <3> QED
      BY <1>1, <2>2, <3>2 DEF HandlesOf, After, Ending
  <2> QED
    BY <1>3, <2>1, <2>2
<1>13. TreeOf(c)'
  BY <1>1, <1>1b DEF Good, TreeOf, Ended, Alive
<1>14. PipesOf(c)'
  BY <1>1, <1>1a, <1>2 DEF Good, PipesOf
<1>15. OutcomeOf(c)'
  <2>1. drained[c] = Streams => drained'[c] = Streams
    BY <1>2
  <2>2. "stdout" \in drained[c] => "stdout" \in drained'[c]
    BY <1>2
  <2>3. Exited(c) => Exited(c)'
    BY <1>1, <1>1b DEF Exited
  <2> QED
    BY <1>1, <2>1, <2>2, <2>3 DEF Good, OutcomeOf
<1> QED
  BY <1>8, <1>9, <1>10, <1>11, <1>12, <1>13, <1>14, <1>15, LocalStep DEF Good

-----------------------------------------------------------------------------
(* The processes.                                                           *)

\* One process of a running tree changes: it ends, or it is a new one.
LEMMA ProcessKeepsInv ==
  ASSUME RunnerInv, NEW c \in Calls, NEW m \in Members,
         NEW x \in {"running", "exited", "dead"}, NEW hs,
         NewState(c, m, x), NewHolds(c, m, hs),
         \A h \in hs : h[1] = c, \A s \in drained[c] \ missed[c] : <<c, s>> \notin hs,
         UNCHANGED <<mutex, call, open, misclosed, gone, drained, missed>>,
         \/ x = "exited" /\ state[<<c, m>>] = "running"
         \/ x = "dead" /\ state[<<c, m>>] = "dying"
         \/ /\ x = "running" /\ m # "main" /\ state[<<c, m>>] = "none"
            /\ state[Main(c)] = "running"
  PROVE  RunnerInv'
<1>1. TypeOK /\ Good(c) /\ misclosed' = FALSE /\ Main(c) = <<c, "main">>
      /\ "main" \in Members
  BY MemberOf DEF RunnerInv, TypeOK
<1>2. /\ state' \in TypeOfState
      /\ \A d \in Calls, k \in Members :
           state'[<<d, k>>] = IF d = c /\ k = m THEN x ELSE state[<<d, k>>]
  BY DEF NewState
<1>3. /\ holds' \in [Processes -> SUBSET (Calls \X Streams)]
      /\ \A d \in Calls, k \in Members :
           holds'[<<d, k>>] = IF d = c /\ k = m THEN hs ELSE holds[<<d, k>>]
  BY DEF NewHolds
<1>4. TypeOK'
  BY <1>1, <1>2, <1>3 DEF TypeOK, TypeOfState
<1>5. \A d \in Calls \ {c} : Same(d)
  BY <1>1, <1>2, <1>3 DEF Same
<1>6. call[c].pc \in {"wait", "code", "kill", "done"} \cup Ending
  BY <1>1 DEF TypeOK, Call, Steps, Good, TreeOf, Before, After, Ending, Members
<1>7. MutexOf(c)'
  BY <1>1 DEF Good, MutexOf
<1>8. HandlesOf(c)'
  BY <1>1, <1>6 DEF Good, HandlesOf, Ending
<1>9. Ended(Main(c)) => state'[Main(c)] = state[Main(c)]
  BY <1>1, <1>2 DEF Ended
<1>10. TreeOf(c)'
  <2>1. c \in gone => Ended(Main(c))' \/ "wait" \in missed[c]
    BY <1>1, <1>9 DEF Good, TreeOf, Ended
  <2>1a. /\ call[c].pc \notin After \cup {"done"} => c \notin gone
         /\ call[c].pc \in {"code", "stdout", "stderr"} => c \in gone
    BY <1>1 DEF Good, TreeOf
  <2>2. call[c].pc \in {"wait", "code", "kill"} =>
          state'[Main(c)] \in {"running", "exited"}
    BY <1>1, <1>2 DEF Good, TreeOf
  <2>3. call[c].pc \in Ending /\ ~call[c].failed =>
          \A k \in Members : ~Alive(<<c, k>>)'
    BY <1>1, <1>2 DEF Good, TreeOf, Alive
  <2>4. call[c].pc = "done" => \A k \in Members : state'[<<c, k>>] # "running"
    BY <1>1, <1>2 DEF Good, TreeOf
  <2>5. call[c].pc \in After => call[c].bound
    BY <1>1 DEF Good, TreeOf
  <2> QED
    BY <1>1, <1>6, <2>1, <2>1a, <2>2, <2>3, <2>4, <2>5 DEF TreeOf, Before, Ending
<1>11. PipesOf(c)'
  BY <1>1, <1>3 DEF Good, PipesOf
<1>12. OutcomeOf(c)'
  <2>1. Exited(c) => Exited(c)'
    BY <1>1, <1>9 DEF Exited, Ended
  <2> QED
    BY <1>1, <2>1 DEF Good, OutcomeOf
<1> QED
  BY <1>1, <1>4, <1>5, <1>7, <1>8, <1>10, <1>11, <1>12, LocalStep DEF Good

LEMMA SpawnKeepsInv ==
  ASSUME RunnerInv, NEW c \in Calls, NEW k \in Kids, Spawn(c, k)
  PROVE  RunnerInv'
<1>1. /\ state[Main(c)] = "running" /\ state[<<c, k>>] = "none"
      /\ state' = [state EXCEPT ![<<c, k>>] = "running"]
      /\ UNCHANGED <<mutex, call, open, misclosed, gone, drained, missed>>
      /\ k \in Members /\ k # "main" /\ Main(c) = <<c, "main">>
      /\ Main(c) \in Processes /\ TypeOK /\ Good(c)
  BY MemberOf, KidAssumption DEF Spawn, Members, RunnerInv, seen
<1>2. PICK kept \in {Streams, {"stderr"}} :
        holds' = [holds EXCEPT ![<<c, k>>] = {h \in holds[Main(c)] : h[2] \in kept}]
  BY DEF Spawn
<1> DEFINE hs == {h \in holds[Main(c)] : h[2] \in kept}
<1>3. /\ hs \in SUBSET (Calls \X Streams)
      /\ \A h \in hs : h[1] = c
      /\ \A s \in drained[c] \ missed[c] : <<c, s>> \notin hs
  <2>1. holds[Main(c)] \in SUBSET (Calls \X Streams)
    BY <1>1 DEF TypeOK
  <2>2. /\ \A h \in holds[Main(c)] : h[1] = c
        /\ \A s \in drained[c] \ missed[c] : <<c, s>> \notin holds[Main(c)]
    BY <1>1, MemberOf DEF Good, PipesOf
  <2> QED
    BY <2>1, <2>2
<1> HIDE DEF hs
<1>4. holds' = [holds EXCEPT ![<<c, k>>] = hs]
  BY <1>2 DEF hs
<1>5. NewState(c, k, "running")
  BY <1>1, StateStep
<1>6. NewHolds(c, k, hs)
  BY <1>1, <1>3, <1>4, HoldsStep
<1> QED
  BY <1>1, <1>3, <1>5, <1>6, ProcessKeepsInv

LEMMA EndKeepsInv ==
  ASSUME RunnerInv, NEW p \in Processes, Exit(p) \/ Die(p)
  PROVE  RunnerInv'
<1>1. p[1] \in Calls /\ p[2] \in Members /\ p = <<p[1], p[2]>>
  BY ProcessOf
<1>2. PICK x \in {"exited", "dead"} :
        /\ state' = [state EXCEPT ![p] = x] /\ holds' = [holds EXCEPT ![p] = {}]
        /\ UNCHANGED <<mutex, call, open, misclosed, gone, drained, missed>>
        /\ \/ x = "exited" /\ state[p] = "running"
           \/ x = "dead" /\ state[p] = "dying"
  BY DEF Exit, Die, seen
<1>3. SUFFICES ASSUME NEW c \in Calls, NEW m \in Members, p = <<c, m>>
               PROVE  RunnerInv'
  BY <1>1
<1>4. /\ state' = [state EXCEPT ![<<c, m>>] = x]
      /\ holds' = [holds EXCEPT ![<<c, m>>] = {}]
      /\ \/ x = "exited" /\ state[<<c, m>>] = "running"
         \/ x = "dead" /\ state[<<c, m>>] = "dying"
  BY <1>2, <1>3
<1>5. TypeOK
  BY DEF RunnerInv
<1>6. NewState(c, m, x)
  BY <1>4, <1>5, StateStep
<1>7. NewHolds(c, m, {})
  BY <1>4, <1>5, HoldsStep
<1> QED
  BY <1>2, <1>4, <1>6, <1>7, ProcessKeepsInv

-----------------------------------------------------------------------------
(* The theorems.                                                            *)

LEMMA RunnerInit == Init => RunnerInv
<1> SUFFICES ASSUME Init PROVE RunnerInv
  OBVIOUS
<1>1. \A c \in Calls : /\ call[c].pc = "job" /\ call[c].result = "none"
                       /\ call[c].defers = {} /\ call[c].err = "none"
                       /\ call[c].code = "unread" /\ call[c] \in Call
                       /\ open[c] = {} /\ drained[c] = {} /\ c \notin gone
                       /\ missed[c] = {}
                       /\ mutex # c
  BY CallAssumption DEF Init, Call, Steps
<1>2. \A c \in Calls : \A k \in Members : /\ state[<<c, k>>] = "none"
                                          /\ holds[<<c, k>>] = {}
  BY MemberOf DEF Init
<1>3. TypeOK /\ ~misclosed
  <2>1. call \in [Calls -> Call]
    BY <1>1 DEF Init
  <2> QED
    BY <2>1 DEF Init, TypeOK
<1>4. ASSUME NEW c \in Calls PROVE Good(c)
  <2>1. MutexOf(c)
    BY <1>1 DEF MutexOf, Creating
  <2>2. HandlesOf(c)
    BY <1>1 DEF HandlesOf, After, Ending
  <2>3. TreeOf(c)
    BY <1>1, <1>2 DEF TreeOf, Before, After, Ending
  <2>4. PipesOf(c)
    BY <1>1, <1>2 DEF PipesOf
  <2>5. OutcomeOf(c)
    BY <1>1 DEF OutcomeOf, Ending
  <2> QED
    BY <2>1, <2>2, <2>3, <2>4, <2>5 DEF Good
<1> QED
  BY <1>3, <1>4 DEF RunnerInv

LEMMA RunKeepsInv ==
  ASSUME RunnerInv, NEW c \in Calls, Run(c)
  PROVE  RunnerInv'
BY PrepareKeepsInv, LockKeepsInv, StartSuspendedKeepsInv, OnlyGotoKeepsInv,
   CloseChildEndsKeepsInv, AssignKeepsInv, AssignFailsKeepsInv, ResumeKeepsInv,
   ResumeFailsKeepsInv, DecideKeepsInv, TerminateTreeKeepsInv,
   TerminateTreeFailsKeepsInv, ReturnOutputKeepsInv, GraceExpiresKeepsInv, Zenon
DEF Run

LEMMA RunnerStep == RunnerInv /\ [Next]_vars => RunnerInv'
<1> SUFFICES ASSUME RunnerInv, [Next]_vars PROVE RunnerInv'
  OBVIOUS
<1>1. ASSUME NEW c \in Calls, Run(c) \/ Goroutines(c) PROVE RunnerInv'
  BY <1>1, RunKeepsInv, SeeExitKeepsInv, DrainPipeKeepsInv, Zenon DEF Goroutines
<1>2. ASSUME NEW c \in Calls, NEW k \in Kids, Spawn(c, k) PROVE RunnerInv'
  BY <1>2, SpawnKeepsInv
<1>3. ASSUME NEW p \in Processes, Exit(p) \/ Die(p) PROVE RunnerInv'
  BY <1>3, EndKeepsInv
<1>4. CASE UNCHANGED vars
  <2>1. UNCHANGED <<mutex, call, open, misclosed, state, holds, gone, drained, missed>>
    BY <1>4 DEF vars, os, seen
  <2>2. TypeOK' /\ ~misclosed'
    BY <2>1 DEF RunnerInv, TypeOK
  <2>3. ASSUME NEW d \in Calls PROVE Good(d)'
    <3>1. Same(d)
      BY <2>1 DEF Same
    <3> QED
      BY <3>1, SameIsGood DEF RunnerInv
  <2> QED
    BY <2>2, <2>3 DEF RunnerInv
<1> QED
  BY <1>1, <1>2, <1>3, <1>4, Zenon DEF Next, Finished

\* The locks, handles, processes and outcomes of all calls are what Run
\* relies on at each of its steps, however the calls interleave, whatever
\* their commands start and whichever system calls fail.
THEOREM RunnerInvariant == Spec => []RunnerInv
BY RunnerInit, RunnerStep, PTL DEF Spec

\* Every variable has its type.
THEOREM RunnerTypeOK == Spec => []TypeOK
<1>1. RunnerInv => TypeOK
  BY DEF RunnerInv
<1> QED
  BY <1>1, RunnerInvariant, PTL

\* No command inherits a pipe of another call: createProcessMu spans
\* everything between the creation of an inheritable handle and its closing
\* (runner_windows.go:65-72).
THEOREM PipesAreOwn == Spec => []OwnPipesOnly
<1>1. RunnerInv => OwnPipesOnly
  <2> SUFFICES ASSUME RunnerInv, NEW p \in Processes, NEW h \in holds[p]
               PROVE  h[1] = p[1]
    BY DEF OwnPipesOnly
  <2>1. p[1] \in Calls /\ p[2] \in Members /\ p = <<p[1], p[2]>>
    BY ProcessOf
  <2>2. \A g \in holds[<<p[1], p[2]>>] : g[1] = p[1]
    BY <2>1 DEF RunnerInv, Good, PipesOf
  <2> QED
    BY <2>1, <2>2
<1> QED
  BY <1>1, RunnerInvariant, PTL

\* Whichever way Run returns, nothing of the tree it started is running: the
\* process was never resumed, or is in the job, whose handle Run closes last
\* (runner_windows.go:91, 199-213).
THEOREM TreeIsDead == Spec => []ReturnedTreeIsDead
<1>1. RunnerInv => ReturnedTreeIsDead
  <2> SUFFICES ASSUME RunnerInv, NEW p \in Processes, call[p[1]].pc = "done"
               PROVE  state[p] # "running"
    BY DEF ReturnedTreeIsDead
  <2>1. p[1] \in Calls /\ p[2] \in Members /\ p = <<p[1], p[2]>>
    BY ProcessOf
  <2>2. \A k \in Members : state[<<p[1], k>>] # "running"
    BY <2>1 DEF RunnerInv, Good, TreeOf
  <2> QED
    BY <2>1, <2>2
<1> QED
  BY <1>1, RunnerInvariant, PTL

\* An Output is returned when its process has ended, unless the wait for it
\* failed, and nobody, of any call, has a copy of the write end of a pipe that
\* was read to its end.  A pipe whose read failed or was empty is not claimed to
\* be whole (runner_windows.go:177-180, 287, 308-310).
THEOREM OutputComplete == Spec => []OutputIsWhole
<1>1. RunnerInv => OutputIsWhole
  <2> SUFFICES ASSUME RunnerInv, NEW c \in Calls,
                      call[c].result \in {"ok", "timeout", "cancelled"}
               PROVE  /\ "wait" \notin missed[c] => Ended(Main(c))
                      /\ \A p \in Processes, s \in Streams \ missed[c] :
                           <<c, s>> \notin holds[p]
    BY DEF OutputIsWhole
  <2>1. ("wait" \notin missed[c] => Ended(Main(c))) /\ drained[c] = Streams
    BY DEF RunnerInv, Good, OutcomeOf, TreeOf
  <2>2. ASSUME NEW p \in Processes, NEW s \in Streams \ missed[c],
               <<c, s>> \in holds[p]
        PROVE  FALSE
    <3>1. p[1] \in Calls /\ p[2] \in Members /\ p = <<p[1], p[2]>>
      BY ProcessOf
    <3>2. /\ \A h \in holds[<<p[1], p[2]>>] : h[1] = p[1]
          /\ \A t \in drained[p[1]] \ missed[p[1]] : <<p[1], t>> \notin holds[<<p[1], p[2]>>]
      BY <3>1 DEF RunnerInv, Good, PipesOf
    <3>3. c = p[1]
      BY <2>2, <3>1, <3>2
    <3> QED
      BY <2>1, <2>2, <3>1, <3>2, <3>3
  <2> QED
    BY <2>1, <2>2
<1> QED
  BY <1>1, RunnerInvariant, PTL

\* Where the system removes what was terminated within the grace period, Run
\* reports an unconfirmed termination only after one that failed
\* (runner_windows.go:74-78, 238-246).
THEOREM UnconfirmedOnlyOnFailure ==
  ASSUME Prompt
  PROVE  Spec => []UnconfirmedHasCause
<1>1. RunnerInv => UnconfirmedHasCause
  BY DEF RunnerInv, Good, OutcomeOf, UnconfirmedHasCause
<1> QED
  BY <1>1, RunnerInvariant, PTL

\* No handle is closed twice, and none is left open but the read ends that a
\* drainPipe still reads (runner_windows.go:112-115, 169-174).
THEOREM NoHandleLeaks == Spec => []HandlesClosedOnce
<1>1. RunnerInv => HandlesClosedOnce
  <2> SUFFICES ASSUME RunnerInv, NEW c \in Calls, call[c].pc = "done"
               PROVE  open[c] \subseteq
                        {ReadEnd[s] : s \in {t \in Streams : Draining(c, t)}}
    BY DEF RunnerInv, HandlesClosedOnce
  <2>1. Good(c)
    BY DEF RunnerInv
  <2>2. CASE call[c].result = "unconfirmed"
    <3>1. open[c] = ReadEnds(Streams \ drained[c])
      BY <2>1, <2>2 DEF Good, HandlesOf
    <3>2. Streams \ drained[c] = {t \in Streams : Draining(c, t)}
      BY <2>2 DEF Draining
    <3> QED
      BY <3>1, <3>2 DEF ReadEnds
  <2>3. CASE call[c].result # "unconfirmed"
    <3>1. open[c] = {}
      BY <2>1, <2>3 DEF Good, HandlesOf
    <3> QED
      BY <3>1
  <2> QED
    BY <2>2, <2>3
<1> QED
  BY <1>1, RunnerInvariant, PTL

\* Where the wait for the exit did not fail, success is reported of a command
\* that ended by itself, with its own exit code, or with 0 when that could not
\* be read; a timeout or a cancellation never comes with an exit code
\* (runner_windows.go:177-197, 220-229).
THEOREM SuccessMeansExited == Spec => []SuccessIsReal
<1>1. RunnerInv => SuccessIsReal
  BY DEF RunnerInv, Good, OutcomeOf, Exited, SuccessIsReal
<1> QED
  BY <1>1, RunnerInvariant, PTL
=============================================================================
