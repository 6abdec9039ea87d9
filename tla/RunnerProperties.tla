--------------------------- MODULE RunnerProperties ---------------------------
(* What Runner.Run promises, stated over module Runner.                     *)
EXTENDS Runner

\* Every variable has its type.
TypeOK == /\ mutex \in Calls \cup {NoCall}
          /\ call \in [Calls -> Call]
          /\ open \in [Calls -> SUBSET Handles]
          /\ misclosed \in BOOLEAN
          /\ state \in [Processes -> {"none", "suspended", "running",
                                      "dying", "exited", "dead"}]
          /\ holds \in [Processes -> SUBSET (Calls \X Streams)]
          /\ gone \subseteq Calls
          /\ drained \in [Calls -> SUBSET Streams]
          /\ missed \in [Calls -> SUBSET ({"wait"} \cup Streams)]

\* No command gets a copy of a pipe of another call (the comment on
\* createProcessMu, runner_windows.go:65-72): a process that keeps one open
\* would keep the other call from seeing the end of its output.
OwnPipesOnly ==
  \A p \in Processes : \A h \in holds[p] : h[1] = p[1]

\* When Run has returned, no process of its tree is running, even if the
\* TerminateJobObject and TerminateProcess it tried both failed
\* (runner_windows.go:91, 199-213).
ReturnedTreeIsDead ==
  \A p \in Processes : call[p[1]].pc = "done" => state[p] # "running"

\* An Output is returned only when the process has exited, unless the wait for
\* it failed, and when nobody can write to a pipe any more that was read to its
\* end: of that pipe it is all there will be (runner_windows.go:268-310).
OutputIsWhole ==
  \A c \in Calls :
    call[c].result \in {"ok", "timeout", "cancelled"} =>
      /\ "wait" \notin missed[c] => Ended(Main(c))
      /\ \A p \in Processes, s \in Streams \ missed[c] :
           <<c, s>> \notin holds[p]

\* The grace period runs out only after a termination that failed
\* (runner_windows.go:74-78, 238-246).
UnconfirmedHasCause ==
  \A c \in Calls : call[c].result = "unconfirmed" => call[c].failed

\* Each handle is closed exactly once: by Run, by its deferred calls or by
\* the drainPipe that has taken it over (runner_windows.go:112-115, 169-174).
HandlesClosedOnce ==
  /\ ~misclosed
  /\ \A c \in Calls :
       call[c].pc = "done" =>
         open[c] \subseteq {ReadEnd[s] : s \in {t \in Streams : Draining(c, t)}}

\* A call that reports success has looked at the exit code, and if its wait for
\* the exit did not fail, the command had ended by itself by then: the code is
\* the command's own, never the 1 of a termination by Run, or the 0 that stands
\* for a code that cannot be read (not the -1 that runner_windows.go:196
\* speaks of).  A call that reports a timeout or a cancellation has taken no
\* exit code for it (runner_windows.go:177-197, 220-229).
SuccessIsReal ==
  \A c \in Calls :
    /\ call[c].result = "ok" /\ "wait" \notin missed[c] =>
         state[Main(c)] = "exited" /\ call[c].code \in {"own", "zero"}
    /\ call[c].result = "ok" => call[c].code # "unread"
    /\ call[c].result \in {"timeout", "cancelled"} => call[c].code = "unread"

-----------------------------------------------------------------------------
(* Liveness.  Goroutines are scheduled, timers fire, and what is terminated  *)
(* goes.  Nothing is assumed of the commands: they may run for ever.  No     *)
(* wait and no read has to fail.  One condition does for all of these steps: *)
(* a behaviour has finitely many.                                            *)

Progress == \/ \E c \in Calls : (Run(c) \/ Goroutines(c)) /\ UNCHANGED missed
            \/ \E p \in Processes : Die(p)

FairSpec == Spec /\ WF_vars(Progress)

\* Every call of Run returns, whatever its command does and whatever fails.
RunReturns == \A c \in Calls : <>(call[c].pc = "done")
=============================================================================
