------------------------------- MODULE Runner -------------------------------
(***************************************************************************)
(* Runner.Run of internal/exec/runner_windows.go: goroutines of one Brunel *)
(* process that each run a PowerShell command in a fresh Job Object, wait   *)
(* for its exit, a timeout or a cancellation, terminate the process tree    *)
(* and collect its output.  Windows hands a new process a copy of every    *)
(* inheritable handle that is open at that moment, whoever opened it; a     *)
(* pipe is at its end when no process has a copy of its write end.          *)
(*                                                                         *)
(* Kept are the handles, who inherits them, the processes of each job, the *)
(* goroutines that wait and drain, and which of the ways out a call takes. *)
(* The bytes of the output and the limits of memory are left out.          *)
(***************************************************************************)
EXTENDS FiniteSets

CONSTANTS Calls,    \* concurrent calls of Run
          NoCall,   \* nobody has createProcessMu
          Kids,     \* processes that a command may start
          Parents,  \* calls whose command may start processes
          Faulty,   \* calls whose system calls may fail, or read nothing
          Prompt    \* TRUE: what has been terminated is gone in 5 seconds

ASSUME CallAssumption == NoCall \notin Calls
ASSUME KidAssumption == "main" \notin Kids
ASSUME SwitchAssumption == /\ Parents \subseteq Calls /\ Faulty \subseteq Calls
                           /\ Prompt \in BOOLEAN

VARIABLES mutex,    \* who holds createProcessMu
          call,     \* call[c]: the goroutine that executes Run
          open,     \* open[c]: the handles of call c that Brunel has open
          misclosed,\* history: a handle was closed that was not open
          state,    \* state[p]: what the system says of process p
          holds,    \* holds[p]: the pipe write ends that p has copies of
          gone,     \* calls whose goroutine saw the exit: exitCh is closed
          drained,  \* drained[c]: the pipes whose drainPipe has delivered
          missed    \* history: missed[c]: the wait for the exit that failed,
                    \* the pipes that were not read to their end

os == <<state, holds>>
seen == <<gone, drained, missed>>
vars == <<mutex, call, open, misclosed, os, seen>>

-----------------------------------------------------------------------------
Streams == {"stdout", "stderr"}
ReadEnd == [stdout |-> "outR", stderr |-> "errR"]
WriteEnd == [stdout |-> "outW", stderr |-> "errW"]
Handles == {"job", "stdin", "outR", "outW", "errR", "errW", "proc", "thread"}
Processes == Calls \X ({"main"} \cup Kids)
Main(c) == <<c, "main">>

Steps == {"job", "limits", "lock", "stdin", "outpipe", "errpipe", "start",
          "ends", "assign", "resume", "wait", "code", "kill", "exit",
          "stdout", "stderr", "done"}

Call == [pc     : Steps,
         bound  : BOOLEAN,           \* the process is in the job
         defers : SUBSET Handles,    \* what the deferred calls will close
         err    : {"none", "timeout", "cancelled"},    \* runErr
         code   : {"unread", "own", "active", "zero"}, \* exitCode
         failed : BOOLEAN,           \* termErr # nil
         result : {"none", "ok", "timeout", "cancelled", "internal",
                   "unconfirmed"}]

\* The process is executing code, or will if its thread is resumed; it has
\* ended, by itself or because it was terminated.
Alive(p) == state[p] \in {"suspended", "running"}
Ended(p) == state[p] \in {"exited", "dead"}

\* The goroutines that outlive Run: they wait for the exit, drain a pipe.
Waiting(c) == /\ c \notin gone
              /\ call[c].pc \in {"wait", "code", "kill", "exit"}
                 \/ call[c].result = "unconfirmed"
Draining(c, s) ==
  /\ s \notin drained[c]
  /\ \/ call[c].pc \in {"wait", "code", "kill", "exit", "stdout", "stderr"}
     \/ call[c].result = "unconfirmed"

To(c, r) == call' = [call EXCEPT ![c] = r]
Goto(c, step) == To(c, [call[c] EXCEPT !.pc = step])

\* Close handles of c; a handle that is not open is misclosed.
CloseHandles(c, hs) ==
  /\ open' = [open EXCEPT ![c] = @ \ hs]
  /\ misclosed' = (misclosed \/ ~(hs \subseteq open[c]))

\* KILL_ON_JOB_CLOSE or TerminateJobObject: every process in the job goes.
Killed(c) == [p \in Processes |-> IF p[1] = c /\ Alive(p) /\ call[c].bound
                                  THEN "dying" ELSE state[p]]

\* Run returns: explicit closes, then the deferred ones, the job's last.
Return(c, result, hs) ==
  /\ To(c, [call[c] EXCEPT !.pc = "done", !.result = result, !.defers = {}])
  /\ CloseHandles(c, hs \cup call[c].defers)

Init == /\ mutex = NoCall
        /\ call = [c \in Calls |->
                     [pc |-> "job", bound |-> FALSE, defers |-> {},
                      err |-> "none", code |-> "unread", failed |-> FALSE,
                      result |-> "none"]]
        /\ open = [c \in Calls |-> {}]
        /\ misclosed = FALSE
        /\ state = [p \in Processes |-> "none"]
        /\ holds = [p \in Processes |-> {}]
        /\ gone = {}
        /\ drained = [c \in Calls |-> {}]
        /\ missed = [c \in Calls |-> {}]

-----------------------------------------------------------------------------
(* Before the process: each step opens handles and may put their closing    *)
(* off to the return; when it fails, Run closes hs itself and returns.      *)

Setup(c, step, new, deferred, next) ==
  /\ call[c].pc = step
  /\ open' = [open EXCEPT ![c] = @ \cup new]
  /\ To(c, [call[c] EXCEPT !.pc = next, !.defers = @ \cup deferred])
  /\ UNCHANGED <<mutex, misclosed, os, seen>>

SetupFails(c, step, hs) ==
  /\ c \in Faulty
  /\ call[c].pc = step
  /\ Return(c, "internal", hs)
  /\ mutex' = IF mutex = c THEN NoCall ELSE mutex
  /\ UNCHANGED <<os, seen>>

CreateJob(c) == Setup(c, "job", {"job"}, {"job"}, "limits")
                \/ SetupFails(c, "job", {})
SetLimits(c) == Setup(c, "limits", {}, {}, "lock")
                \/ SetupFails(c, "limits", {})

\* Mutant of Lock: createProcessMu of each Runner, not of the process.
LockOwn(c) == /\ call[c].pc = "lock"
              /\ Goto(c, "stdin")
              /\ UNCHANGED <<mutex, open, misclosed, os, seen>>

Lock(c) == /\ call[c].pc = "lock"
           /\ mutex = NoCall
           /\ mutex' = c
           /\ Goto(c, "stdin")
           /\ UNCHANGED <<open, misclosed, os, seen>>

OpenNul(c) == Setup(c, "stdin", {"stdin"}, {}, "outpipe")
              \/ SetupFails(c, "stdin", {})
OutputPipe(c) == Setup(c, "outpipe", {"outR", "outW"}, {"outR"}, "errpipe")
                 \/ SetupFails(c, "outpipe", {"stdin"})
ErrorPipe(c) == Setup(c, "errpipe", {"errR", "errW"}, {"errR"}, "start")
                \/ SetupFails(c, "errpipe", {"stdin", "outW"})

\* Mutant of Inheritable: the read ends too (createOutputPipe leaves them so).
InheritableBothEnds ==
  {h \in Calls \X Streams : WriteEnd[h[2]] \in open[h[1]]}
  \cup {h \in Calls \X {"outR", "errR"} : h[2] \in open[h[1]]}

\* CreateProcess, suspended: the child gets every inheritable handle there
\* is, the write ends of other calls among them.
Inheritable == {h \in Calls \X Streams : WriteEnd[h[2]] \in open[h[1]]}

StartSuspended(c) ==
  /\ call[c].pc = "start"
  /\ state' = [state EXCEPT ![Main(c)] = "suspended"]
  /\ holds' = [holds EXCEPT ![Main(c)] = Inheritable]
  /\ open' = [open EXCEPT ![c] = @ \cup {"proc", "thread"}]
  /\ To(c, [call[c] EXCEPT !.pc = "ends", !.defers = @ \cup {"proc"}])
  /\ UNCHANGED <<mutex, misclosed, seen>>

StartFails(c) ==
  /\ c \in Faulty
  /\ call[c].pc = "start"
  /\ Goto(c, "ends")
  /\ UNCHANGED <<mutex, open, misclosed, os, seen>>

\* The parent's copies are closed, whatever happened, and the lock let go.
CloseChildEnds(c) ==
  LET ends == {"stdin", "outW", "errW"} IN
  /\ call[c].pc = "ends"
  /\ mutex' = NoCall
  /\ IF state[Main(c)] = "none"
     THEN Return(c, "internal", ends)
     ELSE CloseHandles(c, ends) /\ Goto(c, "assign")
  /\ UNCHANGED <<os, seen>>

-----------------------------------------------------------------------------
(* The suspended process enters the job and starts.                         *)

Assign(c) ==
  /\ call[c].pc = "assign"
  /\ To(c, [call[c] EXCEPT !.pc = "resume", !.bound = TRUE])
  /\ UNCHANGED <<mutex, open, misclosed, os, seen>>

\* Outside the job only TerminateProcess reaches it, and that may fail too.
AssignFails(c) ==
  /\ c \in Faulty
  /\ call[c].pc = "assign"
  /\ state' \in {state, [state EXCEPT ![Main(c)] = "dying"]}
  /\ Return(c, "internal", {"thread"})
  /\ UNCHANGED <<mutex, holds, seen>>

\* Mutant of Resume: Run goes on closing the read ends it gave away.
ResumeKeepsEnds(c) ==
  /\ call[c].pc = "resume"
  /\ state' = [state EXCEPT ![Main(c)] = "running"]
  /\ Goto(c, "wait")
  /\ CloseHandles(c, {"thread"})
  /\ UNCHANGED <<mutex, holds, seen>>

\* The thread runs; drainPipe takes over the read ends.
Resume(c) ==
  /\ call[c].pc = "resume"
  /\ state' = [state EXCEPT ![Main(c)] = "running"]
  /\ To(c, [call[c] EXCEPT !.pc = "wait", !.defers = @ \ {"outR", "errR"}])
  /\ CloseHandles(c, {"thread"})
  /\ UNCHANGED <<mutex, holds, seen>>

\* The job is terminated, and closed: one of the two kills the process.
ResumeFails(c) ==
  /\ c \in Faulty
  /\ call[c].pc = "resume"
  /\ state' = Killed(c)
  /\ Return(c, "internal", {"thread"})
  /\ UNCHANGED <<mutex, holds, seen>>

-----------------------------------------------------------------------------
(* The wait and the end.                                                    *)

WaitExit(c) ==
  /\ call[c].pc = "wait" /\ c \in gone
  /\ Goto(c, "code")
  /\ UNCHANGED <<mutex, open, misclosed, os, seen>>

WaitEnds(c, err) ==
  /\ call[c].pc = "wait"
  /\ To(c, [call[c] EXCEPT !.pc = "kill", !.err = err])
  /\ UNCHANGED <<mutex, open, misclosed, os, seen>>

\* Mutant of WaitTimeout: runErr is not set when the timer fires.
WaitTimeoutForgotten(c) == WaitEnds(c, "none")

WaitTimeout(c) == WaitEnds(c, "timeout")
WaitCancelled(c) == WaitEnds(c, "cancelled")

\* GetExitCodeProcess: STILL_ACTIVE of a process that has not ended; when it
\* fails exitCode keeps its initial value, which is 0.
GetExitCode(c) ==
  /\ call[c].pc = "code"
  /\ \E code \in {IF Ended(Main(c)) THEN "own" ELSE "active"}
                 \cup (IF c \in Faulty THEN {"zero"} ELSE {}) :
       To(c, [call[c] EXCEPT !.pc = "kill", !.code = code])
  /\ UNCHANGED <<mutex, open, misclosed, os, seen>>

\* Mutant of TerminateTree: not after a normal exit.
TerminateTreeUnlessExited(c) ==
  /\ call[c].pc = "kill"
  /\ state' = IF call[c].err = "none" THEN state ELSE Killed(c)
  /\ Goto(c, "exit")
  /\ UNCHANGED <<mutex, open, misclosed, holds, seen>>

\* TerminateJobObject, on every way out.
TerminateTree(c) ==
  /\ call[c].pc = "kill"
  /\ state' = Killed(c)
  /\ Goto(c, "exit")
  /\ UNCHANGED <<mutex, open, misclosed, holds, seen>>

\* When it fails, TerminateProcess takes the process Run started, or fails.
TerminateTreeFails(c) ==
  /\ c \in Faulty
  /\ call[c].pc = "kill"
  /\ \/ UNCHANGED state
     \/ /\ state[Main(c)] = "running"
        /\ state' = [state EXCEPT ![Main(c)] = "dying"]
  /\ To(c, [call[c] EXCEPT !.pc = "exit", !.failed = TRUE])
  /\ UNCHANGED <<mutex, open, misclosed, holds, seen>>

\* waitForExitAndOutput: the exit, then stdout, then stderr.
ExitSeen(c) ==
  /\ call[c].pc = "exit" /\ c \in gone
  /\ Goto(c, "stdout")
  /\ UNCHANGED <<mutex, open, misclosed, os, seen>>

OutputSeen(c) ==
  /\ call[c].pc = "stdout" /\ "stdout" \in drained[c]
  /\ Goto(c, "stderr")
  /\ UNCHANGED <<mutex, open, misclosed, os, seen>>

\* Mutant of ReturnOutput: stderr is taken as it is.
ReturnOutputEarly(c) ==
  /\ call[c].pc = "stderr"
  /\ Return(c, IF call[c].err = "none" THEN "ok" ELSE call[c].err, {})
  /\ state' = Killed(c)
  /\ UNCHANGED <<mutex, holds, seen>>

ReturnOutput(c) ==
  /\ call[c].pc = "stderr" /\ "stderr" \in drained[c]
  /\ Return(c, IF call[c].err = "none" THEN "ok" ELSE call[c].err, {})
  /\ state' = Killed(c)
  /\ UNCHANGED <<mutex, holds, seen>>

\* What call c waits for is on its way: its process or the processes that
\* have the pipe open have exited or been terminated.
Coming(c) ==
  \/ call[c].pc = "exit" /\ ~Alive(Main(c))
  \/ /\ call[c].pc \in Streams
     /\ \A p \in Processes : <<c, call[c].pc>> \in holds[p] => ~Alive(p)

\* Mutant of GraceExpires: no deadline.
GraceExpiresNever(c) == FALSE

\* Mutant of GraceExpires: the job handle is not closed on this way out.
GraceExpiresKeepsJob(c) ==
  /\ call[c].pc \in {"exit", "stdout", "stderr"}
  /\ Prompt => ~Coming(c)
  /\ To(c, [call[c] EXCEPT !.pc = "done", !.result = "unconfirmed"])
  /\ UNCHANGED <<mutex, open, misclosed, os, seen>>

\* The grace period is over: Run returns without the output.
GraceExpires(c) ==
  /\ call[c].pc \in {"exit", "stdout", "stderr"}
  /\ Prompt => ~Coming(c)
  /\ Return(c, "unconfirmed", {})
  /\ state' = Killed(c)
  /\ UNCHANGED <<mutex, holds, seen>>

-----------------------------------------------------------------------------
(* The goroutines of a call.                                                *)

\* WaitForSingleObject returns when the process has exited, or fails; what it
\* returned is not looked at.
SeeExit(c) ==
  /\ Waiting(c)
  /\ \/ Ended(Main(c)) /\ UNCHANGED missed
     \/ /\ c \in Faulty /\ ~Ended(Main(c))
        /\ missed' = [missed EXCEPT ![c] = @ \cup {"wait"}]
  /\ gone' = gone \cup {c}
  /\ UNCHANGED <<mutex, call, open, misclosed, os, drained>>

AtEnd(c, s) == /\ WriteEnd[s] \notin open[c]
               /\ \A p \in Processes : <<c, s>> \notin holds[p]

\* drainPipe reads until every copy of the write end is closed, or until a read
\* returns nothing: it failed, or a process of the tree wrote no bytes.
DrainPipe(c, s) ==
  /\ Draining(c, s)
  /\ \/ AtEnd(c, s) /\ UNCHANGED missed
     \/ /\ c \in Faulty /\ ~AtEnd(c, s)
        /\ missed' = [missed EXCEPT ![c] = @ \cup {s}]
  /\ CloseHandles(c, {ReadEnd[s]})
  /\ drained' = [drained EXCEPT ![c] = @ \cup {s}]
  /\ UNCHANGED <<mutex, call, os, gone>>

-----------------------------------------------------------------------------
(* The system and the command.                                              *)

\* A running process starts another, in the same job, with its handles, or
\* with its standard output redirected to somewhere else.
Spawn(c, k) ==
  /\ c \in Parents
  /\ state[Main(c)] = "running" /\ state[<<c, k>>] = "none"
  /\ state' = [state EXCEPT ![<<c, k>>] = "running"]
  /\ \E kept \in {Streams, {"stderr"}} :
       holds' = [holds EXCEPT ![<<c, k>>] =
                   {h \in holds[Main(c)] : h[2] \in kept}]
  /\ UNCHANGED <<mutex, call, open, misclosed, seen>>

\* A process ends by itself.
Exit(p) ==
  /\ state[p] = "running"
  /\ state' = [state EXCEPT ![p] = "exited"]
  /\ holds' = [holds EXCEPT ![p] = {}]
  /\ UNCHANGED <<mutex, call, open, misclosed, seen>>

\* A process that was terminated is gone.
Die(p) ==
  /\ state[p] = "dying"
  /\ state' = [state EXCEPT ![p] = "dead"]
  /\ holds' = [holds EXCEPT ![p] = {}]
  /\ UNCHANGED <<mutex, call, open, misclosed, seen>>

\* Every call has returned and none of their goroutines is left.
Finished ==
  /\ \A c \in Calls : call[c].pc = "done" /\ ~Waiting(c)
  /\ \A c \in Calls, s \in Streams : ~Draining(c, s)
  /\ UNCHANGED vars

Run(c) == \/ CreateJob(c) \/ SetLimits(c) \/ Lock(c) \/ OpenNul(c)
          \/ OutputPipe(c) \/ ErrorPipe(c) \/ StartSuspended(c)
          \/ StartFails(c) \/ CloseChildEnds(c) \/ Assign(c)
          \/ AssignFails(c) \/ Resume(c) \/ ResumeFails(c)
          \/ WaitExit(c) \/ WaitTimeout(c) \/ WaitCancelled(c)
          \/ GetExitCode(c) \/ TerminateTree(c) \/ TerminateTreeFails(c)
          \/ ExitSeen(c) \/ OutputSeen(c) \/ ReturnOutput(c)
          \/ GraceExpires(c)
Goroutines(c) == SeeExit(c) \/ \E s \in Streams : DrainPipe(c, s)

Next == \/ \E c \in Calls : Run(c) \/ Goroutines(c)
        \/ \E c \in Calls, k \in Kids : Spawn(c, k)
        \/ \E p \in Processes : Exit(p) \/ Die(p)
        \/ Finished

Spec == Init /\ [][Next]_vars

=============================================================================
