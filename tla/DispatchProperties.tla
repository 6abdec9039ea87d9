------------------------- MODULE DispatchProperties -------------------------
(* What a tool call promises, stated over module ToolDispatch.             *)
EXTENDS ToolDispatch

\* Every variable has its type.
TypeOK == /\ host \in [mode: {"unset", "workspace", "readonly", "other"},
                       pwsh: BOOLEAN]
          /\ root \in Dirs \cup {Link, Gone}
          /\ sub \in {"plain", "link"}
          /\ call \in [Calls -> Call]
          /\ moved \subseteq Calls

\* The file tools write nothing and no command is created, however the call
\* ends, unless BRUNEL_MODE says workspace and, for a command, there is no need
\* of a confirmation that nobody could give (taylor-tools.ts brunelMode, gate.go
\* Decide, main.go without an approver).  Of workspace_diff, which starts git
\* in every mode, this says nothing.
OnlyAllowedEffects ==
  \A c \in Calls :
    host.mode # "workspace" \/ call[c].risk = "confirm" =>
      call[c].effect = Nowhere /\ call[c].cmd = "none"

\* A call whose answer is a refusal has no effect and will have none
\* (registry.go Call and gate.go: the decision comes before any access;
\* workspace_windows.go Resolve: so does the check of the path).  E_IO and
\* E_RUN promise nothing of the kind.
RefusalMeansNoEffect ==
  \A c \in Calls :
    call[c].answer \in Refusals =>
      call[c].effect = Nowhere /\ call[c].cmd \in {"none", "dead"}

\* A mutating call that is answered with success, even one that was aborted,
\* has had its effect and has ended.
OkMeansDone ==
  \A c \in Calls :
    call[c].answer = "ok" /\ call[c].tool \in MutatingTools =>
      call[c].effect # Nowhere /\ call[c].cmd \in {"none", "dead"}

\* A call takes effect in the directory it bound, unless that directory or
\* the path was moved after the call had begun to resolve it.
EffectWhereBound ==
  \A c \in Calls \ moved :
    call[c].effect \in {Nowhere, call[c].bound}

\* When the process of a call is gone, by itself or because it was killed at
\* any point, or when its response has been read, its command is not running
\* (docs/spec.md:393, INV-7).  The git of workspace_diff is in no job and is
\* outside this.
NoOrphanRuns ==
  \A c \in Calls :
    At(c, "gone") \/ call[c].answer \notin {"none", "raw"} =>
      call[c].cmd # "running"

-----------------------------------------------------------------------------
(* Liveness.  Processes are scheduled, a process that was terminated goes,  *)
(* and a command ends, at its time limit if not before.  Neither an abort   *)
(* nor a crash has to happen, and the root may be moved for ever.           *)

FairSpec == /\ Spec
            /\ \A c \in Calls : WF_vars(Process(c)) /\ WF_vars(Killed(c))

\* A call that has been started is answered, and its process and its command
\* end.  Of a call to workspace_diff, whose git may leave a process that keeps
\* its output open, this says nothing.
CallEnds == \A c \in Calls : Alive(c) ~> Ended(c) /\ call[c].cmd # "running"
=============================================================================
