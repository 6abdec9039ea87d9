---------------------------- MODULE ToolDispatch ----------------------------
(***************************************************************************)
(* One tool call from the extension in Pi (taylor-tools.ts) to the brunel  *)
(* process it starts for that call (cmd/brunel/main.go, internal/tools,    *)
(* internal/safety, internal/workspace) and back.  The extension reads     *)
(* BRUNEL_MODE, starts the process, sends the parameters and waits for one *)
(* response; the signal of the call may end the wait at any time and kills *)
(* the process.  The process binds the workspace, decodes the parameters,  *)
(* asks the safety gate, resolves the path and does the I/O.  Meanwhile    *)
(* somebody may move, replace or remove the workspace directory and put    *)
(* junctions in it.                                                        *)
(*                                                                         *)
(* What a file tool does between its first and its last system call is     *)
(* module FileTools; what Runner.Run does around the command is module     *)
(* Runner.  Here the first is one step and the second is reduced to the    *)
(* three steps that matter when the process is killed: the command is      *)
(* created suspended, put in the job and resumed.                          *)
(*                                                                         *)
(* workspace_diff is not modelled: it is no read of the workspace by this  *)
(* process but starts git, outside any job, and git may refresh its index, *)
(* start programs it is configured with and outlive the call.              *)
(***************************************************************************)
EXTENDS Naturals, FiniteSets

CONSTANTS Calls,    \* the tool calls of the model
          Tools,    \* the tools it uses, of the seven that are modelled
          Dirs,     \* identities of directories that may be at the root path
          Gone, Link \* the root path is empty, or a junction to elsewhere

MutatingTools == {"apply_patch", "create_file", "write_file", "run_powershell"}
ReadonlyTools == {"list_files", "search_text", "read_file", "workspace_diff"}

ASSUME ToolsAssumption ==
  Tools \subseteq MutatingTools \cup (ReadonlyTools \ {"workspace_diff"})
ASSUME DirsAssumption == Gone \notin Dirs /\ Link \notin Dirs /\ Gone # Link

\* Codes that say that a call was turned down before any I/O.
Refusals == {"E_INVALID_ARGUMENT", "E_WORKSPACE_INVALID", "E_READONLY_MODE",
             "E_APPROVAL_REQUIRED_NO_TTY", "E_WORKSPACE_UNBOUND",
             "E_PATH_ESCAPE", "E_PWSH_REQUIRED"}
\* "E_IO" stands for the codes of filetools and tools for I/O, "E_RUN" for
\* those of exec once the command may have run.
Responses == {"ok", "E_IO", "E_RUN"} \cup Refusals
VARIABLES
  host,   \* BRUNEL_MODE, and is there a pwsh on PATH
  root,   \* what is at the root path: a directory, a junction or nothing
  sub,    \* the component that paths name: "plain", or a "link" to elsewhere
  call,   \* per call: the extension's view, the process and its command
  moved   \* calls that have a root or path moved after they checked it

vars == <<host, root, sub, call, moved>>

\* A place in the file system: a path, and the directory that is its root.
Places == [path: {"none", "root", "else", "out"}, id: Dirs \cup {Link, Gone}]
Nowhere == [path |-> "none", id |-> Gone]
Bound == [path: {"root"}, id: Dirs] \cup [path: {"else"}, id: {Link}]

\* A call: what the model asked for, where its process is ("idle" before it
\* starts, "gone" when it is no more), and what the extension has made of it.
Steps == {"idle", "stdin", "bind", "decode", "decide", "ensure", "contain",
          "io", "pwsh", "create", "assign", "resume", "wait", "write",
          "exit", "gone"}
Call == [tool: Tools, risk: {"auto", "confirm"}, open: BOOLEAN,
         mode: {"workspace", "readonly"}, pc: Steps,
         bound: Bound \cup {Nowhere}, job: BOOLEAN,
         cmd: {"none", "suspended", "running", "dead"},
         response: {"none"} \cup Responses, killed: BOOLEAN,
         answer: {"none", "raw"} \cup Responses, effect: Places]

\* Where a path leads now, and which directory is the root of it.
Final(path) == IF path = "root" /\ root = Link THEN "else" ELSE path
IdAt(path) == IF Final(path) = "else" THEN Link ELSE root
Here(path) == [path |-> IF sub = "link" THEN "out" ELSE Final(path),
               id |-> IdAt(path)]

Fresh == [tool: Tools, risk: {"auto", "confirm"}, open: {FALSE},
          mode: {"workspace"}, pc: {"idle"}, bound: {Nowhere}, job: {FALSE},
          cmd: {"none"}, response: {"none"}, killed: {FALSE}, answer: {"none"},
          effect: {Nowhere}]

\* Only a command has a risk (classify); what the text is is left out.
Init == /\ host \in [mode: {"unset", "workspace", "readonly", "other"},
                     pwsh: BOOLEAN]
        /\ root \in Dirs \cup {Link, Gone}
        /\ sub \in {"plain", "link"}
        /\ call \in [Calls -> {r \in Fresh :
                       r.tool # "run_powershell" => r.risk = "auto"}]
        /\ moved = {}

At(c, step) == call[c].pc = step
Alive(c) == call[c].pc \notin {"idle", "gone"}
To(c, r) == call' = [call EXCEPT ![c] = r] /\ UNCHANGED <<host, root, sub, moved>>
Goto(c, step) == To(c, [call[c] EXCEPT !.pc = step])
Respond(c, code) == To(c, [call[c] EXCEPT !.pc = "write", !.response = code])

-----------------------------------------------------------------------------
(* The extension.                                                           *)

\* Mutant of Mode: a spawner that forgets BRUNEL_MODE gets full access.
ModeOpen == IF host.mode \in {"unset", "workspace"} THEN "workspace"
            ELSE "readonly"

\* brunelMode: no BRUNEL_MODE means readonly.
Mode == IF host.mode = "workspace" THEN "workspace" ELSE "readonly"

\* Mutant of Invoke: the parameters are written, stdin is left open.
InvokeKeepsStdin(c) ==
  /\ At(c, "idle") /\ call[c].answer = "none" /\ host.mode # "other"
  /\ To(c, [call[c] EXCEPT !.pc = "stdin", !.mode = Mode, !.open = TRUE])

\* invokeTool: start brunel, write the parameters and end its stdin.
Invoke(c) ==
  /\ At(c, "idle") /\ call[c].answer = "none" /\ host.mode # "other"
  /\ To(c, [call[c] EXCEPT !.pc = "stdin", !.mode = Mode])

\* brunelMode throws on a value it does not know; no process is started.
InvokeThrows(c) ==
  /\ At(c, "idle") /\ call[c].answer = "none" /\ host.mode = "other"
  /\ To(c, [call[c] EXCEPT !.answer = "raw"])

\* What can be recovered of the process's stdout: all of it or nothing.
Recovered(c) == {"raw"} \cup (IF At(c, "exit") THEN {call[c].response} ELSE {})

\* The signal: the process is told to end and the call rejects; a response
\* that has arrived whole is used all the same.
Abort(c) ==
  /\ Alive(c) /\ call[c].answer = "none"
  /\ \E a \in Recovered(c) : To(c, [call[c] EXCEPT !.answer = a, !.killed = TRUE])

\* The process is gone and the handle of its job is closed, which kills
\* what is in the job; the extension, if it still waits, takes the answer.
Gather(c, answers) ==
  \E a \in answers :
    To(c, [call[c] EXCEPT !.pc = "gone",
             !.cmd = IF call[c].job THEN "dead" ELSE @,
             !.answer = IF @ = "none" THEN a ELSE @])

\* The process has ended with its response written.  An exit code of 1 makes
\* no difference; more output than maxBuffer is an error of its own.
Answer(c) ==
  /\ At(c, "exit")
  /\ Gather(c, {call[c].response} \cup (IF call[c].tool \in ReadonlyTools
                                       THEN {"raw"} ELSE {}))

\* The process ends before its time.
Die(c) == Alive(c) /\ Gather(c, Recovered(c))
Killed(c) == call[c].killed /\ Die(c)
Crash(c) == ~call[c].killed /\ Die(c)

-----------------------------------------------------------------------------
(* The process: main.go, registry.go, gate.go, workspace_windows.go.        *)

ReadStdin(c) == At(c, "stdin") /\ ~call[c].open /\ Goto(c, "bind")

\* Mutant of Bind: whether there is a directory is left to the first access.
BindAnything(c) ==
  /\ At(c, "bind")
  /\ To(c, [call[c] EXCEPT !.pc = "decode",
              !.bound = [path |-> Final("root"), id |-> root]])

\* Bind follows a junction at the root path and binds where it leads.
Bind(c) ==
  /\ At(c, "bind")
  /\ IF root = Gone
     THEN Respond(c, "E_WORKSPACE_INVALID")
     ELSE To(c, [call[c] EXCEPT !.pc = "decode",
                   !.bound = [path |-> Final("root"), id |-> root]])

\* decodeParams and validate...Params: the parameters pass, or they do not.
Decode(c) ==
  /\ At(c, "decode")
  /\ Goto(c, "decide") \/ Respond(c, "E_INVALID_ARGUMENT")

\* Gate.Decide; main.go gives it no approver.
Decide(c) ==
  LET readonly == call[c].mode = "readonly" /\ call[c].tool \in MutatingTools
  IN /\ At(c, "decide")
     /\ \/ readonly /\ Respond(c, "E_READONLY_MODE")
        \/ ~readonly /\ call[c].risk = "auto" /\ Goto(c, "ensure")
        \/ /\ ~readonly /\ call[c].risk = "confirm"
           /\ Respond(c, "E_APPROVAL_REQUIRED_NO_TTY")

\* Mutant of EnsureBound: the final path is compared, the identity is not.
EnsureBoundByPath(c) ==
  /\ At(c, "ensure")
  /\ IF Final(call[c].bound.path) = call[c].bound.path /\ root # Gone
     THEN Goto(c, "contain")
     ELSE Respond(c, "E_WORKSPACE_UNBOUND")

\* Resolve, first half: the root is the directory that was bound.
EnsureBound(c) ==
  LET b == call[c].bound IN
  /\ At(c, "ensure")
  /\ IF Final(b.path) = b.path /\ IdAt(b.path) = b.id
     THEN Goto(c, "contain")
     ELSE Respond(c, "E_WORKSPACE_UNBOUND")

\* Mutant of Contain: the file is opened first and its handle is checked.
ContainLate(c) ==
  LET here == Here(call[c].bound.path) IN
  /\ At(c, "contain")
  /\ IF here.path = call[c].bound.path /\ here.id # Gone
     THEN Goto(c, IF call[c].tool = "run_powershell" THEN "pwsh" ELSE "io")
     ELSE To(c, [call[c] EXCEPT !.pc = "write", !.response = "E_PATH_ESCAPE",
                   !.effect = IF call[c].tool \in MutatingTools THEN here ELSE @])

\* Resolve, second half: what the path leads to is below the root's path.
\* The identity of the root is not looked at again.
Contain(c) ==
  LET here == Here(call[c].bound.path) IN
  /\ At(c, "contain")
  /\ IF here.path = call[c].bound.path /\ here.id # Gone
     THEN Goto(c, IF call[c].tool = "run_powershell" THEN "pwsh" ELSE "io")
     ELSE Respond(c, "E_PATH_ESCAPE")

\* Mutant of FileIO: the error is dropped.
FileIODropped(c) == At(c, "io") /\ Respond(c, "ok")

\* The I/O of a file tool (module FileTools) or of a search.  An error comes
\* without an effect, except that a replace that fails in ReplaceFileW may have
\* taken the old file away.
FileIO(c) ==
  LET here == Here(call[c].bound.path)
      codes == IF call[c].tool \in {"write_file", "apply_patch"} THEN {"ok", "E_IO"}
                                                               ELSE {"ok"}
  IN /\ At(c, "io")
     /\ \/ Respond(c, "E_IO")
        \/ /\ here.id # Gone
           /\ \E code \in codes :
                To(c, [call[c] EXCEPT !.pc = "write", !.response = code,
                         !.effect = IF call[c].tool \in MutatingTools THEN here
                                                                      ELSE @])

\* NewRunner found no pwsh: callRunPowerShell fails, late.
NoPwsh(c) == At(c, "pwsh") /\ ~host.pwsh /\ Respond(c, "E_PWSH_REQUIRED")

\* Mutant of CreateCommand: without CREATE_SUSPENDED.
CreateCommandRunning(c) ==
  /\ At(c, "pwsh") /\ host.pwsh
  /\ To(c, [call[c] EXCEPT !.pc = "assign", !.cmd = "running",
              !.effect = Here(call[c].bound.path)])

CreateCommand(c) ==
  /\ At(c, "pwsh") /\ host.pwsh
  /\ \/ Respond(c, "E_RUN")
     \/ To(c, [call[c] EXCEPT !.pc = "assign", !.cmd = "suspended"])

\* The process enters the job, or is terminated.
Assign(c) ==
  /\ At(c, "assign")
  /\ \/ To(c, [call[c] EXCEPT !.pc = "resume", !.job = TRUE])
     \/ To(c, [call[c] EXCEPT !.pc = "write", !.response = "E_RUN", !.cmd = "dead"])

\* From here on the command does what it does, where its directory is.
Resume(c) ==
  /\ At(c, "resume")
  /\ \/ To(c, [call[c] EXCEPT !.pc = "write", !.response = "E_RUN", !.cmd = "dead"])
     \/ To(c, [call[c] EXCEPT !.pc = "wait", !.cmd = "running",
                 !.effect = Here(call[c].bound.path)])

\* The command exits or its time is up; either way its tree is terminated.
CommandEnds(c) ==
  /\ At(c, "wait")
  /\ \E code \in {"ok", "E_RUN"} :
       To(c, [call[c] EXCEPT !.pc = "write", !.response = code, !.cmd = "dead"])

WriteResponse(c) == At(c, "write") /\ Goto(c, "exit")

-----------------------------------------------------------------------------
(* Somebody moves, replaces or removes the root, or puts a junction where   *)
(* the paths of the calls lead through.                                     *)

Move ==
  /\ \/ root' \in (Dirs \cup {Link, Gone}) \ {root} /\ UNCHANGED sub
     \/ sub' \in {"plain", "link"} \ {sub} /\ UNCHANGED root
  /\ moved' = moved \cup {c \in Calls : ~At(c, "idle")
                           /\ call[c].pc \notin {"stdin", "bind", "decode",
                                                 "decide", "ensure"}}
  /\ UNCHANGED <<host, call>>

Ended(c) == call[c].answer # "none" /\ ~Alive(c)

Finished == /\ \A c \in Calls : Ended(c)
            /\ UNCHANGED vars

Process(c) == \/ ReadStdin(c) \/ Bind(c) \/ Decode(c) \/ Decide(c)
              \/ EnsureBound(c) \/ Contain(c) \/ FileIO(c) \/ NoPwsh(c)
              \/ CreateCommand(c) \/ Assign(c) \/ Resume(c) \/ CommandEnds(c)
              \/ WriteResponse(c) \/ Answer(c) \/ Killed(c)
Extension(c) == Invoke(c) \/ InvokeThrows(c) \/ Abort(c)

Next == \/ \E c \in Calls : Process(c) \/ Extension(c) \/ Crash(c)
        \/ Move
        \/ Finished

Spec == Init /\ [][Next]_vars

=============================================================================
