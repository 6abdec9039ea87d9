---------------------------- MODULE DispatchProofs ----------------------------
(* Proofs about the tool call, for any number of calls of any of the tools  *)
(* and any directories that may be moved to the root.                       *)
EXTENDS DispatchProperties, TLAPS

-----------------------------------------------------------------------------
(* The inductive invariant.  A step of a call changes that call only, so it *)
(* is stated of a call c in the state r.                                    *)

Early == {"idle", "stdin", "bind", "decode", "decide", "ensure", "contain",
          "io", "pwsh"}
Late == {"ensure", "contain", "io", "pwsh", "assign", "resume", "wait"}
Commanding == {"pwsh", "assign", "resume", "wait"}
Resolved == {"io", "pwsh", "assign", "resume"}

\* The gate lets the call pass.
Passed(r) == /\ r.mode = "workspace" \/ r.tool \notin MutatingTools
             /\ r.risk = "auto"

\* The mode is that of the extension, which starts nothing in another one.
ModeIsGiven(r) == r.pc # "idle" => r.mode = Mode

\* What has been decided on, and for which tool it is.
Decided(r) == /\ r.pc \in Late => Passed(r)
              /\ r.pc \in Commanding => r.tool = "run_powershell"
              /\ r.effect # Nowhere \/ r.cmd # "none" =>
                   Passed(r) /\ r.pc # "idle" /\ r.tool \in MutatingTools

\* How far the command is.
CommandAt(r) ==
  /\ r.pc \in Early => r.effect = Nowhere /\ r.cmd = "none"
  /\ r.pc \in {"assign", "resume"} => r.effect = Nowhere /\ r.cmd = "suspended"
  /\ r.pc \in {"resume", "wait"} => r.job
  /\ r.job => r.cmd # "none"
  /\ r.pc = "wait" => r.effect # Nowhere
  /\ r.pc \in {"write", "exit"} => r.response # "none"
  /\ r.cmd = "running" => r.pc = "wait"

\* What the response says.
Responded(r) ==
  r.response # "none" =>
    /\ r.pc \in {"write", "exit", "gone"} /\ r.cmd \in {"none", "dead"}
    /\ r.response \in Refusals => r.effect = Nowhere
    /\ r.response = "ok" /\ r.tool \in MutatingTools => r.effect # Nowhere

\* The answer is the response, or says nothing.
Answered(r) == r.answer \notin {"none", "raw"} =>
                 r.answer = r.response /\ r.pc \in {"exit", "gone"}

\* Where the paths of the call lead, unless something has been moved.
Placed(c, r) ==
  /\ r.pc \in Late \cup {"decode", "decide"} => r.bound \in Bound
  /\ c \notin moved =>
       /\ r.effect \in {Nowhere, r.bound}
       /\ r.pc = "contain" => /\ Final(r.bound.path) = r.bound.path
                              /\ IdAt(r.bound.path) = r.bound.id
       /\ r.pc \in Resolved => Here(r.bound.path) = r.bound

Good(c, r) == /\ ModeIsGiven(r) /\ Decided(r) /\ CommandAt(r)
              /\ Responded(r) /\ Answered(r) /\ Placed(c, r)

DispatchInv == TypeOK /\ \A c \in Calls : Good(c, call[c])

-----------------------------------------------------------------------------
(* What a step of one call has to show.                                     *)

LEMMA ToKeepsInv ==
  ASSUME DispatchInv, NEW c \in Calls, NEW r \in Call, To(c, r), Good(c, r)
  PROVE  DispatchInv'
<1>1. UNCHANGED <<host, root, sub, moved>> /\ call' = [call EXCEPT ![c] = r]
  BY DEF To
<1>2. TypeOK'
  BY <1>1 DEF DispatchInv, TypeOK
<1>3. ASSUME NEW d \in Calls PROVE Good(d, call[d])'
  <2>1. call'[d] = IF d = c THEN r ELSE call[d]
    BY <1>1 DEF DispatchInv, TypeOK
  <2>2. Good(d, call'[d])
    BY <2>1 DEF DispatchInv
  <2> QED
    BY <1>1, <2>2 DEF Good, ModeIsGiven, Mode, Placed, Final, IdAt, Here, Decided,
       Passed, CommandAt, Responded, Answered
<1> QED
  BY <1>2, <1>3 DEF DispatchInv

-----------------------------------------------------------------------------
(* The steps of the extension.                                              *)

LEMMA InvokeKeepsInv ==
  ASSUME DispatchInv, NEW c \in Calls, Invoke(c)
  PROVE  DispatchInv'
<1> DEFINE r == [call[c] EXCEPT !.pc = "stdin", !.mode = Mode]
<1>1. call[c] \in Call /\ Good(c, call[c])
  BY DEF DispatchInv, TypeOK
<1>2. r \in Call
  <2>1. "stdin" \in Steps /\ Mode \in {"workspace", "readonly"}
    BY DEF Steps, Mode
  <2> QED
    BY <1>1, <2>1 DEF Call
<1>3. /\ call[c].pc = "idle" /\ r.pc = "stdin" /\ r.mode = Mode
      /\ r.effect = call[c].effect /\ r.cmd = call[c].cmd /\ r.job = call[c].job
      /\ r.response = call[c].response /\ r.answer = call[c].answer
  BY <1>1 DEF Invoke, At, Call
<1>4. Good(c, r)
  <2> HIDE DEF r
  <2>1. call[c].effect = Nowhere /\ call[c].cmd = "none"
    BY <1>1, <1>3 DEF Good, CommandAt, Early
  <2>2. ModeIsGiven(r) /\ CommandAt(r)
    BY <1>1, <1>3, <2>1 DEF Good, ModeIsGiven, CommandAt, Early
  <2>3. Decided(r)
    BY <1>3, <2>1 DEF Decided, Late, Commanding
  <2>4. Responded(r) /\ Answered(r)
    BY <1>1, <1>3 DEF Good, Responded, Answered
  <2>5. Placed(c, r)
    BY <1>3, <2>1 DEF Placed, Late, Resolved
  <2> QED
    BY <2>2, <2>3, <2>4, <2>5 DEF Good
<1> QED
  BY <1>2, <1>4, ToKeepsInv DEF Invoke

LEMMA InvokeThrowsKeepsInv ==
  ASSUME DispatchInv, NEW c \in Calls, InvokeThrows(c)
  PROVE  DispatchInv'
<1> DEFINE r == [call[c] EXCEPT !.answer = "raw"]
<1>1. call[c] \in Call /\ Good(c, call[c])
  BY DEF DispatchInv, TypeOK
<1>2. r \in Call
  BY <1>1 DEF Call
<1>3. Good(c, r)
  BY <1>1 DEF Good, ModeIsGiven, Placed, Decided,
     Late, Early, Commanding, Resolved, Passed, CommandAt, Responded, Answered, Call
<1> QED
  BY <1>2, <1>3, ToKeepsInv DEF InvokeThrows

\* What can be recovered of a process's output is nothing or its response.
LEMMA RecoveredIsResponse ==
  ASSUME NEW c \in Calls, NEW a \in Recovered(c)
  PROVE  a = "raw" \/ (a = call[c].response /\ call[c].pc = "exit")
BY DEF Recovered, At

LEMMA AbortKeepsInv ==
  ASSUME DispatchInv, NEW c \in Calls, Abort(c)
  PROVE  DispatchInv'
<1>1. call[c] \in Call /\ Good(c, call[c])
  BY DEF DispatchInv, TypeOK
<1>2. PICK a \in Recovered(c) :
        To(c, [call[c] EXCEPT !.answer = a, !.killed = TRUE])
  BY DEF Abort
<1> DEFINE r == [call[c] EXCEPT !.answer = a, !.killed = TRUE]
<1>3. a = "raw" \/ (a = call[c].response /\ call[c].pc = "exit")
  BY RecoveredIsResponse
<1>4. r \in Call
  BY <1>1, <1>3 DEF Call
<1>5. Good(c, r)
  BY <1>1, <1>3 DEF Good, ModeIsGiven, Placed, Decided,
     Late, Early, Commanding, Resolved, Passed, CommandAt, Responded, Answered, Call
<1> QED
  BY <1>2, <1>4, <1>5, ToKeepsInv

-----------------------------------------------------------------------------
(* The end of the process, which ends its command: the job has it by then,  *)
(* or it has not been resumed.                                              *)

LEMMA GatherKeepsInv ==
  ASSUME DispatchInv, NEW c \in Calls, NEW answers, Gather(c, answers), Alive(c),
         \A a \in answers :
           a = "raw" \/ (a = call[c].response /\ call[c].pc = "exit")
  PROVE  DispatchInv'
<1>1. call[c] \in Call /\ Good(c, call[c])
  BY DEF DispatchInv, TypeOK
<1> DEFINE r(a) == [call[c] EXCEPT !.pc = "gone",
                      !.cmd = IF call[c].job THEN "dead" ELSE @,
                      !.answer = IF @ = "none" THEN a ELSE @]
<1>2. PICK a \in answers : To(c, r(a))
  BY DEF Gather
<1>3. a = "raw" \/ (a = call[c].response /\ call[c].pc = "exit")
  OBVIOUS
<1>4. r(a) \in Call
  <2>1. "gone" \in Steps
    BY DEF Steps
  <2>2. a \in {"none", "raw"} \cup Responses
    BY <1>1, <1>3 DEF Call
  <2>3. call[c].job \in BOOLEAN
    BY <1>1 DEF Call
  <2> DEFINE cmd == IF call[c].job THEN "dead" ELSE call[c].cmd
             answer == IF call[c].answer = "none" THEN a ELSE call[c].answer
  <2>4. cmd \in {"none", "suspended", "running", "dead"}
    BY <1>1 DEF Call
  <2>5. answer \in {"none", "raw"} \cup Responses
    BY <1>1, <2>2 DEF Call
  <2>6. r(a) = [call[c] EXCEPT !.pc = "gone", !.cmd = cmd, !.answer = answer]
    BY <1>1 DEF Call
  <2> HIDE DEF cmd, answer, r
  <2> QED
    BY <1>1, <2>1, <2>4, <2>5, <2>6 DEF Call
<1>5. call[c].pc \notin {"idle", "gone"}
  BY DEF Alive
<1>6. ~call[c].job => call[c].cmd # "running"
  BY <1>1 DEF Good, ModeIsGiven, Placed, Decided,
     Late, Early, Commanding, Resolved, Passed, CommandAt, Responded, Answered, Call, Steps
<1>7. Good(c, r(a))
  BY <1>1, <1>3, <1>5, <1>6 DEF Good, ModeIsGiven, Placed, Decided,
     Late, Early, Commanding, Resolved, Passed, CommandAt, Responded, Answered, Call
<1> QED
  BY <1>2, <1>4, <1>7, ToKeepsInv

LEMMA EndKeepsInv ==
  ASSUME DispatchInv, NEW c \in Calls, Answer(c) \/ Killed(c) \/ Crash(c)
  PROVE  DispatchInv'
<1>1. CASE Answer(c)
  BY <1>1, GatherKeepsInv DEF Answer, At, Alive
<1>2. CASE Killed(c) \/ Crash(c)
  BY <1>2, GatherKeepsInv, RecoveredIsResponse DEF Killed, Crash, Die
<1> QED
  BY <1>1, <1>2

-----------------------------------------------------------------------------
(* The steps of the process.                                                *)

\* A process that goes on to another step without anything to show for it.
LEMMA GotoKeepsInv ==
  ASSUME DispatchInv, NEW c \in Calls, NEW step \in Steps, Goto(c, step),
         Good(c, [call[c] EXCEPT !.pc = step])
  PROVE  DispatchInv'
<1>1. [call[c] EXCEPT !.pc = step] \in Call
  BY DEF DispatchInv, TypeOK, Call
<1> QED
  BY <1>1, ToKeepsInv DEF Goto

\* A response before anything was done.
LEMMA RespondKeepsInv ==
  ASSUME DispatchInv, NEW c \in Calls, NEW code \in Responses, Respond(c, code),
         call[c].pc \in Early \ {"idle"},
         code = "ok" => call[c].tool \notin MutatingTools
  PROVE  DispatchInv'
<1> DEFINE r == [call[c] EXCEPT !.pc = "write", !.response = code]
<1>1. call[c] \in Call /\ Good(c, call[c])
  BY DEF DispatchInv, TypeOK
<1>2. r \in Call
  BY <1>1 DEF Call, Steps
<1>3. code # "none"
  BY DEF Responses, Refusals
<1>4. Good(c, r)
  BY <1>1, <1>3 DEF Good, ModeIsGiven, Placed, Decided,
     Late, Early, Commanding, Resolved, Passed, CommandAt, Responded, Answered, Call
<1> QED
  BY <1>2, <1>4, ToKeepsInv DEF Respond

LEMMA ReadStdinKeepsInv ==
  ASSUME DispatchInv, NEW c \in Calls, ReadStdin(c)
  PROVE  DispatchInv'
<1>1. call[c] \in Call /\ Good(c, call[c])
  BY DEF DispatchInv, TypeOK
<1>2. Good(c, [call[c] EXCEPT !.pc = "bind"])
  BY <1>1 DEF Good, ModeIsGiven, Placed, Decided,
     Late, Early, Commanding, Resolved, Passed, CommandAt, Responded, Answered, ReadStdin, At, Call
<1> QED
  BY <1>2, GotoKeepsInv DEF ReadStdin, Steps

LEMMA BindKeepsInv ==
  ASSUME DispatchInv, NEW c \in Calls, Bind(c)
  PROVE  DispatchInv'
<1>1. call[c] \in Call /\ Good(c, call[c])
  BY DEF DispatchInv, TypeOK
<1>2. CASE root = Gone
  BY <1>2, RespondKeepsInv DEF Bind, At, Early, Responses, Refusals
<1>3. CASE root # Gone
  <2> DEFINE b == [path |-> Final("root"), id |-> root]
             r == [call[c] EXCEPT !.pc = "decode", !.bound = b]
  <2>1. b \in Bound
    BY <1>3, DirsAssumption DEF Bound, Final, DispatchInv, TypeOK
  <2>2. r \in Call
    BY <1>1, <2>1 DEF Call, Steps
  <2>3. call[c].pc = "bind" /\ call[c].effect = Nowhere
    BY <1>1 DEF Bind, At, Good, CommandAt, Early
  <2> HIDE DEF b
  <2>4. Good(c, r)
    BY <1>1, <2>1, <2>3 DEF Good, ModeIsGiven, Placed, Decided,
     Late, Early, Commanding, Resolved, Passed, CommandAt, Responded, Answered, Call
  <2> QED
    BY <1>3, <2>2, <2>4, ToKeepsInv DEF Bind, b
<1> QED
  BY <1>2, <1>3

LEMMA DecodeKeepsInv ==
  ASSUME DispatchInv, NEW c \in Calls, Decode(c)
  PROVE  DispatchInv'
<1>1. call[c] \in Call /\ Good(c, call[c]) /\ call[c].pc = "decode"
  BY DEF DispatchInv, TypeOK, Decode, At
<1>2. CASE Goto(c, "decide")
  <2>1. Good(c, [call[c] EXCEPT !.pc = "decide"])
    BY <1>1 DEF Good, ModeIsGiven, Placed, Decided,
     Late, Early, Commanding, Resolved, Passed, CommandAt, Responded, Answered, Call
  <2> QED
    BY <1>2, <2>1, GotoKeepsInv DEF Steps
<1>3. CASE Respond(c, "E_INVALID_ARGUMENT")
  BY <1>1, <1>3, RespondKeepsInv DEF Early, Responses, Refusals
<1> QED
  BY <1>2, <1>3 DEF Decode

LEMMA DecideKeepsInv ==
  ASSUME DispatchInv, NEW c \in Calls, Decide(c)
  PROVE  DispatchInv'
<1>1. call[c] \in Call /\ Good(c, call[c]) /\ call[c].pc = "decide"
  BY DEF DispatchInv, TypeOK, Decide, At
<1> DEFINE readonly == call[c].mode = "readonly" /\ call[c].tool \in MutatingTools
<1>2. CASE Respond(c, "E_READONLY_MODE") \/ Respond(c, "E_APPROVAL_REQUIRED_NO_TTY")
  BY <1>1, <1>2, RespondKeepsInv DEF Early, Responses, Refusals
<1>3. CASE ~readonly /\ call[c].risk = "auto" /\ Goto(c, "ensure")
  <2>1. Passed(call[c])
    BY <1>1, <1>3 DEF Passed, Call
  <2>2. Good(c, [call[c] EXCEPT !.pc = "ensure"])
    BY <1>1, <2>1 DEF Good, ModeIsGiven, Placed, Decided,
     Late, Early, Commanding, Resolved, Passed, CommandAt, Responded, Answered, Call
  <2> QED
    BY <1>3, <2>2, GotoKeepsInv DEF Steps
<1> QED
  BY <1>2, <1>3 DEF Decide

LEMMA EnsureBoundKeepsInv ==
  ASSUME DispatchInv, NEW c \in Calls, EnsureBound(c)
  PROVE  DispatchInv'
<1> DEFINE b == call[c].bound
<1>1. call[c] \in Call /\ Good(c, call[c]) /\ call[c].pc = "ensure"
  BY DEF DispatchInv, TypeOK, EnsureBound, At
<1>2. CASE Final(b.path) = b.path /\ IdAt(b.path) = b.id
  <2>1. Good(c, [call[c] EXCEPT !.pc = "contain"])
    BY <1>1, <1>2 DEF Good, ModeIsGiven, Placed, Decided,
     Late, Early, Commanding, Resolved, Passed, CommandAt, Responded, Answered, Call
  <2> QED
    BY <1>2, <2>1, GotoKeepsInv DEF EnsureBound, Steps
<1>3. CASE ~(Final(b.path) = b.path /\ IdAt(b.path) = b.id)
  BY <1>1, <1>3, RespondKeepsInv DEF EnsureBound, Early, Responses, Refusals
<1> QED
  BY <1>2, <1>3

\* A path that leads below the root leads to the directory that was bound.
LEMMA ContainKeepsInv ==
  ASSUME DispatchInv, NEW c \in Calls, Contain(c)
  PROVE  DispatchInv'
<1> DEFINE b == call[c].bound
           here == Here(b.path)
           step == IF call[c].tool = "run_powershell" THEN "pwsh" ELSE "io"
<1>1. call[c] \in Call /\ Good(c, call[c]) /\ call[c].pc = "contain"
  BY DEF DispatchInv, TypeOK, Contain, At
<1>2. CASE here.path = b.path /\ here.id # Gone
  <2>1. b \in Bound /\ (c \notin moved => IdAt(b.path) = b.id)
    BY <1>1 DEF Good, Placed, Late
  <2>2. here = [path |-> here.path, id |-> IdAt(b.path)]
    BY DEF Here
  <2>3. b = [path |-> b.path, id |-> b.id]
    BY <2>1 DEF Bound
  <2>4. c \notin moved => here = b
    BY <1>2, <2>1, <2>2, <2>3
  <2> HIDE DEF here, b
  <2>5. Good(c, [call[c] EXCEPT !.pc = step])
    BY <1>1, <2>1, <2>4 DEF Good, ModeIsGiven, Placed, Decided,
     Late, Early, Commanding, Resolved, Passed, CommandAt, Responded, Answered, Call, here, b
  <2> QED
    BY <1>2, <2>5, GotoKeepsInv DEF Contain, Steps, here, b
<1>3. CASE ~(here.path = b.path /\ here.id # Gone)
  BY <1>1, <1>3, RespondKeepsInv DEF Contain, Early, Responses, Refusals
<1> QED
  BY <1>2, <1>3

\* Where the paths of a call that has been resolved lead is somewhere.
LEMMA HereIsPlace ==
  ASSUME DispatchInv, NEW c \in Calls, call[c].bound \in Bound
  PROVE  /\ Here(call[c].bound.path) \in Places
         /\ Here(call[c].bound.path) # Nowhere
<1>1. call[c].bound.path \in {"root", "else"}
  BY DEF Bound
<1>2. root \in Dirs \cup {Link, Gone}
  BY DEF DispatchInv, TypeOK
<1> QED
  BY <1>1, <1>2 DEF Here, Final, IdAt, Places, Nowhere

LEMMA FileIOKeepsInv ==
  ASSUME DispatchInv, NEW c \in Calls, FileIO(c)
  PROVE  DispatchInv'
<1> DEFINE here == Here(call[c].bound.path)
           effect == IF call[c].tool \in MutatingTools THEN here
                                                       ELSE call[c].effect
           r(code) == [call[c] EXCEPT !.pc = "write", !.response = code,
                                      !.effect = effect]
<1>1. call[c] \in Call /\ Good(c, call[c]) /\ call[c].pc = "io"
  BY DEF DispatchInv, TypeOK, FileIO, At
<1>2. CASE Respond(c, "E_IO")
  BY <1>1, <1>2, RespondKeepsInv DEF Early, Responses, Refusals
<1>3. ASSUME NEW code \in {"ok", "E_IO"}, To(c, r(code)) PROVE DispatchInv'
  <2>1. call[c].bound \in Bound /\ (c \notin moved => here = call[c].bound)
    BY <1>1 DEF Good, Placed, Late, Resolved
  <2>2. here \in Places /\ here # Nowhere
    BY <2>1, HereIsPlace
  <2> HIDE DEF here
  <2>3. r(code) \in Call
    BY <1>1, <2>2 DEF Call, Steps, Responses
  <2>4. Good(c, r(code))
    BY <1>1, <2>1, <2>2 DEF Good, ModeIsGiven, Placed, Decided,
     Late, Early, Commanding, Resolved, Passed, CommandAt, Responded, Answered, Call, Refusals
  <2> QED
    BY <1>3, <2>3, <2>4, ToKeepsInv
<1> QED
  BY <1>2, <1>3 DEF FileIO

LEMMA NoPwshKeepsInv ==
  ASSUME DispatchInv, NEW c \in Calls, NoPwsh(c)
  PROVE  DispatchInv'
BY RespondKeepsInv DEF NoPwsh, At, Early, Responses, Refusals

LEMMA CreateCommandKeepsInv ==
  ASSUME DispatchInv, NEW c \in Calls, CreateCommand(c)
  PROVE  DispatchInv'
<1> DEFINE r == [call[c] EXCEPT !.pc = "assign", !.cmd = "suspended"]
<1>1. call[c] \in Call /\ Good(c, call[c]) /\ call[c].pc = "pwsh"
  BY DEF DispatchInv, TypeOK, CreateCommand, At
<1>2. CASE Respond(c, "E_RUN")
  BY <1>1, <1>2, RespondKeepsInv DEF Early, Responses, Refusals
<1>3. CASE To(c, r)
  <2>1. r \in Call
    BY <1>1 DEF Call, Steps
  <2>2. Good(c, r)
    BY <1>1 DEF Good, ModeIsGiven, Placed, Decided,
     Late, Early, Commanding, Resolved, Passed, CommandAt, Responded, Answered, Call, MutatingTools
  <2> QED
    BY <1>3, <2>1, <2>2, ToKeepsInv
<1> QED
  BY <1>2, <1>3 DEF CreateCommand

\* A command that is terminated before or after it ran.
LEMMA TerminatedKeepsInv ==
  ASSUME DispatchInv, NEW c \in Calls, NEW code \in {"ok", "E_RUN"},
         call[c].pc \in {"assign", "resume", "wait"},
         code = "ok" => call[c].pc = "wait",
         To(c, [call[c] EXCEPT !.pc = "write", !.response = code, !.cmd = "dead"])
  PROVE  DispatchInv'
<1> DEFINE r == [call[c] EXCEPT !.pc = "write", !.response = code, !.cmd = "dead"]
<1>1. call[c] \in Call /\ Good(c, call[c])
  BY DEF DispatchInv, TypeOK
<1>2. r \in Call
  BY <1>1 DEF Call, Steps, Responses
<1>3. Good(c, r)
  BY <1>1 DEF Good, ModeIsGiven, Placed, Decided,
     Late, Early, Commanding, Resolved, Passed, CommandAt, Responded, Answered, Call, Refusals
<1> QED
  BY <1>2, <1>3, ToKeepsInv

LEMMA AssignKeepsInv ==
  ASSUME DispatchInv, NEW c \in Calls, Assign(c)
  PROVE  DispatchInv'
<1> DEFINE r == [call[c] EXCEPT !.pc = "resume", !.job = TRUE]
<1>1. call[c] \in Call /\ Good(c, call[c]) /\ call[c].pc = "assign"
  BY DEF DispatchInv, TypeOK, Assign, At
<1>2. CASE To(c, r)
  <2>1. r \in Call
    BY <1>1 DEF Call, Steps
  <2>2. Good(c, r)
    BY <1>1 DEF Good, ModeIsGiven, Placed, Decided,
     Late, Early, Commanding, Resolved, Passed, CommandAt, Responded, Answered, Call
  <2> QED
    BY <1>2, <2>1, <2>2, ToKeepsInv
<1>3. CASE ~To(c, r)
  BY <1>1, <1>3, TerminatedKeepsInv DEF Assign
<1> QED
  BY <1>2, <1>3

LEMMA ResumeKeepsInv ==
  ASSUME DispatchInv, NEW c \in Calls, Resume(c)
  PROVE  DispatchInv'
<1> DEFINE here == Here(call[c].bound.path)
           r == [call[c] EXCEPT !.pc = "wait", !.cmd = "running", !.effect = here]
<1>1. call[c] \in Call /\ Good(c, call[c]) /\ call[c].pc = "resume"
  BY DEF DispatchInv, TypeOK, Resume, At
<1>2. CASE To(c, r)
  <2>1. call[c].bound \in Bound /\ (c \notin moved => here = call[c].bound)
    BY <1>1 DEF Good, Placed, Late, Resolved
  <2>2. here \in Places /\ here # Nowhere
    BY <2>1, HereIsPlace
  <2> HIDE DEF here
  <2>3. r \in Call
    BY <1>1, <2>2 DEF Call, Steps
  <2>4. Good(c, r)
    BY <1>1, <2>1, <2>2 DEF Good, ModeIsGiven, Placed, Decided,
     Late, Early, Commanding, Resolved, Passed, CommandAt, Responded, Answered, Call
  <2> QED
    BY <1>2, <2>3, <2>4, ToKeepsInv
<1>3. CASE ~To(c, r)
  BY <1>1, <1>3, TerminatedKeepsInv DEF Resume
<1> QED
  BY <1>2, <1>3

LEMMA CommandEndsKeepsInv ==
  ASSUME DispatchInv, NEW c \in Calls, CommandEnds(c)
  PROVE  DispatchInv'
BY TerminatedKeepsInv DEF CommandEnds, At

LEMMA WriteResponseKeepsInv ==
  ASSUME DispatchInv, NEW c \in Calls, WriteResponse(c)
  PROVE  DispatchInv'
<1>1. call[c] \in Call /\ Good(c, call[c]) /\ call[c].pc = "write"
  BY DEF DispatchInv, TypeOK, WriteResponse, At
<1>2. Good(c, [call[c] EXCEPT !.pc = "exit"])
  BY <1>1 DEF Good, ModeIsGiven, Placed, Decided,
     Late, Early, Commanding, Resolved, Passed, CommandAt, Responded, Answered, Call
<1> QED
  BY <1>2, GotoKeepsInv DEF WriteResponse, Steps

-----------------------------------------------------------------------------
(* Somebody moves the root.  A call that has not begun to resolve its path  *)
(* has nothing to show yet that depends on where the root is.               *)

LEMMA MoveKeepsInv ==
  ASSUME DispatchInv, Move
  PROVE  DispatchInv'
<1>1. TypeOK'
  BY DEF Move, DispatchInv, TypeOK
<1>2. ASSUME NEW c \in Calls PROVE Good(c, call[c])'
  <2>1. /\ call' = call /\ host' = host /\ Good(c, call[c]) /\ call[c] \in Call
        /\ c \notin moved' =>
             /\ c \notin moved
             /\ call[c].pc \in {"idle", "stdin", "bind", "decode", "decide", "ensure"}
    BY DEF Move, DispatchInv, TypeOK, At
  <2>2. Placed(c, call[c])'
    BY <2>1 DEF Good, Placed, Late, Resolved
  <2> QED
    BY <2>1, <2>2 DEF Good, ModeIsGiven, Mode, Decided, CommandAt, Responded, Answered
<1> QED
  BY <1>1, <1>2 DEF DispatchInv

-----------------------------------------------------------------------------
(* The theorems.                                                            *)

LEMMA DispatchInit == Init => DispatchInv
<1> SUFFICES ASSUME Init PROVE DispatchInv
  OBVIOUS
<1>1. ASSUME NEW c \in Calls
      PROVE  /\ call[c] \in Call /\ call[c].pc = "idle" /\ call[c].bound = Nowhere
             /\ call[c].cmd = "none" /\ call[c].response = "none" /\ ~call[c].job
             /\ call[c].answer = "none" /\ call[c].effect = Nowhere
  <2>1. call[c] \in Fresh
    BY DEF Init
  <2>2. Nowhere \in Places
    BY DEF Nowhere, Places
  <2> QED
    BY <2>1, <2>2 DEF Fresh, Call, Steps
<1>2. TypeOK
  BY <1>1 DEF Init, TypeOK
<1>3. ASSUME NEW c \in Calls PROVE Good(c, call[c])
  BY <1>1 DEF Good, ModeIsGiven, Placed, Decided,
     Late, Early, Commanding, Resolved, Passed, CommandAt, Responded, Answered
<1> QED
  BY <1>2, <1>3 DEF DispatchInv

LEMMA DispatchStep == DispatchInv /\ [Next]_vars => DispatchInv'
<1> SUFFICES ASSUME DispatchInv, [Next]_vars PROVE DispatchInv'
  OBVIOUS
<1>1. CASE UNCHANGED vars
  BY <1>1 DEF vars, DispatchInv, TypeOK, Mode, Final, IdAt, Here, Good, ModeIsGiven, Placed, Decided,
     Late, Early, Commanding, Resolved, Passed, CommandAt, Responded, Answered
<1>2. ASSUME NEW c \in Calls, Process(c) PROVE DispatchInv'
  BY <1>2, ReadStdinKeepsInv, BindKeepsInv, DecodeKeepsInv, DecideKeepsInv,
     EnsureBoundKeepsInv, ContainKeepsInv, FileIOKeepsInv, NoPwshKeepsInv,
     CreateCommandKeepsInv, AssignKeepsInv, ResumeKeepsInv, CommandEndsKeepsInv,
     WriteResponseKeepsInv, EndKeepsInv DEF Process
<1>3. ASSUME NEW c \in Calls, Extension(c) PROVE DispatchInv'
  BY <1>3, InvokeKeepsInv, InvokeThrowsKeepsInv, AbortKeepsInv DEF Extension
<1> QED
  BY <1>1, <1>2, <1>3, EndKeepsInv, MoveKeepsInv DEF Next, Finished

\* The inductive invariant holds of every call, whatever the other calls do
\* and however the root is moved.
THEOREM DispatchInvariant == Spec => []DispatchInv
BY DispatchInit, DispatchStep, PTL DEF Spec

\* Every variable has its type.
THEOREM DispatchTypeOK == Spec => []TypeOK
<1>1. DispatchInv => TypeOK
  BY DEF DispatchInv
<1> QED
  BY <1>1, DispatchInvariant, PTL

\* The file tools write nothing and no command is created unless BRUNEL_MODE says
\* workspace and no confirmation was needed.
THEOREM EffectsAreAllowed == Spec => []OnlyAllowedEffects
<1>1. DispatchInv => OnlyAllowedEffects
  BY DEF DispatchInv, OnlyAllowedEffects, Good, ModeIsGiven, Mode, Decided, Passed
<1> QED
  BY <1>1, DispatchInvariant, PTL

\* A refused call has no effect and will have none.
THEOREM RefusalsAreEmpty == Spec => []RefusalMeansNoEffect
<1>1. DispatchInv => RefusalMeansNoEffect
  BY DEF DispatchInv, RefusalMeansNoEffect, Refusals, Good, Responded, Answered
<1> QED
  BY <1>1, DispatchInvariant, PTL

\* A mutating call that is answered with success is done.
THEOREM SuccessIsDone == Spec => []OkMeansDone
<1>1. DispatchInv => OkMeansDone
  BY DEF DispatchInv, OkMeansDone, Good, Responded, Answered
<1> QED
  BY <1>1, DispatchInvariant, PTL

\* A call works in the directory it bound unless something was moved in the
\* course of it.
THEOREM EffectStaysBound == Spec => []EffectWhereBound
<1>1. DispatchInv => EffectWhereBound
  BY DEF DispatchInv, EffectWhereBound, Good, Placed
<1> QED
  BY <1>1, DispatchInvariant, PTL

\* No command outlives its call: at the end of the process, at a kill or a
\* crash at any point of it, and once the response has been read.
THEOREM NoCommandIsOrphaned == Spec => []NoOrphanRuns
<1>1. DispatchInv => NoOrphanRuns
  BY DEF DispatchInv, NoOrphanRuns, At, Good, CommandAt, Responded, Answered
<1> QED
  BY <1>1, DispatchInvariant, PTL
=============================================================================
