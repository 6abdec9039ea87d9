------------------------------ MODULE FileProofs ------------------------------
(* Proofs about the file tools, for any number of tools, editors, files and *)
(* contents.                                                                *)
EXTENDS FileProperties, TLAPS

-----------------------------------------------------------------------------
(* The inductive invariant.                                                 *)

WithTemp == {"fill", "install", "target", "lock", "recheck", "swap", "away"}
Opened == {"lock", "recheck", "swap", "away"}

\* What the step a call is at says of its operation and of its files.
ShapeOf(r) ==
  /\ r.pc \in WithTemp <=> r.tmp # NoFile
  /\ r.pc \in Opened <=> r.fd # NoFile
  /\ r.pc = "install" => r.op = "create"
  /\ r.pc \in {"read", "target"} \cup Opened => r.op # "create"

\* A temporary file is full when the call leaves "fill".
Filled(r) == r.pc \in WithTemp \ {"fill"} => content[r.tmp] = r.data

\* A temporary file belongs to one call: no path names it, nobody opened it.
Private(t) ==
  tool[t].tmp # NoFile =>
    /\ tool[t].tmp # name
    /\ \A u \in Tools : tool[u].fd # tool[t].tmp
    /\ \A u \in Tools \ {t} : tool[u].tmp # tool[t].tmp
    /\ \A e \in Editors : editor[e] # tool[t].tmp

\* A lock excludes everybody else who asks for one.
Exclusive(t) ==
  tool[t].pc \in Locking =>
    /\ \A u \in Tools \ {t} :
         tool[u].pc \in Locking => tool[u].fd # tool[t].fd
    /\ \A e \in Editors : editor[e] # tool[t].fd

\* Under the lock the file stays what it was at the second check.
Expected(r) == r.pc = "swap" => content[r.fd] = r.expected

FileInv == /\ TypeOK /\ NeverPartial
           /\ \A t \in Tools : /\ ShapeOf(tool[t]) /\ Filled(tool[t])
                               /\ Private(t) /\ Exclusive(t) /\ Expected(tool[t])

LEMMA IdleIsTool == Idle \in Tool
<1>1. (CHOOSE c \in Contents : TRUE) \in Contents
  BY ContentAssumption
<1> QED
  BY <1>1 DEF Idle, Tool, Ops, Steps

-----------------------------------------------------------------------------
(* A step of one call that changes no file and names none.  It opens        *)
(* nothing but what the path names and locks nothing that is locked.        *)

LEMMA StepKeepsInv ==
  ASSUME FileInv, NEW t \in Tools, NEW r \in Tool, Step(t, r),
         name' \in {name, NoFile}, UNCHANGED <<content, editor>>,
         ShapeOf(r), Filled(r), Expected(r),
         r.tmp \in {NoFile, tool[t].tmp},
         r.fd \in {NoFile, tool[t].fd} \/ (r.fd = name /\ r.pc \notin Locking),
         r.pc \in Locking => /\ r.fd = tool[t].fd
                             /\ tool[t].pc \in Locking \/ ~Locked(r.fd)
  PROVE  FileInv'
<1>1. tool \in [Tools -> Tool] /\ tool' = [tool EXCEPT ![t] = r]
  BY DEF FileInv, TypeOK, Step
<1>2. \A u \in Tools : tool'[u] = IF u = t THEN r ELSE tool[u]
  BY <1>1
<1>3. TypeOK' /\ NeverPartial'
  BY <1>1, PartialAssumption DEF FileInv, TypeOK, NeverPartial, Shown
<1>4. ASSUME NEW u \in Tools
      PROVE  (ShapeOf(tool[u]) /\ Filled(tool[u]) /\ Expected(tool[u]))'
  BY <1>2 DEF FileInv, ShapeOf, Filled, Expected
<1>5. ASSUME NEW u \in Tools PROVE Private(u)'
  <2>1. Private(u) /\ Private(t)
    BY DEF FileInv
  <2> QED
    BY <1>2, <2>1 DEF Private
<1>6. ASSUME NEW u \in Tools PROVE Exclusive(u)'
  <2>1. Exclusive(u) /\ Exclusive(t)
    BY DEF FileInv
  <2>2. CASE r.pc \notin Locking \/ tool[t].pc \in Locking
    BY <1>2, <2>1, <2>2 DEF Exclusive, Locking
  <2>3. CASE r.pc \in Locking /\ ~Locked(r.fd)
    <3>1. \A w \in Tools : tool[w].pc \in Locking => tool[w].fd # r.fd
      BY <2>3 DEF Locked, LockedBy, Locking
    <3>2. \A e \in Editors : editor[e] # r.fd
      BY <2>3 DEF Locked
    <3> QED
      BY <1>2, <2>1, <3>1, <3>2 DEF Exclusive, Locking
  <2> QED
    BY <2>2, <2>3
<1> QED
  BY <1>3, <1>4, <1>5, <1>6 DEF FileInv

\* A call that returns without having named its temporary file.
LEMMA ReturnKeepsInv ==
  ASSUME FileInv, NEW t \in Tools, NEW result \in {"done", "error"},
         Return(t, result), UNCHANGED <<name, content, editor>>
  PROVE  FileInv'
<1> DEFINE r == [tool[t] EXCEPT !.pc = result, !.tmp = NoFile, !.fd = NoFile]
<1>1. tool[t] \in Tool
  BY DEF FileInv, TypeOK
<1>2. r \in Tool
  <2>1. result \in Steps
    BY DEF Steps
  <2> QED
    BY <1>1, <2>1 DEF Tool
<1>3. r.pc = result /\ r.tmp = NoFile /\ r.fd = NoFile
  BY <1>1 DEF Tool
<1>4. ShapeOf(r) /\ Filled(r) /\ Expected(r) /\ r.pc \notin Locking
  BY <1>3 DEF ShapeOf, Filled, Expected, Locking, WithTemp, Opened
<1> QED
  BY <1>2, <1>3, <1>4, StepKeepsInv DEF Return

\* A call that goes on with what it has.
LEMMA GotoKeepsInv ==
  ASSUME FileInv, NEW t \in Tools, NEW step \in Steps, Goto(t, step),
         name' \in {name, NoFile}, UNCHANGED <<content, editor>>,
         step \in WithTemp <=> tool[t].pc \in WithTemp,
         step \in Opened <=> tool[t].pc \in Opened,
         step = "install" => tool[t].op = "create",
         step \in {"read", "target"} \cup Opened => tool[t].op # "create",
         tool[t].pc = "fill" => step = "fill",
         step = "swap" => content[tool[t].fd] = tool[t].expected,
         step \in Locking => tool[t].pc \in Locking \/ ~Locked(tool[t].fd)
  PROVE  FileInv'
<1> DEFINE r == [tool[t] EXCEPT !.pc = step]
<1>1. tool[t] \in Tool /\ r \in Tool
  BY DEF FileInv, TypeOK, Tool
<1>2. /\ r.pc = step /\ r.tmp = tool[t].tmp /\ r.fd = tool[t].fd
      /\ r.op = tool[t].op /\ r.data = tool[t].data
      /\ r.expected = tool[t].expected
  BY <1>1 DEF Tool
<1>3. ShapeOf(tool[t]) /\ Filled(tool[t])
  BY DEF FileInv
<1> HIDE DEF r
<1>4. ShapeOf(r) /\ Filled(r) /\ Expected(r)
  BY <1>2, <1>3 DEF ShapeOf, Filled, Expected, WithTemp
<1> QED
  BY <1>1, <1>2, <1>4, StepKeepsInv DEF Goto, r

\* A call that begins, or is turned down at once, has nothing of its own.
LEMMA BegunKeepsInv ==
  ASSUME FileInv, NEW t \in Tools, NEW op \in Ops, NEW e \in Contents,
         NEW d \in Contents, NEW step \in {"temp", "error", "read"},
         op # "create" \/ step # "read",
         Step(t, [Idle EXCEPT !.op = op, !.pc = step, !.expected = e, !.data = d]),
         UNCHANGED <<name, content, editor>>
  PROVE  FileInv'
<1> DEFINE r == [Idle EXCEPT !.op = op, !.pc = step, !.expected = e, !.data = d]
<1>1. r \in Tool
  BY IdleIsTool DEF Tool, Steps
<1>2. /\ r.pc = step /\ r.op = op /\ r.tmp = NoFile /\ r.fd = NoFile
  BY DEF Idle
<1>3. ShapeOf(r) /\ Filled(r) /\ Expected(r) /\ r.pc \notin Locking
  BY <1>2 DEF ShapeOf, Filled, Expected, Locking, WithTemp, Opened
<1> QED
  BY <1>1, <1>2, <1>3, StepKeepsInv

LEMMA BeginKeepsInv ==
  ASSUME FileInv, NEW t \in Tools, Begin(t)
  PROVE  FileInv'
<1>1. ASSUME NEW d \in Contents, BeginCreate(t, d) PROVE FileInv'
  <2> DEFINE step == IF name = NoFile THEN "temp" ELSE "error"
  <2>1. Idle.expected \in Contents
    BY IdleIsTool DEF Tool
  <2>2. [Idle EXCEPT !.op = "create", !.data = d, !.pc = step]
          = [Idle EXCEPT !.op = "create", !.pc = step, !.expected = Idle.expected,
               !.data = d]
    BY IdleIsTool DEF Tool
  <2>3. step \in {"temp", "error", "read"} /\ step # "read" /\ "create" \in Ops
    BY DEF Ops
  <2>4. /\ Step(t, [Idle EXCEPT !.op = "create", !.pc = step,
                      !.expected = Idle.expected, !.data = d])
        /\ UNCHANGED <<name, content, editor>>
    BY <1>1, <2>2 DEF BeginCreate
  <2> HIDE DEF step
  <2> QED
    BY <2>1, <2>3, <2>4, BegunKeepsInv
<1>2. ASSUME NEW op \in Ops, NEW e \in Contents, NEW d \in Contents,
             BeginWrite(t, op, e, d)
      PROVE  FileInv'
  BY <1>2, BegunKeepsInv DEF BeginWrite
<1> QED
  BY <1>1, <1>2 DEF Begin

LEMMA CrashKeepsInv ==
  ASSUME FileInv, NEW t \in Tools, Crash(t)
  PROVE  FileInv'
<1>1. Idle.pc = "idle" /\ Idle.tmp = NoFile /\ Idle.fd = NoFile
  BY DEF Idle
<1>2. ShapeOf(Idle) /\ Filled(Idle) /\ Expected(Idle)
  BY <1>1 DEF ShapeOf, Filled, Expected, WithTemp, Opened
<1> QED
  BY <1>1, <1>2, IdleIsTool, StepKeepsInv DEF Crash, Locking

-----------------------------------------------------------------------------
(* The steps of a call that change no file.                                 *)

LEMMA ReadTargetKeepsInv ==
  ASSUME FileInv, NEW t \in Tools, ReadTarget(t)
  PROVE  FileInv'
<1>1. CASE Goto(t, "temp")
  <2>1. tool[t].op # "create"
    BY DEF FileInv, ShapeOf, ReadTarget
  <2> QED
    BY <1>1, GotoKeepsInv DEF ReadTarget, WithTemp, Opened, Locking, Steps
<1>2. CASE Return(t, "error")
  BY <1>2, ReturnKeepsInv DEF ReadTarget
<1> QED
  BY <1>1, <1>2 DEF ReadTarget

LEMMA OpenTargetKeepsInv ==
  ASSUME FileInv, NEW t \in Tools, OpenTarget(t)
  PROVE  FileInv'
<1>1. CASE name # NoFile
  <2> DEFINE r == [tool[t] EXCEPT !.pc = "lock", !.fd = name]
  <2>1. tool[t] \in Tool /\ name \in Files
    BY <1>1 DEF FileInv, TypeOK
  <2>2. r \in Tool
    BY <2>1 DEF Tool, Steps
  <2>3. /\ r.pc = "lock" /\ r.fd = name /\ r.tmp = tool[t].tmp /\ r.op = tool[t].op
        /\ r.data = tool[t].data
    BY <2>1 DEF Tool
  <2>4. ShapeOf(tool[t]) /\ Filled(tool[t]) /\ tool[t].pc = "target"
    BY DEF FileInv, OpenTarget
  <2>5. Step(t, r) /\ UNCHANGED <<name, content, editor>>
    BY <1>1 DEF OpenTarget
  <2> HIDE DEF r
  <2>6. ShapeOf(r) /\ Filled(r) /\ Expected(r)
    BY <1>1, <2>3, <2>4 DEF ShapeOf, Filled, Expected, WithTemp, Opened
  <2> QED
    BY <2>2, <2>3, <2>5, <2>6, StepKeepsInv DEF Locking
<1>2. CASE name = NoFile
  BY <1>2, ReturnKeepsInv DEF OpenTarget
<1> QED
  BY <1>1, <1>2

LEMMA LockTargetKeepsInv ==
  ASSUME FileInv, NEW t \in Tools, LockTarget(t)
  PROVE  FileInv'
<1>1. tool[t].op # "create"
  BY DEF FileInv, ShapeOf, Opened, LockTarget
<1> QED
  BY <1>1, GotoKeepsInv DEF LockTarget, WithTemp, Opened, Steps

LEMMA RecheckKeepsInv ==
  ASSUME FileInv, NEW t \in Tools, Recheck(t)
  PROVE  FileInv'
<1>1. tool[t].op # "create"
  BY DEF FileInv, ShapeOf, Opened, Recheck
<1>2. CASE Goto(t, "swap") /\ content[tool[t].fd] = tool[t].expected
  BY <1>1, <1>2, GotoKeepsInv DEF Recheck, WithTemp, Opened, Locking, Steps
<1>3. CASE Return(t, "error")
  BY <1>3, ReturnKeepsInv DEF Recheck
<1> QED
  BY <1>2, <1>3 DEF Recheck

-----------------------------------------------------------------------------
(* The steps that write to a file.  Nobody's temporary file is named and no *)
(* locked file is somebody's temporary file, so nobody else notices.        *)

\* What holds of one call whatever else is going on.
LEMMA FileInvOf ==
  ASSUME FileInv, NEW u \in Tools
  PROVE  /\ tool[u] \in Tool /\ ShapeOf(tool[u]) /\ Filled(tool[u])
         /\ Private(u) /\ Exclusive(u) /\ Expected(tool[u])
         /\ tool[u].pc \in WithTemp => tool[u].tmp \in Files
         /\ tool[u].pc \in Opened => tool[u].fd \in Files
<1>1. tool[u] \in Tool
  BY DEF FileInv, TypeOK
<1> QED
  BY <1>1 DEF FileInv, ShapeOf, Tool

LEMMA MakeTempKeepsInv ==
  ASSUME FileInv, NEW t \in Tools, NEW f \in Files, MakeTemp(t, f)
  PROVE  FileInv'
<1> DEFINE r == [tool[t] EXCEPT !.pc = "fill", !.tmp = f]
<1>1. /\ name # f
      /\ \A u \in Tools : tool[u].tmp # f /\ tool[u].fd # f
      /\ \A e \in Editors : editor[e] # f
  BY DEF MakeTemp, InUse, TempOf
<1>2. tool[t] \in Tool /\ tool[t].pc = "temp" /\ tool[t].fd = NoFile
  BY FileInvOf DEF MakeTemp, ShapeOf, Opened
<1>3. /\ r \in Tool /\ r.pc = "fill" /\ r.tmp = f /\ r.fd = NoFile
  BY <1>2 DEF Tool, Steps
<1>4. tool' = [tool EXCEPT ![t] = r] /\ content' = [content EXCEPT ![f] = Partial]
      /\ UNCHANGED <<name, editor>>
  BY DEF MakeTemp, Step
<1> HIDE DEF r
<1>5. /\ \A u \in Tools : tool'[u] = IF u = t THEN r ELSE tool[u]
      /\ \A g \in Files \ {f} : content'[g] = content[g]
  BY <1>4 DEF FileInv, TypeOK
<1>6. TypeOK' /\ NeverPartial'
  BY <1>1, <1>3, <1>4, <1>5, FileAssumption DEF FileInv, TypeOK, NeverPartial, Shown
<1>7. ASSUME NEW u \in Tools \ {t}
      PROVE  (ShapeOf(tool[u]) /\ Filled(tool[u]) /\ Expected(tool[u]))'
  BY <1>1, <1>5, FileInvOf DEF ShapeOf, Filled, Expected, Opened
<1>8. (ShapeOf(tool[t]) /\ Filled(tool[t]) /\ Expected(tool[t]))'
  BY <1>3, <1>5, FileAssumption DEF ShapeOf, Filled, Expected, WithTemp, Opened
<1>9. ASSUME NEW u \in Tools PROVE Private(u)'
  BY <1>1, <1>3, <1>4, <1>5, FileInvOf, FileAssumption DEF Private
<1>10. ASSUME NEW u \in Tools PROVE Exclusive(u)'
  BY <1>3, <1>4, <1>5, FileInvOf DEF Exclusive, Locking
<1> QED
  BY <1>6, <1>7, <1>8, <1>9, <1>10 DEF FileInv

LEMMA FillTempKeepsInv ==
  ASSUME FileInv, NEW t \in Tools, FillTemp(t)
  PROVE  FileInv'
<1> DEFINE step == IF tool[t].op = "create" THEN "install" ELSE "target"
           r == [tool[t] EXCEPT !.pc = step]
           f == tool[t].tmp
<1>1. tool[t] \in Tool /\ tool[t].pc = "fill" /\ f \in Files /\ tool[t].fd = NoFile
  BY FileInvOf DEF FillTemp, WithTemp, ShapeOf, Opened
<1>2. /\ r \in Tool /\ r.pc \in {"install", "target"} /\ r.tmp = f /\ r.fd = NoFile
      /\ r.data = tool[t].data /\ r.op = tool[t].op
      /\ r.pc = "install" <=> r.op = "create"
  BY <1>1 DEF Tool, Steps
<1>3. /\ f # NoFile /\ f # name /\ tool[t].data \in Contents
      /\ \A u \in Tools : tool[u].fd # f
      /\ \A u \in Tools \ {t} : tool[u].tmp # f
  BY <1>1, FileInvOf, FileAssumption DEF Private, Tool
<1>4. tool' = [tool EXCEPT ![t] = r] /\ content' = [content EXCEPT ![f] = tool[t].data]
      /\ UNCHANGED <<name, editor>>
  BY DEF FillTemp, Goto, Step
<1> HIDE DEF r, f
<1>5. /\ \A u \in Tools : tool'[u] = IF u = t THEN r ELSE tool[u]
      /\ \A g \in Files \ {f} : content'[g] = content[g]
      /\ content'[f] = tool[t].data
  BY <1>1, <1>4 DEF FileInv, TypeOK
<1>6. TypeOK' /\ NeverPartial'
  BY <1>2, <1>3, <1>4, <1>5 DEF FileInv, TypeOK, NeverPartial, Shown
<1>7. ASSUME NEW u \in Tools \ {t}
      PROVE  (ShapeOf(tool[u]) /\ Filled(tool[u]) /\ Expected(tool[u]))'
  BY <1>3, <1>5, FileInvOf DEF ShapeOf, Filled, Expected, Opened
<1>8. (ShapeOf(tool[t]) /\ Filled(tool[t]) /\ Expected(tool[t]))'
  BY <1>2, <1>3, <1>5 DEF ShapeOf, Filled, Expected, WithTemp, Opened
<1>9. ASSUME NEW u \in Tools PROVE Private(u)'
  BY <1>2, <1>4, <1>5, FileInvOf DEF Private, f
<1>10. ASSUME NEW u \in Tools PROVE Exclusive(u)'
  BY <1>2, <1>4, <1>5, FileInvOf DEF Exclusive, Locking
<1> QED
  BY <1>6, <1>7, <1>8, <1>9, <1>10 DEF FileInv

\* The path names the temporary file of a call, which returns.
LEMMA NameTempKeepsInv ==
  ASSUME FileInv, NEW t \in Tools, tool[t].pc \in {"install", "swap", "away"},
         name' = tool[t].tmp, Return(t, "done"), UNCHANGED <<content, editor>>
  PROVE  FileInv' /\ Shown' = tool[t].data
<1> DEFINE r == [tool[t] EXCEPT !.pc = "done", !.tmp = NoFile, !.fd = NoFile]
<1>1. /\ tool[t] \in Tool /\ tool[t].tmp \in Files
      /\ content[tool[t].tmp] = tool[t].data
  BY FileInvOf DEF WithTemp, Filled
<1>2. r \in Tool /\ r.pc = "done" /\ r.tmp = NoFile /\ r.fd = NoFile
  BY <1>1 DEF Tool, Steps
<1>3. tool' = [tool EXCEPT ![t] = r]
  BY DEF Return, Step
<1> HIDE DEF r
<1>4. \A u \in Tools : tool'[u] = IF u = t THEN r ELSE tool[u]
  BY <1>3 DEF FileInv, TypeOK
<1>5. Shown' = tool[t].data
  BY <1>1, FileAssumption DEF Shown
<1>6. TypeOK' /\ NeverPartial'
  BY <1>1, <1>2, <1>3, <1>5, PartialAssumption DEF FileInv, TypeOK, NeverPartial, Tool
<1>7. ASSUME NEW u \in Tools
      PROVE  (ShapeOf(tool[u]) /\ Filled(tool[u]) /\ Expected(tool[u]))'
  BY <1>2, <1>4, FileInvOf DEF ShapeOf, Filled, Expected, WithTemp, Opened
<1>8. ASSUME NEW u \in Tools PROVE Private(u)'
  BY <1>1, <1>2, <1>4, FileInvOf, FileAssumption DEF Private
<1>9. ASSUME NEW u \in Tools PROVE Exclusive(u)'
  BY <1>2, <1>4, FileInvOf DEF Exclusive, Locking
<1> QED
  BY <1>5, <1>6, <1>7, <1>8, <1>9 DEF FileInv

LEMMA InstallKeepsInv ==
  ASSUME FileInv, NEW t \in Tools, Install(t)
  PROVE  FileInv'
<1>1. CASE name = NoFile
  BY <1>1, NameTempKeepsInv DEF Install
<1>2. CASE name # NoFile
  BY <1>2, ReturnKeepsInv DEF Install
<1> QED
  BY <1>1, <1>2

LEMMA SwapAwayKeepsInv ==
  ASSUME FileInv, NEW t \in Tools, SwapAway(t)
  PROVE  FileInv'
<1>1. tool[t].op # "create"
  BY DEF FileInv, ShapeOf, Opened, SwapAway
<1> QED
  BY <1>1, GotoKeepsInv DEF SwapAway, WithTemp, Opened, Locking, Steps

LEMMA ProgressKeepsInv ==
  ASSUME FileInv, NEW t \in Tools, Progress(t)
  PROVE  FileInv'
<1>1. CASE Swap(t)
  BY <1>1, NameTempKeepsInv DEF Swap
<1>2. CASE LockTimeout(t) \/ Fails(t)
  BY <1>2, ReturnKeepsInv DEF LockTimeout, Fails
<1> QED
  BY <1>1, <1>2, ReadTargetKeepsInv, MakeTempKeepsInv, FillTempKeepsInv,
     InstallKeepsInv, OpenTargetKeepsInv, LockTargetKeepsInv, RecheckKeepsInv,
     SwapAwayKeepsInv
     DEF Progress

-----------------------------------------------------------------------------
(* Everybody else.                                                          *)

\* An editor locks a file that nobody has locked, writes to it or closes it.
LEMMA EditorKeepsInv ==
  ASSUME FileInv, NEW e \in Editors,
         \/ EditorLock(e) \/ EditorClose(e)
         \/ \E c \in Contents : EditorWrite(e, c)
  PROVE  FileInv'
<1>1. CASE EditorLock(e) \/ EditorClose(e)
  <2>1. PICK g \in {name, NoFile} :
          /\ editor' = [editor EXCEPT ![e] = g]
          /\ g # NoFile => ~Locked(g)
    BY <1>1 DEF EditorLock, EditorClose
  <2>2. /\ g \in Files \cup {NoFile}
        /\ UNCHANGED <<name, content, tool>>
        /\ \A x \in Editors : editor'[x] = IF x = e THEN g ELSE editor[x]
    BY <1>1, <2>1 DEF EditorLock, EditorClose, FileInv, TypeOK
  <2>3. TypeOK' /\ NeverPartial'
    BY <2>1, <2>2 DEF FileInv, TypeOK, NeverPartial, Shown
  <2>4. ASSUME NEW u \in Tools
        PROVE  (ShapeOf(tool[u]) /\ Filled(tool[u]) /\ Expected(tool[u]))'
    BY <2>2, FileInvOf DEF ShapeOf, Filled, Expected
  <2>5. ASSUME NEW u \in Tools PROVE Private(u)'
    BY <2>1, <2>2, FileInvOf DEF Private
  <2>6. ASSUME NEW u \in Tools PROVE Exclusive(u)'
    <3>1. tool[u].pc \in Locking => tool[u].fd # g
      BY <2>1, FileInvOf, FileAssumption DEF Locked, LockedBy, Locking, Opened
    <3> QED
      BY <2>2, <3>1, FileInvOf DEF Exclusive, Locking
  <2> QED
    BY <2>3, <2>4, <2>5, <2>6 DEF FileInv
<1>2. ASSUME NEW c \in Contents, EditorWrite(e, c) PROVE FileInv'
  <2> DEFINE g == editor[e]
  <2>1. /\ g \in Files /\ UNCHANGED <<name, tool, editor>>
        /\ content' = [content EXCEPT ![g] = c]
    BY <1>2 DEF EditorWrite, FileInv, TypeOK
  <2>2. \A h \in Files : content'[h] = IF h = g THEN c ELSE content[h]
    BY <2>1 DEF FileInv, TypeOK
  <2> HIDE DEF g
  <2>3. TypeOK' /\ NeverPartial'
    BY <2>1, <2>2, PartialAssumption, FileAssumption
    DEF FileInv, TypeOK, NeverPartial, Shown
  <2>4. ASSUME NEW u \in Tools
        PROVE  (ShapeOf(tool[u]) /\ Filled(tool[u]) /\ Expected(tool[u]))'
    <3>1. tool[u].pc \in WithTemp => tool[u].tmp # g
      BY FileInvOf, FileAssumption DEF Private, g
    <3>2. tool[u].pc \in Locking => tool[u].fd # g
      BY FileInvOf DEF Exclusive, Locking, g
    <3> QED
      BY <2>1, <2>2, <3>1, <3>2, FileInvOf
      DEF ShapeOf, Filled, Expected, Opened, Locking
  <2>5. ASSUME NEW u \in Tools PROVE (Private(u) /\ Exclusive(u))'
    BY <2>1, FileInvOf DEF Private, Exclusive
  <2> QED
    BY <2>3, <2>4, <2>5 DEF FileInv
<1> QED
  BY <1>1, <1>2

\* Another file is renamed to the path, or the file is deleted.
LEMMA ExternalKeepsInv ==
  ASSUME FileInv,
         \/ \E f \in Files, c \in Contents : ExternalRename(f, c)
         \/ ExternalDelete
  PROVE  FileInv'
<1>1. ASSUME NEW f \in Files, NEW c \in Contents, ExternalRename(f, c)
      PROVE  FileInv'
  <2>1. /\ \A u \in Tools : tool[u].tmp # f /\ tool[u].fd # f
        /\ name' = f /\ content' = [content EXCEPT ![f] = c]
        /\ UNCHANGED <<tool, editor>>
    BY <1>1 DEF ExternalRename, InUse, TempOf
  <2>2. \A h \in Files : content'[h] = IF h = f THEN c ELSE content[h]
    BY <2>1 DEF FileInv, TypeOK
  <2>3. TypeOK' /\ NeverPartial'
    BY <2>1, <2>2, PartialAssumption, FileAssumption
    DEF FileInv, TypeOK, NeverPartial, Shown
  <2>4. ASSUME NEW u \in Tools
        PROVE  (ShapeOf(tool[u]) /\ Filled(tool[u]) /\ Expected(tool[u]))'
    BY <2>1, <2>2, FileInvOf DEF ShapeOf, Filled, Expected, Opened
  <2>5. ASSUME NEW u \in Tools PROVE (Private(u) /\ Exclusive(u))'
    BY <2>1, FileInvOf DEF Private, Exclusive
  <2> QED
    BY <2>3, <2>4, <2>5 DEF FileInv
<1>2. CASE ExternalDelete
  <2>1. name' = NoFile /\ UNCHANGED <<content, tool, editor>>
    BY <1>2 DEF ExternalDelete
  <2>2. TypeOK' /\ NeverPartial'
    BY <2>1, PartialAssumption DEF FileInv, TypeOK, NeverPartial, Shown
  <2>3. ASSUME NEW u \in Tools
        PROVE  /\ (ShapeOf(tool[u]) /\ Filled(tool[u]) /\ Expected(tool[u]))'
               /\ (Private(u) /\ Exclusive(u))'
    BY <2>1, FileInvOf DEF ShapeOf, Filled, Expected, Private, Exclusive
  <2> QED
    BY <2>2, <2>3 DEF FileInv
<1> QED
  BY <1>1, <1>2

-----------------------------------------------------------------------------
(* The invariant of the specification.                                      *)

LEMMA FileInit == Init => FileInv
<1> SUFFICES ASSUME Init PROVE FileInv
  OBVIOUS
<1>1. \A t \in Tools : tool[t] = Idle
  BY DEF Init
<1>2. Idle.pc = "idle" /\ Idle.tmp = NoFile /\ Idle.fd = NoFile
  BY DEF Idle
<1>3. TypeOK
  BY IdleIsTool DEF Init, TypeOK
<1>4. NeverPartial
  BY PartialAssumption DEF Init, NeverPartial, Shown
<1>5. ASSUME NEW t \in Tools
      PROVE  /\ ShapeOf(tool[t]) /\ Filled(tool[t]) /\ Expected(tool[t])
             /\ Private(t) /\ Exclusive(t)
  BY <1>1, <1>2
  DEF ShapeOf, Filled, Expected, Private, Exclusive, Locking, WithTemp, Opened
<1> QED
  BY <1>3, <1>4, <1>5 DEF FileInv

LEMMA FileStep == FileInv /\ [Next]_vars => FileInv'
<1> SUFFICES ASSUME FileInv, [Next]_vars PROVE FileInv'
  OBVIOUS
<1>1. CASE UNCHANGED vars
  BY <1>1 DEF vars, FileInv, TypeOK, NeverPartial, Shown, ShapeOf, Filled, Private,
     Exclusive, Expected
<1>2. CASE Outside
  BY <1>2, EditorKeepsInv, ExternalKeepsInv DEF Outside
<1> QED
  BY <1>1, <1>2, BeginKeepsInv, ProgressKeepsInv, CrashKeepsInv DEF Next

\* The inductive invariant: what the step of every call says of the files it
\* has, whatever the other calls and the editors do.
THEOREM FileInvariant == Spec => []FileInv
BY FileInit, FileStep, PTL DEF Spec

\* Every variable has its type.
THEOREM FileTypeOK == Spec => []TypeOK
<1>1. FileInv => TypeOK
  BY DEF FileInv
<1> QED
  BY <1>1, FileInvariant, PTL

\* The path never names a file of which only a part is written, however many
\* tools are killed at whatever step (file.go:82-87, docs/spec.md:373).
THEOREM PathIsWhole == Spec => []NeverPartial
<1>1. FileInv => NeverPartial
  BY DEF FileInv
<1> QED
  BY <1>1, FileInvariant, PTL

\* What a swap takes away or replaces is the content its caller expects, unless
\* the path names another file than the one that was opened and locked
\* (docs/spec.md:392).
THEOREM SwapIsExpected == Spec => SwapReplacesExpected
<1>1. FileInv => \A t \in Tools :
        tool[t].pc = "swap" /\ name = tool[t].fd => content[name] = tool[t].expected
  BY DEF FileInv, Expected
<1>2. FileInv /\ [Next]_vars =>
        [\A t \in Tools :
           /\ tool[t].pc = "swap" /\ tool'[t].pc \in {"away", "done"}
           /\ name = tool[t].fd
           => content[name] = tool[t].expected]_vars
  BY <1>1
<1> QED
  BY <1>2, FileInvariant, PTL DEF Spec, SwapReplacesExpected

\* Only the call that the step belongs to can succeed by it.
LEMMA OthersGoOn ==
  ASSUME FileInv, NEW t \in Tools, NEW u \in Tools, tool[u].pc # "done",
         \/ \E r : Step(t, r) /\ r.pc # "done"
         \/ \E step \in Steps \ {"done"} : Goto(t, step)
         \/ Return(t, "error")
         \/ t # u /\ \E r : Step(t, r)
  PROVE  tool'[u].pc # "done"
<1>1. tool \in [Tools -> Tool] /\ tool[t] \in Tool
  BY DEF FileInv, TypeOK
<1>2. \A step \in Steps : [tool[t] EXCEPT !.pc = step].pc = step
  BY <1>1 DEF Tool
<1>3. [tool[t] EXCEPT !.pc = "error", !.tmp = NoFile, !.fd = NoFile].pc = "error"
  BY <1>1 DEF Tool
<1>4. ASSUME NEW r, Step(t, r), t # u \/ r.pc # "done"
      PROVE  tool'[u].pc # "done"
  <2>1. tool'[u] = IF u = t THEN r ELSE tool[u]
    BY <1>1, <1>4 DEF Step
  <2> QED
    BY <1>4, <2>1
<1>5. CASE \E r : Step(t, r) /\ r.pc # "done"
  BY <1>4, <1>5
<1>6. ASSUME NEW step \in Steps \ {"done"}, Goto(t, step)
      PROVE  tool'[u].pc # "done"
  <2> DEFINE r == [tool[t] EXCEPT !.pc = step]
  <2>1. Step(t, r)
    BY <1>6 DEF Goto
  <2>2. r.pc # "done"
    BY <1>2, <1>6
  <2> QED
    BY <1>4, <2>1, <2>2
<1>7. CASE Return(t, "error")
  <2> DEFINE r == [tool[t] EXCEPT !.pc = "error", !.tmp = NoFile, !.fd = NoFile]
  <2>1. Step(t, r)
    BY <1>7 DEF Return
  <2>2. r.pc # "done"
    BY <1>3
  <2> QED
    BY <1>4, <2>1, <2>2
<1>8. CASE t # u /\ \E r : Step(t, r)
  BY <1>4, <1>8
<1> QED
  BY <1>5, <1>6, <1>7, <1>8

\* A call to create_file succeeds by Install, where the path names no file.
LEMMA CreateDone ==
  ASSUME FileInv, [Next]_vars, NEW u \in Tools, tool[u].op = "create",
         tool[u].pc # "done", tool'[u].pc = "done"
  PROVE  name = NoFile
<1>1. CASE tool' = tool
  BY <1>1
<1>2. ASSUME NEW t \in Tools, Begin(t) PROVE FALSE
  <2>1. ASSUME NEW d \in Contents, BeginCreate(t, d) PROVE FALSE
    <3> DEFINE r == [Idle EXCEPT !.op = "create", !.data = d,
                       !.pc = IF name = NoFile THEN "temp" ELSE "error"]
    <3>1. r.pc # "done"
      BY DEF Idle
    <3>2. Step(t, r)
      BY <2>1 DEF BeginCreate
    <3> QED
      BY <3>1, <3>2, OthersGoOn
  <2>2. ASSUME NEW op \in Ops, NEW e \in Contents, NEW d \in Contents,
               BeginWrite(t, op, e, d)
        PROVE  FALSE
    <3> DEFINE r == [Idle EXCEPT !.op = op, !.pc = "read", !.expected = e,
                       !.data = d]
    <3>1. r.pc # "done"
      BY DEF Idle
    <3>2. Step(t, r)
      BY <2>2 DEF BeginWrite
    <3> QED
      BY <3>1, <3>2, OthersGoOn
  <2> QED
    BY <1>2, <2>1, <2>2 DEF Begin
<1>3. ASSUME NEW t \in Tools, Crash(t) PROVE FALSE
  BY <1>3, OthersGoOn DEF Crash, Idle
<1>4. ASSUME NEW t \in Tools,
             \/ ReadTarget(t) \/ FillTemp(t) \/ LockTarget(t) \/ LockTimeout(t)
             \/ Recheck(t) \/ SwapAway(t) \/ Fails(t)
      PROVE  FALSE
  BY <1>4, OthersGoOn
  DEF ReadTarget, FillTemp, LockTarget, LockTimeout, Recheck, SwapAway, Fails, Steps
<1>5. ASSUME NEW t \in Tools, NEW f \in Files, MakeTemp(t, f) PROVE FALSE
  <2> DEFINE r == [tool[t] EXCEPT !.pc = "fill", !.tmp = f]
  <2>1. r.pc # "done"
    BY FileInvOf DEF Tool
  <2>2. Step(t, r)
    BY <1>5 DEF MakeTemp
  <2> QED
    BY <2>1, <2>2, OthersGoOn
<1>6. ASSUME NEW t \in Tools, OpenTarget(t) PROVE FALSE
  <2> DEFINE r == [tool[t] EXCEPT !.pc = "lock", !.fd = name]
  <2>1. r.pc # "done"
    BY FileInvOf DEF Tool
  <2>2. Step(t, r) \/ Return(t, "error")
    BY <1>6 DEF OpenTarget
  <2> QED
    BY <2>1, <2>2, OthersGoOn
<1>7. ASSUME NEW t \in Tools, Install(t) PROVE name = NoFile
  BY <1>7, OthersGoOn DEF Install
<1>8. ASSUME NEW t \in Tools, Swap(t) PROVE FALSE
  <2>1. t # u
    BY <1>8, FileInvOf DEF Swap, ShapeOf, Opened
  <2> QED
    BY <1>8, <2>1, OthersGoOn DEF Swap, Return
<1>9. Outside \/ UNCHANGED vars => tool' = tool
  BY DEF Outside, EditorLock, EditorClose, EditorWrite, ExternalRename,
     ExternalDelete, vars
<1> QED
  BY <1>1, <1>2, <1>3, <1>4, <1>5, <1>6, <1>7, <1>8, <1>9 DEF Next, Progress

\* create_file succeeds only where nothing was, also when two of them race
\* past the first look at the path (file.go:82-84).
THEOREM CreateIsExclusive == Spec => CreateNeverOverwrites
<1>1. FileInv /\ [Next]_vars =>
        [\A t \in Tools :
           /\ tool[t].op = "create" /\ tool[t].pc # "done" /\ tool'[t].pc = "done"
           => name = NoFile]_vars
  BY CreateDone
<1> QED
  BY <1>1, FileInvariant, PTL DEF Spec, CreateNeverOverwrites

-----------------------------------------------------------------------------
(* Calls are atomic.  A step of the tools is a step of the abstract file:   *)
(* the call begins, goes on, clears the path, succeeds, fails or dies.      *)

Views == [t \in Tools |-> CallOf(t)]
IsOver == {"idle", "done", "error"}

\* What others see of a call in the state r.
View(r) ==
  IF r.pc = "idle" THEN [state |-> "none"]
  ELSE [op    |-> IF r.op = "create" THEN "create" ELSE "replace",
        data  |-> r.data,
        state |-> StateAt(r.pc),
        at    |-> r.pc]

\* A step of one call changes what is seen of that call.
LEMMA ViewStep ==
  ASSUME FileInv, NEW t \in Tools, NEW r \in Tool, Step(t, r)
  PROVE  /\ Views[t] = View(tool[t])
         /\ Views' = [Views EXCEPT ![t] = View(r)]
<1>1. \A u \in Tools : tool'[u] = IF u = t THEN r ELSE tool[u]
  BY DEF FileInv, TypeOK, Step
<1>2. \A u \in Tools : CallOf(u) = View(tool[u])
  BY DEF CallOf, View
<1>3. \A u \in Tools : CallOf(u)' = View(tool'[u])
  BY DEF CallOf, View
<1>4. Views = [u \in Tools |-> View(tool[u])]
  BY <1>2 DEF Views
<1>5. Views' = [u \in Tools |-> View(tool'[u])]
  BY <1>3 DEF Views
<1> QED
  BY <1>1, <1>4, <1>5

\* A call that goes on or ends: how it stood, and how it stands now.
LEMMA CallStep ==
  ASSUME FileInv, NEW t \in Tools, NEW r \in Tool, Step(t, r),
         r.op = tool[t].op, r.data = tool[t].data,
         tool[t].pc \notin IsOver, r.pc # "idle"
  PROVE  /\ Views[t].state = StateAt(tool[t].pc) /\ Views[t].data = tool[t].data
         /\ Views[t].op = IF tool[t].op = "create" THEN "create" ELSE "replace"
         /\ File!Becomes(t, StateAt(r.pc))
<1> DEFINE op == IF tool[t].op = "create" THEN "create" ELSE "replace"
<1>1. Views[t] = View(tool[t]) /\ Views' = [Views EXCEPT ![t] = View(r)]
  BY ViewStep
<1>2. View(tool[t]) = [op |-> op, data |-> tool[t].data,
                       state |-> StateAt(tool[t].pc), at |-> tool[t].pc]
  BY DEF View, IsOver
<1>3. View(r) = [op |-> op, data |-> tool[t].data, state |-> StateAt(r.pc),
                 at |-> r.pc]
  BY DEF View
<1> HIDE DEF op
<1>4. /\ View(tool[t]).op = op /\ View(tool[t]).data = tool[t].data
      /\ View(tool[t]).state = StateAt(tool[t].pc)
  BY <1>2
<1>5. r.pc \in Steps
  BY DEF Tool
<1>6. View(r) = [op |-> Views[t].op, data |-> Views[t].data,
                 state |-> StateAt(r.pc), at |-> r.pc]
  BY <1>1, <1>3, <1>4
<1>7. Views' = [Views EXCEPT ![t] = [op |-> @.op, data |-> @.data,
                                     state |-> StateAt(r.pc), at |-> r.pc]]
  BY <1>1, <1>6
<1>8. File!Becomes(t, StateAt(r.pc))
  BY <1>5, <1>7 DEF File!Becomes, Views
<1> QED
  BY <1>1, <1>4, <1>8 DEF op

\* A call that runs goes on, and the file is as it was.
LEMMA WorkSimulates ==
  ASSUME FileInv, NEW t \in Tools, NEW r \in Tool, Step(t, r),
         r.op = tool[t].op, r.data = tool[t].data,
         tool[t].pc \notin IsOver \cup {"away"}, r.pc \notin IsOver \cup {"away"},
         Shown' = Shown
  PROVE  File!FileNext
<1>1. StateAt(tool[t].pc) = "running" /\ StateAt(r.pc) = "running"
  BY DEF StateAt, IsOver
<1>2. Views[t].state = "running" /\ File!Becomes(t, "running")
  BY <1>1, CallStep DEF IsOver
<1>3. File!Work(t)
  BY <1>2 DEF File!Work, File!Running, Views
<1> QED
  BY <1>3 DEF File!FileNext

\* The record of a call that returns.
LEMMA ReturnRecord ==
  ASSUME FileInv, NEW t \in Tools, NEW result \in {"done", "error"},
         Return(t, result)
  PROVE  \E r \in Tool : /\ Step(t, r) /\ r.pc = result
                         /\ r.op = tool[t].op /\ r.data = tool[t].data
<1> DEFINE r == [tool[t] EXCEPT !.pc = result, !.tmp = NoFile, !.fd = NoFile]
<1>1. tool[t] \in Tool
  BY FileInvOf
<1>2. r \in Tool /\ r.pc = result /\ r.op = tool[t].op /\ r.data = tool[t].data
  BY <1>1 DEF Tool, Steps
<1>3. Step(t, r)
  BY DEF Return
<1> QED
  BY <1>2, <1>3

\* A call fails, and leaves the path as it was.
LEMMA ErrorSimulates ==
  ASSUME FileInv, NEW t \in Tools, tool[t].pc \notin IsOver,
         Return(t, "error"), UNCHANGED <<name, content>>
  PROVE  File!FileNext
<1>1. Shown' = Shown
  BY DEF Shown
<1>2. PICK r \in Tool : /\ Step(t, r) /\ r.pc = "error"
                       /\ r.op = tool[t].op /\ r.data = tool[t].data
  BY ReturnRecord
<1>3. /\ StateAt(tool[t].pc) \in {"running", "cleared"}
      /\ StateAt(r.pc) = "error"
  BY <1>2 DEF StateAt, IsOver
<1>4. Views[t].state \in {"running", "cleared"} /\ File!Becomes(t, "error")
  BY <1>2, <1>3, CallStep
<1>5. File!Fail(t)
  BY <1>1, <1>4 DEF File!Fail, File!Running, File!Cleared, Views
<1> QED
  BY <1>5 DEF File!FileNext

\* A call succeeds where the path is given the name of its full file.
LEMMA DoneSimulates ==
  ASSUME FileInv, NEW t \in Tools, tool[t].pc \in {"install", "swap", "away"},
         tool[t].op = "create" => name = NoFile,
         name' = tool[t].tmp, Return(t, "done"), UNCHANGED <<content, editor>>
  PROVE  File!FileNext
<1>1. Shown' = tool[t].data
  BY NameTempKeepsInv
<1>2. PICK r \in Tool : /\ Step(t, r) /\ r.pc = "done"
                       /\ r.op = tool[t].op /\ r.data = tool[t].data
  BY ReturnRecord
<1>3. /\ StateAt(tool[t].pc) \in {"running", "cleared"}
      /\ StateAt(r.pc) = "done" /\ tool[t].pc \notin IsOver
  BY <1>2 DEF StateAt, IsOver
<1>4. /\ Views[t].state \in {"running", "cleared"} /\ File!Becomes(t, "done")
      /\ Views[t].data = tool[t].data
      /\ Views[t].op = "create" => tool[t].op = "create"
  BY <1>2, <1>3, CallStep
<1>5. Views[t].op = "create" => Shown = NoFile
  BY <1>4 DEF Shown
<1>6. File!Succeed(t)
  BY <1>1, <1>4, <1>5 DEF File!Succeed, File!Running, File!Cleared, Views
<1> QED
  BY <1>6 DEF File!FileNext

\* A replace takes the old file away.
LEMMA ClearSimulates ==
  ASSUME FileInv, NEW t \in Tools, SwapAway(t)
  PROVE  File!FileNext
<1> DEFINE r == [tool[t] EXCEPT !.pc = "away"]
<1>1. r \in Tool /\ r.pc = "away" /\ r.op = tool[t].op /\ r.data = tool[t].data
  BY FileInvOf DEF Tool, Steps
<1>2. Step(t, r) /\ tool[t].pc = "swap" /\ Shown' = NoFile
  BY DEF SwapAway, Goto, Shown
<1>3. tool[t].op # "create"
  BY <1>2, FileInvOf DEF ShapeOf, Opened
<1> HIDE DEF r
<1>4. /\ StateAt(tool[t].pc) = "running" /\ StateAt(r.pc) = "cleared"
      /\ tool[t].pc \notin IsOver /\ r.pc # "idle"
  BY <1>1, <1>2 DEF StateAt, IsOver
<1>5. /\ Views[t].state = "running" /\ File!Becomes(t, "cleared")
      /\ Views[t].op = "replace"
  BY <1>1, <1>2, <1>3, <1>4, CallStep
<1>6. File!Clear(t)
  BY <1>2, <1>5 DEF File!Clear, File!Running, Views
<1> QED
  BY <1>6 DEF File!FileNext

\* A call goes on.
LEMMA GotoSimulates ==
  ASSUME FileInv, NEW t \in Tools, NEW step \in Steps \ (IsOver \cup {"away"}),
         tool[t].pc \notin IsOver \cup {"away"}, Goto(t, step), Shown' = Shown
  PROVE  File!FileNext
<1> DEFINE r == [tool[t] EXCEPT !.pc = step]
<1>1. r \in Tool /\ r.pc = step /\ r.op = tool[t].op /\ r.data = tool[t].data
  BY FileInvOf DEF Tool
<1>2. Step(t, r)
  BY DEF Goto
<1> HIDE DEF r
<1> QED
  BY <1>1, <1>2, WorkSimulates

LEMMA BeginSimulates ==
  ASSUME FileInv, NEW t \in Tools, Begin(t)
  PROVE  File!FileNext
<1>1. ASSUME NEW r \in Tool, Step(t, r), UNCHANGED <<name, content>>,
             r.pc \in {"temp", "read", "error"}, Ready(t)
      PROVE  File!FileNext
  <2>1. Views[t] = View(tool[t]) /\ Views' = [Views EXCEPT ![t] = View(r)]
    BY <1>1, ViewStep
  <2>2. View(tool[t]).state \notin {"running", "cleared"}
    BY <1>1 DEF View, Ready, StateAt
  <2>3. View(r) \in File!Calls /\ View(r).state \in {"running", "error"}
    BY <1>1 DEF View, StateAt, File!Calls, Tool
  <2>4. Shown' = Shown
    BY <1>1 DEF Shown
  <2>5. Views'[t] = View(r)
    BY <2>1 DEF Views
  <2>6. File!Begin(t)
    BY <2>1, <2>2, <2>3, <2>4, <2>5
    DEF File!Begin, File!Running, File!Cleared, Views
  <2> QED
    BY <2>6 DEF File!FileNext
<1>2. ASSUME NEW d \in Contents, BeginCreate(t, d) PROVE File!FileNext
  <2> DEFINE r == [Idle EXCEPT !.op = "create", !.data = d,
                     !.pc = IF name = NoFile THEN "temp" ELSE "error"]
  <2>1. r \in Tool /\ r.pc \in {"temp", "error"}
    BY IdleIsTool DEF Tool, Ops, Steps
  <2>2. Step(t, r) /\ UNCHANGED <<name, content>> /\ Ready(t)
    BY <1>2 DEF BeginCreate
  <2> HIDE DEF r
  <2> QED
    BY <1>1, <2>1, <2>2
<1>3. ASSUME NEW op \in Ops, NEW e \in Contents, NEW d \in Contents,
             BeginWrite(t, op, e, d)
      PROVE  File!FileNext
  <2> DEFINE r == [Idle EXCEPT !.op = op, !.pc = "read", !.expected = e, !.data = d]
  <2>1. r \in Tool /\ r.pc = "read"
    BY IdleIsTool DEF Tool, Steps
  <2>2. Step(t, r) /\ UNCHANGED <<name, content>> /\ Ready(t)
    BY <1>3 DEF BeginWrite
  <2> HIDE DEF r
  <2> QED
    BY <1>1, <2>1, <2>2
<1> QED
  BY <1>2, <1>3 DEF Begin

LEMMA CrashSimulates ==
  ASSUME FileInv, NEW t \in Tools, Crash(t)
  PROVE  File!FileNext
<1>1. Views[t] = View(tool[t]) /\ Views' = [Views EXCEPT ![t] = View(Idle)]
  BY IdleIsTool, ViewStep DEF Crash
<1>2. View(tool[t]).state \in {"running", "cleared"} /\ View(Idle) = File!NoCall
  BY DEF Crash, Ready, View, StateAt, Idle, File!NoCall
<1>3. Shown' = Shown
  BY DEF Crash, Shown
<1>4. File!Die(t)
  BY <1>1, <1>2, <1>3 DEF File!Die, File!Running, File!Cleared, Views
<1> QED
  BY <1>4 DEF File!FileNext

\* A temporary file is made and filled behind the back of the path.
LEMMA TempSimulates ==
  ASSUME FileInv, NEW t \in Tools, (\E f \in Files : MakeTemp(t, f)) \/ FillTemp(t)
  PROVE  File!FileNext
<1>1. ASSUME NEW f \in Files, MakeTemp(t, f) PROVE File!FileNext
  <2> DEFINE r == [tool[t] EXCEPT !.pc = "fill", !.tmp = f]
  <2>1. r \in Tool /\ r.pc = "fill" /\ r.op = tool[t].op /\ r.data = tool[t].data
    BY FileInvOf DEF Tool, Steps
  <2>2. Step(t, r) /\ tool[t].pc = "temp"
    BY <1>1 DEF MakeTemp
  <2> HIDE DEF r
  <2>3. Shown' = Shown
    BY <1>1 DEF MakeTemp, InUse, Shown, FileInv, TypeOK
  <2> QED
    BY <2>1, <2>2, <2>3, WorkSimulates DEF IsOver
<1>2. CASE FillTemp(t)
  <2> DEFINE step == IF tool[t].op = "create" THEN "install" ELSE "target"
  <2>1. /\ Goto(t, step) /\ tool[t].pc = "fill"
        /\ step \in Steps \ (IsOver \cup {"away"})
    BY <1>2 DEF FillTemp, IsOver, Steps
  <2>2. tool[t].tmp # name
    BY <1>2, FileInvOf, FileAssumption DEF FillTemp, Private, WithTemp
  <2>3. Shown' = Shown
    BY <1>2, <2>2 DEF FillTemp, Shown, FileInv, TypeOK
  <2> HIDE DEF step
  <2> QED
    BY <2>1, <2>3, GotoSimulates DEF IsOver
<1> QED
  BY <1>1, <1>2

LEMMA ProgressSimulates ==
  ASSUME FileInv, NEW t \in Tools, Progress(t)
  PROVE  File!FileNext
<1>1. UNCHANGED <<name, content>> => Shown' = Shown
  BY DEF Shown
<1>2. CASE ReadTarget(t) \/ LockTarget(t) \/ LockTimeout(t) \/ Recheck(t) \/ Fails(t)
  <2>1. UNCHANGED <<name, content>> /\ tool[t].pc \notin IsOver
    BY <1>2 DEF ReadTarget, LockTarget, LockTimeout, Recheck, Fails, IsOver
  <2>2. \/ Return(t, "error")
        \/ /\ tool[t].pc # "away"
           /\ \E step \in {"temp", "recheck", "swap"} : Goto(t, step)
    BY <1>2 DEF ReadTarget, LockTarget, LockTimeout, Recheck, Fails
  <2> QED
    BY <1>1, <2>1, <2>2, ErrorSimulates, GotoSimulates DEF IsOver, Steps
<1>3. CASE OpenTarget(t)
  <2>1. UNCHANGED <<name, content>> /\ tool[t].pc = "target"
    BY <1>3 DEF OpenTarget
  <2>2. CASE name = NoFile
    BY <1>3, <2>1, <2>2, ErrorSimulates DEF OpenTarget, IsOver
  <2>3. CASE name # NoFile
    <3> DEFINE r == [tool[t] EXCEPT !.pc = "lock", !.fd = name]
    <3>1. r \in Tool /\ r.pc = "lock" /\ r.op = tool[t].op /\ r.data = tool[t].data
      BY FileInvOf DEF Tool, Steps, FileInv, TypeOK
    <3>2. Step(t, r)
      BY <1>3, <2>3 DEF OpenTarget
    <3> HIDE DEF r
    <3> QED
      BY <1>1, <2>1, <3>1, <3>2, WorkSimulates DEF IsOver
  <2> QED
    BY <2>2, <2>3
<1>4. CASE Install(t)
  <2>1. CASE name = NoFile
    BY <1>4, <2>1, DoneSimulates DEF Install
  <2>2. CASE name # NoFile
    BY <1>4, <2>2, ErrorSimulates DEF Install, IsOver
  <2> QED
    BY <2>1, <2>2
<1>5. CASE Swap(t)
  <2>1. tool[t].op # "create"
    BY <1>5, FileInvOf DEF Swap, ShapeOf, Opened
  <2> QED
    BY <1>5, <2>1, DoneSimulates DEF Swap
<1> QED
  BY <1>2, <1>3, <1>4, <1>5, ClearSimulates, TempSimulates DEF Progress

LEMMA OutsideSimulates ==
  ASSUME FileInv', Outside
  PROVE  File!FileNext
<1>1. tool' = tool
  BY DEF Outside, EditorLock, EditorClose, EditorWrite, ExternalRename, ExternalDelete
<1>2. Shown' \in Contents \cup {NoFile}
  BY DEF FileInv, TypeOK, NeverPartial, Shown
<1>3. Views' = Views
  BY <1>1 DEF Views, CallOf
<1>4. File!Others
  BY <1>2, <1>3 DEF File!Others, Views
<1> QED
  BY <1>4 DEF File!FileNext

\* Whatever is interleaved, crashes or fails, a tool's own steps change what
\* the path shows only when its call succeeds, and then to exactly what it was
\* asked to write, or, in a replace, when the old file is taken away: only a
\* call that fails or dies between these two leaves the path changed, without
\* a file (file.go:82-87, 126-128, 176-182, docs/spec.md:373).
THEOREM CallsAreAtomic == Spec => ImplementsAtomicFile
<1>1. Init => File!FileInit
  <2> SUFFICES ASSUME Init PROVE File!FileInit
    OBVIOUS
  <2>1. Shown \in Contents \cup {NoFile}
    BY DEF Init, Shown
  <2>2. Views = [t \in Tools |-> File!NoCall]
    BY DEF Init, Views, CallOf, Idle, File!NoCall
  <2> QED
    BY <2>1, <2>2 DEF File!FileInit, Views
<1>2. FileInv /\ FileInv' /\ [Next]_vars => [File!FileNext]_(File!file)
  <2> SUFFICES ASSUME FileInv, FileInv', [Next]_vars
               PROVE  File!FileNext \/ UNCHANGED File!file
    OBVIOUS
  <2>1. CASE UNCHANGED vars
    BY <2>1 DEF vars, File!file, Shown, CallOf
  <2> QED
    BY <2>1, BeginSimulates, ProgressSimulates, CrashSimulates, OutsideSimulates
    DEF Next
<1> QED
  BY <1>1, <1>2, FileInvariant, PTL DEF Spec, ImplementsAtomicFile, File!FileSpec
=============================================================================
