----------------------------- MODULE FileTools -----------------------------
(***************************************************************************)
(* create_file, write_file and apply_patch (internal/filetools) on one     *)
(* path of the workspace, by tools that run at the same time -- Brunel     *)
(* starts a process for every call -- and next to editors that know        *)
(* nothing of Brunel.  A file has an identity (a file number) apart from   *)
(* its name: a rename gives the name another file, and a lock or a read    *)
(* through an open handle stays with the file that was opened.             *)
(*                                                                         *)
(* The SHA-256 of a content stands for the content (no collisions).  What  *)
(* apply_patch computes from the lines is any content or a conflict.       *)
(***************************************************************************)
EXTENDS Integers, FiniteSets

CONSTANTS Tools,     \* tool calls, each its own process
          Editors,   \* programs that write in place, under the lock
          Contents,  \* whole contents of the file
          Partial,   \* a content of which only a part is written
          Files,     \* file numbers
          NoFile,    \* no file of that name, or no file open
          Renames,   \* TRUE: an editor may also replace or delete the file
          IOErrors   \* TRUE: file operations may fail

ASSUME PartialAssumption == Partial \notin Contents \cup {NoFile}
ASSUME ContentAssumption == Contents # {}  \* the empty one, say
ASSUME FileAssumption == NoFile \notin Files
ASSUME SwitchAssumption == Renames \in BOOLEAN /\ IOErrors \in BOOLEAN

VARIABLES name,     \* the file the path names, or NoFile
          content,  \* content[f]: what is in file f
          tool,     \* tool[t]: the call that t is in
          editor    \* editor[e]: the file e has open and locked, or NoFile

vars == <<name, content, tool, editor>>

Ops == {"none", "create", "write", "patch"}
Steps == {"idle", "read", "temp", "fill", "install", "target", "lock",
          "recheck", "swap", "away", "done", "error"}

Tool == [op       : Ops,
         pc       : Steps,
         expected : Contents,             \* expected_hash
         data     : Contents,             \* what to write
         tmp      : Files \cup {NoFile},  \* the temporary file
         fd       : Files \cup {NoFile}]  \* the target, open for the lock

Idle == [op |-> "none", pc |-> "idle", tmp |-> NoFile, fd |-> NoFile,
         expected |-> CHOOSE c \in Contents : TRUE,
         data     |-> CHOOSE c \in Contents : TRUE]

Step(t, r) == tool' = [tool EXCEPT ![t] = r]
Goto(t, step) == Step(t, [tool[t] EXCEPT !.pc = step])

\* A call returns; the deferred calls close the handle and remove the
\* temporary file.  Its result stays to be seen until the tool is used again.
Return(t, result) == Step(t, [tool[t] EXCEPT !.pc = result, !.tmp = NoFile,
                                             !.fd = NoFile])

TempOf(f) == \E t \in Tools : tool[t].tmp = f
InUse(f) == \/ name = f \/ TempOf(f)
            \/ \E t \in Tools : tool[t].fd = f
            \/ \E e \in Editors : editor[e] = f

\* The exclusive lock of lockFileExclusive, held from "recheck" to the end.
Locking == {"recheck", "swap", "away"}
LockedBy(t, f) == tool[t].fd = f /\ tool[t].pc \in Locking
Locked(f) == \/ \E t \in Tools : LockedBy(t, f)
             \/ \E e \in Editors : editor[e] = f

Init == /\ name \in Files \cup {NoFile}
        /\ content \in [Files -> Contents]
        /\ tool = [t \in Tools |-> Idle]
        /\ editor = [e \in Editors |-> NoFile]

-----------------------------------------------------------------------------
(* The calls.                                                               *)

Ready(t) == tool[t].pc \in {"idle", "done", "error"}

\* CreateFile: Lstat finds nothing, or the call fails.
BeginCreate(t, d) ==
  /\ Ready(t)
  /\ Step(t, [Idle EXCEPT !.op = "create", !.data = d,
                !.pc = IF name = NoFile THEN "temp" ELSE "error"])
  /\ UNCHANGED <<name, content, editor>>

\* WriteFile and ApplyPatch, with the hash of what the caller last read.
BeginWrite(t, op, e, d) ==
  /\ Ready(t) /\ op \in {"write", "patch"}
  /\ Step(t, [Idle EXCEPT !.op = op, !.pc = "read", !.expected = e,
                          !.data = d])
  /\ UNCHANGED <<name, content, editor>>

\* readExistingFile and the first check of the hash.  On Windows a file that
\* somebody has locked cannot be read; a patch may not fit.
ReadTarget(t) ==
  /\ tool[t].pc = "read"
  /\ \/ /\ name # NoFile /\ content[name] = tool[t].expected
        /\ Goto(t, "temp")
     \/ /\ \/ name = NoFile
           \/ name # NoFile /\ content[name] # tool[t].expected
           \/ name # NoFile /\ Locked(name)
           \/ tool[t].op = "patch"
           \/ IOErrors
        /\ Return(t, "error")
  /\ UNCHANGED <<name, content, editor>>

\* Mutant of MakeTemp: the data is left for later.
MakeTempUnfilled(t, f) ==
  /\ tool[t].pc = "temp" /\ ~InUse(f)
  /\ content' = [content EXCEPT ![f] = Partial]
  /\ Step(t, [tool[t] EXCEPT !.tmp = f,
                !.pc = IF tool[t].op = "create" THEN "install" ELSE "target"])
  /\ UNCHANGED <<name, editor>>

\* A temporary file next to the target: created, then filled and synced.
MakeTemp(t, f) ==
  /\ tool[t].pc = "temp" /\ ~InUse(f)
  /\ content' = [content EXCEPT ![f] = Partial]
  /\ Step(t, [tool[t] EXCEPT !.pc = "fill", !.tmp = f])
  /\ UNCHANGED <<name, editor>>

\* Mutant of FillTemp: what was there is not truncated away.
FillTempJoined(t) ==
  /\ tool[t].pc = "fill"
  /\ content' = [content EXCEPT ![tool[t].tmp] = <<@, tool[t].data>>]
  /\ Goto(t, IF tool[t].op = "create" THEN "install" ELSE "target")
  /\ UNCHANGED <<name, editor>>

\* Mutant of FillTemp: the target is written in place.
FillTempInPlace(t) ==
  /\ tool[t].pc = "fill"
  /\ LET f == IF name = NoFile THEN tool[t].tmp ELSE name IN
     content' = [content EXCEPT ![f] = tool[t].data]
  /\ Goto(t, IF tool[t].op = "create" THEN "install" ELSE "target")
  /\ UNCHANGED <<name, editor>>

FillTemp(t) ==
  /\ tool[t].pc = "fill"
  /\ content' = [content EXCEPT ![tool[t].tmp] = tool[t].data]
  /\ Goto(t, IF tool[t].op = "create" THEN "install" ELSE "target")
  /\ UNCHANGED <<name, editor>>

\* Mutant of Install: a rename that replaces.
InstallOver(t) ==
  /\ tool[t].pc = "install"
  /\ name' = tool[t].tmp /\ Return(t, "done")
  /\ UNCHANGED <<content, editor>>

\* installNewFile: link(2), or MoveFileEx without REPLACE_EXISTING.
Install(t) ==
  /\ tool[t].pc = "install"
  /\ IF name = NoFile THEN name' = tool[t].tmp /\ Return(t, "done")
                      ELSE name' = name /\ Return(t, "error")
  /\ UNCHANGED <<content, editor>>

\* openLockable: from here on fd is a file, whatever the path names later.
OpenTarget(t) ==
  /\ tool[t].pc = "target"
  /\ IF name # NoFile THEN Step(t, [tool[t] EXCEPT !.pc = "lock", !.fd = name])
                      ELSE Return(t, "error")
  /\ UNCHANGED <<name, content, editor>>

\* Mutant of LockTarget: a lock that excludes nobody.
LockTargetShared(t) ==
  /\ tool[t].pc = "lock"
  /\ Goto(t, "recheck")
  /\ UNCHANGED <<name, content, editor>>

LockTarget(t) ==
  /\ tool[t].pc = "lock" /\ ~Locked(tool[t].fd)
  /\ Goto(t, "recheck")
  /\ UNCHANGED <<name, content, editor>>

\* lockTargetForReplace gives up when the lock stays taken for 100 ms.
LockTimeout(t) ==
  /\ tool[t].pc = "lock" /\ Locked(tool[t].fd)
  /\ Return(t, "error")
  /\ UNCHANGED <<name, content, editor>>

\* The second check of the hash, read through the locked handle.
Recheck(t) ==
  /\ tool[t].pc = "recheck"
  /\ IF content[tool[t].fd] = tool[t].expected THEN Goto(t, "swap")
                                               ELSE Return(t, "error")
  /\ UNCHANGED <<name, content, editor>>

\* replaceExistingFile: ReplaceFileW without a backup name, where the path
\* names a file, may take that file away before it moves the new one in.
SwapAway(t) ==
  /\ tool[t].pc = "swap" /\ name # NoFile
  /\ name' = NoFile
  /\ Goto(t, "away")
  /\ UNCHANGED <<content, editor>>

\* The path names the temporary file from now on; MoveFileExW has the same
\* effect where the path names nothing.
Swap(t) ==
  /\ tool[t].pc \in {"swap", "away"}
  /\ name' = tool[t].tmp
  /\ Return(t, "done")
  /\ UNCHANGED <<content, editor>>

\* Any of these steps may fail; the call returns an error.  At "away" that is
\* ERROR_UNABLE_TO_MOVE_REPLACEMENT: the old file is gone, and the new one is
\* removed with the other things of the call.
Fails(t) ==
  /\ IOErrors
  /\ tool[t].pc \in {"temp", "fill", "install", "target", "lock", "recheck",
                     "swap", "away"}
  /\ Return(t, "error")
  /\ UNCHANGED <<name, content, editor>>

-----------------------------------------------------------------------------
(* The environment.                                                         *)

\* The process dies; its temporary file is left behind under its own name, and
\* a file that was taken away stays away.
Crash(t) == /\ ~Ready(t)
            /\ Step(t, Idle)
            /\ UNCHANGED <<name, content, editor>>

\* An editor that honours the lock: opens the file, locks it, changes it in
\* place and closes it.
EditorLock(e) == /\ editor[e] = NoFile /\ name # NoFile /\ ~Locked(name)
                 /\ editor' = [editor EXCEPT ![e] = name]
                 /\ UNCHANGED <<name, content, tool>>

EditorWrite(e, c) == /\ editor[e] # NoFile
                     /\ content' = [content EXCEPT ![editor[e]] = c]
                     /\ UNCHANGED <<name, tool, editor>>

EditorClose(e) == /\ editor[e] # NoFile
                  /\ editor' = [editor EXCEPT ![e] = NoFile]
                  /\ UNCHANGED <<name, content, tool>>

\* An editor that writes a new file and renames it, or deletes the file.
ExternalRename(f, c) == /\ Renames /\ ~InUse(f)
                        /\ name' = f
                        /\ content' = [content EXCEPT ![f] = c]
                        /\ UNCHANGED <<tool, editor>>

ExternalDelete == /\ Renames /\ name # NoFile
                  /\ name' = NoFile
                  /\ UNCHANGED <<content, tool, editor>>

Begin(t) == \/ \E d \in Contents : BeginCreate(t, d)
            \/ \E op \in Ops, e, d \in Contents : BeginWrite(t, op, e, d)

Progress(t) == \/ ReadTarget(t) \/ \E f \in Files : MakeTemp(t, f)
               \/ FillTemp(t) \/ Install(t) \/ OpenTarget(t) \/ LockTarget(t)
               \/ LockTimeout(t) \/ Recheck(t) \/ SwapAway(t) \/ Swap(t)
               \/ Fails(t)

Outside == \/ \E e \in Editors : EditorLock(e) \/ EditorClose(e)
           \/ \E e \in Editors, c \in Contents : EditorWrite(e, c)
           \/ \E f \in Files, c \in Contents : ExternalRename(f, c)
           \/ ExternalDelete

Next == (\E t \in Tools : Begin(t) \/ Progress(t) \/ Crash(t)) \/ Outside

Spec == Init /\ [][Next]_vars

\* A process that runs goes on; nobody else is obliged to do anything.
FairSpec == Spec /\ \A t \in Tools : WF_vars(Progress(t))
=============================================================================
