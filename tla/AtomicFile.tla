----------------------------- MODULE AtomicFile -----------------------------
(***************************************************************************)
(* What the file tools are to whoever calls them: a file that shows some   *)
(* whole content or is not there, and calls that change it when they       *)
(* succeed.  A replace may take the old content away first; if it fails or *)
(* dies then, there is no file.  Every step of a call shows in the call,   *)
(* so what Others do to the file no call can have done.                    *)
(***************************************************************************)
CONSTANTS Tools, Contents,
          NoFile,  \* there is no file
          Points   \* how far a call may be

VARIABLES shown,  \* what is there
          call    \* call[t]: a call, how it stands and how far it is

file == <<shown, call>>

Calls == [op : {"create", "replace"}, data : Contents, at : Points,
          state : {"running", "cleared", "done", "error"}]
NoCall == [state |-> "none"]

FileInit == /\ shown \in Contents \cup {NoFile}
            /\ call = [t \in Tools |-> NoCall]

Running(t) == call[t].state = "running"
Cleared(t) == call[t].state = "cleared"
Becomes(t, s) ==
  \E p \in Points : call' = [call EXCEPT ![t] = [op |-> @.op, data |-> @.data,
                                                state |-> s, at |-> p]]

\* A call begins, or is turned down at once.
Begin(t) == /\ ~Running(t) /\ ~Cleared(t)
            /\ call'[t] \in Calls /\ call'[t].state \in {"running", "error"}
            /\ call' = [call EXCEPT ![t] = call'[t]]
            /\ UNCHANGED shown

Work(t) == Running(t) /\ Becomes(t, "running") /\ UNCHANGED shown

Clear(t) == /\ Running(t) /\ call[t].op = "replace"
            /\ shown' = NoFile
            /\ Becomes(t, "cleared")

\* A file is created only where there is none.
Succeed(t) == /\ Running(t) \/ Cleared(t)
              /\ call[t].op = "create" => shown = NoFile
              /\ shown' = call[t].data
              /\ Becomes(t, "done")

Fail(t) == /\ Running(t) \/ Cleared(t)
           /\ Becomes(t, "error")
           /\ UNCHANGED shown

Die(t) == /\ Running(t) \/ Cleared(t)
          /\ call' = [call EXCEPT ![t] = NoCall]
          /\ UNCHANGED shown

Others == shown' \in Contents \cup {NoFile} /\ UNCHANGED call

FileNext == \/ Others
            \/ \E t \in Tools : \/ Begin(t) \/ Work(t) \/ Clear(t)
                                \/ Succeed(t) \/ Fail(t) \/ Die(t)

FileSpec == FileInit /\ [][FileNext]_file
=============================================================================
