--------------------------- MODULE FileProperties ---------------------------
(* What the file tools promise, stated over module FileTools.               *)
EXTENDS FileTools

\* Every variable has its type.
TypeOK == /\ name \in Files \cup {NoFile}
          /\ content \in [Files -> Contents \cup {Partial}]
          /\ tool \in [Tools -> Tool]
          /\ editor \in [Editors -> Files \cup {NoFile}]

\* What somebody who opens the path finds.
Shown == IF name = NoFile THEN NoFile ELSE content[name]

\* file.go:82-87 and docs/spec.md:373 (CT-4): whatever crashes or fails, the
\* path never names a file of which only a part is written.
NeverPartial == Shown # Partial

\* How a call stands that is at the step pc.
StateAt(pc) == IF pc \in {"idle", "done", "error"} THEN pc
               ELSE IF pc = "away" THEN "cleared" ELSE "running"

CallOf(t) ==
  IF tool[t].pc = "idle" THEN [state |-> "none"]
  ELSE [op    |-> IF tool[t].op = "create" THEN "create" ELSE "replace",
        data  |-> tool[t].data,
        state |-> StateAt(tool[t].pc),
        at    |-> tool[t].pc]

File == INSTANCE AtomicFile WITH shown <- Shown, Points <- Steps,
                                 call <- [t \in Tools |-> CallOf(t)]

\* file.go:82-87, 126-128, 176-182, docs/spec.md:373: whatever is interleaved,
\* crashes or fails, a tool's own steps change what the path shows only when
\* its call succeeds, and then to exactly what it was asked to write, or, in a
\* replace, when ReplaceFileW takes the old file away.  A call that fails or
\* dies before that leaves the path alone, one that fails or dies after it
\* leaves no file (not what the comments say), and create_file changes
\* nothing but by succeeding, where nothing was.
ImplementsAtomicFile == File!FileSpec

\* file.go:82-84: create_file succeeds only where nothing was, also when two
\* of them race past the first look at the path.
CreateNeverOverwrites ==
  [][\A t \in Tools :
       /\ tool[t].op = "create" /\ tool[t].pc # "done" /\ tool'[t].pc = "done"
       => name = NoFile]_vars

\* docs/spec.md:392 (INV-6): what a swap takes away or replaces is the content
\* its caller expects, unless the path names another file than the one the
\* tool opened and locked.  (RecheckSeesTarget is about that other case.)
SwapReplacesExpected ==
  [][\A t \in Tools :
       /\ tool[t].pc = "swap" /\ tool'[t].pc \in {"away", "done"}
       /\ name = tool[t].fd
       => content[name] = tool[t].expected]_vars

-----------------------------------------------------------------------------
(* What the comments say and the code does not do.                          *)

\* file.go:176-182 and docs/spec.md:392: the recheck under the lock sees the
\* file that is about to be replaced; only a rename after it goes unnoticed.
\* The lock and the read are on the file opened before the wait for the lock.
RecheckSeesTarget ==
  [][\A t \in Tools :
       tool[t].pc = "recheck" /\ tool'[t].pc = "swap"
       => Shown = tool[t].expected]_vars
=============================================================================
