# Brunel: specifications and proofs

TLA+ specifications of Brunel's core, written from its Go and TypeScript
source, with TLC configurations that check them on small instances and TLAPS
proofs. Paths below are relative to the repository; `store.go` is
`internal/session/store.go` and so on.

## 1. The system

Brunel runs the tools of a coding agent on Windows. The agent (Pi) loads
`taylor-tools.ts`, which starts one `brunel --taylor-tool` process per tool
call. That process binds the workspace, asks the safety gate, resolves the
path and does the I/O or runs a PowerShell command. Apart from that there is a
session store that several Brunel processes share.

| Component | State it keeps | Operations | Interacts through | What makes it correct | Module |
|---|---|---|---|---|---|
| session store, `internal/session` | a directory per session: meta.json, summary.json, events.jsonl, owner.lock; in memory the `Session` | NewStore (CleanupExpired), Create, Resume, SetName, SaveMeta, SaveSummary, AppendEvent, Close | the file system and the lock on owner.lock | one owner; the owner's metadata is the saved one; what is opened is whole; nothing in use is removed; expired sessions go | `SessionStore`, `SessionNames`, `SessionRegister` |
| event log, `AppendEvent`, `readEvents` | events.jsonl, lastSeq, trailingEvents, Session.mu | AppendEvent, ReadEvents, SaveSummary, openSession | goroutines under one mutex; processes one after another | an append-only log that keeps every acknowledged event | `EventLog`, `AppendOnlyLog` |
| file tools, `internal/filetools` | the file at a path, a temporary file, a handle, a lock; during a patch the hunks, a cursor and the new lines | create_file, write_file, apply_patch, read_file | tool processes and editors on one path | only a call that succeeds writes the file, in one step; no update is overwritten unseen; a patch does what its hunks say in the old file's line numbers | `FileTools`, `AtomicFile`, `Patch` |
| command runner, `internal/exec` | job object, pipes, process, two drain goroutines and one that waits | Runner.Run | handle inheritance within the process; the processes of the job | the tree is dead and the output whole when Run returns; Run returns | `Runner` |
| extension, `taylor-tools.ts`; `cmd/brunel`; `internal/tools`; `internal/safety`; `internal/workspace` | the call, the bound root and its identity | invokeTool, runTaylorTool, Registry.Call, Gate.Decide, Bind, Resolve | child process, stdin and stdout, signal | what the answer says agrees with what was done, and where | `ToolDispatch` |
| configuration, `internal/config` | none between calls; Load collects a value | Load | two files that may be edited meanwhile, flags, the credential store | the last layer wins; nothing is resolved from a layer that is wrong by itself | `ConfigLoader` |
| Pi adapter, `internal/pirpc` | none between calls | EffectiveProvider, BuildArgs, InjectCredentials, TranslateProviderError | the environment and arguments of the Pi process | Pi sees one key, of the provider it is told to use | `PiLaunch` (without translate.go) |
| masking, `internal/redact`, `session/mask.go` | none | Mask | | text | not modelled |

The hard behaviours are the interleaving of processes that share nothing but
files (store, file tools), crashes and losses of power in the middle of a
sequence of writes, system calls that fail half way, a lock that is on a file
and not on its name, handle inheritance, and aborts and time-outs that race
with an answer. PROJECT.json lists each of them at its line under "hazards".

The agent loop, the TUI and the completion report of docs/spec.md do not exist
at this commit; nothing calls `Session.AppendEvent`, `Loader.Load` or
`InjectCredentialsForLaunch` yet.

## 2. The modules

### SessionStore, SessionProperties, SessionRegister, SessionNames, MCSession

State: `dir`, `meta` and `link` are the disk (`link[i]` is the *identity* of
the file named owner.lock, since Windows locks the file and RemoveAll removes
the name), `proc[p]` is the call a process is in: its program counter, the
lock file it has open, `Session.meta`, the directory entries still to be
unlinked, the listing still to be read. `life` is a history variable: "stray" once a
Close has failed to let go of the lock, "doomed" from the moment a RemoveAll of
the session has begun. `dirty` remembers which files the owner's last save
did not replace.

| Action | Code |
|---|---|
| CreateDir, CreateMeta, CreateSummary, CreateEvents, CreateReturn, CreateFails | `Create`, store.go:65-133 |
| OpenLockFile, OpenLockFails, TryLock, LockBusy | `acquireSessionLock`, lock_windows.go:28-50; open and lock are two steps |
| ResumeById, ResumeByName, ResumeEntry, ResumeChoose, Reread, Check | `Resume`, `openSession`, store.go:135-220 |
| CleanupStart, CleanupEntry, CleanupEnd | `CleanupExpired`, store.go:222-256 |
| RemoveList, Unlink, UnlinkFails, Rmdir, RmdirFails | `os.RemoveAll`, one unlink at a time |
| Unlock, UnlockFails | `sessionLock.Close`, store.go:250-253 and 393-397; when it fails the handle is closed and the lock gone all the same, but the session is not marked as closed |
| SetName, SaveMeta, SaveSummary, SummaryLost, AppendEvent, Close | the `Session` methods, store.go:258-398 |
| Crash, Tick | a process dies, its locks are released; time passes |

A save is one step: it replaces the file, leaves it, or fails with the file gone
(`NotPersisted`, `SummaryLost`: ReplaceFileW is called without a backup name, and its error
1176 leaves nothing at the path). UnlockFails stands for a failing UnlockFileEx;
a second Close then works on a handle that is closed, and fails always. That the
number of that handle may by then be another's, and that CloseHandle of a valid handle fails,
are left out.

Left out, too: temporary files of writeJSONAtomic, the snapshot directory, the texts. Two stores opened in one
process behave like two processes. ULIDs are never used twice. Opening
owner.lock creates it, as CREATE/OPEN_ALWAYS does.

`SessionRegister` is the store without files: a session is a register that is
made once, is written only by the one process that owns it, and is given up for
good by its owner or its maker. `ImplementsRegister` maps the store to it: a
session is "gone" from the first step of a RemoveAll, or once a Close has failed to
unlock it (from then on its former owner writes without the lock, and the code promises
nothing); its owners are the
processes that have it locked for use or removal, its value is meta.json. One
freedom of the abstract specification is the code's: a maker whose Create has
failed may give the session up while somebody else owns it (store.go:109).

`SessionNames` adds two history variables to a scan by name: the sessions that
have had the name at every moment since the root was listed, and those that
have had it at some moment.

### EventLog, AppendOnlyLog, MCEventLog

`lines` are the complete lines of events.jsonl, `frag` says that bytes follow
the last newline, `synced` how many lines a loss of power leaves. AppendEvent
is five steps (write, sync, close, save of the metadata, return) under `mu`,
each of which can fail where the code checks an error. `Written` is the point
of the model: a line written behind a fragment becomes garbage. `AppendOnlyLog`
is the abstract specification: a log that grows by one event or loses a suffix
that nobody was told of. `Rereads` is an assumption about callers (after an
error they read the log before they append again); no caller exists yet, so
both values are checked.

### FileTools, FileProperties, AtomicFile, MCFile

One path and the files that have been at it. A tool call goes through read,
temporary file, fill, open target, lock, recheck, swap (write_file and
apply_patch) or temporary file, fill, install (create_file). An `editor` honours locks;
with `Renames` there is also one that replaces the file by rename, and
somebody who deletes it. A content stands for its SHA-256. An editor's open and
lock are one step. The swap is one step or two: `SwapAway` is ReplaceFileW when it has
taken the old file away and not yet moved the new one in; a failure there
(ERROR_UNABLE_TO_MOVE_REPLACEMENT) or a kill leaves no file at the path.

`AtomicFile` is what a caller may think of it: a file that shows a whole content
or is not there, and calls that change it in one step, to exactly what they were
asked to write, or end with an error or die without a trace; only a replace may
clear the path first (state "cleared"), and then fail or die with nothing there.
`ImplementsAtomicFile` maps FileTools to it: the path's content, and of a call
how it stands and at which step it is (`at`). Every step of a tool therefore shows in
its call, and what `Others` may do to the file, while all calls stay as they
are, is left to editors.

### Patch, PatchProperties, MCPatch

The line arithmetic of apply_patch, one hunk per step as in the loops of
patch.go: SortHunks (any order among equal starts, sort.Slice is not stable),
ValidateHunk with `prevEnd` and `prevStart`, ApplyHunk with `cursor`, CopyRest.
A line is a text with the terminator that followed it ("lf", "crlf", "none"), which is
what splitLines leaves. The texts of a request are taken as they come, also those that
hold a line feed (`Holding`) or end in a carriage return (`Trailing`): no code
rejects them, and a file written with them is split into other lines than were asked for.
`ReadsBack` says when a file is not, and `WellGiven` which requests never make such
a file. read_file's clampRange is here too, since its numbers are
what hunks name. The properties are stated against a definition that has no
order, no cursor and no loop: `Apart` and `Acceptable` compare all pairs of hunks of the
request, `Spliced` gives the new file position by position. Reading, hashing and replacing the
file are FileTools, where the whole of Patch is "any data, or an error".

### Runner, RunnerProperties

Concurrent calls of `Run` in one process. Kept are the handles each call has
open (`open`), what its deferred calls will close (`defers`), which pipe ends
each process has inherited (`holds`), the job membership (`bound`), and the
goroutines that outlive Run (`Waiting`, `Draining`). The steps have the names
of what they do, in the order of runner_windows.go:80-231;
waitForExitAndOutput is ExitSeen, OutputSeen, ReturnOutput and GraceExpires.
The goroutine that waits for the exit does not look at what the wait returned, so SeeExit may
come before the exit; drainPipe ends at the end of the stream, at a read that fails
and at one that returns nothing, so DrainPipe may come early; `missed` remembers
both. The exit code read is the command's own, STILL_ACTIVE ("active") of one that has not
ended, or the 0 that is left when it cannot be read ("zero").
System calls fail in the calls of `Faulty`; the commands of `Parents` start processes.
KILL_ON_JOB_CLOSE always works. `Prompt` says that a terminated process is
gone within the five seconds of terminationGracePeriod.
A process is "exited" when it ended by itself and "dead" when it was terminated.
The bytes read, truncation and the memory and process limits are left out.

### ToolDispatch, DispatchProperties

One record per tool call holds both sides: the extension's answer and the
process's program counter from stdin to exit. Steps: Invoke, ReadStdin, Bind,
Decode, Decide, EnsureBound, Contain, then FileIO, or CreateCommand, Assign,
Resume and CommandEnds, then WriteResponse and Answer. Abort (the signal) and
Crash may come anywhere. `Move` is somebody who replaces or removes the root
or turns it or the path below it into a junction. Junctions at the root are followed by
EvalSymlinks, as they are for `go 1.22` in go.mod. FileIO and CommandEnds stand
for FileTools and Runner, whose properties justify the abstraction
(ImplementsAtomicFile: an error comes with no effect, or, of a write or a patch, with the old
file taken away; ReturnedTreeIsDead). workspace_diff is not among the tools (section 7).
The parameters are valid or not, a command needs a confirmation or not; which
text is which is left out.

### ConfigLoader

`Loader.Load`: Start (roots and defaults), ReadGlobal, ReadProject,
ApplyOverrides, GetKey. A file can be edited between and after the reads (`Edit`);
`read` remembers the layer that was read. A file is absent, unusable, or an
object with the fields it has; a string is kept as far as Load tells strings
apart (a valid mode or not, blank or not).

### PiLaunch

EffectiveProvider, BuildArgs and InjectCredentials, an entry of the environment per
step. Names of providers and variables stand for what ToLower, TrimSpace and EqualFold
make equal; `spelling` is how an entry writes its name.

### SessionProofs, EventLogProofs, FileProofs, PatchProofs, RunnerProofs, DispatchProofs, ConfigProofs, LaunchProofs

The TLAPS proofs, a module per component, with the inductive invariants
(section 5).

## 3. The runs

| Run | Instance | Shows |
|---|---|---|
| session_core | 2 processes, 1 session, 2 lock files, 1 name, every unnamed session expired at once (MaxClock and Retention 0), failures and crashes | TypeOK, SessionInv, ExclusiveOwner, MetaCoherent, OpenIsComplete, RemovalJustified, OnlyOwnerWrites, ImplementsRegister |
| session_names | 2 processes, 2 sessions, 1 name | NameResolution: what an unlocked scan by name may conclude |
| session_live | 2 processes, 1 session, fairness | CallsReturn, ExpiredIsCollected |
| session_cleanup | 2 processes, 1 session, clock 0..1, crashes | *violated*: CleanupRemovesOnlyExpired |
| session_vanished | the same without crashes | *violated*: CleanupToleratesVanished |
| eventlog | 2 goroutines, 2 events, 3 lines, crashes, loss of power, I/O errors, Rereads | TypeOK, AckedReadable, OnlyAppends, SummaryNotBehind, ImplementsAppendOnlyLog |
| eventlog_ioerrors | the same without Rereads | *violated*: AckedReadable |
| filetools | 2 tools, 1 editor, 2 contents, 4 files, renames, I/O errors | TypeOK, NeverPartial, ImplementsAtomicFile, CreateNeverOverwrites, SwapReplacesExpected |
| filetools_recheck | 2 tools only | *violated*: RecheckSeesTarget |
| patch | every file of 0 to 3 lines with every mixture of terminators, every request of 0 to 2 hunks in, at the ends of and one beyond the file, right and wrong contexts; files of one line with texts that hold a terminator and the empty text | VerdictIsRight, PatchIsSplice, TerminatorsKept, ShownIsPatchable |
| runner | 2 calls, the system calls of one fail and its command may start 1 process, fairness | TypeOK, OwnPipesOnly, ReturnedTreeIsDead, OutputIsWhole, UnconfirmedHasCause, HandlesClosedOnce, SuccessIsReal, RunReturns |
| dispatch | 1 call of any of 3 tools, 2 directories, a junction, fairness | TypeOK, OnlyAllowedEffects, RefusalMeansNoEffect, OkMeansDone, EffectWhereBound, NoOrphanRuns, CallEnds |

The largest are session_core (640,000 states, two and a half minutes), session_names
(3.1 million states), runner (602,000) and patch (367,000, half a minute).

Why the bounds are enough. Two processes meet in every way a lock protocol can
fail pairwise; sessions do not share state, so one suffices, except for Resume
by name, which compares several (two make "one of several" and "the only one"
differ). Two lock files are needed, and suffice for two processes, to have one
that is linked and one that was unlinked while open. A clock of two instants
separates expired from not expired; where that is not the question (session_core), a clock that
stands still and a retention of 0 leave each unnamed session to be collected at any moment,
which is the harder case for the owner, and the properties proved hold of every clock. Three lines give a log with a middle, and
an append that is glued to a fragment followed by one more. Four files are the
target, two temporary files and an editor's. Two calls of Run are what handle
inheritance needs, one child process what a tree needs; the call without faults and child
is the one whose pipes the other could inherit, and RunnerProofs covers faults and
children in all. Two hunks on three lines
touch, overlap, share a start, surround a line and reach both ends; that two are
enough for the verdict is what VerdictHolds proves. Calls of different
brunel processes share only the file system, whose part in FileTools is checked
there; in ToolDispatch the other calls are subsumed by Move, so one is enough.
Deadlock is checked in every run; Runner and ToolDispatch have a step
`Finished` for the end of all calls.

## 4. Fairness

- session_live: WF of `Progress(p)`, a running process goes on with the call
  it is in (there is no lock in the store that is waited for), and SF of
  `CleanupStart(p)`: startups, which run CleanupExpired (store.go:57), keep
  happening. Users owe nothing: no fairness on Create, Resume or Close. There
  are no crashes in this run; a crash at the same point of every cleanup would
  defeat any collector.
- runner: WF of `Progress`: as long as some call of Run or one of its goroutines can go on (the
  Go scheduler, timers), or a terminated process can go (`Die`), some such step is
  taken. A wait for the exit or a read of a pipe that fails is not such a step: no fault
  has to come to a call's rescue. That is less than fairness to each of them, and enough because a behaviour has
  finitely many of these steps. Commands may run for ever, and no terminating call has
  to succeed.
- dispatch: WF of the process, and of a killed process's end. CommandEnds is
  fair because of the time limit, which is what run `runner` shows. Neither an
  abort nor a crash must happen, and the directory may be moved for ever.

## 5. What is proved

Every safety property of the runs is proved for all values of the constants;
so are the three refinements. "Invariant" is the inductive one, a theorem itself.

| Module | Invariant | Properties proved | From |
|---|---|---|---|
| SessionProofs | SessionInv | TypeOK, ExclusiveOwner | the ASSUMEs of SessionStore |
| | OwnerInv | MetaCoherent, OpenIsComplete, RemovalJustified, OnlyOwnerWrites, ImplementsRegister | the same |
| | DotInv, NamesInv | NameResolution | the same |
| EventLogProofs | BaseInv | TypeOK, SummaryNotBehind | the ASSUMEs of EventLog |
| | LogInv | AckedReadable, OnlyAppends, ImplementsAppendOnlyLog | and `Rereads \/ ~IOErrors` |
| FileProofs | FileInv | TypeOK, NeverPartial, SwapReplacesExpected, CreateNeverOverwrites, ImplementsAtomicFile | the ASSUMEs of FileTools |
| RunnerProofs | RunnerInv | TypeOK, OwnPipesOnly, ReturnedTreeIsDead, OutputIsWhole, HandlesClosedOnce, SuccessIsReal | the ASSUMEs of Runner |
| | | UnconfirmedHasCause | and `Prompt` |
| DispatchProofs | DispatchInv | TypeOK, OnlyAllowedEffects, RefusalMeansNoEffect, OkMeansDone, EffectWhereBound, NoOrphanRuns | the ASSUMEs of ToolDispatch |
| PatchProofs | VerdictInv, JoinInv, WholeInv | VerdictIsRight, ShownIsPatchable, NeverJoined | InputsAssumption of Patch |
| | SpliceInv, OpenInv | PatchIsSplice, TerminatorsKept | the same |
| ConfigProofs | LoadInv | LoadFailsClosed, LoadLayers | nothing |
| LaunchProofs | CopyInv | PiGetsOneKey, KeyIsNotMisplaced | `Proper`: an environment is a finite sequence of entries |

The assumptions on constants say that null values are none of the values
(NoThread, NoFile, NoInode, Partial, Garbage, ...), that bounds are numbers
and switches Booleans, and that there is some content and some event; none
bounds a set. Two theorems need more. `Rereads \/ ~IOErrors` is not
idle: without it AckedReadable is false (run eventlog_ioerrors, section 6). `Prompt`
is about Windows: a terminated process is gone within the grace period;
without it an unconfirmed termination needs no cause in Brunel.

### The session store: one owner

The argument. ExclusiveOwner is not inductive: a step that locks a file must
know that the other process, if it holds a lock for the same session, holds it
on the *same* file. That is OpenedIsLinked (as long as no removal has begun, whoever has a
lock file open has the one that is linked) together with OneHolder (a file is
locked by one process). OpenedIsLinked survives an unlink because unlinks are
done only by a RemoveAll on record (UnlinkIsDoomed), which needs StepOfCall,
CurrentIsUsed (a process past its scan works on a session that was created),
ListedIsUsed and UnusedIsAbsent (so that Create takes an identifier nobody
refers to). The conjunction is SessionInv, which session_core also checks.

Every step falls into one of a few kinds, and one lemma per kind does the work:
steps that leave the disk alone and change one process (`LocalStepKeepsInv`,
`IdleStepKeepsInv`), and in general a step of one process whose new record
`Fits` and which `Keeps` what the others rely on (`StepKeepsInv`). The lemmas
per operation (Acquire, Create, Resume, Cleanup, RemoveAll, Begin, Use) are
instances, and NextKeepsInv collects them.

### The session store: what an owner may rely on

`OwnerInv` stands on SessionInv and says what a process that has come so far
has: at which steps it has the lock (OwnedLock) and, while the session is "live" (no
removal has begun, no Close has failed to unlock), which files are there and that
meta.json is what it remembers, but for the files of its last save that failed (OwnedFiles). It survives the steps of the others because of `DiskRule`: a
step takes something from a live session, or changes its metadata, only if
its process has the lock (of a stray one, if it still has it open); and by `OneOwner` two processes never do. `DiskRule` is
proved per operation along with OwnerInv, and is at once what OnlyOwnerWrites
says. SoleMaker, Present and Blank (one process makes a session, a live one has
its directory, an unused one no metadata) complete it.

`StoreIsRegister` is the step simulation. A process has at most two parts in
one session, that it makes it and that it has its lock; `Moves` says that a step
changes them in one session only, and in one of six ways. Each way is a
step of the register (`MoveIsRegister`, where SoleMaker and OneOwner make the
sets of makers and owners singletons), and each operation moves so
(AcquireMoves ... UseMoves). A step on a session that was given up moves
nothing; a Close that fails to unlock is its owner's GiveUp (`UnlockFailsMoves`).

`NamesAreResolved`: a scan knows that the sessions that have had the name all
along are among those found or yet to be read, and that those found have had
it (`Known`). A session that has the name was listed because meta.json is
never there without its directory (DotInv: RemoveAll unlinks no "."). `found`
is finite even if the store is not, so that "not one match" is none or several.

### The event log

`BaseInv` holds of every caller: the mutex is held from the first line of
AppendEvent to the last, and lastSeq is behind the lines that are synced and
not behind an event that was returned. `LogInv` adds that counter, file and
fragment flag agree (Agreed): between appends lastSeq is the number of lines
and `trailing` says whether bytes follow, and within one the last line is its
own event. That is where an append behind a failed one breaks the log, and
why Rereads is needed. OnlyAppends and the simulation of AppendOnlyLog (a
Write appends, PowerLoss loses a suffix nobody was told of, all else
stutters) follow from it step by step. OnlyAppends says of every step that a line which
is there before and after it is the same, that lines go only when the process is gone with them
and none below `synced`, and that nothing is added behind a fragment.

### The file tools

`FileInv`: at which steps a call has a temporary file and a handle (ShapeOf);
the file is full once the call leaves `fill` (Filled); no path names it and nobody
else has it (Private); a lock excludes the others (Exclusive); and under the
lock the target is what the second check saw (Expected), which is what makes SwapReplacesExpected
inductive: an editor that honours locks cannot write it, and a tool writes
only what is private. NeverPartial needs Filled and Private together. The
simulation of AtomicFile maps the swap or install to the one step in which the
call succeeds, SwapAway to the one in which it clears the path, editors to its environment, and
all other steps of a tool to work that changes nothing or to the end of its call.

### The command runner

`RunnerInv` is for each call: the mutex is held exactly while there are
inheritable handles (MutexOf), which handles are open and which the deferred
calls will close at each line (HandlesOf), what the processes of the tree may be doing
(TreeOf), that nobody has another call's pipe end (PipesOf), and
what has been learned of the exit (OutcomeOf). MutexOf and HandlesOf give
OwnPipesOnly: at CreateProcess the only inheritable ends are the call's own.
PipesOf then makes OutputIsWhole a matter of the call's own tree (for the pipes that were read
to their end; `missed` names the others), and TreeOf
(the process was never resumed or is in the job) gives ReturnedTreeIsDead.

### The tool call

`DispatchInv` is for each call: what has been decided when it is past the gate
(Decided), how far its command is (CommandAt), what the response implies
(Responded), that the answer is the response or says nothing (Answered), and
where its paths lead unless something was moved (Placed). The last is kept by a Move
only because the mover is recorded in `moved` for every call that is under way.

### The patch

`VerdictHolds`: Spec => []VerdictIsRight, for files of any length and any number
of hunks. The loop compares a hunk with its predecessor only; the invariant
`SoFar(n)` says that after n hunks each begins behind the end *and* the start of all
before it. That is inductive because a hunk that is in range ends at or behind
the line before its start, so ends grow with starts, an insertion's empty range included (that
is what the comparison with `prevStart` is for). `SortedIsRequest`
takes it from the sorted hunks back to the request, in whatever order they were
given; `RefusedIsUnacceptable` shows the other direction, that a refusal is
justified by two hunks of the request.

`WhatIsShownCanBePatched`: Spec => []ShownIsPatchable. A range is cut off at the ends of
the file (`RangeShown`), and a run of what is shown, made into a hunk, is in range and fits
(`ShownFits`): a line shown is determined by its number.

`LinesStayApart`: Spec => []NeverJoined, the conjunct of TerminatorsKept that no line but
the last lacks a terminator, and that a request of lines makes a file that is split into the
lines written. For the second part `WholeInv` says that every line so far is found again and,
if it lacks a terminator, can be given one (`Steady`). `JoinInv` says that what has been copied so far is a
file, and that its last line lacks a terminator only when all of the old file has
been copied or replaced and that lacked it too.

`HunksAreSpliced`: Spec => []PatchIsSplice. The code copies gaps and applies hunks from
the top; `Spliced` says what comes of each line of the *old* file and concatenates.
`Splices(f)` reads that concatenation as a recursion: f[i] is the new file up to what comes of
line i (`Flattens`, `SplicedIsLast`: FlattenSeq has the value its recursion says). `SpliceInv` compares it
with the loop: when k hunks are applied, `result` is `Alike` f[cursor - 1], followed by
what the k-th hunk inserts before the cursor (f counts an insertion to the line
behind it, the loop to the hunk). `Alike` is equal texts and terminators, but that a
last line of the old file which lacked its terminator gets one when lines follow
it, and the last line of all may lose one. A
step is then a gap that is copied (`GapIsCopied`: no hunk begins or
ends in it, which `BetweenHunks` takes from the order of the hunks) and a range that is
replaced (`GapIsReplaced`, `WithinHunk`).

`TerminatorsStay`: Spec => []TerminatorsKept. The first half is in Alike. For the second, `OpenInv`
says when the result so far lacks its last newline: only behind the last hunk, at the
end of an old file that lacked it, and when that hunk replaced the last line
(`LeavesOpen`) and did not delete it or insert behind it. It needs SpliceInv, which
says whether anything has been copied or inserted at all.

The library's induction theorems take an operator, which the provers cannot
instantiate. `SetInduction` is induction about a *set* of numbers, from WFMin (a
well-founded relation has a least element in every set that is not empty), and the
recursions above use it with the set of the numbers for which the claim holds.

### Configuration and launch

`LoadFailsClosed` and `LoadLayers` follow from `LoadInv`: at each step the
configuration is the defaults overlaid with the layers read so far, each of them valid
by itself. The files may change at any time; `read` is what makes the statement
independent of that. `PiGetsOneKey` and `KeyIsNotMisplaced` follow from
`CopyInv`: the entries copied so far are those of the environment that do not
name the variable, and the new entry if `replaced`. These two components have no
TLC run; the theorems hold for every value of their constants.

### What is not proved

The properties that need fairness (CallsReturn, ExpiredIsCollected, RunReturns,
CallEnds) stay with TLC: liveness and ENABLED are out of the prover's reach. The four properties
that the code violates (section 6) are false, not unproved.

## 6. Where the code departs from what is said of it

1. **Cleanup removes a session that is no longer expired**
   (session_cleanup). CleanupExpired reads meta.json without the lock
   (store.go:232), decides, takes the lock (239) and removes the directory (246)
   without reading again. A session resumed, named and released in between is
   lost. docs/spec.md:296.
2. **Two cleanups at once: one startup fails** (session_vanished). The lock
   file of a directory that has just been removed cannot be created, and
   NewStore returns the error. docs/spec.md:411 (EC-9).
3. **An append after a failed one corrupts the log** (eventlog_ioerrors). After a
   short write or a failed sync the session does not know of the bytes it
   left (store.go:343-353). docs/spec.md:412 (EC-10).
4. **The recheck under the lock reads the wrong file** (filetools_recheck). The
   target is opened before the wait for its lock (file.go:207); if another tool
   swaps it meanwhile, the recheck reads the old file and the update is
   overwritten. docs/spec.md:392 (INV-6), comment at file.go:176-182; docs/spec.md:515
   (OQ-10) accepts the window on the ground that no writer inside Brunel is concurrent.

In the models, with properties stated around them, and not runs of their own:

- **A Close that cannot unlock leaves the session open without its lock.** lock.Close has closed the
  handle when it reports the failure of UnlockFileEx (lock_windows.go:57-65), and `closed` is not
  set (store.go:393-395): other processes may open, save and remove the session while the first goes on
  writing it. MetaCoherent, OpenIsComplete, RemovalJustified, OnlyOwnerWrites and
  ImplementsRegister except such a session from that step on.
- **A failed replace may leave no file.** ReplaceFileW is called without a backup name
  (replace_file_windows.go:36-49 of filetools, 33-46 of session). When it fails with
  ERROR_UNABLE_TO_MOVE_REPLACEMENT (1176) the old file is gone, and the deferred Remove
  (file.go:190, store.go:435) takes the new one; a kill inside it has the same effect.
  docs/spec.md:373 (CT-4) and the comment at file.go:181-182 promise the original file.
  `AtomicFile` allows it to a replace that has cleared the path and to nothing else;
  an answer of E_IO promises nothing of the effect. In the store the session loses meta.json
  or summary.json until its next save (`dirty`).
- **A wait that fails passes for an exit** (runner_windows.go:177-180): Run then takes STILL_ACTIVE (259)
  for the exit code of a command that goes on, terminates it and reports success.
- **An exit code that cannot be read is reported as 0**, where the comment at
  runner_windows.go:196 speaks of -1 and types.go:23 calls ExitCode meaningful. SuccessIsReal claims
  only that the command had ended by itself.
- **A read that fails or returns nothing ends the output** (runner_windows.go:287, 308-310): what was
  read so far is delivered as all of it. OutputIsWhole is about pipes read to their end.

Known and not stated as a run: every tool call binds the workspace anew
(main.go:137), so a root replaced between two calls of a session is used as the new
root, where docs/spec.md:391 (INV-5) asks for one identity per session; what
does hold is EffectWhereBound, per call. Resume by name may return a session
that was renamed after the scan. A Resume during the RemoveAll of Close can
give a second owner of a session that is going away (ExclusiveOwner excludes
only that case). A directory without meta.json, left by a crash, is never
removed. fileTerminator returns the first terminator of the file, where the comment
at lines.go:50 calls it the dominant one.

## 7. What is not modelled, and why

workspace_diff: it runs `git diff` in every mode, with no Job Object and a time limit of its own
(workspace_diff.go:22-26). git may refresh .git/index, start an external diff program it is
configured with, and outlive a brunel that is killed. OnlyAllowedEffects,
NoOrphanRuns and CallEnds are about the other seven tools and say nothing of it.

Flags and parameters (parsing), the classifier's patterns, masking and the
translation of provider errors (patterns over text), search and listing (pure input; what they
return of a tree that changes meanwhile no document says, and a file that vanishes between
the directory read and the open ends the whole call, search_text.go:39, list_files.go:54), credentials (calls
of the Windows credential manager). The gate's approver: main.go passes none.
The file `*_nonwindows.go` variants return
errors or fall back to simpler calls; the lock of lock_nonwindows.go is the
table that `Locked` also stands for. Liveness of the file tools: the one wait, for
the lock, is bounded (lockTargetForReplace, 100 ms), and the instance that shows
the safety properties is too large for a fair run.

## 8. Plan

Done: SessionStore over SessionRegister, EventLog over AppendOnlyLog, FileTools
over AtomicFile, Patch, Runner, ToolDispatch, ConfigLoader, PiLaunch; proofs about all of them. SessionStore shows the single owner that
EventLog assumes; FileTools and Runner show what FileIO and CommandEnds of ToolDispatch assume; Patch is one step of
FileTools.

Next:
- workspace_diff's git child, in ToolDispatch.
- ToolDispatch over FileTools and Runner: FileIO and CommandEnds shown to be
  steps of AtomicFile and of a runner without handles, instead of the argument
  in section 2.
- The lemmas of SessionProofs per operation share a shape (what becomes of the
  process's record); a common one would shorten the module.
