------------------------------- MODULE Patch -------------------------------
(***************************************************************************)
(* The line arithmetic of apply_patch (internal/filetools/patch.go and     *)
(* lines.go): the hunks of a request are sorted, validated one after       *)
(* another and then applied one after another to the lines of the file.    *)
(* Reading the file, comparing its hash and replacing it are module        *)
(* FileTools; to it, all of this is one step that succeeds or does not.    *)
(* read_file is here too, because its line numbers are what a hunk names.  *)
(*                                                                         *)
(* A line is a text and the terminator that followed it.  The texts of a   *)
(* request are taken as they come, those included that hold a line feed or *)
(* end in a carriage return: no code looks for them.                       *)
(***************************************************************************)
EXTENDS Integers, Sequences, Functions

CONSTANTS Texts,     \* texts of lines
          Holding,   \* those with a line feed in them
          Trailing,  \* those that end in a carriage return
          Empty,     \* the one without a character
          Inputs     \* files together with the patches asked for

\* The terminators splitLines knows; "none" is that of a line at the end of the
\* file without one.
Terms == {"lf", "crlf", "none"}
Line == [text : Texts, term : Terms]
Hunk == [start : Int, end : Int, old : Seq(Texts), new : Seq(Texts)]

\* splitLines: only the last line of a file may lack a terminator.
IsFile(s) == /\ s \in Seq(Line)
             /\ \A i \in 1..Len(s) - 1 : s[i].term # "none"

\* splitLines cuts at every line feed, takes a carriage return before it for a
\* part of the terminator, and sees no line in nothing: these are the lines it
\* finds again when they have been written.
Whole(line) == /\ line.text \notin Holding
               /\ line.term = "lf" => line.text \notin Trailing
               /\ line.term = "none" => line.text # Empty
ReadsBack(s) == IsFile(s) /\ \A i \in DOMAIN s : Whole(s[i])

ASSUME TextsAssumption ==
  Holding \cup Trailing \subseteq Texts /\ Empty \in Texts \ (Holding \cup Trailing)
ASSUME InputsAssumption ==
  \A in \in Inputs : ReadsBack(in.lines) /\ in.request \in Seq(Hunk)

VARIABLES
  lines,      \* the file
  request,    \* the hunks as the caller gave them
  sorted,     \* the hunks by start, once they are sorted
  pc,         \* the loop it is in, or the result
  k,          \* the number of hunks that loop is done with
  prevEnd, prevStart,  \* validateHunks: the range of the hunk before
  cursor,     \* applyHunks: the next line of the file not yet copied
  result      \* applyHunks: the lines of the new file

vars == <<lines, request, sorted, pc, k, prevEnd, prevStart, cursor, result>>

Init == /\ \E in \in Inputs : lines = in.lines /\ request = in.request
        /\ sorted = <<>> /\ pc = "sort" /\ k = 0
        /\ prevEnd = 0 /\ prevStart = 0
        /\ cursor = 1 /\ result = <<>>

Outcome(r) == /\ pc' = r
              /\ UNCHANGED <<lines, request, sorted, k, prevEnd, prevStart,
                             cursor, result>>

-----------------------------------------------------------------------------
(* Sorting and validation.                                                  *)

\* sort.Slice is not stable: hunks with the same start come in any order.
Orders == {f \in Bijection(DOMAIN request, DOMAIN request) :
             \A i, j \in DOMAIN request :
               i < j => request[f[i]].start =< request[f[j]].start}

SortHunks ==
  /\ pc = "sort"
  /\ \/ request = <<>> /\ Outcome("invalid")
     \/ /\ request # <<>>
        /\ \E f \in Orders : sorted' = [i \in DOMAIN request |-> request[f[i]]]
        /\ pc' = "validate"
        /\ UNCHANGED <<lines, request, k, prevEnd, prevStart, cursor, result>>

\* The range is one of the file's, and OldLines has its length.
InRange(h) == /\ 1 =< h.start /\ h.start =< Len(lines) + 1
              /\ h.start - 1 =< h.end /\ h.end =< Len(lines)
              /\ Len(h.old) = h.end - h.start + 1

\* Mutant of Clear: a hunk may start where the one before it starts.
ClearOverlap(h) == h.start > prevEnd

\* The hunk starts behind the one before it, and not where that starts.
Clear(h) == h.start > prevEnd /\ h.start # prevStart

ValidateHunk ==
  LET h == sorted[k + 1] IN
  /\ pc = "validate" /\ k < Len(sorted)
  /\ \/ ~(InRange(h) /\ Clear(h)) /\ Outcome("invalid")
     \/ /\ InRange(h) /\ Clear(h)
        /\ k' = k + 1
        /\ prevEnd' = h.end /\ prevStart' = h.start
        /\ UNCHANGED <<lines, request, sorted, pc, cursor, result>>

Validated ==
  /\ pc = "validate" /\ k = Len(sorted)
  /\ pc' = "apply" /\ k' = 0
  /\ UNCHANGED <<lines, request, sorted, prevEnd, prevStart, cursor, result>>

-----------------------------------------------------------------------------
(* Application.                                                             *)

\* fileTerminator: the first one there is.
FileTerm == IF \E i \in DOMAIN lines : lines[i].term # "none"
            THEN lines[CHOOSE i \in DOMAIN lines :
                         /\ lines[i].term # "none"
                         /\ \A j \in 1..i - 1 : lines[j].term = "none"].term
            ELSE "lf"

Unterminated(s) == s # <<>> /\ s[Len(s)].term = "none"
WithTerm(s, t) == [s EXCEPT ![Len(s)].term = t]

Fits(h) == \A i \in DOMAIN h.old : lines[h.start - 1 + i].text = h.old[i]
NewLines(h) == [i \in DOMAIN h.new |-> [text |-> h.new[i], term |-> FileTerm]]

\* Mutant of Parted: lines inserted after the last one are joined to it.
PartedNot(s, h) == s

\* The lines before the hunk; when something is inserted after a last line
\* without terminator, that line gets one.
Parted(s, h) == IF h.new # <<>> /\ Unterminated(s) /\ Unterminated(lines)
                THEN WithTerm(s, FileTerm) ELSE s

\* A last hunk that replaces the end of the file leaves it as it ended.
Ended(s, h) == IF /\ k + 1 = Len(sorted) /\ h.new # <<>>
                  /\ h.start =< h.end /\ h.end = Len(lines)
                  /\ Unterminated(lines)
               THEN WithTerm(s, "none") ELSE s

\* Mutant of Applied: an insertion takes the line before it away.
AppliedShort(h) ==
  LET before == result \o SubSeq(lines, cursor, h.end) IN
  Ended(Parted(before, h) \o NewLines(h), h)

\* result when the hunk has been applied.
Applied(h) ==
  LET before == result \o SubSeq(lines, cursor, h.start - 1) IN
  Ended(Parted(before, h) \o NewLines(h), h)

ApplyHunk ==
  LET h == sorted[k + 1] IN
  /\ pc = "apply" /\ k < Len(sorted)
  /\ \/ ~Fits(h) /\ Outcome("conflict")
     \/ /\ Fits(h)
        /\ result' = Applied(h) /\ cursor' = h.end + 1 /\ k' = k + 1
        /\ UNCHANGED <<lines, request, sorted, pc, prevEnd, prevStart>>

CopyRest ==
  /\ pc = "apply" /\ k = Len(sorted)
  /\ result' = result \o SubSeq(lines, cursor, Len(lines))
  /\ cursor' = Len(lines) + 1 /\ pc' = "done"
  /\ UNCHANGED <<lines, request, sorted, k, prevEnd, prevStart>>

Finished == pc \in {"done", "invalid", "conflict"} /\ UNCHANGED vars

Next == \/ SortHunks \/ ValidateHunk \/ Validated \/ ApplyHunk \/ CopyRest
        \/ Finished

Spec == Init /\ [][Next]_vars

-----------------------------------------------------------------------------
(* ReadFile.  0 stands for the first and for the last line.                 *)

\* Mutant of ReadRange: the end is exclusive.
ReadRangeShort(start, end) ==
  LET from == IF start =< 0 THEN 1 ELSE start
      to == IF end =< 0 \/ end > Len(lines) THEN Len(lines) ELSE end - 1
  IN IF from > Len(lines) THEN {} ELSE from..to

\* clampRange: a range that begins behind the end of the file is empty.
ReadRange(start, end) ==
  LET from == IF start =< 0 THEN 1 ELSE start
      to == IF end =< 0 \/ end > Len(lines) THEN Len(lines) ELSE end
  IN IF from > Len(lines) THEN {} ELSE from..to

\* The numbered lines it returns; not given when the range is turned down.
ReadFile(start, end) ==
  {[number |-> i, text |-> lines[i].text] : i \in ReadRange(start, end)}
=============================================================================
