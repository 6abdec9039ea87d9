-------------------------- MODULE PatchProperties --------------------------
(* What apply_patch and read_file promise of lines, stated over module      *)
(* Patch against definitions that know no order of the hunks, no cursor and *)
(* no loop.                                                                 *)
EXTENDS Patch, SequencesExt

\* Every variable has its type.
TypeOK == /\ IsFile(lines) /\ request \in Seq(Hunk) /\ sorted \in Seq(Hunk)
          /\ pc \in {"sort", "validate", "apply", "done", "invalid", "conflict"}
          /\ {k, prevEnd, prevStart} \subseteq Nat /\ cursor \in Nat
          /\ result \in Seq(Line)

Hunks == ToSet(request)

\* Neither of two hunks starts where the other does or in what it replaces.
Apart(g, h) == /\ g.start # h.start
               /\ g.start \notin h.start..h.end /\ h.start \notin g.start..g.end

Acceptable == /\ request # <<>>
              /\ \A h \in Hunks : InRange(h)
              /\ \A i, j \in DOMAIN request :
                   i # j => Apart(request[i], request[j])

\* patch.go:67-70, 101-103: a patch is refused before its context is looked at
\* exactly when two of its hunks, in whatever order they were given, are not
\* apart or one is out of range, and is a conflict exactly when some context
\* is not what the file has.  Each hunk is compared with the one before only.
VerdictIsRight ==
  /\ pc = "invalid" => ~Acceptable
  /\ pc = "conflict" => Acceptable /\ \E h \in Hunks : ~Fits(h)
  /\ pc = "done" => Acceptable /\ \A h \in Hunks : Fits(h)

\* The new file, position by position: what a hunk puts before line i, and
\* line i itself unless a hunk replaces it.
NewAt(i) == LET at == {h \in Hunks : h.start = i}
            IN IF at = {} THEN <<>> ELSE NewLines(CHOOSE h \in at : TRUE)
Removed(i) == \E h \in Hunks : i \in h.start..h.end
Spliced == FlattenSeq(
             [i \in 1..Len(lines) + 1 |->
                NewAt(i) \o IF i > Len(lines) \/ Removed(i) THEN <<>>
                            ELSE <<lines[i]>>])

TextsOf(s) == [i \in DOMAIN s |-> s[i].text]

\* patch.go:23-28: the line numbers of every hunk are those of the file as it
\* was, whatever the hunks before it insert and remove; no other line is lost,
\* repeated or moved.
PatchIsSplice == pc = "done" => TextsOf(result) = TextsOf(Spliced)

LastHunk == CHOOSE h \in Hunks : \A g \in Hunks : g.start =< h.start
LastLine == Len(lines)

\* A request of lines: no new text holds a line feed or ends in a carriage
\* return; and where the file ends without newline, its last line does not end
\* in a carriage return either, and no hunk ends in an empty line.
WellGiven ==
  /\ \A h \in Hunks : \A i \in DOMAIN h.new :
       h.new[i] \notin Holding \cup Trailing
  /\ Unterminated(lines) =>
       /\ lines[LastLine].text \notin Trailing
       /\ \A h \in Hunks : h.new # <<>> => h.new[Len(h.new)] # Empty

\* Only the last line of the new file may lack a terminator, and a request of
\* lines makes a file that is read as the lines that were written
\* (patch.go:115-138, lines.go:16-39).
NeverJoined == pc = "done" => /\ IsFile(result)
                              /\ WellGiven => ReadsBack(result)

\* patch.go:115-138: lines are never joined; a kept line keeps its terminator,
\* unless it had none and lines follow it now; and the new file lacks the last
\* newline only when the old one did and its last line is kept as the last or
\* replaced by the last hunk.
TerminatorsKept ==
  /\ NeverJoined
  /\ pc = "done" =>
       /\ \A i \in DOMAIN result :
            \/ result[i].term = Spliced[i].term
            \/ Spliced[i].term = "none" /\ result[i].term = FileTerm
            \/ i = Len(result) /\ result[i].term = "none"
       /\ Unterminated(result) <=>
            /\ Unterminated(lines)
            /\ \/ ~Removed(LastLine) /\ NewAt(LastLine + 1) = <<>>
               \/ LastLine \in LastHunk.start..LastHunk.end /\ LastHunk.new # <<>>

\* file.go:36-39: a read shows the lines asked for that there are, and any run
\* of them, with the numbers and texts shown, is a hunk that apply_patch takes
\* for the same file.
ShownIsPatchable ==
  \A start, end \in 0..Len(lines) + 1 :
    start = 0 \/ end = 0 \/ start =< end =>
      LET shown == ReadFile(start, end) IN
      /\ {line.number : line \in shown} =
           {i \in DOMAIN lines : start =< i /\ (end = 0 \/ i =< end)}
      /\ \A a, b \in shown :
           a.number =< b.number =>
             LET h == [start |-> a.number, end |-> b.number, new |-> <<>>,
                       old |-> [i \in 1..b.number - a.number + 1 |->
                                  (CHOOSE line \in shown :
                                     line.number = a.number - 1 + i).text]]
             IN InRange(h) /\ Fits(h)
=============================================================================
