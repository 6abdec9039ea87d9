------------------------------ MODULE MCPatch ------------------------------
(* Instances of the patch for TLC: every file of up to three lines, every   *)
(* mixture of terminators, and every request of up to two hunks whose       *)
(* ranges lie in the file, touch its ends or miss it by one.  A file of one *)
(* line may be one that ends in a carriage return, and is changed with the  *)
(* empty line and with texts that hold a terminator, too.                   *)
EXTENDS PatchProperties

\* "j" holds a line feed, "r" ends in a carriage return, "e" is empty.
MCTexts == {"a", "b", "c", "x", "y", "j", "r", "e"}
MCHolding == {"j"}
MCTrailing == {"r"}
MCFiles == {f \in UNION {[1..n -> [text : {"a", "b", "c", "r"}, term : Terms]] :
                          n \in 0..3} :
              /\ ReadsBack(f)
              /\ \A i \in DOMAIN f : \/ f[i].text = <<"a", "b", "c">>[i]
                                     \/ f[i].text = "r" /\ Len(f) = 1}

\* The lines in the range, and as wrong contexts a line changed or one more.
Contexts(f, start, end) ==
  LET right == TextsOf(SubSeq(f, start, end)) IN
  {right, Append(right, "x")} \cup
    (IF right = <<>> THEN {} ELSE {[right EXCEPT ![Len(right)] = "x"]})

WellPlaced(f, start, end) ==
  1 =< start /\ start =< Len(f) + 1 /\ start - 1 =< end /\ end =< Len(f)

MCHunks(f) ==
  UNION {IF WellPlaced(f, start, end)
         THEN [start : {start}, end : {end}, old : Contexts(f, start, end),
               new : {<<>>, <<"x", "y">>} \cup
                     IF Len(f) = 1 THEN {<<"x", "e">>, <<"j">>, <<"r">>}
                                   ELSE {}]
         ELSE [start : {start}, end : {end}, new : {<<"x">>},
               old : {[i \in 1..end - start + 1 |-> "x"]}] :
         start \in 0..Len(f) + 2, end \in 0..Len(f) + 1}

MCInputs ==
  UNION {[lines : {f}, request : UNION {[1..n -> MCHunks(f)] : n \in 0..2}] :
         f \in MCFiles}
=============================================================================
