---------------------------- MODULE AppendOnlyLog ----------------------------
(* What a session's event log promises, with no word of files: a sequence of *)
(* events that only grows, except that a loss of power may take back events  *)
(* whose append was never reported as done.                                  *)
EXTENDS Integers, Sequences

CONSTANTS Events

VARIABLES log,   \* the events, as a reader finds them
          acked  \* the records [seq, event] that AppendEvent has returned

avars == <<log, acked>>

Recorded(a, l) == a.seq \in 1..Len(l) /\ l[a.seq] = a.event

AInit == log = <<>> /\ acked = {}

AAppend == /\ \E e \in Events : log' = Append(log, e)
           /\ UNCHANGED acked

AAck == /\ \E n \in 1..Len(log) :
             acked' = acked \cup {[seq |-> n, event |-> log[n]]}
        /\ UNCHANGED log

ALose == /\ \E n \in 0..Len(log) :
              /\ log' = SubSeq(log, 1, n)
              /\ \A a \in acked : a.seq =< n
         /\ UNCHANGED acked

ANext == AAppend \/ AAck \/ ALose

ASpec == AInit /\ [][ANext]_avars
=============================================================================
