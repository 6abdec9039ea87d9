----------------------------- MODULE PatchProofs -----------------------------
(* Proofs about the patch, for files of any length and requests of any      *)
(* number of hunks.                                                         *)
EXTENDS PatchProperties, SequenceTheorems, WellFoundedInduction, TLAPS

-----------------------------------------------------------------------------
(* The inductive invariant.  The loop of validateHunks compares a hunk with *)
(* the one before it only; SoFar is what that amounts to after n hunks.     *)

\* sorted is the request in an order of the starts.
InOrder == /\ request # <<>>
            /\ \E f \in Orders : sorted = [i \in DOMAIN request |-> request[f[i]]]

\* The first n hunks are in range, each begins behind the end and the start
\* of all before it.
SoFar(n) == /\ \A i \in 1..n : InRange(sorted[i])
            /\ \A i, j \in 1..n :
                 i < j => /\ sorted[i].end < sorted[j].start
                          /\ sorted[i].start < sorted[j].start

Validating ==
  pc = "validate" =>
    /\ InOrder /\ k \in 0..Len(sorted) /\ SoFar(k)
    /\ k = 0 => prevEnd = 0 /\ prevStart = 0
    /\ k > 0 => prevEnd = sorted[k].end /\ prevStart = sorted[k].start

Applying ==
  pc \in {"apply", "conflict", "done"} =>
    /\ InOrder /\ SoFar(Len(sorted)) /\ k \in 0..Len(sorted)
    /\ \A i \in 1..k : Fits(sorted[i])
    /\ pc = "conflict" => \E i \in 1..Len(sorted) : ~Fits(sorted[i])
    /\ pc = "done" => k = Len(sorted)

VerdictInv == /\ IsFile(lines) /\ request \in Seq(Hunk)
              /\ pc \in {"sort", "validate", "apply", "done", "invalid",
                         "conflict"}
              /\ pc = "sort" => k = 0 /\ prevEnd = 0 /\ prevStart = 0
              /\ pc = "invalid" => ~Acceptable
              /\ Validating /\ Applying

-----------------------------------------------------------------------------
(* Lemmas about the order.                                                  *)

\* A sorted request has the hunks of the request, at different places.
LEMMA SortedIsRequest ==
  ASSUME InOrder, request \in Seq(Hunk)
  PROVE  /\ sorted \in Seq(Hunk) /\ Len(sorted) = Len(request)
         /\ Len(sorted) \in Nat \ {0}
         /\ \A i, j \in 1..Len(sorted) :
              i < j => sorted[i].start =< sorted[j].start
         /\ \A i \in 1..Len(sorted) : sorted[i] \in Hunk /\ sorted[i] \in Hunks
<1>1. PICK f \in Orders : sorted = [i \in DOMAIN request |-> request[f[i]]]
  BY DEF InOrder
<1>2. f \in [DOMAIN request -> DOMAIN request]
  BY DEF Orders, Bijection, Injection
<1>3. DOMAIN request = 1..Len(request) /\ Len(request) \in Nat /\ Len(request) # 0
  BY DEF InOrder
<1>4. \A i \in 1..Len(request) : sorted[i] = request[f[i]] /\ sorted[i] \in Hunk
  BY <1>1, <1>2, <1>3
<1>5. sorted \in Seq(Hunk) /\ Len(sorted) = Len(request)
  BY <1>1, <1>3, <1>4
<1>6. \A i, j \in 1..Len(sorted) : i < j => sorted[i].start =< sorted[j].start
  BY <1>3, <1>4, <1>5 DEF Orders
<1>7. \A i \in 1..Len(sorted) : sorted[i] \in Hunks
  BY <1>2, <1>3, <1>4, <1>5 DEF Hunks, ToSet
<1> QED
  BY <1>3, <1>4, <1>5, <1>6, <1>7

\* Hunks that SoFar covers are apart, two by two, in the request too.
LEMMA SoFarIsAcceptable ==
  ASSUME InOrder, request \in Seq(Hunk), IsFile(lines), SoFar(Len(sorted))
  PROVE  Acceptable /\ \A h \in Hunks : \E i \in 1..Len(sorted) : h = sorted[i]
<1>1. PICK f \in Orders : sorted = [i \in DOMAIN request |-> request[f[i]]]
  BY DEF InOrder
<1>2. /\ f \in [DOMAIN request -> DOMAIN request]
      /\ \A j \in DOMAIN request : \E i \in DOMAIN request : f[i] = j
  BY DEF Orders, Bijection, Injection, Surjection
<1>3. /\ DOMAIN request = 1..Len(request) /\ Len(request) = Len(sorted)
      /\ Len(sorted) \in Nat
  BY SortedIsRequest
<1>4. \A j \in DOMAIN request :
        \E i \in 1..Len(sorted) : f[i] = j /\ sorted[i] = request[j]
  BY <1>1, <1>2, <1>3
<1>5. \A h \in Hunks : \E i \in 1..Len(sorted) : h = sorted[i]
  BY <1>4 DEF Hunks, ToSet
<1>6. \A h \in Hunks : InRange(h)
  BY <1>5 DEF SoFar
<1>7. ASSUME NEW i \in DOMAIN request, NEW j \in DOMAIN request, i # j
      PROVE  Apart(request[i], request[j])
  <2>1. PICK a, b \in 1..Len(sorted) : /\ f[a] = i /\ sorted[a] = request[i]
                                       /\ f[b] = j /\ sorted[b] = request[j]
    BY <1>4
  <2>2. /\ sorted[a] \in Hunk /\ sorted[b] \in Hunk
        /\ sorted[a].start \in Int /\ sorted[a].end \in Int
        /\ sorted[b].start \in Int /\ sorted[b].end \in Int
    BY SortedIsRequest DEF Hunk
  <2>3. a < b \/ b < a
    BY <1>7, <2>1, <1>3
  <2>4. \/ sorted[a].end < sorted[b].start /\ sorted[a].start < sorted[b].start
        \/ sorted[b].end < sorted[a].start /\ sorted[b].start < sorted[a].start
    BY <2>3 DEF SoFar
  <2> QED
    BY <2>1, <2>2, <2>4, SMTT(30) DEF Apart
<1> QED
  BY <1>5, <1>6, <1>7 DEF Acceptable, InOrder

\* A hunk that validateHunks turns down is reason enough to.
LEMMA RefusedIsUnacceptable ==
  ASSUME VerdictInv, pc = "validate", k < Len(sorted),
         ~(InRange(sorted[k + 1]) /\ Clear(sorted[k + 1]))
  PROVE  ~Acceptable
<1> DEFINE h == sorted[k + 1]
<1>1. /\ InOrder /\ request \in Seq(Hunk) /\ IsFile(lines) /\ SoFar(k)
      /\ k \in Nat /\ k + 1 \in 1..Len(sorted)
      /\ k = 0 => prevEnd = 0 /\ prevStart = 0
      /\ k > 0 => prevEnd = sorted[k].end /\ prevStart = sorted[k].start
  BY SortedIsRequest DEF VerdictInv, Validating
<1>2. h \in Hunks /\ h.start \in Int /\ h.end \in Int
  BY <1>1, SortedIsRequest DEF Hunk
<1>3. CASE ~InRange(h)
  BY <1>2, <1>3 DEF Acceptable
<1>4. CASE InRange(h) /\ ~Clear(h)
  <2>1. k > 0
    BY <1>1, <1>2, <1>4 DEF Clear, InRange
  <2> DEFINE g == sorted[k]
  <2>2. k \in 1..Len(sorted) /\ k < k + 1
    BY <1>1, <2>1, SortedIsRequest
  <2>3. g.start \in Int /\ g.end \in Int /\ g.start =< h.start
    <3>1. g \in Hunk
      BY <1>1, <2>2, SortedIsRequest
    <3>2. g.start =< h.start
      BY <1>1, <2>2, SortedIsRequest
    <3> QED
      BY <3>1, <3>2 DEF Hunk
  <2>4. h.start =< g.end \/ h.start = g.start
    BY <1>1, <1>2, <1>4, <2>1, <2>3 DEF Clear
  <2>5. ~Apart(g, h)
    BY <1>2, <2>3, <2>4 DEF Apart
  <2>6. PICK f \in Orders : sorted = [i \in DOMAIN request |-> request[f[i]]]
    BY <1>1 DEF InOrder
  <2>7. /\ f \in [DOMAIN request -> DOMAIN request]
        /\ \A i, j \in DOMAIN request : f[i] = f[j] => i = j
    BY DEF Orders, Bijection, Injection, IsInjective
  <2>8. k \in DOMAIN request /\ k + 1 \in DOMAIN request
    BY <1>1, <2>2, SortedIsRequest
  <2>9. /\ f[k] \in DOMAIN request /\ f[k + 1] \in DOMAIN request
        /\ f[k] # f[k + 1]
        /\ g = request[f[k]] /\ h = request[f[k + 1]]
    BY <1>1, <2>6, <2>7, <2>8
  <2> QED
    BY <2>5, <2>9 DEF Acceptable
<1> QED
  BY <1>3, <1>4

-----------------------------------------------------------------------------
(* The verdict.                                                             *)

LEMMA VerdictInit == Init => VerdictInv
BY InputsAssumption DEF Init, ReadsBack, VerdictInv, Validating, Applying

\* What the definitions read is the file and the hunks: a step that leaves
\* them alone leaves the verdict on them alone.
LEMMA SameHunks ==
  ASSUME UNCHANGED <<lines, request>>
  PROVE  /\ Acceptable' = Acceptable /\ Hunks' = Hunks /\ Orders' = Orders
         /\ \A h : InRange(h)' = InRange(h) /\ Fits(h)' = Fits(h)
BY DEF Acceptable, Hunks, Orders, InRange, Fits, Apart

LEMMA VerdictSort == VerdictInv /\ SortHunks => VerdictInv'
<1> SUFFICES ASSUME VerdictInv, SortHunks PROVE VerdictInv'
  OBVIOUS
<1>1. CASE request = <<>>
  BY <1>1 DEF SortHunks, Outcome, VerdictInv, Validating, Applying, Acceptable
<1>2. CASE request # <<>>
  <2>1. /\ UNCHANGED <<lines, request, k, prevEnd, prevStart>>
        /\ pc' = "validate" /\ k = 0 /\ prevEnd = 0 /\ prevStart = 0
    BY <1>2 DEF SortHunks, VerdictInv, Outcome
  <2>2. InOrder'
    BY <1>2, <2>1, SameHunks DEF SortHunks, InOrder
  <2>3. (k \in 0..Len(sorted))'
    <3>1. PICK f \in Orders : sorted' = [i \in DOMAIN request |-> request[f[i]]]
      BY <1>2 DEF SortHunks, Outcome
    <3>2. f \in [DOMAIN request -> DOMAIN request] /\ request \in Seq(Hunk)
      BY DEF Orders, Bijection, Injection, VerdictInv
    <3>3. DOMAIN request = 1..Len(request) /\ Len(request) \in Nat
      BY <3>2
    <3>4. \A i \in 1..Len(request) : request[f[i]] \in Hunk
      BY <3>2, <3>3
    <3>5. sorted' = [i \in 1..Len(request) |-> request[f[i]]]
      BY <3>1, <3>3
    <3>6. sorted' \in Seq(Hunk)
      BY <3>3, <3>4, <3>5
    <3> QED
      BY <2>1, <3>6
  <2>4. SoFar(k)'
    BY <2>1 DEF SoFar
  <2> QED
    BY <2>1, <2>2, <2>3, <2>4 DEF VerdictInv, Validating, Applying
<1> QED
  BY <1>1, <1>2

LEMMA VerdictValidate == VerdictInv /\ ValidateHunk => VerdictInv'
<1> SUFFICES ASSUME VerdictInv, ValidateHunk PROVE VerdictInv'
  OBVIOUS
<1> DEFINE h == sorted[k + 1]
<1>1. /\ pc = "validate" /\ k < Len(sorted)
      /\ UNCHANGED <<lines, request, sorted>>
  BY DEF ValidateHunk, Outcome
<1>2. /\ InOrder /\ SoFar(k) /\ k \in Nat /\ IsFile(lines)
      /\ request \in Seq(Hunk) /\ k + 1 \in 1..Len(sorted)
  BY <1>1, SortedIsRequest DEF VerdictInv, Validating
<1>3. InOrder'
  BY <1>1, <1>2, SameHunks DEF InOrder
<1>4. CASE ~(InRange(h) /\ Clear(h))
  <2>1. pc' = "invalid"
    BY <1>4 DEF ValidateHunk, Outcome
  <2>2. ~Acceptable'
    BY <1>1, <1>4, SameHunks, RefusedIsUnacceptable
  <2> QED
    BY <1>1, <2>1, <2>2 DEF VerdictInv, Validating, Applying
<1>5. CASE InRange(h) /\ Clear(h)
  <2>1. /\ pc' = "validate" /\ k' = k + 1
        /\ prevEnd' = h.end /\ prevStart' = h.start
    BY <1>1, <1>5 DEF ValidateHunk
  <2>2. ASSUME NEW i \in 1..k
        PROVE  sorted[i].end < h.start /\ sorted[i].start < h.start
    <3>1. k > 0 /\ k \in 1..k
      BY <1>2
    <3>2. /\ prevEnd = sorted[k].end /\ prevStart = sorted[k].start
      BY <1>1, <3>1 DEF VerdictInv, Validating
    <3>3. sorted[i] \in Hunk /\ sorted[k] \in Hunk /\ h \in Hunk
      BY <1>2, <3>1, SortedIsRequest
    <3>4. sorted[k].start =< h.start
      BY <1>2, <3>1, SortedIsRequest
    <3>5. sorted[k].end < h.start /\ sorted[k].start < h.start
      BY <1>5, <3>2, <3>3, <3>4 DEF Clear, Hunk
    <3>6. CASE i = k
      BY <3>5, <3>6
    <3>7. CASE i < k
      <4>1. sorted[i].end < sorted[k].start /\ sorted[i].start < sorted[k].start
        BY <1>2, <3>1, <3>7 DEF SoFar
      <4>2. /\ sorted[i].start \in Int /\ sorted[i].end \in Int
            /\ sorted[k].start \in Int /\ h.start \in Int
        BY <3>3 DEF Hunk
      <4>3. sorted[i].end < h.start
        <5> HIDE DEF h
        <5> QED BY <3>5, <4>1, <4>2
      <4>4. sorted[i].start < h.start
        <5> HIDE DEF h
        <5> QED BY <3>5, <4>1, <4>2
      <4> QED
        BY <4>3, <4>4
    <3> QED
      BY <1>2, <3>6, <3>7
  <2>3. SoFar(k + 1)
    <3>1. \A i \in 1..k + 1 : i \in 1..k \/ i = k + 1
      BY <1>2
    <3>2. \A i \in 1..k + 1 : InRange(sorted[i])
      BY <1>2, <1>5, <3>1 DEF SoFar
    <3>3. ASSUME NEW i \in 1..k + 1, NEW j \in 1..k + 1, i < j
          PROVE  /\ sorted[i].end < sorted[j].start
                 /\ sorted[i].start < sorted[j].start
      <4>1. CASE j \in 1..k
        BY <1>2, <3>3, <4>1 DEF SoFar
      <4>2. CASE j = k + 1
        BY <1>2, <2>2, <3>3, <4>2
      <4> QED
        BY <3>1, <4>1, <4>2
    <3> QED
      BY <3>2, <3>3 DEF SoFar
  <2>4. SoFar(k)'
    BY <1>1, <2>1, <2>3, SameHunks DEF SoFar
  <2>5. (k \in 0..Len(sorted))' /\ k' > 0
    BY <1>1, <1>2, <2>1
  <2>6. prevEnd' = sorted'[k'].end /\ prevStart' = sorted'[k'].start
    BY <1>1, <2>1
  <2> QED
    BY <1>1, <1>3, <2>1, <2>4, <2>5, <2>6 DEF VerdictInv, Validating, Applying
<1> QED
  BY <1>4, <1>5

LEMMA VerdictValidated == VerdictInv /\ Validated => VerdictInv'
<1> SUFFICES ASSUME VerdictInv, Validated PROVE VerdictInv'
  OBVIOUS
<1>1. /\ pc = "validate" /\ k = Len(sorted) /\ pc' = "apply" /\ k' = 0
      /\ UNCHANGED <<lines, request, sorted>>
  BY DEF Validated
<1>2. InOrder /\ SoFar(Len(sorted)) /\ request \in Seq(Hunk)
  BY <1>1 DEF VerdictInv, Validating
<1>3. InOrder' /\ SoFar(Len(sorted))'
  BY <1>1, <1>2, SameHunks DEF InOrder, SoFar
<1>4. (k \in 0..Len(sorted))'
  BY <1>1, <1>2, SortedIsRequest
<1>5. (\A i \in 1..k : Fits(sorted[i]))'
  BY <1>1
<1> QED
  BY <1>1, <1>3, <1>4, <1>5 DEF VerdictInv, Validating, Applying

\* The steps of applyHunks: hunks that fit so far, then a conflict or none.
LEMMA VerdictApply == VerdictInv /\ (ApplyHunk \/ CopyRest) => VerdictInv'
<1> SUFFICES ASSUME VerdictInv, ApplyHunk \/ CopyRest PROVE VerdictInv'
  OBVIOUS
<1>1. pc = "apply" /\ UNCHANGED <<lines, request, sorted>>
  BY DEF ApplyHunk, CopyRest, Outcome
<1>2. /\ InOrder /\ SoFar(Len(sorted)) /\ request \in Seq(Hunk)
      /\ k \in 0..Len(sorted) /\ \A i \in 1..k : Fits(sorted[i])
  BY <1>1 DEF VerdictInv, Applying
<1>3. InOrder' /\ SoFar(Len(sorted))'
  BY <1>1, <1>2, SameHunks DEF InOrder, SoFar
<1>4. Len(sorted) \in Nat
  BY <1>2, SortedIsRequest
<1>5. CASE ApplyHunk /\ Fits(sorted[k + 1])
  <2>1. k < Len(sorted) /\ pc' = "apply" /\ k' = k + 1
    BY <1>1, <1>5 DEF ApplyHunk
  <2>2. \A i \in 1..k + 1 : i \in 1..k \/ i = k + 1
    BY <1>2, <1>4
  <2>3. (\A i \in 1..k : Fits(sorted[i]))'
    BY <1>1, <1>2, <1>5, <2>1, <2>2, SameHunks
  <2>4. (k \in 0..Len(sorted))'
    BY <1>1, <1>2, <1>4, <2>1
  <2> QED
    BY <1>1, <1>3, <2>1, <2>3, <2>4 DEF VerdictInv, Validating, Applying
<1>6. CASE ApplyHunk /\ ~Fits(sorted[k + 1])
  <2>1. k < Len(sorted) /\ pc' = "conflict" /\ k' = k
    BY <1>6 DEF ApplyHunk, Outcome
  <2>2. k + 1 \in 1..Len(sorted)
    BY <1>2, <1>4, <2>1
  <2>3. (\E i \in 1..Len(sorted) : ~Fits(sorted[i]))'
    BY <1>1, <1>6, <2>2, SameHunks
  <2>4. (\A i \in 1..k : Fits(sorted[i]))'
    BY <1>1, <1>2, <2>1, SameHunks
  <2> QED
    BY <1>1, <1>2, <1>3, <2>1, <2>3, <2>4 DEF VerdictInv, Validating, Applying
<1>7. CASE CopyRest
  <2>1. k = Len(sorted) /\ k' = k /\ pc' = "done"
    BY <1>7 DEF CopyRest
  <2>2. (\A i \in 1..k : Fits(sorted[i]))'
    BY <1>1, <1>2, <2>1, SameHunks
  <2> QED
    BY <1>1, <1>2, <1>3, <2>1, <2>2 DEF VerdictInv, Validating, Applying
<1> QED
  BY <1>5, <1>6, <1>7

LEMMA VerdictStep == VerdictInv /\ [Next]_vars => VerdictInv'
<1> SUFFICES ASSUME VerdictInv, [Next]_vars PROVE VerdictInv'
  OBVIOUS
<1>1. CASE UNCHANGED vars
  <2>1. /\ UNCHANGED <<lines, request, sorted, pc, k, prevEnd, prevStart>>
        /\ InOrder' = InOrder /\ \A n : SoFar(n)' = SoFar(n)
    BY <1>1, SameHunks DEF vars, InOrder, SoFar
  <2> QED
    BY <2>1, SameHunks DEF VerdictInv, Validating, Applying
<1>2. CASE Finished
  BY <1>1, <1>2 DEF Finished
<1> QED
  BY <1>1, <1>2, VerdictSort, VerdictValidate, VerdictValidated, VerdictApply
     DEF Next

\* The invariant gives the property: a refusal is for a reason, and what is
\* applied, or in conflict, is acceptable.
LEMMA VerdictInvIsRight == VerdictInv => VerdictIsRight
<1> SUFFICES ASSUME VerdictInv PROVE VerdictIsRight
  OBVIOUS
<1>1. ASSUME pc \in {"conflict", "done"}
      PROVE  /\ Acceptable
             /\ pc = "conflict" => \E h \in Hunks : ~Fits(h)
             /\ pc = "done" => \A h \in Hunks : Fits(h)
  <2>1. /\ InOrder /\ SoFar(Len(sorted)) /\ request \in Seq(Hunk)
        /\ IsFile(lines)
    BY <1>1 DEF VerdictInv, Applying
  <2>2. /\ Acceptable
        /\ \A h \in Hunks : \E i \in 1..Len(sorted) : h = sorted[i]
        /\ \A i \in 1..Len(sorted) : sorted[i] \in Hunks
    BY <2>1, SoFarIsAcceptable, SortedIsRequest
  <2>3. /\ \A i \in 1..k : Fits(sorted[i])
        /\ pc = "conflict" => \E i \in 1..Len(sorted) : ~Fits(sorted[i])
        /\ pc = "done" => k = Len(sorted)
    BY <1>1 DEF VerdictInv, Applying
  <2> QED
    BY <2>2, <2>3
<1> QED
  BY <1>1 DEF VerdictInv, VerdictIsRight

\* A patch is refused, in conflict or applied exactly when VerdictIsRight
\* says, however many hunks it has and in whatever order they come.
THEOREM VerdictHolds == Spec => []VerdictIsRight
<1>1. Init => VerdictInv
  BY VerdictInit
<1>2. VerdictInv /\ [Next]_vars => VerdictInv'
  BY VerdictStep
<1>3. VerdictInv => VerdictIsRight
  BY VerdictInvIsRight
<1> QED
  BY <1>1, <1>2, <1>3, PTL DEF Spec

-----------------------------------------------------------------------------
(* Terminators.                                                             *)

\* Files one after the other are a file, when the first ends with a terminator.
LEMMA FileConcat ==
  ASSUME NEW s, NEW t, IsFile(s), IsFile(t), ~Unterminated(s) \/ t = <<>>
  PROVE  /\ IsFile(s \o t)
         /\ Unterminated(s \o t) => IF t = <<>> THEN Unterminated(s)
                                                 ELSE Unterminated(t)
<1>1. s \in Seq(Line) /\ t \in Seq(Line) /\ s \o t \in Seq(Line)
  BY DEF IsFile
<1>2. /\ Len(s) \in Nat /\ Len(t) \in Nat /\ Len(s \o t) = Len(s) + Len(t)
      /\ \A i \in 1..Len(s) : (s \o t)[i] = s[i]
      /\ \A i \in Len(s) + 1..Len(s) + Len(t) : (s \o t)[i] = t[i - Len(s)]
  BY <1>1
<1>3. CASE t = <<>>
  <2>1. s \o t = s
    BY <1>1, <1>3
  <2> QED
    BY <1>3, <2>1
<1>4. CASE t # <<>>
  <2>1. Len(t) > 0 /\ s \o t # <<>>
    BY <1>1, <1>2, <1>4
  <2>2. ASSUME NEW i \in 1..Len(s \o t) - 1
        PROVE  (s \o t)[i].term # "none"
    <3>1. CASE i < Len(s)
      BY <1>2, <3>1 DEF IsFile
    <3>2. CASE i = Len(s)
      <4>1. s # <<>> /\ (s \o t)[i] = s[Len(s)]
        BY <1>1, <1>2, <3>2
      <4> QED
        BY <1>4, <4>1 DEF Unterminated
    <3>3. CASE i > Len(s)
      <4>1. (s \o t)[i] = t[i - Len(s)] /\ i - Len(s) \in 1..Len(t) - 1
        BY <1>2, <3>3
      <4> QED
        BY <4>1 DEF IsFile
    <3> QED
      BY <1>2, <3>1, <3>2, <3>3
  <2>3. (s \o t)[Len(s \o t)] = t[Len(t)]
    BY <1>2, <2>1
  <2> QED
    BY <1>1, <1>4, <2>2, <2>3 DEF IsFile, Unterminated
<1> QED
  BY <1>3, <1>4

\* A stretch of a file is a file, and lacks a terminator only at its end.
LEMMA FilePart ==
  ASSUME NEW s, IsFile(s), NEW m \in Int, NEW n \in Int,
         1 =< m, m =< n + 1, n =< Len(s)
  PROVE  /\ IsFile(SubSeq(s, m, n))
         /\ SubSeq(s, m, n) = <<>> <=> m = n + 1
         /\ Unterminated(SubSeq(s, m, n)) => n = Len(s) /\ Unterminated(s)
<1> DEFINE part == SubSeq(s, m, n)
<1>1. s \in Seq(Line) /\ Len(s) \in Nat
  BY DEF IsFile
<1>2. /\ part \in Seq(Line) /\ Len(part) = n - m + 1
      /\ \A i \in 1..n - m + 1 : part[i] = s[m + i - 1]
  BY <1>1
<1>3. part = <<>> <=> m = n + 1
  BY <1>2
<1>4. ASSUME NEW i \in 1..Len(part) - 1
      PROVE  part[i].term # "none"
  <2>1. part[i] = s[m + i - 1] /\ m + i - 1 \in 1..Len(s) - 1
    BY <1>1, <1>2
  <2> QED
    BY <2>1 DEF IsFile
<1>5. ASSUME Unterminated(part) PROVE n = Len(s) /\ Unterminated(s)
  <2>1. part # <<>> /\ part[Len(part)].term = "none"
    BY <1>5 DEF Unterminated
  <2>2. m =< n
    BY <1>3, <2>1
  <2>3. part[Len(part)] = s[n] /\ n \in 1..Len(s)
    <3>1. Len(part) = n - m + 1 /\ n - m + 1 \in 1..n - m + 1
      BY <1>2, <2>2
    <3>2. part[n - m + 1] = s[m + (n - m + 1) - 1]
      BY <1>2, <3>1
    <3>3. m + (n - m + 1) - 1 = n /\ n \in 1..Len(s)
      BY <1>1, <2>2
    <3> HIDE DEF part
    <3> QED
      BY <3>1, <3>2, <3>3
  <2>4. n = Len(s)
    BY <1>1, <2>1, <2>3 DEF IsFile
  <2> QED
    BY <1>1, <2>1, <2>3, <2>4 DEF Unterminated
<1> QED
  BY <1>2, <1>3, <1>4, <1>5 DEF IsFile

\* Giving the last line another terminator leaves a file a file.
LEMMA FileWithTerm ==
  ASSUME NEW s, IsFile(s), s # <<>>, NEW t \in Terms
  PROVE  /\ IsFile(WithTerm(s, t)) /\ WithTerm(s, t) # <<>>
         /\ Unterminated(WithTerm(s, t)) <=> t = "none"
<1> DEFINE w == WithTerm(s, t)
<1>1. s \in Seq(Line) /\ Len(s) \in Nat \ {0} /\ DOMAIN s = 1..Len(s)
  BY DEF IsFile
<1>2. /\ w = [i \in 1..Len(s) |-> IF i = Len(s) THEN [s[i] EXCEPT !.term = t]
                                                ELSE s[i]]
  BY <1>1 DEF WithTerm
<1>3. \A i \in 1..Len(s) : s[i] \in Line
  BY <1>1
<1>4. /\ \A i \in 1..Len(s) : w[i] \in Line
      /\ w[Len(s)].term = t /\ \A i \in 1..Len(s) - 1 : w[i] = s[i]
  BY <1>1, <1>2, <1>3 DEF Line
<1>5. w \in Seq(Line) /\ Len(w) = Len(s)
  BY <1>1, <1>2, <1>4
<1>6. \A i \in 1..Len(w) - 1 : w[i].term # "none"
  BY <1>4, <1>5 DEF IsFile
<1>7. w # <<>>
  BY <1>1, <1>5
<1> HIDE DEF w
<1> QED
  BY <1>4, <1>5, <1>6, <1>7 DEF IsFile, Unterminated, w

\* The terminator for new lines is one: when any line has one, the first has.
LEMMA FileTermType ==
  ASSUME IsFile(lines)
  PROVE  FileTerm \in Terms /\ FileTerm # "none"
<1>1. lines \in Seq(Line) /\ Len(lines) \in Nat /\ DOMAIN lines = 1..Len(lines)
  BY DEF IsFile
<1>2. CASE \A i \in DOMAIN lines : lines[i].term = "none"
  BY <1>2 DEF FileTerm, Terms
<1>3. CASE \E i \in DOMAIN lines : lines[i].term # "none"
  <2> DEFINE First(i) == /\ lines[i].term # "none"
                         /\ \A j \in 1..i - 1 : lines[j].term = "none"
  <2>1. 1 \in DOMAIN lines /\ lines[1].term # "none"
    BY <1>1, <1>3 DEF IsFile
  <2>2. First(1)
    BY <2>1
  <2>3. \E i \in DOMAIN lines : First(i)
    BY <2>1, <2>2
  <2>4. FileTerm = lines[CHOOSE i \in DOMAIN lines : First(i)].term
    BY <1>3 DEF FileTerm
  <2>5. PICK i \in DOMAIN lines : First(i) /\ FileTerm = lines[i].term
    BY <2>3, <2>4
  <2>6. lines[i] \in Line
    BY <1>1, <2>5
  <2> QED
    BY <2>5, <2>6 DEF Line
<1> QED
  BY <1>2, <1>3

\* The new lines of a hunk all end with it.
LEMMA NewLinesAreFile ==
  ASSUME IsFile(lines), NEW h \in Hunk
  PROVE  /\ IsFile(NewLines(h)) /\ ~Unterminated(NewLines(h))
         /\ NewLines(h) = <<>> <=> h.new = <<>>
<1> DEFINE n == NewLines(h)
<1>1. h.new \in Seq(Texts) /\ Len(h.new) \in Nat /\ DOMAIN h.new = 1..Len(h.new)
  BY DEF Hunk
<1>2. \A i \in 1..Len(h.new) : h.new[i] \in Texts
  BY <1>1
<1>3. n = [i \in 1..Len(h.new) |-> [text |-> h.new[i], term |-> FileTerm]]
  BY <1>1 DEF NewLines
<1>4. /\ n \in Seq(Line) /\ Len(n) = Len(h.new)
      /\ \A i \in 1..Len(n) : n[i].term # "none"
  BY <1>1, <1>2, <1>3, FileTermType DEF Line
<1>5. n = <<>> <=> h.new = <<>>
  BY <1>1, <1>4
<1> HIDE DEF n
<1> QED
  BY <1>4, <1>5 DEF IsFile, Unterminated, n

\* The hunk that applyHunks is at is in the file, behind what was copied, and
\* the next one is behind it.
LEMMA NextHunk ==
  ASSUME VerdictInv, pc = "apply", k < Len(sorted)
  PROVE  /\ sorted[k + 1] \in Hunk /\ InRange(sorted[k + 1])
         /\ k \in Nat /\ Len(sorted) \in Nat
         /\ k + 1 < Len(sorted) =>
              sorted[k + 1].end + 1 =< sorted[k + 2].start
<1>1. /\ InOrder /\ SoFar(Len(sorted)) /\ request \in Seq(Hunk)
      /\ k \in 0..Len(sorted)
  BY DEF VerdictInv, Applying
<1>2. Len(sorted) \in Nat /\ k + 1 \in 1..Len(sorted) /\ sorted[k + 1] \in Hunk
  BY <1>1, SortedIsRequest
<1>3. ASSUME k + 1 < Len(sorted)
      PROVE  sorted[k + 1].end + 1 =< sorted[k + 2].start
  <2>1. k + 2 \in 1..Len(sorted) /\ k + 1 < k + 2
    BY <1>1, <1>2, <1>3
  <2>2. sorted[k + 1].end < sorted[k + 2].start /\ sorted[k + 2] \in Hunk
    BY <1>1, <1>2, <2>1, SortedIsRequest DEF SoFar
  <2>3. sorted[k + 1].end \in Int /\ sorted[k + 2].start \in Int
    BY <1>2, <2>2 DEF Hunk
  <2> QED
    BY <2>2, <2>3
<1> QED
  BY <1>1, <1>2, <1>3 DEF SoFar

\* What has been written so far is a file; it lacks its last terminator only
\* when all of the old file has been copied or replaced, and that did.
JoinInv ==
  /\ pc \in {"sort", "validate"} => result = <<>> /\ cursor = 1 /\ k \in Nat
  /\ pc = "apply" =>
       /\ IsFile(result) /\ cursor \in 1..Len(lines) + 1
       /\ k < Len(sorted) => cursor =< sorted[k + 1].start
       /\ Unterminated(result) => cursor = Len(lines) + 1 /\ Unterminated(lines)
  /\ pc = "done" => IsFile(result)

LEMMA JoinApply ==
  ASSUME VerdictInv, JoinInv, ApplyHunk PROVE JoinInv'
<1> DEFINE h == sorted[k + 1]
           gap == SubSeq(lines, cursor, h.start - 1)
           before == result \o gap
           parted == Parted(before, h)
           filled == parted \o NewLines(h)
<1>1. /\ pc = "apply" /\ k < Len(sorted) /\ UNCHANGED <<lines, sorted>>
      /\ IsFile(lines) /\ IsFile(result) /\ cursor \in 1..Len(lines) + 1
      /\ cursor =< h.start /\ Len(lines) \in Nat
      /\ Unterminated(result) => cursor = Len(lines) + 1 /\ Unterminated(lines)
  BY DEF ApplyHunk, Outcome, JoinInv, VerdictInv, IsFile
<1>2. /\ h \in Hunk /\ h.start \in Int /\ h.end \in Int
      /\ 1 =< h.start /\ h.start =< Len(lines) + 1
      /\ h.start - 1 =< h.end /\ h.end =< Len(lines)
  BY <1>1, NextHunk DEF InRange, Hunk
<1>3. /\ IsFile(gap)
      /\ gap = <<>> <=> cursor = h.start
      /\ Unterminated(gap) => h.start = Len(lines) + 1 /\ Unterminated(lines)
  <2>1. /\ cursor \in Int /\ h.start - 1 \in Int /\ 1 =< cursor
        /\ cursor =< (h.start - 1) + 1 /\ h.start - 1 =< Len(lines)
    BY <1>1, <1>2
  <2>2. /\ IsFile(gap)
        /\ gap = <<>> <=> cursor = (h.start - 1) + 1
        /\ Unterminated(gap) => h.start - 1 = Len(lines) /\ Unterminated(lines)
    BY <1>1, <2>1, FilePart
  <2> HIDE DEF gap, h
  <2> QED
    BY <1>1, <1>2, <2>2
<1>4. /\ IsFile(before)
      /\ Unterminated(before) => h.start = Len(lines) + 1 /\ Unterminated(lines)
  <2> HIDE DEF gap, h
  <2>1. /\ IsFile(result) /\ IsFile(gap)
        /\ ~Unterminated(result) \/ gap = <<>>
    <3>1. Unterminated(result) => cursor = h.start
      BY <1>1, <1>2
    <3> QED
      BY <1>1, <1>3, <3>1
  <2>2. /\ IsFile(before)
        /\ Unterminated(before) => IF gap = <<>> THEN Unterminated(result)
                                                 ELSE Unterminated(gap)
    BY <2>1, FileConcat
  <2> QED
    BY <1>1, <1>2, <1>3, <2>2
<1>5. /\ IsFile(parted)
      /\ Unterminated(parted) => Unterminated(before) /\ h.new = <<>>
  <2> HIDE DEF before, h
  <2>1. CASE h.new # <<>> /\ Unterminated(before) /\ Unterminated(lines)
    <3>1. parted = WithTerm(before, FileTerm) /\ before # <<>>
      BY <2>1 DEF Parted, Unterminated
    <3> QED
      BY <1>1, <1>4, <3>1, FileTermType, FileWithTerm
  <2>2. CASE ~(h.new # <<>> /\ Unterminated(before) /\ Unterminated(lines))
    <3>1. parted = before
      BY <2>2 DEF Parted
    <3> QED
      BY <1>4, <2>2, <3>1
  <2> QED
    BY <2>1, <2>2
<1>6. /\ IsFile(filled)
      /\ Unterminated(filled) => h.end = Len(lines) /\ Unterminated(lines)
  <2>1. /\ IsFile(NewLines(h)) /\ ~Unterminated(NewLines(h))
        /\ NewLines(h) = <<>> <=> h.new = <<>>
    BY <1>1, <1>2, NewLinesAreFile
  <2> HIDE DEF parted, before, h
  <2>2. /\ IsFile(filled)
        /\ Unterminated(filled) => Unterminated(parted)
    BY <1>5, <2>1, FileConcat
  <2> QED
    BY <1>1, <1>2, <1>4, <1>5, <2>2
<1>7. /\ IsFile(Ended(filled, h))
      /\ Unterminated(Ended(filled, h)) =>
           h.end = Len(lines) /\ Unterminated(lines)
  <2>1. CASE /\ k + 1 = Len(sorted) /\ h.new # <<>>
             /\ h.start =< h.end /\ h.end = Len(lines) /\ Unterminated(lines)
    <3>1. Ended(filled, h) = WithTerm(filled, "none")
      BY <2>1 DEF Ended
    <3>2. NewLines(h) # <<>> /\ IsFile(NewLines(h)) /\ IsFile(parted)
      BY <1>1, <1>2, <1>5, <2>1, NewLinesAreFile
    <3>3. filled # <<>>
      <4> HIDE DEF parted, h
      <4> QED BY <3>2 DEF IsFile
    <3> HIDE DEF filled, h
    <3> QED
      BY <1>6, <2>1, <3>1, <3>3, FileWithTerm DEF Terms
  <2>2. CASE ~(/\ k + 1 = Len(sorted) /\ h.new # <<>>
               /\ h.start =< h.end /\ h.end = Len(lines) /\ Unterminated(lines))
    <3>1. Ended(filled, h) = filled
      BY <2>2 DEF Ended
    <3> HIDE DEF filled, h
    <3> QED
      BY <1>6, <3>1
  <2> QED
    BY <2>1, <2>2
<1>8. CASE ~Fits(h)
  <2>1. pc' = "conflict"
    BY <1>8 DEF ApplyHunk, Outcome
  <2> QED
    BY <2>1 DEF JoinInv
<1>9. CASE Fits(h)
  <2>1. /\ pc' = "apply" /\ k' = k + 1 /\ cursor' = h.end + 1
        /\ result' = Ended(filled, h)
    <3>1. Applied(h) = Ended(filled, h)
      BY DEF Applied
    <3>2. result' = Applied(h) /\ cursor' = h.end + 1 /\ k' = k + 1
      BY <1>9 DEF ApplyHunk
    <3>3. pc' = pc
      BY <1>9 DEF ApplyHunk
    <3> HIDE DEF filled, h
    <3> QED
      BY <1>1, <3>1, <3>2, <3>3
  <2>2. cursor' \in 1..Len(lines') + 1
    <3>1. lines' = lines /\ cursor' = h.end + 1
      BY <1>1, <2>1
    <3> HIDE DEF h
    <3>2. h.end + 1 \in 1..Len(lines) + 1
      BY <1>1, <1>2
    <3> QED
      BY <3>1, <3>2
  <2>3. k' < Len(sorted') => cursor' =< sorted'[k' + 1].start
    <3>1. k + 1 + 1 = k + 2
      BY <1>1, NextHunk
    <3> QED
      BY <1>1, <2>1, <3>1, NextHunk
  <2>4. /\ IsFile(result')
        /\ Unterminated(result') => cursor' = Len(lines') + 1
    BY <1>1, <1>7, <2>1
  <2>5. /\ IsFile(result)' /\ Unterminated(result)' = Unterminated(result')
        /\ Unterminated(lines)' = Unterminated(lines)
    BY <1>1, <1>7, <2>1 DEF IsFile, Unterminated
  <2>6. Unterminated(result)' => Unterminated(lines)'
    BY <1>7, <2>1, <2>5
  <2> QED
    BY <2>1, <2>2, <2>3, <2>4, <2>5, <2>6 DEF JoinInv
<1> QED
  BY <1>8, <1>9

LEMMA JoinCopy ==
  ASSUME VerdictInv, JoinInv, CopyRest PROVE JoinInv'
<1> DEFINE rest == SubSeq(lines, cursor, Len(lines))
<1>1. /\ IsFile(lines) /\ IsFile(result) /\ cursor \in 1..Len(lines) + 1
      /\ Len(lines) \in Nat /\ cursor \in Int /\ Len(lines) \in Int
      /\ 1 =< cursor /\ cursor =< Len(lines) + 1 /\ Len(lines) =< Len(lines)
      /\ Unterminated(result) => cursor = Len(lines) + 1
  BY DEF CopyRest, JoinInv, VerdictInv, IsFile
<1>2. /\ IsFile(rest)
      /\ rest = <<>> <=> cursor = Len(lines) + 1
  BY <1>1, FilePart
<1>3. pc' = "done" /\ result' = result \o rest
  BY DEF CopyRest
<1>4. IsFile(result \o rest)
  <2> HIDE DEF rest
  <2> QED BY <1>1, <1>2, FileConcat
<1>5. IsFile(result)'
  BY <1>3, <1>4 DEF IsFile
<1> QED
  BY <1>3, <1>5 DEF JoinInv

LEMMA JoinStep == VerdictInv /\ JoinInv /\ [Next]_vars => JoinInv'
<1> SUFFICES ASSUME VerdictInv, JoinInv, [Next]_vars PROVE JoinInv'
  OBVIOUS
<1>1. CASE UNCHANGED vars
  <2>1. UNCHANGED <<lines, sorted, pc, k, cursor, result>>
    BY <1>1 DEF vars
  <2> QED
    BY <2>1 DEF JoinInv, IsFile, Unterminated
<1>2. CASE Finished
  BY <1>1, <1>2 DEF Finished
<1>3. CASE SortHunks \/ ValidateHunk
  BY <1>3 DEF SortHunks, ValidateHunk, Outcome, JoinInv
<1>4. CASE Validated
  <2>1. /\ pc = "validate" /\ pc' = "apply" /\ k = Len(sorted) /\ k' = 0
        /\ UNCHANGED <<lines, sorted, cursor, result>>
        /\ result = <<>> /\ cursor = 1
    BY <1>4 DEF Validated, JoinInv
  <2>2. /\ InOrder /\ SoFar(Len(sorted)) /\ request \in Seq(Hunk)
        /\ Len(lines) \in Nat
    BY <2>1 DEF VerdictInv, Validating, IsFile
  <2>3. Len(sorted) \in Nat \ {0} /\ InRange(sorted[1])
    BY <2>2, SortedIsRequest DEF SoFar
  <2>4. cursor =< sorted[1].start /\ cursor \in 1..Len(lines) + 1
    BY <2>1, <2>2, <2>3 DEF InRange
  <2>5. IsFile(<<>>) /\ ~Unterminated(<<>>)
    BY DEF IsFile, Unterminated
  <2>6. IsFile(result)' /\ ~Unterminated(result)'
    BY <2>1, <2>5 DEF IsFile, Unterminated
  <2> QED
    BY <2>1, <2>4, <2>6 DEF JoinInv
<1> QED
  BY <1>1, <1>2, <1>3, <1>4, JoinApply, JoinCopy DEF Next

-----------------------------------------------------------------------------
(* The lines are found again.  A line without terminator may be given one,  *)
(* so it is not enough that it is Whole as it stands: it must not end in a  *)
(* carriage return either.                                                  *)

Steady == {line \in Line : /\ Whole(line)
                           /\ line.term = "none" => line.text \notin Trailing}

WholeInv == WellGiven => lines \in Seq(Steady) /\ result \in Seq(Steady)

LEMMA WholeInit == Init => WholeInv
<1> SUFFICES ASSUME Init, WellGiven
             PROVE  lines \in Seq(Steady) /\ result \in Seq(Steady)
  BY DEF WholeInv
<1>1. ReadsBack(lines)
  BY InputsAssumption DEF Init
<1>2. /\ lines \in Seq(Line) /\ Len(lines) \in Nat /\ DOMAIN lines = 1..Len(lines)
      /\ \A i \in 1..Len(lines) : Whole(lines[i]) /\ lines[i] \in Line
      /\ \A i \in 1..Len(lines) - 1 : lines[i].term # "none"
  BY <1>1 DEF ReadsBack, IsFile
<1>3. ASSUME NEW i \in 1..Len(lines) PROVE lines[i] \in Steady
  <2>1. CASE i = Len(lines)
    <3>1. lines # <<>>
      BY <1>2, <2>1
    <3>2. lines[i].term = "none" => lines[i].text \notin Trailing
      BY <2>1, <3>1 DEF WellGiven, Unterminated, LastLine
    <3> QED
      BY <1>2, <3>2 DEF Steady
  <2>2. CASE i # Len(lines)
    <3>1. Len(lines) \in Nat /\ i \in 1..Len(lines)
      BY <1>2
    <3>2. i \in 1..Len(lines) - 1
      <4> HIDE DEF Steady
      <4>1. \A n \in Nat : i \in 1..n /\ i # n => i \in 1..n - 1
        OBVIOUS
      <4> QED BY <2>2, <3>1, <4>1
    <3> QED
      BY <1>2, <3>2 DEF Steady
  <2> QED
    BY <2>1, <2>2
<1>4. lines \in Seq(Steady)
  BY <1>2, <1>3
<1> QED
  BY <1>4 DEF Init

\* A last line that has a right to it can be given any terminator.
LEMMA SteadyWithTerm ==
  ASSUME NEW s \in Seq(Steady), s # <<>>, NEW t \in Terms,
         s[Len(s)].text \notin Trailing,
         t = "none" => s[Len(s)].text # Empty
  PROVE  WithTerm(s, t) \in Seq(Steady)
<1>1. Len(s) \in 1..Len(s) /\ Len(s) \in Nat /\ s[Len(s)] \in Steady
  OBVIOUS
<1>2. [s[Len(s)] EXCEPT !.term = t] \in Steady
  BY <1>1 DEF Steady, Whole, Line
<1>3. WithTerm(s, t) = [s EXCEPT ![Len(s)] = [s[Len(s)] EXCEPT !.term = t]]
  BY DEF WithTerm
<1> HIDE DEF Steady
<1> QED
  BY <1>1, <1>2, <1>3

LEMMA WholeApply ==
  ASSUME VerdictInv, JoinInv, WholeInv, WellGiven,
         pc = "apply", k < Len(sorted)
  PROVE  Applied(sorted[k + 1]) \in Seq(Steady)
<1> DEFINE h == sorted[k + 1]
           gap == SubSeq(lines, cursor, h.start - 1)
           before == result \o gap
           parted == Parted(before, h)
           new == NewLines(h)
<1>1. /\ IsFile(lines) /\ cursor \in 1..Len(lines) + 1 /\ cursor =< h.start
      /\ Len(lines) \in Nat /\ lines \in Seq(Steady) /\ result \in Seq(Steady)
  BY DEF JoinInv, VerdictInv, IsFile, WholeInv
<1>2. /\ h \in Hunk /\ h.start \in Int /\ h.new \in Seq(Texts)
      /\ 1 =< h.start /\ h.start =< Len(lines) + 1
  BY NextHunk DEF InRange, Hunk
<1>3. h \in Hunks
  BY NextHunk, SortedIsRequest DEF VerdictInv, Applying
<1>4. FileTerm \in {"lf", "crlf"}
  BY <1>1, FileTermType DEF Terms
<1>5. before \in Seq(Steady)
  <2>1. gap \in Seq(Steady)
    <3> HIDE DEF h, Steady
    <3> QED BY <1>1, <1>2
  <2> HIDE DEF gap, Steady
  <2> QED BY <1>1, <2>1
<1>6. parted \in Seq(Steady)
  <2>1. CASE h.new # <<>> /\ Unterminated(before) /\ Unterminated(lines)
    <3>1. parted = WithTerm(before, FileTerm) /\ before # <<>>
      BY <2>1 DEF Parted, Unterminated
    <3> HIDE DEF before, h
    <3>2. Len(before) \in 1..Len(before) /\ before[Len(before)] \in Steady
      BY <1>5, <3>1
    <3>3. before[Len(before)].text \notin Trailing
      BY <2>1, <3>2 DEF Steady, Unterminated
    <3> QED
      BY <1>4, <1>5, <3>1, <3>3, SteadyWithTerm DEF Terms
  <2>2. CASE ~(h.new # <<>> /\ Unterminated(before) /\ Unterminated(lines))
    BY <1>5, <2>2 DEF Parted
  <2> QED
    BY <2>1, <2>2
<1>7. /\ new \in Seq(Steady) /\ Len(new) = Len(h.new)
      /\ \A i \in 1..Len(new) : new[i].text = h.new[i]
  <2>1. /\ new = [i \in 1..Len(h.new) |-> [text |-> h.new[i], term |-> FileTerm]]
        /\ Len(h.new) \in Nat /\ DOMAIN h.new = 1..Len(h.new)
        /\ \A i \in 1..Len(h.new) : h.new[i] \in Texts
    BY <1>2 DEF NewLines
  <2>2. \A i \in 1..Len(h.new) : h.new[i] \notin Holding \cup Trailing
    BY <1>3, <2>1 DEF WellGiven
  <2>3. \A i \in 1..Len(h.new) : [text |-> h.new[i], term |-> FileTerm] \in Steady
    BY <1>4, <2>1, <2>2 DEF Steady, Whole, Line, Terms
  <2> HIDE DEF new, h, Steady
  <2> QED
    BY <2>1, <2>3
<1>8. parted \o new \in Seq(Steady)
  <2> HIDE DEF parted, new, Steady
  <2> QED BY <1>6, <1>7
<1>9. Ended(parted \o new, h) \in Seq(Steady)
  <2>1. CASE h.new # <<>> /\ Unterminated(lines)
    <3>1. /\ Len(h.new) \in Nat \ {0} /\ DOMAIN h.new = 1..Len(h.new)
          /\ h.new[Len(h.new)] # Empty
          /\ h.new[Len(h.new)] \notin Holding \cup Trailing
      BY <1>2, <1>3, <2>1 DEF WellGiven
    <3> HIDE DEF parted, new, h, Steady
    <3>2. /\ parted \o new # <<>>
          /\ (parted \o new)[Len(parted \o new)] = new[Len(new)]
      BY <1>6, <1>7, <3>1
    <3>3. (parted \o new)[Len(parted \o new)].text = h.new[Len(h.new)]
      BY <1>7, <3>1, <3>2
    <3>4. WithTerm(parted \o new, "none") \in Seq(Steady)
      BY <1>8, <3>1, <3>2, <3>3, SteadyWithTerm DEF Terms
    <3> QED
      BY <1>8, <3>4 DEF Ended
  <2>2. CASE ~(h.new # <<>> /\ Unterminated(lines))
    <3> HIDE DEF parted, new, Steady
    <3> QED BY <1>8, <2>2 DEF Ended
  <2> QED
    BY <2>1, <2>2
<1>10. Applied(h) = Ended(parted \o new, h)
  BY DEF Applied
<1> QED
  BY <1>9, <1>10

LEMMA WholeStep ==
  VerdictInv /\ JoinInv /\ WholeInv /\ [Next]_vars => WholeInv'
<1> SUFFICES ASSUME VerdictInv, JoinInv, WholeInv, [Next]_vars, WellGiven'
             PROVE  lines' \in Seq(Steady) /\ result' \in Seq(Steady)
  BY DEF WholeInv
<1>1. UNCHANGED <<lines, request>>
  BY DEF vars, Next, SortHunks, ValidateHunk, Validated, ApplyHunk, CopyRest,
         Finished, Outcome
<1>2. WellGiven /\ lines \in Seq(Steady) /\ result \in Seq(Steady)
  <2>1. WellGiven
    BY <1>1 DEF WellGiven, Hunks, Unterminated, LastLine
  <2> QED
    BY <2>1 DEF WholeInv
<1>3. CASE ApplyHunk
  <2>1. pc = "apply" /\ k < Len(sorted)
    BY <1>3 DEF ApplyHunk
  <2>2. Applied(sorted[k + 1]) \in Seq(Steady)
    BY <1>2, <2>1, WholeApply
  <2>3. result' = result \/ result' = Applied(sorted[k + 1])
    BY <1>3 DEF ApplyHunk, Outcome
  <2> QED
    BY <1>1, <1>2, <2>2, <2>3
<1>4. CASE CopyRest
  <2> HIDE DEF Steady
  <2>1. /\ cursor \in 1..Len(lines) + 1 /\ Len(lines) \in Nat
        /\ result' = result \o SubSeq(lines, cursor, Len(lines))
    BY <1>2, <1>4 DEF CopyRest, JoinInv
  <2>2. SubSeq(lines, cursor, Len(lines)) \in Seq(Steady)
    BY <1>2, <2>1
  <2> QED
    BY <1>1, <1>2, <2>1, <2>2
<1>5. CASE SortHunks \/ ValidateHunk \/ Validated \/ Finished \/ UNCHANGED vars
  <2>1. result' = result
    BY <1>5 DEF SortHunks, ValidateHunk, Validated, Finished, Outcome, vars
  <2> QED
    BY <1>1, <1>2, <2>1
<1> QED
  BY <1>3, <1>4, <1>5 DEF Next

LEMMA WholeIsReadBack == VerdictInv /\ JoinInv /\ WholeInv => NeverJoined
<1> SUFFICES ASSUME VerdictInv, JoinInv, WholeInv, pc = "done"
             PROVE  IsFile(result) /\ (WellGiven => ReadsBack(result))
  BY DEF NeverJoined
<1>1. IsFile(result)
  BY DEF JoinInv
<1>2. WellGiven => ReadsBack(result)
  BY <1>1 DEF WholeInv, ReadsBack, Steady
<1> QED
  BY <1>1, <1>2

\* However many hunks insert, remove and replace lines, at the end of a file
\* with or without a last newline, no two lines of the result are joined, and a
\* request of lines makes a file that is read as the lines written.
THEOREM LinesStayApart == Spec => []NeverJoined
<1>1. Init => VerdictInv /\ JoinInv /\ WholeInv
  BY VerdictInit, WholeInit DEF Init, JoinInv
<1>2. VerdictInv /\ JoinInv /\ WholeInv /\ [Next]_vars
      => VerdictInv' /\ JoinInv' /\ WholeInv'
  BY VerdictStep, JoinStep, WholeStep
<1>3. VerdictInv /\ JoinInv /\ WholeInv => NeverJoined
  BY WholeIsReadBack
<1> QED
  BY <1>1, <1>2, <1>3, PTL DEF Spec

-----------------------------------------------------------------------------
(* Induction, for the recursion that the splice is.                         *)

\* Induction on the natural numbers, as a fact about sets of them.
LEMMA SetInduction ==
  ASSUME NEW T, 0 \in T, \A n \in Nat : n \in T => n + 1 \in T
  PROVE  \A n \in Nat : n \in T
<1> SUFFICES ASSUME NEW n \in Nat, n \notin T PROVE FALSE
  OBVIOUS
<1> DEFINE Less == OpToRel(<, Nat)
           Others == Nat \ T
<1>1. \A i, j \in Nat : <<i, j>> \in Less <=> i < j
  BY DEF OpToRel
<1>2. IsWellFoundedOn(Less, Nat) /\ Others \subseteq Nat /\ Others # {}
  BY NatLessThanWellFounded
<1> HIDE DEF Less, Others
<1>3. PICK x \in Others : \A y \in Others : <<y, x>> \notin Less
  BY <1>2, WFMin
<1>4. x \in Nat \ {0} /\ x - 1 \in Nat
  BY <1>3 DEF Others
<1>5. x - 1 \notin Others
  <2>1. <<x - 1, x>> \in Less
    BY <1>1, <1>4
  <2> QED
    BY <1>3, <2>1
<1>6. x - 1 \in T
  BY <1>4, <1>5 DEF Others
<1>7. (x - 1) + 1 \in T
  BY <1>4, <1>6
<1> QED
  BY <1>3, <1>4, <1>7 DEF Others

\* FlattenSeq has the value that its recursion says.
LEMMA Flattens ==
  ASSUME NEW s, Len(s) \in Nat \ {0}
  PROVE  \E f : /\ \A i \in 1..Len(s) : f[i] = IF i = 1 THEN s[i] ELSE f[i - 1] \o s[i]
                /\ FlattenSeq(s) = f[Len(s)]
<1> DEFINE Value(f, i) == IF i = 1 THEN s[i] ELSE f[i - 1] \o s[i]
           Flat(f, n) == f = [i \in 1..n |-> Value(f, i)]
           T == {n \in Nat : \E f : Flat(f, n)}
<1>1. 0 \in T
  <2> DEFINE f == [i \in 1..0 |-> 0]
  <2>1. Flat(f, 0)
    OBVIOUS
  <2> HIDE DEF f, Flat
  <2> QED
    BY <2>1
<1>2. ASSUME NEW n \in Nat, n \in T PROVE n + 1 \in T
  <2> HIDE DEF Flat
  <2>1. PICK f : Flat(f, n)
    BY <1>2
  <2> DEFINE g == [i \in 1..n + 1 |-> Value(f, i)]
  <2>2. \A i \in 1..n : f[i] = Value(f, i)
    BY <2>1 DEF Flat
  <2>3. \A i \in 1..n : i \in 1..n + 1
    OBVIOUS
  <2>4. \A i \in 1..n : g[i] = f[i]
    <3> HIDE DEF Value
    <3> QED
      BY <2>2, <2>3
  <2>5. \A i \in 1..n + 1 : Value(g, i) = Value(f, i)
    <3> HIDE DEF g
    <3>1. \A i \in 1..n + 1 : i # 1 => i - 1 \in 1..n
      OBVIOUS
    <3> QED
      BY <2>4, <3>1
  <2>6. g = [i \in 1..n + 1 |-> Value(g, i)]
    <3> HIDE DEF Value
    <3> QED
      BY <2>5
  <2>7. Flat(g, n + 1)
    BY <2>6 DEF Flat
  <2> HIDE DEF g
  <2> QED
    BY <2>7
<1>3. PICK f : Flat(f, Len(s))
  <2> HIDE DEF T
  <2>1. Len(s) \in T
    BY <1>1, <1>2, SetInduction
  <2> QED
    BY <2>1 DEF T
<1> QED
  BY <1>3 DEF FlattenSeq

-----------------------------------------------------------------------------
(* The splice, as a recursion over the lines of the old file.               *)

\* What comes, in the new file, of line i and of what a hunk puts before it.
Piece(i) == NewAt(i) \o IF i > Len(lines) \/ Removed(i) THEN <<>>
                        ELSE <<lines[i]>>

\* f[i] is the new file up to and including what comes of line i.
Splices(f) == /\ f[0] = <<>>
              /\ \A i \in 1..Len(lines) + 1 : f[i] = f[i - 1] \o Piece(i)
              /\ \A i \in 0..Len(lines) + 1 : f[i] \in Seq(Line)

\* New lines and pieces are sequences of lines.
LEMMA PieceType ==
  ASSUME IsFile(lines), request \in Seq(Hunk), NEW i \in 1..Len(lines) + 1
  PROVE  NewAt(i) \in Seq(Line) /\ Piece(i) \in Seq(Line)
<1> DEFINE at == {h \in Hunks : h.start = i}
<1>1. Hunks \subseteq Hunk
  BY DEF Hunks, ToSet
<1>2. NewAt(i) \in Seq(Line)
  <2>1. CASE at = {}
    <3>1. NewAt(i) = <<>>
      BY <2>1 DEF NewAt
    <3> QED
      BY <3>1
  <2>2. CASE at # {}
    <3>1. PICK h \in at : NewAt(i) = NewLines(h)
      BY <2>2 DEF NewAt
    <3>2. h \in Hunk
      BY <1>1
    <3> QED
      BY <3>1, <3>2, NewLinesAreFile DEF IsFile
  <2> QED
    BY <2>1, <2>2
<1>3. lines \in Seq(Line) /\ Len(lines) \in Nat
  BY DEF IsFile
<1> DEFINE kept == IF i > Len(lines) \/ Removed(i) THEN <<>> ELSE <<lines[i]>>
<1>4. kept \in Seq(Line)
  <2>1. CASE i > Len(lines) \/ Removed(i)
    BY <2>1
  <2>2. CASE ~(i > Len(lines) \/ Removed(i))
    <3>1. lines[i] \in Line
      BY <1>3, <2>2
    <3> QED
      BY <2>2, <3>1
  <2> QED
    BY <2>1, <2>2
<1>5. Piece(i) = NewAt(i) \o kept
  BY DEF Piece
<1> HIDE DEF kept
<1> QED
  BY <1>2, <1>4, <1>5, ConcatProperties

\* Spliced is the end of that recursion.
LEMMA SplicedIsLast ==
  ASSUME IsFile(lines), request \in Seq(Hunk)
  PROVE  \E f : Splices(f) /\ Spliced = f[Len(lines) + 1]
<1> DEFINE last == Len(lines) + 1
           s == [i \in 1..last |-> Piece(i)]
<1>1. Len(lines) \in Nat /\ last \in Nat \ {0}
  BY DEF IsFile
<1>2. Len(s) = last
  BY <1>1
<1>3. Spliced = FlattenSeq(s)
  BY DEF Spliced, Piece
<1> HIDE DEF s
<1>4. PICK g : /\ \A i \in 1..last : g[i] = IF i = 1 THEN s[i] ELSE g[i - 1] \o s[i]
               /\ Spliced = g[last]
  <2> HIDE DEF last
  <2> QED
    BY <1>1, <1>2, <1>3, Flattens
<1> DEFINE f == [i \in 0..last |-> IF i = 0 THEN <<>> ELSE g[i]]
           T == {n \in Nat : n \in 0..last => f[n] \in Seq(Line)}
<1>5. \A i \in 1..last : s[i] = Piece(i) /\ Piece(i) \in Seq(Line)
  BY PieceType DEF s
<1>6. f[0] = <<>> /\ \A i \in 1..last : f[i] = g[i]
  BY <1>1
<1>7. ASSUME NEW i \in 1..last PROVE f[i] = f[i - 1] \o Piece(i)
  <2> HIDE DEF f, last
  <2>1. CASE i = 1
    <3>1. f[i] = Piece(i) /\ f[i - 1] = <<>>
      BY <1>4, <1>5, <1>6, <2>1
    <3> QED
      BY <1>5, <3>1, ConcatEmptySeq
  <2>2. CASE i # 1
    <3>1. i - 1 \in 1..last
      BY <1>1, <2>2
    <3> QED
      BY <1>4, <1>5, <1>6, <2>2, <3>1
  <2> QED
    BY <2>1, <2>2
<1>8. \A n \in Nat : n \in T
  <2> HIDE DEF f, last
  <2>1. 0 \in T
    <3>1. f[0] \in Seq(Line)
      BY <1>6, EmptySeq
    <3> QED
      BY <3>1
  <2>2. ASSUME NEW n \in Nat, n \in T, n + 1 \in 0..last
        PROVE  f[n + 1] \in Seq(Line)
    <3>1. n \in 0..last /\ n + 1 \in 1..last /\ (n + 1) - 1 = n
      BY <1>1, <2>2
    <3>2. f[n] \in Seq(Line) /\ Piece(n + 1) \in Seq(Line)
      BY <1>5, <2>2, <3>1
    <3>3. f[n + 1] = f[n] \o Piece(n + 1)
      BY <1>7, <3>1
    <3> QED
      BY <3>2, <3>3, ConcatProperties
  <2>3. \A n \in Nat : n \in T => n + 1 \in T
    BY <2>2
  <2> HIDE DEF T
  <2> QED
    BY <2>1, <2>3, SetInduction
<1>9. \A n \in 0..last : f[n] \in Seq(Line)
  <2> HIDE DEF f
  <2> QED
    BY <1>1, <1>8
<1>10. Spliced = f[last]
  BY <1>1, <1>4, <1>6
<1> HIDE DEF f
<1> QED
  BY <1>6, <1>7, <1>9, <1>10 DEF Splices

\* Concatenation of lines is associative.
LEMMA LinesAssociate ==
  \A a, b, c \in Seq(Line) : (a \o b) \o c = a \o (b \o c)
BY ConcatAssociative

\* Lines that are kept, from c to m, are copied; x is what was put before the
\* first of them.
LEMMA GapIsCopied ==
  ASSUME IsFile(lines), NEW f, Splices(f), NEW c \in 1..Len(lines) + 1,
         NEW m \in c - 1..Len(lines), NEW x \in Seq(Line),
         \A i \in c..m : ~Removed(i) /\ NewAt(i) = IF i = c THEN x ELSE <<>>,
         m = c - 1 => x = <<>>
  PROVE  f[m] = (f[c - 1] \o x) \o SubSeq(lines, c, m)
<1> DEFINE base == f[c - 1] \o x
           Copied(n) == c + n =< m => f[c + n] = base \o SubSeq(lines, c, c + n)
           T == {n \in Nat : Copied(n)}
<1>1. /\ lines \in Seq(Line) /\ Len(lines) \in Nat /\ c \in Nat \ {0} /\ m \in Nat
      /\ c - 1 \in 0..Len(lines) + 1 /\ (c =< m \/ m = c - 1)
  BY DEF IsFile
<1>2. f[c - 1] \in Seq(Line) /\ base \in Seq(Line)
  <2>1. f[c - 1] \in Seq(Line)
    BY <1>1 DEF Splices
  <2> QED
    BY <2>1, ConcatProperties
<1>3. ASSUME NEW i \in c..m
      PROVE  /\ Piece(i) = (IF i = c THEN x ELSE <<>>) \o <<lines[i]>>
             /\ <<lines[i]>> \in Seq(Line)
             /\ f[i] = f[i - 1] \o Piece(i) /\ f[i - 1] \in Seq(Line)
             /\ i \in 1..Len(lines)
  <2>1. i \in 1..Len(lines) + 1 /\ i - 1 \in 0..Len(lines) + 1 /\ ~(i > Len(lines))
        /\ i \in 1..Len(lines)
    BY <1>1
  <2>2. f[i] = f[i - 1] \o Piece(i) /\ f[i - 1] \in Seq(Line)
    BY <2>1 DEF Splices
  <2>3. lines[i] \in Line
    BY <1>1, <2>1, ElementOfSeq
  <2>4. <<lines[i]>> \in Seq(Line)
    BY <2>3
  <2>5. Piece(i) = (IF i = c THEN x ELSE <<>>) \o <<lines[i]>>
    BY <2>1 DEF Piece
  <2> QED
    BY <2>1, <2>2, <2>4, <2>5
<1> HIDE DEF base
<1>4. Copied(0)
  <2> SUFFICES ASSUME c =< m PROVE f[c + 0] = base \o SubSeq(lines, c, c + 0)
    OBVIOUS
  <2>1. c \in c..m /\ c + 0 = c /\ c \in 1..Len(lines) /\ c \in c..Len(lines)
    BY <1>1
  <2>2. f[c] = f[c - 1] \o (x \o <<lines[c]>>) /\ <<lines[c]>> \in Seq(Line)
    BY <1>3, <2>1
  <2>3. f[c] = base \o <<lines[c]>>
    <3> DEFINE line == <<lines[c]>>
    <3>1. line \in Seq(Line) /\ f[c] = f[c - 1] \o (x \o line)
      BY <2>2
    <3> HIDE DEF line
    <3>2. (f[c - 1] \o x) \o line = f[c - 1] \o (x \o line)
      BY <1>2, <3>1, LinesAssociate, Zenon
    <3> QED
      BY <3>1, <3>2 DEF base, line
  <2>4. SubSeq(lines, c, c) = <<lines[c]>>
    <3>1. SubSeq(lines, c, c) = SubSeq(lines, c, c - 1) \o <<lines[c]>>
      BY <1>1, <2>1, SubSeqRecursiveSecond
    <3>2. SubSeq(lines, c, c - 1) = <<>>
      BY <1>1, SubSeqEmpty
    <3> QED
      BY <2>2, <3>1, <3>2, ConcatEmptySeq
  <2> QED
    BY <2>1, <2>3, <2>4
<1>5. ASSUME NEW n \in Nat, Copied(n) PROVE Copied(n + 1)
  <2> SUFFICES ASSUME c + (n + 1) =< m
               PROVE  f[c + (n + 1)] = base \o SubSeq(lines, c, c + (n + 1))
    OBVIOUS
  <2> DEFINE i == c + (n + 1)
  <2>1. /\ i \in c..m /\ i # c /\ i - 1 = c + n /\ c + n =< m
        /\ c \in 1..Len(lines) /\ i \in c..Len(lines)
    BY <1>1, <1>5
  <2>2. f[c + n] = base \o SubSeq(lines, c, c + n)
    BY <1>5, <2>1
  <2>3. /\ f[i] = f[i - 1] \o (<<>> \o <<lines[i]>>)
        /\ <<lines[i]>> \in Seq(Line)
    BY <1>3, <2>1
  <2> HIDE DEF i
  <2>4. f[i] = (base \o SubSeq(lines, c, i - 1)) \o <<lines[i]>>
    BY <2>1, <2>2, <2>3, ConcatEmptySeq
  <2>5. SubSeq(lines, c, i) = SubSeq(lines, c, i - 1) \o <<lines[i]>>
    BY <1>1, <2>1, SubSeqRecursiveSecond
  <2>6. SubSeq(lines, c, i - 1) \in Seq(Line)
    <3>1. /\ c \in Int /\ i - 1 \in Int
          /\ \A j \in c..i - 1 : lines[j] \in Line
      BY <1>1, <2>1
    <3> QED
      BY <3>1, SubSeqProperties
  <2>7. f[i] = base \o SubSeq(lines, c, i)
    <3> DEFINE part == SubSeq(lines, c, i - 1)
               line == <<lines[i]>>
    <3>1. part \in Seq(Line) /\ line \in Seq(Line)
      BY <2>3, <2>6
    <3>2. f[i] = (base \o part) \o line /\ SubSeq(lines, c, i) = part \o line
      BY <2>4, <2>5
    <3> HIDE DEF part, line
    <3>3. (base \o part) \o line = base \o (part \o line)
      <4>1. \A b, l \in Seq(Line) : (base \o b) \o l = base \o (b \o l)
        BY <1>2, LinesAssociate, Zenon
      <4>2. \A l \in Seq(Line) : (base \o part) \o l = base \o (part \o l)
        BY <3>1, <4>1, Zenon
      <4> QED
        BY <3>1, <4>2, Zenon
    <3> QED
      BY <3>2, <3>3
  <2> QED
    BY <2>7 DEF i
<1>6. \A n \in Nat : Copied(n)
  <2> HIDE DEF Copied
  <2>1. 0 \in T /\ \A n \in Nat : n \in T => n + 1 \in T
    BY <1>4, <1>5
  <2>2. \A n \in Nat : n \in T
    <3> HIDE DEF T
    <3> QED
      BY <2>1, SetInduction
  <2> QED
    BY <2>2
<1>7. CASE c =< m
  <2>1. m - c \in Nat /\ c + (m - c) = m /\ c + (m - c) =< m
    BY <1>1, <1>7
  <2>2. f[c + (m - c)] = base \o SubSeq(lines, c, c + (m - c))
    BY <1>6, <2>1
  <2> QED
    BY <2>1, <2>2 DEF base
<1>8. CASE m = c - 1
  <2>1. SubSeq(lines, c, m) = <<>> /\ x = <<>>
    BY <1>1, <1>8, SubSeqEmpty
  <2> QED
    BY <1>2, <1>8, <2>1, ConcatEmptySeq
<1> QED
  BY <1>1, <1>7, <1>8

\* Lines that a hunk replaces, from s to e, leave what is put before them.
LEMMA GapIsReplaced ==
  ASSUME IsFile(lines), request \in Seq(Hunk), NEW f, Splices(f),
         NEW s \in 1..Len(lines), NEW e \in s..Len(lines),
         \A i \in s..e : Removed(i) /\ (i # s => NewAt(i) = <<>>)
  PROVE  f[e] = f[s - 1] \o NewAt(s)
<1> DEFINE T == {n \in Nat : s + n =< e => f[s + n] = f[s - 1] \o NewAt(s)}
<1>1. Len(lines) \in Nat /\ s \in Nat \ {0} /\ e \in Nat
  BY DEF IsFile
<1>2. ASSUME NEW i \in s..e
      PROVE  /\ f[i] = f[i - 1] \o NewAt(i) /\ f[i - 1] \in Seq(Line)
  <2>1. i \in 1..Len(lines) + 1 /\ i - 1 \in 0..Len(lines) + 1
    BY <1>1
  <2>2. f[i] = f[i - 1] \o Piece(i) /\ f[i - 1] \in Seq(Line)
    BY <2>1 DEF Splices
  <2>3. Piece(i) = NewAt(i) \o <<>>
    BY DEF Piece
  <2>4. NewAt(i) \in Seq(Line)
    BY <2>1, PieceType
  <2> QED
    BY <2>2, <2>3, <2>4, ConcatEmptySeq
<1>3. 0 \in T
  <2>1. s + 0 = s /\ (s =< e => s \in s..e)
    BY <1>1
  <2> QED
    BY <1>2, <2>1
<1>4. ASSUME NEW n \in Nat, n \in T PROVE n + 1 \in T
  <2> SUFFICES ASSUME s + (n + 1) =< e
               PROVE  f[s + (n + 1)] = f[s - 1] \o NewAt(s)
    OBVIOUS
  <2> DEFINE i == s + (n + 1)
  <2>1. i \in s..e /\ i # s /\ i - 1 = s + n /\ s + n =< e
    BY <1>1, <1>4
  <2>2. f[s + n] = f[s - 1] \o NewAt(s)
    BY <1>4, <2>1
  <2>3. f[i] = f[i - 1] \o <<>> /\ f[i - 1] \in Seq(Line)
    BY <1>2, <2>1
  <2> HIDE DEF i
  <2>4. f[i] = f[i - 1]
    BY <2>3, ConcatEmptySeq
  <2> QED
    BY <2>1, <2>2, <2>4 DEF i
<1>5. \A n \in Nat : n \in T
  <2> HIDE DEF T
  <2> QED
    BY <1>3, <1>4, SetInduction
<1>6. e - s \in Nat /\ s + (e - s) = e /\ s + (e - s) =< e
  BY <1>1
<1> QED
  BY <1>5, <1>6

-----------------------------------------------------------------------------
(* What was written so far, line by line, against that recursion.           *)

\* A line has the terminator that it should, or one where it should have none.
Ends(x, y) == x.term = y.term \/ (y.term = "none" /\ x.term = FileTerm)

\* a has the lines of b; its last one may lack a terminator if open says so.
Alike(a, b, open) ==
  /\ a \in Seq(Line) /\ b \in Seq(Line) /\ Len(a) = Len(b)
  /\ \A i \in 1..Len(a) :
       /\ a[i].text = b[i].text
       /\ Ends(a[i], b[i]) \/ (open /\ i = Len(a) /\ a[i].term = "none")

\* Equal lines are alike.
LEMMA AlikeSame == \A a \in Seq(Line) : Alike(a, a, FALSE)
BY DEF Alike, Ends

\* Lines that follow lines that are alike, and are alike.
LEMMA AlikeConcat ==
  ASSUME NEW a, NEW b, NEW c, NEW d,
         Alike(a, b, FALSE), Alike(c, d, FALSE)
  PROVE  Alike(a \o c, b \o d, FALSE)
<1>1. /\ a \in Seq(Line) /\ b \in Seq(Line) /\ c \in Seq(Line) /\ d \in Seq(Line)
      /\ Len(a) = Len(b) /\ Len(c) = Len(d) /\ Len(a) \in Nat /\ Len(c) \in Nat
  BY DEF Alike
<1>2. /\ a \o c \in Seq(Line) /\ b \o d \in Seq(Line)
      /\ Len(a \o c) = Len(a) + Len(c) /\ Len(b \o d) = Len(a) + Len(c)
  BY <1>1, SMTT(30)
<1>3. ASSUME NEW i \in 1..Len(a) + Len(c)
      PROVE  /\ (a \o c)[i].text = (b \o d)[i].text
             /\ Ends((a \o c)[i], (b \o d)[i])
  <2>1. CASE i =< Len(a)
    <3>1. (a \o c)[i] = a[i] /\ (b \o d)[i] = b[i] /\ i \in 1..Len(a)
      BY <1>1, <2>1
    <3> QED
      BY <3>1 DEF Alike
  <2>2. CASE ~(i =< Len(a))
    <3>1. /\ (a \o c)[i] = c[i - Len(a)] /\ (b \o d)[i] = d[i - Len(a)]
          /\ i - Len(a) \in 1..Len(c)
      BY <1>1, <2>2
    <3> QED
      BY <3>1 DEF Alike
  <2> QED
    BY <2>1, <2>2
<1> QED
  BY <1>2, <1>3 DEF Alike

\* The last line gets a terminator that it lacks.
LEMMA AlikeParted ==
  ASSUME IsFile(lines), NEW a, NEW b, Alike(a, b, FALSE), Unterminated(a)
  PROVE  Alike(WithTerm(a, FileTerm), b, FALSE)
<1> DEFINE n == Len(a)
           w == [a EXCEPT ![n].term = FileTerm]
<1>1. a \in Seq(Line) /\ n \in Nat \ {0} /\ n \in 1..n /\ a[n].term = "none"
  BY DEF Alike, Unterminated
<1>2. FileTerm \in Terms \ {"none"}
  BY FileTermType
<1>3. a[n] \in Line
  BY <1>1
<1>4. [a[n] EXCEPT !.term = FileTerm] \in Line
  BY <1>2, <1>3 DEF Line
<1>5. /\ w \in Seq(Line) /\ Len(w) = n
      /\ \A i \in 1..n : i # n => w[i] = a[i]
      /\ w[n] = [a[n] EXCEPT !.term = FileTerm]
  BY <1>1, <1>4
<1>6. w[n].text = a[n].text /\ w[n].term = FileTerm
  BY <1>3, <1>5 DEF Line
<1>7. a[n].text = b[n].text /\ b[n].term = "none"
  <2>1. a[n].text = b[n].text /\ Ends(a[n], b[n])
    BY <1>1 DEF Alike
  <2> QED
    BY <1>1, <1>2, <2>1 DEF Ends
<1>8. \A i \in 1..n : w[i].text = b[i].text /\ Ends(w[i], b[i])
  BY <1>5, <1>6, <1>7 DEF Alike, Ends
<1>9. WithTerm(a, FileTerm) = w
  BY DEF WithTerm
<1> HIDE DEF w
<1> QED
  BY <1>5, <1>8, <1>9 DEF Alike

\* The last line loses its terminator.
LEMMA AlikeEnded ==
  ASSUME NEW a, NEW b, Alike(a, b, FALSE), a # <<>>
  PROVE  Alike(WithTerm(a, "none"), b, TRUE)
<1> DEFINE n == Len(a)
           w == [a EXCEPT ![n].term = "none"]
<1>1. a \in Seq(Line) /\ n \in Nat \ {0} /\ n \in 1..n
  BY DEF Alike
<1>2. a[n] \in Line
  BY <1>1
<1>3. [a[n] EXCEPT !.term = "none"] \in Line
  BY <1>2 DEF Line, Terms
<1>4. /\ w \in Seq(Line) /\ Len(w) = n
      /\ \A i \in 1..n : i # n => w[i] = a[i]
      /\ w[n] = [a[n] EXCEPT !.term = "none"]
  BY <1>1, <1>3
<1>5. w[n].text = a[n].text /\ w[n].term = "none"
  BY <1>2, <1>4 DEF Line
<1>6. \A i \in 1..n : /\ w[i].text = b[i].text
                      /\ Ends(w[i], b[i]) \/ (i = n /\ w[i].term = "none")
  BY <1>4, <1>5 DEF Alike
<1>7. WithTerm(a, "none") = w
  BY DEF WithTerm
<1> HIDE DEF w
<1> QED
  BY <1>4, <1>6, <1>7 DEF Alike

\* The less is asked of the last line, the better.
LEMMA AlikeOpen ==
  ASSUME NEW a, NEW b, Alike(a, b, FALSE), NEW open \in BOOLEAN
  PROVE  Alike(a, b, open)
BY DEF Alike

-----------------------------------------------------------------------------
(* What the recursion has at the hunks, and between them.                   *)

\* There are hunks to apply, and some of them have been.
LEMMA HunkCount ==
  ASSUME VerdictInv, pc = "apply"
  PROVE  /\ IsFile(lines) /\ Len(lines) \in Nat /\ request \in Seq(Hunk)
         /\ Len(sorted) \in Nat \ {0} /\ k \in 0..Len(sorted)
         /\ InOrder /\ SoFar(Len(sorted))
<1>1. /\ InOrder /\ SoFar(Len(sorted)) /\ request \in Seq(Hunk)
      /\ IsFile(lines) /\ k \in 0..Len(sorted)
  BY DEF VerdictInv, Applying
<1>2. Len(lines) \in Nat
  BY <1>1 DEF IsFile
<1>3. Len(sorted) \in Nat \ {0}
  BY <1>1, SortedIsRequest
<1> QED
  BY <1>1, <1>2, <1>3

\* Each is a hunk of the request and in the range of the file.
LEMMA HunkPlace ==
  ASSUME VerdictInv, pc = "apply", NEW j \in 1..Len(sorted)
  PROVE  /\ sorted[j] \in Hunk /\ sorted[j] \in Hunks
         /\ sorted[j].start \in Int /\ sorted[j].end \in Int
         /\ 1 =< sorted[j].start /\ sorted[j].start =< Len(lines) + 1
         /\ sorted[j].start - 1 =< sorted[j].end /\ sorted[j].end =< Len(lines)
<1>1. InOrder /\ SoFar(Len(sorted)) /\ request \in Seq(Hunk)
  BY HunkCount
<1>2. sorted[j] \in Hunk /\ sorted[j] \in Hunks
  BY <1>1, SortedIsRequest
<1>3. sorted[j].start \in Int /\ sorted[j].end \in Int
  BY <1>2 DEF Hunk
<1>4. InRange(sorted[j])
  BY <1>1 DEF SoFar
<1> QED
  BY <1>2, <1>3, <1>4 DEF InRange

\* They are in the order of their starts, and behind each other.
LEMMA HunkOrder ==
  ASSUME VerdictInv, pc = "apply",
         NEW i \in 1..Len(sorted), NEW j \in 1..Len(sorted), i < j
  PROVE  sorted[i].end < sorted[j].start /\ sorted[i].start < sorted[j].start
BY HunkCount DEF SoFar

\* The request has no others.
LEMMA HunkNamed ==
  ASSUME VerdictInv, pc = "apply", NEW h \in Hunks
  PROVE  \E i \in 1..Len(sorted) : h = sorted[i]
BY HunkCount, SoFarIsAcceptable

\* Where a hunk starts, its new lines come.
LEMMA NewAtHunk ==
  ASSUME VerdictInv, pc = "apply", NEW j \in 1..Len(sorted)
  PROVE  NewAt(sorted[j].start) = NewLines(sorted[j])
<1> DEFINE g == sorted[j]
           at == {h \in Hunks : h.start = g.start}
<1>1. g \in at
  BY HunkPlace
<1>2. ASSUME NEW h \in at PROVE h = g
  <2>1. PICK i \in 1..Len(sorted) : h = sorted[i]
    BY HunkNamed
  <2>2. g.start \in Int /\ sorted[i].start = g.start
    BY <2>1, HunkPlace
  <2>3. ~(i < j) /\ ~(j < i)
    <3>1. i < j => sorted[i].start < sorted[j].start
      BY HunkOrder
    <3>2. j < i => sorted[j].start < sorted[i].start
      BY HunkOrder
    <3> QED
      BY <2>2, <3>1, <3>2
  <2>4. i = j
    <3>1. i \in Int /\ j \in Int
      BY HunkCount
    <3> QED
      BY <2>3, <3>1
  <2> QED
    BY <2>1, <2>4
<1>3. at = {g}
  BY <1>1, <1>2
<1>4. NewAt(g.start) = NewLines(CHOOSE h \in at : TRUE) /\ at # {}
  BY <1>1 DEF NewAt
<1> HIDE DEF at, g
<1>5. (CHOOSE h \in at : TRUE) = g
  BY <1>3
<1> QED
  BY <1>4, <1>5 DEF g

\* Where none starts, none come.
LEMMA NewAtNothing ==
  ASSUME VerdictInv, pc = "apply", NEW i,
         \A j \in 1..Len(sorted) : sorted[j].start # i
  PROVE  NewAt(i) = <<>>
<1>1. {h \in Hunks : h.start = i} = {}
  BY HunkNamed
<1> QED
  BY <1>1 DEF NewAt

\* The line behind the first n hunks, and what the last of them inserts there.
Behind(n) == IF n = 0 THEN 1 ELSE sorted[n].end + 1
Inserted(n) == IF n = 0 THEN <<>>
               ELSE IF sorted[n].end < sorted[n].start THEN NewLines(sorted[n])
                    ELSE <<>>

\* From the cursor to the next hunk, every line is kept.
LEMMA BetweenHunks ==
  ASSUME VerdictInv, pc = "apply", cursor = Behind(k),
         NEW i \in cursor..Len(lines) + 1,
         k < Len(sorted) => i < sorted[k + 1].start
  PROVE  ~Removed(i) /\ NewAt(i) = IF i = cursor THEN Inserted(k) ELSE <<>>
<1>1. Len(lines) \in Nat /\ Len(sorted) \in Nat /\ k \in 0..Len(sorted)
  BY HunkCount
<1>2. cursor \in Int /\ i \in Int /\ cursor =< i
  <2>1. CASE k = 0
    BY <2>1 DEF Behind
  <2>2. CASE k # 0
    <3>1. sorted[k].end \in Int
      BY <1>1, <2>2, HunkPlace
    <3> QED
      BY <2>2, <3>1 DEF Behind
  <2> QED
    BY <2>1, <2>2
<1>3. ASSUME NEW j \in 1..Len(sorted), j =< k
      PROVE  sorted[j].end < cursor /\ (j # k => sorted[j].start < cursor)
  <2>1. k # 0 /\ k \in 1..Len(sorted)
    BY <1>1, <1>3
  <2>2. cursor = sorted[k].end + 1
    BY <2>1 DEF Behind
  <2>3. /\ sorted[k].start \in Int /\ sorted[k].end \in Int
        /\ sorted[k].start - 1 =< sorted[k].end
    BY <2>1, HunkPlace
  <2>4. CASE j = k
    BY <2>2, <2>3, <2>4
  <2>5. CASE j # k
    <3>1. j < k
      BY <1>1, <1>3, <2>5
    <3>2. sorted[j].end < sorted[k].start /\ sorted[j].start < sorted[k].start
      BY <2>1, <3>1, HunkOrder
    <3>3. sorted[j].start \in Int /\ sorted[j].end \in Int
      BY HunkPlace
    <3>4. \A a, b, c, d \in Int :
            a < c /\ b < c /\ c - 1 =< d => a < d + 1 /\ b < d + 1
      OBVIOUS
    <3>5. /\ sorted[j].end < sorted[k].end + 1
          /\ sorted[j].start < sorted[k].end + 1
      BY <2>3, <3>2, <3>3, <3>4
    <3> QED
      BY <2>2, <3>5
  <2> QED
    BY <2>4, <2>5
<1>4. ASSUME NEW j \in 1..Len(sorted), ~(j =< k)
      PROVE  i < sorted[j].start
  <2>1. k + 1 \in 1..Len(sorted) /\ k < Len(sorted)
    BY <1>1, <1>4
  <2>2. i < sorted[k + 1].start /\ sorted[k + 1].start \in Int
    BY <2>1, HunkPlace
  <2>3. CASE j = k + 1
    BY <2>2, <2>3
  <2>4. CASE j # k + 1
    <3>1. k + 1 < j
      BY <1>1, <1>4, <2>4
    <3>2. sorted[k + 1].start < sorted[j].start
      BY <2>1, <3>1, HunkOrder
    <3>3. sorted[j].start \in Int
      BY HunkPlace
    <3> QED
      BY <1>2, <2>2, <3>2, <3>3
  <2> QED
    BY <2>3, <2>4
<1>5. ~Removed(i)
  <2>1. ASSUME NEW h \in Hunks, i \in h.start..h.end PROVE FALSE
    <3>1. PICK j \in 1..Len(sorted) : h = sorted[j]
      BY HunkNamed
    <3>2. /\ sorted[j].start \in Int /\ sorted[j].end \in Int
          /\ sorted[j].start =< i /\ i =< sorted[j].end
      BY <2>1, <3>1, HunkPlace
    <3>3. CASE j =< k
      <4>1. sorted[j].end < cursor
        BY <1>3, <3>3
      <4> QED
        BY <1>2, <3>2, <4>1
    <3>4. CASE ~(j =< k)
      <4>1. i < sorted[j].start
        BY <1>4, <3>4
      <4> QED
        BY <1>2, <3>2, <4>1
    <3> QED
      BY <3>3, <3>4
  <2> QED
    BY <2>1 DEF Removed
<1>6. CASE \A j \in 1..Len(sorted) : sorted[j].start # i
  <2>1. NewAt(i) = <<>>
    BY <1>6, NewAtNothing
  <2>2. ASSUME i = cursor, k # 0, sorted[k].end < sorted[k].start PROVE FALSE
    <3>1. k \in 1..Len(sorted)
      BY <1>1, <2>2
    <3>2. cursor = sorted[k].end + 1
      BY <2>2 DEF Behind
    <3>3. /\ sorted[k].start \in Int /\ sorted[k].end \in Int
          /\ sorted[k].start - 1 =< sorted[k].end
      BY <3>1, HunkPlace
    <3>4. sorted[k].start = i
      BY <2>2, <3>2, <3>3
    <3> QED
      BY <1>6, <3>1, <3>4
  <2> QED
    BY <1>5, <2>1, <2>2 DEF Inserted
<1>7. ASSUME NEW j \in 1..Len(sorted), sorted[j].start = i
      PROVE  NewAt(i) = IF i = cursor THEN Inserted(k) ELSE <<>>
  <2>1. j =< k
    BY <1>2, <1>4, <1>7
  <2>2. j = k
    BY <1>2, <1>3, <1>7, <2>1
  <2>3. k # 0
    BY <1>1, <2>2
  <2>4. cursor = sorted[k].end + 1
    BY <2>3 DEF Behind
  <2>5. sorted[k].end \in Int
    BY <2>2, HunkPlace
  <2>6. sorted[k].end < cursor /\ cursor =< sorted[k].start
    BY <1>2, <1>7, <2>2, <2>4, <2>5
  <2>7. sorted[k].start - 1 =< sorted[k].end /\ sorted[k].start \in Int
    BY <2>2, HunkPlace
  <2>8. i = cursor /\ sorted[k].end < sorted[k].start
    BY <1>7, <2>2, <2>4, <2>5, <2>6, <2>7
  <2>9. Inserted(k) = NewLines(sorted[k])
    BY <2>3, <2>8 DEF Inserted
  <2>10. NewAt(i) = NewLines(sorted[k])
    BY <1>7, <2>2, NewAtHunk
  <2> QED
    BY <2>8, <2>9, <2>10
<1> QED
  BY <1>5, <1>6, <1>7

\* From the start of a hunk to its end, every line is replaced.
LEMMA WithinHunk ==
  ASSUME VerdictInv, pc = "apply", NEW j \in 1..Len(sorted),
         NEW i \in sorted[j].start..sorted[j].end
  PROVE  Removed(i) /\ (i # sorted[j].start => NewAt(i) = <<>>)
<1>1. /\ sorted[j] \in Hunks /\ sorted[j].start \in Int /\ sorted[j].end \in Int
      /\ Len(sorted) \in Nat
  BY HunkCount, HunkPlace
<1>2. Removed(i)
  BY <1>1 DEF Removed
<1>3. ASSUME i # sorted[j].start, NEW l \in 1..Len(sorted)
      PROVE  sorted[l].start # i
  <2>1. CASE l < j
    <3>1. sorted[l].start < sorted[j].start
      BY <2>1, HunkOrder
    <3>2. sorted[l].start \in Int
      BY HunkPlace
    <3> QED
      BY <1>1, <3>1, <3>2
  <2>2. CASE l = j
    BY <1>3, <2>2
  <2>3. CASE j < l
    <3>1. sorted[j].end < sorted[l].start
      BY <2>3, HunkOrder
    <3>2. sorted[l].start \in Int
      BY HunkPlace
    <3> QED
      BY <1>1, <3>1, <3>2
  <2> QED
    BY <1>1, <2>1, <2>2, <2>3
<1> QED
  BY <1>2, <1>3, NewAtNothing

-----------------------------------------------------------------------------
(* The new file is alike, hunk after hunk.                                  *)

\* The recursion is about the file and the request, which stay.
LEMMA SameSplice ==
  ASSUME UNCHANGED <<lines, request>>
  PROVE  /\ \A i : NewAt(i)' = NewAt(i) /\ (Removed(i)' <=> Removed(i))
         /\ \A h : NewLines(h)' = NewLines(h)
         /\ \A f : Splices(f)' <=> Splices(f)
         /\ \A a, b, open : Alike(a, b, open)' <=> Alike(a, b, open)
<1>1. FileTerm' = FileTerm /\ Hunks' = Hunks
  BY DEF FileTerm, Hunks
<1>2. ASSUME NEW h PROVE NewLines(h)' = NewLines(h)
  BY <1>1 DEF NewLines
<1>3. ASSUME NEW i PROVE NewAt(i)' = NewAt(i)
  <2> DEFINE at == {h \in Hunks : h.start = i}
             some == CHOOSE h \in at : TRUE
  <2>1. at' = at
    BY <1>1
  <2>2. some' = some
    BY <2>1
  <2>3. NewAt(i) = IF at = {} THEN <<>> ELSE NewLines(some)
    BY DEF NewAt
  <2>4. NewAt(i)' = IF at' = {} THEN <<>> ELSE NewLines(some)'
    BY DEF NewAt
  <2>5. NewLines(some)' = NewLines(some)
    BY <1>1, <2>2 DEF NewLines
  <2> HIDE DEF at, some
  <2> QED
    BY <2>1, <2>3, <2>4, <2>5
<1>4. ASSUME NEW i PROVE Removed(i)' <=> Removed(i)
  BY <1>1 DEF Removed
<1>5. ASSUME NEW i PROVE Piece(i)' = Piece(i)
  BY <1>3, <1>4 DEF Piece
<1>6. ASSUME NEW f PROVE Splices(f)' <=> Splices(f)
  BY <1>5 DEF Splices
<1>7. ASSUME NEW a, NEW b, NEW open
      PROVE  Alike(a, b, open)' <=> Alike(a, b, open)
  BY <1>1 DEF Alike, Ends
<1> QED
  BY <1>2, <1>3, <1>4, <1>6, <1>7

\* What has been written so far is what comes of the lines before the cursor,
\* and what the last hunk inserts there.
SpliceInv ==
  /\ pc = "apply" =>
       /\ cursor = Behind(k)
       /\ \A f : Splices(f) =>
            Alike(result, f[cursor - 1] \o Inserted(k),
                  k = Len(sorted) /\ cursor = Len(lines) + 1)
  /\ pc = "done" => \A f : Splices(f) => Alike(result, f[Len(lines) + 1], TRUE)

\* What a hunk inserts is lines, and the next hunk does not start there too.
LEMMA InsertedType ==
  ASSUME VerdictInv, pc = "apply"
  PROVE  /\ \A n \in 0..Len(sorted) : Inserted(n) \in Seq(Line)
         /\ k < Len(sorted) /\ Behind(k) = sorted[k + 1].start => Inserted(k) = <<>>
<1>1. ASSUME NEW n \in 0..Len(sorted) PROVE Inserted(n) \in Seq(Line)
  <2>1. CASE n = 0 \/ ~(sorted[n].end < sorted[n].start)
    <3>1. Inserted(n) = <<>>
      BY <2>1 DEF Inserted
    <3> QED
      BY <3>1
  <2>2. CASE n # 0 /\ sorted[n].end < sorted[n].start
    <3>1. n \in 1..Len(sorted)
      BY <2>2, HunkCount
    <3>2. sorted[n] \in Hunk /\ IsFile(lines)
      BY <3>1, HunkCount, HunkPlace
    <3>3. Inserted(n) = NewLines(sorted[n])
      BY <2>2 DEF Inserted
    <3> QED
      BY <3>2, <3>3, NewLinesAreFile DEF IsFile
  <2> QED
    BY <2>1, <2>2
<1>2. ASSUME k < Len(sorted), Behind(k) = sorted[k + 1].start
      PROVE  Inserted(k) = <<>>
  <2>1. CASE k = 0
    BY <2>1 DEF Inserted
  <2>2. CASE k # 0
    <3>1. k \in 1..Len(sorted) /\ k + 1 \in 1..Len(sorted) /\ k < k + 1
      BY <1>2, <2>2, HunkCount
    <3>2. sorted[k].start < sorted[k + 1].start
      BY <3>1, HunkOrder
    <3>3. sorted[k].start \in Int /\ sorted[k].end \in Int
      BY <3>1, HunkPlace
    <3>4. sorted[k + 1].start = sorted[k].end + 1
      BY <1>2, <2>2 DEF Behind
    <3>5. ~(sorted[k].end < sorted[k].start)
      BY <3>2, <3>3, <3>4
    <3> QED
      BY <3>5 DEF Inserted
  <2> QED
    BY <2>1, <2>2
<1> QED
  BY <1>1, <1>2

\* A hunk is applied.
LEMMA AppliedIsAlike ==
  ASSUME VerdictInv, JoinInv, SpliceInv, pc = "apply", k < Len(sorted),
         NEW f, Splices(f)
  PROVE  Alike(Applied(sorted[k + 1]), f[sorted[k + 1].end] \o Inserted(k + 1),
               k + 1 = Len(sorted) /\ sorted[k + 1].end = Len(lines))
<1> DEFINE h == sorted[k + 1]
           m == h.start - 1
           x == Inserted(k)
           new == NewLines(h)
           gap == SubSeq(lines, cursor, m)
           before == result \o gap
           parted == Parted(before, h)
           filled == parted \o new
           target == f[m] \o new
<1>1. /\ IsFile(lines) /\ lines \in Seq(Line) /\ Len(lines) \in Nat
      /\ request \in Seq(Hunk) /\ k \in Nat
      /\ Len(sorted) \in Nat /\ k + 1 \in 1..Len(sorted) /\ k \in 0..Len(sorted)
      /\ h \in Hunk
      /\ h.start \in 1..Len(lines) + 1 /\ h.end \in h.start - 1..Len(lines)
  <2>1. /\ IsFile(lines) /\ Len(lines) \in Nat /\ request \in Seq(Hunk)
        /\ Len(sorted) \in Nat \ {0} /\ k \in 0..Len(sorted)
    BY HunkCount
  <2>2. lines \in Seq(Line)
    BY <2>1 DEF IsFile
  <2>3. k + 1 \in 1..Len(sorted) /\ k # Len(sorted) /\ k \in Nat
    BY <2>1
  <2>4. /\ h \in Hunk /\ h.start \in Int /\ h.end \in Int
        /\ 1 =< h.start /\ h.start =< Len(lines) + 1
        /\ h.start - 1 =< h.end /\ h.end =< Len(lines)
    BY <2>3, HunkPlace
  <2> HIDE DEF h
  <2> QED
    BY <2>1, <2>2, <2>3, <2>4
<1>2. /\ cursor \in 1..Len(lines) + 1 /\ cursor =< h.start
      /\ cursor = Behind(k)
      /\ Alike(result, f[cursor - 1] \o x, FALSE)
  <2>1. k # Len(sorted)
    BY <1>1
  <2> QED
    BY <2>1 DEF JoinInv, SpliceInv
<1>3. /\ m \in cursor - 1..Len(lines) /\ m \in 0..Len(lines) + 1
      /\ cursor - 1 \in 0..Len(lines) + 1
  <2>1. /\ Len(lines) \in Nat /\ h.start \in 1..Len(lines) + 1
        /\ cursor \in 1..Len(lines) + 1 /\ cursor =< h.start
    BY <1>1, <1>2
  <2> HIDE DEF h
  <2> QED
    BY <2>1
<1>4. x \in Seq(Line) /\ f[m] \in Seq(Line) /\ new \in Seq(Line)
  BY <1>1, <1>3, InsertedType, NewLinesAreFile DEF Splices, IsFile
<1>5. f[m] = (f[cursor - 1] \o x) \o gap
  <2>1. m = cursor - 1 => x = <<>>
    BY <1>1, <1>2, InsertedType, SMTT(30)
  <2>2. ASSUME NEW i \in cursor..m
        PROVE  ~Removed(i) /\ NewAt(i) = IF i = cursor THEN x ELSE <<>>
    <3>1. i \in cursor..Len(lines) + 1 /\ i < h.start
      BY <1>1, <1>2
    <3> QED
      BY <1>2, <3>1, BetweenHunks
  <2> HIDE DEF m, x
  <2> QED
    BY <1>1, <1>2, <1>3, <1>4, <2>1, <2>2, GapIsCopied
<1>6. Alike(before, f[m], FALSE)
  <2>1. gap \in Seq(Line)
    <3>1. /\ cursor \in Int /\ m \in Int /\ 1 =< cursor /\ cursor =< m + 1
          /\ m =< Len(lines)
      BY <1>1, <1>2, <1>3, SMTT(30)
    <3> HIDE DEF m
    <3> QED
      BY <1>1, <3>1, FilePart DEF IsFile
  <2>2. Alike(gap, gap, FALSE)
    BY <2>1, AlikeSame
  <2> HIDE DEF gap, x, m
  <2>3. Alike(result \o gap, (f[cursor - 1] \o x) \o gap, FALSE)
    BY <1>2, <2>2, AlikeConcat
  <2> QED
    BY <1>5, <2>3
<1>7. Alike(parted, f[m], FALSE)
  <2> HIDE DEF before, m, h
  <2>1. CASE h.new # <<>> /\ Unterminated(before) /\ Unterminated(lines)
    <3>1. parted = WithTerm(before, FileTerm)
      BY <2>1 DEF Parted
    <3> QED
      BY <1>1, <1>6, <2>1, <3>1, AlikeParted
  <2>2. CASE ~(h.new # <<>> /\ Unterminated(before) /\ Unterminated(lines))
    <3>1. parted = before
      BY <2>2 DEF Parted
    <3> QED
      BY <1>6, <3>1
  <2> QED
    BY <2>1, <2>2
<1>8. Alike(filled, target, FALSE)
  <2>1. Alike(new, new, FALSE)
    BY <1>4, AlikeSame
  <2> HIDE DEF parted, m, new
  <2> QED
    BY <1>7, <2>1, AlikeConcat
<1>9. target = f[h.end] \o Inserted(k + 1)
  <2>0. k + 1 # 0
    BY <1>1
  <2>1. CASE h.end < h.start
    <3>1. h.end = m
      BY <1>1, <2>1
    <3>2. Inserted(k + 1) = new
      BY <2>0, <2>1 DEF Inserted
    <3> QED
      BY <3>1, <3>2
  <2>2. CASE ~(h.end < h.start)
    <3>1. h.start \in 1..Len(lines) /\ h.end \in h.start..Len(lines)
      BY <1>1, <2>2
    <3>2. \A i \in h.start..h.end :
            Removed(i) /\ (i # h.start => NewAt(i) = <<>>)
      BY <1>1, WithinHunk
    <3>3. NewAt(h.start) = new
      BY <1>1, NewAtHunk
    <3>4. Inserted(k + 1) = <<>>
      BY <2>0, <2>2 DEF Inserted
    <3> HIDE DEF h, new
    <3>5. f[h.end] = f[h.start - 1] \o new
      BY <1>1, <3>1, <3>2, <3>3, GapIsReplaced
    <3>6. target = f[h.end]
      BY <3>5
    <3>7. target \in Seq(Line)
      BY <1>4, ConcatProperties
    <3> QED
      BY <3>4, <3>6, <3>7, ConcatEmptySeq
  <2> QED
    BY <2>1, <2>2
<1>10. Applied(h) = Ended(filled, h)
  BY DEF Applied
<1> DEFINE last == k + 1 = Len(sorted) /\ h.end = Len(lines)
<1>11. Alike(Ended(filled, h), target, last)
  <2>1. CASE /\ last /\ h.new # <<>> /\ h.start =< h.end /\ Unterminated(lines)
    <3>1. Ended(filled, h) = WithTerm(filled, "none")
      BY <2>1 DEF Ended
    <3>2. new # <<>>
      BY <1>1, <2>1, NewLinesAreFile
    <3>3. parted \in Seq(Line)
      BY <1>7 DEF Alike
    <3>4. filled # <<>>
      <4> HIDE DEF parted, new
      <4> QED
        BY <1>4, <3>2, <3>3
    <3> HIDE DEF filled, target
    <3>5. Alike(WithTerm(filled, "none"), target, TRUE)
      BY <1>8, <3>4, AlikeEnded
    <3> QED
      BY <2>1, <3>1, <3>5
  <2>2. CASE ~(/\ last /\ h.new # <<>> /\ h.start =< h.end
               /\ Unterminated(lines))
    <3>1. Ended(filled, h) = filled
      BY <2>2 DEF Ended
    <3>2. last \in BOOLEAN
      OBVIOUS
    <3> HIDE DEF filled, target, last
    <3> QED
      BY <1>8, <3>1, <3>2, AlikeOpen
  <2> QED
    BY <2>1, <2>2
<1> HIDE DEF filled, target
<1> QED
  BY <1>9, <1>10, <1>11

\* Applying a hunk keeps that so, whether or not the hunk fits.
LEMMA SpliceApply ==
  ASSUME VerdictInv, JoinInv, SpliceInv, ApplyHunk PROVE SpliceInv'
<1> DEFINE h == sorted[k + 1]
<1>1. /\ pc = "apply" /\ k < Len(sorted) /\ UNCHANGED <<lines, request, sorted>>
      /\ k \in Nat /\ h.end \in Int /\ Len(lines) \in Int
  <2>1. /\ pc = "apply" /\ k < Len(sorted)
        /\ UNCHANGED <<lines, request, sorted>>
    BY DEF ApplyHunk, Outcome
  <2>2. k \in Nat /\ k + 1 \in 1..Len(sorted) /\ Len(lines) \in Int
    BY <2>1, HunkCount
  <2>3. h.end \in Int
    BY <2>1, <2>2, HunkPlace
  <2> QED
    BY <2>1, <2>2, <2>3
<1>2. CASE ~Fits(h)
  <2>1. pc' = "conflict"
    BY <1>2 DEF ApplyHunk, Outcome
  <2> QED
    BY <2>1 DEF SpliceInv
<1>3. CASE Fits(h)
  <2>1. /\ pc' = "apply" /\ k' = k + 1 /\ cursor' = h.end + 1
        /\ result' = Applied(h)
    BY <1>1, <1>3 DEF ApplyHunk
  <2>2. Behind(k)' = h.end + 1
    BY <1>1, <2>1 DEF Behind
  <2>3. Inserted(k)' = Inserted(k + 1)
    <3>1. \A g : NewLines(g)' = NewLines(g)
      BY <1>1, SameSplice
    <3> QED
      BY <1>1, <2>1, <3>1 DEF Inserted
  <2>4. ASSUME NEW f, Splices(f)'
        PROVE  Alike(result, f[cursor - 1] \o Inserted(k),
                     k = Len(sorted) /\ cursor = Len(lines) + 1)'
    <3>1. Splices(f)
      BY <1>1, <2>4, SameSplice
    <3>2. Alike(Applied(h), f[h.end] \o Inserted(k + 1),
                k + 1 = Len(sorted) /\ h.end = Len(lines))
      BY <1>1, <3>1, AppliedIsAlike
    <3> DEFINE target == f[h.end] \o Inserted(k + 1)
               open == k + 1 = Len(sorted) /\ h.end = Len(lines)
    <3>3. (f[cursor - 1] \o Inserted(k))' = target
      <4>1. (h.end + 1) - 1 = h.end
        BY <1>1
      <4> QED
        BY <2>1, <2>3, <4>1
    <3>4. (k = Len(sorted) /\ cursor = Len(lines) + 1)' <=> open
      BY <1>1, <2>1
    <3>5. \A y, z : Ends(y, z)' <=> Ends(y, z)
      BY <1>1 DEF Ends, FileTerm
    <3>6. result' = Applied(h)
      BY <2>1
    <3>7. Alike(Applied(h), target, open)
      BY <3>2
    <3> HIDE DEF target, open
    <3>8. Alike(result', target, open)
      BY <3>6, <3>7
    <3>9. /\ result' \in Seq(Line) /\ target \in Seq(Line)
          /\ Len(result') = Len(target)
          /\ \A i \in 1..Len(result') :
               /\ result'[i].text = target[i].text
               /\ \/ Ends(result'[i], target[i])
                  \/ open /\ i = Len(result') /\ result'[i].term = "none"
      BY <3>8 DEF Alike
    <3> QED
      BY <3>3, <3>4, <3>5, <3>9 DEF Alike
  <2> QED
    BY <2>1, <2>2, <2>4 DEF SpliceInv
<1> QED
  BY <1>2, <1>3

\* The rest is copied: nothing is put behind the last line but what the last
\* hunk inserts there.
LEMMA RestIsAlike ==
  ASSUME VerdictInv, JoinInv, SpliceInv, pc = "apply", k = Len(sorted),
         NEW f, Splices(f)
  PROVE  Alike(result \o SubSeq(lines, cursor, Len(lines)),
               f[Len(lines) + 1], TRUE)
<1> DEFINE n == Len(lines)
           x == Inserted(k)
           rest == SubSeq(lines, cursor, n)
           base == f[cursor - 1] \o x
<1>1. /\ IsFile(lines) /\ lines \in Seq(Line) /\ n \in Nat
      /\ cursor \in 1..n + 1 /\ cursor = Behind(k) /\ k \in 0..Len(sorted)
      /\ Alike(result, base, cursor = n + 1)
      /\ result \in Seq(Line)
  <2>1. IsFile(lines) /\ n \in Nat /\ k \in 0..Len(sorted)
    BY HunkCount
  <2>2. cursor \in 1..n + 1 /\ cursor = Behind(k) /\ IsFile(result)
    BY DEF JoinInv, SpliceInv
  <2>3. Alike(result, base, k = Len(sorted) /\ cursor = n + 1)
    BY DEF SpliceInv
  <2>4. (k = Len(sorted) /\ cursor = n + 1) = (cursor = n + 1)
    OBVIOUS
  <2> QED
    BY <2>1, <2>2, <2>3, <2>4 DEF IsFile
<1>2. ASSUME NEW i \in cursor..n + 1
      PROVE  /\ ~Removed(i)
             /\ NewAt(i) = IF i = cursor THEN x ELSE <<>>
  BY <1>1, BetweenHunks
<1>3. x \in Seq(Line) /\ f[n] \in Seq(Line)
  BY <1>1, InsertedType, SMTT(30) DEF Splices
<1>4. f[n + 1] = f[n] \o (NewAt(n + 1) \o <<>>)
  <2>1. n + 1 \in 1..n + 1 /\ (n + 1) - 1 = n /\ n + 1 > n
    BY <1>1
  <2>2. f[n + 1] = f[n] \o Piece(n + 1)
    BY <2>1 DEF Splices
  <2> QED
    BY <2>1, <2>2 DEF Piece
<1>5. CASE cursor = n + 1
  <2>1. NewAt(n + 1) = x
    BY <1>1, <1>2, <1>5
  <2>2. f[n + 1] = f[n] \o x
    BY <1>3, <1>4, <2>1, ConcatEmptySeq
  <2>3. base = f[n + 1]
    BY <1>1, <1>5, <2>2
  <2>4. rest = <<>>
    BY <1>1, <1>5, SubSeqEmpty
  <2>5. result \o rest = result
    BY <1>1, <2>4, ConcatEmptySeq
  <2>6. Alike(result, base, TRUE)
    BY <1>1, <1>5
  <2> HIDE DEF base
  <2> QED
    BY <2>3, <2>5, <2>6
<1>6. CASE cursor =< n
  <2>1. n \in cursor - 1..n /\ cursor # n + 1 /\ n # cursor - 1
    BY <1>1, <1>6
  <2>2. \A i \in cursor..n :
          ~Removed(i) /\ NewAt(i) = IF i = cursor THEN x ELSE <<>>
    BY <1>1, <1>2
  <2>3. f[n] = base \o rest
    <3>1. /\ IsFile(lines) /\ cursor \in 1..Len(lines) + 1
          /\ Len(lines) \in cursor - 1..Len(lines)
          /\ Len(lines) # cursor - 1
      BY <1>1, <2>1
    <3> HIDE DEF x
    <3>2. f[Len(lines)] = (f[cursor - 1] \o x) \o SubSeq(lines, cursor, Len(lines))
      BY <1>3, <2>2, <3>1, GapIsCopied
    <3> QED
      BY <3>2
  <2>4. NewAt(n + 1) = <<>>
    BY <1>1, <1>2, <2>1
  <2>5. f[n + 1] = base \o rest
    <3>1. f[n] \o (<<>> \o <<>>) = f[n]
      BY <1>3
    <3> HIDE DEF base, rest
    <3> QED
      BY <1>4, <2>3, <2>4, <3>1
  <2>6. Alike(result, base, FALSE)
    <3>1. (cursor = n + 1) = FALSE
      BY <2>1
    <3> HIDE DEF base
    <3> QED
      BY <1>1, <3>1
  <2>7. rest \in Seq(Line)
    <3>1. cursor \in Int /\ n \in Int /\ 1 =< cursor /\ cursor =< n + 1 /\ n =< n
      BY <1>1, <1>6
    <3> QED
      BY <1>1, <3>1, FilePart DEF IsFile
  <2>8. Alike(rest, rest, FALSE)
    BY <2>7, AlikeSame
  <2> HIDE DEF base, rest
  <2>9. Alike(result \o rest, base \o rest, FALSE)
    BY <2>6, <2>8, AlikeConcat
  <2> QED
    BY <2>5, <2>9, AlikeOpen DEF rest
<1>7. cursor = n + 1 \/ cursor =< n
  BY <1>1
<1> QED
  BY <1>5, <1>6, <1>7

\* And so the new file is alike.
LEMMA SpliceCopy ==
  ASSUME VerdictInv, JoinInv, SpliceInv, CopyRest PROVE SpliceInv'
<1> DEFINE final == result \o SubSeq(lines, cursor, Len(lines))
<1>1. /\ pc = "apply" /\ k = Len(sorted) /\ UNCHANGED <<lines, request>>
      /\ result' = final /\ pc' = "done"
  BY DEF CopyRest
<1>2. ASSUME NEW f, Splices(f)'
      PROVE  Alike(result, f[Len(lines) + 1], TRUE)'
  <2> DEFINE target == f[Len(lines) + 1]
  <2>1. Splices(f)
    BY <1>1, <1>2, SameSplice
  <2>2. Alike(final, target, TRUE)
    BY <1>1, <2>1, RestIsAlike
  <2>3. \A y, z : Ends(y, z)' <=> Ends(y, z)
    BY <1>1 DEF Ends, FileTerm
  <2>4. (f[Len(lines) + 1])' = target
    BY <1>1
  <2> HIDE DEF final, target
  <2> QED
    BY <1>1, <2>2, <2>3, <2>4 DEF Alike
<1> QED
  BY <1>1, <1>2 DEF SpliceInv

\* No other step disturbs it.
LEMMA SpliceStep ==
  VerdictInv /\ JoinInv /\ SpliceInv /\ [Next]_vars => SpliceInv'
<1> SUFFICES ASSUME VerdictInv, JoinInv, SpliceInv, [Next]_vars
             PROVE  SpliceInv'
  OBVIOUS
<1>1. CASE UNCHANGED vars
  <2>1. UNCHANGED <<lines, request, sorted, pc, k, cursor, result>>
    BY <1>1 DEF vars
  <2>2. Behind(k)' = Behind(k) /\ Inserted(k)' = Inserted(k)
    BY <2>1, SameSplice DEF Behind, Inserted
  <2>3. \A y, z : Ends(y, z)' <=> Ends(y, z)
    BY <2>1 DEF Ends, FileTerm
  <2>4. ASSUME NEW a, NEW b, NEW open, Alike(a, b, open)
        PROVE  Alike(a, b, open)'
    BY <2>3, <2>4 DEF Alike
  <2>5. ASSUME pc' = "apply", NEW f, Splices(f)'
        PROVE  Alike(result, f[cursor - 1] \o Inserted(k),
                     k = Len(sorted) /\ cursor = Len(lines) + 1)'
    <3>1. Splices(f) /\ pc = "apply"
      BY <2>1, <2>5, SameSplice
    <3>2. Alike(result, f[cursor - 1] \o Inserted(k),
                k = Len(sorted) /\ cursor = Len(lines) + 1)
      BY <3>1 DEF SpliceInv
    <3> QED
      BY <2>1, <2>2, <2>3, <3>2 DEF Alike
  <2>6. ASSUME pc' = "done", NEW f, Splices(f)'
        PROVE  Alike(result, f[Len(lines) + 1], TRUE)'
    <3>1. Splices(f) /\ pc = "done"
      BY <2>1, <2>6, SameSplice
    <3>2. Alike(result, f[Len(lines) + 1], TRUE)
      BY <3>1 DEF SpliceInv
    <3> QED
      BY <2>1, <2>3, <3>2 DEF Alike
  <2>7. pc' = "apply" => cursor' = Behind(k)'
    BY <2>1, <2>2 DEF SpliceInv
  <2> QED
    BY <2>5, <2>6, <2>7 DEF SpliceInv
<1>2. CASE Finished
  BY <1>1, <1>2 DEF Finished
<1>3. CASE SortHunks \/ ValidateHunk
  <2>1. pc' \notin {"apply", "done"}
    BY <1>3 DEF SortHunks, ValidateHunk, Outcome
  <2> QED
    BY <2>1 DEF SpliceInv
<1>4. CASE Validated
  <2>1. /\ pc = "validate" /\ pc' = "apply" /\ k = Len(sorted) /\ k' = 0
        /\ UNCHANGED <<lines, request, sorted, cursor, result>>
        /\ result = <<>> /\ cursor = 1
    BY <1>4 DEF Validated, JoinInv
  <2>2. Len(sorted) \in Nat \ {0}
    BY <2>1, SortedIsRequest DEF VerdictInv, Validating
  <2>3. Behind(k)' = 1 /\ Inserted(k)' = <<>>
    BY <2>1 DEF Behind, Inserted
  <2>4. ASSUME NEW f, Splices(f)'
        PROVE  Alike(result, f[cursor - 1] \o Inserted(k),
                     k = Len(sorted) /\ cursor = Len(lines) + 1)'
    <3>1. Splices(f)
      BY <2>1, <2>4, SameSplice
    <3>2. f[1 - 1] = <<>>
      BY <3>1 DEF Splices
    <3>3. (f[cursor - 1] \o Inserted(k))' = <<>>
      <4>1. <<>> \o <<>> = <<>>
        OBVIOUS
      <4> QED
        BY <2>1, <2>3, <3>2, <4>1
    <3>4. result' = <<>>
      BY <2>1
    <3> QED
      BY <3>3, <3>4 DEF Alike
  <2> QED
    BY <2>1, <2>3, <2>4 DEF SpliceInv
<1> QED
  BY <1>1, <1>2, <1>3, <1>4, SpliceApply, SpliceCopy DEF Next

\* The four invariants hold together.
LEMMA PatchInvariants ==
  Spec => [](VerdictInv /\ JoinInv /\ WholeInv /\ SpliceInv)
<1>1. Init => VerdictInv /\ JoinInv /\ WholeInv /\ SpliceInv
  BY VerdictInit, WholeInit DEF Init, JoinInv, SpliceInv
<1>2. VerdictInv /\ JoinInv /\ WholeInv /\ SpliceInv /\ [Next]_vars =>
        (VerdictInv /\ JoinInv /\ WholeInv /\ SpliceInv)'
  BY VerdictStep, JoinStep, WholeStep, SpliceStep
<1> QED
  BY <1>1, <1>2, PTL DEF Spec

\* The new file, against the definition that knows no cursor and no loop.
LEMMA ResultIsSpliced ==
  ASSUME VerdictInv, SpliceInv, pc = "done"
  PROVE  Alike(result, Spliced, TRUE)
<1>1. IsFile(lines) /\ request \in Seq(Hunk)
  BY DEF VerdictInv
<1>2. PICK f : Splices(f) /\ Spliced = f[Len(lines) + 1]
  BY <1>1, SplicedIsLast
<1> QED
  BY <1>2 DEF SpliceInv

\* The line numbers of every hunk are those of the file as it was, whatever
\* the hunks before it insert and remove, and no other line is lost, repeated
\* or moved (patch.go:23-28, 104-140).
THEOREM HunksAreSpliced == Spec => []PatchIsSplice
<1>1. VerdictInv /\ SpliceInv => PatchIsSplice
  <2> SUFFICES ASSUME VerdictInv, SpliceInv, pc = "done"
               PROVE  TextsOf(result) = TextsOf(Spliced)
    BY DEF PatchIsSplice
  <2>1. Alike(result, Spliced, TRUE)
    BY ResultIsSpliced
  <2>2. /\ DOMAIN result = 1..Len(result) /\ DOMAIN Spliced = 1..Len(result)
        /\ \A i \in 1..Len(result) : result[i].text = Spliced[i].text
    <3>1. /\ result \in Seq(Line) /\ Spliced \in Seq(Line)
          /\ Len(result) = Len(Spliced)
      BY <2>1 DEF Alike
    <3>2. DOMAIN result = 1..Len(result) /\ DOMAIN Spliced = 1..Len(Spliced)
      BY <3>1
    <3> QED
      BY <2>1, <3>1, <3>2 DEF Alike
  <2> QED
    BY <2>2 DEF TextsOf
<1> QED
  BY <1>1, PatchInvariants, PTL

-----------------------------------------------------------------------------
(* When the new file lacks the last terminator.                             *)

\* The end of two parts is that of the second, or of the first if there is none.
LEMMA OpenConcat ==
  ASSUME NEW s \in Seq(Line), NEW t \in Seq(Line)
  PROVE  Unterminated(s \o t) <=> IF t = <<>> THEN Unterminated(s)
                                             ELSE Unterminated(t)
<1>1. CASE t = <<>>
  <2>1. s \o t = s
    BY <1>1
  <2> QED
    BY <1>1, <2>1
<1>2. CASE t # <<>>
  <2>1. /\ Len(t) \in Nat \ {0} /\ Len(s) \in Nat
        /\ Len(s \o t) = Len(s) + Len(t)
    BY <1>2
  <2>2. (s \o t)[Len(s) + Len(t)] = t[Len(t)] /\ s \o t # <<>>
    BY <2>1
  <2> QED
    BY <1>2, <2>1, <2>2 DEF Unterminated
<1> QED
  BY <1>1, <1>2

\* A run of lines lacks a terminator when it ends as the file does.
LEMMA OpenPart ==
  ASSUME NEW s, IsFile(s), NEW m \in Int, NEW n \in Int,
         1 =< m, m =< n + 1, n =< Len(s)
  PROVE  Unterminated(SubSeq(s, m, n)) <=>
           m =< n /\ n = Len(s) /\ Unterminated(s)
<1> DEFINE part == SubSeq(s, m, n)
<1>1. s \in Seq(Line) /\ Len(s) \in Nat
  BY DEF IsFile
<1>2. /\ part = <<>> <=> m = n + 1
      /\ Unterminated(part) => n = Len(s) /\ Unterminated(s)
  BY FilePart
<1>3. Unterminated(part) => m =< n
  <2>1. Unterminated(part) => part # <<>>
    BY DEF Unterminated
  <2> HIDE DEF part
  <2> QED
    BY <1>2, <2>1
<1>4. ASSUME m =< n, n = Len(s), Unterminated(s) PROVE Unterminated(part)
  <2>1. part # <<>> /\ Len(part) = n - m + 1 /\ part[n - m + 1] = s[n]
    <3>1. /\ Len(part) = n - m + 1 /\ n - m + 1 \in 1..n - m + 1
          /\ \A i \in 1..n - m + 1 : part[i] = s[m + i - 1]
      BY <1>1, <1>4
    <3>2. m + (n - m + 1) - 1 = n
      OBVIOUS
    <3>3. part # <<>>
      BY <1>2, <1>4
    <3> HIDE DEF part
    <3> QED
      BY <3>1, <3>2, <3>3
  <2>2. s[n].term = "none"
    BY <1>4 DEF Unterminated
  <2> HIDE DEF part
  <2> QED
    BY <2>1, <2>2 DEF Unterminated
<1> QED
  BY <1>2, <1>3, <1>4

\* Giving the last line a terminator closes it, and taking it opens it.
LEMMA OpenWithTerm ==
  ASSUME NEW s \in Seq(Line), s # <<>>, NEW t
  PROVE  Unterminated(WithTerm(s, t)) <=> t = "none"
<1> DEFINE n == Len(s)
           w == [s EXCEPT ![n].term = t]
<1>1. n \in Nat \ {0} /\ n \in 1..n /\ s[n] \in Line /\ DOMAIN s = 1..n
  OBVIOUS
<1>2. w[n] = [s[n] EXCEPT !.term = t] /\ DOMAIN w = 1..n
  BY <1>1
<1>3. w[n].term = t
  BY <1>1, <1>2 DEF Line
<1>4. w = [i \in 1..n |-> w[i]]
  BY <1>1
<1>5. Len(w) = n /\ w # <<>>
  BY <1>1, <1>4
<1>6. WithTerm(s, t) = w
  BY DEF WithTerm
<1> HIDE DEF w
<1> QED
  BY <1>3, <1>5, <1>6 DEF Unterminated

\* The last hunk leaves the end open: it inserts nothing behind a last line
\* that is kept, or it replaces that line by others.
LeavesOpen(h) == IF h.end < h.start THEN h.new = <<>> /\ ~Removed(Len(lines))
                 ELSE h.new # <<>>

OpenInv ==
  /\ pc = "apply" =>
       (Unterminated(result) <=>
          /\ k = Len(sorted) /\ cursor = Len(lines) + 1
          /\ Unterminated(lines) /\ LeavesOpen(sorted[k]))
  /\ pc = "done" =>
       (Unterminated(result) <=>
          /\ Unterminated(lines)
          /\ \/ ~Removed(LastLine) /\ NewAt(LastLine + 1) = <<>>
             \/ LastLine \in LastHunk.start..LastHunk.end /\ LastHunk.new # <<>>)

\* A hunk is applied.
LEMMA AppliedOpen ==
  ASSUME VerdictInv, JoinInv, SpliceInv, OpenInv, pc = "apply", k < Len(sorted)
  PROVE  Unterminated(Applied(sorted[k + 1])) <=>
           /\ k + 1 = Len(sorted) /\ sorted[k + 1].end = Len(lines)
           /\ Unterminated(lines) /\ LeavesOpen(sorted[k + 1])
<1> DEFINE h == sorted[k + 1]
           new == NewLines(h)
           gap == SubSeq(lines, cursor, h.start - 1)
           before == result \o gap
           parted == Parted(before, h)
           filled == parted \o new
<1>1. /\ IsFile(lines) /\ lines \in Seq(Line) /\ Len(lines) \in Nat /\ k \in Nat
      /\ Len(sorted) \in Nat /\ k + 1 \in 1..Len(sorted) /\ k # Len(sorted)
      /\ h \in Hunk
      /\ h.start \in 1..Len(lines) + 1 /\ h.end \in h.start - 1..Len(lines)
  <2>1. /\ IsFile(lines) /\ Len(lines) \in Nat /\ request \in Seq(Hunk)
        /\ Len(sorted) \in Nat \ {0} /\ k \in 0..Len(sorted)
    BY HunkCount
  <2>2. lines \in Seq(Line)
    BY <2>1 DEF IsFile
  <2>3. k + 1 \in 1..Len(sorted) /\ k # Len(sorted) /\ k \in Nat
    BY <2>1
  <2>4. /\ h \in Hunk /\ h.start \in Int /\ h.end \in Int
        /\ 1 =< h.start /\ h.start =< Len(lines) + 1
        /\ h.start - 1 =< h.end /\ h.end =< Len(lines)
    BY <2>3, HunkPlace
  <2> HIDE DEF h
  <2> QED
    BY <2>1, <2>2, <2>3, <2>4
<1>2. /\ cursor \in 1..Len(lines) + 1 /\ cursor =< h.start
      /\ cursor = Behind(k) /\ result \in Seq(Line) /\ ~Unterminated(result)
  BY <1>1 DEF JoinInv, SpliceInv, OpenInv, IsFile
<1>3. /\ gap \in Seq(Line) /\ (gap = <<>> <=> cursor = h.start)
      /\ Unterminated(gap) <=> /\ cursor < h.start /\ h.start = Len(lines) + 1
                               /\ Unterminated(lines)
  <2> DEFINE m == h.start - 1
  <2>1. /\ cursor \in Int /\ m \in Int /\ 1 =< cursor /\ cursor =< m + 1
        /\ m =< Len(lines) /\ h.start = m + 1
    BY <1>1, <1>2, SMTT(30)
  <2> HIDE DEF m
  <2>2. /\ IsFile(SubSeq(lines, cursor, m))
        /\ SubSeq(lines, cursor, m) = <<>> <=> cursor = m + 1
        /\ Unterminated(SubSeq(lines, cursor, m)) <=>
             cursor =< m /\ m = Len(lines) /\ Unterminated(lines)
    <3> HIDE DEF gap, h
    <3>1. /\ IsFile(lines) /\ cursor \in Int /\ m \in Int /\ 1 =< cursor
          /\ cursor =< m + 1 /\ m =< Len(lines)
      BY <1>1, <2>1
    <3>2. /\ IsFile(SubSeq(lines, cursor, m))
          /\ SubSeq(lines, cursor, m) = <<>> <=> cursor = m + 1
      BY <3>1, FilePart
    <3>3. Unterminated(SubSeq(lines, cursor, m)) <=>
            cursor =< m /\ m = Len(lines) /\ Unterminated(lines)
      BY <3>1, OpenPart
    <3> QED
      BY <3>2, <3>3
  <2>3. /\ cursor =< m <=> cursor < h.start
        /\ m = Len(lines) <=> h.start = Len(lines) + 1
    BY <1>1, <2>1
  <2>4. gap = SubSeq(lines, cursor, m)
    BY DEF m
  <2> HIDE DEF gap, h
  <2> QED
    BY <2>1, <2>2, <2>3, <2>4 DEF IsFile
<1>4. /\ before \in Seq(Line)
      /\ Unterminated(before) <=> /\ cursor < h.start
                                  /\ h.start = Len(lines) + 1
                                  /\ Unterminated(lines)
  <2> HIDE DEF gap, h
  <2>1. before \in Seq(Line)
    BY <1>2, <1>3, ConcatProperties
  <2>2. Unterminated(before) <=> IF gap = <<>> THEN Unterminated(result)
                                               ELSE Unterminated(gap)
    BY <1>2, <1>3, OpenConcat
  <2>3. gap = <<>> => ~(cursor < h.start)
    BY <1>2, <1>3
  <2> HIDE DEF before
  <2> QED
    BY <1>2, <1>3, <2>1, <2>2, <2>3
<1>5. /\ parted \in Seq(Line)
      /\ Unterminated(parted) <=> Unterminated(before) /\ h.new = <<>>
  <2>1. CASE h.new # <<>> /\ Unterminated(before) /\ Unterminated(lines)
    <3>1. parted = WithTerm(before, FileTerm) /\ before # <<>>
      BY <2>1 DEF Parted, Unterminated
    <3>2. FileTerm \in Terms /\ FileTerm # "none"
      BY <1>1, FileTermType
    <3> HIDE DEF before, h
    <3>3. WithTerm(before, FileTerm) \in Seq(Line)
      <4>1. before[Len(before)] \in Line
        BY <1>4, <3>1
      <4>2. [before[Len(before)] EXCEPT !.term = FileTerm] \in Line
        BY <3>2, <4>1 DEF Line
      <4> QED
        BY <1>4, <3>1, <4>2 DEF WithTerm
    <3>4. ~Unterminated(WithTerm(before, FileTerm))
      BY <1>4, <3>1, <3>2, OpenWithTerm
    <3> QED
      BY <2>1, <3>1, <3>3, <3>4
  <2>2. CASE ~(h.new # <<>> /\ Unterminated(before) /\ Unterminated(lines))
    <3>1. parted = before
      BY <2>2 DEF Parted
    <3> HIDE DEF before, h
    <3> QED
      BY <1>4, <2>2, <3>1
  <2> QED
    BY <2>1, <2>2
<1>6. /\ filled \in Seq(Line)
      /\ h.new # <<>> => filled # <<>>
      /\ Unterminated(filled) <=> Unterminated(before) /\ h.new = <<>>
  <2>1. /\ new \in Seq(Line) /\ ~Unterminated(new)
        /\ new = <<>> <=> h.new = <<>>
    BY <1>1, NewLinesAreFile DEF IsFile
  <2> HIDE DEF parted, new, before, h
  <2>2. Unterminated(filled) <=> IF new = <<>> THEN Unterminated(parted)
                                               ELSE Unterminated(new)
    BY <1>5, <2>1, OpenConcat
  <2>3. filled \in Seq(Line) /\ (new # <<>> => filled # <<>>)
    BY <1>5, <2>1
  <2> QED
    BY <1>5, <2>1, <2>2, <2>3
<1> DEFINE closing == /\ k + 1 = Len(sorted) /\ h.new # <<>>
                      /\ h.start =< h.end /\ h.end = Len(lines)
                      /\ Unterminated(lines)
<1>7. Unterminated(Applied(h)) <=> closing \/ Unterminated(filled)
  <2>1. Applied(h) = IF closing THEN WithTerm(filled, "none") ELSE filled
    BY DEF Applied, Ended
  <2>2. closing => h.new # <<>>
    OBVIOUS
  <2> HIDE DEF closing, filled, h
  <2>3. closing => Unterminated(WithTerm(filled, "none"))
    BY <1>6, <2>2, OpenWithTerm
  <2> QED
    BY <2>1, <2>3
<1>8. Unterminated(lines) /\ h.new = <<>> =>
        (cursor < h.start /\ h.start = Len(lines) + 1 <=>
           /\ k + 1 = Len(sorted) /\ h.end = Len(lines) /\ h.end < h.start
           /\ ~Removed(Len(lines)))
  <2>1. ASSUME cursor < h.start, h.start = Len(lines) + 1
        PROVE  /\ k + 1 = Len(sorted) /\ h.end = Len(lines) /\ h.end < h.start
               /\ ~Removed(Len(lines))
    <3>1. h.end = Len(lines) /\ h.end < h.start
      BY <1>1, <2>1
    <3>2. k + 1 = Len(sorted)
      <4> SUFFICES ASSUME k + 1 # Len(sorted) PROVE FALSE
        OBVIOUS
      <4>1. k + 2 \in 1..Len(sorted) /\ k + 1 < k + 2
        BY <1>1
      <4>2. h.start < sorted[k + 2].start
        BY <1>1, <4>1, HunkOrder
      <4>3. sorted[k + 2].start \in Int /\ sorted[k + 2].start =< Len(lines) + 1
        BY <4>1, HunkPlace
      <4> QED
        BY <1>1, <2>1, <4>2, <4>3
    <3>3. Len(lines) \in cursor..Len(lines) + 1 /\ Len(lines) < h.start
      BY <1>1, <1>2, <2>1
    <3>4. ~Removed(Len(lines))
      BY <1>2, <3>3, BetweenHunks
    <3> QED
      BY <3>1, <3>2, <3>4
  <2>2. ASSUME Unterminated(lines), h.end = Len(lines), h.end < h.start,
               ~Removed(Len(lines))
        PROVE  cursor < h.start /\ h.start = Len(lines) + 1
    <3>1. h.start = Len(lines) + 1
      BY <1>1, <2>2
    <3>2. cursor # h.start
      <4> SUFFICES ASSUME cursor = h.start PROVE FALSE
        OBVIOUS
      <4>1. Len(lines) # 0
        BY <1>1, <2>2 DEF Unterminated
      <4>2. k # 0
        <5>1. cursor = Len(lines) + 1 /\ (k = 0 => cursor = 1)
          BY <1>2, <3>1 DEF Behind
        <5> QED
          BY <1>1, <4>1, <5>1
      <4>3. k \in 1..Len(sorted) /\ k < k + 1 /\ sorted[k].end = Len(lines)
        <5>1. k \in 1..Len(sorted) /\ k < k + 1
          BY <1>1, <4>2
        <5>2. sorted[k].end \in Int
          BY <5>1, HunkPlace
        <5>3. cursor = sorted[k].end + 1
          BY <1>2, <4>2 DEF Behind
        <5> QED
          BY <1>1, <3>1, <5>1, <5>2, <5>3
      <4>4. sorted[k].start < h.start /\ sorted[k].start \in Int
        BY <1>1, <4>3, HunkOrder, HunkPlace
      <4>5. Len(lines) \in sorted[k].start..sorted[k].end
        BY <1>1, <3>1, <4>3, <4>4
      <4>6. Removed(Len(lines))
        BY <4>3, <4>5, WithinHunk
      <4> QED
        BY <2>2, <4>6
    <3> QED
      BY <1>1, <1>2, <3>1, <3>2
  <2> QED
    BY <2>1, <2>2
<1>9. h.end < h.start <=> ~(h.start =< h.end)
  BY <1>1
<1> HIDE DEF h, filled, before
<1> QED
  BY <1>4, <1>6, <1>7, <1>8, <1>9 DEF LeavesOpen, h

\* The last hunk in order is the last of the request.
LEMMA LastIsLast ==
  ASSUME VerdictInv, pc = "apply"
  PROVE  LastHunk = sorted[Len(sorted)]
<1> DEFINE n == Len(sorted)
           IsLast(h) == h \in Hunks /\ \A g \in Hunks : g.start =< h.start
<1>1. /\ n \in 1..n /\ n \in Nat
      /\ \A j \in 1..n : sorted[j] \in Hunks /\ sorted[j].start \in Int
  BY HunkCount, HunkPlace
<1>2. ASSUME NEW i \in 1..n, i # n PROVE sorted[i].start < sorted[n].start
  <2>1. i < n
    BY <1>1, <1>2
  <2> QED
    BY <1>1, <2>1, HunkOrder
<1>3. \A g \in Hunks : \E i \in 1..n : g = sorted[i]
  BY HunkNamed
<1> HIDE DEF n
<1>4. IsLast(sorted[n])
  <2>1. ASSUME NEW g \in Hunks PROVE g.start =< sorted[n].start
    <3>1. PICK i \in 1..n : g = sorted[i]
      BY <1>3
    <3>2. sorted[i].start \in Int /\ sorted[n].start \in Int
      BY <1>1
    <3>3. i = n \/ sorted[i].start < sorted[n].start
      BY <1>2
    <3> QED
      BY <3>1, <3>2, <3>3
  <2> QED
    BY <1>1, <2>1
<1>5. ASSUME NEW h, IsLast(h) PROVE h = sorted[n]
  <2>1. PICK i \in 1..n : h = sorted[i]
    BY <1>3, <1>5
  <2>2. sorted[n].start =< sorted[i].start
    BY <1>1, <1>5, <2>1
  <2>3. i = n
    <3>1. sorted[i].start \in Int /\ sorted[n].start \in Int
      BY <1>1
    <3>2. ~(sorted[i].start < sorted[n].start)
      BY <2>2, <3>1
    <3> QED
      BY <1>2, <3>2
  <2> QED
    BY <2>1, <2>3
<1>6. LastHunk = CHOOSE h : IsLast(h)
  BY DEF LastHunk
<1> HIDE DEF IsLast
<1>7. IsLast(CHOOSE h : IsLast(h))
  BY <1>4
<1> QED
  BY <1>5, <1>6, <1>7 DEF n

\* The rest is copied: the end is open as TerminatorsKept says.
LEMMA RestOpen ==
  ASSUME VerdictInv, JoinInv, SpliceInv, OpenInv, pc = "apply", k = Len(sorted)
  PROVE  Unterminated(result \o SubSeq(lines, cursor, Len(lines))) <=>
           /\ Unterminated(lines)
           /\ \/ ~Removed(LastLine) /\ NewAt(LastLine + 1) = <<>>
              \/ LastLine \in LastHunk.start..LastHunk.end /\ LastHunk.new # <<>>
<1> DEFINE n == Len(lines)
           rest == SubSeq(lines, cursor, n)
           h == sorted[k]
<1>1. /\ IsFile(lines) /\ n \in Nat /\ k \in 1..Len(sorted) /\ k # 0
      /\ cursor \in 1..n + 1 /\ cursor = Behind(k) /\ result \in Seq(Line)
      /\ h \in Hunk /\ h.start \in 1..n + 1 /\ h.end \in h.start - 1..n
      /\ cursor = h.end + 1
  <2>1. IsFile(lines) /\ n \in Nat /\ k \in 1..Len(sorted) /\ k # 0
    BY HunkCount
  <2>2. cursor \in 1..n + 1 /\ cursor = Behind(k) /\ result \in Seq(Line)
    BY DEF JoinInv, SpliceInv, IsFile
  <2>3. h \in Hunk /\ h.start \in 1..n + 1 /\ h.end \in h.start - 1..n
    <3>1. /\ h \in Hunk /\ h.start \in Int /\ h.end \in Int
          /\ 1 =< h.start /\ h.start =< n + 1
          /\ h.start - 1 =< h.end /\ h.end =< n
      BY <2>1, HunkPlace
    <3> HIDE DEF h
    <3> QED
      BY <2>1, <3>1
  <2>4. cursor = h.end + 1
    BY <2>1, <2>2 DEF Behind
  <2> QED
    BY <2>1, <2>2, <2>3, <2>4
<1>2. /\ rest \in Seq(Line) /\ (rest = <<>> <=> cursor = n + 1)
      /\ Unterminated(rest) <=> cursor =< n /\ Unterminated(lines)
  <2>1. cursor \in Int /\ n \in Int /\ 1 =< cursor /\ cursor =< n + 1 /\ n =< n
    BY <1>1
  <2>2. IsFile(rest) /\ (rest = <<>> <=> cursor = n + 1)
    BY <1>1, <2>1, FilePart
  <2>3. Unterminated(rest) <=>
          cursor =< n /\ n = Len(lines) /\ Unterminated(lines)
    BY <1>1, <2>1, OpenPart
  <2> HIDE DEF rest
  <2> QED
    BY <2>2, <2>3 DEF IsFile
<1>3. Unterminated(result \o rest) <=> IF rest = <<>> THEN Unterminated(result)
                                                      ELSE Unterminated(rest)
  <2> HIDE DEF rest
  <2> QED
    BY <1>1, <1>2, OpenConcat
<1>4. LastHunk = h
  BY LastIsLast
<1> DEFINE kept == ~Removed(n) /\ NewAt(n + 1) = <<>>
           replaced == n \in h.start..h.end /\ h.new # <<>>
<1>5. CASE cursor =< n
  <2>1. n \in cursor..n + 1 /\ n + 1 \in cursor..n + 1 /\ n + 1 # cursor
    BY <1>1, <1>5
  <2>2. kept
    BY <1>1, <2>1, BetweenHunks
  <2>3. rest # <<>>
    BY <1>2, <2>1
  <2> HIDE DEF rest, h
  <2>4. Unterminated(result \o rest) <=> Unterminated(lines)
    BY <1>2, <1>3, <1>5, <2>3
  <2> QED
    BY <2>2, <2>4 DEF LastLine, rest
<1>6. CASE cursor = n + 1
  <2>1. h.end = n
    BY <1>1, <1>6
  <2>2. Unterminated(result \o rest) <=> Unterminated(result)
    BY <1>2, <1>3, <1>6
  <2>3. Unterminated(result) <=> Unterminated(lines) /\ LeavesOpen(h)
    BY <1>6 DEF OpenInv
  <2>4. Unterminated(lines) => (LeavesOpen(h) <=> kept \/ replaced)
    <3>1. CASE h.end < h.start
      <4>1. h.start = n + 1 /\ ~(n \in h.start..h.end)
        BY <1>1, <2>1, <3>1
      <4>2. NewAt(n + 1) = NewLines(h)
        BY <1>1, <4>1, NewAtHunk
      <4>3. NewLines(h) = <<>> <=> h.new = <<>>
        BY <1>1, NewLinesAreFile
      <4> QED
        BY <3>1, <4>1, <4>2, <4>3 DEF LeavesOpen
    <3>2. CASE ~(h.end < h.start)
      <4>1. n \in h.start..h.end
        BY <1>1, <2>1, <3>2
      <4>2. Removed(n)
        BY <1>1, <4>1, WithinHunk
      <4> QED
        BY <3>2, <4>1, <4>2 DEF LeavesOpen
    <3> QED
      BY <3>1, <3>2
  <2> QED
    BY <1>4, <2>2, <2>3, <2>4 DEF LastLine
<1>7. cursor =< n \/ cursor = n + 1
  BY <1>1
<1> QED
  BY <1>5, <1>6, <1>7

\* OpenInv is about the file, the request and what has been written.
LEMMA SameOpen ==
  ASSUME UNCHANGED <<lines, request>>
  PROVE  /\ \A h : LeavesOpen(h)' <=> LeavesOpen(h)
         /\ LastHunk' = LastHunk /\ LastLine' = LastLine
         /\ (Unterminated(lines))' <=> Unterminated(lines)
<1>1. Hunks' = Hunks
  BY DEF Hunks
<1>2. LastHunk' = LastHunk
  BY <1>1 DEF LastHunk
<1>3. \A i : Removed(i)' <=> Removed(i)
  BY <1>1 DEF Removed
<1> QED
  BY <1>2, <1>3 DEF LeavesOpen, LastLine, Unterminated

\* Applying a hunk keeps that so, whether or not the hunk fits.
LEMMA OpenApply ==
  ASSUME VerdictInv, JoinInv, SpliceInv, OpenInv, ApplyHunk PROVE OpenInv'
<1> DEFINE h == sorted[k + 1]
<1>1. /\ pc = "apply" /\ k < Len(sorted) /\ UNCHANGED <<lines, request, sorted>>
      /\ k \in Nat /\ h.end \in Int /\ Len(lines) \in Int
  <2>1. /\ pc = "apply" /\ k < Len(sorted)
        /\ UNCHANGED <<lines, request, sorted>>
    BY DEF ApplyHunk, Outcome
  <2>2. k \in Nat /\ k + 1 \in 1..Len(sorted) /\ Len(lines) \in Int
    BY <2>1, HunkCount
  <2>3. h.end \in Int
    BY <2>1, <2>2, HunkPlace
  <2> QED
    BY <2>1, <2>2, <2>3
<1>2. CASE ~Fits(h)
  <2>1. pc' = "conflict"
    BY <1>2 DEF ApplyHunk, Outcome
  <2> QED
    BY <2>1 DEF OpenInv
<1>3. CASE Fits(h)
  <2>1. /\ pc' = "apply" /\ k' = k + 1 /\ cursor' = h.end + 1
        /\ result' = Applied(h)
    BY <1>1, <1>3 DEF ApplyHunk
  <2>2. Unterminated(Applied(h)) <=>
          /\ k + 1 = Len(sorted) /\ h.end = Len(lines)
          /\ Unterminated(lines) /\ LeavesOpen(h)
    BY <1>1, AppliedOpen
  <2>3. Unterminated(result)' <=> Unterminated(Applied(h))
    BY <2>1 DEF Unterminated
  <2>4. LeavesOpen(sorted[k])' <=> LeavesOpen(h)
    <3>1. (sorted[k])' = h
      BY <1>1, <2>1
    <3>2. \A g : LeavesOpen(g)' <=> LeavesOpen(g)
      BY <1>1, SameOpen
    <3>3. \A i : Removed(i)' <=> Removed(i)
      BY <1>1, SameSplice
    <3> HIDE DEF h
    <3> QED
      BY <1>1, <3>1, <3>3 DEF LeavesOpen
  <2>5. (cursor = Len(lines) + 1)' <=> h.end = Len(lines)
    BY <1>1, <2>1
  <2>6. (Unterminated(lines))' <=> Unterminated(lines)
    BY <1>1, SameOpen
  <2>7. (k = Len(sorted))' <=> k + 1 = Len(sorted)
    BY <1>1, <2>1
  <2> HIDE DEF h
  <2> QED
    BY <2>1, <2>2, <2>3, <2>4, <2>5, <2>6, <2>7 DEF OpenInv
<1> QED
  BY <1>2, <1>3

\* Copying the rest makes it what is said of the new file.
LEMMA OpenCopy ==
  ASSUME VerdictInv, JoinInv, SpliceInv, OpenInv, CopyRest PROVE OpenInv'
<1> DEFINE final == result \o SubSeq(lines, cursor, Len(lines))
<1>1. /\ pc = "apply" /\ k = Len(sorted) /\ UNCHANGED <<lines, request>>
      /\ result' = final /\ pc' = "done"
  BY DEF CopyRest
<1>2. Unterminated(final) <=>
        /\ Unterminated(lines)
        /\ \/ ~Removed(LastLine) /\ NewAt(LastLine + 1) = <<>>
           \/ LastLine \in LastHunk.start..LastHunk.end /\ LastHunk.new # <<>>
  BY <1>1, RestOpen
<1> HIDE DEF final
<1>3. Unterminated(result)' <=> Unterminated(final)
  BY <1>1 DEF Unterminated
<1>4. /\ LastHunk' = LastHunk /\ LastLine' = LastLine
      /\ (Unterminated(lines))' <=> Unterminated(lines)
  BY <1>1, SameOpen
<1>5. /\ Removed(LastLine)' <=> Removed(LastLine)
      /\ NewAt(LastLine + 1)' = NewAt(LastLine + 1)
  <2>1. LastLine' = LastLine /\ Hunks' = Hunks /\ FileTerm' = FileTerm
    BY <1>1 DEF LastLine, Hunks, FileTerm
  <2>2. \A i : NewAt(i)' = NewAt(i) /\ (Removed(i)' <=> Removed(i))
    BY <1>1, SameSplice
  <2> QED
    BY <2>1, <2>2 DEF Removed, LastLine
<1> QED
  BY <1>1, <1>2, <1>3, <1>4, <1>5 DEF OpenInv

\* No other step disturbs it.
LEMMA OpenStep ==
  VerdictInv /\ JoinInv /\ SpliceInv /\ OpenInv /\ [Next]_vars => OpenInv'
<1> SUFFICES ASSUME VerdictInv, JoinInv, SpliceInv, OpenInv, [Next]_vars
             PROVE  OpenInv'
  OBVIOUS
<1>1. CASE UNCHANGED vars
  <2>1. UNCHANGED <<lines, request, sorted, pc, k, cursor, result>>
    BY <1>1 DEF vars
  <2>2. /\ \A i : NewAt(i)' = NewAt(i) /\ (Removed(i)' <=> Removed(i))
        /\ LastHunk' = LastHunk /\ LastLine' = LastLine
        /\ (Unterminated(lines))' <=> Unterminated(lines)
        /\ (Unterminated(result))' <=> Unterminated(result)
    BY <2>1, SameSplice, SameOpen DEF Unterminated
  <2>3. /\ Removed(LastLine)' <=> Removed(LastLine)
        /\ NewAt(LastLine + 1)' = NewAt(LastLine + 1)
    <3>1. Hunks' = Hunks /\ FileTerm' = FileTerm
      BY <2>1 DEF Hunks, FileTerm
    <3>2. Removed(LastLine)' <=> Removed(LastLine)
      BY <2>2, <3>1 DEF Removed
    <3>3. NewAt(LastLine + 1)' = NewAt(LastLine + 1)
      BY <2>1, SameSplice DEF LastLine
    <3> QED
      BY <3>2, <3>3
  <2>4. LeavesOpen(sorted[k])' <=> LeavesOpen(sorted[k])
    BY <2>1, <2>2 DEF LeavesOpen
  <2> QED
    BY <2>1, <2>2, <2>3, <2>4 DEF OpenInv
<1>2. CASE Finished
  BY <1>1, <1>2 DEF Finished
<1>3. CASE SortHunks \/ ValidateHunk
  <2>1. pc' \notin {"apply", "done"}
    BY <1>3 DEF SortHunks, ValidateHunk, Outcome
  <2> QED
    BY <2>1 DEF OpenInv
<1>4. CASE Validated
  <2>1. /\ pc = "validate" /\ pc' = "apply" /\ k = Len(sorted) /\ k' = 0
        /\ sorted' = sorted /\ result' = result /\ result = <<>>
    BY <1>4 DEF Validated, JoinInv
  <2>2. Len(sorted) \in Nat \ {0}
    BY <2>1, SortedIsRequest DEF VerdictInv, Validating
  <2>3. k' # Len(sorted)' /\ ~(Unterminated(result))'
    BY <2>1, <2>2 DEF Unterminated
  <2> QED
    BY <2>1, <2>3 DEF OpenInv
<1> QED
  BY <1>1, <1>2, <1>3, <1>4, OpenApply, OpenCopy DEF Next

\* A kept line keeps its terminator, unless it had none and lines follow it
\* now; and the new file lacks the last newline only when the old one did and
\* its last line is kept as the last or replaced by the last hunk
\* (patch.go:115-138).
THEOREM TerminatorsStay == Spec => []TerminatorsKept
<1>1. Init => OpenInv
  BY DEF Init, OpenInv
<1>2. VerdictInv /\ JoinInv /\ WholeInv /\ SpliceInv /\ OpenInv
      => TerminatorsKept
  <2> SUFFICES ASSUME VerdictInv, JoinInv, WholeInv, SpliceInv, OpenInv
               PROVE  TerminatorsKept
    OBVIOUS
  <2>1. NeverJoined
    BY WholeIsReadBack
  <2>2. ASSUME pc = "done", NEW i \in DOMAIN result
        PROVE  \/ result[i].term = Spliced[i].term
               \/ Spliced[i].term = "none" /\ result[i].term = FileTerm
               \/ i = Len(result) /\ result[i].term = "none"
    <3>1. Alike(result, Spliced, TRUE)
      BY <2>2, ResultIsSpliced
    <3>2. i \in 1..Len(result)
      BY <3>1 DEF Alike
    <3> HIDE DEF Spliced
    <3> QED
      BY <3>1, <3>2 DEF Alike, Ends
  <2> QED
    BY <2>1, <2>2 DEF OpenInv, TerminatorsKept
<1>3. VerdictInv /\ JoinInv /\ SpliceInv /\ OpenInv /\ [Next]_vars => OpenInv'
  BY OpenStep
<1> QED
  BY <1>1, <1>2, <1>3, PatchInvariants, PTL DEF Spec

-----------------------------------------------------------------------------
(* What read_file shows.                                                    *)

\* The range is cut off at the ends of the file.
LEMMA RangeShown ==
  ASSUME IsFile(lines), NEW start \in 0..Len(lines) + 1,
         NEW end \in 0..Len(lines) + 1, start = 0 \/ end = 0 \/ start =< end
  PROVE  ReadRange(start, end) =
           {i \in DOMAIN lines : start =< i /\ (end = 0 \/ i =< end)}
<1>1. Len(lines) \in Nat /\ DOMAIN lines = 1..Len(lines)
  BY DEF IsFile
<1> QED
  BY <1>1 DEF ReadRange

\* The hunk that a caller makes of the lines from f to t as they were shown.
HunkOf(shown, f, t) ==
  [start |-> f, end |-> t, new |-> <<>>,
   old |-> [i \in 1..t - f + 1 |->
              (CHOOSE line \in shown : line.number = f - 1 + i).text]]

\* A run of the lines shown is a hunk of the file.
LEMMA ShownFits ==
  ASSUME IsFile(lines), NEW R \in SUBSET DOMAIN lines,
         NEW f \in R, NEW t \in R, f =< t,
         \A i \in f..t : i \in R,
         NEW shown, shown = {[number |-> i, text |-> lines[i].text] : i \in R}
  PROVE  InRange(HunkOf(shown, f, t)) /\ Fits(HunkOf(shown, f, t))
<1> DEFINE h == HunkOf(shown, f, t)
<1>1. /\ Len(lines) \in Nat /\ DOMAIN lines = 1..Len(lines)
      /\ f \in 1..Len(lines) /\ t \in 1..Len(lines)
  BY DEF IsFile
<1>2. ASSUME NEW n \in R
      PROVE  (CHOOSE line \in shown : line.number = n).text = lines[n].text
  <2>1. [number |-> n, text |-> lines[n].text] \in shown
    BY <1>2
  <2>2. \A line \in shown : line.number = n => line.text = lines[n].text
    OBVIOUS
  <2>3. \E line \in shown : line.number = n
    BY <2>1
  <2> QED
    BY <2>2, <2>3
<1>3. /\ h.start = f /\ h.end = t /\ DOMAIN h.old = 1..t - f + 1
      /\ \A i \in 1..t - f + 1 :
           h.old[i] = (CHOOSE line \in shown : line.number = f - 1 + i).text
  BY DEF HunkOf
<1>4. Len(h.old) = t - f + 1
  <2>1. t - f + 1 \in Nat
    BY <1>1
  <2>2. h.old = [i \in 1..t - f + 1 |-> h.old[i]]
    BY DEF HunkOf
  <2> QED
    BY <2>1, <2>2
<1>5. InRange(h)
  BY <1>1, <1>3, <1>4 DEF InRange
<1>6. ASSUME NEW i \in 1..t - f + 1
      PROVE  lines[h.start - 1 + i].text = h.old[i]
  <2>1. f - 1 + i \in R
    <3>1. f - 1 + i \in f..t
      BY <1>1
    <3> QED
      BY <3>1
  <2>2. h.old[i] = lines[f - 1 + i].text
    BY <1>2, <1>3, <2>1
  <2> QED
    BY <1>3, <2>2
<1> QED
  BY <1>3, <1>5, <1>6 DEF Fits

\* The lines of the file stay as they were read.
LEMMA FileStays == Spec => []IsFile(lines)
<1>1. Init => IsFile(lines)
  BY InputsAssumption DEF Init, ReadsBack
<1>2. IsFile(lines) /\ [Next]_vars => IsFile(lines)'
  <2> SUFFICES ASSUME IsFile(lines), [Next]_vars PROVE IsFile(lines)'
    OBVIOUS
  <2>1. lines' = lines
    BY DEF Next, vars, SortHunks, ValidateHunk, Validated, ApplyHunk, CopyRest,
           Finished, Outcome
  <2> QED
    BY <2>1 DEF IsFile
<1> QED
  BY <1>1, <1>2, PTL DEF Spec

\* A read shows the lines asked for that there are, and any run of them, with
\* the numbers and texts shown, is a hunk that apply_patch takes for the same
\* file (file.go:36-39).
THEOREM WhatIsShownCanBePatched == Spec => []ShownIsPatchable
<1>1. IsFile(lines) => ShownIsPatchable
  <2> SUFFICES ASSUME IsFile(lines), NEW start \in 0..Len(lines) + 1,
                      NEW end \in 0..Len(lines) + 1,
                      start = 0 \/ end = 0 \/ start =< end
               PROVE  LET shown == ReadFile(start, end) IN
                      /\ {line.number : line \in shown} =
                           {i \in DOMAIN lines : start =< i /\ (end = 0 \/ i =< end)}
                      /\ \A a, b \in shown :
                           a.number =< b.number =>
                             LET h == [start |-> a.number, end |-> b.number,
                                       new |-> <<>>,
                                       old |-> [i \in 1..b.number - a.number + 1 |->
                                                  (CHOOSE line \in shown :
                                                     line.number = a.number - 1 + i).text]]
                             IN InRange(h) /\ Fits(h)
    BY DEF ShownIsPatchable
  <2> DEFINE R == ReadRange(start, end)
             shown == ReadFile(start, end)
  <2>1. R = {i \in DOMAIN lines : start =< i /\ (end = 0 \/ i =< end)}
    BY RangeShown
  <2>2. shown = {[number |-> i, text |-> lines[i].text] : i \in R}
    BY DEF ReadFile
  <2>3. Len(lines) \in Nat /\ DOMAIN lines = 1..Len(lines)
    BY DEF IsFile
  <2> HIDE DEF R, shown
  <2>4. {line.number : line \in shown} = R
    <3>1. \A i \in R : /\ [number |-> i, text |-> lines[i].text] \in shown
                       /\ [number |-> i, text |-> lines[i].text].number = i
      BY <2>2
    <3>2. \A line \in shown : line.number \in R
      BY <2>2
    <3> QED
      BY <3>1, <3>2
  <2>5. ASSUME NEW a \in shown, NEW b \in shown, a.number =< b.number
        PROVE  LET h == [start |-> a.number, end |-> b.number,
                         new |-> <<>>,
                         old |-> [i \in 1..b.number - a.number + 1 |->
                                    (CHOOSE line \in shown :
                                       line.number = a.number - 1 + i).text]]
               IN InRange(h) /\ Fits(h)
    <3>1. a.number \in R /\ b.number \in R /\ R \in SUBSET DOMAIN lines
      BY <2>1, <2>4, <2>5
    <3>2. \A i \in a.number..b.number : i \in R
      BY <2>1, <2>3, <3>1
    <3>3. /\ InRange(HunkOf(shown, a.number, b.number))
          /\ Fits(HunkOf(shown, a.number, b.number))
      BY <2>2, <2>5, <3>1, <3>2, ShownFits
    <3> QED
      BY <3>3 DEF HunkOf
  <2> QED
    BY <2>1, <2>4, <2>5 DEF shown
<1> QED
  BY <1>1, FileStays, PTL

=============================================================================
