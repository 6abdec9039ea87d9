----------------------------- MODULE LaunchProofs -----------------------------
(* Proofs about the environment that Pi is started in, for environments of   *)
(* any length and any spelling of their variables.                          *)
EXTENDS PiLaunch, TLAPS

\* Whatever Brunel is started with is a sequence of entries.
Proper == Environments \subseteq Seq(Entry)

\* The entries of other variables among the first n.
Kept(n) == {base[i] : i \in {j \in 1..n : ~Names(base[j], Var)}}

\* Exactly one entry of s is of the variable, and it is the new one.
Single(s) == \E i \in DOMAIN s :
               /\ s[i] = Canonical
               /\ \A j \in DOMAIN s \ {i} : ~Names(s[j], Var)

\* Where the loop is: what has been copied, and whether the key is in it.
CopyInv ==
  /\ base \in Seq(Entry) /\ cred \in Credential /\ at \in 0..Len(base)
  /\ pc \in {"check", "copy", "unchanged", "mismatch", "injected"}
  /\ pc = "check" => at = 0 /\ result = <<>> /\ replaced = FALSE
  /\ pc \in {"unchanged", "mismatch"} => result = base
  /\ pc \in {"copy", "injected"} => ~NothingToInject /\ Matches
  /\ pc = "copy" =>
       /\ result \in Seq(Entry) /\ replaced \in BOOLEAN
       /\ Entries(result) = Kept(at) \cup (IF replaced THEN {Canonical} ELSE {})
       /\ replaced => Single(result)
  /\ pc = "injected" =>
       Single(result) /\ Entries(result) = Kept(Len(base)) \cup {Canonical}

LEMMA CanonicalNames ==
  ASSUME cred \in Credential, ~NothingToInject
  PROVE  Canonical \in Entry /\ Names(Canonical, Var)
<1>1. Var \in KeyVars
  BY DEF NothingToInject, Var, KeyVars
<1> QED
  BY <1>1 DEF Canonical, Entry, Names, Credential

\* Append adds the entry and disturbs no other.
LEMMA AppendEntry ==
  ASSUME NEW s \in Seq(Entry), NEW e \in Entry
  PROVE  /\ Append(s, e) \in Seq(Entry)
         /\ Entries(Append(s, e)) = Entries(s) \cup {e}
         /\ Single(s) /\ ~Names(e, Var) => Single(Append(s, e))
         /\ (\A x \in Entries(s) : ~Names(x, Var)) /\ e = Canonical
              => Single(Append(s, e))
<1> DEFINE t == Append(s, e)
<1>1. /\ Len(s) \in Nat /\ DOMAIN s = 1..Len(s) /\ DOMAIN t = 1..Len(s) + 1
      /\ t \in Seq(Entry) /\ t[Len(s) + 1] = e
      /\ \A i \in 1..Len(s) : t[i] = s[i]
  OBVIOUS
<1>2. \A i \in 1..Len(s) + 1 : i \in 1..Len(s) \/ i = Len(s) + 1
  BY <1>1
<1>3. 1..Len(s) \subseteq 1..Len(s) + 1 /\ Len(s) + 1 \in 1..Len(s) + 1
  BY <1>1
<1> HIDE DEF t
<1>4. Entries(t) = Entries(s) \cup {e}
  BY <1>1, <1>2, <1>3 DEF Entries
<1>5. ASSUME Single(s), ~Names(e, Var) PROVE Single(t)
  <2>1. PICK i \in DOMAIN s : /\ s[i] = Canonical
                              /\ \A j \in DOMAIN s \ {i} : ~Names(s[j], Var)
    BY <1>5 DEF Single
  <2>2. i \in DOMAIN t /\ t[i] = Canonical
    BY <1>1, <1>3, <2>1
  <2>3. \A j \in DOMAIN t \ {i} : ~Names(t[j], Var)
    BY <1>1, <1>2, <1>5, <2>1
  <2> QED
    BY <2>2, <2>3 DEF Single
<1>6. ASSUME \A x \in Entries(s) : ~Names(x, Var), e = Canonical
      PROVE  Single(t)
  <2>1. \A j \in DOMAIN t \ {Len(s) + 1} : ~Names(t[j], Var)
    BY <1>1, <1>2, <1>6 DEF Entries
  <2> QED
    BY <1>1, <1>3, <1>6, <2>1 DEF Single
<1> QED
  BY <1>1, <1>4, <1>5, <1>6 DEF t

\* One more entry is kept unless it is one of the variable.
LEMMA KeptNext ==
  ASSUME NEW n \in Nat
  PROVE  Kept(n + 1) = Kept(n) \cup (IF Names(base[n + 1], Var) THEN {}
                                     ELSE {base[n + 1]})
<1>1. \A i \in 1..n + 1 : i \in 1..n \/ i = n + 1
  OBVIOUS
<1>2. 1..n \subseteq 1..n + 1 /\ n + 1 \in 1..n + 1
  OBVIOUS
<1> QED
  BY <1>1, <1>2 DEF Kept

\* The definitions read nothing that a step of the loop changes.
LEMMA SameInputs ==
  ASSUME UNCHANGED Given
  PROVE  /\ Var' = Var /\ Canonical' = Canonical /\ Matches' = Matches
         /\ NothingToInject' = NothingToInject
         /\ \A n : Kept(n)' = Kept(n)
         /\ Single(result)' = Single(result')
         /\ Entries(result)' = Entries(result')
BY DEF Given, Var, Canonical, Matches, NothingToInject, Kept, Single, Entries

LEMMA CopyInit == Proper /\ Init => CopyInv
<1> SUFFICES ASSUME Proper, Init PROVE CopyInv
  OBVIOUS
<1>1. base \in Seq(Entry) /\ Len(base) \in Nat
  BY DEF Init, Proper
<1> QED
  BY <1>1 DEF Init, CopyInv

LEMMA CopyCheck == CopyInv /\ Check => CopyInv'
<1> SUFFICES ASSUME CopyInv, Check PROVE CopyInv'
  OBVIOUS
<1>1. /\ UNCHANGED <<base, opts, cred, at, replaced>> /\ UNCHANGED Given
      /\ pc = "check" /\ at = 0 /\ result = <<>> /\ replaced = FALSE
  BY DEF Check, CopyInv, Given
<1>2. CASE pc' \in {"unchanged", "mismatch"}
  BY <1>1, <1>2 DEF Check, CopyInv
<1>3. CASE pc' = "copy"
  <2>1. /\ ~NothingToInject /\ Matches /\ result' = <<>>
    BY <1>1, <1>3 DEF Check
  <2>2. (Entries(result) = Kept(at))'
    <3>1. Entries(result)' = {}
      BY <2>1 DEF Entries
    <3>2. Kept(at)' = {}
      BY <1>1 DEF Kept
    <3> QED
      BY <3>1, <3>2
  <2>3. /\ result' \in Seq(Entry)
        /\ (~NothingToInject /\ Matches)'
        /\ at' = 0 /\ replaced' = FALSE
    BY <1>1, <2>1, SameInputs
  <2>4. (Entries(result) =
           Kept(at) \cup (IF replaced THEN {Canonical} ELSE {}))'
    BY <2>2, <2>3
  <2>5. /\ base' \in Seq(Entry) /\ cred' \in Credential
        /\ at' \in 0..Len(base')
    BY <1>1 DEF CopyInv
  <2> QED
    BY <1>3, <2>3, <2>4, <2>5 DEF CopyInv
<1> QED
  BY <1>2, <1>3 DEF Check

LEMMA CopyCopy == CopyInv /\ CopyEntry => CopyInv'
<1> SUFFICES ASSUME CopyInv, CopyEntry PROVE CopyInv'
  OBVIOUS
<1> DEFINE e == base[at + 1]
<1>1. /\ UNCHANGED Given /\ UNCHANGED <<base, opts, cred, pc>>
      /\ pc = "copy" /\ at < Len(base) /\ at' = at + 1
      /\ base \in Seq(Entry) /\ cred \in Credential /\ Len(base) \in Nat
      /\ at \in Nat /\ at' \in 0..Len(base) /\ e \in Entry
      /\ result \in Seq(Entry) /\ replaced \in BOOLEAN
      /\ ~NothingToInject /\ Matches
      /\ Entries(result) = Kept(at) \cup (IF replaced THEN {Canonical} ELSE {})
      /\ replaced => Single(result)
  BY DEF CopyEntry, CopyInv, Given
<1>2. Kept(at + 1) = Kept(at) \cup (IF Names(e, Var) THEN {} ELSE {e})
  BY <1>1, KeptNext
<1>3. Canonical \in Entry /\ Names(Canonical, Var)
  BY <1>1, CanonicalNames
<1> HIDE DEF e
<1>4. /\ result' \in Seq(Entry) /\ replaced' \in BOOLEAN
      /\ Entries(result') = Kept(at + 1)
                              \cup (IF replaced' THEN {Canonical} ELSE {})
      /\ replaced' => Single(result')
  <2>1. CASE ~Names(e, Var) /\ result' = Append(result, e) /\ replaced' = replaced
    BY <1>1, <1>2, <2>1, AppendEntry
  <2>2. CASE Names(e, Var) /\ replaced /\ UNCHANGED <<result, replaced>>
    BY <1>1, <1>2, <2>2
  <2>3. CASE /\ Names(e, Var) /\ ~replaced
             /\ result' = Append(result, Canonical) /\ replaced' = TRUE
    <3>1. \A x \in Entries(result) : ~Names(x, Var)
      BY <1>1, <2>3 DEF Kept
    <3>2. /\ Append(result, Canonical) \in Seq(Entry)
          /\ Entries(Append(result, Canonical)) = Entries(result) \cup {Canonical}
          /\ Single(Append(result, Canonical))
      BY <1>1, <1>3, <3>1, AppendEntry
    <3> QED
      BY <1>1, <1>2, <2>3, <3>2
  <2> QED
    BY <2>1, <2>2, <2>3 DEF CopyEntry, e
<1> QED
  BY <1>1, <1>4, SameInputs DEF CopyInv

LEMMA CopyEnd == CopyInv /\ AppendKey => CopyInv'
<1> SUFFICES ASSUME CopyInv, AppendKey PROVE CopyInv'
  OBVIOUS
<1>1. /\ UNCHANGED Given /\ UNCHANGED <<base, opts, cred, at, replaced>>
      /\ pc = "copy" /\ pc' = "injected" /\ at = Len(base)
      /\ base \in Seq(Entry) /\ cred \in Credential /\ at \in 0..Len(base)
      /\ result \in Seq(Entry) /\ replaced \in BOOLEAN
      /\ ~NothingToInject /\ Matches
      /\ Entries(result) = Kept(Len(base))
                             \cup (IF replaced THEN {Canonical} ELSE {})
      /\ replaced => Single(result)
      /\ result' = IF replaced THEN result ELSE Append(result, Canonical)
  BY DEF AppendKey, CopyInv, Given
<1>2. Canonical \in Entry
  BY <1>1, CanonicalNames
<1>3. Single(result') /\ Entries(result') = Kept(Len(base)) \cup {Canonical}
  <2>1. CASE replaced
    BY <1>1, <2>1
  <2>2. CASE ~replaced
    <3>1. \A x \in Entries(result) : ~Names(x, Var)
      BY <1>1, <2>2 DEF Kept
    <3> QED
      BY <1>1, <1>2, <2>2, <3>1, AppendEntry
  <2> QED
    BY <2>1, <2>2
<1> QED
  BY <1>1, <1>3, SameInputs DEF CopyInv

LEMMA CopyStep == CopyInv /\ [Next]_vars => CopyInv'
<1> SUFFICES ASSUME CopyInv, [Next]_vars PROVE CopyInv'
  OBVIOUS
<1>1. CASE UNCHANGED vars \/ Finished
  <2>1. UNCHANGED Given /\ UNCHANGED <<base, opts, cred, pc, at, replaced, result>>
    BY <1>1 DEF vars, Given, Finished
  <2> QED
    BY <2>1, SameInputs DEF CopyInv
<1> QED
  BY <1>1, CopyCheck, CopyCopy, CopyEnd DEF Next

\* Pi finds one entry for the key, and every other entry Brunel has.
THEOREM PiGetsOneKey ==
  ASSUME Proper PROVE Spec => []OneKey
<1>1. Init => CopyInv
  BY Proper, CopyInit
<1>2. CopyInv => OneKey
  <2> SUFFICES ASSUME CopyInv, pc = "injected"
               PROVE  /\ Single(result)
                      /\ Entries(result) =
                           {e \in Entries(base) : ~Names(e, Var)} \cup {Canonical}
    BY DEF OneKey, Single
  <2>1. base \in Seq(Entry) /\ DOMAIN base = 1..Len(base)
    BY DEF CopyInv
  <2>2. Kept(Len(base)) = {e \in Entries(base) : ~Names(e, Var)}
    BY <2>1 DEF Kept, Entries
  <2> QED
    BY <2>2 DEF CopyInv
<1> QED
  BY <1>1, <1>2, CopyStep, PTL DEF Spec

\* No key is ever given to another provider than its own.
THEOREM KeyIsNotMisplaced ==
  ASSUME Proper PROVE Spec => []KeyStaysWithProvider
<1>1. Init => CopyInv
  BY Proper, CopyInit
<1>2. CopyInv => KeyStaysWithProvider
  <2> SUFFICES ASSUME CopyInv, pc # "copy",
                      NEW e \in Entries(result) \ Entries(base)
               PROVE  /\ cred.provider \in Known
                      /\ e.var = KeyVarOf[cred.provider]
                      /\ PiUses(BuildArgs(opts)) \in Known
                      /\ KeyVarOf[PiUses(BuildArgs(opts))] = e.var
    BY DEF KeyStaysWithProvider
  <2>1. pc = "injected"
    BY DEF CopyInv, Entries
  <2>2. /\ Matches /\ ~NothingToInject
        /\ Entries(result) = Kept(Len(base)) \cup {Canonical}
        /\ base \in Seq(Entry) /\ DOMAIN base = 1..Len(base)
    BY <2>1 DEF CopyInv
  <2>3. e = Canonical
    BY <2>2 DEF Kept, Entries
  <2>4. PiUses(BuildArgs(opts)) = EffectiveProvider(opts)
    BY DEF PiUses, BuildArgs, EffectiveProvider
  <2> QED
    BY <2>2, <2>3, <2>4 DEF Matches, NothingToInject, Canonical, Var
<1> QED
  BY <1>1, <1>2, CopyStep, PTL DEF Spec
=============================================================================
