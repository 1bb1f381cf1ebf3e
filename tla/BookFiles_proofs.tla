---- MODULE BookFiles_proofs ----
(* Lemmas about positions in a list of files and about BookFiles' lookup.       *)
EXTENDS BookFiles, FiniteSetTheorems, TLAPS

(* A set of positions that is not empty has a first one. *)
LEMMA FirstPosition ==
  ASSUME NEW n \in Nat, NEW M \in SUBSET (1..n), M # {}
  PROVE  \E i \in M : \A j \in M : i <= j
<1> DEFINE upTo(k) == {j \in M : j <= k}
           T == {upTo(k) : k \in M}
<1>1. IsFiniteSet(1..n)
  BY FS_Interval
<1>2. T \subseteq FiniteSubsetsOf(1..n)
  <2>1. FiniteSubsetsOf(1..n) = SUBSET (1..n)
    BY <1>1, FS_FiniteSubsetsOfFinite
  <2>2. \A k \in M : upTo(k) \in SUBSET (1..n)
    OBVIOUS
  <2> QED BY <2>1, <2>2
<1>3. IsWellFoundedOn(StrictSubsetOrdering(1..n), FiniteSubsetsOf(1..n))
  BY FS_StrictSubsetOrderingWellFounded
<1>4. PICK U \in T : \A V \in T : <<V, U>> \notin StrictSubsetOrdering(1..n)
  <2>1. T # {}
    OBVIOUS
  <2> HIDE DEF T
  <2> QED BY <1>2, <1>3, <2>1, WFMin
<1>5. PICK i \in M : U = upTo(i)
  OBVIOUS
<1>6. ASSUME NEW j \in M, j < i
      PROVE  FALSE
  <2>0. i \in Nat /\ j \in Nat /\ M \subseteq Nat
    OBVIOUS
  <2>1. upTo(j) \in T /\ upTo(j) \subseteq U /\ i \in U /\ i \notin upTo(j)
    <3>1. upTo(j) \in T
      OBVIOUS
    <3>2. i \in upTo(i) /\ i \notin upTo(j) /\ \A k \in upTo(j) : k \in upTo(i)
      BY <1>6, <2>0
    <3> QED BY <1>5, <3>1, <3>2
  <2>2. <<upTo(j), U>> \in StrictSubsetOrdering(1..n)
    BY <1>2, <2>1, FS_FiniteSubsetsOfFinite, <1>1 DEF StrictSubsetOrdering
  <2> QED BY <1>4, <2>1, <2>2
<1> QED BY <1>6

(* A lookup finds one position at most. *)
LEMMA FindFileIsOne ==
  ASSUME NEW files, Len(files) \in Nat, NEW idx \in Int,
         NEW i \in FindFile(files, idx), NEW j \in FindFile(files, idx)
  PROVE  i = j
BY DEF FindFile, Matches
====
