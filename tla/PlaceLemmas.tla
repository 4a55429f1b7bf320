---------------------------- MODULE PlaceLemmas ----------------------------
(***************************************************************************)
(* Lemmas about places in sequences that several proofs need: the least    *)
(* and the greatest of them, and what a sequence holds after RemoveAt.     *)
(***************************************************************************)
EXTENDS Naturals, Sequences, SequencesExt, WellFoundedInduction, FiniteSetTheorems, TLAPS

LEMMA MinExists ==
  ASSUME NEW places \in SUBSET Nat, places # {}
  PROVE  Min(places) \in places /\ \A j \in places : Min(places) <= j
<1> DEFINE less == {p \in Nat \X Nat : p[1] < p[2]}
<1>1. OpToRel(<, Nat) = less
  BY Zenon DEF OpToRel
<1>2. IsWellFoundedOn(less, Nat)
  BY NatLessThanWellFounded, <1>1, Zenon
<1>3. PICK i \in places : \A j \in places : <<j, i>> \notin less
  <2> HIDE DEF less
  <2> QED BY <1>2, WFMin, Zenon
<1>4. \A j \in Nat : j < i => <<j, i>> \in less
  BY SMT
<1>5. \A j \in places : i <= j
  <2>1. \A j \in places : j \in Nat /\ ~(j < i)
    BY <1>3, <1>4, Zenon
  <2> QED BY <2>1, SMT
<1> QED
  BY <1>5, Zenon DEF Min

LEMMA MaxExists ==
  ASSUME NEW last \in Nat, NEW places \in SUBSET (1..last), places # {}
  PROVE  Max(places) \in places /\ \A j \in places : j <= Max(places)
<1> DEFINE mirrored == {last - i : i \in places}
           least == Min(mirrored)
<1>1. mirrored \in SUBSET Nat /\ mirrored # {}
  <2>1. \A i \in places : last - i \in Nat
    BY SMT
  <2> QED BY <2>1, Zenon
<1>2. least \in mirrored /\ \A j \in mirrored : least <= j
  <2> HIDE DEF mirrored
  <2> QED BY <1>1, MinExists, Zenon
<1> HIDE DEF least
<1>3. PICK i \in places : least = last - i
  BY <1>2
<1>4. \A j \in places : last - i <= last - j
  BY <1>2, <1>3, Zenon
<1>5. \A j \in places : i >= j
  BY <1>4, SMT
<1>6. Max(places) \in places /\ \A j \in places : Max(places) >= j
  BY <1>5, Zenon DEF Max
<1> QED
  BY <1>6, SMT

LEMMA RemoveAtEntries ==
  ASSUME NEW S, NEW s \in Seq(S), NEW i \in 1..Len(s)
  PROVE  /\ RemoveAt(s, i) \in Seq(S)
         /\ Len(RemoveAt(s, i)) = Len(s) - 1
         /\ \A j \in 1..Len(s) - 1 : RemoveAt(s, i)[j] = s[IF j < i THEN j ELSE j + 1]
<1> DEFINE front == SubSeq(s, 1, i - 1)  back == SubSeq(s, i + 1, Len(s))
<1>1. /\ front \in Seq(S) /\ Len(front) = i - 1
      /\ \A j \in 1..i - 1 : front[j] = s[j]
  BY SMT
<1>2. /\ back \in Seq(S) /\ Len(back) = Len(s) - i
      /\ \A j \in 1..Len(s) - i : back[j] = s[j + i]
  BY SMT
<1>3. RemoveAt(s, i) = front \o back
  BY DEF RemoveAt
<1> HIDE DEF front, back
<1>4. front \o back \in Seq(S) /\ Len(front \o back) = Len(s) - 1
  BY <1>1, <1>2, SMT
<1>5. ASSUME NEW j \in 1..i - 1 PROVE (front \o back)[j] = s[j]
  BY <1>1, <1>2, SMT
<1>6. ASSUME NEW j \in i..Len(s) - 1 PROVE (front \o back)[j] = s[j + 1]
  <2>1. (front \o back)[j] = back[j - (i - 1)]
    BY <1>1, <1>2, SMT
  <2>2. j - (i - 1) \in 1..Len(s) - i /\ j - (i - 1) + i = j + 1
    BY SMT
  <2> QED
    BY <2>1, <2>2, <1>2, SMT
<1> QED
  BY <1>3, <1>4, <1>5, <1>6, SMT
=============================================================================
