---------------------------- MODULE TrackerProofs ----------------------------
(***************************************************************************)
(* Proofs about a game in play: the roster, items changing hands and a     *)
(* character's log, for any people, characters, entries and requests.      *)
(***************************************************************************)
EXTENDS MCTracker, FiniteSetTheorems, TLAPS

-----------------------------------------------------------------------------
(* Sequences.                                                              *)

\* The least of some naturals: what stands for induction below.
LEMMA Least ==
  ASSUME NEW T \in SUBSET Nat, T # {}
  PROVE  \E x \in T : \A y \in T : x <= y
  <1> DEFINE Below == {1..x : x \in T}
  <1>1. Below \subseteq FiniteSubsetsOf(Nat) /\ Below # {}
    <2>1. \A x \in T : 1..x \in SUBSET Nat /\ IsFiniteSet(1..x)
      BY FS_Interval
    <2> QED BY <2>1 DEF FiniteSubsetsOf
  <1>2. PICK I \in Below : \A J \in Below : <<J, I>> \notin StrictSubsetOrdering(Nat)
    <2> HIDE DEF Below
    <2> QED BY <1>1, FS_StrictSubsetOrderingWellFounded, WFMin
  <1>3. PICK x \in T : I = 1..x
    BY <1>2
  <1>4. \A y \in T : ~ (y < x)
    <2> SUFFICES ASSUME NEW y \in T, y < x PROVE FALSE
      OBVIOUS
    <2>1. 1..y \in SUBSET Nat /\ 1..x \in SUBSET Nat /\ x \in 1..x /\ x \notin 1..y
      OBVIOUS
    <2>2. 1..y \subseteq 1..x
      OBVIOUS
    <2>3. <<1..y, I>> \in StrictSubsetOrdering(Nat)
      BY <1>3, <2>1, <2>2 DEF StrictSubsetOrdering
    <2> QED BY <1>2, <2>3
  <1> QED BY <1>3, <1>4

LEMMA SequenceOf == ASSUME NEW S, NEW s \in Seq(S)
                    PROVE  /\ Len(s) \in Nat /\ DOMAIN s = 1..Len(s) /\ s \in [1..Len(s) -> S]
                           /\ \A i \in 1..Len(s) : s[i] \in S
  OBVIOUS

LEMMA SequenceFrom == ASSUME NEW S, NEW n \in Nat, NEW s \in [1..n -> S]
                      PROVE  s \in Seq(S) /\ Len(s) = n /\ DOMAIN s = 1..n
  OBVIOUS

LEMMA PartOf ==
  ASSUME NEW S, NEW s \in Seq(S), NEW a \in 1..(Len(s) + 1), NEW b \in 0..Len(s), a <= b + 1
  PROVE  /\ SubSeq(s, a, b) \in Seq(S) /\ Len(SubSeq(s, a, b)) = b + 1 - a
         /\ \A i \in 1..(b + 1 - a) : SubSeq(s, a, b)[i] = s[a + i - 1]
  OBVIOUS

LEMMA JoinOf ==
  ASSUME NEW S, NEW s \in Seq(S), NEW t \in Seq(S)
  PROVE  /\ s \o t \in Seq(S) /\ Len(s \o t) = Len(s) + Len(t)
         /\ \A i \in 1..Len(s) : (s \o t)[i] = s[i]
         /\ \A i \in 1..Len(t) : (s \o t)[Len(s) + i] = t[i]
  OBVIOUS

LEMMA RemovedAt ==
  ASSUME NEW S, NEW s \in Seq(S), NEW i \in 1..Len(s)
  PROVE  /\ RemoveAt(s, i) \in Seq(S) /\ Len(RemoveAt(s, i)) = Len(s) - 1
         /\ \A j \in 1..(Len(s) - 1) : RemoveAt(s, i)[j] = IF j < i THEN s[j] ELSE s[j + 1]
  <1> DEFINE a == SubSeq(s, 1, i - 1)
             b == SubSeq(s, i + 1, Len(s))
  <1>1. /\ a \in Seq(S) /\ Len(a) = i - 1
        /\ \A j \in 1..(i - 1) : a[j] = s[j]
    BY PartOf
  <1>2. /\ b \in Seq(S) /\ Len(b) = Len(s) - i
        /\ \A j \in 1..(Len(s) - i) : b[j] = s[i + j]
    BY PartOf
  <1>3. RemoveAt(s, i) = a \o b
    BY DEF RemoveAt
  <1> HIDE DEF a, b
  <1>4. /\ a \o b \in Seq(S) /\ Len(a \o b) = Len(s) - 1
    <2>1. a \o b \in Seq(S) /\ Len(a \o b) = Len(a) + Len(b)
      BY <1>1, <1>2, JoinOf
    <2>2. (i - 1) + (Len(s) - i) = Len(s) - 1
      BY SequenceOf
    <2> QED BY <1>1, <1>2, <2>1, <2>2
  <1>5. ASSUME NEW j \in 1..(Len(s) - 1)
        PROVE  (a \o b)[j] = IF j < i THEN s[j] ELSE s[j + 1]
    <2>1. CASE j < i
      BY <1>1, <1>2, <2>1, JoinOf
    <2>2. CASE ~(j < i)
      <3>1. PICK k \in 1..(Len(s) - i) : j = (i - 1) + k
        <4>1. j - (i - 1) \in 1..(Len(s) - i) /\ j = (i - 1) + (j - (i - 1))
          BY <2>2
        <4> QED BY <4>1
      <3>2. (a \o b)[j] = b[k]
        BY <1>1, <1>2, <3>1, JoinOf
      <3>3. b[k] = s[j + 1]
        BY <1>2, <3>1
      <3> QED BY <2>2, <3>2, <3>3
    <2> QED BY <2>1, <2>2
  <1> QED BY <1>3, <1>4, <1>5

LEMMA InsertedAt ==
  ASSUME NEW S, NEW s \in Seq(S), NEW i \in 1..(Len(s) + 1), NEW e \in S
  PROVE  /\ InsertAt(s, i, e) \in Seq(S) /\ Len(InsertAt(s, i, e)) = Len(s) + 1
         /\ \A j \in 1..(Len(s) + 1) : InsertAt(s, i, e)[j] =
               IF j < i THEN s[j] ELSE IF j = i THEN e ELSE s[j - 1]
  <1> DEFINE a == SubSeq(s, 1, i - 1)
             b == SubSeq(s, i, Len(s))
             t == a \o <<e>>
  <1>1. /\ a \in Seq(S) /\ Len(a) = i - 1
        /\ \A j \in 1..(i - 1) : a[j] = s[j]
    BY PartOf
  <1>2. /\ b \in Seq(S) /\ Len(b) = Len(s) + 1 - i
        /\ \A j \in 1..(Len(s) + 1 - i) : b[j] = s[i + j - 1]
    BY PartOf
  <1>3. InsertAt(s, i, e) = t \o b
    BY DEF InsertAt
  <1> HIDE DEF a, b
  <1>4. /\ t \in Seq(S) /\ Len(t) = i
        /\ \A j \in 1..(i - 1) : t[j] = s[j]
        /\ t[i] = e
    <2>1. <<e>> \in Seq(S) /\ Len(<<e>>) = 1 /\ <<e>>[1] = e
      OBVIOUS
    <2> QED BY <1>1, <2>1, JoinOf
  <1> HIDE DEF t
  <1>5. /\ t \o b \in Seq(S) /\ Len(t \o b) = Len(s) + 1
    BY <1>4, <1>2, JoinOf
  <1>6. ASSUME NEW j \in 1..(Len(s) + 1)
        PROVE  (t \o b)[j] = IF j < i THEN s[j] ELSE IF j = i THEN e ELSE s[j - 1]
    <2>1. CASE j <= i
      BY <1>2, <1>4, <2>1, JoinOf
    <2>2. CASE ~(j <= i)
      <3>1. PICK k \in 1..(Len(s) + 1 - i) : j = i + k
        <4>1. j - i \in 1..(Len(s) + 1 - i) /\ j = i + (j - i)
          BY <2>2
        <4> QED BY <4>1
      <3>2. (t \o b)[j] = b[k]
        BY <1>2, <1>4, <3>1, JoinOf
      <3>3. b[k] = s[i + k - 1] /\ i + k - 1 = j - 1
        BY <1>2, <3>1
      <3> QED BY <2>2, <3>2, <3>3
    <2> QED BY <2>1, <2>2
  <1> QED BY <1>3, <1>5, <1>6

-----------------------------------------------------------------------------
(* The roster.                                                             *)

\* Nobody is listed twice.
Once(s) == \A i, j \in DOMAIN s : s[i].id = s[j].id => i = j

\* What a request asks for is of its kind.
PatchHolds(g) ==
    /\ g.op \in {"seat", "monster", "initiative", "spend"} => g.id \in Ids
    /\ g.op = "spend" => g.pool \in Pools /\ g.n \in 0..MaxUses
    /\ g.op = "initiative" => g.n \in 0..MaxInitiative

TrackerInv ==
    /\ TrackerTypeOK /\ SeatedOnce
    /\ \A q \in Patches : PatchHolds(patch[q])

LEMMA NoPatchFits == NoPatch \in Patch /\ PatchHolds(NoPatch) /\ NoPatch.op = "idle"
  BY TrackerAssumption DEF NoPatch, Patch, Operations, PatchHolds

LEMMA NewEntryFits == ASSUME NEW id \in Ids PROVE NewEntry(id) \in Entry /\ NewEntry(id).id = id
  <1>1. 0 \in 0..MaxUses /\ 0 \in 0..MaxInitiative
    BY TrackerAssumption
  <1> QED BY <1>1 DEF NewEntry, Entry

LEMMA Placed ==
  ASSUME NEW s \in Seq(Entry), NEW id, id \in {s[i].id : i \in DOMAIN s}
  PROVE  PlaceOf(s, id) \in 1..Len(s) /\ s[PlaceOf(s, id)].id = id
  BY DEF PlaceOf

\* Rewriting entries, each keeping its id.
LEMMA Rewritten ==
  ASSUME NEW s \in Seq(Entry), Once(s),
         NEW t \in [DOMAIN s -> Entry], \A i \in DOMAIN s : t[i].id = s[i].id
  PROVE  t \in Seq(Entry) /\ Once(t)
  BY SequenceOf, SequenceFrom DEF Once

LEMMA RewrittenAt ==
  ASSUME NEW s \in Seq(Entry), Once(s), NEW i \in DOMAIN s, NEW e \in Entry, e.id = s[i].id
  PROVE  [s EXCEPT ![i] = e] \in Seq(Entry) /\ Once([s EXCEPT ![i] = e])
  <1> DEFINE t == [s EXCEPT ![i] = e]
  <1>1. t \in [DOMAIN s -> Entry] /\ \A j \in DOMAIN s : t[j].id = s[j].id
    BY SequenceOf
  <1> HIDE DEF t
  <1> QED BY <1>1, Rewritten DEF t

LEMMA AppendedOnce ==
  ASSUME NEW s \in Seq(Entry), Once(s), NEW e \in Entry, e.id \notin {s[i].id : i \in DOMAIN s}
  PROVE  Append(s, e) \in Seq(Entry) /\ Once(Append(s, e))
  BY DEF Once

LEMMA RemovedOnce ==
  ASSUME NEW s \in Seq(Entry), Once(s), NEW i \in 1..Len(s)
  PROVE  RemoveAt(s, i) \in Seq(Entry) /\ Once(RemoveAt(s, i))
  <1> DEFINE t == RemoveAt(s, i)
  <1>1. /\ t \in Seq(Entry) /\ Len(t) = Len(s) - 1
        /\ \A j \in 1..(Len(s) - 1) : t[j] = IF j < i THEN s[j] ELSE s[j + 1]
    BY RemovedAt
  <1> HIDE DEF t
  <1>2. ASSUME NEW j \in DOMAIN t, NEW k \in DOMAIN t, t[j].id = t[k].id PROVE j = k
    <2>1. j \in 1..(Len(s) - 1) /\ k \in 1..(Len(s) - 1) /\ Len(s) \in Nat
      BY <1>1
    <2>2. PICK jj \in DOMAIN s : t[j] = s[jj] /\ jj = IF j < i THEN j ELSE j + 1
      BY <1>1, <2>1
    <2>3. PICK kk \in DOMAIN s : t[k] = s[kk] /\ kk = IF k < i THEN k ELSE k + 1
      BY <1>1, <2>1
    <2>4. jj = kk
      BY <1>2, <2>2, <2>3 DEF Once
    <2> QED BY <2>1, <2>2, <2>3, <2>4
  <1> QED BY <1>1, <1>2 DEF t, Once

LEMMA MovedOnce ==
  ASSUME NEW s \in Seq(Entry), Once(s), NEW from \in 1..Len(s), NEW to \in 1..(Len(s) + 1)
  PROVE  Moved(s, from, to) \in Seq(Entry) /\ Once(Moved(s, from, to))
  <1> DEFINE r == RemoveAt(s, from)
             p == IF from < to THEN to - 1 ELSE to
             t == InsertAt(r, p, s[from])
  <1>1. /\ r \in Seq(Entry) /\ Len(r) = Len(s) - 1 /\ Once(r)
        /\ \A j \in 1..(Len(s) - 1) : r[j] = IF j < from THEN s[j] ELSE s[j + 1]
    BY RemovedAt, RemovedOnce
  <1>2. p \in 1..(Len(r) + 1) /\ Len(s) \in Nat /\ s[from] \in Entry
    BY <1>1
  <1>3. \A j \in 1..(Len(s) - 1) : r[j].id # s[from].id
    <2> SUFFICES ASSUME NEW j \in 1..(Len(s) - 1), r[j].id = s[from].id PROVE FALSE
      OBVIOUS
    <2>1. PICK k \in DOMAIN s : r[j] = s[k] /\ k # from
      BY <1>1
    <2> QED BY <2>1 DEF Once
  <1> HIDE DEF r, p
  <1>4. /\ t \in Seq(Entry) /\ Len(t) = Len(r) + 1
        /\ \A j \in 1..(Len(r) + 1) : t[j] =
              IF j < p THEN r[j] ELSE IF j = p THEN s[from] ELSE r[j - 1]
    <2>1. PICK e \in Entry : e = s[from]
      BY <1>2
    <2>2. /\ InsertAt(r, p, e) \in Seq(Entry) /\ Len(InsertAt(r, p, e)) = Len(r) + 1
          /\ \A j \in 1..(Len(r) + 1) : InsertAt(r, p, e)[j] =
                IF j < p THEN r[j] ELSE IF j = p THEN e ELSE r[j - 1]
      <3>1. r \in Seq(Entry) /\ p \in 1..(Len(r) + 1)
        BY <1>1, <1>2
      <3>2. PICK rr \in Seq(Entry) : rr = r
        BY <3>1
      <3>3. PICK pp \in 1..(Len(rr) + 1) : pp = p
        BY <3>1, <3>2
      <3>4. /\ InsertAt(rr, pp, e) \in Seq(Entry) /\ Len(InsertAt(rr, pp, e)) = Len(rr) + 1
            /\ \A j \in 1..(Len(rr) + 1) : InsertAt(rr, pp, e)[j] =
                  IF j < pp THEN rr[j] ELSE IF j = pp THEN e ELSE rr[j - 1]
        BY InsertedAt
      <3> QED BY <3>2, <3>3, <3>4
    <2> QED BY <2>1, <2>2
  <1> HIDE DEF t
  <1>5. ASSUME NEW j \in DOMAIN t, NEW k \in DOMAIN t, t[j].id = t[k].id PROVE j = k
    <2>1. j \in 1..Len(s) /\ k \in 1..Len(s)
      BY <1>1, <1>4
    <2>0. \A n \in 1..(Len(r) + 1) : n # p =>
             \E m \in 1..Len(r) : t[n] = r[m] /\ m = IF n < p THEN n ELSE n - 1
      <3> SUFFICES ASSUME NEW n \in 1..(Len(r) + 1), n # p
                   PROVE  \E m \in 1..Len(r) : t[n] = r[m] /\ m = IF n < p THEN n ELSE n - 1
        OBVIOUS
      <3>1. CASE n < p
        BY <1>1, <1>2, <1>4, <3>1
      <3>2. CASE ~(n < p)
        <4>1. n - 1 \in 1..Len(r) /\ t[n] = r[n - 1]
          BY <1>1, <1>2, <1>4, <3>2
        <4> QED BY <3>2, <4>1
      <3> QED BY <3>1, <3>2
    <2>2. CASE j = p \/ k = p
      <3>1. \A n \in 1..(Len(r) + 1) : n # p => t[n].id # s[from].id
        <4> SUFFICES ASSUME NEW n \in 1..(Len(r) + 1), n # p PROVE t[n].id # s[from].id
          OBVIOUS
        <4>1. PICK m \in 1..Len(r) : t[n] = r[m]
          BY <2>0
        <4> QED BY <1>1, <1>3, <4>1
      <3>2. t[p] = s[from]
        BY <1>2, <1>4
      <3> QED BY <1>4, <1>5, <2>2, <3>1, <3>2
    <2>3. CASE j # p /\ k # p
      <3>1. PICK jj \in 1..Len(r) : t[j] = r[jj] /\ jj = IF j < p THEN j ELSE j - 1
        BY <1>4, <2>3, <2>0
      <3>2. PICK kk \in 1..Len(r) : t[k] = r[kk] /\ kk = IF k < p THEN k ELSE k - 1
        BY <1>4, <2>3, <2>0
      <3>3. jj = kk
        BY <1>1, <1>5, <3>1, <3>2 DEF Once
      <3> QED BY <1>2, <2>1, <2>3, <3>1, <3>2, <3>3
    <2> QED BY <2>2, <2>3
  <1> QED BY <1>4, <1>5 DEF Once, Moved, r, p, t

LEMMA SwappedOnce ==
  ASSUME NEW s \in Seq(Entry), Once(s), NEW i \in DOMAIN s, NEW j \in DOMAIN s
  PROVE  [s EXCEPT ![i] = s[j], ![j] = s[i]] \in Seq(Entry)
         /\ Once([s EXCEPT ![i] = s[j], ![j] = s[i]])
  <1> DEFINE t == [s EXCEPT ![i] = s[j], ![j] = s[i]]
  <1>1. t \in [1..Len(s) -> Entry] /\ DOMAIN s = 1..Len(s) /\ Len(s) \in Nat
    BY SequenceOf
  <1>2. t \in Seq(Entry) /\ DOMAIN t = 1..Len(s)
    <2> HIDE DEF t
    <2> QED BY <1>1, SequenceFrom
  <1>3. Once(t)
    BY <1>1 DEF Once
  <1> QED BY <1>2, <1>3

\* The order by initiative: each entry has its own number of entries ahead of
\* it, so that every place is somebody's.
LEMMA RanksAre ==
  ASSUME NEW s \in Seq(Entry)
  PROVE  LET rank(i) == Cardinality({j \in DOMAIN s : Ahead(s, j, i)})
         IN /\ \A k \in DOMAIN s : \E i \in DOMAIN s : rank(i) = k - 1
            /\ \A i, j \in DOMAIN s : rank(i) = rank(j) => i = j
  <1> DEFINE n == Len(s)
             ahead == [i \in 1..n |-> {j \in 1..n : Ahead(s, j, i)}]
             r == [i \in 1..n |-> Cardinality(ahead[i])]
  <1>1. n \in Nat /\ DOMAIN s = 1..n
    BY SequenceOf
  <1>2. \A i \in 1..n : s[i].initiative \in Nat
    <2>0. \A e \in Entry : e.initiative \in 0..MaxInitiative
      BY DEF Entry
    <2>1. \A i \in 1..n : s[i].initiative \in 0..MaxInitiative
      <3> HIDE DEF n
      <3> QED BY <1>1, <2>0, SequenceOf
    <2> QED BY <2>1, TrackerAssumption
  <1>3. \A i \in 1..n : IsFiniteSet(ahead[i]) /\ Cardinality(ahead[i]) \in 0..(n - 1)
    <2> SUFFICES ASSUME NEW i \in 1..n
                 PROVE  IsFiniteSet(ahead[i]) /\ Cardinality(ahead[i]) \in 0..(n - 1)
      OBVIOUS
    <2>1. ahead[i] \in SUBSET ((1..n) \ {i})
      BY <1>2 DEF Ahead
    <2>2. IsFiniteSet(1..n) /\ Cardinality(1..n) = n
      BY <1>1, FS_Interval
    <2>3. IsFiniteSet((1..n) \ {i}) /\ Cardinality((1..n) \ {i}) = n - 1
      BY <2>2, FS_RemoveElement
    <2>4. PICK A : A = ahead[i]
      OBVIOUS
    <2>5. IsFiniteSet(A) /\ Cardinality(A) <= n - 1 /\ Cardinality(A) \in Nat
      <3>1. A \in SUBSET ((1..n) \ {i})
        BY <2>1, <2>4
      <3>2. IsFiniteSet(A) /\ Cardinality(A) <= Cardinality((1..n) \ {i})
        BY <2>3, <3>1, FS_Subset
      <3> QED BY <2>3, <3>2, FS_CardinalityType
    <2> HIDE DEF ahead, n
    <2> QED BY <1>1, <2>4, <2>5
  <1>4. ASSUME NEW i \in 1..n, NEW j \in 1..n, Ahead(s, j, i) PROVE r[j] # r[i]
    <2>1. j \notin ahead[j] /\ j \in ahead[i]
      BY <1>2, <1>4 DEF Ahead
    <2>2. ahead[j] \subseteq ahead[i]
      <3> SUFFICES ASSUME NEW k \in 1..n, Ahead(s, k, j) PROVE Ahead(s, k, i)
        OBVIOUS
      <3>1. /\ s[i].initiative \in Nat /\ s[j].initiative \in Nat /\ s[k].initiative \in Nat
        BY <1>2
      <3> QED BY <1>4, <3>1 DEF Ahead
    <2>3. PICK A, B : A = ahead[j] /\ B = ahead[i]
      OBVIOUS
    <2>4. IsFiniteSet(B) /\ A \in SUBSET B /\ A # B
      BY <1>3, <2>1, <2>2, <2>3
    <2>5. Cardinality(A) # Cardinality(B)
      BY <2>4, FS_Subset
    <2> HIDE DEF ahead, n
    <2> QED BY <2>3, <2>5
  <1>5. \A i, j \in 1..n : i # j => Ahead(s, j, i) \/ Ahead(s, i, j)
    BY <1>2 DEF Ahead
  <1>6. \A i, j \in 1..n : r[i] = r[j] => i = j
    <2> HIDE DEF r, ahead
    <2> QED BY <1>4, <1>5
  <1>7. r \in [1..n -> 0..(n - 1)]
    <2> HIDE DEF ahead
    <2> QED BY <1>3
  <1>8. r \in Surjection(1..n, 0..(n - 1))
    <2> HIDE DEF r, n
    <2>1. r \in Injection(1..n, 0..(n - 1))
      BY <1>6, <1>7 DEF Injection, IsInjective
    <2>2. /\ IsFiniteSet(1..n) /\ Cardinality(1..n) = n
          /\ IsFiniteSet(0..(n - 1)) /\ Cardinality(0..(n - 1)) = n
      BY <1>1, FS_Interval
    <2> QED BY <2>1, <2>2, FS_Injection
  <1>9. \A i \in 1..n : r[i] = Cardinality({j \in DOMAIN s : Ahead(s, j, i)})
    BY <1>1
  <1> HIDE DEF r, n
  <1>10. \A k \in 1..n : \E i \in 1..n : r[i] = k - 1
    <2> SUFFICES ASSUME NEW k \in 1..n PROVE \E i \in 1..n : r[i] = k - 1
      OBVIOUS
    <2>1. k - 1 \in 0..(n - 1)
      BY <1>1
    <2> QED BY <1>8, <2>1 DEF Surjection
  <1> DEFINE rank(i) == Cardinality({j \in DOMAIN s : Ahead(s, j, i)})
  <1>11. \A i \in DOMAIN s : rank(i) = r[i]
    BY <1>1, <1>9
  <1> HIDE DEF rank
  <1>12. /\ \A k \in DOMAIN s : \E i \in DOMAIN s : rank(i) = k - 1
         /\ \A i, j \in DOMAIN s : rank(i) = rank(j) => i = j
    BY <1>1, <1>6, <1>10, <1>11
  <1> QED BY <1>12 DEF rank

LEMMA SortedOnce ==
  ASSUME NEW s \in Seq(Entry), Once(s)
  PROVE  Sorted(s) \in Seq(Entry) /\ Once(Sorted(s))
  <1> DEFINE rank(i) == Cardinality({j \in DOMAIN s : Ahead(s, j, i)})
             place == [k \in DOMAIN s |-> CHOOSE i \in DOMAIN s : rank(i) = k - 1]
             t == Sorted(s)
  <1>1. DOMAIN s = 1..Len(s) /\ Len(s) \in Nat /\ \A i \in DOMAIN s : s[i] \in Entry
    BY SequenceOf
  <1>2. t = [k \in DOMAIN s |-> s[place[k]]]
    BY DEF Sorted
  <1>3. \A k \in DOMAIN s : place[k] \in DOMAIN s /\ rank(place[k]) = k - 1
    <2> SUFFICES ASSUME NEW k \in DOMAIN s PROVE place[k] \in DOMAIN s /\ rank(place[k]) = k - 1
      OBVIOUS
    <2>1. \E i \in DOMAIN s : rank(i) = k - 1
      BY RanksAre
    <2> HIDE DEF rank
    <2> QED BY <2>1
  <1> HIDE DEF place, t, rank
  <1>4. t \in [1..Len(s) -> Entry] /\ DOMAIN t = DOMAIN s
    BY <1>1, <1>2, <1>3
  <1>5. \A k, m \in DOMAIN s : t[k].id = t[m].id => k = m
    <2> SUFFICES ASSUME NEW k \in DOMAIN s, NEW m \in DOMAIN s, t[k].id = t[m].id PROVE k = m
      OBVIOUS
    <2>1. place[k] = place[m]
      BY <1>2, <1>3 DEF Once
    <2>2. k - 1 = m - 1
      BY <1>3, <2>1
    <2> QED BY <1>1, <2>2
  <1>6. t \in Seq(Entry)
    BY <1>1, <1>4, SequenceFrom
  <1> QED BY <1>4, <1>5, <1>6 DEF t, Once

\* The requests and the rest of a step.
LEMMA PatchKeeps ==
  ASSUME TrackerInv, NEW q \in Patches, NEW g \in Patch, PatchHolds(g),
         patch' = [patch EXCEPT ![q] = g]
  PROVE  /\ patch' \in [Patches -> Patch]
         /\ \A p \in Patches : PatchHolds(patch'[p])
  BY DEF TrackerInv, TrackerTypeOK

LEMMA RosterKeeps ==
  ASSUME TrackerInv, NEW q \in Patches, NEW s \in Seq(Entry), Once(s),
         NEW op, Mutate(q, op, s)
  PROVE  TrackerInv'
  <1>1. /\ entries' = s /\ UNCHANGED running /\ patch' = [patch EXCEPT ![q] = NoPatch]
    BY DEF Mutate
  <1>2. /\ patch' \in [Patches -> Patch]
        /\ \A p \in Patches : PatchHolds(patch'[p])
    BY <1>1, NoPatchFits, PatchKeeps
  <1> QED BY <1>1, <1>2 DEF TrackerInv, TrackerTypeOK, SeatedOnce, Once, PatchHolds

LEMMA AskKeeps ==
  ASSUME TrackerInv, NEW q \in Patches, NEW u \in People, NEW m \in BOOLEAN, NEW asked \in Patch,
         PatchHolds(asked), UNCHANGED <<entries, running>>,
         patch' = [patch EXCEPT ![q] = [asked EXCEPT !.by = u, !.master = m]]
  PROVE  TrackerInv'
  <1> DEFINE g == [asked EXCEPT !.by = u, !.master = m]
  <1>1. g \in Patch
    BY DEF Patch
  <1>2. g.op = asked.op /\ g.id = asked.id /\ g.pool = asked.pool /\ g.n = asked.n
    BY DEF Patch
  <1>3. PatchHolds(g)
    <2> HIDE DEF g
    <2> QED BY <1>2 DEF PatchHolds
  <1> HIDE DEF g
  <1>4. /\ patch' \in [Patches -> Patch]
        /\ \A p \in Patches : PatchHolds(patch'[p])
    BY <1>1, <1>3, PatchKeeps DEF g
  <1> QED BY <1>4 DEF TrackerInv, TrackerTypeOK, SeatedOnce, PatchHolds

LEMMA AskMasterKeeps ==
  ASSUME TrackerInv, NEW q \in Patches, NEW u, NEW asked \in Patch, PatchHolds(asked),
         AskMaster(q, u, asked)
  PROVE  TrackerInv'
  <1>1. u \in People
    BY DEF AskMaster, TrackerInv, TrackerTypeOK, People
  <1> QED BY <1>1, AskKeeps DEF AskMaster

LEMMA AskPatchKeeps ==
  ASSUME TrackerInv, NEW q \in Patches, NEW u \in People, NEW asked \in Patch, PatchHolds(asked),
         AskPatch(q, u, asked)
  PROVE  TrackerInv'
  <1>0. (u \in running) \in BOOLEAN
    OBVIOUS
  <1>1. PICK m \in BOOLEAN : m = (u \in running)
    BY <1>0, Zenon
  <1>2. /\ UNCHANGED <<entries, running>>
        /\ patch' = [patch EXCEPT ![q] = [asked EXCEPT !.by = u, !.master = m]]
    BY <1>1 DEF AskPatch
  <1> QED BY <1>2, AskKeeps

LEMMA AsksKeep ==
  ASSUME TrackerInv, NEW q \in Patches, Asks(q)
  PROVE  TrackerInv'
  <1> USE NoPatchFits, TrackerAssumption
  <1>1. ASSUME NEW p \in Players PROVE [NoPatch EXCEPT !.op = "seat", !.id = p] \in Patch
                                       /\ PatchHolds([NoPatch EXCEPT !.op = "seat", !.id = p])
    BY DEF NoPatch, Patch, Operations, Ids, PatchHolds
  <1>2. ASSUME NEW m \in Monsters PROVE [NoPatch EXCEPT !.op = "monster", !.id = m] \in Patch
                                        /\ PatchHolds([NoPatch EXCEPT !.op = "monster", !.id = m])
    BY DEF NoPatch, Patch, Operations, Ids, PatchHolds
  <1>3. ASSUME NEW id \in Ids, NEW op \in {"delete", "up", "down"}
        PROVE  [NoPatch EXCEPT !.op = op, !.id = id] \in Patch
               /\ PatchHolds([NoPatch EXCEPT !.op = op, !.id = id])
    BY DEF NoPatch, Patch, Operations, PatchHolds
  <1>4. ASSUME NEW id \in Ids, NEW b \in Ids \cup {Nobody}
        PROVE  [NoPatch EXCEPT !.op = "move", !.id = id, !.before = b] \in Patch
               /\ PatchHolds([NoPatch EXCEPT !.op = "move", !.id = id, !.before = b])
    BY DEF NoPatch, Patch, Operations, PatchHolds
  <1>5. ASSUME NEW op \in {"long rest", "sort"}
        PROVE  [NoPatch EXCEPT !.op = op] \in Patch /\ PatchHolds([NoPatch EXCEPT !.op = op])
    BY DEF NoPatch, Patch, Operations, PatchHolds
  <1>6. ASSUME NEW R, R \subseteq Players \X Short
        PROVE  [NoPatch EXCEPT !.op = "short rest", !.restored = R] \in Patch
               /\ PatchHolds([NoPatch EXCEPT !.op = "short rest", !.restored = R])
    <2>1. R \in SUBSET (Players \X Pools)
      BY <1>6 DEF Pools
    <2> QED BY <2>1 DEF NoPatch, Patch, Operations, PatchHolds
  <1>7. ASSUME NEW p \in Players, NEW n \in 0..1
        PROVE  [NoPatch EXCEPT !.op = "lock", !.id = p, !.n = n] \in Patch
               /\ PatchHolds([NoPatch EXCEPT !.op = "lock", !.id = p, !.n = n])
    <2>1. n \in Nat /\ p \in Ids
      BY DEF Ids
    <2> QED BY <2>1 DEF NoPatch, Patch, Operations, PatchHolds
  <1>8. ASSUME NEW id \in Ids, NEW n \in 0..MaxInitiative
        PROVE  [NoPatch EXCEPT !.op = "initiative", !.id = id, !.n = n] \in Patch
               /\ PatchHolds([NoPatch EXCEPT !.op = "initiative", !.id = id, !.n = n])
    <2>1. n \in Nat
      OBVIOUS
    <2> QED BY <2>1 DEF NoPatch, Patch, Operations, PatchHolds
  <1>9. ASSUME NEW id \in Ids, NEW pool \in Pools, NEW n \in 0..MaxUses
        PROVE  [NoPatch EXCEPT !.op = "spend", !.id = id, !.pool = pool, !.n = n] \in Patch
               /\ PatchHolds([NoPatch EXCEPT !.op = "spend", !.id = id, !.pool = pool, !.n = n])
    <2>1. n \in Nat
      OBVIOUS
    <2> QED BY <2>1 DEF NoPatch, Patch, Operations, PatchHolds
  <1>10. CASE \E u \in Masters, p \in Players : AskMaster(q, u, [NoPatch EXCEPT !.op = "seat", !.id = p])
    BY <1>1, <1>10, AskMasterKeeps
  <1>11. CASE \E u \in Masters, m \in Monsters :
                 AskMaster(q, u, [NoPatch EXCEPT !.op = "monster", !.id = m])
    BY <1>2, <1>11, AskMasterKeeps
  <1>12. CASE \E u \in Masters, id \in Ids, op \in {"delete", "up", "down"} :
                 AskMaster(q, u, [NoPatch EXCEPT !.op = op, !.id = id])
    BY <1>3, <1>12, AskMasterKeeps
  <1>13. CASE \E u \in Masters, id \in Ids, b \in Ids \cup {Nobody} :
                 AskMaster(q, u, [NoPatch EXCEPT !.op = "move", !.id = id, !.before = b])
    BY <1>4, <1>13, AskMasterKeeps
  <1>14. CASE \E u \in Masters, op \in {"long rest", "sort"} : AskMaster(q, u, [NoPatch EXCEPT !.op = op])
    BY <1>5, <1>14, AskMasterKeeps
  <1>15. CASE \E u \in Masters : AskShortRest(q, u)
    <2>1. PICK u \in Masters : AskShortRest(q, u)
      BY <1>15
    <2>2. PICK R : R = {r \in (Listed \cap Players) \X Short : entries[PlaceOf(entries, r[1])].used[r[2]] > 0}
      OBVIOUS
    <2>3. R \subseteq Players \X Short
      BY <2>2
    <2>4. AskMaster(q, u, [NoPatch EXCEPT !.op = "short rest", !.restored = R])
      BY <2>1, <2>2 DEF AskShortRest
    <2> QED BY <1>6, <2>3, <2>4, AskMasterKeeps
  <1>16. CASE \E u \in Masters, p \in Players, n \in 0..1 :
                 AskMaster(q, u, [NoPatch EXCEPT !.op = "lock", !.id = p, !.n = n])
    BY <1>7, <1>16, AskMasterKeeps
  <1>17. CASE \E u \in People, id \in Ids, n \in 0..MaxInitiative :
                 AskPatch(q, u, [NoPatch EXCEPT !.op = "initiative", !.id = id, !.n = n])
    BY <1>8, <1>17, AskPatchKeeps
  <1>18. CASE \E u \in People, id \in Ids, pool \in Pools, n \in 0..MaxUses : AskSpend(q, u, id, pool, n)
    BY <1>9, <1>18, AskPatchKeeps DEF AskSpend
  <1> QED BY <1>10, <1>11, <1>12, <1>13, <1>14, <1>15, <1>16, <1>17, <1>18 DEF Asks

LEMMA SeatKeeps ==
  ASSUME TrackerInv, NEW q \in Patches, NEW op \in {"seat", "monster"},
         Mutate(q, op, Append(entries, NewEntry(patch[q].id))), patch[q].id \notin Listed
  PROVE  TrackerInv'
  <1>1. patch[q].id \in Ids /\ entries \in Seq(Entry) /\ Once(entries)
    BY DEF Mutate, TrackerInv, TrackerTypeOK, PatchHolds, SeatedOnce, Once
  <1>2. PICK e \in Entry : e = NewEntry(patch[q].id) /\ e.id = patch[q].id
    BY <1>1, NewEntryFits
  <1>3. Append(entries, e) \in Seq(Entry) /\ Once(Append(entries, e))
    BY <1>1, <1>2, AppendedOnce DEF Listed
  <1> QED BY <1>2, <1>3, RosterKeeps

LEMMA UsesOf == \A e \in Entry : /\ e.used \in [Pools -> 0..MaxUses] /\ e.initiative \in 0..MaxInitiative
                                 /\ e.locked \in BOOLEAN /\ e.id \in Ids
  BY DEF Entry

LEMMA ChangesOf ==
  ASSUME NEW e \in Entry
  PROVE  /\ \A u \in [Pools -> 0..MaxUses] :
               [e EXCEPT !.used = u] \in Entry /\ [e EXCEPT !.used = u].id = e.id
         /\ \A n \in 0..MaxInitiative :
               [e EXCEPT !.initiative = n] \in Entry /\ [e EXCEPT !.initiative = n].id = e.id
         /\ \A b \in BOOLEAN : [e EXCEPT !.locked = b] \in Entry /\ [e EXCEPT !.locked = b].id = e.id
  BY DEF Entry

LEMMA SpendKeeps ==
  ASSUME TrackerInv, NEW q \in Patches, Spend(q)
  PROVE  TrackerInv'
  <1> DEFINE i == PlaceOf(entries, patch[q].id)
  <1>1. /\ entries \in Seq(Entry) /\ Once(entries)
        /\ patch[q].op = "spend" /\ patch[q].id \in Listed
        /\ patch[q].pool \in Pools /\ patch[q].n \in 0..MaxUses
        /\ Mutate(q, "spend", [entries EXCEPT ![i].used[patch[q].pool] = patch[q].n])
    BY DEF Spend, Editable, Mutate, TrackerInv, TrackerTypeOK, PatchHolds, SeatedOnce, Once
  <1>2. PICK k \in DOMAIN entries : k = i
    BY <1>1, Placed DEF Listed
  <1>3. entries[k] \in Entry
    BY <1>1, SequenceOf
  <1>4. PICK pool \in Pools, n \in 0..MaxUses : pool = patch[q].pool /\ n = patch[q].n
    BY <1>1
  <1>5. PICK u : u = [entries[k].used EXCEPT ![pool] = n]
    OBVIOUS
  <1>6. u \in [Pools -> 0..MaxUses]
    BY <1>3, <1>5, UsesOf
  <1>7. PICK e \in Entry : e = [entries[k] EXCEPT !.used = u] /\ e.id = entries[k].id
    BY <1>3, <1>6, ChangesOf
  <1>8. [entries EXCEPT ![k].used[pool] = n] = [entries EXCEPT ![k] = e]
    <2>1. [entries EXCEPT ![k].used[pool] = n]
            = [entries EXCEPT ![k] = [entries[k] EXCEPT !.used = [entries[k].used EXCEPT ![pool] = n]]]
      BY <1>2
    <2> QED BY <1>5, <1>7, <2>1
  <1>9. [entries EXCEPT ![k] = e] \in Seq(Entry) /\ Once([entries EXCEPT ![k] = e])
    BY <1>1, <1>7, RewrittenAt
  <1>10. Mutate(q, "spend", [entries EXCEPT ![k] = e])
    BY <1>1, <1>2, <1>4, <1>8
  <1> QED BY <1>9, <1>10, RosterKeeps

LEMMA SetInitiativeKeeps ==
  ASSUME TrackerInv, NEW q \in Patches, SetInitiative(q)
  PROVE  TrackerInv'
  <1> DEFINE i == PlaceOf(entries, patch[q].id)
  <1>1. /\ entries \in Seq(Entry) /\ Once(entries)
        /\ patch[q].id \in Listed /\ patch[q].n \in 0..MaxInitiative
        /\ Mutate(q, "initiative", [entries EXCEPT ![i].initiative = patch[q].n])
    BY DEF SetInitiative, Editable, Mutate, TrackerInv, TrackerTypeOK, PatchHolds, SeatedOnce, Once
  <1>2. PICK k \in DOMAIN entries : k = i
    BY <1>1, Placed DEF Listed
  <1>3. entries[k] \in Entry
    BY <1>1, SequenceOf
  <1>4. PICK e \in Entry : e = [entries[k] EXCEPT !.initiative = patch[q].n] /\ e.id = entries[k].id
    BY <1>1, <1>3, ChangesOf
  <1>5. [entries EXCEPT ![k] = e] \in Seq(Entry) /\ Once([entries EXCEPT ![k] = e])
    BY <1>1, <1>4, RewrittenAt
  <1>6. [entries EXCEPT ![k].initiative = patch[q].n] = [entries EXCEPT ![k] = e]
    BY <1>2, <1>4
  <1>7. Mutate(q, "initiative", [entries EXCEPT ![k] = e])
    BY <1>1, <1>2, <1>6
  <1> QED BY <1>5, <1>7, RosterKeeps

LEMMA LockKeeps ==
  ASSUME TrackerInv, NEW q \in Patches, Lock(q)
  PROVE  TrackerInv'
  <1> DEFINE i == PlaceOf(entries, patch[q].id)
  <1>1. /\ entries \in Seq(Entry) /\ Once(entries) /\ patch[q].id \in Listed
        /\ Mutate(q, "lock", [entries EXCEPT ![i].locked = (patch[q].n = 1)])
    BY DEF Lock, TrackerInv, TrackerTypeOK, SeatedOnce, Once
  <1>2. PICK k \in DOMAIN entries : k = i
    BY <1>1, Placed DEF Listed
  <1>3. entries[k] \in Entry
    BY <1>1, SequenceOf
  <1>4. PICK b \in BOOLEAN : b = (patch[q].n = 1)
    OBVIOUS
  <1>5. PICK e \in Entry : e = [entries[k] EXCEPT !.locked = b] /\ e.id = entries[k].id
    BY <1>3, ChangesOf
  <1>6. [entries EXCEPT ![k] = e] \in Seq(Entry) /\ Once([entries EXCEPT ![k] = e])
    BY <1>1, <1>5, RewrittenAt
  <1>7. [entries EXCEPT ![k].locked = b] = [entries EXCEPT ![k] = e]
    BY <1>2, <1>5
  <1>8. Mutate(q, "lock", [entries EXCEPT ![k] = e])
    BY <1>1, <1>2, <1>4, <1>7
  <1> QED BY <1>6, <1>8, RosterKeeps

LEMMA RestsKeep ==
  ASSUME TrackerInv, NEW q \in Patches, NEW op, NEW used \in [DOMAIN entries -> [Pools -> 0..MaxUses]],
         Mutate(q, op, [i \in DOMAIN entries |-> [entries[i] EXCEPT !.used = used[i]]])
  PROVE  TrackerInv'
  <1>1. entries \in Seq(Entry) /\ Once(entries)
    BY DEF TrackerInv, TrackerTypeOK, SeatedOnce, Once
  <1>2. PICK t : t = [i \in DOMAIN entries |-> [entries[i] EXCEPT !.used = used[i]]]
    OBVIOUS
  <1>3. t \in [DOMAIN entries -> Entry] /\ \A i \in DOMAIN entries : t[i].id = entries[i].id
    <2>1. \A i \in DOMAIN entries : entries[i] \in Entry /\ used[i] \in [Pools -> 0..MaxUses]
      BY <1>1, SequenceOf
    <2>2. \A i \in DOMAIN entries : t[i] \in Entry /\ t[i].id = entries[i].id
      BY <1>2, <2>1, ChangesOf
    <2> QED BY <1>2, <2>2
  <1>4. t \in Seq(Entry) /\ Once(t)
    BY <1>1, <1>3, Rewritten
  <1> QED BY <1>2, <1>4, RosterKeeps

LEMMA LongRestKeeps ==
  ASSUME TrackerInv, NEW q \in Patches, LongRest(q)
  PROVE  TrackerInv'
  <1>1. PICK used : used = [i \in DOMAIN entries |-> [p \in Pools |-> 0]]
    OBVIOUS
  <1>2. used \in [DOMAIN entries -> [Pools -> 0..MaxUses]]
    BY <1>1, TrackerAssumption
  <1>3. Mutate(q, "long rest", [i \in DOMAIN entries |-> [entries[i] EXCEPT !.used = used[i]]])
    BY <1>1 DEF LongRest
  <1> QED BY <1>2, <1>3, RestsKeep

LEMMA ShortRestKeeps ==
  ASSUME TrackerInv, NEW q \in Patches, ShortRest(q)
  PROVE  TrackerInv'
  <1>1. PICK used : used = [i \in DOMAIN entries |->
           [p \in Pools |-> IF <<entries[i].id, p>> \in patch[q].restored THEN 0
                            ELSE entries[i].used[p]]]
    OBVIOUS
  <1>2. used \in [DOMAIN entries -> [Pools -> 0..MaxUses]]
    <2>1. \A i \in DOMAIN entries : entries[i].used \in [Pools -> 0..MaxUses]
      BY SequenceOf, UsesOf DEF TrackerInv, TrackerTypeOK
    <2> QED BY <1>1, <2>1, TrackerAssumption
  <1>3. Mutate(q, "short rest", [i \in DOMAIN entries |-> [entries[i] EXCEPT !.used = used[i]]])
    BY <1>1 DEF ShortRest
  <1> QED BY <1>2, <1>3, RestsKeep

LEMMA MoveKeeps ==
  ASSUME TrackerInv, NEW q \in Patches, Move(q)
  PROVE  TrackerInv'
  <1>1. entries \in Seq(Entry) /\ Once(entries)
    BY DEF TrackerInv, TrackerTypeOK, SeatedOnce, Once
  <1>2. CASE patch[q].id = patch[q].before
    BY <1>1, <1>2, RosterKeeps DEF Move
  <1>3. CASE patch[q].id # patch[q].before
    <2>1. PICK from \in 1..Len(entries) : from = PlaceOf(entries, patch[q].id)
      BY <1>1, Placed DEF Move, Listed
    <2>2. PICK to \in 1..(Len(entries) + 1) :
             to = IF patch[q].before = Nobody THEN Len(entries) + 1 ELSE PlaceOf(entries, patch[q].before)
      <3>1. CASE patch[q].before = Nobody
        BY <1>1, <3>1
      <3>2. CASE patch[q].before # Nobody
        <4>1. PlaceOf(entries, patch[q].before) \in 1..Len(entries)
          BY <1>1, <3>2, Placed DEF Move, Listed
        <4> QED BY <1>1, <3>2, <4>1
      <3> QED BY <3>1, <3>2
    <2>3. Mutate(q, "move", Moved(entries, from, to))
      BY <1>3, <2>1, <2>2 DEF Move
    <2>4. Moved(entries, from, to) \in Seq(Entry) /\ Once(Moved(entries, from, to))
      BY <1>1, MovedOnce
    <2> QED BY <2>3, <2>4, RosterKeeps
  <1> QED BY <1>2, <1>3

LEMMA StepKeeps ==
  ASSUME TrackerInv, NEW q \in Patches, NEW op, Step(q, op)
  PROVE  TrackerInv'
  <1> DEFINE i == PlaceOf(entries, patch[q].id)
             j == IF op = "up" THEN i - 1 ELSE i + 1
  <1>1. entries \in Seq(Entry) /\ Once(entries)
    BY DEF TrackerInv, TrackerTypeOK, SeatedOnce, Once
  <1>2. i \in DOMAIN entries
    BY <1>1, Placed DEF Step, Listed
  <1>3. CASE j \in DOMAIN entries
    <2>1. Mutate(q, op, [entries EXCEPT ![i] = entries[j], ![j] = entries[i]])
      BY <1>3 DEF Step
    <2>2. PICK ii \in DOMAIN entries, jj \in DOMAIN entries : ii = i /\ jj = j
      BY <1>2, <1>3
    <2> HIDE DEF i, j
    <2>3. Mutate(q, op, [entries EXCEPT ![ii] = entries[jj], ![jj] = entries[ii]])
      BY <2>1, <2>2
    <2> QED BY <1>1, <2>3, SwappedOnce, RosterKeeps
  <1>4. CASE j \notin DOMAIN entries
    BY <1>1, <1>4, RosterKeeps DEF Step
  <1> QED BY <1>3, <1>4

LEMMA TrackerStep ==
  TrackerInv /\ [TrackerNext]_trackerVars => TrackerInv'
  <1> SUFFICES ASSUME TrackerInv, [TrackerNext]_trackerVars PROVE TrackerInv'
    OBVIOUS
  <1>1. entries \in Seq(Entry) /\ Once(entries)
    BY DEF TrackerInv, TrackerTypeOK, SeatedOnce, Once
  <1>2. CASE UNCHANGED trackerVars
    BY <1>2 DEF trackerVars, TrackerInv, TrackerTypeOK, SeatedOnce, PatchHolds
  <1>3. ASSUME NEW u \in Masters, Rerank(u) PROVE TrackerInv'
    BY <1>3 DEF Rerank, TrackerInv, TrackerTypeOK, SeatedOnce, PatchHolds
  <1>4. ASSUME NEW q \in Patches, Asks(q) PROVE TrackerInv'
    BY <1>4, AsksKeep
  <1>5. ASSUME NEW q \in Patches, Changes(q) PROVE TrackerInv'
    <2>1. CASE Seat(q)
      BY <1>1, <2>1, SeatKeeps, RosterKeeps DEF Seat
    <2>2. CASE AddMonster(q)
      BY <2>2, SeatKeeps DEF AddMonster
    <2>3. CASE DeleteEntry(q)
      <3>1. PICK i \in 1..Len(entries) : i = PlaceOf(entries, patch[q].id)
        BY <1>1, <2>3, Placed DEF DeleteEntry, Listed
      <3>2. Mutate(q, "delete", RemoveAt(entries, i))
        BY <2>3, <3>1 DEF DeleteEntry
      <3> QED BY <1>1, <3>2, RemovedOnce, RosterKeeps
    <2>4. CASE Spend(q) \/ SetInitiative(q) \/ Lock(q) \/ LongRest(q) \/ ShortRest(q) \/ Move(q)
               \/ Step(q, "up") \/ Step(q, "down")
      BY <2>4, SpendKeeps, SetInitiativeKeeps, LockKeeps, LongRestKeeps, ShortRestKeeps, MoveKeeps,
         StepKeeps
    <2>5. CASE Sort(q)
      BY <1>1, <2>5, SortedOnce, RosterKeeps DEF Sort
    <2>6. CASE Drop(q)
      <3>1. /\ patch' \in [Patches -> Patch]
            /\ \A p \in Patches : PatchHolds(patch'[p])
        BY <2>6, NoPatchFits, PatchKeeps DEF Drop
      <3> QED BY <2>6, <3>1 DEF Drop, TrackerInv, TrackerTypeOK, SeatedOnce, PatchHolds
    <2> QED BY <1>5, <2>1, <2>2, <2>3, <2>4, <2>5, <2>6 DEF Changes
  <1> QED BY <1>2, <1>3, <1>4, <1>5 DEF TrackerNext

LEMMA TrackerBegins == TrackerInit => TrackerInv
  <1> SUFFICES ASSUME TrackerInit PROVE TrackerInv
    OBVIOUS
  <1>1. entries \in Seq(Entry) /\ SeatedOnce
    BY DEF TrackerInit, SeatedOnce
  <1> QED BY <1>1, NoPatchFits DEF TrackerInit, TrackerInv, TrackerTypeOK

LEMMA TrackerInductive == TrackerSpec => []TrackerInv
  BY TrackerBegins, TrackerStep, PTL DEF TrackerSpec

\* Whose request changes the roster in a step.
LEMMA ChangingIs ==
  ASSUME TrackerInv, [TrackerNext]_trackerVars, NEW q \in Patches, NEW op, Changing(q, op)
  PROVE  Changes(q) /\ ~Drop(q) /\ patch[q].op = op
  <1>1. PICK r \in Patches : Asks(r) \/ Changes(r)
    BY DEF TrackerNext, Changing, Rerank, trackerVars
  <1>2. entries' # entries /\ patch'[q] # patch[q] /\ patch[q].op = op
    BY DEF Changing
  <1>3. ~Asks(r)
    <2>1. ASSUME NEW u, NEW asked, AskMaster(r, u, asked) \/ AskPatch(r, u, asked) PROVE FALSE
      BY <1>2, <2>1 DEF AskMaster, AskPatch
    <2>2. ASSUME NEW u, AskShortRest(r, u) PROVE FALSE
      BY <2>1, <2>2 DEF AskShortRest
    <2>3. ASSUME NEW u, NEW id, NEW pool, NEW n, AskSpend(r, u, id, pool, n) PROVE FALSE
      BY <2>1, <2>3 DEF AskSpend
    <2> QED BY <2>1, <2>2, <2>3 DEF Asks
  <1>4. Changes(r) /\ ~Drop(r)
    BY <1>1, <1>2, <1>3 DEF Drop
  <1>5. \E change, o : Mutate(r, o, change)
    <2>1. CASE Step(r, "up") \/ Step(r, "down")
      BY <2>1 DEF Step
    <2>2. CASE Move(r)
      BY <2>2 DEF Move
    <2> QED BY <1>4, <2>1, <2>2 DEF Changes, Seat, AddMonster, DeleteEntry, Spend, SetInitiative, Lock,
               LongRest, ShortRest, Sort
  <1>6. r = q
    BY <1>2, <1>5 DEF Mutate, TrackerInv, TrackerTypeOK
  <1> QED BY <1>2, <1>4, <1>6

\* An entry that is locked is written to only by a request whose sender was
\* running the table when it was read (LockHolds, PatchEntry).
THEOREM LockHoldsAlways == TrackerSpec => LockHolds
  <1>1. TrackerInv /\ [TrackerNext]_trackerVars =>
          [\A q \in Patches, i \in DOMAIN entries :
              /\ entries[i].locked /\ patch[q].id = entries[i].id
              /\ Changing(q, "spend") \/ Changing(q, "initiative")
              => patch[q].master]_trackerVars
    <2> SUFFICES ASSUME TrackerInv, [TrackerNext]_trackerVars,
                        NEW q \in Patches, NEW i \in DOMAIN entries,
                        entries[i].locked, patch[q].id = entries[i].id,
                        NEW op \in {"spend", "initiative"}, Changing(q, op)
                 PROVE  patch[q].master
      OBVIOUS
    <2>1. Changes(q) /\ ~Drop(q) /\ patch[q].op = op
      BY ChangingIs
    <2>2. Spend(q) \/ SetInitiative(q)
      <3>1. \A o : (\E change : Mutate(q, o, change)) => o = op
        BY <2>1 DEF Mutate
      <3>2. ~Step(q, "up") /\ ~Step(q, "down")
        BY <3>1 DEF Step
      <3>3. ~Move(q)
        BY <3>1 DEF Move
      <3> QED BY <2>1, <3>1, <3>2, <3>3 DEF Changes, Seat, AddMonster, DeleteEntry, Lock,
                 LongRest, ShortRest, Sort
    <2>3. Editable(q)
      BY <2>2 DEF Spend, SetInitiative
    <2>4. entries \in Seq(Entry) /\ Once(entries)
      BY DEF TrackerInv, TrackerTypeOK, SeatedOnce, Once
    <2>5. PlaceOf(entries, patch[q].id) = i
      <3>1. PlaceOf(entries, patch[q].id) \in DOMAIN entries
            /\ entries[PlaceOf(entries, patch[q].id)].id = patch[q].id
        BY <2>3, <2>4, Placed DEF Editable, Listed
      <3> QED BY <2>4, <3>1 DEF Once
    <2> QED BY <2>3, <2>5 DEF Editable
  <1> QED BY <1>1, TrackerInductive, PTL DEF TrackerSpec, LockHolds

\* Taking out what was just put in.
LEMMA InsertedOut ==
  ASSUME NEW s \in Seq(Entry), NEW i \in 1..(Len(s) + 1), NEW e \in Entry
  PROVE  RemoveAt(InsertAt(s, i, e), i) = s
  <1>1. PICK t \in Seq(Entry) : /\ t = InsertAt(s, i, e) /\ Len(t) = Len(s) + 1
                                /\ \A j \in 1..(Len(s) + 1) :
                                      t[j] = IF j < i THEN s[j] ELSE IF j = i THEN e ELSE s[j - 1]
    BY InsertedAt
  <1>2. PICK r \in Seq(Entry) : /\ r = RemoveAt(t, i) /\ Len(r) = Len(t) - 1
                                /\ \A j \in 1..(Len(t) - 1) : r[j] = IF j < i THEN t[j] ELSE t[j + 1]
    <2>1. i \in 1..Len(t)
      BY <1>1
    <2>2. /\ RemoveAt(t, i) \in Seq(Entry) /\ Len(RemoveAt(t, i)) = Len(t) - 1
          /\ \A j \in 1..(Len(t) - 1) : RemoveAt(t, i)[j] = IF j < i THEN t[j] ELSE t[j + 1]
      BY <2>1, RemovedAt
    <2> QED BY <2>2
  <1>3. Len(s) \in Nat /\ Len(r) = Len(s)
    BY <1>1, <1>2
  <1>4. ASSUME NEW j \in 1..Len(s) PROVE r[j] = s[j]
    <2>1. CASE j < i
      BY <1>1, <1>2, <1>3, <2>1
    <2>2. CASE ~(j < i)
      <3>1. r[j] = t[j + 1] /\ t[j + 1] = s[j + 1 - 1]
        BY <1>1, <1>2, <1>3, <2>2
      <3> QED BY <3>1, <1>3
    <2> QED BY <2>1, <2>2
  <1>5. r = s
    BY <1>3, <1>4
  <1> QED BY <1>1, <1>2, <1>5

\* An entry that was listed once is found at the only place it is at.
LEMMA FoundAt ==
  ASSUME NEW s \in Seq(Entry), Once(s), NEW i \in DOMAIN s
  PROVE  PlaceOf(s, s[i].id) = i
  <1>1. PlaceOf(s, s[i].id) \in DOMAIN s /\ s[PlaceOf(s, s[i].id)].id = s[i].id
    BY Placed
  <1> QED BY <1>1 DEF Once

\* Where a move puts the entry, what it does to the others, and where that
\* leaves the one it was to precede.
LEMMA MovedGoes ==
  ASSUME NEW s \in Seq(Entry), Once(s), NEW from \in 1..Len(s), NEW to \in 1..(Len(s) + 1)
  PROVE  LET m == Moved(s, from, to)  id == s[from].id
         IN /\ Others(m, id) = Others(s, id)
            /\ to = Len(s) + 1 => m[Len(s)].id = id
            /\ to <= Len(s) /\ to # from => PlaceOf(m, s[to].id) = PlaceOf(m, id) + 1
  <1>1. PICK r \in Seq(Entry) : /\ r = RemoveAt(s, from) /\ Len(r) = Len(s) - 1
                                /\ \A j \in 1..(Len(s) - 1) : r[j] = IF j < from THEN s[j] ELSE s[j + 1]
    BY RemovedAt
  <1>2. Len(s) \in Nat /\ s[from] \in Entry
    BY SequenceOf
  <1>3. PICK p \in 1..(Len(r) + 1) : p = IF from < to THEN to - 1 ELSE to
    BY <1>1, <1>2
  <1>4. PICK e \in Entry : e = s[from]
    BY <1>2
  <1>5. PICK m \in Seq(Entry) : /\ m = InsertAt(r, p, e) /\ Len(m) = Len(r) + 1
                                /\ \A j \in 1..(Len(r) + 1) :
                                      m[j] = IF j < p THEN r[j] ELSE IF j = p THEN e ELSE r[j - 1]
    <2>1. /\ InsertAt(r, p, e) \in Seq(Entry) /\ Len(InsertAt(r, p, e)) = Len(r) + 1
          /\ \A j \in 1..(Len(r) + 1) : InsertAt(r, p, e)[j] =
                IF j < p THEN r[j] ELSE IF j = p THEN e ELSE r[j - 1]
      BY InsertedAt
    <2> QED BY <2>1
  <1>6. m = Moved(s, from, to)
    BY <1>1, <1>3, <1>4, <1>5 DEF Moved
  <1>7. Once(m)
    BY <1>6, MovedOnce
  <1>8. p \in DOMAIN m /\ DOMAIN m = 1..Len(s) /\ m[p] = e
    BY <1>1, <1>2, <1>5
  <1>9. PlaceOf(m, e.id) = p
    BY <1>7, <1>8, FoundAt
  <1>10. Others(m, e.id) = r
    BY <1>5, <1>9, InsertedOut DEF Others
  <1>11. Others(s, e.id) = r
    <2>1. PlaceOf(s, e.id) = from
      BY <1>2, <1>4, FoundAt
    <2> QED BY <1>1, <2>1 DEF Others
  <1>12. to = Len(s) + 1 => m[Len(s)].id = e.id
    BY <1>2, <1>3, <1>8
  <1>13. ASSUME to <= Len(s), to # from PROVE PlaceOf(m, s[to].id) = p + 1
    <2>1. CASE from < to
      <3>1. p = to - 1 /\ p + 1 \in 1..(Len(r) + 1) /\ p \in 1..(Len(s) - 1)
        BY <1>1, <1>2, <1>3, <1>13, <2>1
      <3>2. m[p + 1] = r[p + 1 - 1] /\ p + 1 - 1 = p
        BY <1>5, <3>1
      <3>3. r[p] = s[p + 1] /\ p + 1 = to
        BY <1>1, <1>2, <2>1, <3>1
      <3>4. p + 1 \in DOMAIN m /\ m[p + 1] = s[to]
        BY <1>1, <1>8, <3>1, <3>2, <3>3
      <3> QED BY <1>7, <3>4, FoundAt
    <2>2. CASE ~(from < to)
      <3>1. p = to /\ to < from /\ p + 1 \in 1..(Len(r) + 1) /\ p \in 1..(Len(s) - 1)
        BY <1>1, <1>2, <1>3, <1>13, <2>2
      <3>2. m[p + 1] = r[p + 1 - 1] /\ p + 1 - 1 = p
        BY <1>5, <3>1
      <3>3. r[p] = s[to]
        BY <1>1, <3>1
      <3>4. p + 1 \in DOMAIN m /\ m[p + 1] = s[to]
        BY <1>1, <1>8, <3>1, <3>2, <3>3
      <3> QED BY <1>7, <3>4, FoundAt
    <2> QED BY <2>1, <2>2
  <1> QED BY <1>4, <1>6, <1>9, <1>10, <1>11, <1>12, <1>13

\* A move puts one entry right before the one it was asked to precede, or at
\* the end, and leaves the others as they were (MovesOne, MoveEntryBefore).
THEOREM MovesOneAlways == TrackerSpec => MovesOne
  <1>1. TrackerInv /\ [TrackerNext]_trackerVars =>
          [\A q \in Patches : Changing(q, "move") =>
              /\ Others(entries', patch[q].id) = Others(entries, patch[q].id)
              /\ patch[q].before = Nobody => entries'[Len(entries)].id = patch[q].id
              /\ patch[q].before # Nobody =>
                    PlaceOf(entries', patch[q].before) = PlaceOf(entries', patch[q].id) + 1]_trackerVars
    <2> SUFFICES ASSUME TrackerInv, [TrackerNext]_trackerVars,
                        NEW q \in Patches, Changing(q, "move")
                 PROVE  /\ Others(entries', patch[q].id) = Others(entries, patch[q].id)
                        /\ patch[q].before = Nobody => entries'[Len(entries)].id = patch[q].id
                        /\ patch[q].before # Nobody =>
                              PlaceOf(entries', patch[q].before) = PlaceOf(entries', patch[q].id) + 1
      OBVIOUS
    <2>1. Changes(q) /\ ~Drop(q) /\ patch[q].op = "move" /\ entries' # entries
      BY ChangingIs DEF Changing
    <2>2. Move(q)
      <3>1. \A o : (\E change : Mutate(q, o, change)) => o = "move"
        BY <2>1 DEF Mutate
      <3>2. ~Step(q, "up") /\ ~Step(q, "down")
        BY <3>1 DEF Step
      <3> QED BY <2>1, <3>1, <3>2 DEF Changes, Seat, AddMonster, DeleteEntry, Lock,
                 LongRest, ShortRest, Sort, Spend, SetInitiative
    <2>3. entries \in Seq(Entry) /\ Once(entries)
      BY DEF TrackerInv, TrackerTypeOK, SeatedOnce, Once
    <2>4. patch[q].id # patch[q].before
      BY <2>1, <2>2 DEF Move, Mutate
    <2>5. PICK from \in 1..Len(entries) :
             from = PlaceOf(entries, patch[q].id) /\ entries[from].id = patch[q].id
      BY <2>2, <2>3, Placed DEF Move, Listed
    <2>6. CASE patch[q].before = Nobody
      <3>1. PICK to \in 1..(Len(entries) + 1) : to = Len(entries) + 1
        BY <2>3
      <3>2. entries' = Moved(entries, from, to)
        BY <2>2, <2>4, <2>5, <2>6, <3>1 DEF Move, Mutate
      <3> QED BY <2>3, <2>5, <2>6, <3>1, <3>2, MovedGoes
    <2>7. CASE patch[q].before # Nobody
      <3>1. PICK to \in 1..Len(entries) :
               to = PlaceOf(entries, patch[q].before) /\ entries[to].id = patch[q].before
        BY <2>2, <2>3, <2>7, Placed DEF Move, Listed
      <3>2. entries' = Moved(entries, from, to)
        BY <2>2, <2>4, <2>5, <2>7, <3>1 DEF Move, Mutate
      <3>3. to \in 1..(Len(entries) + 1) /\ to <= Len(entries) /\ to # from
        BY <2>3, <2>4, <2>5, <3>1
      <3> QED BY <2>3, <2>5, <2>7, <3>1, <3>2, <3>3, MovedGoes
    <2> QED BY <2>6, <2>7
  <1> QED BY <1>1, TrackerInductive, PTL DEF TrackerSpec, MovesOne

-----------------------------------------------------------------------------
(* Items changing hands: sums, as counts of marked items.                  *)

Pile(S, n) == UNION {{c} \X (1..n[c]) : c \in S}

LEMMA PileIs == \A S, n, x : x \in Pile(S, n) <=> \E c \in S : x \in {c} \X (1..n[c])
  BY DEF Pile

LEMMA HeapCounts ==
  ASSUME NEW c, NEW k \in Nat
  PROVE  IsFiniteSet({c} \X (1..k)) /\ Cardinality({c} \X (1..k)) = k
  <1>1. IsFiniteSet({c}) /\ Cardinality({c}) = 1
    BY FS_Singleton
  <1>2. IsFiniteSet(1..k) /\ Cardinality(1..k) = k
    BY FS_Interval
  <1>3. PICK A, B : A = {c} /\ B = 1..k
    OBVIOUS
  <1>4. IsFiniteSet(A \X B) /\ Cardinality(A \X B) = Cardinality(A) * Cardinality(B)
    BY <1>1, <1>2, <1>3, FS_Product
  <1>5. 1 * k = k
    OBVIOUS
  <1> QED BY <1>1, <1>2, <1>3, <1>4, <1>5

LEMMA PileFinite ==
  ASSUME NEW S, IsFiniteSet(S), NEW n \in [S -> Nat]
  PROVE  IsFiniteSet(Pile(S, n)) /\ Cardinality(Pile(S, n)) \in Nat
  <1> DEFINE f == [c \in S |-> {c} \X (1..n[c])]
             T == {f[c] : c \in S}
  <1>1. f \in Surjection(S, T)
    BY DEF Surjection
  <1>2. IsFiniteSet(T)
    <2> HIDE DEF f, T
    <2> QED BY <1>1, FS_Surjection
  <1>3. \A t \in T : IsFiniteSet(t)
    <2>1. \A c \in S : IsFiniteSet({c} \X (1..n[c]))
      BY HeapCounts
    <2> QED BY <2>1
  <1>4. Pile(S, n) = UNION T
    BY DEF Pile
  <1> HIDE DEF T, f
  <1>5. IsFiniteSet(UNION T)
    BY <1>2, <1>3, FS_UNION
  <1> QED BY <1>4, <1>5, FS_CardinalityType

LEMMA PileChanges ==
  ASSUME NEW S, IsFiniteSet(S), NEW n \in [S -> Nat], NEW m \in [S -> Nat], NEW c \in S,
         \A d \in S : d # c => m[d] = n[d]
  PROVE  Cardinality(Pile(S, m)) = Cardinality(Pile(S, n)) - n[c] + m[c]
  <1> DEFINE R == {x \in Pile(S, n) : x[1] # c}
  <1>1. ASSUME NEW k \in [S -> Nat], \A d \in S : d # c => k[d] = n[d]
        PROVE  Cardinality(Pile(S, k)) = Cardinality(R) + k[c] /\ Cardinality(R) \in Nat
    <2>1. PICK H : H = {c} \X (1..k[c])
      OBVIOUS
    <2>2. IsFiniteSet(H) /\ Cardinality(H) = k[c] /\ k[c] \in Nat
      BY <2>1, HeapCounts
    <2>3. R \in SUBSET Pile(S, n)
      OBVIOUS
    <2>4. IsFiniteSet(R)
      BY <2>3, PileFinite, FS_Subset
    <2>5. R \cap H = {}
      BY <2>1
    <2>6. Pile(S, k) = R \cup H
      <3>1. ASSUME NEW x \in Pile(S, k) PROVE x \in R \cup H
        <4>1. PICK d \in S : x \in {d} \X (1..k[d])
          BY PileIs
        <4>2. CASE d = c
          BY <2>1, <4>1, <4>2
        <4>3. CASE d # c
          <5>1. x \in {d} \X (1..n[d]) /\ x[1] # c
            BY <1>1, <4>1, <4>3
          <5> QED BY <5>1, PileIs
        <4> QED BY <4>2, <4>3
      <3>2. ASSUME NEW x \in R \cup H PROVE x \in Pile(S, k)
        <4>1. CASE x \in H
          BY <2>1, <4>1, PileIs
        <4>2. CASE x \in R
          <5>1. PICK d \in S : x \in {d} \X (1..n[d])
            BY <4>2, PileIs
          <5>2. x \in {d} \X (1..k[d])
            BY <1>1, <4>2, <5>1
          <5> QED BY <5>2, PileIs
        <4> QED BY <4>1, <4>2
      <3> QED BY <3>1, <3>2
    <2> HIDE DEF R
    <2>7. PICK A, B : A = R /\ B = H
      OBVIOUS
    <2>8. Cardinality(A \cup B) = Cardinality(A) + Cardinality(B) - Cardinality(A \cap B)
      BY <2>2, <2>4, <2>7, FS_Union
    <2>9. Cardinality(A \cap B) = 0
      BY <2>5, <2>7, FS_EmptySet
    <2>10. Cardinality(A) \in Nat
      BY <2>4, <2>7, FS_CardinalityType
    <2> QED BY <2>2, <2>6, <2>7, <2>8, <2>9, <2>10
  <1> HIDE DEF R
  <1>2. Cardinality(Pile(S, n)) = Cardinality(R) + n[c] /\ Cardinality(R) \in Nat
    BY <1>1
  <1>3. Cardinality(Pile(S, m)) = Cardinality(R) + m[c]
    BY <1>1
  <1>4. n[c] \in Nat /\ m[c] \in Nat
    OBVIOUS
  <1> QED BY <1>2, <1>3, <1>4

LEMMA PileSame ==
  ASSUME NEW S, NEW n, NEW m, \A d \in S : m[d] = n[d]
  PROVE  Pile(S, m) = Pile(S, n)
  <1>1. \A x : x \in Pile(S, m) <=> x \in Pile(S, n)
    BY PileIs
  <1> QED BY <1>1

\* What one request has between two sheets.
Carries(g) == IF g.act \in {"hand", "back"} THEN g.count ELSE 0

LEMMA InPlayIs ==
  ASSUME NEW bags \in [Characters -> Nat], NEW piles \in [Characters -> Nat]
  PROVE  \E h \in [Characters -> Nat] :
            /\ UNION {{c} \X (1..(bags[c] + piles[c])) : c \in Characters} = Pile(Characters, h)
            /\ \A c \in Characters : h[c] = bags[c] + piles[c]
  <1>1. PICK h : h = [c \in Characters |-> bags[c] + piles[c]]
    OBVIOUS
  <1>2. h \in [Characters -> Nat] /\ \A c \in Characters : h[c] = bags[c] + piles[c]
    BY <1>1
  <1>3. UNION {{c} \X (1..(bags[c] + piles[c])) : c \in Characters} = Pile(Characters, h)
    BY <1>2 DEF Pile
  <1> QED BY <1>2, <1>3

LEMMA CarriedIs ==
  ASSUME NEW gifts \in [Givers -> Gift]
  PROVE  \E b \in [Givers -> Nat] :
            /\ UNION {{q} \X (1..gifts[q].count) : q \in {r \in Givers : gifts[r].act \in {"hand", "back"}}}
                  = Pile(Givers, b)
            /\ \A q \in Givers : b[q] = Carries(gifts[q])
  <1>1. PICK b : b = [q \in Givers |-> Carries(gifts[q])]
    OBVIOUS
  <1>2. \A q \in Givers : gifts[q].count \in Nat
    BY DEF Gift
  <1>3. b \in [Givers -> Nat] /\ \A q \in Givers : b[q] = Carries(gifts[q])
    BY <1>1, <1>2 DEF Carries
  <1>4. UNION {{q} \X (1..gifts[q].count) : q \in {r \in Givers : gifts[r].act \in {"hand", "back"}}}
          = Pile(Givers, b)
    <2> DEFINE U == UNION {{q} \X (1..gifts[q].count) : q \in {r \in Givers : gifts[r].act \in {"hand", "back"}}}
    <2>1. ASSUME NEW x \in U PROVE x \in Pile(Givers, b)
      <3>1. PICK q \in Givers : gifts[q].act \in {"hand", "back"} /\ x \in {q} \X (1..gifts[q].count)
        BY <2>1
      <3>2. b[q] = gifts[q].count
        BY <1>3, <3>1 DEF Carries
      <3> QED BY <3>1, <3>2, PileIs
    <2>2. ASSUME NEW x \in Pile(Givers, b) PROVE x \in U
      <3>1. PICK q \in Givers : x \in {q} \X (1..b[q])
        BY PileIs
      <3>2. b[q] # 0
        BY <3>1
      <3>3. gifts[q].act \in {"hand", "back"} /\ b[q] = gifts[q].count
        BY <1>3, <3>2 DEF Carries
      <3> QED BY <3>1, <3>3
    <2> QED BY <2>1, <2>2
  <1> QED BY <1>3, <1>4

\* What is in play and carried after a write to one sheet, and to one request.
LEMMA SheetChanges ==
  ASSUME HandTypeOK, HandTypeOK', NEW c \in Characters,
         \A d \in Characters : d # c => backpack'[d] = backpack[d] /\ loot'[d] = loot[d]
  PROVE  /\ InPlay \in Nat /\ InPlay' \in Nat
         /\ InPlay' = InPlay - (backpack[c] + loot[c]) + (backpack'[c] + loot'[c])
  <1>1. PICK h \in [Characters -> Nat] : /\ InPlay = Cardinality(Pile(Characters, h))
                                         /\ \A d \in Characters : h[d] = backpack[d] + loot[d]
    <2>1. backpack \in [Characters -> Nat] /\ loot \in [Characters -> Nat]
      BY DEF HandTypeOK
    <2> QED BY <2>1, InPlayIs DEF InPlay
  <1>2. PICK k \in [Characters -> Nat] : /\ InPlay' = Cardinality(Pile(Characters, k))
                                         /\ \A d \in Characters : k[d] = backpack'[d] + loot'[d]
    <2>1. backpack' \in [Characters -> Nat] /\ loot' \in [Characters -> Nat]
      BY DEF HandTypeOK
    <2> QED BY <2>1, InPlayIs DEF InPlay
  <1>3. \A d \in Characters : d # c => k[d] = h[d]
    BY <1>1, <1>2
  <1>4. IsFiniteSet(Characters)
    BY HandOverAssumption
  <1>5. Cardinality(Pile(Characters, k)) = Cardinality(Pile(Characters, h)) - h[c] + k[c]
    BY <1>3, <1>4, PileChanges
  <1>6. Cardinality(Pile(Characters, h)) \in Nat /\ Cardinality(Pile(Characters, k)) \in Nat
    BY <1>4, PileFinite
  <1> QED BY <1>1, <1>2, <1>5, <1>6

LEMMA GiftChanges ==
  ASSUME HandTypeOK, HandTypeOK', NEW q \in Givers,
         \A p \in Givers : p # q => gift'[p] = gift[p]
  PROVE  /\ Carried \in Nat /\ Carried' \in Nat
         /\ Carried' = Carried - Carries(gift[q]) + Carries(gift'[q])
  <1>1. PICK h \in [Givers -> Nat] : /\ Carried = Cardinality(Pile(Givers, h))
                                     /\ \A p \in Givers : h[p] = Carries(gift[p])
    <2>1. gift \in [Givers -> Gift]
      BY DEF HandTypeOK
    <2> QED BY <2>1, CarriedIs DEF Carried
  <1>2. PICK k \in [Givers -> Nat] : /\ Carried' = Cardinality(Pile(Givers, k))
                                     /\ \A p \in Givers : k[p] = Carries(gift'[p])
    <2>1. gift' \in [Givers -> Gift]
      BY DEF HandTypeOK
    <2> QED BY <2>1, CarriedIs DEF Carried
  <1>3. \A p \in Givers : p # q => k[p] = h[p]
    BY <1>1, <1>2
  <1>4. IsFiniteSet(Givers)
    BY HandOverAssumption
  <1>5. Cardinality(Pile(Givers, k)) = Cardinality(Pile(Givers, h)) - h[q] + k[q]
    BY <1>3, <1>4, PileChanges
  <1>6. Cardinality(Pile(Givers, h)) \in Nat /\ Cardinality(Pile(Givers, k)) \in Nat
    BY <1>4, PileFinite
  <1> QED BY <1>1, <1>2, <1>5, <1>6

\* What a request holds: whom it is about, and, while no write came between,
\* that what it will write is what the sheet carries with the items taken from
\* it or added to it.
GiftHolds(q) ==
    LET g == gift[q]  w == Whose(g) IN
    /\ g.act \in {"take", "hand", "back", "strike"} => g.from \in Characters
    /\ g.act \in {"take", "hand", "back", "grant"} => g.to \in Characters
    /\ g.act = "idle" => ~g.read
    /\ q \in current => g.read
    /\ q \in current /\ g.act \in {"take", "strike"} =>
          g.bag + g.pile + g.count = backpack[w] + loot[w]
    /\ q \in current /\ g.act \in {"hand", "back", "grant"} =>
          g.bag + g.pile = backpack[w] + loot[w] + g.count

HandInv == HandTypeOK /\ \A q \in Givers : GiftHolds(q)

\* A request between its readings: it may hold anything but whom it is about.
Unread(g) ==
    /\ g \in Gift /\ ~g.read
    /\ g.act \in {"take", "hand", "back", "strike"} => g.from \in Characters
    /\ g.act \in {"take", "hand", "back", "grant"} => g.to \in Characters

LEMMA NoGiftFits == Unread(NoGift) /\ NoGift.act = "idle"
  BY DEF NoGift, Gift, Unread

LEMMA FollowFits ==
  ASSUME HandInv, NEW q \in Givers
  PROVE  Unread(After(gift[q])) /\ Unread(Failed(gift[q]))
  <1>1. PICK g \in Gift : g = gift[q]
    BY DEF HandInv, HandTypeOK
  <1>2. GiftHolds(q)
    BY DEF HandInv
  <1>3. ASSUME NEW act \in {"hand", "back"}, g.from \in Characters, g.to \in Characters
        PROVE  Unread([g EXCEPT !.act = act, !.read = FALSE])
    BY <1>3 DEF Unread, Gift
  <1>4. g.act \in {"take", "hand"} => g.from \in Characters /\ g.to \in Characters
    BY <1>1, <1>2 DEF GiftHolds
  <1>5. Unread(After(g))
    BY <1>3, <1>4, NoGiftFits DEF After
  <1>6. Unread(Failed(g))
    BY <1>3, <1>4, NoGiftFits DEF Failed
  <1> QED BY <1>1, <1>5, <1>6

\* A request that is being served is about a character.
LEMMA AboutOne ==
  ASSUME HandInv, NEW q \in Givers, gift[q].act # "idle"
  PROVE  Whose(gift[q]) \in Characters
  <1>1. gift[q].act \in {"take", "hand", "back", "grant", "strike"}
    BY DEF HandInv, HandTypeOK, Gift
  <1> QED BY <1>1 DEF HandInv, GiftHolds, Whose

LEMMA OthersHold ==
  ASSUME HandInv, NEW p \in Givers, gift'[p] = gift[p],
         p \in current' => /\ p \in current
                           /\ backpack'[Whose(gift[p])] = backpack[Whose(gift[p])]
                           /\ loot'[Whose(gift[p])] = loot[Whose(gift[p])]
  PROVE  GiftHolds(p)'
  <1>1. GiftHolds(p)
    BY DEF HandInv
  <1> QED BY <1>1 DEF GiftHolds, Whose

LEMMA UnreadHolds ==
  ASSUME NEW q \in Givers, Unread(gift'[q]), q \notin current'
  PROVE  GiftHolds(q)'
  BY DEF Unread, GiftHolds

\* A write to one sheet leaves what was read of the others.
LEMMA WriteLeaves ==
  ASSUME HandInv, NEW c \in Characters, current' = current \ Stale(c),
         \A d \in Characters : d # c => backpack'[d] = backpack[d] /\ loot'[d] = loot[d],
         NEW p \in Givers, gift'[p] = gift[p]
  PROVE  GiftHolds(p)'
  <1> SUFFICES ASSUME p \in current'
               PROVE  /\ p \in current
                      /\ backpack'[Whose(gift[p])] = backpack[Whose(gift[p])]
                      /\ loot'[Whose(gift[p])] = loot[Whose(gift[p])]
    BY OthersHold
  <1>1. p \in current /\ p \notin Stale(c)
    OBVIOUS
  <1>2. gift[p].read /\ gift[p].act # "idle"
    BY <1>1 DEF HandInv, GiftHolds
  <1>3. Whose(gift[p]) \in Characters /\ Whose(gift[p]) # c
    BY <1>1, <1>2, AboutOne DEF Stale
  <1> QED BY <1>1, <1>3

\* Requests change one at a time.
LEMMA OneGift ==
  ASSUME HandInv, NEW q \in Givers, NEW g, Unread(g), gift' = [gift EXCEPT ![q] = g]
  PROVE  /\ gift' \in [Givers -> Gift] /\ gift'[q] = g
         /\ \A p \in Givers : p # q => gift'[p] = gift[p]
  BY DEF HandInv, HandTypeOK, Unread

LEMMA AskFits ==
  ASSUME HandInv, NEW q \in Givers, NEW g, Unread(g), gift[q].act = "idle",
         gift' = [gift EXCEPT ![q] = g], fault' = "none",
         UNCHANGED <<backpack, loot, kept, knows, current>>
  PROVE  HandInv'
  <1>1. /\ gift' \in [Givers -> Gift] /\ gift'[q] = g
        /\ \A p \in Givers : p # q => gift'[p] = gift[p]
    BY OneGift
  <1>2. q \notin current
    BY DEF HandInv, GiftHolds
  <1>3. \A p \in Givers : GiftHolds(p)'
    <2> SUFFICES ASSUME NEW p \in Givers PROVE GiftHolds(p)'
      OBVIOUS
    <2>1. CASE p = q
      BY <1>1, <1>2, <2>1, UnreadHolds
    <2>2. CASE p # q
      BY <1>1, <2>2, OthersHold
    <2> QED BY <2>1, <2>2
  <1> QED BY <1>1, <1>3 DEF HandInv, HandTypeOK

LEMMA EndFits ==
  ASSUME HandInv, NEW q \in Givers, NEW g, Unread(g),
         gift' = [gift EXCEPT ![q] = g], current' = current \ {q},
         fault' \in {"none", "cut", "unanswered"}, UNCHANGED <<backpack, loot, kept, knows>>
  PROVE  HandInv'
  <1>1. /\ gift' \in [Givers -> Gift] /\ gift'[q] = g
        /\ \A p \in Givers : p # q => gift'[p] = gift[p]
    BY OneGift
  <1>2. \A p \in Givers : GiftHolds(p)'
    <2> SUFFICES ASSUME NEW p \in Givers PROVE GiftHolds(p)'
      OBVIOUS
    <2>1. CASE p = q
      BY <1>1, <2>1, UnreadHolds
    <2>2. CASE p # q
      BY <1>1, <2>2, OthersHold
    <2> QED BY <2>1, <2>2
  <1> QED BY <1>1, <1>2 DEF HandInv, HandTypeOK

LEMMA DecideFits ==
  ASSUME HandInv, NEW q \in Givers, Decide(q)
  PROVE  HandInv'
  <1>1. PICK g \in Gift : g = gift[q]
    BY DEF HandInv, HandTypeOK
  <1>2. PICK c \in Characters : c = Whose(g)
    BY <1>1, AboutOne DEF Decide
  <1>3. PICK a \in Nat, b \in Nat : a = backpack[c] /\ b = loot[c]
    BY DEF HandInv, HandTypeOK
  <1>4. g.count \in Nat /\ GiftHolds(q)
    BY DEF HandInv, Gift
  <1>5. CASE g.act \in {"take", "strike"}
    <2>1. a + b >= g.count /\ c = g.from
      BY <1>1, <1>2, <1>3, <1>5 DEF Decide, Whose
    <2>2. PICK bag \in Nat, pile \in Nat :
             /\ bag + pile + g.count = a + b
             /\ Take(g) = [g EXCEPT !.read = TRUE, !.bag = bag, !.pile = pile]
      <3>1. CASE a < g.count
        <4>1. Take(g) = [g EXCEPT !.read = TRUE, !.bag = a - a, !.pile = b - (g.count - a)]
          BY <1>3, <2>1, <3>1 DEF Take
        <4>2. a - a \in Nat /\ b - (g.count - a) \in Nat
              /\ (a - a) + (b - (g.count - a)) + g.count = a + b
          BY <1>4, <2>1, <3>1
        <4> QED BY <4>1, <4>2
      <3>2. CASE ~(a < g.count)
        <4>1. Take(g) = [g EXCEPT !.read = TRUE, !.bag = a - g.count, !.pile = b - (g.count - g.count)]
          BY <1>3, <2>1, <3>2 DEF Take
        <4>2. a - g.count \in Nat /\ b - (g.count - g.count) \in Nat
              /\ (a - g.count) + (b - (g.count - g.count)) + g.count = a + b
          BY <1>4, <3>2
        <4> QED BY <4>1, <4>2
      <3> QED BY <3>1, <3>2
    <2>3. PICK h : h = [g EXCEPT !.read = TRUE, !.bag = bag, !.pile = pile]
      OBVIOUS
    <2>4. /\ h \in Gift /\ h.read /\ h.act = g.act /\ h.from = g.from /\ h.to = g.to
          /\ h.count = g.count /\ h.bag = bag /\ h.pile = pile
      BY <2>3 DEF Gift
    <2>5. gift' = [gift EXCEPT ![q] = h]
      BY <1>1, <1>5, <2>2, <2>3 DEF Decide
    <2>6. gift' \in [Givers -> Gift] /\ gift'[q] = h /\ \A p \in Givers : p # q => gift'[p] = gift[p]
      BY <2>4, <2>5 DEF HandInv, HandTypeOK
    <2>7. GiftHolds(q)'
      <3>1. Whose(h) = c
        BY <1>5, <2>1, <2>4 DEF Whose
      <3>2. backpack'[c] = a /\ loot'[c] = b
        BY <1>3 DEF Decide
      <3> QED BY <1>1, <1>4, <1>5, <2>2, <2>4, <2>6, <3>1, <3>2 DEF GiftHolds, Whose
    <2>8. \A p \in Givers : p # q => GiftHolds(p)'
      BY <2>6, OthersHold DEF Decide
    <2> QED BY <2>6, <2>7, <2>8 DEF Decide, HandInv, HandTypeOK
  <1>6. CASE g.act \notin {"take", "strike"}
    <2>1. g.act \in {"hand", "back", "grant"}
      BY <1>1, <1>6 DEF Decide, Gift
    <2>2. PICK h : h = [g EXCEPT !.read = TRUE, !.bag = a + g.count, !.pile = b]
      OBVIOUS
    <2>3. Receive(g) = h
      BY <1>2, <1>3, <2>2 DEF Receive
    <2>4. /\ h \in Gift /\ h.read /\ h.act = g.act /\ h.from = g.from /\ h.to = g.to
          /\ h.count = g.count /\ h.bag = a + g.count /\ h.pile = b
      <3>1. PICK n \in Nat : n = a + g.count
        BY <1>4
      <3>2. h = [g EXCEPT !.read = TRUE, !.bag = n, !.pile = b]
        BY <2>2, <3>1
      <3> QED BY <3>1, <3>2 DEF Gift
    <2>5. gift' = [gift EXCEPT ![q] = h]
      BY <1>1, <1>6, <2>3 DEF Decide
    <2>6. gift' \in [Givers -> Gift] /\ gift'[q] = h /\ \A p \in Givers : p # q => gift'[p] = gift[p]
      BY <2>4, <2>5 DEF HandInv, HandTypeOK
    <2>7. GiftHolds(q)'
      <3>1. Whose(h) = c
        BY <1>2, <2>4 DEF Whose
      <3>2. backpack'[c] = a /\ loot'[c] = b
        BY <1>3 DEF Decide
      <3>3. a + g.count + b = a + b + g.count
        BY <1>4
      <3> QED BY <1>1, <1>4, <2>1, <2>4, <2>6, <3>1, <3>2, <3>3 DEF GiftHolds, Whose
    <2>8. \A p \in Givers : p # q => GiftHolds(p)'
      BY <2>6, OthersHold DEF Decide
    <2> QED BY <2>6, <2>7, <2>8 DEF Decide, HandInv, HandTypeOK
  <1> QED BY <1>5, <1>6

LEMMA WriteFits ==
  ASSUME HandInv, NEW q \in Givers, Write(q), NEW g, Unread(g),
         gift' = [gift EXCEPT ![q] = g], fault' \in {"none", "unanswered"}, UNCHANGED <<kept, knows>>
  PROVE  HandInv'
  <1>1. /\ gift' \in [Givers -> Gift] /\ gift'[q] = g
        /\ \A p \in Givers : p # q => gift'[p] = gift[p]
    BY OneGift
  <1>2. PICK c \in Characters : /\ c = Whose(gift[q])
                                /\ backpack' = [backpack EXCEPT ![c] = gift[q].bag]
                                /\ loot' = [loot EXCEPT ![c] = gift[q].pile]
                                /\ current' = current \ Stale(c)
    BY DEF Write, HandInv, HandTypeOK
  <1>3. gift[q].bag \in Nat /\ gift[q].pile \in Nat
    BY DEF HandInv, HandTypeOK, Gift
  <1>4. q \notin current'
    BY <1>2 DEF Write, Stale
  <1>5. \A p \in Givers : GiftHolds(p)'
    <2>1. GiftHolds(q)'
      BY <1>1, <1>4, UnreadHolds
    <2>2. \A d \in Characters : d # c => backpack'[d] = backpack[d] /\ loot'[d] = loot[d]
      BY <1>2 DEF HandInv, HandTypeOK
    <2>3. \A p \in Givers : p # q => GiftHolds(p)'
      BY <1>1, <1>2, <2>2, WriteLeaves
    <2> QED BY <2>1, <2>3
  <1> QED BY <1>1, <1>2, <1>3, <1>5 DEF HandInv, HandTypeOK

LEMMA OwnerFits ==
  ASSUME HandInv, NEW c \in Characters,
         Forget(c) \/ ChooseRules(c) \/ \E n \in 0..MaxHeld : Edit(c, n)
  PROVE  HandInv'
  <1>1. /\ current' = current \ Stale(c) /\ UNCHANGED gift /\ fault' = "none"
        /\ \A d \in Characters : d # c => backpack'[d] = backpack[d] /\ loot'[d] = loot[d]
    BY DEF Forget, ChooseRules, Edit, HandInv, HandTypeOK
  <1>2. \A p \in Givers : GiftHolds(p)'
    BY <1>1, WriteLeaves
  <1>3. /\ backpack' \in [Characters -> Nat] /\ loot' \in [Characters -> Nat]
        /\ kept' \subseteq Characters /\ knows' \subseteq Characters
    <2>1. \A n \in 0..MaxHeld : n \in Nat
      OBVIOUS
    <2> QED BY <2>1 DEF Forget, ChooseRules, Edit, HandInv, HandTypeOK
  <1> QED BY <1>1, <1>2, <1>3 DEF HandInv, HandTypeOK

LEMMA HandStep ==
  HandInv /\ [HandNext]_handVars => HandInv'
  <1> SUFFICES ASSUME HandInv, [HandNext]_handVars PROVE HandInv'
    OBVIOUS
  <1>1. CASE UNCHANGED handVars
    BY <1>1 DEF handVars, HandInv, HandTypeOK, GiftHolds, Whose
  <1>2. ASSUME NEW q \in Givers, NEW from \in Characters, NEW to \in Characters, NEW n \in 1..2,
               AskGive(q, from, to, n)
        PROVE  HandInv'
    <2>1. PICK g : g = [NoGift EXCEPT !.act = "take", !.from = from, !.to = to, !.count = n]
      OBVIOUS
    <2>2. Unread(g)
      <3>1. n \in Nat
        OBVIOUS
      <3> QED BY <2>1, <3>1 DEF Unread, NoGift, Gift
    <2> QED BY <1>2, <2>1, <2>2, AskFits DEF AskGive
  <1>3. ASSUME NEW q \in Givers, NEW c \in Characters, NEW act \in {"grant", "strike"},
               AskGrant(q, c, act, 1)
        PROVE  HandInv'
    <2>1. PICK g : g = [NoGift EXCEPT !.act = act, !.count = 1,
                           !.from = IF act = "strike" THEN c ELSE NoOne,
                           !.to = IF act = "grant" THEN c ELSE NoOne]
      OBVIOUS
    <2>2. Unread(g)
      BY <2>1 DEF Unread, NoGift, Gift
    <2> QED BY <1>3, <2>1, <2>2, AskFits DEF AskGrant
  <1>4. ASSUME NEW q \in Givers, Decide(q) PROVE HandInv'
    BY <1>4, DecideFits
  <1>5. ASSUME NEW q \in Givers, Commit(q) \/ CommitUnanswered(q) PROVE HandInv'
    BY <1>5, FollowFits, WriteFits DEF Commit, CommitUnanswered
  <1>6. ASSUME NEW q \in Givers, Refuse(q) PROVE HandInv'
    BY <1>6, FollowFits, EndFits DEF Refuse
  <1>7. ASSUME NEW q \in Givers, Cut(q) PROVE HandInv'
    BY <1>7, FollowFits, NoGiftFits, EndFits DEF Cut
  <1>8. ASSUME NEW c \in Characters, Forget(c) \/ ChooseRules(c) \/ \E n \in 0..MaxHeld : Edit(c, n)
        PROVE  HandInv'
    BY <1>8, OwnerFits
  <1> QED BY <1>1, <1>2, <1>3, <1>4, <1>5, <1>6, <1>7, <1>8 DEF HandNext

LEMMA HandBegins == HandInit => HandInv
  <1> SUFFICES ASSUME HandInit PROVE HandInv
    OBVIOUS
  <1>1. HandTypeOK
    BY NoGiftFits DEF HandInit, HandTypeOK, Unread
  <1>2. \A q \in Givers : gift[q] = NoGift /\ q \notin current
    BY DEF HandInit
  <1>3. \A q \in Givers : GiftHolds(q)
    BY <1>2, NoGiftFits DEF GiftHolds, Unread
  <1> QED BY <1>1, <1>3 DEF HandInv

LEMMA HandInductive == HandSpec => []HandInv
  BY HandBegins, HandStep, PTL DEF HandSpec

\* The two sums over a step: what a commit takes from a sheet it puts between
\* two, what it adds to a sheet it takes from there, and nothing else but a
\* grant, an owner's hand, a crash or a refused give-back moves either.
LEMMA Moves ==
  ASSUME HandInv, [HandNext]_handVars
  PROVE  \/ UNCHANGED gift
         \/ InPlay' + Carried' = InPlay + Carried
         \/ InPlay' + Carried' > InPlay + Carried /\ (Dealt("grant") \/ fault' = "unanswered")
         \/ InPlay' + Carried' < InPlay + Carried /\ (Dealt("strike") \/ fault' # "none")
         \/ fault' = "unanswered"
  <1>0. HandInv'
    BY HandStep
  <1>1. HandTypeOK /\ HandTypeOK'
    BY <1>0 DEF HandInv
  <1>2. CASE UNCHANGED handVars
    BY <1>2 DEF handVars
  <1>3. ASSUME NEW c \in Characters, Forget(c) \/ ChooseRules(c) \/ \E n \in 0..MaxHeld : Edit(c, n)
        PROVE  UNCHANGED gift
    BY <1>3 DEF Forget, ChooseRules, Edit
  \* Steps that write no sheet.
  <1>4. ASSUME NEW q \in Givers, \A p \in Givers : p # q => gift'[p] = gift[p],
               UNCHANGED <<backpack, loot>>
        PROVE  /\ InPlay' = InPlay /\ InPlay \in Nat /\ Carried \in Nat /\ Carried' \in Nat
               /\ Carried' = Carried - Carries(gift[q]) + Carries(gift'[q])
    <2>1. /\ Carried \in Nat /\ Carried' \in Nat
          /\ Carried' = Carried - Carries(gift[q]) + Carries(gift'[q])
      BY <1>1, <1>4, GiftChanges
    <2>2. InPlay' = InPlay
      BY <1>4 DEF InPlay
    <2>3. InPlay \in Nat
      <3>1. PICK h \in [Characters -> Nat] : InPlay = Cardinality(Pile(Characters, h))
        <4>1. backpack \in [Characters -> Nat] /\ loot \in [Characters -> Nat]
          BY <1>1 DEF HandTypeOK
        <4> QED BY <4>1, InPlayIs DEF InPlay
      <3> QED BY <3>1, HandOverAssumption, PileFinite
    <2> QED BY <2>1, <2>2, <2>3
  <1>5. ASSUME NEW q \in Givers, gift' \in [Givers -> Gift], gift[q].act = "idle",
               gift'[q].act \in {"take", "grant", "strike"},
               \A p \in Givers : p # q => gift'[p] = gift[p], UNCHANGED <<backpack, loot>>
        PROVE  InPlay' + Carried' = InPlay + Carried
    <2>1. Carries(gift[q]) = 0 /\ Carries(gift'[q]) = 0
      BY <1>5 DEF Carries
    <2> QED BY <1>4, <1>5, <2>1
  <1>6. ASSUME NEW q \in Givers, NEW from, NEW to, NEW n, AskGive(q, from, to, n)
        PROVE  InPlay' + Carried' = InPlay + Carried
    <2>1. gift'[q].act = "take" /\ \A p \in Givers : p # q => gift'[p] = gift[p]
      BY <1>1, <1>6 DEF AskGive, HandTypeOK, NoGift
    <2> QED BY <1>1, <1>5, <1>6, <2>1 DEF AskGive, HandTypeOK
  <1>7. ASSUME NEW q \in Givers, NEW c, NEW act \in {"grant", "strike"}, NEW n, AskGrant(q, c, act, n)
        PROVE  InPlay' + Carried' = InPlay + Carried
    <2>1. gift'[q].act = act /\ \A p \in Givers : p # q => gift'[p] = gift[p]
      BY <1>1, <1>7 DEF AskGrant, HandTypeOK, NoGift
    <2> QED BY <1>1, <1>5, <1>7, <2>1 DEF AskGrant, HandTypeOK
  <1>8. ASSUME NEW q \in Givers, Decide(q) PROVE InPlay' + Carried' = InPlay + Carried
    <2>1. PICK g \in Gift : g = gift[q]
      BY <1>1 DEF HandTypeOK
    <2>2. gift'[q].act = g.act /\ gift'[q].count = g.count
      BY <1>1, <1>8, <2>1 DEF Decide, Take, Receive, HandTypeOK, Gift
    <2>3. Carries(gift'[q]) = Carries(gift[q]) /\ Carries(gift[q]) \in Nat
      BY <2>1, <2>2 DEF Carries, Gift
    <2>4. \A p \in Givers : p # q => gift'[p] = gift[p]
      BY <1>1, <1>8 DEF Decide, HandTypeOK
    <2> QED BY <1>4, <1>8, <2>3, <2>4 DEF Decide
  <1>9. ASSUME NEW q \in Givers, Commit(q)
        PROVE  \/ InPlay' + Carried' = InPlay + Carried
               \/ InPlay' + Carried' > InPlay + Carried /\ Dealt("grant")
               \/ InPlay' + Carried' < InPlay + Carried /\ Dealt("strike")
    <2>1. PICK g \in Gift : g = gift[q] /\ g.read /\ g.act # "idle" /\ q \in current
      BY <1>1, <1>9 DEF HandInv, HandTypeOK, GiftHolds, Commit, Write
    <2>2. PICK c \in Characters : c = Whose(g)
      BY <2>1, AboutOne
    <2>3. /\ backpack'[c] = g.bag /\ loot'[c] = g.pile
          /\ \A d \in Characters : d # c => backpack'[d] = backpack[d] /\ loot'[d] = loot[d]
          /\ gift'[q] = After(g) /\ \A p \in Givers : p # q => gift'[p] = gift[p]
      BY <1>1, <1>9, <2>1, <2>2 DEF Commit, Write, HandTypeOK
    <2>4. /\ InPlay \in Nat /\ InPlay' \in Nat
          /\ InPlay' = InPlay - (backpack[c] + loot[c]) + (g.bag + g.pile)
      BY <1>1, <2>3, SheetChanges
    <2>5. /\ Carried \in Nat /\ Carried' \in Nat
          /\ Carried' = Carried - Carries(g) + Carries(After(g))
      BY <1>1, <2>1, <2>3, GiftChanges
    <2>6. PICK a \in Nat, b \in Nat : a = backpack[c] /\ b = loot[c]
      BY <1>1 DEF HandTypeOK
    <2>7. /\ g.act \in {"take", "strike"} => g.bag + g.pile + g.count = a + b
          /\ g.act \in {"hand", "back", "grant"} => g.bag + g.pile = a + b + g.count
          /\ g.bag \in Nat /\ g.pile \in Nat /\ g.count \in Nat
      BY <2>1, <2>2, <2>6 DEF HandInv, GiftHolds, Gift
    <2>8. g.act \in {"take", "hand", "back", "grant", "strike"}
      BY <2>1 DEF Gift
    <2>9. CASE g.act = "take"
      <3>1. Carries(g) = 0 /\ Carries(After(g)) = g.count
        BY <2>9 DEF Carries, After, Gift
      <3> QED BY <2>4, <2>5, <2>6, <2>7, <2>9, <3>1
    <2>10. CASE g.act \in {"hand", "back"}
      <3>1. Carries(g) = g.count /\ Carries(After(g)) = 0
        BY <2>10 DEF Carries, After, NoGift
      <3> QED BY <2>4, <2>5, <2>6, <2>7, <2>10, <3>1
    <2>11. CASE g.act \in {"grant", "strike"}
      <3>1. Carries(g) = 0 /\ Carries(After(g)) = 0 /\ After(g).act = "idle"
        BY <2>11 DEF Carries, After, NoGift
      <3>2. Dealt(g.act)
        BY <2>1, <2>3, <3>1 DEF Dealt
      <3>3. CASE g.act = "grant"
        <4>1. InPlay' = InPlay + g.count /\ Carried' = Carried
          BY <2>4, <2>5, <2>6, <2>7, <3>1, <3>3
        <4> QED BY <2>4, <2>5, <2>7, <3>2, <3>3, <4>1
      <3>4. CASE g.act = "strike"
        <4>1. InPlay' = InPlay - g.count /\ Carried' = Carried
          BY <2>4, <2>5, <2>6, <2>7, <3>1, <3>4
        <4> QED BY <2>4, <2>5, <2>7, <3>2, <3>4, <4>1
      <3> QED BY <2>11, <3>3, <3>4
    <2> QED BY <2>8, <2>9, <2>10, <2>11
  <1>10. ASSUME NEW q \in Givers, NEW g \in {Failed(gift[q]), NoGift}, gift' = [gift EXCEPT ![q] = g],
                UNCHANGED <<backpack, loot>>
         PROVE  /\ InPlay' + Carried' <= InPlay + Carried
                /\ gift[q].act # "back" /\ g = Failed(gift[q]) => InPlay' + Carried' = InPlay + Carried
                /\ InPlay' + Carried' \in Nat /\ InPlay + Carried \in Nat
    <2>1. PICK o \in Gift : o = gift[q]
      BY <1>1 DEF HandTypeOK
    <2>2. gift'[q] = g /\ \A p \in Givers : p # q => gift'[p] = gift[p]
      BY <1>1, <1>10 DEF HandTypeOK
    <2>3. /\ InPlay' = InPlay /\ InPlay \in Nat /\ Carried \in Nat /\ Carried' \in Nat
          /\ Carried' = Carried - Carries(o) + Carries(g)
      BY <1>4, <1>10, <2>1, <2>2
    <2>4. /\ Carries(o) \in Nat /\ Carries(g) \in Nat /\ Carries(g) <= Carries(o)
          /\ o.act # "back" /\ g = Failed(o) => Carries(g) = Carries(o)
      <3>1. o.count \in Nat
        BY DEF Gift
      <3>2. Carries(NoGift) = 0
        BY DEF Carries, NoGift
      <3>3. CASE o.act = "hand"
        <4>1. Carries(Failed(o)) = o.count /\ Carries(o) = o.count
          BY <3>3 DEF Failed, Carries, Gift
        <4> QED BY <1>10, <2>1, <3>1, <3>2, <4>1
      <3>4. CASE o.act # "hand"
        <4>1. Failed(o) = NoGift /\ (o.act # "back" => Carries(o) = 0) /\ Carries(o) \in Nat
          BY <3>1, <3>4 DEF Failed, Carries
        <4> QED BY <1>10, <2>1, <3>2, <4>1
      <3> QED BY <3>3, <3>4
    <2> QED BY <2>1, <2>3, <2>4
  <1>11. ASSUME NEW q \in Givers, Refuse(q)
         PROVE  \/ InPlay' + Carried' = InPlay + Carried
                \/ InPlay' + Carried' < InPlay + Carried /\ fault' # "none"
    <2>1. /\ gift' = [gift EXCEPT ![q] = Failed(gift[q])] /\ UNCHANGED <<backpack, loot>>
          /\ gift[q].act = "back" => fault' = "cut"
      BY <1>11 DEF Refuse
    <2>2. /\ InPlay' + Carried' <= InPlay + Carried
          /\ gift[q].act # "back" => InPlay' + Carried' = InPlay + Carried
          /\ InPlay' + Carried' \in Nat /\ InPlay + Carried \in Nat
      BY <1>10, <2>1
    <2>3. PICK n \in Nat, m \in Nat : n = InPlay + Carried /\ m = InPlay' + Carried'
      BY <2>2
    <2>4. m = n \/ (m < n /\ gift[q].act = "back")
      BY <2>2, <2>3
    <2> QED BY <2>1, <2>3, <2>4
  <1>12. ASSUME NEW q \in Givers, Cut(q)
         PROVE  \/ InPlay' + Carried' = InPlay + Carried
                \/ InPlay' + Carried' < InPlay + Carried /\ fault' # "none"
    <2>1. /\ \E g \in {Failed(gift[q]), NoGift} : gift' = [gift EXCEPT ![q] = g]
          /\ UNCHANGED <<backpack, loot>> /\ fault' = "cut"
      BY <1>12 DEF Cut
    <2>2. /\ InPlay' + Carried' <= InPlay + Carried
          /\ InPlay' + Carried' \in Nat /\ InPlay + Carried \in Nat
      BY <1>10, <2>1
    <2>3. PICK n \in Nat, m \in Nat : n = InPlay + Carried /\ m = InPlay' + Carried'
      BY <2>2
    <2>4. m = n \/ m < n
      BY <2>2, <2>3
    <2> QED BY <2>1, <2>3, <2>4
  <1>13. ASSUME NEW q \in Givers, CommitUnanswered(q) PROVE fault' = "unanswered"
    BY <1>13 DEF CommitUnanswered
  <1> QED BY <1>2, <1>3, <1>6, <1>7, <1>8, <1>9, <1>11, <1>12, <1>13 DEF HandNext

LEMMA SumsAre == HandInv => InPlay + Carried \in Int
  <1> SUFFICES ASSUME HandInv PROVE InPlay + Carried \in Int
    OBVIOUS
  <1>1. /\ backpack \in [Characters -> Nat] /\ loot \in [Characters -> Nat] /\ gift \in [Givers -> Gift]
        /\ IsFiniteSet(Characters) /\ IsFiniteSet(Givers)
    BY HandOverAssumption DEF HandInv, HandTypeOK
  <1>2. InPlay \in Nat
    <2>1. PICK h \in [Characters -> Nat] : InPlay = Cardinality(Pile(Characters, h))
      BY <1>1, InPlayIs DEF InPlay
    <2> QED BY <1>1, <2>1, PileFinite
  <1>3. Carried \in Nat
    <2>1. PICK h \in [Givers -> Nat] : Carried = Cardinality(Pile(Givers, h))
      BY <1>1, CarriedIs DEF Carried
    <2> QED BY <1>1, <2>1, PileFinite
  <1> QED BY <1>2, <1>3

\* No gift makes two items of one, whatever it is interleaved with
\* (NeverDuplicates, GiveItem).
THEOREM NeverDuplicatesAlways == HandSpec => NeverDuplicates
  <1>1. HandInv /\ [HandNext]_handVars =>
          [InPlay' + Carried' > InPlay + Carried =>
              UNCHANGED gift \/ Dealt("grant") \/ fault' = "unanswered"]_handVars
    <2> SUFFICES ASSUME HandInv, [HandNext]_handVars, InPlay' + Carried' > InPlay + Carried
                 PROVE  UNCHANGED gift \/ Dealt("grant") \/ fault' = "unanswered"
      OBVIOUS
    <2>1. HandInv'
      BY HandStep
    <2>2. PICK n \in Int : n = InPlay + Carried
      BY SumsAre
    <2>3. PICK m \in Int : m = InPlay' + Carried'
      <3>1. (HandInv => InPlay + Carried \in Int)'
        BY SumsAre, PTL
      <3> QED BY <2>1, <3>1
    <2> QED BY <2>2, <2>3, Moves
  <1> QED BY <1>1, HandInductive, PTL DEF HandSpec, NeverDuplicates

\* No gift loses an item but to a crash, a give-back that is refused or an
\* answer that was lost (NothingLost, GiveItem).
THEOREM NothingLostAlways == HandSpec => NothingLost
  <1>1. HandInv /\ [HandNext]_handVars =>
          [InPlay' + Carried' < InPlay + Carried =>
              UNCHANGED gift \/ Dealt("strike") \/ fault' # "none"]_handVars
    <2> SUFFICES ASSUME HandInv, [HandNext]_handVars, InPlay' + Carried' < InPlay + Carried
                 PROVE  UNCHANGED gift \/ Dealt("strike") \/ fault' # "none"
      OBVIOUS
    <2>1. HandInv'
      BY HandStep
    <2>2. PICK n \in Int : n = InPlay + Carried
      BY SumsAre
    <2>3. PICK m \in Int : m = InPlay' + Carried'
      <3>1. (HandInv => InPlay + Carried \in Int)'
        BY SumsAre, PTL
      <3> QED BY <2>1, <3>1
    <2> QED BY <2>2, <2>3, Moves
  <1> QED BY <1>1, HandInductive, PTL DEF HandSpec, NothingLost

-----------------------------------------------------------------------------
(* The table in play.                                                      *)

LEMMA EachByItself == Spec => TrackerSpec /\ HandSpec /\ LogSpec
  <1>1. Init => TrackerInit /\ HandInit /\ LogInit
    BY DEF Init
  <1>2. [Next]_<<trackerVars, handVars, logVars>> =>
           [TrackerNext]_trackerVars /\ [HandNext]_handVars /\ [LogNext]_logVars
    BY DEF Next
  <1> QED BY <1>1, <1>2, PTL DEF Spec, TrackerSpec, HandSpec, LogSpec

\* The roster and the counts stay what their columns allow, and nobody is
\* listed twice, however many masters seat the same character at once
\* (RosterSound, seatEntries).
THEOREM RosterSoundAlways == Spec => []RosterSound
  <1>1. TrackerInv /\ HandInv => RosterSound
    BY DEF TrackerInv, HandInv, RosterSound
  <1> QED BY <1>1, EachByItself, TrackerInductive, HandInductive, PTL

-----------------------------------------------------------------------------
(* The log of a character.                                                 *)

\* A sequence of whatever it holds.
IsLog(l) == \E S : l \in Seq(S)

LEMMA Appended ==
  ASSUME NEW S, NEW l \in Seq(S), NEW v, NEW m, m = Append(l, v)
  PROVE  /\ m \in Seq(S \cup {v}) /\ Len(m) = Len(l) + 1
         /\ m[Len(l) + 1] = v /\ \A i \in 1..Len(l) : m[i] = l[i]
  <1>1. l \in Seq(S \cup {v}) /\ v \in S \cup {v}
    OBVIOUS
  <1>2. /\ Append(l, v) \in Seq(S \cup {v}) /\ Len(Append(l, v)) = Len(l) + 1
        /\ Append(l, v)[Len(l) + 1] = v /\ \A i \in 1..Len(l) : Append(l, v)[i] = l[i]
    BY <1>1
  <1> QED BY <1>2, Zenon

LEMMA AppendedLog ==
  ASSUME NEW l, IsLog(l), NEW v
  PROVE  IsLog(Append(l, v)) /\ Len(l) \in Nat /\ Len(Append(l, v)) = Len(l) + 1
  <1>1. PICK S : l \in Seq(S)
    BY DEF IsLog
  <1>2. PICK m : m = Append(l, v)
    OBVIOUS
  <1>3. m \in Seq(S \cup {v}) /\ Len(m) = Len(l) + 1
    BY <1>1, <1>2, Appended
  <1>4. IsLog(m) /\ Len(l) \in Nat
    BY <1>1, <1>3 DEF IsLog
  <1> QED BY <1>2, <1>3, <1>4

LEMMA ReplayedLog == ASSUME NEW l, IsLog(l), NEW v PROVE IsLog(Replayed(l, v))
  <1>1. \E w : Replayed(l, v) = l \/ Replayed(l, v) = Append(l, w)
    BY DEF Replayed
  <1> QED BY <1>1, AppendedLog, Zenon

\* One answer of an entry is judged (the step of Surviving).
Checked(so, a) ==
    IF Legal(Prompts(so.opened), a)
    THEN [opened |-> Append(so.opened, Bare(a)), kept |-> Append(so.kept, a)]
    ELSE so

\* The two folds of a log: its entries replayed, an entry's answers judged.
Onward(how, so, e) == IF how = "replay" THEN Replayed(so, e) ELSE Checked(so, e)

Latest(x) == CHOOSE m \in x : \A y \in x : m >= y

\* What a fold computes from the places x of a sequence.
Folds(how, l, s, iter) ==
    iter = [x \in SUBSET DOMAIN s |-> IF x = {} THEN l ELSE Onward(how, iter[x \ {Latest(x)}], s[Latest(x)])]

Folded(how, l, s) == (CHOOSE iter : Folds(how, l, s, iter))[DOMAIN s]

LEMMA ReplayIs == \A l, s : FoldLeft(Replayed, l, s) = Folded("replay", l, s)
  BY DEF FoldLeft, MapThenFoldSet, Max, Folded, Folds, Onward, Latest

LEMMA SurvivingIs ==
  \A l, v : Surviving(l, v) =
     Folded("check", [opened |-> Append(l, [v EXCEPT !.answers = <<>>]), kept |-> <<>>], v.answers).kept
  BY DEF Surviving, Checked, FoldLeft, MapThenFoldSet, Max, Folded, Folds, Onward, Latest

LEMMA LatestIs == ASSUME NEW k \in Nat, NEW x \in SUBSET (1..k), k \in x PROVE Latest(x) = k
  <1>1. \A y \in x : k >= y
    OBVIOUS
  <1>2. Latest(x) \in x /\ \A y \in x : Latest(x) >= y
    BY <1>1 DEF Latest
  <1>3. Latest(x) \in 1..k /\ Latest(x) >= k /\ k >= Latest(x)
    BY <1>1, <1>2
  <1> QED BY <1>3

\* A fold is well defined: what it computes from the places up to one is
\* extended to the next.
LEMMA FoldDefined ==
  ASSUME NEW how, NEW l, NEW s, NEW n \in Nat, DOMAIN s = 1..n
  PROVE  \E iter : Folds(how, l, s, iter)
  <1> DEFINE Upto(k, g) ==
                g = [x \in SUBSET (1..k) |-> IF x = {} THEN l
                                             ELSE Onward(how, g[x \ {Latest(x)}], s[Latest(x)])]
             T == {k \in Nat : ~ \E g : Upto(k, g)}
  <1>1. \E g : Upto(0, g)
    <2>1. PICK g : g = [x \in SUBSET (1..0) |-> l]
      OBVIOUS
    <2>2. \A x \in SUBSET (1..0) : x = {}
      OBVIOUS
    <2>3. Upto(0, g)
      BY <2>1, <2>2
    <2> QED BY <2>3
  <1>2. ASSUME NEW k \in Nat, k # 0, NEW g, Upto(k - 1, g) PROVE \E h : Upto(k, h)
    <2>1. PICK h : h = [x \in SUBSET (1..k) |-> IF k \in x THEN Onward(how, g[x \ {k}], s[k]) ELSE g[x]]
      OBVIOUS
    <2>2. ASSUME NEW x \in SUBSET (1..k)
          PROVE  h[x] = IF x = {} THEN l ELSE Onward(how, h[x \ {Latest(x)}], s[Latest(x)])
      <3>1. CASE k \in x
        <4>1. Latest(x) = k
          BY <3>1, LatestIs
        <4>2. x \ {k} \in SUBSET (1..k) /\ k \notin x \ {k}
          OBVIOUS
        <4>3. h[x \ {k}] = g[x \ {k}]
          BY <2>1, <4>2
        <4> QED BY <2>1, <3>1, <4>1, <4>3
      <3>2. CASE k \notin x
        <4>1. x \in SUBSET (1..(k - 1))
          BY <3>2
        <4>2. g[x] = IF x = {} THEN l ELSE Onward(how, g[x \ {Latest(x)}], s[Latest(x)])
          BY <1>2, <4>1
        <4>3. x \ {Latest(x)} \in SUBSET (1..k) /\ k \notin x \ {Latest(x)}
          BY <3>2
        <4>4. h[x \ {Latest(x)}] = g[x \ {Latest(x)}] /\ h[x] = g[x]
          BY <2>1, <3>2, <4>3
        <4> QED BY <4>2, <4>4
      <3> QED BY <3>1, <3>2
    <2>3. Upto(k, h)
      BY <2>1, <2>2
    <2> QED BY <2>3
  <1>3. T = {}
    <2> SUFFICES ASSUME T # {} PROVE FALSE
      OBVIOUS
    <2>1. T \in SUBSET Nat
      OBVIOUS
    <2>2. PICK k \in T : \A y \in T : k <= y
      BY <2>1, Least
    <2> HIDE DEF Upto
    <2>3. k \in Nat /\ k # 0
      BY <1>1
    <2>4. k - 1 \in Nat /\ k - 1 \notin T
      BY <2>2, <2>3
    <2>5. \E g : Upto(k - 1, g)
      BY <2>4
    <2> QED BY <1>2, <2>3, <2>5
  <1>4. PICK g : Upto(n, g)
    <2> HIDE DEF Upto
    <2> QED BY <1>3
  <1>5. Folds(how, l, s, g)
    BY <1>4 DEF Folds
  <1> QED BY <1>5

\* A fold depends on the places it is taken over only.
LEMMA FoldLocal ==
  ASSUME NEW how, NEW l, NEW s, NEW t, NEW n \in Nat, NEW m \in Nat, n <= m,
         DOMAIN s = 1..n, DOMAIN t = 1..m, \A i \in 1..n : s[i] = t[i],
         NEW g, Folds(how, l, s, g), NEW h, Folds(how, l, t, h)
  PROVE  \A x \in SUBSET (1..n) : g[x] = h[x]
  <1>1. \A x \in SUBSET (1..n) :
           g[x] = IF x = {} THEN l ELSE Onward(how, g[x \ {Latest(x)}], s[Latest(x)])
    BY DEF Folds
  <1>2. \A x \in SUBSET (1..n) :
           h[x] = IF x = {} THEN l ELSE Onward(how, h[x \ {Latest(x)}], t[Latest(x)])
    <2>1. \A x \in SUBSET (1..m) :
             h[x] = IF x = {} THEN l ELSE Onward(how, h[x \ {Latest(x)}], t[Latest(x)])
      BY DEF Folds
    <2>2. \A x \in SUBSET (1..n) : x \in SUBSET (1..m)
      OBVIOUS
    <2> QED BY <2>1, <2>2
  <1> DEFINE T == {k \in Nat : k <= n /\ \E x \in SUBSET (1..k) : g[x] # h[x]}
  <1>3. T = {}
    <2> SUFFICES ASSUME T # {} PROVE FALSE
      OBVIOUS
    <2>1. T \in SUBSET Nat
      OBVIOUS
    <2>2. PICK k \in T : \A y \in T : k <= y
      BY <2>1, Least
    <2>3. PICK x \in SUBSET (1..k) : g[x] # h[x]
      OBVIOUS
    <2>4. x \in SUBSET (1..n) /\ k \in Nat /\ k <= n
      OBVIOUS
    <2>5. x # {}
      BY <1>1, <1>2, <2>3, <2>4
    <2>6. k # 0
      <3> SUFFICES ASSUME k = 0 PROVE x = {}
        BY <2>5
      <3> QED BY <2>3
    <2>7. k - 1 \in Nat /\ \A y \in SUBSET (1..(k - 1)) : g[y] = h[y]
      <3>1. k - 1 \in Nat /\ k - 1 <= n /\ ~(k <= k - 1)
        BY <2>4, <2>6
      <3>2. k - 1 \notin T
        BY <2>2, <3>1
      <3> QED BY <3>1, <3>2
    <2>8. k \in x
      <3> SUFFICES ASSUME k \notin x PROVE FALSE
        OBVIOUS
      <3>1. x \in SUBSET (1..(k - 1))
        BY <2>4
      <3> QED BY <2>3, <2>7, <3>1
    <2>9. Latest(x) = k /\ k \in 1..n
      BY <2>4, <2>8, LatestIs
    <2>10. g[x \ {k}] = h[x \ {k}]
      <3>1. x \ {k} \in SUBSET (1..(k - 1))
        BY <2>4
      <3> QED BY <2>7, <3>1
    <2>11. s[k] = t[k]
      BY <2>9
    <2> QED BY <1>1, <1>2, <2>3, <2>4, <2>5, <2>9, <2>10, <2>11
  <1>4. n \notin T
    BY <1>3
  <1> QED BY <1>4

LEMMA LogLength == \A l : IsLog(l) => Len(l) \in Nat /\ DOMAIN l = 1..Len(l)
  BY DEF IsLog

\* A fold goes from left to right.
LEMMA FoldNone == ASSUME NEW how, NEW l PROVE Folded(how, l, <<>>) = l
  <1>1. DOMAIN <<>> = 1..0
    OBVIOUS
  <1>2. PICK iter : Folds(how, l, <<>>, iter) /\ Folded(how, l, <<>>) = iter[DOMAIN <<>>]
    BY <1>1, FoldDefined DEF Folded
  <1>3. iter[{}] = l
    BY <1>2 DEF Folds
  <1> QED BY <1>1, <1>2, <1>3

LEMMA FoldNext ==
  ASSUME NEW how, NEW l, NEW s, IsLog(s), NEW e
  PROVE  Folded(how, l, Append(s, e)) = Onward(how, Folded(how, l, s), e)
  <1>1. PICK n \in Nat : n = Len(s) /\ DOMAIN s = 1..n
    BY LogLength
  <1>2. PICK t : /\ t = Append(s, e) /\ IsLog(t) /\ Len(t) = n + 1 /\ DOMAIN t = 1..(n + 1)
                 /\ t[n + 1] = e /\ \A i \in 1..n : t[i] = s[i]
    <2>1. PICK t : t = Append(s, e)
      OBVIOUS
    <2>2. /\ IsLog(t) /\ Len(t) = n + 1 /\ DOMAIN t = 1..(n + 1)
          /\ t[n + 1] = e /\ \A i \in 1..n : t[i] = s[i]
      <3>1. PICK S : s \in Seq(S)
        BY DEF IsLog
      <3>2. /\ t \in Seq(S \cup {e}) /\ Len(t) = n + 1
            /\ t[n + 1] = e /\ \A i \in 1..n : t[i] = s[i]
        BY <1>1, <2>1, <3>1, Appended
      <3>3. IsLog(t) /\ DOMAIN t = 1..(n + 1)
        BY <3>2 DEF IsLog
      <3> QED BY <3>2, <3>3
    <2> QED BY <2>1, <2>2, Zenon
  <1>3. PICK g : Folds(how, l, s, g) /\ Folded(how, l, s) = g[1..n]
    BY <1>1, FoldDefined DEF Folded
  <1>4. PICK h : Folds(how, l, t, h) /\ Folded(how, l, t) = h[1..(n + 1)]
    <2>1. n + 1 \in Nat
      OBVIOUS
    <2> QED BY <1>2, <2>1, FoldDefined DEF Folded
  <1>5. g[1..n] = h[1..n]
    <2>1. PICK m \in Nat : m = n + 1 /\ n <= m
      OBVIOUS
    <2>2. DOMAIN s = 1..n /\ DOMAIN t = 1..m /\ \A i \in 1..n : s[i] = t[i]
      BY <1>1, <1>2, <2>1
    <2>3. \A x \in SUBSET (1..n) : g[x] = h[x]
      BY <1>3, <1>4, <2>1, <2>2, FoldLocal
    <2> QED BY <2>3
  <1>6. h[1..(n + 1)] = Onward(how, h[1..n], t[n + 1])
    <2>1. PICK x : x = 1..(n + 1)
      OBVIOUS
    <2>2. x \in SUBSET DOMAIN t /\ x # {} /\ x \ {n + 1} = 1..n
      BY <1>2, <2>1
    <2>3. Latest(x) = n + 1
      <3>1. n + 1 \in Nat /\ x \in SUBSET (1..(n + 1)) /\ n + 1 \in x
        BY <2>1
      <3> QED BY <3>1, LatestIs
    <2>4. h[x] = Onward(how, h[x \ {Latest(x)}], t[Latest(x)])
      BY <1>4, <2>2 DEF Folds
    <2> QED BY <2>1, <2>2, <2>3, <2>4
  <1> QED BY <1>2, <1>3, <1>4, <1>5, <1>6

\* The parts of a log.
LEMMA StartOfLog ==
  ASSUME NEW l, IsLog(l), NEW k \in 0..Len(l)
  PROVE  /\ IsLog(SubSeq(l, 1, k)) /\ Len(SubSeq(l, 1, k)) = k
         /\ \A i \in 1..k : SubSeq(l, 1, k)[i] = l[i]
         /\ k # 0 => SubSeq(l, 1, k) = Append(SubSeq(l, 1, k - 1), l[k])
         /\ SubSeq(l, 1, 0) = <<>>
         /\ SubSeq(l, 1, Len(l)) = l
  <1>1. PICK S : l \in Seq(S)
    BY DEF IsLog
  <1>2. Len(l) \in Nat
    BY <1>1
  <1>3. /\ SubSeq(l, 1, k) \in Seq(S) /\ Len(SubSeq(l, 1, k)) = k
        /\ \A i \in 1..k : SubSeq(l, 1, k)[i] = l[i]
    BY <1>1, <1>2
  <1>4. IsLog(SubSeq(l, 1, k))
    BY <1>3 DEF IsLog
  <1>5. ASSUME k # 0 PROVE SubSeq(l, 1, k) = Append(SubSeq(l, 1, k - 1), l[k])
    <2>1. PICK a \in Seq(S) : a = SubSeq(l, 1, k) /\ Len(a) = k /\ \A i \in 1..k : a[i] = l[i]
      BY <1>3
    <2>2. k - 1 \in 0..Len(l) /\ 1 \in 1..(Len(l) + 1) /\ 1 <= (k - 1) + 1 /\ k \in 1..Len(l) /\ l[k] \in S
      BY <1>1, <1>2, <1>5
    <2>3. PICK b \in Seq(S) : b = SubSeq(l, 1, k - 1) /\ Len(b) = k - 1 /\ \A i \in 1..(k - 1) : b[i] = l[i]
      <3>1. PICK m \in 0..Len(l) : m = k - 1
        BY <2>2
      <3>2. /\ SubSeq(l, 1, m) \in Seq(S) /\ Len(SubSeq(l, 1, m)) = m
            /\ \A i \in 1..m : SubSeq(l, 1, m)[i] = l[i]
        BY <1>1, <1>2, <3>1
      <3> QED BY <3>1, <3>2
    <2>4. PICK e \in S : e = l[k]
      BY <2>2
    <2>5. PICK c : /\ c = Append(b, e) /\ c \in Seq(S \cup {e}) /\ Len(c) = Len(b) + 1
                   /\ c[Len(b) + 1] = e /\ \A i \in 1..Len(b) : c[i] = b[i]
      <3>1. PICK c : c = Append(b, e)
        OBVIOUS
      <3>2. /\ c \in Seq(S \cup {e}) /\ Len(c) = Len(b) + 1
            /\ c[Len(b) + 1] = e /\ \A i \in 1..Len(b) : c[i] = b[i]
        BY <3>1, Appended
      <3> QED BY <3>1, <3>2, Zenon
    <2>6. Len(b) = k - 1 /\ Len(b) + 1 = k /\ Len(c) = k
      BY <2>2, <2>3, <2>5
    <2>7. \A i \in 1..Len(a) : a[i] = c[i]
      <3> SUFFICES ASSUME NEW i \in 1..Len(a) PROVE a[i] = c[i]
        OBVIOUS
      <3>1. CASE i = k
        BY <2>1, <2>4, <2>5, <2>6, <3>1
      <3>2. CASE i # k
        <4>1. i \in 1..(k - 1)
          BY <2>1, <2>2, <3>2
        <4> QED BY <2>1, <2>3, <2>5, <2>6, <4>1
      <3> QED BY <3>1, <3>2
    <2>8. a = c
      <3>1. c \in Seq(S) /\ Len(a) = Len(c)
        BY <2>1, <2>4, <2>5, <2>6
      <3> QED BY <2>7, <3>1
    <2> QED BY <2>1, <2>3, <2>4, <2>5, <2>8
  <1>6. SubSeq(l, 1, 0) = <<>>
    BY <1>1
  <1>7. SubSeq(l, 1, Len(l)) = l
    BY <1>1
  <1> QED BY <1>3, <1>4, <1>5, <1>6, <1>7

LEMMA PartOfLog ==
  ASSUME NEW l, IsLog(l), NEW at \in DOMAIN l
  PROVE  /\ at \in 1..Len(l) /\ IsLog(SubSeq(l, 1, at - 1))
         /\ IsLog(SubSeq(l, at + 1, Len(l)))
         /\ \A i \in DOMAIN SubSeq(l, at + 1, Len(l)) :
               \E j \in DOMAIN l : SubSeq(l, at + 1, Len(l))[i] = l[j]
  <1>1. PICK S : l \in Seq(S)
    BY DEF IsLog
  <1>2. at \in 1..Len(l) /\ Len(l) \in Nat
    BY <1>1
  <1>3. SubSeq(l, 1, at - 1) \in Seq(S)
    BY <1>1, <1>2, PartOf
  <1>4. PICK a \in 1..(Len(l) + 1), b \in 0..Len(l) : a = at + 1 /\ b = Len(l) /\ a <= b + 1
    BY <1>2
  <1>5. PICK p \in Seq(S) : p = SubSeq(l, a, b) /\ Len(p) = b + 1 - a
                            /\ \A i \in 1..(b + 1 - a) : p[i] = l[a + i - 1]
    <2>1. /\ SubSeq(l, a, b) \in Seq(S) /\ Len(SubSeq(l, a, b)) = b + 1 - a
          /\ \A i \in 1..(b + 1 - a) : SubSeq(l, a, b)[i] = l[a + i - 1]
      BY <1>1, <1>4, PartOf
    <2> QED BY <2>1, Zenon
  <1>6. \A i \in DOMAIN p : \E j \in DOMAIN l : p[i] = l[j]
    <2> SUFFICES ASSUME NEW i \in DOMAIN p PROVE \E j \in DOMAIN l : p[i] = l[j]
      OBVIOUS
    <2>1. DOMAIN p = 1..Len(p) /\ DOMAIN l = 1..Len(l)
      BY <1>1
    <2>2. i \in 1..(b + 1 - a)
      BY <1>5, <2>1
    <2>3. a + i - 1 \in 1..Len(l)
      BY <1>2, <1>4, <2>2
    <2> QED BY <1>5, <2>1, <2>2, <2>3
  <1> QED BY <1>2, <1>3, <1>4, <1>5, <1>6 DEF IsLog

LEMMA ReplayLog ==
  ASSUME NEW l, IsLog(l), NEW s, IsLog(s)
  PROVE  IsLog(FoldLeft(Replayed, l, s))
  <1> DEFINE At(k) == Folded("replay", l, SubSeq(s, 1, k))
             T == {k \in Nat : k <= Len(s) /\ ~IsLog(At(k))}
  <1>0. Len(s) \in Nat
    BY LogLength
  <1>1. IsLog(At(0))
    <2>1. 0 \in 0..Len(s)
      BY <1>0
    <2>2. SubSeq(s, 1, 0) = <<>>
      BY <2>1, StartOfLog
    <2>3. Folded("replay", l, <<>>) = l
      BY FoldNone
    <2> QED BY <2>2, <2>3
  <1>2. ASSUME NEW k \in 1..Len(s), IsLog(At(k - 1)) PROVE IsLog(At(k))
    <2>1. k \in 0..Len(s) /\ k - 1 \in 0..Len(s) /\ k # 0
      BY <1>0
    <2>2. SubSeq(s, 1, k) = Append(SubSeq(s, 1, k - 1), s[k]) /\ IsLog(SubSeq(s, 1, k - 1))
      BY <2>1, StartOfLog
    <2>3. PICK b, e : b = SubSeq(s, 1, k - 1) /\ e = s[k]
      OBVIOUS
    <2>4. Folded("replay", l, Append(b, e)) = Onward("replay", Folded("replay", l, b), e)
      BY <2>2, <2>3, FoldNext
    <2>5. IsLog(Replayed(Folded("replay", l, b), e))
      BY <1>2, <2>3, ReplayedLog
    <2> QED BY <2>2, <2>3, <2>4, <2>5 DEF Onward
  <1>3. T = {}
    <2> SUFFICES ASSUME T # {} PROVE FALSE
      OBVIOUS
    <2>1. T \in SUBSET Nat
      OBVIOUS
    <2>2. PICK k \in T : \A y \in T : k <= y
      BY <2>1, Least
    <2> HIDE DEF At
    <2>3. k # 0 /\ k \in 1..Len(s)
      BY <1>0, <1>1
    <2>4. k - 1 \in Nat /\ k - 1 <= Len(s) /\ ~(k <= k - 1)
      BY <1>0, <2>3
    <2>5. IsLog(At(k - 1))
      BY <2>2, <2>4
    <2> QED BY <1>2, <2>3, <2>5
  <1>4. IsLog(At(Len(s)))
    <2> HIDE DEF At
    <2> QED BY <1>0, <1>3
  <1>5. SubSeq(s, 1, Len(s)) = s
    <2>1. Len(s) \in 0..Len(s)
      BY <1>0
    <2> QED BY <2>1, StartOfLog
  <1> QED BY <1>4, <1>5, ReplayIs

\* A log only ever falls behind the revision it is stored under, a tab that was
\* sent an older one holds an older revision, and a write that was loaded and
\* may still be committed is one whose tab was sent what is stored.
LogInv ==
    /\ IsLog(log) /\ edition \in Nat /\ Len(log) <= edition
    /\ saw \in [seq : Nat, revision : Nat, fresh : BOOLEAN]
    /\ saw.seq <= saw.revision
    /\ saw.fresh => saw.revision = edition /\ saw.seq = Len(log)
    /\ ~saw.fresh => saw.revision < edition
    /\ write # NoWrite =>
          /\ write = [at |-> "loaded", revision |-> write.revision, new |-> write.new]
          /\ IsLog(write.new)
          /\ write.revision \in Nat /\ write.revision <= edition
          /\ write.revision = edition => saw.fresh

LEMMA OutcomesAreLogs ==
  ASSUME IsLog(log), NEW events, NEW new \in Outcomes(events)
  PROVE  IsLog(new)
  <1>1. CASE new \in Appends(events)
    <2>1. PICK v : new = Append(log, v)
      BY <1>1 DEF Appends
    <2> QED BY <2>1, AppendedLog, Zenon
  <1>2. ASSUME NEW at \in DOMAIN log, new \in Revisions(at, events) PROVE IsLog(new)
    <2>1. PICK prefix, suffix : /\ prefix = SubSeq(log, 1, at - 1)
                                /\ suffix = SubSeq(log, at + 1, Len(log))
      OBVIOUS
    <2>2. IsLog(prefix) /\ IsLog(suffix)
      BY <2>1, PartOfLog
    <2>3. PICK head : /\ head = <<Named>> \/ head = prefix \/ \E v : head = Append(prefix, v)
                      /\ new = FoldLeft(Replayed, head, suffix)
      BY <1>2, <2>1 DEF Revisions
    <2>4. IsLog(<<Named>>)
      <3>1. <<Named>> \in Seq({Named})
        OBVIOUS
      <3> QED BY <3>1 DEF IsLog
    <2>5. IsLog(head)
      BY <2>2, <2>3, <2>4, AppendedLog, Zenon
    <2> QED BY <2>2, <2>3, <2>5, ReplayLog
  <1> QED BY <1>1, <1>2 DEF Outcomes

\* A commit moves the revision on, by no less than the log grows.
LEMMA StoreMoves ==
  ASSUME LogInv, NEW new, IsLog(new), Store(new)
  PROVE  /\ IsLog(log)' /\ edition' \in Nat /\ Len(log') <= edition' /\ edition < edition'
         /\ saw' = [saw EXCEPT !.fresh = FALSE]
  <1>1. PICK n \in Nat, o \in Nat : n = Len(new) /\ o = Len(log)
    BY LogLength DEF LogInv
  <1>2. PICK g \in Nat \ {0} : g = Growth(new) /\ n <= o + g
    <2>1. CASE n > o
      <3>1. Growth(new) = n - o /\ n - o \in Nat \ {0} /\ n <= o + (n - o)
        BY <1>1, <2>1 DEF Growth
      <3> QED BY <3>1
    <2>2. CASE ~(n > o)
      <3>1. Growth(new) = 1 /\ n <= o + 1
        BY <1>1, <2>2 DEF Growth
      <3> QED BY <3>1
    <2> QED BY <2>1, <2>2
  <1>3. log' = new /\ edition' = edition + g /\ saw' = [saw EXCEPT !.fresh = FALSE]
    BY <1>2 DEF Store
  <1>4. edition \in Nat /\ o <= edition
    BY <1>1 DEF LogInv
  <1>5. IsLog(log)'
    BY <1>3 DEF IsLog
  <1> QED BY <1>1, <1>2, <1>3, <1>4, <1>5

\* What was shown is older than what is stored now.
LEMMA StoreAges ==
  ASSUME LogInv, NEW new, IsLog(new), Store(new)
  PROVE  /\ saw' \in [seq : Nat, revision : Nat, fresh : BOOLEAN]
         /\ saw'.seq <= saw'.revision /\ ~saw'.fresh /\ saw'.revision < edition'
  <1>1. PICK s \in [seq : Nat, revision : Nat, fresh : BOOLEAN] : s = saw /\ s.seq <= s.revision
    BY DEF LogInv
  <1>2. s.revision <= edition /\ edition \in Nat
    BY <1>1 DEF LogInv
  <1>3. edition' \in Nat /\ edition < edition' /\ saw' = [s EXCEPT !.fresh = FALSE]
    BY <1>1, StoreMoves
  <1>4. PICK t : t = [s EXCEPT !.fresh = FALSE]
    OBVIOUS
  <1>5. /\ t \in [seq : Nat, revision : Nat, fresh : BOOLEAN]
        /\ t.seq = s.seq /\ t.revision = s.revision /\ t.fresh = FALSE
    BY <1>4
  <1>6. t.revision < edition'
    BY <1>2, <1>3, <1>5
  <1> QED BY <1>1, <1>3, <1>4, <1>5, <1>6

LEMMA LogStep ==
  LogInv /\ [LogNext]_logVars => LogInv'
  <1> SUFFICES ASSUME LogInv, [LogNext]_logVars PROVE LogInv'
    OBVIOUS
  <1>1. CASE UNCHANGED logVars
    BY <1>1 DEF logVars, LogInv, IsLog, NoWrite
  <1>2. CASE WriteElsewhere
    <2>1. PICK new : IsLog(new) /\ Store(new)
      BY <1>2, OutcomesAreLogs DEF WriteElsewhere, LogInv
    <2>2. IsLog(log)' /\ edition' \in Nat /\ Len(log') <= edition' /\ edition < edition' /\ write' = write
      BY <1>2, <2>1, StoreMoves DEF WriteElsewhere
    <2>3. /\ saw' \in [seq : Nat, revision : Nat, fresh : BOOLEAN]
          /\ saw'.seq <= saw'.revision /\ ~saw'.fresh /\ saw'.revision < edition'
      BY <2>1, StoreAges
    <2>4. write # NoWrite =>
             /\ write = [at |-> "loaded", revision |-> write.revision, new |-> write.new]
             /\ IsLog(write.new)
             /\ write.revision \in Nat /\ write.revision < edition'
      BY <2>2 DEF LogInv
    <2> QED BY <2>2, <2>3, <2>4 DEF LogInv, IsLog, NoWrite
  <1>3. CASE View
    <2>1. PICK n \in Nat, e \in Nat : n = Len(log) /\ e = edition /\ n <= e
      BY LogLength DEF LogInv
    <2>2. saw' = [seq |-> n, revision |-> e, fresh |-> TRUE] /\ UNCHANGED <<log, edition, write>> /\ write = NoWrite
      BY <1>3, <2>1 DEF View
    <2> QED BY <2>1, <2>2 DEF LogInv, IsLog, NoWrite
  <1>4. CASE Load
    <2>1. PICK new : IsLog(new) /\ write' = [at |-> "loaded", revision |-> edition, new |-> new]
      BY <1>4, OutcomesAreLogs DEF Load, LogInv
    <2>2. saw.fresh
      <3>1. PICK n \in Nat, e \in Nat : n = Len(log) /\ e = edition /\ n <= e
        BY LogLength DEF LogInv
      <3>2. PICK s \in [seq : Nat, revision : Nat, fresh : BOOLEAN] : s = saw
        BY DEF LogInv
      <3>3. s.seq = n /\ e \in {s.revision, s.seq}
        BY <1>4, <3>1, <3>2 DEF Load
      <3>4. s.seq <= s.revision /\ (~s.fresh => s.revision < e)
        BY <3>1, <3>2 DEF LogInv
      <3>5. s.seq \in Nat /\ s.revision \in Nat
        OBVIOUS
      <3> QED BY <3>1, <3>2, <3>3, <3>4, <3>5
    <2>3. UNCHANGED <<log, edition, saw>>
      BY <1>4 DEF Load
    <2>4. /\ write' = [at |-> "loaded", revision |-> write'.revision, new |-> write'.new]
          /\ IsLog(write'.new) /\ write'.revision = edition
      BY <2>1
    <2> QED BY <2>2, <2>3, <2>4 DEF LogInv, IsLog, NoWrite
  <1>5. CASE CommitLog
    <2>0. write # NoWrite
      BY <1>5 DEF CommitLog, NoWrite
    <2>1. PICK new : IsLog(new) /\ Store(new) /\ write' = NoWrite
      BY <1>5, <2>0 DEF CommitLog, LogInv
    <2>2. IsLog(log)' /\ edition' \in Nat /\ Len(log') <= edition' /\ edition < edition'
      BY <2>1, StoreMoves
    <2>3. /\ saw' \in [seq : Nat, revision : Nat, fresh : BOOLEAN]
          /\ saw'.seq <= saw'.revision /\ ~saw'.fresh /\ saw'.revision < edition'
      BY <2>1, StoreAges
    <2> QED BY <2>1, <2>2, <2>3 DEF LogInv, NoWrite
  <1>6. CASE CommitStale
    BY <1>6 DEF CommitStale, LogInv, IsLog, NoWrite
  <1> QED BY <1>1, <1>2, <1>3, <1>4, <1>5, <1>6 DEF LogNext

LEMMA LogBegins == LogInit => LogInv
  <1> SUFFICES ASSUME LogInit PROVE LogInv
    OBVIOUS
  <1>1. <<Named>> \in Seq({Named}) /\ Len(<<Named>>) = 1
    OBVIOUS
  <1>2. IsLog(log) /\ Len(log) = 1
    BY <1>1 DEF LogInit, IsLog
  <1> QED BY <1>2 DEF LogInit, LogInv

LEMMA LogInductive == LogSpec => []LogInv
  BY LogBegins, LogStep, PTL DEF LogSpec

\* A tab's write replaces the very log the tab was shown, whatever was
\* committed since it was shown it and whether or not the write names a
\* revision (CommitsOnWhatItSaw, Character.Commit and checkRevision).
THEOREM CommitsOnWhatItSawAlways == LogSpec => CommitsOnWhatItSaw
  <1>1. LogInv /\ [LogNext]_logVars =>
          [write.at = "loaded" /\ log' # log /\ write' = NoWrite => saw.fresh]_logVars
    <2> SUFFICES ASSUME LogInv, [LogNext]_logVars,
                        write.at = "loaded", log' # log, write' = NoWrite
                 PROVE  saw.fresh
      OBVIOUS
    <2>1. write # NoWrite
      BY DEF NoWrite
    <2>2. CommitLog
      BY <2>1 DEF LogNext, WriteElsewhere, View, Load, CommitStale, logVars
    <2> QED BY <2>1, <2>2 DEF CommitLog, LogInv
  <1> QED BY <1>1, LogInductive, PTL DEF LogSpec, CommitsOnWhatItSaw

-----------------------------------------------------------------------------
(* Every entry stands where it is.                                         *)

IsEvent(v) ==
    /\ v = [kind |-> v.kind, ref |-> v.ref, level |-> v.level, answers |-> v.answers]
    /\ IsLog(v.answers)

\* What Settled says of one entry and of the log before it.
Stand(so, v) ==
    \/ SpellEvent(v)
    \/ /\ RequiresRef(v) => Offered(Prompts(so), v)
       /\ Surviving(so, v) = v.answers
       /\ ~SaysNothing(v)

Stands(l) == IsLog(l) /\ \A i \in DOMAIN l : IsEvent(l[i]) /\ Stand(SubSeq(l, 1, i - 1), l[i])

\* Two logs are one when they have the same entries.
LEMMA SameStart ==
  ASSUME NEW l, IsLog(l), NEW m, IsLog(m), NEW k \in 0..Len(l), k \in 0..Len(m),
         \A i \in 1..k : l[i] = m[i]
  PROVE  SubSeq(l, 1, k) = SubSeq(m, 1, k)
  <1>1. PICK a : /\ a = SubSeq(l, 1, k) /\ IsLog(a) /\ Len(a) = k
                 /\ \A i \in 1..k : a[i] = l[i]
    <2>1. /\ IsLog(SubSeq(l, 1, k)) /\ Len(SubSeq(l, 1, k)) = k
          /\ \A i \in 1..k : SubSeq(l, 1, k)[i] = l[i]
      BY StartOfLog
    <2> QED BY <2>1, Zenon
  <1>2. PICK b : /\ b = SubSeq(m, 1, k) /\ IsLog(b) /\ Len(b) = k
                 /\ \A i \in 1..k : b[i] = m[i]
    <2>1. /\ IsLog(SubSeq(m, 1, k)) /\ Len(SubSeq(m, 1, k)) = k
          /\ \A i \in 1..k : SubSeq(m, 1, k)[i] = m[i]
      BY StartOfLog
    <2> QED BY <2>1, Zenon
  <1>3. PICK S : a \in Seq(S)
    BY <1>1 DEF IsLog
  <1>4. PICK T : b \in Seq(T)
    BY <1>2 DEF IsLog
  <1>5. a \in Seq(S \cup T) /\ b \in Seq(S \cup T)
    BY <1>3, <1>4
  <1>6. Len(a) = Len(b) /\ \A i \in 1..Len(a) : a[i] = b[i]
    BY <1>1, <1>2
  <1>7. a = b
    BY <1>5, <1>6
  <1> QED BY <1>1, <1>2, <1>7

LEMMA StandsAppend ==
  ASSUME NEW l, Stands(l), NEW v, IsEvent(v), Stand(l, v)
  PROVE  Stands(Append(l, v))
  <1>1. PICK n \in Nat : n = Len(l) /\ DOMAIN l = 1..n
    BY LogLength DEF Stands
  <1>2. PICK m : /\ m = Append(l, v) /\ IsLog(m) /\ Len(m) = n + 1 /\ DOMAIN m = 1..(n + 1)
                 /\ m[n + 1] = v /\ \A i \in 1..n : m[i] = l[i]
    <2>1. IsLog(l)
      BY DEF Stands
    <2>2. PICK m : m = Append(l, v)
      OBVIOUS
    <2>3. /\ IsLog(m) /\ Len(m) = n + 1 /\ DOMAIN m = 1..(n + 1)
          /\ m[n + 1] = v /\ \A i \in 1..n : m[i] = l[i]
      <3>1. PICK S : l \in Seq(S)
        BY <2>1 DEF IsLog
      <3>2. /\ m \in Seq(S \cup {v}) /\ Len(m) = n + 1
            /\ m[n + 1] = v /\ \A i \in 1..n : m[i] = l[i]
        BY <1>1, <2>2, <3>1, Appended
      <3>3. IsLog(m) /\ DOMAIN m = 1..(n + 1)
        BY <3>2 DEF IsLog
      <3> QED BY <3>2, <3>3
    <2> QED BY <2>2, <2>3, Zenon
  <1>3. \A k \in 0..n : SubSeq(m, 1, k) = SubSeq(l, 1, k)
    <2> SUFFICES ASSUME NEW k \in 0..n PROVE SubSeq(m, 1, k) = SubSeq(l, 1, k)
      OBVIOUS
    <2>1. k \in 0..Len(l) /\ k \in 0..Len(m) /\ \A i \in 1..k : m[i] = l[i]
      BY <1>1, <1>2
    <2> QED BY <1>2, <2>1, SameStart DEF Stands
  <1>4. SubSeq(l, 1, n) = l
    <2>1. n \in 0..Len(l)
      BY <1>1
    <2> QED BY <1>1, <2>1, StartOfLog DEF Stands
  <1>5. ASSUME NEW i \in 1..(n + 1) PROVE IsEvent(m[i]) /\ Stand(SubSeq(m, 1, i - 1), m[i])
    <2>1. CASE i = n + 1
      <3>1. i - 1 = n /\ SubSeq(m, 1, n) = l
        BY <1>3, <1>4, <2>1
      <3> QED BY <1>2, <2>1, <3>1
    <2>2. CASE i # n + 1
      <3>1. i \in 1..n /\ i - 1 \in 0..n
        BY <2>2
      <3>2. SubSeq(m, 1, i - 1) = SubSeq(l, 1, i - 1) /\ m[i] = l[i]
        BY <1>2, <1>3, <3>1
      <3>3. IsEvent(l[i]) /\ Stand(SubSeq(l, 1, i - 1), l[i])
        BY <1>1, <3>1 DEF Stands
      <3> QED BY <3>2, <3>3
    <2> QED BY <2>1, <2>2
  <1> QED BY <1>2, <1>5 DEF Stands

\* The start of a log stands as the log does.
LEMMA StandsStart ==
  ASSUME NEW l, Stands(l), NEW k \in 0..Len(l)
  PROVE  Stands(SubSeq(l, 1, k))
  <1>1. PICK n \in Nat : n = Len(l) /\ DOMAIN l = 1..n /\ k \in 0..n
    BY LogLength DEF Stands
  <1>2. PICK m : /\ m = SubSeq(l, 1, k) /\ IsLog(m) /\ Len(m) = k /\ DOMAIN m = 1..k
                 /\ \A i \in 1..k : m[i] = l[i]
    <2>1. IsLog(l)
      BY DEF Stands
    <2>2. PICK m : m = SubSeq(l, 1, k)
      OBVIOUS
    <2>3. IsLog(m) /\ Len(m) = k /\ \A i \in 1..k : m[i] = l[i]
      BY <2>1, <2>2, StartOfLog
    <2> QED BY <2>2, <2>3, LogLength
  <1>3. ASSUME NEW i \in 1..k PROVE IsEvent(m[i]) /\ Stand(SubSeq(m, 1, i - 1), m[i])
    <2>1. PICK j \in 0..n : j = i - 1 /\ j \in 0..Len(l) /\ j \in 0..Len(m) /\ \A x \in 1..j : m[x] = l[x]
      BY <1>1, <1>2
    <2>2. SubSeq(m, 1, j) = SubSeq(l, 1, j)
      BY <1>2, <2>1, SameStart DEF Stands
    <2>3. IsEvent(l[i]) /\ Stand(SubSeq(l, 1, i - 1), l[i])
      BY <1>1 DEF Stands
    <2> QED BY <1>2, <2>1, <2>2, <2>3
  <1> QED BY <1>2, <1>3 DEF Stands

\* The answers that survive survive again: they were judged against the log as
\* it grew by those before them that did.
LEMMA SurvivingAgain ==
  ASSUME NEW so, NEW v, IsEvent(v), NEW w, w = [v EXCEPT !.answers = Surviving(so, v)]
  PROVE  IsLog(Surviving(so, v)) /\ Surviving(so, w) = Surviving(so, v)
  <1>1. PICK start : start = [opened |-> Append(so, [v EXCEPT !.answers = <<>>]), kept |-> <<>>]
    OBVIOUS
  <1>2. [w EXCEPT !.answers = <<>>] = [v EXCEPT !.answers = <<>>] /\ w.answers = Surviving(so, v)
    BY DEF IsEvent
  <1>3. PICK s : s = v.answers /\ IsLog(s)
    BY DEF IsEvent
  <1>4. /\ Surviving(so, v) = Folded("check", start, s).kept
        /\ Surviving(so, w) = Folded("check", start, Surviving(so, v)).kept
    BY <1>1, <1>2, <1>3, SurvivingIs
  <1> DEFINE At(k) == Folded("check", start, SubSeq(s, 1, k))
             T == {k \in Nat : k <= Len(s) /\ ~(IsLog(At(k).kept) /\ Folded("check", start, At(k).kept) = At(k))}
  <1>5. Len(s) \in Nat
    BY <1>3, LogLength
  <1>6. 0 \notin T
    <2>1. 0 \in 0..Len(s)
      BY <1>5
    <2>2. SubSeq(s, 1, 0) = <<>>
      BY <1>3, <2>1, StartOfLog
    <2>3. Folded("check", start, <<>>) = start /\ start.kept = <<>>
      BY <1>1, FoldNone
    <2>4. IsLog(<<>>)
      <3>1. <<>> \in Seq({})
        OBVIOUS
      <3> QED BY <3>1 DEF IsLog
    <2> QED BY <2>2, <2>3, <2>4
  <1>7. ASSUME NEW k \in 1..Len(s), k - 1 \notin T PROVE k \notin T
    <2>1. k \in 0..Len(s) /\ k - 1 \in 0..Len(s) /\ k - 1 \in Nat /\ k - 1 <= Len(s) /\ k # 0
      BY <1>5
    <2>2. SubSeq(s, 1, k) = Append(SubSeq(s, 1, k - 1), s[k]) /\ IsLog(SubSeq(s, 1, k - 1))
      BY <1>3, <2>1, StartOfLog
    <2>3. PICK b, e, x : b = SubSeq(s, 1, k - 1) /\ e = s[k] /\ x = Folded("check", start, b)
      OBVIOUS
    <2>4. IsLog(x.kept) /\ Folded("check", start, x.kept) = x
      BY <1>7, <2>1, <2>3
    <2>5. At(k) = Checked(x, e)
      <3>1. Folded("check", start, Append(b, e)) = Onward("check", Folded("check", start, b), e)
        BY <2>2, <2>3, FoldNext
      <3> QED BY <2>2, <2>3, <3>1 DEF Onward
    <2>6. Folded("check", start, Append(x.kept, e)) = Checked(x, e) /\ IsLog(Append(x.kept, e))
      <3>1. PICK y : y = x.kept
        OBVIOUS
      <3>2. Folded("check", start, Append(y, e)) = Onward("check", Folded("check", start, y), e)
        BY <2>4, <3>1, FoldNext
      <3>3. IsLog(Append(y, e))
        BY <2>4, <3>1, AppendedLog
      <3> QED BY <2>4, <3>1, <3>2, <3>3 DEF Onward
    <2>7. Checked(x, e) = x \/ Checked(x, e).kept = Append(x.kept, e)
      BY DEF Checked
    <2> QED BY <2>4, <2>5, <2>6, <2>7
  <1>8. T = {}
    <2> SUFFICES ASSUME T # {} PROVE FALSE
      OBVIOUS
    <2>1. T \in SUBSET Nat
      OBVIOUS
    <2>2. PICK k \in T : \A y \in T : k <= y
      BY <2>1, Least
    <2>3. k <= Len(s) /\ k \in Nat
      OBVIOUS
    <2> HIDE DEF T
    <2>4. k # 0 /\ k \in 1..Len(s)
      BY <1>5, <1>6, <2>2, <2>3
    <2>5. ~(k <= k - 1)
      BY <2>4
    <2> QED BY <1>7, <2>2, <2>4, <2>5
  <1>9. SubSeq(s, 1, Len(s)) = s
    <2>1. Len(s) \in 0..Len(s)
      BY <1>5
    <2> QED BY <1>3, <2>1, StartOfLog
  <1>10. PICK x : x = Folded("check", start, s) /\ IsLog(x.kept) /\ Folded("check", start, x.kept) = x
    <2>1. PICK n \in Nat : n = Len(s) /\ n <= Len(s)
      BY <1>5
    <2>2. n \notin T /\ SubSeq(s, 1, n) = s
      BY <1>8, <1>9, <2>1
    <2> QED BY <2>1, <2>2
  <1> QED BY <1>4, <1>10

\* Which answers an event carries does not change what it answers.
LEMMA OfferedStill ==
  ASSUME NEW prompts, NEW v, IsEvent(v), NEW x, Offered(prompts, v)
  PROVE  Offered(prompts, [v EXCEPT !.answers = x])
  <1>1. PICK w : w = [v EXCEPT !.answers = x] /\ w.answers = x
    <2>1. PICK k, r, n, a : v = [kind |-> k, ref |-> r, level |-> n, answers |-> a]
      BY DEF IsEvent
    <2>2. [v EXCEPT !.answers = x].answers = x
      BY <2>1
    <2> QED BY <2>2
  <1>2. ASSUME NEW e, v = [e EXCEPT !.answers = v.answers] PROVE w = [e EXCEPT !.answers = w.answers]
    BY <1>1, <1>2
  <1>3. CASE Selects(prompts, v)
    BY <1>1, <1>2, <1>3 DEF Offered, Selects
  <1>4. CASE \E q \in prompts.open : v = [AskedAs[q] EXCEPT !.answers = v.answers]
    BY <1>1, <1>2, <1>4 DEF Offered
  <1> QED BY <1>3, <1>4 DEF Offered

LEMMA ReplayedStands == ASSUME NEW l, Stands(l), NEW v, IsEvent(v) PROVE Stands(Replayed(l, v))
  <1>1. PICK left : left = [v EXCEPT !.answers = Surviving(l, v)]
    OBVIOUS
  <1>2. IsEvent(left) /\ Surviving(l, left) = left.answers /\ left.ref = v.ref
    <2>1. IsLog(Surviving(l, v)) /\ Surviving(l, left) = Surviving(l, v)
      BY <1>1, SurvivingAgain
    <2> QED BY <1>1, <2>1 DEF IsEvent
  <1>3. CASE (RequiresRef(v) /\ ~Offered(Prompts(l), v)) \/ SaysNothing(left)
    BY <1>1, <1>3 DEF Replayed
  <1>4. CASE (RequiresRef(v) => Offered(Prompts(l), v)) /\ ~SaysNothing(left)
    <2>1. RequiresRef(left) => Offered(Prompts(l), left)
      BY <1>1, <1>2, <1>4, OfferedStill DEF RequiresRef
    <2>2. Stand(l, left)
      BY <1>2, <1>4, <2>1 DEF Stand
    <2>3. Stands(Append(l, left))
      BY <1>2, <2>2, StandsAppend
    <2> QED BY <1>1, <1>4, <2>3 DEF Replayed
  <1> QED BY <1>3, <1>4

LEMMA ReplayStands ==
  ASSUME NEW l, Stands(l), NEW s, IsLog(s), \A i \in DOMAIN s : IsEvent(s[i])
  PROVE  Stands(FoldLeft(Replayed, l, s))
  <1> DEFINE T == {k \in Nat : k <= Len(s) /\ ~Stands(Folded("replay", l, SubSeq(s, 1, k)))}
  <1>1. Len(s) \in Nat /\ DOMAIN s = 1..Len(s)
    BY LogLength
  <1>2. 0 \notin T
    <2>1. 0 \in 0..Len(s)
      BY <1>1
    <2>2. SubSeq(s, 1, 0) = <<>>
      BY <2>1, StartOfLog
    <2> QED BY <2>2, FoldNone
  <1>3. ASSUME NEW k \in 1..Len(s), k - 1 \notin T PROVE k \notin T
    <2>1. k \in 0..Len(s) /\ k - 1 \in 0..Len(s) /\ k - 1 \in Nat /\ k - 1 <= Len(s) /\ k # 0
      BY <1>1
    <2>2. SubSeq(s, 1, k) = Append(SubSeq(s, 1, k - 1), s[k]) /\ IsLog(SubSeq(s, 1, k - 1))
      BY <2>1, StartOfLog
    <2>3. PICK b, e, x : b = SubSeq(s, 1, k - 1) /\ e = s[k] /\ x = Folded("replay", l, b)
      OBVIOUS
    <2>4. Stands(x) /\ IsEvent(e)
      BY <1>1, <1>3, <2>1, <2>3
    <2>5. Folded("replay", l, Append(b, e)) = Onward("replay", x, e)
      BY <2>2, <2>3, FoldNext
    <2>6. Stands(Replayed(x, e))
      BY <2>4, ReplayedStands
    <2> QED BY <2>2, <2>3, <2>5, <2>6 DEF Onward
  <1>4. T = {}
    <2> SUFFICES ASSUME T # {} PROVE FALSE
      OBVIOUS
    <2>1. T \in SUBSET Nat
      OBVIOUS
    <2>2. PICK k \in T : \A y \in T : k <= y
      BY <2>1, Least
    <2>3. k <= Len(s) /\ k \in Nat
      OBVIOUS
    <2> HIDE DEF T
    <2>4. k # 0 /\ k \in 1..Len(s)
      BY <1>1, <1>2, <2>2, <2>3
    <2>5. ~(k <= k - 1)
      BY <2>4
    <2> QED BY <1>3, <2>2, <2>4, <2>5
  <1>5. SubSeq(s, 1, Len(s)) = s
    <2>1. Len(s) \in 0..Len(s)
      BY <1>1
    <2> QED BY <2>1, StartOfLog
  <1>6. Stands(Folded("replay", l, s))
    <2>1. PICK n \in Nat : n = Len(s) /\ n <= Len(s)
      <3>1. Len(s) \in Nat /\ Len(s) <= Len(s)
        BY <1>1
      <3> QED BY <3>1
    <2>2. n \notin T /\ SubSeq(s, 1, n) = s
      BY <1>4, <1>5, <2>1
    <2> QED BY <2>1, <2>2
  <1> QED BY <1>6, ReplayIs

\* What a client may send is an event, and says something.
LEMMA NewIs == ASSUME NEW v \in NewEvents PROVE IsEvent(v) /\ ~SaysNothing(v)
  <1>1. IsLog(<<>>) /\ (\A a : IsLog(<<a>>)) /\ \A a, b : IsLog(<<a, b>>)
    <2>1. <<>> \in Seq({})
      OBVIOUS
    <2>2. ASSUME NEW a PROVE IsLog(<<a>>)
      <3>1. <<a>> \in Seq({a})
        OBVIOUS
      <3> QED BY <3>1 DEF IsLog
    <2>3. ASSUME NEW a, NEW b PROVE IsLog(<<a, b>>)
      <3>1. <<a, b>> \in Seq({a, b})
        OBVIOUS
      <3> QED BY <3>1 DEF IsLog
    <2> QED BY <2>1, <2>2, <2>3 DEF IsLog
  <1>2. ASSUME NEW e \in Entries, v = Select(e) PROVE IsEvent(v) /\ ~SaysNothing(v)
    <2>1. v = [kind |-> KindOf[e], ref |-> {e}, level |-> 0, answers |-> <<>>]
      BY <1>2 DEF Select, Event
    <2>2. v.ref # {} /\ Declare(0).ref = {}
      BY <2>1 DEF Declare
    <2> QED BY <1>1, <2>1, <2>2 DEF IsEvent, SaysNothing
  <1>3. ASSUME NEW n \in 1..2, v = Declare(n) PROVE IsEvent(v) /\ ~SaysNothing(v)
    <2>1. v = [kind |-> "change", ref |-> {}, level |-> n, answers |-> <<>>]
      BY <1>3 DEF Declare
    <2>2. v.level = n /\ n # 0 /\ Declare(0).level = 0
      BY <2>1 DEF Declare
    <2> QED BY <1>1, <2>1, <2>2 DEF IsEvent, SaysNothing
  <1>4. ASSUME NEW q \in Questions, NEW s, IsLog(s), s # <<>>, v = [AskedAs[q] EXCEPT !.answers = s]
        PROVE  IsEvent(v) /\ ~SaysNothing(v)
    <2>1. \E k, r, n : AskedAs[q] = [kind |-> k, ref |-> r, level |-> n, answers |-> <<>>]
      BY DEF AskedAs, Declare, Event
    <2>2. v.answers = s /\ IsEvent(v)
      BY <1>4, <2>1 DEF IsEvent
    <2>3. Declare(0).answers = <<>>
      BY DEF Declare
    <2> QED BY <1>4, <2>2, <2>3 DEF SaysNothing
  <1>5. ASSUME v \in AnswerEvents PROVE IsEvent(v) /\ ~SaysNothing(v)
    <2>1. \/ \E q \in Questions : \E a : v = [AskedAs[q] EXCEPT !.answers = <<a>>]
          \/ \E q \in Questions : \E a, b : v = [AskedAs[q] EXCEPT !.answers = <<a, b>>]
      BY <1>5 DEF AnswerEvents
    <2>2. (\A a : <<a>> # <<>>) /\ \A a, b : <<a, b>> # <<>>
      OBVIOUS
    <2> QED BY <1>1, <1>4, <2>1, <2>2
  <1> QED BY <1>2, <1>3, <1>5 DEF NewEvents

\* What is accepted after a log stands there.
LEMMA AcceptedStand ==
  ASSUME NEW l, Stands(l), NEW events, events \subseteq NewEvents, NEW v \in Accepted(l, events)
  PROVE  Stands(Append(l, v))
  <1>1. v \in events /\ Surviving(l, v) = v.answers /\ (RequiresRef(v) => Offered(Prompts(l), v))
    BY DEF Accepted
  <1>2. IsEvent(v) /\ ~SaysNothing(v)
    BY <1>1, NewIs
  <1>3. Stand(l, v)
    BY <1>1, <1>2 DEF Stand
  <1> QED BY <1>2, <1>3, StandsAppend

LEMMA NamedStands == Stands(<<Named>>)
  <1>1. /\ <<Named>> \in Seq({Named}) /\ DOMAIN <<Named>> = {1} /\ <<Named>>[1] = Named
        /\ <<>> \in Seq({})
    OBVIOUS
  <1>2. IsLog(<<Named>>) /\ IsLog(<<>>)
    BY <1>1 DEF IsLog
  <1>3. IsEvent(Named) /\ Named.answers = <<>>
    BY <1>2 DEF IsEvent, Named
  <1>4. Surviving(<<>>, Named) = <<>>
    <2>1. PICK start : start = [opened |-> Append(<<>>, [Named EXCEPT !.answers = <<>>]), kept |-> <<>>]
      OBVIOUS
    <2>2. Surviving(<<>>, Named) = Folded("check", start, <<>>).kept
      BY <1>3, <2>1, SurvivingIs
    <2> QED BY <2>1, <2>2, FoldNone
  <1>5. ~RequiresRef(Named) /\ ~SaysNothing(Named)
    <2>1. Named.kind = "init" /\ Declare(0).kind = "change" /\ Named.ref = {}
      BY DEF Named, Declare
    <2> QED BY <2>1 DEF RequiresRef, SaysNothing
  <1>6. SubSeq(<<Named>>, 1, 1 - 1) = <<>>
    OBVIOUS
  <1>7. Stand(<<>>, Named)
    BY <1>3, <1>4, <1>5 DEF Stand
  <1> QED BY <1>1, <1>2, <1>3, <1>6, <1>7 DEF Stands

LEMMA OutcomesStand ==
  ASSUME Stands(log), NEW events, events \subseteq NewEvents, NEW new \in Outcomes(events)
  PROVE  Stands(new)
  <1>1. CASE new \in Appends(events)
    BY <1>1, AcceptedStand DEF Appends
  <1>2. ASSUME NEW at \in DOMAIN log, new \in Revisions(at, events) PROVE Stands(new)
    <2>1. PICK prefix, suffix : /\ prefix = SubSeq(log, 1, at - 1)
                                /\ suffix = SubSeq(log, at + 1, Len(log))
      OBVIOUS
    <2>2. at \in 1..Len(log) /\ IsLog(suffix) /\ \A i \in DOMAIN suffix : \E j \in DOMAIN log : suffix[i] = log[j]
      BY <2>1, PartOfLog DEF Stands
    <2>3. Stands(prefix)
      <3>1. PICK k \in 0..Len(log) : k = at - 1
        BY <2>2
      <3> QED BY <2>1, <3>1, StandsStart
    <2>4. \A i \in DOMAIN suffix : IsEvent(suffix[i])
      BY <2>2 DEF Stands
    <2>5. PICK spells : spells = {v \in events : SpellEvent(v)}
      OBVIOUS
    <2>6. PICK head : /\ \/ head = <<Named>> \/ head = prefix
                         \/ \E v \in Accepted(prefix, events \ spells)
                                       \cup Accepted(SpellEditContext(prefix), spells) :
                               head = Append(prefix, v)
                      /\ new = FoldLeft(Replayed, head, suffix)
      BY <1>2, <2>1, <2>5 DEF Revisions
    <2>7. ASSUME NEW v \in Accepted(prefix, events \ spells) PROVE Stands(Append(prefix, v))
      <3>1. PICK others : others = events \ spells /\ others \subseteq NewEvents
        OBVIOUS
      <3> QED BY <2>3, <3>1, AcceptedStand
    <2>8. ASSUME NEW v \in Accepted(SpellEditContext(prefix), spells) PROVE Stands(Append(prefix, v))
      <3>1. v \in events /\ SpellEvent(v)
        BY <2>5 DEF Accepted
      <3>2. IsEvent(v) /\ Stand(prefix, v)
        BY <3>1, NewIs DEF Stand
      <3> QED BY <2>3, <3>2, StandsAppend
    <2>9. Stands(head)
      BY <2>3, <2>6, <2>7, <2>8, NamedStands
    <2> QED BY <2>2, <2>4, <2>6, <2>9, ReplayStands
  <1> QED BY <1>1, <1>2 DEF Outcomes

\* What is stored stands, and so does what a loaded write will store.
StandInv == Stands(log) /\ (write # NoWrite => Stands(write.new))

LEMMA StandStep == StandInv /\ [LogNext]_logVars => StandInv'
  <1> SUFFICES ASSUME StandInv, [LogNext]_logVars PROVE StandInv'
    OBVIOUS
  <1> USE DEF StandInv
  <1>1. CASE UNCHANGED logVars
    <2>1. log' = log /\ write' = write /\ NoWrite' = NoWrite
      BY <1>1 DEF logVars, NoWrite
    <2> QED BY <2>1
  <1>2. CASE WriteElsewhere
    <2>1. PICK new : Stands(new) /\ log' = new /\ write' = write
      BY <1>2, OutcomesStand DEF WriteElsewhere, Store
    <2> QED BY <2>1
  <1>3. CASE View
    BY <1>3 DEF View
  <1>4. CASE Load
    <2>1. PICK new : Stands(new) /\ write' = [at |-> "loaded", revision |-> edition, new |-> new]
      BY <1>4, OutcomesStand, LogAssumption DEF Load
    <2>2. log' = log /\ write'.new = new
      BY <1>4, <2>1 DEF Load
    <2> QED BY <2>1, <2>2
  <1>5. CASE CommitLog
    <2>1. write # NoWrite
      BY <1>5 DEF CommitLog, NoWrite
    <2>2. log' = write.new /\ write' = NoWrite
      BY <1>5 DEF CommitLog, Store
    <2> QED BY <2>1, <2>2
  <1>6. CASE CommitStale
    BY <1>6 DEF CommitStale
  <1> QED BY <1>1, <1>2, <1>3, <1>4, <1>5, <1>6 DEF LogNext

\* Every entry of a log is offered by the log before it and none of its answers
\* is illegal there, a spell's excepted, whatever was appended, replaced or
\* removed (Settled, reviseMany and surviving).
THEOREM SettledAlways == LogSpec => []Settled
  <1>1. LogInit => StandInv
    BY NamedStands DEF LogInit, StandInv
  <1>2. StandInv => Settled
    BY DEF StandInv, Stands, Stand, Settled
  <1> QED BY <1>1, <1>2, StandStep, PTL DEF LogSpec

=============================================================================
