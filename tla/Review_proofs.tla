---------------------------- MODULE Review_proofs ----------------------------
(***************************************************************************)
(* What is proved of the review of conflicts. ReviewInv says what the root *)
(* and the layer agree on: of what is still in a report the last one has   *)
(* the layer's status, of all else the item has it; and every order that   *)
(* an item offers names tracks of its project. The latter needs what no    *)
(* step on the graph does, lose a track or move one to another project,    *)
(* and that the project of a report about an order is the project of that  *)
(* order.                                                                  *)
(***************************************************************************)
EXTENDS Review, FiniteSetTheorems, WellFoundedInduction, SequenceTheorems, TLAPS

-----------------------------------------------------------------------------
(* Least and greatest numbers. *)

(* A set of natural numbers that is not empty has a least. *)
LEMMA LeastExists ==
  ASSUME NEW S \in SUBSET Nat, S # {}
  PROVE  \E x \in S : \A y \in S : x <= y
<1>0. \A y \in S : y \in Nat OBVIOUS
<1>1. PICK x \in S : \A y \in S : ~(<<y, x>> \in OpToRel(<, Nat))
  BY WFMin, NatLessThanWellFounded
<1>2. ASSUME NEW y \in S PROVE x <= y
  <2>1. x \in Nat /\ y \in Nat BY <1>0
  <2>2. ~(y < x) BY <1>1, <2>1 DEF OpToRel
  <2> QED BY <2>1, <2>2
<1> QED BY <1>2

(* Min finds it. *)
LEMMA MinIsMember ==
  ASSUME NEW S \in SUBSET Nat, S # {}
  PROVE  Min(S) \in S
<1>1. \E x \in S : \A y \in S : x <= y BY LeastExists
<1> QED BY <1>1 DEF Min

(* Max finds the greatest of a set that has a bound: its least bound. *)
LEMMA MaxIsGreatest ==
  ASSUME NEW b \in Nat, NEW S \in SUBSET (0..b), 0 \in S
  PROVE  Max(S) \in S /\ \A y \in S : y <= Max(S)
<1> DEFINE bounds == {n \in Nat : \A y \in S : y <= n}
<1>0. \A y \in S : y \in Nat /\ y <= b OBVIOUS
<1>1. b \in bounds BY <1>0
<1>2. PICK n \in bounds : \A m \in bounds : n <= m
  <2>1. bounds \in SUBSET Nat /\ bounds # {} BY <1>1
  <2> HIDE DEF bounds
  <2> QED BY <2>1, LeastExists
<1>3. n \in Nat /\ \A y \in S : y <= n BY <1>2
<1>4. n \in S
  <2>1. SUFFICES ASSUME n \notin S PROVE FALSE OBVIOUS
  <2>2. n # 0 BY <2>1
  <2>3. n - 1 \in Nat BY <1>3, <2>2
  <2>4. ASSUME NEW y \in S PROVE y <= n - 1
    <3>1. y \in Nat /\ y <= n /\ y # n BY <1>0, <1>3, <2>1
    <3> QED BY <1>3, <3>1
  <2>5. n - 1 \in bounds BY <2>3, <2>4
  <2>6. n <= n - 1 BY <1>2, <2>5
  <2> QED BY <1>3, <2>6
<1>5. \E x \in S : \A y \in S : x >= y
  <2>1. \A y \in S : n >= y BY <1>0, <1>3
  <2> QED BY <1>4, <2>1
<1>6. Max(S) \in S /\ \A y \in S : Max(S) >= y
  <2> DEFINE m == CHOOSE x \in S : \A y \in S : x >= y
  <2>1. m \in S /\ \A y \in S : m >= y BY <1>5
  <2>2. Max(S) = m BY DEF Max
  <2> HIDE DEF m
  <2> QED BY <2>1, <2>2
<1>7. \A y \in S : y \in Nat /\ Max(S) \in Nat BY <1>0, <1>6
<1> QED BY <1>6, <1>7

-----------------------------------------------------------------------------
(* Sequences: what filter returns, and the order that a set is put in. *)

(* The elements of a sequence *)
LEMMA RangeIn ==
  ASSUME NEW S, NEW s \in Seq(S)
  PROVE  Range(s) \subseteq S /\ DOMAIN s = 1..Len(s) /\ Len(s) \in Nat
<1>1. DOMAIN s = 1..Len(s) /\ Len(s) \in Nat /\ \A i \in DOMAIN s : s[i] \in S OBVIOUS
<1> QED BY <1>1 DEF Range

(* Numbers given to the elements of a finite set, no two the same and none above their count, *)
(* are all given.                                                                             *)
LEMMA AllGiven ==
  ASSUME NEW D, IsFiniteSet(D), NEW r \in [D -> 1..Cardinality(D)],
         \A a, b \in D : r[a] = r[b] => a = b
  PROVE  \A k \in 1..Cardinality(D) : \E d \in D : r[d] = k
<1>1. Cardinality(D) \in Nat BY FS_CardinalityType
<1>2. IsFiniteSet(1..Cardinality(D)) /\ Cardinality(1..Cardinality(D)) = Cardinality(D)
  BY <1>1, FS_Interval
<1>3. r \in Injection(D, 1..Cardinality(D)) BY DEF Injection, IsInjective
<1>4. r \in Surjection(D, 1..Cardinality(D)) BY <1>2, <1>3, FS_Injection
<1> QED BY <1>4 DEF Surjection

(* As Only counts them, a set of indices has one index in every place. *)
Up(I, i) == {j \in I : j <= i}

(* The places that Only counts for the members of I are 1 to their number, each taken once. *)
LEMMA PlacesAreTaken ==
  ASSUME NEW I \in SUBSET Nat, IsFiniteSet(I)
  PROVE  /\ Cardinality(I) \in Nat
         /\ \A i \in I : Cardinality(Up(I, i)) \in 1..Cardinality(I)
         /\ \A i, j \in I : Cardinality(Up(I, i)) = Cardinality(Up(I, j)) => i = j
         /\ \A k \in 1..Cardinality(I) : \E i \in I : Cardinality(Up(I, i)) = k
<1> DEFINE r == [i \in I |-> Cardinality(Up(I, i))]
<1>0. \A i \in I : i \in Nat OBVIOUS
<1>1. Cardinality(I) \in Nat BY FS_CardinalityType
<1>2. ASSUME NEW i \in I PROVE IsFiniteSet(Up(I, i)) /\ Cardinality(Up(I, i)) \in 1..Cardinality(I)
  <2>1. Up(I, i) \in SUBSET I /\ i \in Up(I, i) BY <1>0 DEF Up
  <2>2. IsFiniteSet(Up(I, i)) /\ Cardinality(Up(I, i)) <= Cardinality(I) BY <2>1, FS_Subset
  <2>3. Cardinality(Up(I, i)) # 0 BY <2>1, <2>2, FS_EmptySet
  <2> QED BY <1>1, <2>2, <2>3, FS_CardinalityType
<1>3. r \in [I -> 1..Cardinality(I)] BY <1>2
<1>4. ASSUME NEW a \in I, NEW b \in I, a < b PROVE r[a] < r[b]
  <2>0. a \in Nat /\ b \in Nat BY <1>0
  <2>1. b \in Up(I, b) /\ b \notin Up(I, a) BY <1>4, <2>0 DEF Up
  <2>2. \A j \in I : j <= a => j <= b BY <1>0, <1>4, <2>0
  <2>3. Up(I, a) \in SUBSET Up(I, b) BY <2>2 DEF Up
  <2>4. Cardinality(Up(I, a)) <= Cardinality(Up(I, b)) /\ Cardinality(Up(I, a)) # Cardinality(Up(I, b))
    BY <1>2, <2>1, <2>3, FS_Subset
  <2> QED BY <1>1, <1>2, <2>4
<1>5. \A i \in I : r[i] = Cardinality(Up(I, i)) OBVIOUS
<1> HIDE DEF r
<1>6. ASSUME NEW a \in I, NEW b \in I, r[a] = r[b] PROVE a = b
  <2>1. a \in Nat /\ b \in Nat /\ r[a] \in 1..Cardinality(I) /\ r[b] \in 1..Cardinality(I) BY <1>0, <1>3
  <2>2. ~(a < b) /\ ~(b < a) BY <1>1, <1>4, <1>6, <2>1
  <2> QED BY <2>1, <2>2
<1>7. \A k \in 1..Cardinality(I) : \E i \in I : r[i] = k BY <1>3, <1>6, AllGiven
<1> QED BY <1>1, <1>2, <1>5, <1>6, <1>7

(* What filter returns: elements of the sequence, all those chosen and no others. *)
LEMMA Filtered ==
  ASSUME NEW S, NEW s \in Seq(S), NEW I \in SUBSET DOMAIN s
  PROVE  /\ Only(s, I) \in Seq(S) /\ Len(Only(s, I)) = Cardinality(I)
         /\ Range(Only(s, I)) = {s[i] : i \in I}
         /\ Only(s, I) = <<>> <=> I = {}
         /\ (\A i, j \in I : s[i] = s[j] => i = j) => IsInjective(Only(s, I))
<1> DEFINE n == Cardinality(I)
           at == [k \in 1..n |-> CHOOSE i \in I : Cardinality(Up(I, i)) = k]
           o == Only(s, I)
<1>1. IsFiniteSet(I) /\ I \in SUBSET Nat
  <2>1. DOMAIN s = 1..Len(s) /\ Len(s) \in Nat OBVIOUS
  <2>2. IsFiniteSet(1..Len(s)) BY <2>1, FS_Interval
  <2> QED BY <2>1, <2>2, FS_Subset
<1>2. /\ n \in Nat
      /\ \A i \in I : Cardinality(Up(I, i)) \in 1..n
      /\ \A i, j \in I : Cardinality(Up(I, i)) = Cardinality(Up(I, j)) => i = j
      /\ \A k \in 1..n : \E i \in I : Cardinality(Up(I, i)) = k
  <2> HIDE DEF n
  <2> QED BY <1>1, PlacesAreTaken DEF n
<1>3. \A k \in 1..n : at[k] \in I /\ Cardinality(Up(I, at[k])) = k BY <1>2
<1>4. o = [k \in 1..n |-> s[at[k]]] BY DEF Only, Up
<1> HIDE DEF at, o, n
<1>5. \A k \in 1..n : at[k] \in DOMAIN s /\ s[at[k]] \in S BY <1>3
<1>6. o \in [1..n -> S] BY <1>4, <1>5
<1>7. o \in Seq(S) /\ Len(o) = n /\ DOMAIN o = 1..n BY <1>2, <1>6
<1>8. \A i \in I : \E k \in 1..n : at[k] = i
  <2>1. SUFFICES ASSUME NEW i \in I PROVE \E k \in 1..n : at[k] = i OBVIOUS
  <2>2. Cardinality(Up(I, i)) \in 1..n BY <1>2
  <2>3. at[Cardinality(Up(I, i))] = i BY <1>2, <1>3, <2>2
  <2> QED BY <2>2, <2>3
<1>9. Range(o) = {s[i] : i \in I}
  <2>1. \A k \in 1..n : o[k] = s[at[k]] BY <1>4
  <2>2. Range(o) = {o[k] : k \in 1..n} BY <1>7 DEF Range
  <2>3. {o[k] : k \in 1..n} = {s[at[k]] : k \in 1..n} BY <2>1
  <2>4. {s[at[k]] : k \in 1..n} = {s[i] : i \in I} BY <1>3, <1>8
  <2> QED BY <2>2, <2>3, <2>4
<1>10. o = <<>> <=> I = {}
  <2>1. n = 0 <=> I = {} BY <1>1, FS_EmptySet DEF n
  <2>2. o = <<>> <=> Len(o) = 0 BY <1>7
  <2> QED BY <1>7, <2>1, <2>2
<1>11. ASSUME \A i, j \in I : s[i] = s[j] => i = j PROVE IsInjective(o)
  <2>1. ASSUME NEW j \in 1..n, NEW k \in 1..n, o[j] = o[k] PROVE j = k
    <3>1. s[at[j]] = s[at[k]] BY <1>4, <2>1
    <3>2. at[j] = at[k] BY <1>3, <1>11, <3>1
    <3> QED BY <1>3, <3>2
  <2> QED BY <1>7, <2>1 DEF IsInjective
<1> QED BY <1>7, <1>9, <1>10, <1>11 DEF o, n

(* A finite set is put in an order that names each element once. *)
LEMMA SetInOrder ==
  ASSUME NEW S, IsFiniteSet(S)
  PROVE  SetToSeq(S) \in Seq(S) /\ IsInjective(SetToSeq(S)) /\ Range(SetToSeq(S)) = S
<1> DEFINE n == Cardinality(S)
           o == SetToSeq(S)
<1>1. n \in Nat BY FS_CardinalityType
<1>2. \E f \in [1..n -> S] : IsInjective(f)
  <2>1. PICK f : f \in Bijection(1..n, S)
    <3>1. ExistsBijection(1..n, S) BY FS_NatBijection, FS_CountingElements, FS_CardinalityType, FS_Interval
    <3> QED BY <3>1 DEF ExistsBijection
  <2> QED BY <2>1 DEF Bijection, Injection
<1>3. o \in [1..n -> S] /\ IsInjective(o)
  <2> DEFINE f == CHOOSE f \in [1..n -> S] : IsInjective(f)
  <2>1. f \in [1..n -> S] /\ IsInjective(f) BY <1>2
  <2>2. o = f BY DEF SetToSeq
  <2> HIDE DEF f, o, n
  <2> QED BY <2>1, <2>2
<1> HIDE DEF o
<1>4. o \in Surjection(1..n, S)
  <2>1. IsFiniteSet(1..n) /\ Cardinality(1..n) = n BY <1>1, FS_Interval
  <2>2. o \in Injection(1..n, S) BY <1>3 DEF Injection
  <2> QED BY <2>1, <2>2, FS_Injection
<1>5. Range(o) = S BY <1>3, <1>4 DEF Surjection, Range
<1> QED BY <1>1, <1>3, <1>5 DEF o

-----------------------------------------------------------------------------
(* The order of the tracks. *)
TrackSeqs == Seq(1..MaxTracks)

(* The bound on tracks is a number. *)
LEMMA MaxTracksIsNat == MaxTracks \in Nat BY ReviewAssumption

(* A move leaves the tracks that there are, each in one place. *)
LEMMA MovedKeeps ==
  ASSUME NEW order \in TrackSeqs, IsInjective(order), NEW track, NEW after
  PROVE  /\ Moved(order, track, after) \in TrackSeqs /\ IsInjective(Moved(order, track, after))
         /\ Range(Moved(order, track, after)) = Range(order)
<1> DEFINE S == 1..MaxTracks
           others == {i \in DOMAIN order : order[i] # track}
           rest == Only(order, others)
           at == IF after = First THEN 0
                 ELSE IF Contains(rest, after) THEN CHOOSE i \in DOMAIN rest : rest[i] = after ELSE Len(rest)
           m == InsertAt(rest, at + 1, track)
<1>1. order \in Seq(S) /\ DOMAIN order = 1..Len(order) /\ Len(order) \in Nat BY DEF TrackSeqs
<1>2. /\ rest \in Seq(S) /\ Range(rest) = {order[i] : i \in others} /\ IsInjective(rest)
  <2>1. others \in SUBSET DOMAIN order OBVIOUS
  <2>2. \A i, j \in others : order[i] = order[j] => i = j BY DEF IsInjective
  <2> HIDE DEF others
  <2> QED BY <1>1, <2>1, <2>2, Filtered
<1>3. Range(rest) = Range(order) \ {track} BY <1>2 DEF Range
<1> HIDE DEF rest, S
<1> DEFINE n == Len(rest)
<1>4. n \in Nat /\ DOMAIN rest = 1..n BY <1>2
<1>5. at \in 0..n
  <2>1. CASE after = First BY <1>4, <2>1
  <2>2. CASE after # First /\ Contains(rest, after)
    <3>1. \E i \in DOMAIN rest : rest[i] = after BY <1>4, <2>2 DEF Contains
    <3>2. at \in DOMAIN rest BY <2>2, <3>1
    <3> QED BY <1>4, <3>2
  <2>3. CASE after # First /\ ~Contains(rest, after) BY <1>4, <2>3
  <2> QED BY <2>1, <2>2, <2>3
<1>6. Moved(order, track, after) = IF Contains(order, track) THEN m ELSE order BY DEF Moved, rest
<1> HIDE DEF at
<1>7. CASE ~Contains(order, track) BY <1>6, <1>7
<1>8. CASE Contains(order, track)
  <2>1. track \in Range(order) /\ track \in S
    <3>1. PICK i \in 1..Len(order) : order[i] = track BY <1>8 DEF Contains
    <3> QED BY <1>1, <3>1 DEF Range
  <2> DEFINE a == SubSeq(rest, 1, at)
             b == SubSeq(rest, at + 1, n)
  <2>2. m = a \o <<track>> \o b
    <3>1. (at + 1) - 1 = at BY <1>4, <1>5
    <3>2. m = SubSeq(rest, 1, (at + 1) - 1) \o <<track>> \o SubSeq(rest, at + 1, Len(rest)) BY DEF InsertAt
    <3> HIDE DEF m
    <3> QED BY <3>1, <3>2
  <2>3. /\ a \in Seq(S) /\ Len(a) = at /\ \A k \in 1..at : a[k] = rest[k]
        /\ b \in Seq(S) /\ Len(b) = n - at /\ \A k \in 1..(n - at) : b[k] = rest[at + k]
    <3>1. at \in Nat /\ at <= n BY <1>4, <1>5
    <3>2. \A i \in 1..n : rest[i] \in S BY <1>2, <1>4
    <3>3. /\ a \in Seq(S) /\ Len(a) = (IF 1 <= at THEN at - 1 + 1 ELSE 0)
          /\ \A k \in 1..(at - 1 + 1) : a[k] = rest[1 + k - 1]
      <4>1. at \in Int /\ \A i \in 1..at : rest[i] \in S BY <1>4, <3>1, <3>2
      <4> QED BY <4>1, SubSeqProperties
    <3>4. /\ b \in Seq(S) /\ Len(b) = (IF at + 1 <= n THEN n - (at + 1) + 1 ELSE 0)
          /\ \A k \in 1..(n - (at + 1) + 1) : b[k] = rest[(at + 1) + k - 1]
      <4>1. at + 1 \in Int /\ n \in Int /\ \A i \in (at + 1)..n : rest[i] \in S BY <1>4, <3>1, <3>2
      <4> DEFINE l == at + 1
      <4> HIDE DEF l, n
      <4>2. l \in Int /\ \A i \in l..n : rest[i] \in S BY <4>1 DEF l
      <4>3. /\ SubSeq(rest, l, n) \in Seq(S) /\ Len(SubSeq(rest, l, n)) = (IF l <= n THEN n - l + 1 ELSE 0)
            /\ \A k \in 1..(n - l + 1) : SubSeq(rest, l, n)[k] = rest[l + k - 1]
        BY <4>1, <4>2, SubSeqProperties
      <4> QED BY <4>3 DEF l
    <3> HIDE DEF a, b
    <3>5. Len(a) = at /\ \A k \in 1..at : a[k] = rest[k]
      <4>1. at - 1 + 1 = at /\ \A k \in 1..at : 1 + k - 1 = k BY <3>1
      <4> QED BY <3>1, <3>3, <4>1
    <3>6. Len(b) = n - at /\ \A k \in 1..(n - at) : b[k] = rest[at + k]
      <4>1. n - (at + 1) + 1 = n - at /\ \A k \in 1..(n - at) : (at + 1) + k - 1 = at + k BY <1>4, <3>1
      <4>2. ~(at + 1 <= n) => n - at = 0
        <5>1. at \in Nat /\ n \in Nat /\ at <= n BY <1>4, <3>1
        <5> HIDE DEF n
        <5> QED BY ONLY <5>1
      <4>3. Len(b) = n - at BY ONLY <3>4, <4>1, <4>2
      <4>4. ASSUME NEW k \in 1..(n - at) PROVE b[k] = rest[at + k]
        <5>1. k \in 1..(n - (at + 1) + 1) BY <4>1
        <5>2. b[k] = rest[(at + 1) + k - 1] BY <3>4, <5>1
        <5> QED BY <4>1, <5>2
      <4> QED BY <4>3, <4>4
    <3> QED BY <3>3, <3>4, <3>5, <3>6
  <2> HIDE DEF a, b, m
  <2>4. /\ m \in Seq(S) /\ Len(m) = n + 1
        /\ \A k \in 1..(n + 1) : m[k] = IF k <= at THEN rest[k] ELSE IF k = at + 1 THEN track ELSE rest[k - 1]
    <3>1. at \in Nat /\ at <= n BY <1>4, <1>5
    <3> DEFINE t == <<track>>
    <3>2. t \in Seq(S) /\ Len(t) = 1 /\ t[1] = track BY <2>1
    <3> HIDE DEF t
    <3>3. a \o t \in Seq(S) /\ Len(a \o t) = at + 1
          /\ \A k \in 1..(at + 1) : (a \o t)[k] = IF k <= at THEN a[k] ELSE t[k - at]
      <4>1. a \in Seq(S) /\ t \in Seq(S) BY <2>3, <3>2
      <4>2. /\ a \o t \in Seq(S) /\ Len(a \o t) = Len(a) + Len(t)
            /\ \A k \in 1..Len(a) + Len(t) : (a \o t)[k] = IF k <= Len(a) THEN a[k] ELSE t[k - Len(a)]
        BY ONLY <4>1, ConcatProperties
      <4>3. Len(a) = at /\ Len(t) = 1 BY <2>3, <3>2
      <4> QED BY ONLY <4>2, <4>3
    <3> DEFINE u == a \o t
    <3>4. m = u \o b BY <2>2 DEF t
    <3>5. u \in Seq(S) /\ Len(u) = at + 1 /\ \A k \in 1..(at + 1) : u[k] = IF k <= at THEN rest[k] ELSE track
      <4>1. \A k \in 1..(at + 1) : k <= at => k \in 1..at BY <3>1
      <4>2. \A k \in 1..(at + 1) : ~(k <= at) => k - at = 1 BY <3>1
      <4> QED BY <2>3, <3>1, <3>2, <3>3, <4>1, <4>2
    <3> HIDE DEF u
    <3>6. m \in Seq(S) /\ Len(m) = (at + 1) + (n - at) /\ \A k \in 1..((at + 1) + (n - at)) :
            m[k] = IF k <= at + 1 THEN u[k] ELSE b[k - (at + 1)]
      <4>1. /\ u \o b \in Seq(S) /\ Len(u \o b) = Len(u) + Len(b)
            /\ \A k \in 1..Len(u) + Len(b) : (u \o b)[k] = IF k <= Len(u) THEN u[k] ELSE b[k - Len(u)]
        BY <2>3, <3>5, ConcatProperties
      <4>2. Len(u) = at + 1 /\ Len(b) = n - at BY <2>3, <3>5
      <4> HIDE DEF n
      <4> QED BY ONLY <3>4, <4>1, <4>2
    <3>7. (at + 1) + (n - at) = n + 1 BY <1>4, <3>1
    <3>8. ASSUME NEW k \in 1..(n + 1), k > at + 1 PROVE b[k - (at + 1)] = rest[k - 1]
      <4>1. k - (at + 1) \in 1..(n - at) /\ at + (k - (at + 1)) = k - 1 BY <1>4, <3>1, <3>8
      <4> QED BY <2>3, <4>1
    <3>9. ASSUME NEW k \in 1..(n + 1)
          PROVE m[k] = IF k <= at THEN rest[k] ELSE IF k = at + 1 THEN track ELSE rest[k - 1]
      <4>1. m[k] = IF k <= at + 1 THEN u[k] ELSE b[k - (at + 1)] BY <3>6, <3>7
      <4>2. CASE k <= at + 1
        <5>1. k \in 1..(at + 1) BY <1>4, <3>1, <4>2
        <5> QED BY <3>1, <3>5, <4>1, <4>2, <5>1
      <4>3. CASE k > at + 1
        <5>1. b[k - (at + 1)] = rest[k - 1] BY <3>8, <4>3
        <5> QED BY <1>4, <3>1, <4>1, <4>3, <5>1
      <4> QED BY <1>4, <3>1, <4>2, <4>3
    <3> QED BY <3>6, <3>7, <3>9
  <2>5. DOMAIN m = 1..(n + 1) BY <1>4, <2>4
  <2>6. ASSUME NEW k \in 1..(n + 1), k # at + 1 PROVE m[k] \in Range(order) \ {track}
    <3>1. CASE k <= at
      <4>1. k \in 1..n /\ m[k] = rest[k] BY <1>4, <1>5, <2>4, <3>1
      <4> QED BY <1>3, <1>4, <4>1 DEF Range
    <3>2. CASE k > at + 1
      <4>1. k - 1 \in 1..n /\ m[k] = rest[k - 1] BY <1>4, <1>5, <2>4, <3>2
      <4> QED BY <1>3, <1>4, <4>1 DEF Range
    <3> QED BY <1>4, <1>5, <2>6, <3>1, <3>2
  <2>7. at + 1 \in 1..(n + 1) /\ m[at + 1] = track BY <1>4, <1>5, <2>4
  <2>8. Range(m) = Range(order)
    <3>1. ASSUME NEW x \in Range(m) PROVE x \in Range(order) BY <2>1, <2>5, <2>6, <2>7, <3>1 DEF Range
    <3>2. ASSUME NEW x \in Range(order) PROVE x \in Range(m)
      <4>1. CASE x = track BY <2>5, <2>7, <4>1 DEF Range
      <4>2. CASE x # track
        <5>1. PICK j \in 1..n : rest[j] = x BY <1>3, <1>4, <4>2 DEF Range
        <5>2. CASE j <= at
          <6>1. j \in 1..(n + 1) /\ m[j] = x BY <1>4, <1>5, <2>4, <5>1, <5>2
          <6> QED BY <2>5, <6>1 DEF Range
        <5>3. CASE j > at
          <6>1. j + 1 \in 1..(n + 1) /\ ~(j + 1 <= at) /\ j + 1 # at + 1 /\ (j + 1) - 1 = j
            BY <1>4, <1>5, <5>3
          <6>2. m[j + 1] = x BY <2>4, <5>1, <6>1
          <6> QED BY <2>5, <6>1, <6>2 DEF Range
        <5> QED BY <1>4, <1>5, <5>2, <5>3
      <4> QED BY <4>1, <4>2
    <3> QED BY <3>1, <3>2
  <2>9. ASSUME NEW j \in 1..(n + 1), NEW k \in 1..(n + 1), m[j] = m[k] PROVE j = k
    <3>1. CASE j = at + 1 BY <2>6, <2>7, <2>9, <3>1
    <3>2. CASE k = at + 1 BY <2>6, <2>7, <2>9, <3>2
    <3>3. CASE j # at + 1 /\ k # at + 1
      <4> DEFINE back(i) == IF i <= at THEN i ELSE i - 1
      <4>1. \A i \in 1..(n + 1) : i # at + 1 => back(i) \in 1..n /\ m[i] = rest[back(i)]
        BY <1>4, <1>5, <2>4
      <4>2. back(j) = back(k) BY <1>2, <1>4, <2>9, <3>3, <4>1 DEF IsInjective
      <4> QED BY <1>4, <1>5, <3>3, <4>2
    <3> QED BY <3>1, <3>2, <3>3
  <2>10. IsInjective(m) BY <2>5, <2>9 DEF IsInjective
  <2> QED BY <1>6, <1>8, <2>4, <2>8, <2>10 DEF S, TrackSeqs
<1> QED BY <1>7, <1>8

-----------------------------------------------------------------------------
(* The invariant. *)
Statuses == {"open", "acknowledged", "resolved"}
Timings == [start : Int, duration : Int]
ClipSet == [track : 0..MaxTracks, start : Int, duration : Int]
PreviewSet == [current : Timings, incoming : Timings,
               currentOrder : TrackSeqs, incomingOrder : TrackSeqs, manualOrder : TrackSeqs]
ItemSet == [conflict : Known, project : Projects, kind : Kinds \cup {"unknown"}, status : Statuses, preview : PreviewSet]
EntrySet == [conflict : Known, status : Statuses]

TracksOK(t) ==
  /\ t \in [Projects -> TrackSeqs] /\ \A p \in Projects : IsInjective(t[p])
  /\ \A p, q \in Projects : p # q => Range(t[p]) \cap Range(t[q]) = {}
Grows(t, u) == \A p \in Projects : Range(t[p]) \subseteq Range(u[p])

(* Tracks are added and ordered anew, never lost or moved to another project; a clip is on *)
(* the track it was on at first, or gone.                                                  *)
GraphOK(g) ==
  /\ DOMAIN g = {"clips", "tracks", "media", "reviewTrack", "made", "archived"}
  /\ g.clips \in [Clips -> ClipSet] /\ TracksOK(g.tracks) /\ g.made \in [Conflicts -> Nat]
  /\ \A x \in Clips : g.clips[x].track \in {0, scene.clips[x].track}
  /\ Grows(scene.tracks, g.tracks)

(* What is known of a scene. *)
LEMMA SceneFacts ==
  ASSUME scene \in Scenes
  PROVE  /\ scene.projects \in Seq(Projects) /\ scene.projects # <<>>
         /\ GraphAssumed(scene) /\ \A c \in Known : ConflictAssumed(scene, About(c))
         /\ Known \subseteq Conflicts /\ IsFiniteSet(Known) /\ scene.groups \subseteq Seq(Known)
         /\ \A g \in scene.groups : GroupAssumed(scene, g)
<1>1. IsFiniteSet(Conflicts) BY ReviewAssumption
<1>2. Known \subseteq Conflicts BY ReviewAssumption DEF Known
<1>3. IsFiniteSet(Known) BY <1>1, <1>2, FS_Subset
<1> QED BY <1>2, <1>3, ReviewAssumption DEF Known, About

(* What no step loses, several steps do not lose. *)
LEMMA GrowsTransitive ==
  ASSUME NEW t, NEW u, NEW v, Grows(t, u), Grows(u, v)
  PROVE  Grows(t, v)
BY DEF Grows

(* Each project's tracks in another order *)
LEMMA ReorderKeeps ==
  ASSUME NEW t, TracksOK(t), NEW u \in [Projects -> TrackSeqs],
         \A p \in Projects : IsInjective(u[p]) /\ Range(u[p]) = Range(t[p])
  PROVE  TracksOK(u) /\ Grows(t, u)
<1>1. Grows(t, u) BY DEF Grows
<1>2. \A p, q \in Projects : p # q => Range(u[p]) \cap Range(u[q]) = {}
  <2>1. \A p, q \in Projects : p # q => Range(t[p]) \cap Range(t[q]) = {} BY DEF TracksOK
  <2>2. \A p \in Projects : Range(u[p]) = Range(t[p]) OBVIOUS
  <2> QED BY ONLY <2>1, <2>2
<1> QED BY <1>1, <1>2 DEF TracksOK

(* A track that is new in all *)
LEMMA AddedKeeps ==
  ASSUME NEW t, TracksOK(t), NEW p \in Projects, NEW x \in 1..MaxTracks, \A q \in Projects : x \notin Range(t[q])
  PROVE  LET u == [t EXCEPT ![p] = Append(@, x)] IN TracksOK(u) /\ Grows(t, u)
<1> DEFINE s == t[p]
           a == Append(s, x)
           u == [t EXCEPT ![p] = a]
<1>1. t \in [Projects -> TrackSeqs] /\ \A q \in Projects : IsInjective(t[q]) BY DEF TracksOK
<1>2. s \in TrackSeqs /\ IsInjective(s) /\ x \notin Range(s) BY <1>1
<1> HIDE DEF s
<1>3. /\ s \in Seq(1..MaxTracks) /\ Len(s) \in Nat /\ DOMAIN s = 1..Len(s)
      /\ a \in TrackSeqs /\ DOMAIN a = 1..(Len(s) + 1) /\ a[Len(s) + 1] = x /\ \A i \in 1..Len(s) : a[i] = s[i]
  BY <1>2 DEF TrackSeqs
<1> HIDE DEF a
<1>4. \A i \in 1..(Len(s) + 1) : i # Len(s) + 1 => i \in 1..Len(s) BY <1>3
<1>5. \A i \in 1..Len(s) : s[i] \in Range(s) BY <1>3 DEF Range
<1>6. Range(a) = Range(s) \cup {x}
  <2>1. ASSUME NEW y \in Range(a) PROVE y \in Range(s) \cup {x}
    <3>1. PICK i \in 1..(Len(s) + 1) : y = a[i] BY <1>3, <2>1 DEF Range
    <3> QED BY <1>3, <1>4, <1>5, <3>1
  <2>2. ASSUME NEW i \in 1..Len(s) PROVE s[i] \in Range(a)
    <3>1. i \in DOMAIN a /\ a[i] = s[i] BY <1>3
    <3> QED BY <3>1 DEF Range
  <2>3. x \in Range(a)
    <3>1. Len(s) + 1 \in DOMAIN a BY <1>3
    <3> QED BY <1>3, <3>1 DEF Range
  <2>4. \A y \in Range(s) : y \in Range(a) BY <1>3, <2>2 DEF Range
  <2> QED BY <2>1, <2>3, <2>4
<1>7. IsInjective(a)
  <2>1. ASSUME NEW i \in 1..(Len(s) + 1), NEW j \in 1..(Len(s) + 1), a[i] = a[j] PROVE i = j
    <3>1. CASE i = Len(s) + 1 BY <1>2, <1>3, <1>4, <1>5, <2>1, <3>1
    <3>2. CASE j = Len(s) + 1 BY <1>2, <1>3, <1>4, <1>5, <2>1, <3>2
    <3>3. CASE i # Len(s) + 1 /\ j # Len(s) + 1
      <4>1. i \in 1..Len(s) /\ j \in 1..Len(s) /\ s[i] = s[j] BY <1>3, <1>4, <2>1, <3>3
      <4> QED BY <1>2, <1>3, <4>1 DEF IsInjective
    <3> QED BY <3>1, <3>2, <3>3
  <2> QED BY <1>3, <2>1 DEF IsInjective
<1>8. u \in [Projects -> TrackSeqs] /\ u[p] = a /\ \A q \in Projects : q # p => u[q] = t[q]
  BY <1>1, <1>3
<1>9. Grows(t, u) BY <1>6, <1>8 DEF Grows, s
<1>10. \A q, r \in Projects : q # r => Range(u[q]) \cap Range(u[r]) = {}
  <2>1. \A q, r \in Projects : q # r => Range(t[q]) \cap Range(t[r]) = {} BY DEF TracksOK
  <2>2. \A q \in Projects : Range(u[q]) = IF q = p THEN Range(t[p]) \cup {x} ELSE Range(t[q]) BY <1>6, <1>8 DEF s
  <2>3. \A q \in Projects : x \notin Range(t[q]) OBVIOUS
  <2> QED BY ONLY <2>1, <2>2, <2>3
<1>11. TracksOK(u) BY <1>1, <1>7, <1>8, <1>10 DEF TracksOK
<1>12. u = [t EXCEPT ![p] = Append(@, x)] BY DEF s, a
<1> QED BY <1>9, <1>11, <1>12

(* A graph whose tracks, clips and counters follow those of a sound one is sound. *)
LEMMA GraphFollows ==
  ASSUME NEW g, GraphOK(g), NEW h, DOMAIN h = DOMAIN g,
         h.clips \in [Clips -> ClipSet], \A x \in Clips : h.clips[x].track \in {0, g.clips[x].track},
         TracksOK(h.tracks), Grows(g.tracks, h.tracks), h.made \in [Conflicts -> Nat]
  PROVE  GraphOK(h)
<1>1. \A x \in Clips : h.clips[x].track \in {0, scene.clips[x].track} BY DEF GraphOK
<1>2. Grows(scene.tracks, h.tracks) BY GrowsTransitive DEF GraphOK
<1> QED BY <1>1, <1>2 DEF GraphOK

(* A graph follows itself. *)
LEMMA GraphStays ==
  ASSUME NEW g, GraphOK(g)
  PROVE  TracksOK(g.tracks) /\ Grows(g.tracks, g.tracks) /\ g.clips \in [Clips -> ClipSet]
         /\ g.made \in [Conflicts -> Nat] /\ \A x \in Clips : g.clips[x].track \in {0, g.clips[x].track}
BY DEF GraphOK, Grows

(* A track more *)
LEMMA LastTrackIsLast ==
  ASSUME NEW g, GraphOK(g)
  PROVE  /\ LastTrack(g) \in 0..MaxTracks
         /\ \A p \in Projects : \A x \in Range(g.tracks[p]) : x <= LastTrack(g)
<1> DEFINE all == {0} \cup UNION {Range(g.tracks[p]) : p \in DOMAIN g.tracks}
<1>1. g.tracks \in [Projects -> TrackSeqs] BY DEF GraphOK, TracksOK
<1>2. ASSUME NEW p \in Projects PROVE Range(g.tracks[p]) \subseteq 1..MaxTracks
  <2>1. g.tracks[p] \in Seq(1..MaxTracks) BY <1>1 DEF TrackSeqs
  <2> QED BY <2>1, RangeIn
<1>3. all \subseteq 0..MaxTracks /\ 0 \in all
  <2>1. 0 \in 0..MaxTracks /\ \A x \in 1..MaxTracks : x \in 0..MaxTracks BY MaxTracksIsNat
  <2>2. DOMAIN g.tracks = Projects BY <1>1
  <2> QED BY <1>2, <2>1, <2>2
<1>4. Max(all) \in all /\ \A y \in all : y <= Max(all)
  <2> HIDE DEF all
  <2> QED BY <1>3, MaxTracksIsNat, MaxIsGreatest
<1>5. LastTrack(g) = Max(all) BY DEF LastTrack
<1>6. \A p \in Projects : \A x \in Range(g.tracks[p]) : x \in all BY <1>1
<1> HIDE DEF all
<1> QED BY <1>3, <1>4, <1>5, <1>6

(* The track that is added is new: the last number that is given is the greatest. *)
LEMMA WithTrackKeeps ==
  ASSUME NEW g, GraphOK(g), NEW p \in Projects, LastTrack(g) < MaxTracks
  PROVE  /\ GraphOK(WithTrack(g, p)) /\ Grows(g.tracks, WithTrack(g, p).tracks)
         /\ WithTrack(g, p).clips = g.clips /\ WithTrack(g, p).made = g.made
<1> DEFINE x == 1 + LastTrack(g)
           u == [g.tracks EXCEPT ![p] = Append(@, x)]
           h == WithTrack(g, p)
<1>1. x \in 1..MaxTracks /\ \A q \in Projects : x \notin Range(g.tracks[q])
  <2>1. LastTrack(g) \in 0..MaxTracks /\ \A q \in Projects : \A y \in Range(g.tracks[q]) : y <= LastTrack(g)
    BY LastTrackIsLast
  <2>2. x \in 1..MaxTracks /\ ~(x <= LastTrack(g)) BY <2>1, MaxTracksIsNat
  <2> QED BY <2>1, <2>2
<1>2. TracksOK(u) /\ Grows(g.tracks, u)
  <2> HIDE DEF x
  <2>1. TracksOK(g.tracks) BY DEF GraphOK
  <2> QED BY <1>1, <2>1, AddedKeeps
<1>3. h = [g EXCEPT !.tracks = u]
  BY DEF WithTrack, GraphOK
<1> HIDE DEF u, h
<1>4. DOMAIN h = DOMAIN g /\ h.tracks = u /\ h.clips = g.clips /\ h.made = g.made BY <1>3 DEF GraphOK
<1>5. GraphOK(h)
  <2>1. h.clips \in [Clips -> ClipSet] /\ h.made \in [Conflicts -> Nat]
        /\ \A y \in Clips : h.clips[y].track \in {0, g.clips[y].track}
    BY <1>4, GraphStays
  <2> QED BY <1>2, <1>4, <2>1, GraphFollows
<1> QED BY <1>2, <1>4, <1>5 DEF h

(* A clip that changes keeps its track or loses it. *)
LEMMA ClipsChange ==
  ASSUME NEW g, GraphOK(g), NEW clips \in [Clips -> ClipSet], \A x \in Clips : clips[x].track \in {0, g.clips[x].track}
  PROVE  GraphOK([g EXCEPT !.clips = clips]) /\ Grows(g.tracks, [g EXCEPT !.clips = clips].tracks)
<1> DEFINE h == [g EXCEPT !.clips = clips]
<1>1. DOMAIN h = DOMAIN g /\ h.clips = clips /\ h.tracks = g.tracks /\ h.made = g.made BY DEF GraphOK
<1> HIDE DEF h
<1>2. TracksOK(h.tracks) /\ Grows(g.tracks, h.tracks) /\ h.made \in [Conflicts -> Nat] BY <1>1, GraphStays
<1>3. GraphOK(h) BY <1>1, <1>2, GraphFollows
<1> QED BY <1>2, <1>3 DEF h

-----------------------------------------------------------------------------
(* What a decision, an edit and the layer's own choice do to the graph. *)

(* A step on the graph that keeps it sound and loses no track. *)
Sound(g, h) == GraphOK(h) /\ Grows(g.tracks, h.tracks)

(* A sound step after a sound step *)
LEMMA SoundTransitive ==
  ASSUME NEW g, NEW h, NEW k, Sound(g, h), Sound(h, k)
  PROVE  Sound(g, k)
BY GrowsTransitive DEF Sound

(* Clips with another timing *)
LEMMA WithTimingKeeps ==
  ASSUME NEW g, GraphOK(g), NEW clip, NEW t \in Timings
  PROVE  Sound(g, WithTiming(g, clip, t)) /\ WithTiming(g, clip, t).made = g.made
<1> DEFINE clips == [[g.clips EXCEPT ![clip].start = t.start] EXCEPT ![clip].duration = t.duration]
           one == [g.clips EXCEPT ![clip].start = t.start]
           h == [g EXCEPT !.clips = clips]
<1>1. t.start \in Int /\ t.duration \in Int BY DEF Timings
<1>2. g.clips \in [Clips -> ClipSet] /\ "clips" \in DOMAIN g BY DEF GraphOK
<1>3. one \in [Clips -> ClipSet] /\ \A x \in Clips : one[x].track = g.clips[x].track BY <1>1, <1>2 DEF ClipSet
<1>4. clips = [one EXCEPT ![clip].duration = t.duration] OBVIOUS
<1>5. WithTiming(g, clip, t) = h BY <1>2 DEF WithTiming
<1> HIDE DEF one, clips
<1>6. clips \in [Clips -> ClipSet] /\ \A x \in Clips : clips[x].track = one[x].track BY <1>1, <1>3, <1>4 DEF ClipSet
<1>7. \A x \in Clips : clips[x].track \in {0, g.clips[x].track} BY <1>3, <1>6
<1>8. Sound(g, h) BY <1>6, <1>7, ClipsChange DEF Sound
<1>9. h.made = g.made BY DEF GraphOK
<1> QED BY <1>5, <1>8, <1>9

(* A count more of what was made or archived, another field that is not about clips or tracks *)
LEMMA OtherKeeps ==
  ASSUME NEW g, GraphOK(g), NEW h, DOMAIN h = DOMAIN g, h.clips = g.clips, h.tracks = g.tracks,
         h.made \in [Conflicts -> Nat]
  PROVE  Sound(g, h)
<1>1. /\ h.clips \in [Clips -> ClipSet] /\ \A x \in Clips : h.clips[x].track \in {0, g.clips[x].track}
      /\ TracksOK(h.tracks) /\ Grows(g.tracks, h.tracks)
  BY GraphStays
<1>2. GraphOK(h) BY <1>1, GraphFollows
<1> QED BY <1>1, <1>2 DEF Sound

(* The tracks of a project as an order says, those made since last *)
LEMMA ApplyOrderKeeps ==
  ASSUME NEW g, GraphOK(g), NEW p \in Projects, NEW order \in TrackSeqs, CanOrder(g, p, order)
  PROVE  Sound(g, ApplyOrder(g, p, order)) /\ ApplyOrder(g, p, order).made = g.made
<1> DEFINE s == g.tracks[p]
           later == {i \in DOMAIN s : ~Contains(order, s[i])}
           rest == Only(s, later)
           o == order \o rest
           u == [g.tracks EXCEPT ![p] = o]
           h == [g EXCEPT !.tracks = u]
<1>1. g.tracks \in [Projects -> TrackSeqs] /\ s \in TrackSeqs /\ IsInjective(s) BY DEF GraphOK, TracksOK
<1>2. IsInjective(order) /\ Range(order) \subseteq Range(s) BY DEF CanOrder
<1>3. h = ApplyOrder(g, p, order) BY DEF ApplyOrder, GraphOK
<1>5. \A i \in DOMAIN s : Contains(order, s[i]) <=> s[i] \in Range(order) BY DEF Contains, Range, TrackSeqs
<1> HIDE DEF s
<1>6. /\ rest \in TrackSeqs /\ Range(rest) = {s[i] : i \in later} /\ IsInjective(rest)
  <2>1. later \in SUBSET DOMAIN s /\ s \in Seq(1..MaxTracks) BY <1>1 DEF TrackSeqs
  <2>2. \A i, j \in later : s[i] = s[j] => i = j BY <1>1 DEF IsInjective
  <2> HIDE DEF later
  <2> QED BY <2>1, <2>2, Filtered DEF TrackSeqs
<1>7. Range(rest) = Range(s) \ Range(order) BY <1>5, <1>6 DEF Range
<1> HIDE DEF rest
<1>8. /\ o \in TrackSeqs /\ DOMAIN o = 1..(Len(order) + Len(rest))
      /\ \A i \in 1..(Len(order) + Len(rest)) : o[i] = IF i <= Len(order) THEN order[i] ELSE rest[i - Len(order)]
      /\ Len(order) \in Nat /\ Len(rest) \in Nat /\ DOMAIN order = 1..Len(order) /\ DOMAIN rest = 1..Len(rest)
  BY <1>6, ConcatProperties DEF TrackSeqs
<1> HIDE DEF o
<1> DEFINE m == Len(order)
           n == Len(rest)
<1>9. ASSUME NEW i \in 1..(m + n)
      PROVE  \/ i \in 1..m /\ o[i] = order[i] /\ o[i] \in Range(order)
             \/ i - m \in 1..n /\ o[i] = rest[i - m] /\ o[i] \in Range(rest)
  <2>1. CASE i <= m
    <3>1. i \in 1..m /\ o[i] = order[i] BY <1>8, <2>1
    <3> QED BY <1>8, <3>1 DEF Range
  <2>2. CASE i > m
    <3>1. i - m \in 1..n /\ o[i] = rest[i - m] BY <1>8, <2>2
    <3> QED BY <1>8, <3>1 DEF Range
  <2> QED BY <1>8, <2>1, <2>2
<1>10. IsInjective(o)
  <2>1. ASSUME NEW i \in 1..(m + n), NEW j \in 1..(m + n), o[i] = o[j] PROVE i = j
    <3>1. CASE o[i] \in Range(order)
      <4>1. i \in 1..m /\ o[i] = order[i] /\ j \in 1..m /\ o[j] = order[j] BY <1>7, <1>9, <2>1, <3>1
      <4> QED BY <1>2, <1>8, <2>1, <4>1 DEF IsInjective
    <3>2. CASE o[i] \notin Range(order)
      <4>1. i - m \in 1..n /\ o[i] = rest[i - m] /\ j - m \in 1..n /\ o[j] = rest[j - m]
        BY <1>9, <2>1, <3>2
      <4>2. i - m = j - m BY <1>6, <1>8, <2>1, <4>1 DEF IsInjective
      <4> QED BY <1>8, <4>2
    <3> QED BY <3>1, <3>2
  <2> QED BY <1>8, <2>1 DEF IsInjective
<1>11. Range(o) = Range(s)
  <2>1. ASSUME NEW y \in Range(o) PROVE y \in Range(s)
    <3>1. PICK i \in 1..(m + n) : y = o[i] BY <1>8, <2>1 DEF Range
    <3> QED BY <1>2, <1>7, <1>9, <3>1
  <2>2. ASSUME NEW y \in Range(s) PROVE y \in Range(o)
    <3>1. CASE y \in Range(order)
      <4>1. PICK i \in 1..m : y = order[i] BY <1>8, <3>1 DEF Range
      <4>2. i \in DOMAIN o /\ o[i] = y BY <1>8, <4>1
      <4> QED BY <4>2 DEF Range
    <3>2. CASE y \in Range(rest)
      <4>1. PICK i \in 1..n : y = rest[i] BY <1>8, <3>2 DEF Range
      <4>2. i + m \in 1..(m + n) /\ ~(i + m <= m) /\ (i + m) - m = i BY <1>8
      <4>3. i + m \in DOMAIN o /\ o[i + m] = y BY <1>8, <4>1, <4>2
      <4> QED BY <4>3 DEF Range
    <3> QED BY <1>7, <2>2, <3>1, <3>2
  <2> QED BY <2>1, <2>2
<1>12. TracksOK(u) /\ Grows(g.tracks, u)
  <2>1. u \in [Projects -> TrackSeqs] BY <1>1, <1>8
  <2>2. TracksOK(g.tracks) BY DEF GraphOK
  <2>3. \A q \in Projects : IsInjective(u[q]) /\ Range(u[q]) = Range(g.tracks[q])
    <3>1. \A q \in Projects : u[q] = IF q = p THEN o ELSE g.tracks[q] BY <1>1
    <3>2. \A q \in Projects : IsInjective(g.tracks[q]) BY DEF GraphOK, TracksOK
    <3> HIDE DEF u
    <3> QED BY <1>10, <1>11, <3>1, <3>2 DEF s
  <2> HIDE DEF u
  <2> QED BY <2>1, <2>2, <2>3, ReorderKeeps
<1> HIDE DEF u
<1>13. DOMAIN h = DOMAIN g /\ h.tracks = u /\ h.clips = g.clips /\ h.made = g.made BY DEF GraphOK
<1> HIDE DEF h
<1>14. GraphOK(h)
  <2>1. h.clips \in [Clips -> ClipSet] /\ h.made \in [Conflicts -> Nat]
        /\ \A y \in Clips : h.clips[y].track \in {0, g.clips[y].track}
    BY <1>13, GraphStays
  <2> QED BY <1>12, <1>13, <2>1, GraphFollows
<1> QED BY <1>3, <1>12, <1>13, <1>14 DEF Sound

(* One project's tracks moved *)
LEMMA TracksChange ==
  ASSUME NEW g, GraphOK(g), NEW u \in [Projects -> TrackSeqs],
         \A p \in Projects : IsInjective(u[p]) /\ Range(u[p]) = Range(g.tracks[p])
  PROVE  Sound(g, [g EXCEPT !.tracks = u])
<1> DEFINE h == [g EXCEPT !.tracks = u]
<1>1. TracksOK(u) /\ Grows(g.tracks, u) BY ReorderKeeps DEF GraphOK
<1>2. DOMAIN h = DOMAIN g /\ h.tracks = u /\ h.clips = g.clips /\ h.made = g.made BY DEF GraphOK
<1> HIDE DEF h
<1>3. GraphOK(h)
  <2>1. h.clips \in [Clips -> ClipSet] /\ h.made \in [Conflicts -> Nat]
        /\ \A y \in Clips : h.clips[y].track \in {0, g.clips[y].track}
    BY <1>2, GraphStays
  <2> QED BY <1>1, <1>2, <2>1, GraphFollows
<1> QED BY <1>1, <1>2, <1>3 DEF Sound, h

-----------------------------------------------------------------------------
(* From conflicts to items. *)
Offered(it) == {it.preview.currentOrder, it.preview.incomingOrder, it.preview.manualOrder}
Offers(g, it) ==
  it.kind = "track_order" => \A o \in Offered(it) : o # <<>> => CanOrder(g, it.project, o)

(* What is known of a conflict *)
LEMMA ConflictFacts ==
  ASSUME scene \in Scenes, NEW c \in Known
  PROVE  LET a == About(c) IN
         /\ a.kind \in Kinds /\ a.project \in Projects /\ a.project \in Range(scene.projects)
         /\ a.kind \in {"clip_timing", "track_order"} => a.alts \in Seq(Int) /\ Len(a.alts) = 2
         /\ a.kind = "clip_timing" => a.field \in Fields
         /\ a.kind # "track_order" => /\ a.clip \in Clips
                                      /\ scene.clips[a.clip].track \in Range(scene.tracks[a.project])
         /\ Kind(c) \in Kinds \cup {"unknown"} /\ (Kind(c) \in {"clip_timing", "delete_vs_edit"} => a.kind = Kind(c))
         /\ Kind(c) = "track_order" => a.kind = "track_order"
<1>1. ConflictAssumed(scene, About(c)) /\ Range(scene.projects) \subseteq Projects BY SceneFacts, RangeIn
<1>2. Kind(c) = About(c).kind \/ (About(c).kind = "track_order" /\ Kind(c) = "unknown") BY DEF Kind
<1> HIDE DEF About
<1> QED BY <1>1, <1>2 DEF ConflictAssumed, Kinds

(* The timing that a conflict offers differs from the current one in one number. *)
LEMMA IncomingIsTiming ==
  ASSUME scene \in Scenes, NEW g, GraphOK(g), NEW c \in Known, About(c).kind = "clip_timing"
  PROVE  Timing(g.clips[About(c).clip]) \in Timings /\ Incoming(g, c) \in Timings
<1> DEFINE a == About(c)
           now == Timing(g.clips[a.clip])
           alts == a.alts
           other == Only(alts, {i \in DOMAIN alts : alts[i] # now[a.field]})
           v == IF other # <<>> THEN other[1] ELSE alts[2]
<1>1. a.clip \in Clips /\ a.field \in Fields /\ alts \in Seq(Int) /\ Len(alts) = 2 BY ConflictFacts
<1>2. now \in Timings
  <2>1. g.clips[a.clip] \in ClipSet BY <1>1 DEF GraphOK
  <2> QED BY <2>1 DEF Timing, Timings, ClipSet
<1>3. v \in Int
  <2> DEFINE I == {i \in DOMAIN alts : alts[i] # now[a.field]}
  <2>1. other \in Seq(Int)
    <3>1. I \in SUBSET DOMAIN alts OBVIOUS
    <3> HIDE DEF I, alts
    <3> QED BY <1>1, <3>1, Filtered DEF I
  <2>2. alts[2] \in Int BY <1>1
  <2> HIDE DEF other
  <2>3. other # <<>> => other[1] \in Int BY <2>1
  <2> QED BY <2>2, <2>3
<1>4. Incoming(g, c) = [now EXCEPT ![a.field] = v] BY DEF Incoming
<1> HIDE DEF now, v
<1>5. [now EXCEPT ![a.field] = v] \in Timings
  <2>1. CASE a.field = "start" BY <1>2, <1>3, <2>1 DEF Timings
  <2>2. CASE a.field = "duration" BY <1>2, <1>3, <2>2 DEF Timings
  <2> QED BY <1>1, <2>1, <2>2 DEF Fields
<1> QED BY <1>2, <1>4, <1>5 DEF now

(* What stands for nothing is well typed. *)
LEMMA NoTimingIsTiming == NoTiming \in Timings /\ <<>> \in TrackSeqs /\ NoPreview \in PreviewSet
BY DEF NoTiming, Timings, TrackSeqs, NoPreview, PreviewSet

(* An item is well typed; what it offers can be applied if it is filed under the project *)
(* whose tracks it orders.                                                               *)
LEMMA ItemFacts ==
  ASSUME scene \in Scenes, NEW g, GraphOK(g), NEW c \in Known, NEW status \in Statuses, NEW project \in Projects
  PROVE  LET it == Item(g, c, status, project) IN
         /\ it \in ItemSet /\ it.conflict = c /\ it.status = status /\ it.project = project /\ it.kind = Kind(c)
         /\ (About(c).kind = "track_order" => project = About(c).project) => Offers(g, it)
<1> DEFINE it == Item(g, c, status, project)
           a == About(c)
           pre == Augmented(g, c)
<1>1. it = [conflict |-> c, project |-> project, kind |-> Kind(c), status |-> status, preview |-> pre] BY DEF Item
<1>2. Kind(c) \in Kinds \cup {"unknown"} BY ConflictFacts
<1>3. CASE Kind(c) = "track_order"
  <2>1. a.kind = "track_order" /\ a.project \in Projects BY <1>3, ConflictFacts
  <2> DEFINE t == g.tracks[a.project]
             one == Moved(t, a.track, a.alts[1])
             two == Moved(t, a.track, a.alts[2])
  <2>2. t \in TrackSeqs /\ IsInjective(t) BY <2>1 DEF GraphOK, TracksOK
  <2> HIDE DEF t
  <2>3. /\ one \in TrackSeqs /\ IsInjective(one) /\ Range(one) = Range(t)
        /\ two \in TrackSeqs /\ IsInjective(two) /\ Range(two) = Range(t)
    BY <2>2, MovedKeeps
  <2>4. pre = [NoPreview EXCEPT !.currentOrder = one, !.incomingOrder = two]
    BY <1>3 DEF Augmented, OrderPreview, Orders, t
  <2> HIDE DEF one, two
  <2>5. pre \in PreviewSet /\ pre.currentOrder = one /\ pre.incomingOrder = two /\ pre.manualOrder = <<>>
    BY <2>3, <2>4, NoTimingIsTiming DEF NoPreview, PreviewSet
  <2> HIDE DEF pre
  <2>6. it \in ItemSet /\ it.preview = pre BY <1>1, <1>2, <2>5 DEF ItemSet
  <2>7. ASSUME project = a.project PROVE Offers(g, it)
    <3>1. Offered(it) = {one, two, <<>>} BY <2>5, <2>6 DEF Offered
    <3>2. one # <<>> => CanOrder(g, project, one) BY <2>3, <2>7 DEF CanOrder, t
    <3>3. two # <<>> => CanOrder(g, project, two) BY <2>3, <2>7 DEF CanOrder, t
    <3>4. it.project = project BY <1>1
    <3> HIDE DEF it
    <3> QED BY <3>1, <3>2, <3>3, <3>4 DEF Offers
  <2> QED BY <1>1, <2>1, <2>6, <2>7
<1>4. CASE Kind(c) # "track_order"
  <2>1. pre \in PreviewSet
    <3>1. CASE Kind(c) = "clip_timing"
      <4>1. a.kind = "clip_timing" BY <3>1, ConflictFacts
      <4>2. Timing(g.clips[a.clip]) \in Timings /\ Incoming(g, c) \in Timings BY <4>1, IncomingIsTiming
      <4>3. pre = [NoPreview EXCEPT !.current = Timing(g.clips[a.clip]), !.incoming = Incoming(g, c)]
        BY <3>1 DEF Augmented, TimingPreview
      <4> QED BY <4>2, <4>3, NoTimingIsTiming DEF NoPreview, PreviewSet
    <3>2. CASE Kind(c) # "clip_timing"
      <4>1. pre = NoPreview BY <1>4, <3>2 DEF Augmented
      <4> QED BY <4>1, NoTimingIsTiming
    <3> QED BY <3>1, <3>2
  <2> HIDE DEF pre
  <2>2. it \in ItemSet BY <1>1, <1>2, <2>1 DEF ItemSet
  <2>3. Offers(g, it) BY <1>1, <1>4 DEF Offers
  <2> QED BY <1>1, <2>2, <2>3
<1> QED BY <1>3, <1>4

(* The project of a report is one of the root's; of a report that is about the order of *)
(* tracks it is the project of that order.                                              *)
LEMMA ProjectHintFacts ==
  ASSUME scene \in Scenes, NEW g, GraphOK(g), NEW cs \in SUBSET Known
  PROVE  /\ ProjectHint(g, cs) \in Projects
         /\ \A c \in cs : About(c).kind = "track_order" /\ (\A d \in cs : About(d).project = About(c).project)
              => ProjectHint(g, cs) = About(c).project
<1> DEFINE ps == scene.projects
           holding == {i \in DOMAIN ps : \E c \in cs : \E n \in Nodes(c) : Holds(g, ps[i], n)}
           at == IF holding # {} THEN Min(holding) ELSE 1
<1>1. ps \in Seq(Projects) /\ ps # <<>> BY SceneFacts
<1>2. DOMAIN ps = 1..Len(ps) /\ Len(ps) \in Nat /\ 1 \in DOMAIN ps /\ \A i \in DOMAIN ps : ps[i] \in Projects
  BY <1>1
<1>3. holding # {} => Min(holding) \in holding
  <2>1. holding \in SUBSET Nat BY <1>2
  <2> HIDE DEF holding
  <2> QED BY <2>1, MinIsMember
<1>4. at \in DOMAIN ps BY <1>2, <1>3
<1>5. ProjectHint(g, cs) = ps[at] BY DEF ProjectHint
<1>6. ASSUME NEW c \in cs, About(c).kind = "track_order", \A d \in cs : About(d).project = About(c).project
      PROVE  ps[at] = About(c).project
  <2> DEFINE P == About(c).project
  <2>1. P \in Projects /\ P \in Range(ps) BY ConflictFacts
  <2>2. Projects \cap Clips = {} BY ReviewAssumption
  <2>3. ASSUME NEW i \in DOMAIN ps, NEW d \in cs, NEW n \in Nodes(d), Holds(g, ps[i], n)
        PROVE  ps[i] = P
    <3>0. ps[i] \in Projects /\ DOMAIN g.clips = Clips BY <1>2 DEF GraphOK
    <3>1. CASE About(d).kind = "track_order"
      <4>1. n = P BY <1>6, <3>1 DEF Nodes
      <4>2. n \notin DOMAIN g.clips BY <2>1, <2>2, <3>0, <4>1
      <4> QED BY <2>3, <4>1, <4>2 DEF Holds
    <3>2. CASE About(d).kind # "track_order"
      <4>1. n = About(d).clip BY <3>2 DEF Nodes
      <4>2. n \in Clips /\ scene.clips[n].track \in Range(scene.tracks[P])
        BY <1>6, <3>2, <4>1, ConflictFacts
      <4>3. Contains(g.tracks[ps[i]], g.clips[n].track) BY <2>2, <2>3, <3>0, <4>2 DEF Holds
      <4>4. g.clips[n].track \in Range(g.tracks[ps[i]])
        <5>1. g.tracks[ps[i]] \in Seq(1..MaxTracks) BY <3>0 DEF GraphOK, TracksOK, TrackSeqs
        <5> QED BY <4>3, <5>1, RangeIn DEF Contains, Range
      <4>5. g.clips[n].track # 0
        <5>1. g.tracks[ps[i]] \in Seq(1..MaxTracks) BY <3>0 DEF GraphOK, TracksOK, TrackSeqs
        <5>2. Range(g.tracks[ps[i]]) \subseteq 1..MaxTracks BY <5>1, RangeIn
        <5>3. 0 \notin 1..MaxTracks BY MaxTracksIsNat
        <5> QED BY <4>4, <5>2, <5>3
      <4>6. g.clips[n].track = scene.clips[n].track BY <4>2, <4>5 DEF GraphOK
      <4>7. g.clips[n].track \in Range(g.tracks[P]) BY <2>1, <4>2, <4>6 DEF GraphOK, Grows
      <4> QED BY <2>1, <3>0, <4>4, <4>7 DEF GraphOK, TracksOK
    <3> QED BY <3>1, <3>2
  <2>4. holding # {}
    <3>1. PICK i \in DOMAIN ps : ps[i] = P BY <2>1 DEF Range
    <3>2. P \in Nodes(c) BY <1>6 DEF Nodes
    <3>3. Holds(g, ps[i], P) BY <3>1 DEF Holds
    <3> QED BY <3>2, <3>3
  <2>5. at \in holding BY <1>3, <2>4
  <2> QED BY <2>3, <2>5
<1> QED BY <1>2, <1>4, <1>5, <1>6

(* What the layer keeps of a group of conflicts is a sound graph. *)
LEMMA WinningKeeps ==
  ASSUME scene \in Scenes, NEW g, GraphOK(g), NEW group \in Seq(Known)
  PROVE  Sound(g, Winning(g, group)) /\ Winning(g, group).made = g.made
<1> DEFINE clips == [x \in Clips |->
             [track |-> IF \E c \in Won(group, "delete_vs_edit") : About(c).clip = x THEN 0 ELSE g.clips[x].track,
              start |-> WonValue(group, x, "start", g.clips[x].start),
              duration |-> WonValue(group, x, "duration", g.clips[x].duration)]]
           tracks == [p \in Projects |-> WonOrder(group, p, g.tracks[p])]
           media == [r \in DOMAIN g.media |->
             IF \E c \in Won(group, "dangling_resource") : About(c).resource = r THEN "removed" ELSE g.media[r]]
           h == Winning(g, group)
<1>1. g.clips \in [Clips -> ClipSet] /\ g.tracks \in [Projects -> TrackSeqs]
      /\ \A p \in Projects : IsInjective(g.tracks[p])
  BY DEF GraphOK, TracksOK
<1>2. h = [g EXCEPT !.clips = clips, !.tracks = tracks, !.media = media]
  BY <1>1 DEF Winning, GraphOK
<1>3. \A kind : Won(group, kind) \subseteq Known
  <2>1. Range(group) \subseteq Known BY RangeIn
  <2> QED BY <2>1 DEF Won
<1>4. ASSUME NEW x \in Clips, NEW field, NEW now \in Int PROVE WonValue(group, x, field, now) \in Int
  <2> DEFINE won == {c \in Won(group, "clip_timing") : About(c).clip = x /\ About(c).field = field}
             c == CHOOSE c \in won : TRUE
  <2>1. WonValue(group, x, field, now) = IF won = {} THEN now ELSE About(c).alts[1] BY DEF WonValue
  <2>2. ASSUME won # {} PROVE About(c).alts[1] \in Int
    <3>1. c \in won BY <2>2
    <3>2. c \in Known /\ About(c).kind = "clip_timing" BY <1>3, <3>1 DEF Won
    <3> HIDE DEF c
    <3>3. About(c).alts \in Seq(Int) /\ Len(About(c).alts) = 2 BY <3>2, ConflictFacts
    <3> QED BY <3>3
  <2> HIDE DEF won, c
  <2> QED BY <2>1, <2>2
<1>5. clips \in [Clips -> ClipSet] /\ \A x \in Clips : clips[x].track \in {0, g.clips[x].track}
  <2>1. ASSUME NEW x \in Clips PROVE clips[x] \in ClipSet /\ clips[x].track \in {0, g.clips[x].track}
    <3>1. g.clips[x].start \in Int /\ g.clips[x].duration \in Int /\ g.clips[x].track \in 0..MaxTracks
      BY <1>1 DEF ClipSet
    <3>2. 0 \in 0..MaxTracks BY MaxTracksIsNat
    <3>3. WonValue(group, x, "start", g.clips[x].start) \in Int
          /\ WonValue(group, x, "duration", g.clips[x].duration) \in Int
      BY <1>4, <3>1
    <3> QED BY <3>1, <3>2, <3>3 DEF ClipSet
  <2> QED BY <2>1
<1>6. ASSUME NEW p \in Projects
      PROVE  tracks[p] \in TrackSeqs /\ IsInjective(tracks[p]) /\ Range(tracks[p]) = Range(g.tracks[p])
  <2> DEFINE t == g.tracks[p]
             won == {c \in Won(group, "track_order") : About(c).project = p /\ About(c).alts[1] # NoMove}
             a == About(CHOOSE c \in won : TRUE)
  <2>1. tracks[p] = IF won = {} THEN t ELSE Moved(t, a.track, a.alts[1]) BY DEF WonOrder
  <2>2. t \in TrackSeqs /\ IsInjective(t) BY <1>1
  <2> HIDE DEF t, won, a, tracks
  <2>3. /\ Moved(t, a.track, a.alts[1]) \in TrackSeqs /\ IsInjective(Moved(t, a.track, a.alts[1]))
        /\ Range(Moved(t, a.track, a.alts[1])) = Range(t)
    BY <2>2, MovedKeeps
  <2> QED BY <2>1, <2>2, <2>3 DEF t
<1>7. tracks \in [Projects -> TrackSeqs] BY <1>6
<1> HIDE DEF clips, tracks, media
<1> DEFINE k == [g EXCEPT !.tracks = tracks]
           l == [k EXCEPT !.clips = clips]
<1>8. Sound(g, k) BY <1>6, <1>7, TracksChange
<1>9. k.clips = g.clips /\ k.made = g.made /\ DOMAIN k = DOMAIN g BY DEF GraphOK
<1> HIDE DEF k
<1>10. Sound(k, l)
  <2>1. \A x \in Clips : clips[x].track \in {0, k.clips[x].track} BY <1>5, <1>9
  <2> QED BY <1>5, <1>8, <2>1, ClipsChange DEF Sound
<1>11. Sound(l, h)
  <2>1. GraphOK(l) BY <1>10 DEF Sound
  <2>2. DOMAIN h = DOMAIN l /\ h.clips = l.clips /\ h.tracks = l.tracks /\ h.made = l.made
    BY <1>2, <1>9 DEF k, GraphOK
  <2>3. l.made \in [Conflicts -> Nat] BY <2>1 DEF GraphOK
  <2> HIDE DEF l, h
  <2> QED BY <2>1, <2>2, <2>3, OtherKeeps
<1>12. h.made = g.made BY <1>2 DEF GraphOK
<1> HIDE DEF l, h
<1> QED BY <1>8, <1>10, <1>11, <1>12, SoundTransitive DEF h

-----------------------------------------------------------------------------
(* Reports, items and what the layer knows. *)
Mentioned(c, report) == \E i \in DOMAIN report : report[i].conflict = c

(* A report names a conflict once; one about the order of tracks is of one project. *)
ReportOK(r) ==
  /\ r \in Seq(EntrySet)
  /\ \A i, j \in DOMAIN r : r[i].conflict = r[j].conflict => i = j
  /\ \A i, j \in DOMAIN r : About(r[i].conflict).kind = "track_order" =>
       About(r[j].conflict).project = About(r[i].conflict).project
FeedOK(f) == f \in Seq(Seq(EntrySet)) /\ \A n \in DOMAIN f : ReportOK(f[n])

(* One item per conflict; what it offers can be applied. *)
ItemsOK(g, its) ==
  /\ its \in Seq(ItemSet)
  /\ \A i, j \in DOMAIN its : its[i].conflict = its[j].conflict => i = j
  /\ \A i \in DOMAIN its : its[i].kind = Kind(its[i].conflict) /\ Offers(g, its[i])

(* The last report about a conflict says what the layer knows; what is not in a report is in *)
(* the item.                                                                                 *)
InStep(f, its, k) ==
  \A c \in Known :
    /\ \A n \in DOMAIN f : \A i \in DOMAIN f[n] :
         f[n][i].conflict = c /\ (\A m \in DOMAIN f : m > n => ~Mentioned(c, f[m])) => f[n][i].status = k[c]
    /\ (\A n \in DOMAIN f : ~Mentioned(c, f[n])) =>
         /\ k[c] = None => ~Has(its, c)
         /\ k[c] # None => \E i \in DOMAIN its : its[i].conflict = c /\ its[i].status = k[c]

(* None is not a status. *)
LEMMA NoneIsNoStatus == None \notin Statuses
BY DEF None, Statuses

(* What is offered can still be applied when no track is lost. *)
LEMMA ItemsKept ==
  ASSUME NEW g, NEW h, Sound(g, h), NEW its, ItemsOK(g, its)
  PROVE  ItemsOK(h, its)
<1>1. ASSUME NEW i \in DOMAIN its PROVE Offers(h, its[i])
  <2>1. its[i] \in ItemSet /\ Offers(g, its[i]) BY DEF ItemsOK
  <2>2. its[i].project \in Projects BY <2>1 DEF ItemSet
  <2>3. Range(g.tracks[its[i].project]) \subseteq Range(h.tracks[its[i].project]) BY <2>2 DEF Sound, Grows
  <2> QED BY <2>1, <2>3 DEF Offers, CanOrder
<1> QED BY <1>1 DEF ItemsOK

(* Something is reported. *)
LEMMA Reporting ==
  ASSUME NEW f, FeedOK(f), NEW its, NEW k, InStep(f, its, k), NEW r, ReportOK(r), NEW l,
         \A i \in DOMAIN r : l[r[i].conflict] = r[i].status,
         \A c \in Known : ~Mentioned(c, r) => l[c] = k[c]
  PROVE  FeedOK(Append(f, r)) /\ InStep(Append(f, r), its, l)
<1> DEFINE e == Append(f, r)
           z == Len(f)
<1>1. f \in Seq(Seq(EntrySet)) /\ r \in Seq(EntrySet) BY DEF FeedOK, ReportOK
<1>2. /\ z \in Nat /\ DOMAIN f = 1..z /\ e \in Seq(Seq(EntrySet)) /\ DOMAIN e = 1..(z + 1)
      /\ e[z + 1] = r /\ \A n \in 1..z : e[n] = f[n]
  BY <1>1
<1> HIDE DEF e, z
<1>3. \A n \in 1..(z + 1) : n = z + 1 \/ n \in 1..z BY <1>2
<1>4. FeedOK(e)
  <2>1. \A n \in 1..(z + 1) : ReportOK(e[n]) BY <1>2, <1>3 DEF FeedOK
  <2> QED BY <1>2, <2>1 DEF FeedOK
<1>5. ASSUME NEW c \in Known, NEW n \in DOMAIN e, NEW i \in DOMAIN e[n], e[n][i].conflict = c,
             \A m \in DOMAIN e : m > n => ~Mentioned(c, e[m])
      PROVE  e[n][i].status = l[c]
  <2>1. CASE n = z + 1 BY <1>2, <1>5, <2>1
  <2>2. CASE n \in 1..z
    <3>1. z + 1 > n /\ z + 1 \in DOMAIN e BY <1>2, <2>2
    <3>2. ~Mentioned(c, r) BY <1>2, <1>5, <3>1
    <3>3. \A m \in DOMAIN f : m > n => ~Mentioned(c, f[m])
      <4>1. \A m \in DOMAIN f : m \in DOMAIN e /\ e[m] = f[m] BY <1>2
      <4> QED BY <1>5, <4>1
    <3>4. e[n] = f[n] /\ n \in DOMAIN f BY <1>2, <2>2
    <3>5. e[n][i].status = k[c] BY <1>5, <3>3, <3>4 DEF InStep
    <3> QED BY <3>2, <3>5
  <2> QED BY <1>2, <1>3, <2>1, <2>2
<1>6. ASSUME NEW c \in Known, \A n \in DOMAIN e : ~Mentioned(c, e[n])
      PROVE  /\ l[c] = None => ~Has(its, c)
             /\ l[c] # None => \E i \in DOMAIN its : its[i].conflict = c /\ its[i].status = l[c]
  <2>1. z + 1 \in DOMAIN e /\ \A m \in DOMAIN f : m \in DOMAIN e /\ e[m] = f[m] BY <1>2
  <2>2. ~Mentioned(c, r) BY <1>2, <1>6, <2>1
  <2>3. \A n \in DOMAIN f : ~Mentioned(c, f[n]) BY <1>6, <2>1
  <2>4. l[c] = k[c] BY <2>2
  <2> QED BY <2>3, <2>4 DEF InStep
<1>7. InStep(e, its, l) BY <1>5, <1>6 DEF InStep
<1> QED BY <1>4, <1>7 DEF e

(* The items after a report: those it mentions say what it says, the others are as they were. *)
LEMMA ItemsAfterReport ==
  ASSUME NEW g, NEW its, ItemsOK(g, its), NEW new \in Seq(ItemSet),
         \A i, j \in DOMAIN new : new[i].conflict = new[j].conflict => i = j,
         \A i \in DOMAIN new : new[i].kind = Kind(new[i].conflict) /\ Offers(g, new[i])
  PROVE  LET now == Updated(its, new) \o Created(its, new) IN
         /\ ItemsOK(g, now)
         /\ \A j \in DOMAIN new : \E i \in DOMAIN now : now[i] = new[j]
         /\ \A c : ~Has(new, c) =>
              /\ \A i \in DOMAIN its : its[i].conflict = c => i \in DOMAIN now /\ now[i] = its[i]
              /\ Has(now, c) => Has(its, c)
<1> DEFINE u == Updated(its, new)
           chosen == {i \in DOMAIN new : ~Has(its, new[i].conflict)}
           w == Created(its, new)
           now == u \o w
           m == Len(its)
           n == Len(w)
<1>1. its \in Seq(ItemSet) /\ DOMAIN its = 1..m /\ m \in Nat BY DEF ItemsOK
<1>2. ASSUME NEW c, Has(new, c) PROVE \E j \in DOMAIN new : ItemOf(new, c) = new[j] /\ new[j].conflict = c
  <2>1. \E j \in DOMAIN new : new[j].conflict = c BY <1>2 DEF Has
  <2> QED BY <2>1 DEF ItemOf
<1>3. u = [i \in DOMAIN its |-> IF Has(new, its[i].conflict) THEN ItemOf(new, its[i].conflict) ELSE its[i]]
  BY DEF Updated
<1> HIDE DEF u
<1>4. ASSUME NEW i \in 1..m
      PROVE  /\ u[i].conflict = its[i].conflict
             /\ (\E j \in DOMAIN new : u[i] = new[j]) \/ (u[i] = its[i] /\ ~Has(new, its[i].conflict))
             /\ u[i] \in ItemSet
  <2>1. CASE Has(new, its[i].conflict)
    <3>1. PICK j \in DOMAIN new : ItemOf(new, its[i].conflict) = new[j] /\ new[j].conflict = its[i].conflict
      BY <1>2, <2>1
    <3>2. u[i] = new[j] BY <1>1, <1>3, <2>1, <3>1
    <3>3. new[j] \in ItemSet OBVIOUS
    <3> QED BY <3>1, <3>2, <3>3
  <2>2. CASE ~Has(new, its[i].conflict)
    <3>1. u[i] = its[i] BY <1>1, <1>3, <2>2
    <3>2. its[i] \in ItemSet BY <1>1
    <3> QED BY <2>2, <3>1, <3>2
  <2> QED BY <2>1, <2>2
<1>5. u \in Seq(ItemSet) /\ Len(u) = m
  <2>1. u \in [1..m -> ItemSet] BY <1>1, <1>3, <1>4
  <2> QED BY <1>1, <2>1
<1>6. /\ w \in Seq(ItemSet) /\ Range(w) = {new[i] : i \in chosen} /\ IsInjective(w)
  <2>1. w = Only(new, chosen) BY DEF Created
  <2>2. chosen \in SUBSET DOMAIN new OBVIOUS
  <2>3. \A i, j \in chosen : new[i] = new[j] => i = j OBVIOUS
  <2> HIDE DEF chosen, w
  <2> QED BY <2>1, <2>2, <2>3, Filtered
<1> HIDE DEF w
<1>7. n \in Nat /\ DOMAIN w = 1..n BY <1>6
<1>8. ASSUME NEW i \in 1..n
      PROVE \E j \in DOMAIN new : w[i] = new[j] /\ ~Has(its, new[j].conflict)
  <2>1. w[i] \in Range(w) BY <1>7 DEF Range
  <2> QED BY <1>6, <2>1
<1>9. /\ now \in Seq(ItemSet) /\ DOMAIN now = 1..(m + n)
      /\ \A i \in 1..(m + n) : now[i] = IF i <= m THEN u[i] ELSE w[i - m]
  <2>1. /\ now \in Seq(ItemSet) /\ Len(now) = Len(u) + Len(w)
        /\ \A i \in 1..Len(u) + Len(w) : now[i] = IF i <= Len(u) THEN u[i] ELSE w[i - Len(u)]
    <3>1. u \in Seq(ItemSet) /\ w \in Seq(ItemSet) BY <1>5, <1>6
    <3> QED BY ONLY <3>1, ConcatProperties
  <2>2. DOMAIN now = 1..Len(now) BY <2>1
  <2> HIDE DEF now, m
  <2> QED BY <1>5, <2>1, <2>2
<1> HIDE DEF now, n, m
<1>10. /\ \A i \in 1..m : i \in 1..(m + n) /\ now[i] = u[i]
       /\ \A i \in 1..n : i + m \in 1..(m + n) /\ now[i + m] = w[i]
       /\ \A i \in 1..(m + n) : i \in 1..m \/ (i - m \in 1..n /\ (i - m) + m = i)
       /\ \A i \in 1..(m + n) : i - m \in 1..n => now[i] = w[i - m]
  <2>1. \A i \in 1..n : i + m \in 1..(m + n) /\ ~(i + m <= m) /\ (i + m) - m = i BY <1>1, <1>7
  <2>2. \A i \in 1..m : i \in 1..(m + n) /\ i <= m BY <1>1, <1>7
  <2>3. \A i \in 1..n : now[i + m] = w[i] BY <1>9, <2>1
  <2>4. \A i \in 1..m : now[i] = u[i] BY <1>9, <2>2
  <2>5. \A i \in 1..(m + n) : i \in 1..m \/ (i - m \in 1..n /\ (i - m) + m = i) BY <1>1, <1>7
  <2>6. \A i \in 1..(m + n) : i - m \in 1..n => ~(i <= m) BY <1>1, <1>7
  <2>7. \A i \in 1..(m + n) : i - m \in 1..n => now[i] = w[i - m] BY <1>9, <2>6
  <2> QED BY <2>1, <2>2, <2>3, <2>4, <2>5, <2>7
<1>11. ASSUME NEW i \in 1..(m + n)
       PROVE  \/ i \in 1..m /\ now[i] = u[i] /\ now[i].conflict = its[i].conflict /\ Has(its, now[i].conflict)
              \/ /\ i - m \in 1..n /\ now[i] = w[i - m] /\ ~Has(its, now[i].conflict)
  <2>1. CASE i \in 1..m
    <3>1. now[i] = u[i] /\ u[i].conflict = its[i].conflict BY <1>4, <1>10, <2>1
    <3>2. Has(its, its[i].conflict) BY <1>1, <2>1 DEF Has
    <3> QED BY <2>1, <3>1, <3>2
  <2>2. CASE i - m \in 1..n
    <3>1. now[i] = w[i - m] BY <1>10, <2>2
    <3> QED BY <1>8, <2>2, <3>1
  <2> QED BY <1>10, <2>1, <2>2
<1>12. ASSUME NEW i \in 1..(m + n), NEW j \in 1..(m + n), now[i].conflict = now[j].conflict PROVE i = j
  <2>1. CASE Has(its, now[i].conflict)
    <3>1. i \in 1..m /\ j \in 1..m /\ its[i].conflict = its[j].conflict BY <1>11, <1>12, <2>1
    <3> QED BY <1>1, <3>1 DEF ItemsOK
  <2>2. CASE ~Has(its, now[i].conflict)
    <3>1. i - m \in 1..n /\ j - m \in 1..n /\ now[i] = w[i - m] /\ now[j] = w[j - m]
      BY <1>11, <1>12, <2>2
    <3>2. PICK a \in DOMAIN new : w[i - m] = new[a] BY <1>8, <3>1
    <3>3. PICK b \in DOMAIN new : w[j - m] = new[b] BY <1>8, <3>1
    <3>4. a = b BY <1>12, <3>1, <3>2, <3>3
    <3>5. w[i - m] = w[j - m] BY <3>2, <3>3, <3>4
    <3>6. i - m = j - m BY <1>6, <1>7, <3>1, <3>5 DEF IsInjective
    <3> QED BY <1>1, <1>7, <3>6
  <2> QED BY <2>1, <2>2
<1>13. ASSUME NEW i \in 1..(m + n)
       PROVE  (\E j \in DOMAIN new : now[i] = new[j]) \/ (\E j \in DOMAIN its : now[i] = its[j])
  <2>1. CASE i \in 1..m BY <1>1, <1>4, <1>10, <2>1
  <2>2. CASE i - m \in 1..n
    <3>1. now[i] = w[i - m] BY <1>10, <2>2
    <3> QED BY <1>8, <2>2, <3>1
  <2> QED BY <1>10, <2>1, <2>2
<1>14. ItemsOK(g, now)
  <2>1. ASSUME NEW i \in 1..(m + n) PROVE now[i].kind = Kind(now[i].conflict) /\ Offers(g, now[i])
    BY <1>13 DEF ItemsOK
  <2> QED BY <1>9, <1>12, <2>1 DEF ItemsOK
<1>15. ASSUME NEW j \in DOMAIN new PROVE \E i \in DOMAIN now : now[i] = new[j]
  <2>1. CASE Has(its, new[j].conflict)
    <3>1. PICK i \in 1..m : its[i].conflict = new[j].conflict BY <1>1, <2>1 DEF Has
    <3>2. Has(new, its[i].conflict) BY <3>1 DEF Has
    <3>3. PICK l \in DOMAIN new : u[i] = new[l] BY <1>4, <3>2
    <3>4. new[l].conflict = new[j].conflict BY <1>4, <3>1, <3>3
    <3>5. now[i] = new[j] /\ i \in DOMAIN now BY <1>9, <1>10, <3>3, <3>4
    <3> QED BY <3>5
  <2>2. CASE ~Has(its, new[j].conflict)
    <3>1. new[j] \in Range(w) BY <1>6, <2>2
    <3>2. PICK i \in 1..n : w[i] = new[j] BY <1>7, <3>1 DEF Range
    <3>3. i + m \in DOMAIN now /\ now[i + m] = new[j] BY <1>9, <1>10, <3>2
    <3> QED BY <3>3
  <2> QED BY <2>1, <2>2
<1>16. ASSUME NEW c, ~Has(new, c)
       PROVE  /\ \A i \in DOMAIN its : its[i].conflict = c => i \in DOMAIN now /\ now[i] = its[i]
              /\ Has(now, c) => Has(its, c)
  <2>1. ASSUME NEW i \in DOMAIN its, its[i].conflict = c PROVE i \in DOMAIN now /\ now[i] = its[i]
    <3>1. i \in 1..m BY <1>1
    <3>2. u[i] = its[i] BY <1>3, <1>16, <2>1
    <3> QED BY <1>9, <1>10, <3>1, <3>2
  <2>2. ASSUME Has(now, c) PROVE Has(its, c)
    <3>1. PICK i \in 1..(m + n) : now[i].conflict = c BY <1>9, <2>2 DEF Has
    <3>2. CASE \E j \in DOMAIN new : now[i] = new[j] BY <1>16, <3>1, <3>2 DEF Has
    <3>3. CASE \E j \in DOMAIN its : now[i] = its[j] BY <3>1, <3>3 DEF Has
    <3> QED BY <1>13, <3>2, <3>3
  <2> QED BY <2>1, <2>2
<1> QED BY <1>14, <1>15, <1>16 DEF now, u, w

(* A report is handled. *)
LEMMA Handling ==
  ASSUME NEW f, FeedOK(f), f # <<>>, NEW its, NEW k, InStep(f, its, k), NEW now,
         \A j \in DOMAIN f[1] : \E i \in DOMAIN now : now[i].conflict = f[1][j].conflict /\ now[i].status = f[1][j].status,
         \A c : ~Mentioned(c, f[1]) =>
           /\ \A i \in DOMAIN its : its[i].conflict = c => i \in DOMAIN now /\ now[i] = its[i]
           /\ Has(now, c) => Has(its, c)
  PROVE  FeedOK(Tail(f)) /\ InStep(Tail(f), now, k)
<1> DEFINE e == Tail(f)
           z == Len(f)
<1>1. f \in Seq(Seq(EntrySet)) BY DEF FeedOK
<1>2. /\ z \in Nat /\ z >= 1 /\ DOMAIN f = 1..z /\ e \in Seq(Seq(EntrySet)) /\ DOMAIN e = 1..(z - 1)
      /\ \A n \in 1..(z - 1) : e[n] = f[n + 1]
  BY <1>1
<1>3. FeedOK(e)
  <2>1. ASSUME NEW n \in DOMAIN e PROVE ReportOK(e[n])
    <3>1. n + 1 \in DOMAIN f /\ e[n] = f[n + 1] BY <1>2
    <3> QED BY <3>1 DEF FeedOK
  <2> QED BY <1>2, <2>1 DEF FeedOK
<1> HIDE DEF e, z
<1>4. \A n \in DOMAIN f : n = 1 \/ (n - 1 \in DOMAIN e /\ e[n - 1] = f[n] /\ n > 1)
  <2>1. ASSUME NEW n \in 1..z, n # 1 PROVE n - 1 \in 1..(z - 1) /\ (n - 1) + 1 = n /\ n > 1 BY <1>2, <2>1
  <2> QED BY <1>2, <2>1
<1>5. \A n \in DOMAIN e : n + 1 \in DOMAIN f /\ f[n + 1] = e[n] /\ n \in Nat /\ n >= 1 BY <1>2
<1>6. ASSUME NEW c \in Known, NEW n \in DOMAIN e, NEW i \in DOMAIN e[n], e[n][i].conflict = c,
             \A m \in DOMAIN e : m > n => ~Mentioned(c, e[m])
      PROVE  e[n][i].status = k[c]
  <2>1. ASSUME NEW m \in DOMAIN f, m > n + 1 PROVE ~Mentioned(c, f[m])
    <3>1. m - 1 \in DOMAIN e /\ e[m - 1] = f[m]
      <4>1. m # 1 BY <1>5, <2>1
      <4> QED BY <1>4, <4>1
    <3>2. m - 1 > n BY <1>2, <1>5, <2>1
    <3> QED BY <1>6, <3>1, <3>2
  <2>2. n + 1 \in DOMAIN f /\ f[n + 1] = e[n] BY <1>5
  <2> QED BY <1>6, <2>1, <2>2 DEF InStep
<1>7. ASSUME NEW c \in Known, \A n \in DOMAIN e : ~Mentioned(c, e[n])
      PROVE  /\ k[c] = None => ~Has(now, c)
             /\ k[c] # None => \E i \in DOMAIN now : now[i].conflict = c /\ now[i].status = k[c]
  <2>1. 1 \in DOMAIN f /\ \A m \in DOMAIN f : m > 1 => ~Mentioned(c, f[m])
    <3>1. 1 \in DOMAIN f BY <1>2
    <3>2. ASSUME NEW m \in DOMAIN f, m > 1 PROVE ~Mentioned(c, f[m])
      <4>1. m # 1 BY <3>2
      <4> QED BY <1>4, <1>7, <4>1
    <3> QED BY <3>1, <3>2
  <2>2. CASE Mentioned(c, f[1])
    <3>1. PICK j \in DOMAIN f[1] : f[1][j].conflict = c BY <2>2 DEF Mentioned
    <3>2. f[1][j].status = k[c] BY <2>1, <3>1 DEF InStep
    <3>3. f[1][j] \in EntrySet
      <4>1. f[1] \in Seq(EntrySet) BY <1>1, <2>1
      <4> QED BY <4>1
    <3>4. k[c] # None BY <3>2, <3>3, NoneIsNoStatus DEF EntrySet
    <3> QED BY <3>1, <3>2, <3>4
  <2>3. CASE ~Mentioned(c, f[1])
    <3>1. \A n \in DOMAIN f : ~Mentioned(c, f[n])
      <4>1. ASSUME NEW n \in DOMAIN f PROVE ~Mentioned(c, f[n]) BY <1>4, <2>1, <2>3
      <4> QED BY <4>1
    <3>2. /\ k[c] = None => ~Has(its, c)
          /\ k[c] # None => \E i \in DOMAIN its : its[i].conflict = c /\ its[i].status = k[c]
      BY <3>1 DEF InStep
    <3> QED BY <2>3, <3>2
  <2> QED BY <2>2, <2>3
<1>8. InStep(e, now, k) BY <1>6, <1>7 DEF InStep
<1> QED BY <1>3, <1>8 DEF e

-----------------------------------------------------------------------------
(* The page. *)
PaneSet == [kind : Kinds \cup {"unknown", None}, draft : Timings, order : TrackSeqs]
PageTyped(p) == DOMAIN p = {"project", "open", "selected", "pane"} /\ p.pane \in PaneSet

(* An inspector is shown only with an item to inspect. *)
PageOK(p, its) ==
  PageTyped(p) /\ (p.pane.kind # None => \E i \in DOMAIN its : its[i].project = p.project)

ReviewInv ==
  /\ scene \in Scenes /\ GraphOK(graph) /\ kernel \in [Conflicts -> Statuses \cup {None}]
  /\ FeedOK(feed) /\ ItemsOK(graph, items) /\ InStep(feed, items, kernel) /\ PageOK(page, items)

(* What is selected is an item of the page's project, if there is one. *)
LEMMA SelectedFacts ==
  ASSUME NEW its \in Seq(ItemSet), NEW p
  PROVE  /\ Selected(p, its) = <<>> <=> ~\E i \in DOMAIN its : its[i].project = p.project
         /\ Selected(p, its) # <<>> => \E i \in DOMAIN its : Selected(p, its)[1] = its[i]
<1> DEFINE I == {i \in DOMAIN its : its[i].project = p.project}
           shown == Shown(its, p.project)
           J == {j \in DOMAIN shown : shown[j].conflict = p.selected}
           found == Only(shown, J)
<1>1. shown \in Seq(ItemSet) /\ Range(shown) = {its[i] : i \in I} /\ (shown = <<>> <=> I = {})
  <2>1. shown = Only(its, I) BY DEF Shown
  <2>2. I \in SUBSET DOMAIN its OBVIOUS
  <2> HIDE DEF I, shown
  <2> QED BY <2>1, <2>2, Filtered
<1> HIDE DEF shown
<1>2. found \in Seq(ItemSet) /\ Range(found) = {shown[j] : j \in J} /\ (found = <<>> <=> J = {})
  <2>1. J \in SUBSET DOMAIN shown OBVIOUS
  <2> HIDE DEF J
  <2> QED BY <1>1, <2>1, Filtered
<1>3. Selected(p, its) = IF found # <<>> THEN found ELSE shown BY DEF Selected, shown
<1>4. ASSUME NEW s \in Seq(ItemSet), s # <<>>, Range(s) \subseteq Range(shown)
      PROVE  \E i \in DOMAIN its : s[1] = its[i]
  <2>1. s[1] \in Range(s)
    <3>1. 1 \in DOMAIN s BY <1>4
    <3> QED BY <3>1 DEF Range
  <2> QED BY <1>1, <1>4, <2>1
<1>5. Range(found) \subseteq Range(shown) BY <1>2 DEF Range
<1>6. found # <<>> => shown # <<>>
  <2>1. shown = <<>> => J = {} OBVIOUS
  <2> QED BY <1>2, <2>1
<1> HIDE DEF found, J
<1>7. Selected(p, its) # <<>> => \E i \in DOMAIN its : Selected(p, its)[1] = its[i]
  <2>1. CASE found # <<>>
    <3>1. \E i \in DOMAIN its : found[1] = its[i] BY <1>2, <1>4, <1>5, <2>1
    <3> QED BY <1>3, <2>1, <3>1
  <2>2. CASE found = <<>>
    <3>1. shown # <<>> => \E i \in DOMAIN its : shown[1] = its[i] BY <1>1, <1>4
    <3> QED BY <1>3, <2>2, <3>1
  <2> QED BY <2>1, <2>2
<1>8. Selected(p, its) = <<>> <=> I = {} BY <1>1, <1>3, <1>6
<1> QED BY <1>7, <1>8

(* A page that is drawn shows an inspector only with an item. *)
LEMMA MountedKeeps ==
  ASSUME NEW its \in Seq(ItemSet), NEW p, PageTyped(p)
  PROVE  PageOK(Mounted(p, its), its)
<1> DEFINE sel == Selected(p, its)
           now == sel[1].preview
           pane == [kind |-> sel[1].kind, draft |-> now.current,
                    order |-> IF now.manualOrder # <<>> THEN now.manualOrder ELSE now.currentOrder]
           q == Mounted(p, its)
<1>1. sel = <<>> <=> ~\E i \in DOMAIN its : its[i].project = p.project BY SelectedFacts
<1>2. q = IF ~p.open \/ sel = <<>> THEN [p EXCEPT !.pane = NoPane]
          ELSE IF p.pane.kind = sel[1].kind THEN p ELSE [p EXCEPT !.pane = pane]
  BY DEF Mounted
<1>3. sel # <<>> => pane \in PaneSet
  <2>1. SUFFICES ASSUME sel # <<>> PROVE pane \in PaneSet OBVIOUS
  <2>2. sel[1] \in ItemSet BY <2>1, SelectedFacts
  <2> HIDE DEF sel
  <2>3. sel[1].kind \in Kinds \cup {"unknown"} /\ now \in PreviewSet BY <2>2 DEF ItemSet
  <2> HIDE DEF now
  <2> QED BY <2>3 DEF PreviewSet, PaneSet
<1>4. NoPane \in PaneSet /\ NoPane.kind = None BY NoTimingIsTiming DEF NoPane, PaneSet, None
<1> HIDE DEF sel, pane, q
<1>5. CASE ~p.open \/ sel = <<>>
  <2>1. q = [p EXCEPT !.pane = NoPane] BY <1>2, <1>5
  <2>2. DOMAIN q = DOMAIN p /\ q.pane = NoPane BY <2>1 DEF PageTyped
  <2> QED BY <1>4, <2>2 DEF PageOK, PageTyped, q
<1>6. CASE p.open /\ sel # <<>> /\ p.pane.kind = sel[1].kind
  <2>1. q = p BY <1>2, <1>6
  <2> QED BY <1>1, <1>6, <2>1 DEF PageOK, q
<1>7. CASE p.open /\ sel # <<>> /\ p.pane.kind # sel[1].kind
  <2>1. q = [p EXCEPT !.pane = pane] BY <1>2, <1>7
  <2>2. DOMAIN q = DOMAIN p /\ q.pane = pane /\ q.project = p.project BY <2>1 DEF PageTyped
  <2> QED BY <1>1, <1>3, <1>7, <2>2 DEF PageOK, PageTyped, q
<1> QED BY <1>5, <1>6, <1>7

(* So does one whose effects have run: the drawing comes last. *)
LEMMA RenderedKeeps ==
  ASSUME NEW its \in Seq(ItemSet), NEW p, PageTyped(p), NEW ses, NEW was
  PROVE  PageOK(Rendered(p, its, ses, was), its)
<1> DEFINE now == Seen(p, its, ses)
           drawn == Mounted(p, its)
           opens == drawn.open \/ (now.count > 0 /\ now.count # was.count)
           opened == [drawn EXCEPT !.open = opens]
           again == Reselected(opened, now)
           changed == <<now.items, now.selected>> # <<was.items, was.selected>>
           q == IF changed THEN again ELSE opened
<1>1. PageTyped(drawn) BY MountedKeeps DEF PageOK
<1>2. Rendered(p, its, ses, was) = Mounted(q, its) BY DEF Rendered
<1> HIDE DEF drawn, opens, changed, now
<1>3. PageTyped(opened) BY <1>1 DEF PageTyped
<1> HIDE DEF opened
<1>4. PageTyped(again) BY <1>3 DEF PageTyped, Reselected
<1> HIDE DEF again
<1>5. PageTyped(q) BY <1>3, <1>4
<1> HIDE DEF q
<1> QED BY <1>2, <1>5, MountedKeeps

(* Items of the same projects, in the same places *)
LEMMA PageStays ==
  ASSUME NEW its, NEW p, PageOK(p, its), NEW jts, \A i \in DOMAIN its : i \in DOMAIN jts /\ jts[i].project = its[i].project
  PROVE  PageOK(p, jts)
BY DEF PageOK

-----------------------------------------------------------------------------
(* Reports of conflicts and decisions. *)

(* Conflicts that are reported, each once, with what the layer now knows of them *)
LEMMA Telling ==
  ASSUME scene \in Scenes, FeedOK(feed), NEW its, NEW k, InStep(feed, its, k),
         NEW cs \in Seq(Known), IsInjective(cs), NEW status \in Statuses,
         \A c, d \in Range(cs) : About(c).kind = "track_order" => About(d).project = About(c).project,
         NEW l, \A c \in Range(cs) : l[c] = status, \A c \in Known \ Range(cs) : l[c] = k[c]
  PROVE  FeedOK(Report(cs, status)) /\ InStep(Report(cs, status), its, l)
<1> DEFINE r == [i \in DOMAIN cs |-> [conflict |-> cs[i], status |-> status]]
<1>1. Report(cs, status) = Append(feed, r) BY DEF Report
<1>2. DOMAIN r = DOMAIN cs /\ \A i \in DOMAIN cs : r[i].conflict = cs[i] /\ r[i].status = status OBVIOUS
<1>3. r \in Seq(EntrySet)
  <2>1. DOMAIN cs = 1..Len(cs) /\ Len(cs) \in Nat /\ \A i \in DOMAIN cs : cs[i] \in Known OBVIOUS
  <2>2. \A i \in DOMAIN cs : [conflict |-> cs[i], status |-> status] \in EntrySet BY <2>1 DEF EntrySet
  <2>3. r \in [1..Len(cs) -> EntrySet]
    <3>1. r = [i \in 1..Len(cs) |-> [conflict |-> cs[i], status |-> status]] BY <2>1
    <3> HIDE DEF r
    <3> QED BY <2>1, <2>2, <3>1
  <2> HIDE DEF r
  <2> QED BY <2>1, <2>3
<1> HIDE DEF r
<1>4. \A i \in DOMAIN cs : cs[i] \in Range(cs) BY DEF Range
<1>5. ReportOK(r)
  <2>1. \A i, j \in DOMAIN r : r[i].conflict = r[j].conflict => i = j BY <1>2 DEF IsInjective
  <2>2. \A i, j \in DOMAIN r : About(r[i].conflict).kind = "track_order" =>
          About(r[j].conflict).project = About(r[i].conflict).project
    BY <1>2, <1>4
  <2> QED BY <1>3, <2>1, <2>2 DEF ReportOK
<1>6. \A i \in DOMAIN r : l[r[i].conflict] = r[i].status BY <1>2, <1>4
<1>7. \A c \in Known : ~Mentioned(c, r) => l[c] = k[c]
  <2>1. ASSUME NEW c \in Range(cs) PROVE Mentioned(c, r) BY <1>2 DEF Mentioned, Range
  <2> QED BY <2>1
<1> QED BY <1>1, <1>5, <1>6, <1>7, Reporting

(* What a decision is allowed to be: it keeps the graph sound, and what it has resolved is known. *)
DecisionOK(its, it, d) ==
  /\ Sound(graph, d.graph) /\ d.resolves \in SUBSET Known
  /\ \A c, e \in d.resolves : About(c).kind = "track_order" => About(e).project = About(c).project
  /\ \A c \in Conflicts : d.graph.made[c] > graph.made[c] =>
       c = it.conflict /\ (it.kind = "clip_timing" => its # <<>> /\ d.resolves = ParkTargets(its, it))

(* What Decided does with such a decision: the graph stays sound and each conflict that it *)
(* closes is reported.                                                                     *)
LEMMA DecidedKeeps ==
  ASSUME scene \in Scenes, kernel \in [Conflicts -> Statuses \cup {None}], FeedOK(feed), InStep(feed, items, kernel),
         NEW its, NEW it, NEW d, DecisionOK(its, it, d), Decided(d)
  PROVE  /\ Sound(graph, graph') /\ kernel' \in [Conflicts -> Statuses \cup {None}]
         /\ FeedOK(feed') /\ InStep(feed', items, kernel')
         /\ \A c \in d.resolves : kernel'[c] = "resolved"
<1> DEFINE closing == {c \in d.resolves : kernel[c] # "resolved"}
           cs == SetToSeq(closing)
<1>1. /\ graph' = d.graph
      /\ kernel' = [c \in Conflicts |-> IF c \in closing THEN "resolved" ELSE kernel[c]]
      /\ feed' = IF closing = {} THEN feed ELSE Report(cs, "resolved")
  BY DEF Decided
<1>2. closing \in SUBSET Known /\ Known \subseteq Conflicts /\ IsFiniteSet(Known) BY SceneFacts DEF DecisionOK
<1>3. Sound(graph, graph') BY <1>1 DEF DecisionOK
<1>4. kernel' \in [Conflicts -> Statuses \cup {None}] BY <1>1 DEF Statuses
<1>5. \A c \in d.resolves : kernel'[c] = "resolved" BY <1>1, <1>2 DEF DecisionOK
<1>6. FeedOK(feed') /\ InStep(feed', items, kernel')
  <2>1. CASE closing = {}
    <3>1. feed' = feed BY <1>1, <2>1
    <3>2. kernel' = kernel BY <1>1, <2>1
    <3> QED BY <3>1, <3>2
  <2>2. CASE closing # {}
    <3>1. feed' = Report(cs, "resolved") BY <1>1, <2>2
    <3>2. IsFiniteSet(closing) BY <1>2, FS_Subset
    <3>3. \A c, e \in closing : About(c).kind = "track_order" => About(e).project = About(c).project
      BY DEF DecisionOK
    <3>4. (\A c \in closing : kernel'[c] = "resolved") /\ \A c \in Known \ closing : kernel'[c] = kernel[c]
      BY <1>1, <1>2
    <3> HIDE DEF closing, cs
    <3>5. cs \in Seq(closing) /\ IsInjective(cs) /\ Range(cs) = closing BY <3>2, SetInOrder DEF cs
    <3>6. cs \in Seq(Known) BY <1>2, <3>5
    <3>7. "resolved" \in Statuses BY DEF Statuses
    <3>8. FeedOK(Report(cs, "resolved")) /\ InStep(Report(cs, "resolved"), items, kernel')
      BY <3>3, <3>4, <3>5, <3>6, <3>7, Telling
    <3> QED BY <3>1, <3>8
  <2> QED BY <2>1, <2>2
<1> QED BY <1>3, <1>4, <1>5, <1>6

-----------------------------------------------------------------------------
(* What each decision does. *)

(* A count of one more *)
LEMMA CountedIsCount ==
  ASSUME NEW f \in [Conflicts -> Nat], NEW c
  PROVE  [f EXCEPT ![c] = @ + 1] \in [Conflicts -> Nat]
<1> DEFINE h == [x \in Conflicts |-> IF x = c THEN f[x] + 1 ELSE f[x]]
<1>1. [f EXCEPT ![c] = @ + 1] = h OBVIOUS
<1>2. \A x \in Conflicts : f[x] \in Nat /\ f[x] + 1 \in Nat OBVIOUS
<1>3. h \in [Conflicts -> Nat] BY <1>2
<1> QED BY <1>1, <1>3

(* A decision that makes nothing, and has its own conflict resolved *)
LEMMA ResolvingIsOK ==
  ASSUME scene \in Scenes, GraphOK(graph), NEW its, NEW it \in ItemSet, NEW h, Sound(graph, h),
         \/ h.made = graph.made
         \/ it.kind # "clip_timing" /\ h.made = [graph.made EXCEPT ![it.conflict] = @ + 1]
  PROVE  DecisionOK(its, it, Resolving(h, it))
<1> DEFINE d == Resolving(h, it)
<1>1. d.graph = h /\ d.resolves = {it.conflict} BY DEF Resolving
<1>2. it.conflict \in Known BY DEF ItemSet
<1>3. graph.made \in [Conflicts -> Nat] BY DEF GraphOK
<1>4. \A c \in Conflicts : h.made[c] > graph.made[c] => c = it.conflict /\ it.kind # "clip_timing"
  <2>1. CASE h.made = graph.made BY <1>3, <2>1
  <2>2. CASE it.kind # "clip_timing" /\ h.made = [graph.made EXCEPT ![it.conflict] = @ + 1]
    BY <1>3, <2>2
  <2> QED BY <2>1, <2>2
<1> HIDE DEF d
<1> QED BY <1>1, <1>2, <1>4 DEF DecisionOK, d

(* There is room for the track that a decision has added. *)
LEMMA RoomForTrack ==
  ASSUME NEW g, GraphOK(g), NEW p \in Projects, NEW u, u = WithTrack(g, p).tracks,
         UNION {Range(u[q]) : q \in DOMAIN u} \subseteq 1..MaxTracks
  PROVE  LastTrack(g) < MaxTracks
<1> DEFINE s == g.tracks[p]
           x == 1 + LastTrack(g)
           a == Append(s, x)
<1>1. g.tracks \in [Projects -> TrackSeqs] /\ "tracks" \in DOMAIN g BY DEF GraphOK, TracksOK
<1>2. u = [g.tracks EXCEPT ![p] = a] BY <1>1 DEF WithTrack
<1>3. s \in Seq(1..MaxTracks) BY <1>1 DEF TrackSeqs
<1> HIDE DEF s, x
<1>4. DOMAIN a = 1..(Len(s) + 1) /\ a[Len(s) + 1] = x /\ Len(s) \in Nat BY <1>3
<1> HIDE DEF a
<1>5. x \in Range(a)
  <2>1. Len(s) + 1 \in DOMAIN a BY <1>4
  <2> QED BY <1>4, <2>1 DEF Range
<1>6. p \in DOMAIN u /\ u[p] = a BY <1>1, <1>2
<1>7. x \in 1..MaxTracks BY <1>5, <1>6
<1>8. LastTrack(g) \in 0..MaxTracks BY LastTrackIsLast
<1> QED BY <1>7, <1>8, MaxTracksIsNat DEF x

(* What Decided asks of the graph *)
LEMMA DecidedInBounds ==
  ASSUME NEW d, Decided(d)
  PROVE  d.resolves # {} /\ UNION {Range(d.graph.tracks[q]) : q \in DOMAIN d.graph.tracks} \subseteq 1..MaxTracks
BY DEF Decided

(* The clip takes a timing. *)
LEMMA ResolveClipTimingIsOK ==
  ASSUME scene \in Scenes, GraphOK(graph), NEW its, NEW it \in ItemSet, NEW t \in Timings,
         Decided(ResolveClipTiming(graph, it, t))
  PROVE  DecisionOK(its, it, ResolveClipTiming(graph, it, t))
<1> DEFINE d == ResolveClipTiming(graph, it, t)
           h == WithTiming(graph, About(it.conflict).clip, t)
<1>1. CASE ValidTiming(t)
  <2>1. d = Resolving(h, it) BY <1>1 DEF ResolveClipTiming
  <2>2. Sound(graph, h) /\ h.made = graph.made BY WithTimingKeeps
  <2> HIDE DEF d, h
  <2> QED BY <2>1, <2>2, ResolvingIsOK DEF d
<1>2. CASE ~ValidTiming(t)
  <2>1. d = Nothing(graph) BY <1>2 DEF ResolveClipTiming
  <2>2. d.resolves = {} BY <2>1 DEF Nothing
  <2> QED BY <2>2, DecidedInBounds
<1> QED BY <1>1, <1>2

(* Parking targets open items of the clip; all are about timings, or it is the one. *)
LEMMA ParkTargetsFacts ==
  ASSUME scene \in Scenes, NEW its, ItemsOK(graph, its), NEW it \in ItemSet
  PROVE  /\ ParkTargets(its, it) \in SUBSET Known
         /\ \A c, e \in ParkTargets(its, it) : About(c).kind = "track_order" => About(e).project = About(c).project
<1> DEFINE own == {c \in OpenItems(its) : /\ ItemOf(its, c).project = it.project /\ ItemOf(its, c).kind = "clip_timing"
                                          /\ About(c).clip = About(it.conflict).clip}
<1>1. it.conflict \in Known BY DEF ItemSet
<1>2. ASSUME NEW c \in own PROVE c \in Known /\ About(c).kind # "track_order"
  <2>1. c \in Known /\ Has(its, c) /\ ItemOf(its, c).kind = "clip_timing" BY DEF OpenItems
  <2> DEFINE i == CHOOSE j \in DOMAIN its : its[j].conflict = c
  <2>2. i \in DOMAIN its /\ its[i].conflict = c BY <2>1 DEF Has
  <2>3. its[i].kind = "clip_timing" BY <2>1 DEF ItemOf
  <2> HIDE DEF i
  <2>4. Kind(c) = "clip_timing" BY <2>2, <2>3 DEF ItemsOK
  <2> QED BY <2>1, <2>4, ConflictFacts
<1>3. ParkTargets(its, it) = IF own = {} THEN {it.conflict} ELSE own BY DEF ParkTargets
<1> HIDE DEF own
<1>4. CASE own = {} BY <1>1, <1>3, <1>4
<1>5. CASE own # {} BY <1>2, <1>3, <1>5
<1> QED BY <1>4, <1>5

(* The incoming variant is parked on a track of its own. *)
LEMMA ParkIncomingVariantIsOK ==
  ASSUME scene \in Scenes, GraphOK(graph), NEW its, its # <<>>, ItemsOK(graph, its), NEW it \in ItemSet,
         it.kind = "clip_timing", Decided(ParkIncomingVariant(graph, its, it))
  PROVE  DecisionOK(its, it, ParkIncomingVariant(graph, its, it))
<1> DEFINE d == ParkIncomingVariant(graph, its, it)
           p == it.project
           clip == About(it.conflict).clip
           t == it.preview.current
           g == WithTrack(graph, p)
           h == WithTiming(g, clip, t)
           made == [h.made EXCEPT ![it.conflict] = @ + 1]
           reviewTrack == [h.reviewTrack EXCEPT ![p] = TRUE]
           k == [h EXCEPT !.made = made, !.reviewTrack = reviewTrack]
<1>0. d.resolves # {} /\ UNION {Range(d.graph.tracks[q]) : q \in DOMAIN d.graph.tracks} \subseteq 1..MaxTracks
  BY DecidedInBounds
<1>1. ValidTiming(it.preview.current) /\ ValidTiming(it.preview.incoming)
  <2>1. SUFFICES ASSUME ~(ValidTiming(it.preview.current) /\ ValidTiming(it.preview.incoming)) PROVE FALSE
    OBVIOUS
  <2>2. d = Nothing(graph) BY <2>1 DEF ParkIncomingVariant
  <2> QED BY <1>0, <2>2 DEF Nothing
<1>2. p \in Projects /\ t \in Timings /\ it.conflict \in Known /\ it.conflict \in Conflicts
  BY SceneFacts DEF ItemSet, PreviewSet
<1>3. h.tracks = g.tracks /\ DOMAIN h = DOMAIN graph BY DEF WithTiming, WithTrack
<1>4. d = [graph |-> k, resolves |-> ParkTargets(its, it)]
  <2>1. "made" \in DOMAIN h /\ "reviewTrack" \in DOMAIN h BY <1>3 DEF GraphOK
  <2>2. d = [graph |-> [h EXCEPT !.made[it.conflict] = @ + 1, !.reviewTrack[p] = TRUE], resolves |-> ParkTargets(its, it)]
    BY <1>1 DEF ParkIncomingVariant
  <2> HIDE DEF d, h
  <2> QED BY <2>1, <2>2
<1>5. k.clips = h.clips /\ k.tracks = h.tracks /\ k.made = made /\ DOMAIN k = DOMAIN h
  <2>1. DOMAIN h = {"clips", "tracks", "media", "reviewTrack", "made", "archived"} BY <1>3 DEF GraphOK
  <2> HIDE DEF h, made, reviewTrack
  <2> QED BY <2>1
<1>6. LastTrack(graph) < MaxTracks
  <2>1. d.graph.tracks = g.tracks
    <3> HIDE DEF d, g, h, k
    <3> QED BY <1>3, <1>4, <1>5
  <2> HIDE DEF d
  <2> QED BY <1>0, <1>2, <2>1, RoomForTrack
<1>7. Sound(graph, g) /\ g.made = graph.made
  <2> HIDE DEF g
  <2> QED BY <1>2, <1>6, WithTrackKeeps DEF Sound, g
<1>8. Sound(g, h) /\ h.made = g.made
  <2> HIDE DEF g, t, clip
  <2> QED BY <1>2, <1>7, WithTimingKeeps DEF Sound
<1>9. Sound(graph, h) /\ h.made = graph.made /\ graph.made \in [Conflicts -> Nat]
  <2> HIDE DEF g, h
  <2> QED BY <1>7, <1>8, SoundTransitive DEF GraphOK
<1> HIDE DEF g, h
<1>10. made = [graph.made EXCEPT ![it.conflict] = @ + 1] /\ made \in [Conflicts -> Nat]
  <2>1. made = [graph.made EXCEPT ![it.conflict] = @ + 1] BY <1>9
  <2> HIDE DEF made
  <2> QED BY <1>9, <2>1, CountedIsCount
<1> HIDE DEF made, reviewTrack, k, d
<1>11. Sound(graph, k)
  <2>1. GraphOK(h) BY <1>9 DEF Sound
  <2>2. Sound(h, k) BY <1>5, <1>10, <2>1, OtherKeeps
  <2> QED BY <1>9, <2>2, SoundTransitive
<1>12. \A c \in Conflicts : k.made[c] > graph.made[c] => c = it.conflict BY <1>5, <1>9, <1>10
<1>13. d.graph = k /\ d.resolves = ParkTargets(its, it) BY <1>4
<1> QED BY <1>11, <1>12, <1>13, ParkTargetsFacts DEF DecisionOK, d

(* The tracks take an order. *)
LEMMA ResolveTrackOrderIsOK ==
  ASSUME scene \in Scenes, GraphOK(graph), NEW its, NEW it \in ItemSet, NEW order \in TrackSeqs,
         Decided(ResolveTrackOrder(graph, it, order))
  PROVE  DecisionOK(its, it, ResolveTrackOrder(graph, it, order))
<1> DEFINE d == ResolveTrackOrder(graph, it, order)
           h == ApplyOrder(graph, it.project, order)
<1>0. it.project \in Projects BY DEF ItemSet
<1>1. CASE CanOrder(graph, it.project, order)
  <2>1. d = Resolving(h, it) BY <1>1 DEF ResolveTrackOrder
  <2>2. Sound(graph, h) /\ h.made = graph.made BY <1>0, <1>1, ApplyOrderKeeps
  <2> HIDE DEF d, h
  <2> QED BY <2>1, <2>2, ResolvingIsOK DEF d
<1>2. CASE ~CanOrder(graph, it.project, order)
  <2>1. d = Nothing(graph) BY <1>2 DEF ResolveTrackOrder
  <2>2. d.resolves = {} BY <2>1 DEF Nothing
  <2> QED BY <2>2, DecidedInBounds
<1> QED BY <1>1, <1>2

(* A variant is made, on the project's review track or a new one. *)
LEMMA ParkEditedVariantIsOK ==
  ASSUME scene \in Scenes, GraphOK(graph), NEW its, NEW it \in ItemSet, it.kind # "clip_timing",
         Decided(ParkEditedVariant(graph, it))
  PROVE  DecisionOK(its, it, ParkEditedVariant(graph, it))
<1> DEFINE d == ParkEditedVariant(graph, it)
           p == it.project
           g == WithTrack(graph, p)
           h == IF graph.reviewTrack[p] THEN graph ELSE g
           made == [h.made EXCEPT ![it.conflict] = @ + 1]
           reviewTrack == [h.reviewTrack EXCEPT ![p] = TRUE]
           k == [h EXCEPT !.made = made, !.reviewTrack = reviewTrack]
<1>0. d.resolves # {} /\ UNION {Range(d.graph.tracks[q]) : q \in DOMAIN d.graph.tracks} \subseteq 1..MaxTracks
  BY DecidedInBounds
<1>1. p \in Projects BY DEF ItemSet
<1>2. DOMAIN g = DOMAIN graph BY DEF WithTrack
<1>3. DOMAIN h = {"clips", "tracks", "media", "reviewTrack", "made", "archived"} BY <1>2 DEF GraphOK
<1>4. d = Resolving(k, it)
  <2>1. d = Resolving([h EXCEPT !.made[it.conflict] = @ + 1, !.reviewTrack[p] = TRUE], it) BY DEF ParkEditedVariant
  <2>2. k = [h EXCEPT !.made[it.conflict] = @ + 1, !.reviewTrack[p] = TRUE]
    <3> HIDE DEF h
    <3> QED BY <1>3
  <2> HIDE DEF d, k, h
  <2> QED BY <2>1, <2>2
<1>5. k.clips = h.clips /\ k.tracks = h.tracks /\ k.made = made /\ DOMAIN k = DOMAIN h
  <2> HIDE DEF h, made, reviewTrack
  <2> QED BY <1>3
<1>6. d.graph.tracks = h.tracks
  <2> HIDE DEF d, h, k
  <2> QED BY <1>4, <1>5 DEF Resolving
<1>7. Sound(graph, h) /\ h.made = graph.made /\ graph.made \in [Conflicts -> Nat]
  <2>1. CASE graph.reviewTrack[p]
    <3>1. h = graph BY <2>1
    <3> HIDE DEF h
    <3> QED BY <3>1 DEF Sound, Grows, GraphOK
  <2>2. CASE ~graph.reviewTrack[p]
    <3>1. h = g BY <2>2
    <3>2. LastTrack(graph) < MaxTracks
      <4> HIDE DEF d, h
      <4> QED BY <1>0, <1>1, <1>6, <3>1, RoomForTrack
    <3> HIDE DEF h
    <3> QED BY <1>1, <3>1, <3>2, WithTrackKeeps DEF Sound, GraphOK
  <2> QED BY <2>1, <2>2
<1> HIDE DEF h
<1>8. made = [graph.made EXCEPT ![it.conflict] = @ + 1] /\ made \in [Conflicts -> Nat]
  <2>1. made = [graph.made EXCEPT ![it.conflict] = @ + 1] BY <1>7
  <2> HIDE DEF made
  <2> QED BY <1>7, <2>1, CountedIsCount
<1> HIDE DEF made, reviewTrack, k, d
<1>9. Sound(graph, k)
  <2>1. GraphOK(h) BY <1>7 DEF Sound
  <2>2. Sound(h, k) BY <1>5, <1>8, <2>1, OtherKeeps
  <2> QED BY <1>7, <2>2, SoundTransitive
<1> QED BY <1>4, <1>5, <1>8, <1>9, ResolvingIsOK DEF d

(* A variant is made of what was deleted. *)
LEMMA RestoreVariantIsOK ==
  ASSUME scene \in Scenes, GraphOK(graph), NEW its, NEW it \in ItemSet, it.kind # "clip_timing"
  PROVE  DecisionOK(its, it, RestoreVariant(graph, it))
<1> DEFINE made == [graph.made EXCEPT ![it.conflict] = @ + 1]
           h == [graph EXCEPT !.made = made]
<1>1. RestoreVariant(graph, it) = Resolving(h, it) BY DEF RestoreVariant, GraphOK
<1>2. made \in [Conflicts -> Nat]
  <2>1. graph.made \in [Conflicts -> Nat] BY DEF GraphOK
  <2> QED BY <2>1, CountedIsCount
<1>3. h.clips = graph.clips /\ h.tracks = graph.tracks /\ h.made = made /\ DOMAIN h = DOMAIN graph
  <2> HIDE DEF made
  <2> QED BY DEF GraphOK
<1> HIDE DEF h
<1>4. Sound(graph, h) BY <1>2, <1>3, OtherKeeps
<1> QED BY <1>1, <1>3, <1>4, ResolvingIsOK

(* What is archived, and the state of a resource, is not about clips or tracks. *)
LEMMA ArchiveOrMediaIsOK ==
  ASSUME scene \in Scenes, GraphOK(graph), NEW its, NEW it \in ItemSet, NEW d,
         d \in {ArchiveIncomingEdit(graph, it), RelinkResource(graph, it), KeepOfflinePlaceholder(graph, it)}
  PROVE  DecisionOK(its, it, d)
<1>1. PICK h : /\ d = Resolving(h, it) /\ DOMAIN h = DOMAIN graph
               /\ h.clips = graph.clips /\ h.tracks = graph.tracks /\ h.made = graph.made
  <2>1. DOMAIN graph = {"clips", "tracks", "media", "reviewTrack", "made", "archived"} BY DEF GraphOK
  <2>2. CASE d = ArchiveIncomingEdit(graph, it)
    <3> DEFINE a == [graph.archived EXCEPT ![it.conflict] = @ + 1]
               h == [graph EXCEPT !.archived = a]
    <3>1. d = Resolving(h, it) BY <2>1, <2>2 DEF ArchiveIncomingEdit
    <3> HIDE DEF a
    <3>2. DOMAIN h = DOMAIN graph /\ h.clips = graph.clips /\ h.tracks = graph.tracks /\ h.made = graph.made BY <2>1
    <3> QED BY <3>1, <3>2
  <2>3. CASE d = RelinkResource(graph, it)
    <3> DEFINE a == [graph.media EXCEPT ![About(it.conflict).resource] = "ready"]
               h == [graph EXCEPT !.media = a]
    <3>1. d = Resolving(h, it) BY <2>1, <2>3 DEF RelinkResource
    <3> HIDE DEF a
    <3>2. DOMAIN h = DOMAIN graph /\ h.clips = graph.clips /\ h.tracks = graph.tracks /\ h.made = graph.made BY <2>1
    <3> QED BY <3>1, <3>2
  <2>4. CASE d = KeepOfflinePlaceholder(graph, it)
    <3> DEFINE a == [graph.media EXCEPT ![About(it.conflict).resource] = "offline"]
               h == [graph EXCEPT !.media = a]
    <3>1. d = Resolving(h, it) BY <2>1, <2>4 DEF KeepOfflinePlaceholder
    <3> HIDE DEF a
    <3>2. DOMAIN h = DOMAIN graph /\ h.clips = graph.clips /\ h.tracks = graph.tracks /\ h.made = graph.made BY <2>1
    <3> QED BY <3>1, <3>2
  <2> QED BY <2>2, <2>3, <2>4
<1>2. h.made \in [Conflicts -> Nat] BY <1>1 DEF GraphOK
<1>3. Sound(graph, h) BY <1>1, <1>2, OtherKeeps
<1> QED BY <1>1, <1>3, ResolvingIsOK

(* Every decision is one of these. *)
LEMMA Decisions ==
  ASSUME scene \in Scenes, GraphOK(graph), NEW its, ItemsOK(graph, its), NEW it \in ItemSet,
         NEW drafts \in SUBSET Timings, NEW orders \in SUBSET TrackSeqs, DecisionOn(its, it, drafts, orders)
  PROVE  \E d : DecisionOK(its, it, d) /\ Decided(d)
<1>1. it.preview \in PreviewSet BY DEF ItemSet
<1>2. CASE it.kind = "clip_timing" /\ TimingInspector(its, it, drafts)
  <2>1. CASE \E t \in {it.preview.current, it.preview.incoming} \cup drafts : Decided(ResolveClipTiming(graph, it, t))
    <3>1. PICK t \in {it.preview.current, it.preview.incoming} \cup drafts : Decided(ResolveClipTiming(graph, it, t))
      BY <2>1
    <3>2. t \in Timings BY <1>1 DEF PreviewSet
    <3> QED BY <3>1, <3>2, ResolveClipTimingIsOK
  <2>2. CASE its # <<>> /\ Decided(ParkIncomingVariant(graph, its, it))
    BY <1>2, <2>2, ParkIncomingVariantIsOK
  <2> QED BY <1>2, <2>1, <2>2 DEF TimingInspector
<1>3. CASE it.kind = "track_order" /\ OrderInspector(it, orders)
  <2>1. PICK o \in {it.preview.currentOrder, it.preview.incomingOrder} \cup orders :
          Decided(ResolveTrackOrder(graph, it, o))
    BY <1>3 DEF OrderInspector
  <2>2. o \in TrackSeqs BY <1>1 DEF PreviewSet
  <2> QED BY <2>1, <2>2, ResolveTrackOrderIsOK
<1>4. CASE it.kind = "delete_vs_edit" /\ DeleteInspector(it)
  <2>1. PICK d \in {RestoreVariant(graph, it), ParkEditedVariant(graph, it), ArchiveIncomingEdit(graph, it)} : Decided(d)
    BY <1>4 DEF DeleteInspector
  <2>2. it.kind # "clip_timing" BY <1>4
  <2>3. CASE d = RestoreVariant(graph, it) BY <2>1, <2>2, <2>3, RestoreVariantIsOK
  <2>4. CASE d = ParkEditedVariant(graph, it) BY <2>1, <2>2, <2>4, ParkEditedVariantIsOK
  <2>5. CASE d = ArchiveIncomingEdit(graph, it) BY <2>1, <2>5, ArchiveOrMediaIsOK
  <2> QED BY <2>1, <2>3, <2>4, <2>5
<1>5. CASE it.kind = "dangling_resource" /\ DanglingInspector(it)
  <2>1. PICK d \in {RelinkResource(graph, it), KeepOfflinePlaceholder(graph, it)} : Decided(d)
    BY <1>5 DEF DanglingInspector
  <2> QED BY <2>1, ArchiveOrMediaIsOK
<1> QED BY <1>2, <1>3, <1>4, <1>5 DEF DecisionOn

-----------------------------------------------------------------------------
(* The steps. *)

(* The parts of the invariant, of the state that comes next *)
LEMMA SceneStays ==
  ASSUME scene \in Scenes, scene' = scene, GraphOK(graph'), kernel' \in [Conflicts -> Statuses \cup {None}],
         FeedOK(feed'), ItemsOK(graph', items'), InStep(feed', items', kernel'), PageOK(page', items')
  PROVE  ReviewInv'
<1>1. GraphOK(graph)' BY DEF GraphOK
<1>2. FeedOK(feed)' BY DEF FeedOK, ReportOK, EntrySet, Known, About
<1>3. ItemsOK(graph, items)' BY DEF ItemsOK, ItemSet, Known, Kind, About
<1>4. InStep(feed, items, kernel)' BY DEF InStep, Known
<1>5. PageOK(page, items)' OBVIOUS
<1> QED BY <1>1, <1>2, <1>3, <1>4, <1>5 DEF ReviewInv

(* Only the page changes. *)
LEMMA PageOnly ==
  ASSUME ReviewInv, UNCHANGED <<scene, graph, kernel, feed, items>>, PageOK(page', items)
  PROVE  ReviewInv'
<1>1. /\ scene \in Scenes /\ GraphOK(graph) /\ kernel \in [Conflicts -> Statuses \cup {None}]
      /\ FeedOK(feed) /\ ItemsOK(graph, items) /\ InStep(feed, items, kernel)
  BY DEF ReviewInv
<1> QED BY <1>1, SceneStays

(* At first nothing is reported and nothing is shown. *)
LEMMA InitKeeps == Init => ReviewInv
<1> SUFFICES ASSUME Init PROVE ReviewInv OBVIOUS
<1>1. scene \in Scenes BY DEF Init
<1>2. GraphOK(graph)
  <2>1. GraphAssumed(scene) BY <1>1, SceneFacts
  <2>2. /\ DOMAIN graph = {"clips", "tracks", "media", "reviewTrack", "made", "archived"}
        /\ graph.clips = scene.clips /\ graph.tracks = scene.tracks /\ graph.made = [c \in Conflicts |-> 0]
    BY DEF Init
  <2>3. graph.clips \in [Clips -> ClipSet] BY <2>1, <2>2 DEF GraphAssumed, ClipSet
  <2>4. TracksOK(graph.tracks) BY <2>1, <2>2 DEF GraphAssumed, TracksOK, TrackSeqs
  <2>5. Grows(scene.tracks, graph.tracks) BY <2>2 DEF Grows
  <2> QED BY <2>2, <2>3, <2>4, <2>5 DEF GraphOK
<1>3. /\ kernel = [c \in Conflicts |-> None] /\ feed = <<>> /\ items = <<>>
      /\ page = [project |-> scene.projects[1], open |-> FALSE, selected |-> None, pane |-> NoPane]
  BY DEF Init
<1>4. kernel \in [Conflicts -> Statuses \cup {None}] BY <1>3
<1>5. FeedOK(feed) BY <1>3 DEF FeedOK
<1>6. ItemsOK(graph, items) BY <1>3 DEF ItemsOK
<1>7. InStep(feed, items, kernel) BY <1>1, <1>3, SceneFacts DEF InStep, Has
<1>8. PageOK(page, items) BY <1>3, NoTimingIsTiming DEF PageOK, PageTyped, PaneSet, NoPane
<1> QED BY <1>1, <1>2, <1>4, <1>5, <1>6, <1>7, <1>8 DEF ReviewInv

(* What is selected when an inspector is shown is an item. *)
LEMMA ShownItem ==
  ASSUME ReviewInv, page.pane.kind # None
  PROVE  \E i \in DOMAIN items : Selected(page, items)[1] = items[i] /\ items[i] \in ItemSet
<1>1. items \in Seq(ItemSet) BY DEF ReviewInv, ItemsOK
<1>2. \E i \in DOMAIN items : items[i].project = page.project BY DEF ReviewInv, PageOK
<1>3. PICK i \in DOMAIN items : Selected(page, items)[1] = items[i] BY <1>1, <1>2, SelectedFacts
<1> QED BY <1>1, <1>3

(* A group of conflicts opens: the layer keeps one write of each, and reports them at once. *)
LEMMA OpenKeeps ==
  ASSUME ReviewInv, NEW group \in scene.groups, Open(group)
  PROVE  ReviewInv' /\ graph'.made = graph.made
<1>1. /\ scene \in Scenes /\ GraphOK(graph) /\ kernel \in [Conflicts -> Statuses \cup {None}]
      /\ FeedOK(feed) /\ ItemsOK(graph, items) /\ InStep(feed, items, kernel) /\ PageOK(page, items)
  BY DEF ReviewInv
<1>2. /\ kernel' = [c \in Conflicts |-> IF Contains(group, c) THEN "open" ELSE kernel[c]]
      /\ graph' = Winning(graph, group) /\ feed' = Report(group, "open")
      /\ scene' = scene /\ items' = items /\ page' = page
  BY DEF Open
<1>3. group \in Seq(Known) /\ GroupAssumed(scene, group) /\ Known \subseteq Conflicts BY <1>1, SceneFacts
<1>4. \A c : Contains(group, c) <=> c \in Range(group) BY <1>3 DEF Contains, Range
<1>5. "open" \in Statuses BY DEF Statuses
<1>6. Sound(graph, graph') /\ graph'.made = graph.made BY <1>1, <1>2, <1>3, WinningKeeps
<1>7. FeedOK(feed') /\ InStep(feed', items, kernel')
  <2>1. IsInjective(group) /\ Range(group) \subseteq Known BY <1>3, RangeIn DEF GroupAssumed
  <2>2. \A c, d \in Range(group) : About(d).project = About(c).project
    <3>1. \A i, j \in DOMAIN group : About(group[i]).project = About(group[j]).project BY <1>3 DEF GroupAssumed, About
    <3> QED BY <3>1 DEF Range
  <2>3. (\A c \in Range(group) : kernel'[c] = "open") /\ \A c \in Known \ Range(group) : kernel'[c] = kernel[c]
    BY <1>2, <1>3, <1>4, <2>1
  <2>4. \A c, d \in Range(group) : About(c).kind = "track_order" => About(d).project = About(c).project BY <2>2
  <2>5. FeedOK(Report(group, "open")) /\ InStep(Report(group, "open"), items, kernel')
    BY <1>1, <1>3, <1>5, <2>1, <2>3, <2>4, Telling
  <2> QED BY <1>2, <2>5
<1>8. ItemsOK(graph', items) BY <1>1, <1>6, ItemsKept
<1>9. kernel' \in [Conflicts -> Statuses \cup {None}] BY <1>1, <1>2, <1>5
<1> QED BY <1>1, <1>2, <1>6, <1>7, <1>8, <1>9, SceneStays DEF Sound

(* One conflict is reported, with what the layer now knows of it. *)
LEMMA TellingOne ==
  ASSUME scene \in Scenes, FeedOK(feed), NEW its, NEW k, InStep(feed, its, k), NEW c \in Known,
         NEW status \in Statuses, NEW l, l[c] = status, \A d \in Known \ {c} : l[d] = k[d]
  PROVE  FeedOK(Report(<<c>>, status)) /\ InStep(Report(<<c>>, status), its, l)
<1> DEFINE cs == <<c>>
<1>1. cs \in Seq(Known) /\ IsInjective(cs) /\ Range(cs) = {c} BY DEF IsInjective, Range
<1> HIDE DEF cs
<1>2. (\A d \in Range(cs) : l[d] = status) /\ \A d \in Known \ Range(cs) : l[d] = k[d] BY <1>1
<1>3. \A d, e \in Range(cs) : About(d).kind = "track_order" => About(e).project = About(d).project BY <1>1
<1>4. FeedOK(Report(cs, status)) /\ InStep(Report(cs, status), its, l) BY <1>1, <1>2, <1>3, Telling
<1> QED BY <1>4 DEF cs

(* The layer reports a conflict again. *)
LEMMA RepeatKeeps ==
  ASSUME ReviewInv, NEW c \in Known, Repeat(c)
  PROVE  ReviewInv' /\ graph'.made = graph.made
<1>1. /\ scene \in Scenes /\ GraphOK(graph) /\ kernel \in [Conflicts -> Statuses \cup {None}]
      /\ FeedOK(feed) /\ ItemsOK(graph, items) /\ InStep(feed, items, kernel) /\ PageOK(page, items)
  BY DEF ReviewInv
<1>2. /\ kernel[c] \in {"open", "acknowledged"} /\ feed' = Report(<<c>>, kernel[c])
      /\ scene' = scene /\ graph' = graph /\ kernel' = kernel /\ items' = items /\ page' = page
  BY DEF Repeat
<1>3. kernel[c] \in Statuses BY <1>2 DEF Statuses
<1>4. FeedOK(feed') /\ InStep(feed', items, kernel) BY <1>1, <1>2, <1>3, TellingOne
<1> QED BY <1>1, <1>2, <1>4, SceneStays

(* The conflict of the item that is shown is acknowledged. *)
LEMMA AcknowledgeKeeps ==
  ASSUME ReviewInv, Acknowledge
  PROVE  ReviewInv' /\ graph'.made = graph.made
<1>1. /\ scene \in Scenes /\ GraphOK(graph) /\ kernel \in [Conflicts -> Statuses \cup {None}]
      /\ FeedOK(feed) /\ ItemsOK(graph, items) /\ InStep(feed, items, kernel) /\ PageOK(page, items)
  BY DEF ReviewInv
<1> DEFINE c == Selected(page, items)[1].conflict
<1>2. /\ page.pane.kind # None /\ kernel' = [kernel EXCEPT ![c] = "acknowledged"]
      /\ feed' = Report(<<c>>, "acknowledged")
      /\ scene' = scene /\ graph' = graph /\ items' = items /\ page' = page
  BY DEF Acknowledge
<1>3. c \in Known /\ c \in Conflicts
  <2>1. Selected(page, items)[1] \in ItemSet BY <1>2, ShownItem
  <2>2. c \in Known BY <2>1 DEF ItemSet
  <2> QED BY <1>1, <2>2, SceneFacts
<1> HIDE DEF c
<1>4. "acknowledged" \in Statuses BY DEF Statuses
<1>5. kernel' \in [Conflicts -> Statuses \cup {None}] BY <1>1, <1>2, <1>4
<1>6. kernel'[c] = "acknowledged" /\ \A d \in Known \ {c} : kernel'[d] = kernel[d] BY <1>1, <1>2, <1>3, SceneFacts
<1>7. FeedOK(feed') /\ InStep(feed', items, kernel')
  <2>1. FeedOK(Report(<<c>>, "acknowledged")) /\ InStep(Report(<<c>>, "acknowledged"), items, kernel')
    BY <1>1, <1>3, <1>4, <1>6, TellingOne
  <2> QED BY <1>2, <2>1
<1> QED BY <1>1, <1>2, <1>5, <1>7, SceneStays

(* The root handles the oldest report: the project it files it under is that of the order, if *)
(* it is about one.                                                                           *)
LEMMA HandleKeeps ==
  ASSUME ReviewInv, Handle
  PROVE  ReviewInv' /\ graph'.made = graph.made
<1>1. /\ scene \in Scenes /\ GraphOK(graph) /\ kernel \in [Conflicts -> Statuses \cup {None}]
      /\ FeedOK(feed) /\ ItemsOK(graph, items) /\ InStep(feed, items, kernel) /\ PageOK(page, items)
  BY DEF ReviewInv
<1> DEFINE report == feed[1]
           cs == {report[i].conflict : i \in DOMAIN report}
           project == ProjectHint(graph, cs)
           new == Reported(graph, report, project)
           created == Created(items, new)
           its == Updated(items, new) \o created
           ses == IF created = <<>> THEN sessions ELSE Append(sessions, Linked(SessionFor(new), created))
<1>2. /\ feed # <<>> /\ items' = its /\ page' = Rendered(page, its, ses, Seen(page, items, sessions))
      /\ feed' = Tail(feed) /\ scene' = scene /\ graph' = graph /\ kernel' = kernel
  BY DEF Handle
<1>3. ReportOK(report)
  <2>1. 1 \in DOMAIN feed BY <1>1, <1>2 DEF FeedOK
  <2> QED BY <1>1, <2>1 DEF FeedOK
<1> HIDE DEF report
<1>4. report \in Seq(EntrySet) /\ \A i \in DOMAIN report : report[i].conflict \in Known /\ report[i].status \in Statuses
  <2>1. report \in Seq(EntrySet) BY <1>3 DEF ReportOK
  <2>2. \A i \in DOMAIN report : report[i] \in EntrySet BY <2>1
  <2> QED BY <2>1, <2>2 DEF EntrySet
<1>5. cs \in SUBSET Known BY <1>4
<1>6. /\ project \in Projects
      /\ \A i \in DOMAIN report : About(report[i].conflict).kind = "track_order"
           => project = About(report[i].conflict).project
  <2>1. \A c \in cs : About(c).kind = "track_order" => \A d \in cs : About(d).project = About(c).project
    BY <1>3 DEF ReportOK
  <2>2. \A i \in DOMAIN report : report[i].conflict \in cs OBVIOUS
  <2> HIDE DEF cs
  <2>3. project \in Projects BY <1>1, <1>5, ProjectHintFacts
  <2>4. \A c \in cs : About(c).kind = "track_order" => project = About(c).project
    BY <1>1, <1>5, <2>1, ProjectHintFacts
  <2> QED BY <2>2, <2>3, <2>4
<1> HIDE DEF project, cs
<1>7. new = [i \in DOMAIN report |-> Item(graph, report[i].conflict, report[i].status, project)] BY DEF Reported
<1> HIDE DEF new
<1>8. ASSUME NEW i \in DOMAIN report
      PROVE  /\ new[i] \in ItemSet /\ new[i].conflict = report[i].conflict /\ new[i].status = report[i].status
             /\ new[i].kind = Kind(report[i].conflict) /\ Offers(graph, new[i])
  <2>1. new[i] = Item(graph, report[i].conflict, report[i].status, project) BY <1>7
  <2> DEFINE c == report[i].conflict
             s == report[i].status
  <2>2. c \in Known /\ s \in Statuses /\ (About(c).kind = "track_order" => project = About(c).project) BY <1>4, <1>6
  <2> HIDE DEF c, s
  <2>3. new[i] = Item(graph, c, s, project) BY <2>1 DEF c, s
  <2>4. /\ new[i] \in ItemSet /\ new[i].conflict = c /\ new[i].status = s /\ new[i].kind = Kind(c)
        /\ Offers(graph, new[i])
    BY <1>1, <1>6, <2>2, <2>3, ItemFacts
  <2> QED BY <2>4 DEF c, s
<1>9. new \in Seq(ItemSet) /\ DOMAIN new = DOMAIN report
  <2>1. DOMAIN report = 1..Len(report) /\ Len(report) \in Nat BY <1>4
  <2>2. new \in [1..Len(report) -> ItemSet] BY <1>7, <1>8, <2>1
  <2> QED BY <2>1, <2>2
<1>10. \A i, j \in DOMAIN new : new[i].conflict = new[j].conflict => i = j BY <1>3, <1>8, <1>9 DEF ReportOK
<1>11. /\ ItemsOK(graph, its)
       /\ \A j \in DOMAIN new : \E i \in DOMAIN its : its[i] = new[j]
       /\ \A c : ~Has(new, c) =>
            /\ \A i \in DOMAIN items : items[i].conflict = c => i \in DOMAIN its /\ its[i] = items[i]
            /\ Has(its, c) => Has(items, c)
  <2>1. \A i \in DOMAIN new : new[i].kind = Kind(new[i].conflict) /\ Offers(graph, new[i]) BY <1>8, <1>9
  <2> QED BY <1>1, <1>9, <1>10, <2>1, ItemsAfterReport
<1> HIDE DEF its, ses
<1>12. FeedOK(feed') /\ InStep(feed', its, kernel)
  <2>1. \A j \in DOMAIN report :
          \E i \in DOMAIN its : its[i].conflict = report[j].conflict /\ its[i].status = report[j].status
    BY <1>8, <1>9, <1>11
  <2>2. \A c : Has(new, c) => Mentioned(c, report) BY <1>8, <1>9 DEF Has, Mentioned
  <2>3. \A c : ~Mentioned(c, report) =>
          /\ \A i \in DOMAIN items : items[i].conflict = c => i \in DOMAIN its /\ its[i] = items[i]
          /\ Has(its, c) => Has(items, c)
    BY <1>11, <2>2
  <2> QED BY <1>1, <1>2, <2>1, <2>3, Handling DEF report
<1>13. PageOK(page', its)
  <2>1. its \in Seq(ItemSet) /\ PageTyped(page) BY <1>1, <1>11 DEF ItemsOK, PageOK
  <2> QED BY <1>2, <2>1, RenderedKeeps
<1> QED BY <1>1, <1>2, <1>11, <1>12, <1>13, SceneStays

(* A summary makes a session, and no item. *)
LEMMA SyncKeeps ==
  ASSUME ReviewInv, Sync
  PROVE  ReviewInv' /\ graph'.made = graph.made
<1> DEFINE ses == Append(sessions, SummarySession(scene.projects[1]))
<1>1. /\ page' = Rendered(page, items, ses, Seen(page, items, sessions))
      /\ UNCHANGED <<scene, graph, kernel, feed, items>>
  BY DEF Sync
<1>2. items \in Seq(ItemSet) /\ PageTyped(page) BY DEF ReviewInv, ItemsOK, PageOK
<1> HIDE DEF ses
<1>3. PageOK(page', items) BY <1>1, <1>2, RenderedKeeps
<1> QED BY <1>1, <1>3, PageOnly

(* An edit loses no track and moves none to another project. *)
LEMMA EditKeeps ==
  ASSUME ReviewInv, Edit
  PROVE  ReviewInv' /\ graph'.made = graph.made
<1>1. /\ scene \in Scenes /\ GraphOK(graph) /\ kernel \in [Conflicts -> Statuses \cup {None}]
      /\ FeedOK(feed) /\ ItemsOK(graph, items) /\ InStep(feed, items, kernel) /\ PageOK(page, items)
  BY DEF ReviewInv
<1>2. scene' = scene /\ kernel' = kernel /\ feed' = feed /\ items' = items /\ page' = page BY DEF Edit
<1>3. /\ DOMAIN graph = {"clips", "tracks", "media", "reviewTrack", "made", "archived"}
      /\ graph.clips \in [Clips -> ClipSet] /\ graph.tracks \in [Projects -> TrackSeqs]
      /\ \A p \in Projects : IsInjective(graph.tracks[p])
  BY <1>1 DEF GraphOK, TracksOK
<1>4. Range(scene.projects) \subseteq Projects BY <1>1, SceneFacts, RangeIn
<1>5. Sound(graph, graph') /\ graph'.made = graph.made
  <2>1. CASE \E c \in DOMAIN graph.clips, field \in Fields, v \in 1..MaxTime :
               graph.clips[c].track # 0 /\ graph' = [graph EXCEPT !.clips[c][field] = v]
    <3>1. PICK c \in Clips, field \in Fields, v \in 1..MaxTime : graph' = [graph EXCEPT !.clips[c][field] = v]
      BY <1>3, <2>1
    <3> DEFINE clips == [graph.clips EXCEPT ![c][field] = v]
    <3>2. graph' = [graph EXCEPT !.clips = clips] BY <1>3, <3>1
    <3>3. clips \in [Clips -> ClipSet] /\ \A x \in Clips : clips[x].track = graph.clips[x].track
      <4>1. v \in Int BY ReviewAssumption
      <4>2. field = "start" \/ field = "duration" BY DEF Fields
      <4> QED BY <1>3, <4>1, <4>2 DEF ClipSet
    <3> HIDE DEF clips
    <3>4. Sound(graph, graph') BY <1>1, <3>2, <3>3, ClipsChange DEF Sound
    <3> QED BY <1>3, <3>2, <3>4
  <2>2. CASE \E c \in DOMAIN graph.clips : graph' = [graph EXCEPT !.clips[c].track = 0]
    <3>1. PICK c \in Clips : graph' = [graph EXCEPT !.clips[c].track = 0] BY <1>3, <2>2
    <3> DEFINE clips == [graph.clips EXCEPT ![c].track = 0]
    <3>2. graph' = [graph EXCEPT !.clips = clips] BY <1>3, <3>1
    <3>3. clips \in [Clips -> ClipSet] /\ \A x \in Clips : clips[x].track \in {0, graph.clips[x].track}
      <4>1. 0 \in 0..MaxTracks BY MaxTracksIsNat
      <4> QED BY <1>3, <4>1 DEF ClipSet
    <3> HIDE DEF clips
    <3>4. Sound(graph, graph') BY <1>1, <3>2, <3>3, ClipsChange DEF Sound
    <3> QED BY <1>3, <3>2, <3>4
  <2>3. CASE \E p \in Range(scene.projects) : \E t \in Range(graph.tracks[p]) :
               graph' = [graph EXCEPT !.tracks[p] = Moved(@, t, First)]
    <3>1. PICK p \in Projects : \E t : graph' = [graph EXCEPT !.tracks[p] = Moved(@, t, First)] BY <1>4, <2>3
    <3>2. PICK t : graph' = [graph EXCEPT !.tracks[p] = Moved(@, t, First)] BY <3>1
    <3> DEFINE s == graph.tracks[p]
               o == Moved(s, t, First)
               u == [graph.tracks EXCEPT ![p] = o]
    <3>3. graph' = [graph EXCEPT !.tracks = u] BY <1>3, <3>2
    <3>4. s \in TrackSeqs /\ IsInjective(s) BY <1>3
    <3> HIDE DEF s
    <3>5. o \in TrackSeqs /\ IsInjective(o) /\ Range(o) = Range(s) BY <3>4, MovedKeeps
    <3> HIDE DEF o
    <3>6. u \in [Projects -> TrackSeqs] /\ \A q \in Projects : u[q] = IF q = p THEN o ELSE graph.tracks[q]
      BY <1>3, <3>5
    <3> HIDE DEF u
    <3>7. \A q \in Projects : IsInjective(u[q]) /\ Range(u[q]) = Range(graph.tracks[q])
      BY <1>3, <3>5, <3>6 DEF s
    <3>8. Sound(graph, graph') BY <1>1, <3>3, <3>6, <3>7, TracksChange
    <3> QED BY <1>3, <3>3, <3>8
  <2>4. CASE \E p \in Range(scene.projects) : LastTrack(graph) < MaxTracks /\ graph' = WithTrack(graph, p)
    <3>1. PICK p \in Projects : LastTrack(graph) < MaxTracks /\ graph' = WithTrack(graph, p) BY <1>4, <2>4
    <3> QED BY <1>1, <3>1, WithTrackKeeps DEF Sound
  <2> QED BY <2>1, <2>2, <2>3, <2>4 DEF Edit
<1>6. ItemsOK(graph', items) BY <1>1, <1>5, ItemsKept
<1> QED BY <1>1, <1>2, <1>5, <1>6, SceneStays DEF Sound

(* A decision of this page's user, or of a remote one, by a d that is allowed *)
LEMMA DecidedStep ==
  ASSUME ReviewInv, UNCHANGED <<scene, items, sessions, page>>, NEW its, NEW it, NEW d, DecisionOK(its, it, d), Decided(d)
  PROVE  ReviewInv'
<1>1. /\ scene \in Scenes /\ GraphOK(graph) /\ kernel \in [Conflicts -> Statuses \cup {None}]
      /\ FeedOK(feed) /\ ItemsOK(graph, items) /\ InStep(feed, items, kernel) /\ PageOK(page, items)
  BY DEF ReviewInv
<1>2. /\ Sound(graph, graph') /\ kernel' \in [Conflicts -> Statuses \cup {None}]
      /\ FeedOK(feed') /\ InStep(feed', items, kernel')
  BY <1>1, DecidedKeeps
<1>3. ItemsOK(graph', items) BY <1>1, <1>2, ItemsKept
<1> QED BY <1>1, <1>2, <1>3, SceneStays DEF Sound

(* The page's user decides: by an item, with drafts that are typed. *)
LEMMA DecideFacts ==
  ASSUME ReviewInv, Decide
  PROVE  \E i \in DOMAIN items : \E d : DecisionOK(items, items[i], d) /\ Decided(d)
<1>1. /\ scene \in Scenes /\ GraphOK(graph) /\ ItemsOK(graph, items) /\ page.pane \in PaneSet
  BY DEF ReviewInv, PageOK, PageTyped
<1>2. page.pane.kind # None /\ DecisionOn(items, Selected(page, items)[1], {page.pane.draft}, {page.pane.order})
  BY DEF Decide
<1>3. PICK i \in DOMAIN items : Selected(page, items)[1] = items[i] /\ items[i] \in ItemSet BY <1>2, ShownItem
<1>4. {page.pane.draft} \in SUBSET Timings /\ {page.pane.order} \in SUBSET TrackSeqs BY <1>1 DEF PaneSet
<1>5. DecisionOn(items, items[i], {page.pane.draft}, {page.pane.order}) BY <1>2, <1>3
<1>6. \E d : DecisionOK(items, items[i], d) /\ Decided(d) BY <1>1, <1>3, <1>4, <1>5, Decisions
<1> QED BY <1>6

(* The step in which the page's user decides *)
LEMMA DecideKeeps ==
  ASSUME ReviewInv, Decide
  PROVE  ReviewInv'
<1>1. PICK i \in DOMAIN items : \E d : DecisionOK(items, items[i], d) /\ Decided(d) BY DecideFacts
<1>2. PICK d : DecisionOK(items, items[i], d) /\ Decided(d) BY <1>1
<1>3. UNCHANGED <<scene, items, sessions, page>> BY DEF Decide
<1> QED BY <1>2, <1>3, DecidedStep

(* A remote decision is by a preview of its own, and parks nothing. *)
LEMMA RemoteDecideFacts ==
  ASSUME ReviewInv, NEW c \in Known, RemoteDecide(c)
  PROVE  \E it, d : it.conflict = c /\ it.kind = Kind(c) /\ DecisionOK(<<>>, it, d) /\ Decided(d)
<1>1. scene \in Scenes /\ GraphOK(graph) BY DEF ReviewInv
<1> DEFINE project == ProjectHint(graph, {c})
           it == Item(graph, c, kernel[c], project)
<1>2. kernel[c] \in {"open", "acknowledged"} /\ DecisionOn(<<>>, it, {}, {}) BY DEF RemoteDecide
<1>3. project \in Projects BY <1>1, ProjectHintFacts
<1>4. kernel[c] \in Statuses BY <1>2 DEF Statuses
<1> HIDE DEF project
<1>5. it \in ItemSet /\ it.conflict = c /\ it.kind = Kind(c) BY <1>1, <1>3, <1>4, ItemFacts
<1> HIDE DEF it
<1>6. ItemsOK(graph, <<>>) BY DEF ItemsOK
<1>7. \E d : DecisionOK(<<>>, it, d) /\ Decided(d)
  <2>1. {} \in SUBSET Timings /\ {} \in SUBSET TrackSeqs OBVIOUS
  <2> QED BY <1>1, <1>2, <1>5, <1>6, <2>1, Decisions
<1> QED BY <1>5, <1>7

(* The step in which another peer decides *)
LEMMA RemoteDecideKeeps ==
  ASSUME ReviewInv, NEW c \in Known, RemoteDecide(c)
  PROVE  ReviewInv'
<1>1. PICK it, d : DecisionOK(<<>>, it, d) /\ Decided(d) BY RemoteDecideFacts
<1>2. UNCHANGED <<scene, items, sessions, page>> BY DEF RemoteDecide
<1> QED BY <1>1, <1>2, DecidedStep

(* A sequence as long as one without repetition, of the same elements, has none. *)
LEMMA SameElements ==
  ASSUME NEW S, NEW s \in Seq(S), NEW t \in Seq(S), IsInjective(s), Range(t) = Range(s), Len(t) = Len(s)
  PROVE  IsInjective(t)
<1> DEFINE n == Len(s)
           R == Range(s)
           D == 1..n
<1>1. n \in Nat /\ DOMAIN s = D /\ DOMAIN t = D OBVIOUS
<1>2. IsFiniteSet(D) /\ Cardinality(D) = n
  <2> HIDE DEF n
  <2>1. IsFiniteSet(D) /\ Cardinality(D) = IF 1 > n THEN 0 ELSE n - 1 + 1 BY <1>1, FS_Interval
  <2> QED BY <1>1, <2>1
<1>3. s \in [D -> R] /\ \A r \in R : \E k \in D : s[k] = r
  <2>1. s = [k \in D |-> s[k]] /\ \A k \in D : s[k] \in R BY <1>1 DEF Range
  <2>2. \A r \in R : \E k \in D : s[k] = r BY <1>1 DEF Range
  <2> HIDE DEF D, R
  <2> QED BY <2>1, <2>2
<1>4. t \in [D -> R] /\ \A r \in R : \E k \in D : t[k] = r
  <2>1. t = [k \in DOMAIN t |-> t[k]] /\ R = {t[k] : k \in DOMAIN t}
    <3>1. t = [k \in DOMAIN t |-> t[k]] OBVIOUS
    <3>2. R = {t[k] : k \in DOMAIN t} BY DEF Range
    <3> QED BY <3>1, <3>2
  <2>2. DOMAIN t = D BY <1>1
  <2> HIDE DEF D, R
  <2> QED BY <2>1, <2>2
<1> HIDE DEF n, R, D
<1>5. s \in Surjection(D, R) /\ s \in Injection(D, R) BY <1>3 DEF Surjection, Injection
<1>6. IsFiniteSet(R) /\ Cardinality(R) = Cardinality(D) BY <1>2, <1>5, FS_Surjection
<1>7. t \in Surjection(D, R) BY <1>4 DEF Surjection
<1>8. t \in Injection(D, R) BY <1>2, <1>6, <1>7, FS_Surjection
<1> QED BY <1>8 DEF Injection

(* The order that an item keeps has the tracks of its current one. *)
LEMMA SuggestOrderKeeps ==
  ASSUME ReviewInv, SuggestOrder
  PROVE  ReviewInv' /\ graph'.made = graph.made
<1>1. /\ scene \in Scenes /\ GraphOK(graph) /\ kernel \in [Conflicts -> Statuses \cup {None}]
      /\ FeedOK(feed) /\ ItemsOK(graph, items) /\ InStep(feed, items, kernel) /\ PageOK(page, items)
  BY DEF ReviewInv
<1> DEFINE it == Selected(page, items)[1]
           o == page.pane.order
           c == it.conflict
           jt == [it EXCEPT !.preview.manualOrder = o]
           its == [i \in DOMAIN items |-> IF items[i].conflict = c THEN jt ELSE items[i]]
<1>2. /\ page.pane.kind = "track_order"
      /\ Range(o) = Range(it.preview.currentOrder) /\ Len(o) = Len(it.preview.currentOrder)
      /\ items' = its /\ page' = Rendered(page, its, sessions, Seen(page, items, sessions))
      /\ scene' = scene /\ graph' = graph /\ kernel' = kernel /\ feed' = feed
  BY DEF SuggestOrder
<1>3. PICK j \in DOMAIN items : it = items[j] /\ items[j] \in ItemSet
  <2>1. page.pane.kind # None BY <1>2 DEF None
  <2> QED BY <2>1, ShownItem
<1>4. o \in TrackSeqs BY <1>1 DEF PageOK, PageTyped, PaneSet
<1>5. it \in ItemSet /\ it.kind = Kind(c) /\ Offers(graph, it) BY <1>1, <1>3 DEF ItemsOK
<1> HIDE DEF it, o
<1>6. it.preview \in PreviewSet /\ it.preview.currentOrder \in TrackSeqs BY <1>5 DEF ItemSet, PreviewSet
<1>7. /\ jt \in ItemSet /\ jt.conflict = c /\ jt.project = it.project /\ jt.kind = it.kind /\ jt.status = it.status
      /\ Offered(jt) = {it.preview.currentOrder, it.preview.incomingOrder, o}
  <2> DEFINE pre == [it.preview EXCEPT !.manualOrder = o]
  <2>1. jt = [it EXCEPT !.preview = pre] BY <1>5 DEF ItemSet
  <2>2. pre \in PreviewSet /\ pre.currentOrder = it.preview.currentOrder
        /\ pre.incomingOrder = it.preview.incomingOrder /\ pre.manualOrder = o
    BY <1>4, <1>6 DEF PreviewSet
  <2> HIDE DEF pre, jt
  <2>3. jt \in ItemSet /\ jt.preview = pre /\ jt.conflict = c /\ jt.project = it.project /\ jt.kind = it.kind
        /\ jt.status = it.status
    BY <1>5, <2>1, <2>2 DEF ItemSet
  <2> QED BY <2>2, <2>3 DEF Offered
<1> HIDE DEF jt
<1>8. Offers(graph, jt)
  <2>1. SUFFICES ASSUME it.kind = "track_order", NEW q \in Offered(jt), q # <<>>
                 PROVE  CanOrder(graph, it.project, q)
    BY <1>7 DEF Offers
  <2>2. \A r \in Offered(it) : r # <<>> => CanOrder(graph, it.project, r) BY <1>5, <2>1 DEF Offers
  <2>3. CASE q \in Offered(it) BY <2>1, <2>2, <2>3
  <2>4. CASE q = o
    <3> DEFINE s == it.preview.currentOrder
    <3>1. s \in Seq(1..MaxTracks) /\ o \in Seq(1..MaxTracks) BY <1>4, <1>6 DEF TrackSeqs
    <3>2. Range(o) = Range(s) /\ Len(o) = Len(s) /\ s \in Offered(it) BY <1>2 DEF Offered
    <3> HIDE DEF s
    <3>3. s # <<>> BY <2>1, <2>4, <3>1, <3>2
    <3>4. CanOrder(graph, it.project, s) BY <2>2, <3>2, <3>3
    <3>5. IsInjective(s) /\ Range(s) \subseteq Range(graph.tracks[it.project]) BY <3>4 DEF CanOrder
    <3>6. IsInjective(o) BY <3>1, <3>2, <3>5, SameElements
    <3> QED BY <2>1, <2>4, <3>2, <3>5, <3>6 DEF CanOrder
  <2> QED BY <1>7, <2>3, <2>4 DEF Offered
<1>9. /\ DOMAIN its = DOMAIN items
      /\ \A i \in DOMAIN items : its[i] = items[i] \/ (its[i] = jt /\ i = j)
  <2>1. ASSUME NEW i \in DOMAIN items, items[i].conflict = c PROVE i = j BY <1>1, <1>3, <2>1 DEF ItemsOK
  <2> QED BY <2>1
<1>10. \A i \in DOMAIN items : its[i].conflict = items[i].conflict /\ its[i].status = items[i].status
  <2>1. jt.conflict = items[j].conflict /\ jt.status = items[j].status BY <1>3, <1>7
  <2> HIDE DEF its
  <2> QED BY <1>9, <2>1
<1>11. its \in Seq(ItemSet)
  <2>1. items \in Seq(ItemSet) /\ DOMAIN items = 1..Len(items) /\ Len(items) \in Nat BY <1>1 DEF ItemsOK
  <2>2. \A i \in DOMAIN items : its[i] \in ItemSet
    <3>1. \A i \in DOMAIN items : items[i] \in ItemSet BY <2>1
    <3> HIDE DEF its
    <3> QED BY <1>7, <1>9, <3>1
  <2>3. its \in [1..Len(items) -> ItemSet] BY <2>1, <2>2
  <2> HIDE DEF its
  <2> QED BY <2>1, <2>3
<1> HIDE DEF its
<1>12. ItemsOK(graph, its)
  <2>1. \A i, k \in DOMAIN its : its[i].conflict = its[k].conflict => i = k BY <1>1, <1>9, <1>10 DEF ItemsOK
  <2>2. \A i \in DOMAIN its : its[i].kind = Kind(its[i].conflict) /\ Offers(graph, its[i])
    <3>1. jt.kind = Kind(jt.conflict) BY <1>5, <1>7
    <3> QED BY <1>1, <1>8, <1>9, <3>1 DEF ItemsOK
  <2> QED BY <1>11, <2>1, <2>2 DEF ItemsOK
<1>13. InStep(feed, its, kernel) BY <1>1, <1>9, <1>10 DEF InStep, Has
<1>14. PageOK(page', its)
  <2>1. PageTyped(page) BY <1>1 DEF PageOK
  <2> QED BY <1>2, <1>11, <2>1, RenderedKeeps
<1> QED BY <1>1, <1>2, <1>12, <1>13, <1>14, SceneStays

(* Two elements of a sequence change places. *)
LEMMA Swapped ==
  ASSUME NEW S, NEW s \in Seq(S), NEW i \in DOMAIN s, NEW j \in DOMAIN s
  PROVE  [s EXCEPT ![i] = s[j], ![j] = s[i]] \in Seq(S)
<1> DEFINE t == [s EXCEPT ![i] = s[j], ![j] = s[i]]
           n == Len(s)
<1>1. n \in Nat /\ DOMAIN s = 1..n /\ \A k \in DOMAIN s : s[k] \in S OBVIOUS
<1>2. DOMAIN t = DOMAIN s /\ \A k \in DOMAIN s : t[k] = IF k = j THEN s[i] ELSE IF k = i THEN s[j] ELSE s[k] OBVIOUS
<1>3. t = [k \in DOMAIN t |-> t[k]] OBVIOUS
<1> HIDE DEF t, n
<1>4. \A k \in DOMAIN s : t[k] \in S BY <1>1, <1>2
<1>5. t \in [1..n -> S] BY <1>1, <1>2, <1>3, <1>4
<1> QED BY <1>1, <1>5 DEF t

(* A draft is edited: its times are numbers, its order the same tracks. *)
LEMMA EditDraftKeeps ==
  ASSUME ReviewInv, EditDraft
  PROVE  ReviewInv'
<1>1. PageOK(page, items) /\ PageTyped(page) /\ page.pane \in PaneSet BY DEF ReviewInv, PageOK, PageTyped
<1>2. UNCHANGED <<scene, graph, kernel, feed, items>> BY DEF EditDraft
<1>3. \E pane \in PaneSet : page' = [page EXCEPT !.pane = pane] /\ pane.kind = page.pane.kind
  <2>1. CASE \E field \in Fields, v \in 0..MaxTime : page' = [page EXCEPT !.pane.draft[field] = v]
    <3>1. PICK field \in Fields, v \in 0..MaxTime : page' = [page EXCEPT !.pane.draft[field] = v] BY <2>1
    <3> DEFINE draft == [page.pane.draft EXCEPT ![field] = v]
               pane == [page.pane EXCEPT !.draft = draft]
    <3>2. page' = [page EXCEPT !.pane = pane] BY <1>1, <3>1 DEF PageTyped, PaneSet
    <3>3. draft \in Timings
      <4>1. page.pane.draft \in Timings BY <1>1 DEF PaneSet
      <4>2. v \in Int BY ReviewAssumption
      <4>3. field = "start" \/ field = "duration" BY DEF Fields
      <4> QED BY <4>1, <4>2, <4>3 DEF Timings
    <3> HIDE DEF draft
    <3>4. pane \in PaneSet /\ pane.kind = page.pane.kind BY <1>1, <3>3 DEF PaneSet
    <3> QED BY <3>2, <3>4
  <2>2. CASE \E i \in 1..(Len(page.pane.order) - 1) :
               page' = [page EXCEPT !.pane.order[i] = page.pane.order[i + 1], !.pane.order[i + 1] = page.pane.order[i]]
    <3> DEFINE s == page.pane.order
    <3>1. PICK i \in 1..(Len(s) - 1) :
            page' = [page EXCEPT !.pane.order[i] = s[i + 1], !.pane.order[i + 1] = s[i]] BY <2>2
    <3> DEFINE t == [s EXCEPT ![i] = s[i + 1], ![i + 1] = s[i]]
               pane == [page.pane EXCEPT !.order = t]
    <3>2. page' = [page EXCEPT !.pane = pane] BY <1>1, <3>1 DEF PageTyped, PaneSet
    <3>3. s \in Seq(1..MaxTracks) BY <1>1 DEF PaneSet, TrackSeqs
    <3> HIDE DEF s
    <3>4. t \in TrackSeqs
      <4>1. Len(s) \in Nat /\ DOMAIN s = 1..Len(s) /\ i \in DOMAIN s /\ i + 1 \in DOMAIN s BY <3>3
      <4> DEFINE S == 1..MaxTracks
                 j == i + 1
      <4>2. s \in Seq(S) /\ i \in DOMAIN s /\ j \in DOMAIN s BY <3>3, <4>1
      <4>3. t = [s EXCEPT ![i] = s[j], ![j] = s[i]] OBVIOUS
      <4> HIDE DEF t, S, j
      <4>4. t \in Seq(S) BY <4>2, <4>3, Swapped
      <4> QED BY <4>4 DEF TrackSeqs, S
    <3> HIDE DEF t
    <3>5. pane \in PaneSet /\ pane.kind = page.pane.kind BY <1>1, <3>4 DEF PaneSet
    <3> QED BY <3>2, <3>5
  <2> QED BY <2>1, <2>2 DEF EditDraft
<1>4. PageOK(page', items)
  <2>1. PICK pane \in PaneSet : page' = [page EXCEPT !.pane = pane] /\ pane.kind = page.pane.kind BY <1>3
  <2>2. DOMAIN page' = DOMAIN page /\ page'.pane = pane /\ page'.project = page.project BY <1>1, <2>1 DEF PageTyped
  <2> QED BY <1>1, <2>1, <2>2 DEF PageOK, PageTyped
<1> QED BY <1>2, <1>4, PageOnly

(* Another selection, a drawer that opens or closes, and another project *)
LEMMA SelectKeeps ==
  ASSUME ReviewInv, NEW c, Select(c)
  PROVE  ReviewInv'
<1> DEFINE p == [page EXCEPT !.selected = c]
<1>1. page' = Mounted(p, items) /\ UNCHANGED <<scene, graph, kernel, feed, items>> BY DEF Select
<1>2. items \in Seq(ItemSet) /\ PageTyped(p) BY DEF ReviewInv, ItemsOK, PageOK, PageTyped
<1> HIDE DEF p
<1>3. PageOK(page', items) BY <1>1, <1>2, MountedKeeps
<1> QED BY <1>1, <1>3, PageOnly

(* The drawer opens or closes. *)
LEMMA ToggleKeeps ==
  ASSUME ReviewInv, Toggle
  PROVE  ReviewInv'
<1> DEFINE shut == ~page.open
           p == [page EXCEPT !.open = shut]
<1>1. page' = Mounted(p, items) /\ UNCHANGED <<scene, graph, kernel, feed, items>>
  <2>1. page' = Mounted([page EXCEPT !.open = ~@], items) BY DEF Toggle
  <2>2. [page EXCEPT !.open = ~@] = p BY Zenon
  <2> HIDE DEF p
  <2> QED BY <2>1, <2>2 DEF Toggle
<1> HIDE DEF shut
<1>2. items \in Seq(ItemSet) /\ PageTyped(p) BY DEF ReviewInv, ItemsOK, PageOK, PageTyped
<1> HIDE DEF p
<1>3. PageOK(page', items) BY <1>1, <1>2, MountedKeeps
<1> QED BY <1>1, <1>3, PageOnly

(* Another project is shown. *)
LEMMA SwitchProjectKeeps ==
  ASSUME ReviewInv, NEW q, SwitchProject(q)
  PROVE  ReviewInv'
<1> DEFINE p == [page EXCEPT !.project = q]
<1>1. page' = Rendered(p, items, sessions, Seen(page, items, sessions)) /\ UNCHANGED <<scene, graph, kernel, feed, items>>
  BY DEF SwitchProject
<1>2. items \in Seq(ItemSet) /\ PageTyped(p) BY DEF ReviewInv, ItemsOK, PageOK, PageTyped
<1> HIDE DEF p
<1>3. PageOK(page', items) BY <1>1, <1>2, RenderedKeeps
<1> QED BY <1>1, <1>3, PageOnly

-----------------------------------------------------------------------------
(* The theorems. *)

(* Every step keeps the invariant. *)
LEMMA NextKeeps == ReviewInv /\ [Next]_reviewVars => ReviewInv'
<1> SUFFICES ASSUME ReviewInv, [Next]_reviewVars PROVE ReviewInv' OBVIOUS
<1>1. ASSUME NEW group \in scene.groups, Open(group) PROVE ReviewInv' BY <1>1, OpenKeeps
<1>2. ASSUME NEW c \in Known, Repeat(c) PROVE ReviewInv' BY <1>2, RepeatKeeps
<1>3. ASSUME NEW c \in Known, RemoteDecide(c) PROVE ReviewInv' BY <1>3, RemoteDecideKeeps
<1>4. ASSUME NEW c \in Known, Select(c) PROVE ReviewInv' BY <1>4, SelectKeeps
<1>5. CASE Handle BY <1>5, HandleKeeps
<1>6. CASE Sync BY <1>6, SyncKeeps
<1>7. CASE Edit BY <1>7, EditKeeps
<1>8. CASE Decide BY <1>8, DecideKeeps
<1>9. CASE Acknowledge BY <1>9, AcknowledgeKeeps
<1>10. CASE SuggestOrder BY <1>10, SuggestOrderKeeps
<1>11. CASE EditDraft BY <1>11, EditDraftKeeps
<1>12. CASE Toggle BY <1>12, ToggleKeeps
<1>13. ASSUME NEW p \in Range(scene.projects), SwitchProject(p) PROVE ReviewInv' BY <1>13, SwitchProjectKeeps
<1>14. CASE UNCHANGED reviewVars
  <2>1. UNCHANGED <<scene, graph, kernel, feed, items>> /\ page' = page BY <1>14 DEF reviewVars
  <2>2. PageOK(page', items) BY <2>1 DEF ReviewInv
  <2> QED BY <2>1, <2>2, PageOnly
<1> QED
  BY <1>1, <1>2, <1>3, <1>4, <1>5, <1>6, <1>7, <1>8, <1>9, <1>10, <1>11, <1>12, <1>13, <1>14 DEF Next

(* The invariant holds of every behaviour of the review. *)
THEOREM ReviewInvariant == Spec => []ReviewInv
<1>1. Init => ReviewInv BY InitKeeps
<1>2. ReviewInv /\ [Next]_reviewVars => ReviewInv' BY NextKeeps
<1> QED BY <1>1, <1>2, PTL DEF Spec

(* When every report has been handled there is one item for each conflict the layer knows of, *)
(* with the layer's status.                                                                   *)
LEMMA InvImpliesInStep == ReviewInv => ItemsInStep
<1> SUFFICES ASSUME ReviewInv, feed = <<>>, NEW c \in Known
             PROVE  LET of == {i \in DOMAIN items : items[i].conflict = c}
                    IN /\ Cardinality(of) = (IF kernel[c] = None THEN 0 ELSE 1)
                       /\ \A i \in of : items[i].status = kernel[c]
  BY DEF ItemsInStep
<1> DEFINE of == {i \in DOMAIN items : items[i].conflict = c}
<1>1. \A i, j \in DOMAIN items : items[i].conflict = items[j].conflict => i = j BY DEF ReviewInv, ItemsOK
<1>2. /\ kernel[c] = None => ~Has(items, c)
      /\ kernel[c] # None => \E i \in DOMAIN items : items[i].conflict = c /\ items[i].status = kernel[c]
  <2>1. \A n \in DOMAIN feed : ~Mentioned(c, feed[n]) OBVIOUS
  <2> QED BY <2>1 DEF ReviewInv, InStep
<1>3. CASE kernel[c] = None
  <2>1. of = {} BY <1>2, <1>3 DEF Has
  <2> HIDE DEF of
  <2> QED BY <1>3, <2>1, FS_EmptySet DEF of
<1>4. CASE kernel[c] # None
  <2>1. PICK i \in DOMAIN items : items[i].conflict = c /\ items[i].status = kernel[c] BY <1>2, <1>4
  <2>2. of = {i} BY <1>1, <2>1
  <2>3. Cardinality({i}) = 1 BY FS_Singleton
  <2> HIDE DEF of
  <2> QED BY <1>4, <2>1, <2>2, <2>3 DEF of
<1> QED BY <1>3, <1>4

(* Review items follow the replication layer, whoever decides and however often a conflict is *)
(* reported.                                                                                  *)
THEOREM ItemsAreInStep == Spec => []ItemsInStep
<1>1. ReviewInv => ItemsInStep BY InvImpliesInStep
<1> QED BY <1>1, ReviewInvariant, PTL

(* An order of tracks that an item offers can be applied, however old the offer. *)
THEOREM OrdersApply == Spec => []OrderOffersApply
<1>1. ReviewInv => OrderOffersApply
  <2> SUFFICES ASSUME ReviewInv, NEW i \in DOMAIN items, items[i].kind = "track_order", NEW o \in Offered(items[i]), o # <<>>
               PROVE  CanOrder(graph, items[i].project, o)
    BY DEF OrderOffersApply, Offered
  <2>1. Offers(graph, items[i]) BY DEF ReviewInv, ItemsOK
  <2> QED BY <2>1 DEF Offers
<1> QED BY <1>1, ReviewInvariant, PTL

(* Only a decision makes anything: the steps that leave the counts alone *)
LEMMA OthersMakeNothing ==
  ASSUME ReviewInv, [Next]_reviewVars
  PROVE  graph'.made = graph.made \/ Decide \/ \E c \in Known : RemoteDecide(c)
<1>1. ASSUME NEW group \in scene.groups, Open(group) PROVE graph'.made = graph.made BY <1>1, OpenKeeps
<1>2. ASSUME NEW c \in Known, Repeat(c) PROVE graph'.made = graph.made BY <1>2, RepeatKeeps
<1>3. ASSUME NEW c \in Known, Select(c) PROVE graph'.made = graph.made BY <1>3 DEF Select
<1>4. CASE Handle BY <1>4, HandleKeeps
<1>5. CASE Sync BY <1>5, SyncKeeps
<1>6. CASE Edit BY <1>6, EditKeeps
<1>7. CASE Acknowledge BY <1>7, AcknowledgeKeeps
<1>8. CASE SuggestOrder BY <1>8, SuggestOrderKeeps
<1>9. CASE EditDraft BY <1>9 DEF EditDraft
<1>10. CASE Toggle BY <1>10 DEF Toggle
<1>11. ASSUME NEW p, SwitchProject(p) PROVE graph'.made = graph.made BY <1>11 DEF SwitchProject
<1>12. CASE UNCHANGED reviewVars BY <1>12 DEF reviewVars
<1> QED
  BY <1>1, <1>2, <1>3, <1>4, <1>5, <1>6, <1>7, <1>8, <1>9, <1>10, <1>11, <1>12 DEF Next

(* What a step must do that parks the incoming variant *)
ClosesGroup ==
  \A c \in Known : About(c).kind = "clip_timing" /\ graph'.made[c] > graph.made[c]
    => \A d \in OpenItems(items) :
         /\ About(d).kind = "clip_timing" /\ About(d).clip = About(c).clip
         /\ ItemOf(items, d).project = ItemOf(items, c).project
         => kernel'[d] = "resolved"

(* One item per conflict: what is found for the conflict of an item is the item. *)
LEMMA ItemOfItem ==
  ASSUME NEW g, NEW its, ItemsOK(g, its), NEW i \in DOMAIN its
  PROVE  ItemOf(its, its[i].conflict) = its[i]
BY DEF ItemsOK, ItemOf

(* A step that makes something for a timing conflict is the decision to park it. *)
LEMMA StepClosesGroup ==
  ASSUME ReviewInv, [Next]_reviewVars
  PROVE  ClosesGroup
<1>1. /\ scene \in Scenes /\ GraphOK(graph) /\ kernel \in [Conflicts -> Statuses \cup {None}]
      /\ FeedOK(feed) /\ ItemsOK(graph, items) /\ InStep(feed, items, kernel)
  BY DEF ReviewInv
<1> SUFFICES ASSUME NEW c \in Known, About(c).kind = "clip_timing", graph'.made[c] > graph.made[c],
                    NEW d \in OpenItems(items), About(d).kind = "clip_timing", About(d).clip = About(c).clip,
                    ItemOf(items, d).project = ItemOf(items, c).project
             PROVE  kernel'[d] = "resolved"
  BY DEF ClosesGroup
<1>2. c \in Conflicts /\ graph'.made # graph.made
  <2>1. graph.made[c] \in Nat BY <1>1, SceneFacts DEF GraphOK
  <2> QED BY <1>1, <2>1, SceneFacts
<1>3. Kind(c) = "clip_timing" /\ Kind(d) = "clip_timing" BY DEF Kind
<1>4. CASE Decide
  <2>1. PICK i \in DOMAIN items : \E e : DecisionOK(items, items[i], e) /\ Decided(e) BY <1>4, DecideFacts
  <2>2. PICK e : DecisionOK(items, items[i], e) /\ Decided(e) BY <2>1
  <2> DEFINE it == items[i]
  <2>3. graph' = e.graph BY <2>2 DEF Decided
  <2>4. c = it.conflict /\ (it.kind = "clip_timing" => e.resolves = ParkTargets(items, it))
    BY <1>2, <2>2, <2>3 DEF DecisionOK
  <2>5. it.kind = "clip_timing" /\ ItemOf(items, c) = it
    <3>1. items[i].kind = Kind(items[i].conflict) BY <1>1 DEF ItemsOK
    <3>2. ItemOf(items, items[i].conflict) = items[i] BY <1>1, ItemOfItem
    <3> QED BY <1>3, <2>4, <3>1, <3>2
  <2>6. ItemOf(items, d).kind = "clip_timing"
    <3>1. PICK j \in DOMAIN items : items[j].conflict = d BY DEF OpenItems, Has
    <3>2. ItemOf(items, d) = items[j] BY <1>1, <3>1, ItemOfItem
    <3> QED BY <1>1, <1>3, <3>1, <3>2 DEF ItemsOK
  <2>7. d \in ParkTargets(items, it)
    <3> DEFINE own == {x \in OpenItems(items) : /\ ItemOf(items, x).project = it.project
                                                /\ ItemOf(items, x).kind = "clip_timing"
                                                /\ About(x).clip = About(it.conflict).clip}
    <3>1. d \in own BY <2>4, <2>5, <2>6
    <3>2. ParkTargets(items, it) = IF own = {} THEN {it.conflict} ELSE own BY DEF ParkTargets
    <3> HIDE DEF own
    <3> QED BY <3>1, <3>2
  <2>8. \A x \in e.resolves : kernel'[x] = "resolved" BY <1>1, <2>2, DecidedKeeps
  <2> QED BY <2>4, <2>5, <2>7, <2>8
<1>5. CASE \E x \in Known : RemoteDecide(x)
  <2>1. PICK x \in Known : RemoteDecide(x) BY <1>5
  <2>2. PICK it, e : it.conflict = x /\ it.kind = Kind(x) /\ DecisionOK(<<>>, it, e) /\ Decided(e)
    BY <2>1, RemoteDecideFacts
  <2>3. graph' = e.graph BY <2>2 DEF Decided
  <2>4. c = it.conflict /\ it.kind # "clip_timing" BY <1>2, <2>2, <2>3 DEF DecisionOK
  <2> QED BY <1>3, <2>2, <2>4
<1> QED BY <1>2, <1>4, <1>5, OthersMakeNothing

(* Parking the incoming variant of one of a clip's conflicts resolves the others that the *)
(* same project still shows as open.                                                      *)
THEOREM ParkingCloses == Spec => ParkClosesGroup
<1>1. ReviewInv /\ [Next]_reviewVars => ClosesGroup BY StepClosesGroup
<1> QED BY <1>1, ReviewInvariant, PTL DEF Spec, ParkClosesGroup, ClosesGroup

=============================================================================
