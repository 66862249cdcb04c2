--------------------------- MODULE Timeline_proofs ---------------------------
(***************************************************************************)
(* What is proved of the project graph: whatever commands the tabs send, in *)
(* any order and addressed to nodes that others have changed meanwhile, the *)
(* two ends of every relation agree.  First the facts about sequences, then *)
(* a lemma for each operator on graphs, relation by relation, then the      *)
(* commands.                                                               *)
(***************************************************************************)
EXTENDS Timeline, FiniteSetTheorems, WellFoundedInduction, SequenceTheorems, TLAPS

-----------------------------------------------------------------------------
(* Sequences without repetition: filtered, extended, with an element moved. *)

(* The elements of a sequence *)
LEMMA ElementsIn ==
  ASSUME NEW S, NEW s \in Seq(S)
  PROVE  ToSet(s) \subseteq S /\ DOMAIN s = 1..Len(s) /\ Len(s) \in Nat
<1>1. DOMAIN s = 1..Len(s) /\ Len(s) \in Nat /\ \A i \in DOMAIN s : s[i] \in S OBVIOUS
<1> QED BY <1>1 DEF ToSet

(* Numbers given to the elements of a finite set, no two the same and none above their count, *)
(* are all given.                                                                             *)
LEMMA AllGiven ==
  ASSUME NEW D, IsFiniteSet(D), NEW r \in [D -> 1..Cardinality(D)],
         \A a, b \in D : r[a] = r[b] => a = b
  PROVE  \A k \in 1..Cardinality(D) : \E d \in D : r[d] = k
<1>1. Cardinality(D) \in Nat BY FS_CardinalityType
<1>2. IsFiniteSet(1..Cardinality(D)) /\ Cardinality(1..Cardinality(D)) = Cardinality(D)
  BY <1>1, FS_Interval
<1>3. r \in Injection(D, 1..Cardinality(D)) BY DEF Injection, IsInjective
<1>4. r \in Surjection(D, 1..Cardinality(D)) BY <1>2, <1>3, FS_Injection
<1> QED BY <1>4 DEF Surjection

(* As Only counts them, a set of indices has one index in every place. *)
Up(I, i) == {j \in I : j <= i}

(* The places that Only counts for the members of I are 1 to their number, each taken once. *)
LEMMA PlacesAreTaken ==
  ASSUME NEW I \in SUBSET Nat, IsFiniteSet(I)
  PROVE  /\ Cardinality(I) \in Nat
         /\ \A i \in I : Cardinality(Up(I, i)) \in 1..Cardinality(I)
         /\ \A i, j \in I : Cardinality(Up(I, i)) = Cardinality(Up(I, j)) => i = j
         /\ \A k \in 1..Cardinality(I) : \E i \in I : Cardinality(Up(I, i)) = k
<1> DEFINE r == [i \in I |-> Cardinality(Up(I, i))]
<1>0. \A i \in I : i \in Nat OBVIOUS
<1>1. Cardinality(I) \in Nat BY FS_CardinalityType
<1>2. ASSUME NEW i \in I PROVE IsFiniteSet(Up(I, i)) /\ Cardinality(Up(I, i)) \in 1..Cardinality(I)
  <2>1. Up(I, i) \in SUBSET I /\ i \in Up(I, i) BY <1>0 DEF Up
  <2>2. IsFiniteSet(Up(I, i)) /\ Cardinality(Up(I, i)) <= Cardinality(I) BY <2>1, FS_Subset
  <2>3. Cardinality(Up(I, i)) # 0 BY <2>1, <2>2, FS_EmptySet
  <2> QED BY <1>1, <2>2, <2>3, FS_CardinalityType
<1>3. r \in [I -> 1..Cardinality(I)] BY <1>2
<1>4. ASSUME NEW a \in I, NEW b \in I, a < b PROVE r[a] < r[b]
  <2>0. a \in Nat /\ b \in Nat BY <1>0
  <2>1. b \in Up(I, b) /\ b \notin Up(I, a) BY <1>4, <2>0 DEF Up
  <2>2. \A j \in I : j <= a => j <= b BY <1>0, <1>4, <2>0
  <2>3. Up(I, a) \in SUBSET Up(I, b) BY <2>2 DEF Up
  <2>4. Cardinality(Up(I, a)) <= Cardinality(Up(I, b)) /\ Cardinality(Up(I, a)) # Cardinality(Up(I, b))
    BY <1>2, <2>1, <2>3, FS_Subset
  <2> QED BY <1>1, <1>2, <2>4
<1>5. \A i \in I : r[i] = Cardinality(Up(I, i)) OBVIOUS
<1> HIDE DEF r
<1>6. ASSUME NEW a \in I, NEW b \in I, r[a] = r[b] PROVE a = b
  <2>1. a \in Nat /\ b \in Nat /\ r[a] \in 1..Cardinality(I) /\ r[b] \in 1..Cardinality(I) BY <1>0, <1>3
  <2>2. ~(a < b) /\ ~(b < a) BY <1>1, <1>4, <1>6, <2>1
  <2> QED BY <2>1, <2>2
<1>7. \A k \in 1..Cardinality(I) : \E i \in I : r[i] = k BY <1>3, <1>6, AllGiven
<1> QED BY <1>1, <1>2, <1>5, <1>6, <1>7

(* What filter returns: elements of the sequence, all those chosen and no others. *)
LEMMA Filtered ==
  ASSUME NEW S, NEW s \in Seq(S), NEW I \in SUBSET DOMAIN s
  PROVE  /\ Only(s, I) \in Seq(S) /\ Len(Only(s, I)) = Cardinality(I)
         /\ ToSet(Only(s, I)) = {s[i] : i \in I}
         /\ Only(s, I) = <<>> <=> I = {}
         /\ (\A i, j \in I : s[i] = s[j] => i = j) => IsInjective(Only(s, I))
<1> DEFINE n == Cardinality(I)
           at == [k \in 1..n |-> CHOOSE i \in I : Cardinality(Up(I, i)) = k]
           o == Only(s, I)
<1>1. IsFiniteSet(I) /\ I \in SUBSET Nat
  <2>1. DOMAIN s = 1..Len(s) /\ Len(s) \in Nat OBVIOUS
  <2>2. IsFiniteSet(1..Len(s)) BY <2>1, FS_Interval
  <2> QED BY <2>1, <2>2, FS_Subset
<1>2. /\ n \in Nat
      /\ \A i \in I : Cardinality(Up(I, i)) \in 1..n
      /\ \A i, j \in I : Cardinality(Up(I, i)) = Cardinality(Up(I, j)) => i = j
      /\ \A k \in 1..n : \E i \in I : Cardinality(Up(I, i)) = k
  <2> HIDE DEF n
  <2> QED BY <1>1, PlacesAreTaken DEF n
<1>3. \A k \in 1..n : at[k] \in I /\ Cardinality(Up(I, at[k])) = k BY <1>2
<1>4. o = [k \in 1..n |-> s[at[k]]] BY DEF Only, Up
<1> HIDE DEF at, o, n
<1>5. \A k \in 1..n : at[k] \in DOMAIN s /\ s[at[k]] \in S BY <1>3
<1>6. o \in [1..n -> S] BY <1>4, <1>5
<1>7. o \in Seq(S) /\ Len(o) = n /\ DOMAIN o = 1..n BY <1>2, <1>6
<1>8. \A i \in I : \E k \in 1..n : at[k] = i
  <2>1. SUFFICES ASSUME NEW i \in I PROVE \E k \in 1..n : at[k] = i OBVIOUS
  <2>2. Cardinality(Up(I, i)) \in 1..n BY <1>2
  <2>3. at[Cardinality(Up(I, i))] = i BY <1>2, <1>3, <2>2
  <2> QED BY <2>2, <2>3
<1>9. ToSet(o) = {s[i] : i \in I}
  <2>1. \A k \in 1..n : o[k] = s[at[k]] BY <1>4
  <2>2. ToSet(o) = {o[k] : k \in 1..n} BY <1>7 DEF ToSet
  <2>3. {o[k] : k \in 1..n} = {s[at[k]] : k \in 1..n} BY <2>1
  <2>4. {s[at[k]] : k \in 1..n} = {s[i] : i \in I} BY <1>3, <1>8
  <2> QED BY <2>2, <2>3, <2>4
<1>10. o = <<>> <=> I = {}
  <2>1. n = 0 <=> I = {} BY <1>1, FS_EmptySet DEF n
  <2>2. o = <<>> <=> Len(o) = 0 BY <1>7
  <2> QED BY <1>7, <2>1, <2>2
<1>11. ASSUME \A i, j \in I : s[i] = s[j] => i = j PROVE IsInjective(o)
  <2>1. ASSUME NEW j \in 1..n, NEW k \in 1..n, o[j] = o[k] PROVE j = k
    <3>1. s[at[j]] = s[at[k]] BY <1>4, <2>1
    <3>2. at[j] = at[k] BY <1>3, <1>11, <3>1
    <3> QED BY <1>3, <3>2
  <2> QED BY <1>7, <2>1 DEF IsInjective
<1> QED BY <1>7, <1>9, <1>10, <1>11 DEF o, n

(* Except leaves out one element. *)
LEMMA ExceptKeeps ==
  ASSUME NEW S, NEW s \in Seq(S), NEW x
  PROVE  /\ Except(s, x) \in Seq(S) /\ ToSet(Except(s, x)) = ToSet(s) \ {x}
         /\ IsInjective(s) => IsInjective(Except(s, x))
<1> DEFINE I == {i \in DOMAIN s : s[i] # x}
<1>1. I \in SUBSET DOMAIN s OBVIOUS
<1>2. {s[i] : i \in I} = ToSet(s) \ {x} BY DEF ToSet
<1>3. IsInjective(s) => \A i, j \in I : s[i] = s[j] => i = j BY DEF IsInjective
<1>4. Except(s, x) = Only(s, I) BY DEF Except
<1> HIDE DEF I
<1>5. /\ Only(s, I) \in Seq(S) /\ ToSet(Only(s, I)) = {s[i] : i \in I}
      /\ (\A i, j \in I : s[i] = s[j] => i = j) => IsInjective(Only(s, I))
  BY <1>1, Filtered
<1> QED BY <1>2, <1>3, <1>4, <1>5

(* Append adds one. *)
LEMMA AppendedKeeps ==
  ASSUME NEW S, NEW s \in Seq(S), NEW x \in S
  PROVE  /\ Append(s, x) \in Seq(S) /\ DOMAIN Append(s, x) = 1..(Len(s) + 1) /\ Len(Append(s, x)) = Len(s) + 1
         /\ \A i \in DOMAIN s : Append(s, x)[i] = s[i]
         /\ Append(s, x)[Len(s) + 1] = x /\ ToSet(Append(s, x)) = ToSet(s) \cup {x}
         /\ IsInjective(s) /\ x \notin ToSet(s) => IsInjective(Append(s, x))
<1> DEFINE a == Append(s, x)
<1>3. /\ Len(s) \in Nat /\ DOMAIN s = 1..Len(s) /\ Len(a) = Len(s) + 1
      /\ a \in Seq(S) /\ DOMAIN a = 1..(Len(s) + 1) /\ a[Len(s) + 1] = x /\ \A i \in 1..Len(s) : a[i] = s[i]
  OBVIOUS
<1> HIDE DEF a
<1>4. \A i \in 1..(Len(s) + 1) : i # Len(s) + 1 => i \in 1..Len(s) BY <1>3
<1>5. \A i \in 1..Len(s) : s[i] \in ToSet(s) BY <1>3 DEF ToSet
<1>6. ToSet(a) = ToSet(s) \cup {x}
  <2>1. ASSUME NEW y \in ToSet(a) PROVE y \in ToSet(s) \cup {x}
    <3>1. PICK i \in 1..(Len(s) + 1) : y = a[i] BY <1>3, <2>1 DEF ToSet
    <3> QED BY <1>3, <1>4, <1>5, <3>1
  <2>2. ASSUME NEW i \in 1..Len(s) PROVE s[i] \in ToSet(a)
    <3>1. i \in DOMAIN a /\ a[i] = s[i] BY <1>3
    <3> QED BY <3>1 DEF ToSet
  <2>3. x \in ToSet(a)
    <3>1. Len(s) + 1 \in DOMAIN a BY <1>3
    <3> QED BY <1>3, <3>1 DEF ToSet
  <2>4. \A y \in ToSet(s) : y \in ToSet(a) BY <1>3, <2>2 DEF ToSet
  <2> QED BY <2>1, <2>3, <2>4
<1>7. ASSUME IsInjective(s), x \notin ToSet(s) PROVE IsInjective(a)
  <2>1. ASSUME NEW i \in 1..(Len(s) + 1), NEW j \in 1..(Len(s) + 1), a[i] = a[j] PROVE i = j
    <3>1. CASE i = Len(s) + 1 BY <1>7, <1>3, <1>4, <1>5, <2>1, <3>1
    <3>2. CASE j = Len(s) + 1 BY <1>7, <1>3, <1>4, <1>5, <2>1, <3>2
    <3>3. CASE i # Len(s) + 1 /\ j # Len(s) + 1
      <4>1. i \in 1..Len(s) /\ j \in 1..Len(s) /\ s[i] = s[j] BY <1>3, <1>4, <2>1, <3>3
      <4> QED BY <1>7, <1>3, <4>1 DEF IsInjective
    <3> QED BY <3>1, <3>2, <3>3
  <2> QED BY <1>3, <2>1 DEF IsInjective
<1> QED BY <1>3, <1>6, <1>7 DEF a

(* InsertAt puts a new element between those there are. *)
LEMMA InsertedKeeps ==
  ASSUME NEW S, NEW rest \in Seq(S), NEW x \in S, NEW at \in 0..Len(rest)
  PROVE  LET m == InsertAt(rest, at + 1, x)
         IN /\ m \in Seq(S) /\ ToSet(m) = ToSet(rest) \cup {x}
            /\ IsInjective(rest) /\ x \notin ToSet(rest) => IsInjective(m)
<1> DEFINE n == Len(rest)
           m == InsertAt(rest, at + 1, x)
<1>size. n \in Nat /\ DOMAIN rest = 1..n OBVIOUS
<1>place. at \in 0..n OBVIOUS
<1>members. rest \in Seq(S) /\ x \in S OBVIOUS
<1> DEFINE a == SubSeq(rest, 1, at)
           b == SubSeq(rest, at + 1, n)
<1>2. m = a \o <<x>> \o b
  <2>1. (at + 1) - 1 = at BY <1>size, <1>place
  <2>2. m = SubSeq(rest, 1, (at + 1) - 1) \o <<x>> \o SubSeq(rest, at + 1, Len(rest)) BY DEF InsertAt
  <2> HIDE DEF m
  <2> QED BY <2>1, <2>2
<1>3. /\ a \in Seq(S) /\ Len(a) = at /\ \A k \in 1..at : a[k] = rest[k]
      /\ b \in Seq(S) /\ Len(b) = n - at /\ \A k \in 1..(n - at) : b[k] = rest[at + k]
  <2>1. at \in Nat /\ at <= n BY <1>size, <1>place
  <2>2. \A i \in 1..n : rest[i] \in S BY <1>members, <1>size
  <2>3. /\ a \in Seq(S) /\ Len(a) = (IF 1 <= at THEN at - 1 + 1 ELSE 0)
        /\ \A k \in 1..(at - 1 + 1) : a[k] = rest[1 + k - 1]
    <3>1. at \in Int /\ \A i \in 1..at : rest[i] \in S BY <1>size, <2>1, <2>2
    <3> QED BY <3>1, SubSeqProperties
  <2>4. /\ b \in Seq(S) /\ Len(b) = (IF at + 1 <= n THEN n - (at + 1) + 1 ELSE 0)
        /\ \A k \in 1..(n - (at + 1) + 1) : b[k] = rest[(at + 1) + k - 1]
    <3>1. at + 1 \in Int /\ n \in Int /\ \A i \in (at + 1)..n : rest[i] \in S BY <1>size, <2>1, <2>2
    <3> DEFINE l == at + 1
    <3> HIDE DEF l, n
    <3>2. l \in Int /\ \A i \in l..n : rest[i] \in S BY <3>1 DEF l
    <3>3. /\ SubSeq(rest, l, n) \in Seq(S) /\ Len(SubSeq(rest, l, n)) = (IF l <= n THEN n - l + 1 ELSE 0)
          /\ \A k \in 1..(n - l + 1) : SubSeq(rest, l, n)[k] = rest[l + k - 1]
      BY <3>1, <3>2, SubSeqProperties
    <3> QED BY <3>3 DEF l
  <2> HIDE DEF a, b
  <2>5. Len(a) = at /\ \A k \in 1..at : a[k] = rest[k]
    <3>1. at - 1 + 1 = at /\ \A k \in 1..at : 1 + k - 1 = k BY <2>1
    <3> QED BY <2>1, <2>3, <3>1
  <2>6. Len(b) = n - at /\ \A k \in 1..(n - at) : b[k] = rest[at + k]
    <3>1. n - (at + 1) + 1 = n - at /\ \A k \in 1..(n - at) : (at + 1) + k - 1 = at + k BY <1>size, <2>1
    <3>2. ~(at + 1 <= n) => n - at = 0
      <4>1. at \in Nat /\ n \in Nat /\ at <= n BY <1>size, <2>1
      <4> HIDE DEF n
      <4> QED BY ONLY <4>1
    <3>3. Len(b) = n - at BY ONLY <2>4, <3>1, <3>2
    <3>4. ASSUME NEW k \in 1..(n - at) PROVE b[k] = rest[at + k]
      <4>1. k \in 1..(n - (at + 1) + 1) BY <3>1
      <4>2. b[k] = rest[(at + 1) + k - 1] BY <2>4, <4>1
      <4> QED BY <3>1, <4>2
    <3> QED BY <3>3, <3>4
  <2> QED BY <2>3, <2>4, <2>5, <2>6
<1> HIDE DEF a, b, m
<1>4. /\ m \in Seq(S) /\ Len(m) = n + 1
      /\ \A k \in 1..(n + 1) : m[k] = IF k <= at THEN rest[k] ELSE IF k = at + 1 THEN x ELSE rest[k - 1]
  <2>1. at \in Nat /\ at <= n BY <1>size, <1>place
  <2> DEFINE t == <<x>>
  <2>2. t \in Seq(S) /\ Len(t) = 1 /\ t[1] = x BY <1>members
  <2> HIDE DEF t
  <2>3. a \o t \in Seq(S) /\ Len(a \o t) = at + 1
        /\ \A k \in 1..(at + 1) : (a \o t)[k] = IF k <= at THEN a[k] ELSE t[k - at]
    <3>1. a \in Seq(S) /\ t \in Seq(S) BY <1>3, <2>2
    <3>2. /\ a \o t \in Seq(S) /\ Len(a \o t) = Len(a) + Len(t)
          /\ \A k \in 1..Len(a) + Len(t) : (a \o t)[k] = IF k <= Len(a) THEN a[k] ELSE t[k - Len(a)]
      BY ONLY <3>1, ConcatProperties
    <3>3. Len(a) = at /\ Len(t) = 1 BY <1>3, <2>2
    <3> QED BY ONLY <3>2, <3>3
  <2> DEFINE u == a \o t
  <2>4. m = u \o b BY <1>2 DEF t
  <2>5. u \in Seq(S) /\ Len(u) = at + 1 /\ \A k \in 1..(at + 1) : u[k] = IF k <= at THEN rest[k] ELSE x
    <3>1. \A k \in 1..(at + 1) : k <= at => k \in 1..at BY <2>1
    <3>2. \A k \in 1..(at + 1) : ~(k <= at) => k - at = 1 BY <2>1
    <3> QED BY <1>3, <2>1, <2>2, <2>3, <3>1, <3>2
  <2> HIDE DEF u
  <2>6. m \in Seq(S) /\ Len(m) = (at + 1) + (n - at) /\ \A k \in 1..((at + 1) + (n - at)) :
          m[k] = IF k <= at + 1 THEN u[k] ELSE b[k - (at + 1)]
    <3>1. /\ u \o b \in Seq(S) /\ Len(u \o b) = Len(u) + Len(b)
          /\ \A k \in 1..Len(u) + Len(b) : (u \o b)[k] = IF k <= Len(u) THEN u[k] ELSE b[k - Len(u)]
      BY <1>3, <2>5, ConcatProperties
    <3>2. Len(u) = at + 1 /\ Len(b) = n - at BY <1>3, <2>5
    <3> HIDE DEF n
    <3> QED BY ONLY <2>4, <3>1, <3>2
  <2>7. (at + 1) + (n - at) = n + 1 BY <1>size, <2>1
  <2>8. ASSUME NEW k \in 1..(n + 1), k > at + 1 PROVE b[k - (at + 1)] = rest[k - 1]
    <3>1. k - (at + 1) \in 1..(n - at) /\ at + (k - (at + 1)) = k - 1 BY <1>size, <2>1, <2>8
    <3> QED BY <1>3, <3>1
  <2>9. ASSUME NEW k \in 1..(n + 1)
        PROVE m[k] = IF k <= at THEN rest[k] ELSE IF k = at + 1 THEN x ELSE rest[k - 1]
    <3>1. m[k] = IF k <= at + 1 THEN u[k] ELSE b[k - (at + 1)] BY <2>6, <2>7
    <3>2. CASE k <= at + 1
      <4>1. k \in 1..(at + 1) BY <1>size, <2>1, <3>2
      <4> QED BY <2>1, <2>5, <3>1, <3>2, <4>1
    <3>3. CASE k > at + 1
      <4>1. b[k - (at + 1)] = rest[k - 1] BY <2>8, <3>3
      <4> QED BY <1>size, <2>1, <3>1, <3>3, <4>1
    <3> QED BY <1>size, <2>1, <3>2, <3>3
  <2> QED BY <2>6, <2>7, <2>9
<1>5. DOMAIN m = 1..(n + 1) BY <1>size, <1>4
<1>6. ASSUME NEW k \in 1..(n + 1), k # at + 1 PROVE m[k] \in ToSet(rest)
  <2>1. CASE k <= at
    <3>1. k \in 1..n /\ m[k] = rest[k] BY <1>size, <1>place, <1>4, <2>1
    <3> QED BY <1>members, <1>size, <3>1 DEF ToSet
  <2>2. CASE k > at + 1
    <3>1. k - 1 \in 1..n /\ m[k] = rest[k - 1] BY <1>size, <1>place, <1>4, <2>2
    <3> QED BY <1>members, <1>size, <3>1 DEF ToSet
  <2> QED BY <1>size, <1>place, <1>6, <2>1, <2>2
<1>7. at + 1 \in 1..(n + 1) /\ m[at + 1] = x BY <1>size, <1>place, <1>4
<1>8. ToSet(m) = ToSet(rest) \cup {x}
  <2>1. ASSUME NEW y \in ToSet(m) PROVE y \in ToSet(rest) \cup {x} BY <1>5, <1>6, <1>7, <2>1 DEF ToSet
  <2>2. ASSUME NEW y \in ToSet(rest) PROVE y \in ToSet(m)
    <3>1. PICK j \in 1..n : rest[j] = y BY <1>size DEF ToSet
    <3>2. CASE j <= at
      <4>1. j \in 1..(n + 1) /\ m[j] = y BY <1>size, <1>place, <1>4, <3>1, <3>2
      <4> QED BY <1>5, <4>1 DEF ToSet
    <3>3. CASE j > at
      <4>1. j + 1 \in 1..(n + 1) /\ ~(j + 1 <= at) /\ j + 1 # at + 1 /\ (j + 1) - 1 = j BY <1>size, <1>place, <3>3
      <4>2. m[j + 1] = y BY <1>4, <3>1, <4>1
      <4> QED BY <1>5, <4>1, <4>2 DEF ToSet
    <3> QED BY <1>size, <1>place, <3>2, <3>3
  <2>3. x \in ToSet(m) BY <1>5, <1>7 DEF ToSet
  <2> QED BY <2>1, <2>2, <2>3
<1>9. ASSUME IsInjective(rest), x \notin ToSet(rest), NEW j \in 1..(n + 1), NEW k \in 1..(n + 1), m[j] = m[k]
      PROVE  j = k
  <2>1. CASE j = at + 1 BY <1>6, <1>7, <1>9, <2>1
  <2>2. CASE k = at + 1 BY <1>6, <1>7, <1>9, <2>2
  <2>3. CASE j # at + 1 /\ k # at + 1
    <3> DEFINE back(i) == IF i <= at THEN i ELSE i - 1
    <3>1. \A i \in 1..(n + 1) : i # at + 1 => back(i) \in 1..n /\ m[i] = rest[back(i)]
      BY <1>size, <1>place, <1>4
    <3>2. back(j) = back(k) BY <1>members, <1>size, <1>9, <2>3, <3>1 DEF IsInjective
    <3> QED BY <1>size, <1>place, <2>3, <3>2
  <2> QED BY <2>1, <2>2, <2>3
<1>10. IsInjective(rest) /\ x \notin ToSet(rest) => IsInjective(m) BY <1>5, <1>9 DEF IsInjective
<1> QED BY <1>4, <1>8, <1>10 DEF m

(* Placed moves an element of the sequence. *)
LEMMA PlacedKeeps ==
  ASSUME NEW S, NEW s \in Seq(S), IsInjective(s), NEW x \in ToSet(s), NEW after
  PROVE  Placed(s, x, after) \in Seq(S) /\ IsInjective(Placed(s, x, after)) /\ ToSet(Placed(s, x, after)) = ToSet(s)
<1> DEFINE rest == Except(s, x)
           at == IF after = None THEN 0
                 ELSE IF after \in ToSet(rest) THEN CHOOSE i \in DOMAIN rest : rest[i] = after ELSE Len(rest)
           m == InsertAt(rest, at + 1, x)
<1>1. Placed(s, x, after) = m BY DEF Placed
<1>2. x \in S BY ElementsIn
<1>3. rest \in Seq(S) /\ IsInjective(rest) /\ ToSet(rest) = ToSet(s) \ {x} BY ExceptKeeps
<1> HIDE DEF rest
<1>4. DOMAIN rest = 1..Len(rest) /\ Len(rest) \in Nat BY <1>3, ElementsIn
<1>5. at \in 0..Len(rest)
  <2>1. CASE after = None BY <1>4, <2>1
  <2>2. CASE after # None /\ after \in ToSet(rest)
    <3>1. \E i \in DOMAIN rest : rest[i] = after BY <2>2 DEF ToSet
    <3>2. at \in DOMAIN rest BY <2>2, <3>1
    <3> QED BY <1>4, <3>2
  <2>3. CASE after # None /\ after \notin ToSet(rest) BY <1>4, <2>3
  <2> QED BY <2>1, <2>2, <2>3
<1> HIDE DEF at
<1>6. m \in Seq(S) /\ IsInjective(m) /\ ToSet(m) = ToSet(rest) \cup {x} BY <1>2, <1>3, <1>5, InsertedKeeps
<1> QED BY <1>1, <1>3, <1>6

(* Expanded puts some elements first and keeps the others after them. *)
LEMMA ExpandedKeeps ==
  ASSUME NEW S, NEW s \in Seq(S), IsInjective(s), NEW order \in Seq(S), IsInjective(order), ToSet(order) \subseteq ToSet(s)
  PROVE  Expanded(order, s) \in Seq(S) /\ IsInjective(Expanded(order, s)) /\ ToSet(Expanded(order, s)) = ToSet(s)
<1> DEFINE later == {i \in DOMAIN s : s[i] \notin ToSet(order)}
           rest == Only(s, later)
           o == order \o rest
<1>1. o = Expanded(order, s) BY DEF Expanded
<1>2. IsInjective(order) /\ ToSet(order) \subseteq ToSet(s) OBVIOUS
<1>6. rest \in Seq(S) /\ ToSet(rest) = {s[i] : i \in later} /\ IsInjective(rest)
  <2>1. later \in SUBSET DOMAIN s OBVIOUS
  <2>2. \A i, j \in later : s[i] = s[j] => i = j BY DEF IsInjective
  <2> HIDE DEF later
  <2> QED BY <2>1, <2>2, Filtered
<1>7. ToSet(rest) = ToSet(s) \ ToSet(order)
  <2>1. {s[i] : i \in later} = ToSet(s) \ ToSet(order) BY DEF ToSet
  <2> QED BY <1>6, <2>1
<1> HIDE DEF rest, later
<1>8. /\ o \in Seq(S) /\ DOMAIN o = 1..(Len(order) + Len(rest))
      /\ \A i \in 1..(Len(order) + Len(rest)) : o[i] = IF i <= Len(order) THEN order[i] ELSE rest[i - Len(order)]
      /\ Len(order) \in Nat /\ Len(rest) \in Nat /\ DOMAIN order = 1..Len(order) /\ DOMAIN rest = 1..Len(rest)
  BY <1>6, ConcatProperties
<1> HIDE DEF o
<1> DEFINE m == Len(order)
           n == Len(rest)
<1>9. ASSUME NEW i \in 1..(m + n)
      PROVE  \/ i \in 1..m /\ o[i] = order[i] /\ o[i] \in ToSet(order)
             \/ i - m \in 1..n /\ o[i] = rest[i - m] /\ o[i] \in ToSet(rest)
  <2>1. CASE i <= m
    <3>1. i \in 1..m /\ o[i] = order[i] BY <1>8, <2>1
    <3> QED BY <1>8, <3>1 DEF ToSet
  <2>2. CASE i > m
    <3>1. i - m \in 1..n /\ o[i] = rest[i - m] BY <1>8, <2>2
    <3> QED BY <1>8, <3>1 DEF ToSet
  <2> QED BY <1>8, <2>1, <2>2
<1>10. IsInjective(o)
  <2>1. ASSUME NEW i \in 1..(m + n), NEW j \in 1..(m + n), o[i] = o[j] PROVE i = j
    <3>1. CASE o[i] \in ToSet(order)
      <4>1. i \in 1..m /\ o[i] = order[i] /\ j \in 1..m /\ o[j] = order[j] BY <1>7, <1>9, <2>1, <3>1
      <4> QED BY <1>2, <1>8, <2>1, <4>1 DEF IsInjective
    <3>2. CASE o[i] \notin ToSet(order)
      <4>1. i - m \in 1..n /\ o[i] = rest[i - m] /\ j - m \in 1..n /\ o[j] = rest[j - m]
        BY <1>9, <2>1, <3>2
      <4>2. i - m = j - m BY <1>6, <1>8, <2>1, <4>1 DEF IsInjective
      <4> QED BY <1>8, <4>2
    <3> QED BY <3>1, <3>2
  <2> QED BY <1>8, <2>1 DEF IsInjective
<1>11. ToSet(o) = ToSet(s)
  <2>1. ASSUME NEW y \in ToSet(o) PROVE y \in ToSet(s)
    <3>1. PICK i \in 1..(m + n) : y = o[i] BY <1>8, <2>1 DEF ToSet
    <3> QED BY <1>2, <1>7, <1>9, <3>1
  <2>2. ASSUME NEW y \in ToSet(s) PROVE y \in ToSet(o)
    <3>1. CASE y \in ToSet(order)
      <4>1. PICK i \in 1..m : y = order[i] BY <1>8, <3>1 DEF ToSet
      <4>2. i \in DOMAIN o /\ o[i] = y BY <1>8, <4>1
      <4> QED BY <4>2 DEF ToSet
    <3>2. CASE y \in ToSet(rest)
      <4>1. PICK i \in 1..n : y = rest[i] BY <1>8, <3>2 DEF ToSet
      <4>2. i + m \in 1..(m + n) /\ ~(i + m <= m) /\ (i + m) - m = i BY <1>8
      <4>3. i + m \in DOMAIN o /\ o[i + m] = y BY <1>8, <4>1, <4>2
      <4> QED BY <4>3 DEF ToSet
    <3> QED BY <1>7, <2>2, <3>1, <3>2
  <2> QED BY <2>1, <2>2
<1> QED BY <1>1, <1>8, <1>10, <1>11 DEF o

(* One element of a sequence changed *)
LEMMA ReplacedKeeps ==
  ASSUME NEW S, NEW s \in Seq(S), NEW i \in DOMAIN s, NEW x \in S
  PROVE  LET u == [s EXCEPT ![i] = x]
         IN u \in Seq(S) /\ DOMAIN u = DOMAIN s /\ u[i] = x /\ \A j \in DOMAIN s : j # i => u[j] = s[j]
OBVIOUS

-----------------------------------------------------------------------------
(* Graphs whose relations agree, and what an operator on them leaves as it is. *)
Linked(g) == g \in Graphs /\ NodesExist(g) /\ TracksMirror(g) /\ ClipsMirror(g) /\ MediaMirror(g)
Owned(g) == TextsMirror(g) /\ EffectsMirror(g)

Keeps(g, h) ==
  /\ Linked(h) /\ (PrimaryTracks(g) => PrimaryTracks(h))
  /\ DOMAIN g.projects \subseteq DOMAIN h.projects /\ DOMAIN g.clips \subseteq DOMAIN h.clips
KeepsOwners(g, h) == Keeps(g, h) /\ (Owned(g) => Owned(h))

(* What is kept by one operator and by the next is kept by both. *)
LEMMA KeepsTransitive ==
  ASSUME NEW f, NEW g, NEW h
  PROVE  /\ Keeps(f, g) /\ Keeps(g, h) => Keeps(f, h)
         /\ KeepsOwners(f, g) /\ KeepsOwners(g, h) => KeepsOwners(f, h)
BY DEF Keeps, KeepsOwners

(* A graph that keeps its links keeps its owners. *)
LEMMA KeepsSelf ==
  ASSUME NEW g, Linked(g)
  PROVE  KeepsOwners(g, g)
BY DEF Keeps, KeepsOwners

(* The sequences of nodes of a graph *)
LEMMA GraphFields ==
  ASSUME NEW g \in Graphs
  PROVE  /\ g.projects \in Seq(ProjectNodes) /\ g.tracks \in Seq(TrackNodes) /\ g.clips \in Seq(ClipNodes)
         /\ g.texts \in Seq(TextNodes) /\ g.effects \in Seq(Nat) /\ g.resources \in Seq(ResourceNodes)
         /\ \A p \in DOMAIN g.projects : g.projects[p] \in ProjectNodes
         /\ \A t \in DOMAIN g.tracks : g.tracks[t] \in TrackNodes
         /\ \A c \in DOMAIN g.clips : g.clips[c] \in ClipNodes
         /\ \A x \in DOMAIN g.texts : g.texts[x] \in TextNodes
BY DEF Graphs

(* A clip that keeps its track, resource and text and gets no effect *)
LEMMA ClipChanged ==
  ASSUME NEW g, Linked(g), NEW c \in DOMAIN g.clips, NEW x \in ClipNodes,
         x.track = g.clips[c].track, x.resource = g.clips[c].resource, x.text = g.clips[c].text,
         ToSet(x.effects) \subseteq ToSet(g.clips[c].effects)
  PROVE  KeepsOwners(g, [g EXCEPT !.clips[c] = x])
<1> DEFINE u == [g.clips EXCEPT ![c] = x]
           h == [g EXCEPT !.clips[c] = x]
<1>1. g \in Graphs BY DEF Linked
<1>2. u \in Seq(ClipNodes) /\ DOMAIN u = DOMAIN g.clips /\ u[c] = x /\ \A d \in DOMAIN g.clips : d # c => u[d] = g.clips[d]
  BY <1>1, GraphFields, ReplacedKeeps
<1> HIDE DEF u
<1>3. /\ h \in Graphs /\ h.clips = u /\ h.projects = g.projects /\ h.tracks = g.tracks
      /\ h.texts = g.texts /\ h.effects = g.effects /\ h.resources = g.resources
  BY <1>1, <1>2 DEF Graphs, u
<1> HIDE DEF h
<1>4. \A d \in DOMAIN u : /\ u[d].track = g.clips[d].track /\ u[d].resource = g.clips[d].resource /\ u[d].text = g.clips[d].text
                         /\ ToSet(u[d].effects) \subseteq ToSet(g.clips[d].effects)
  BY <1>2
<1>5. PrimaryTracks(g) => PrimaryTracks(h) BY <1>3 DEF PrimaryTracks, TracksOf
<1>6. TracksMirror(h) BY <1>3 DEF Linked, TracksMirror, TracksOf
<1>7. ClipsMirror(h)
  <2>1. ASSUME NEW t PROVE {d \in DOMAIN h.clips : h.clips[d].track = t} = {d \in DOMAIN g.clips : g.clips[d].track = t}
    BY <1>2, <1>3, <1>4
  <2> QED BY <1>2, <1>3, <1>4, <2>1 DEF Linked, ClipsMirror, ClipsOn, Refs
<1>8. MediaMirror(h)
  <2>1. \A p : MediaOf(h, p) = MediaOf(g, p) BY <1>3 DEF MediaOf
  <2>2. MediaMirror(g) BY DEF Linked
  <2> QED BY <1>2, <1>3, <1>4, <2>1, <2>2 DEF MediaMirror
<1>9. ASSUME Owned(g) PROVE Owned(h)
  <2>1. TextsMirror(h)
    <3>1. ASSUME NEW t PROVE {d \in DOMAIN h.clips : h.clips[d].text = t} = {d \in DOMAIN g.clips : g.clips[d].text = t}
      BY <1>2, <1>3, <1>4
    <3> QED BY <1>2, <1>3, <1>4, <1>9, <3>1 DEF Owned, TextsMirror
  <2>2. EffectsMirror(h) BY <1>2, <1>3, <1>4, <1>9 DEF Owned, EffectsMirror
  <2> QED BY <2>1, <2>2 DEF Owned
<1>nodes. NodesExist(h) BY <1>2, <1>3, <1>4 DEF Linked, NodesExist, Refs
<1> QED BY <1>nodes, <1>2, <1>3, <1>5, <1>6, <1>7, <1>8, <1>9 DEF KeepsOwners, Keeps, Linked, h

(* A track that keeps its project and its clips, in whatever order *)
LEMMA TrackChanged ==
  ASSUME NEW g, Linked(g), NEW t \in DOMAIN g.tracks, NEW y \in TrackNodes,
         y.project = g.tracks[t].project, IsInjective(y.clips), ToSet(y.clips) = ClipsOn(g, t)
  PROVE  KeepsOwners(g, [g EXCEPT !.tracks[t] = y])
<1> DEFINE u == [g.tracks EXCEPT ![t] = y]
           h == [g EXCEPT !.tracks[t] = y]
<1>1. g \in Graphs BY DEF Linked
<1>2. u \in Seq(TrackNodes) /\ DOMAIN u = DOMAIN g.tracks /\ u[t] = y /\ \A v \in DOMAIN g.tracks : v # t => u[v] = g.tracks[v]
  BY <1>1, GraphFields, ReplacedKeeps
<1> HIDE DEF u
<1>3. /\ h \in Graphs /\ h.tracks = u /\ h.projects = g.projects /\ h.clips = g.clips
      /\ h.texts = g.texts /\ h.effects = g.effects /\ h.resources = g.resources
  BY <1>1, <1>2 DEF Graphs, u
<1> HIDE DEF h
<1>4. \A v \in DOMAIN u : u[v].project = g.tracks[v].project /\ ToSet(u[v].clips) = ClipsOn(g, v) BY <1>2 DEF ClipsOn
<1>5. \A v \in DOMAIN u : IsInjective(u[v].clips) BY <1>2 DEF Linked, ClipsMirror
<1>6. PrimaryTracks(g) => PrimaryTracks(h) BY <1>3 DEF PrimaryTracks, TracksOf
<1>7. TracksMirror(h)
  <2>1. ASSUME NEW p PROVE {v \in DOMAIN h.tracks : h.tracks[v].project = p} = {v \in DOMAIN g.tracks : g.tracks[v].project = p}
    BY <1>2, <1>3, <1>4
  <2> QED BY <1>2, <1>3, <1>4, <2>1 DEF Linked, TracksMirror, TracksOf
<1>8. ClipsMirror(h)
  <2>1. \A c : {d \in DOMAIN h.clips : h.clips[d].track = c} = {d \in DOMAIN g.clips : g.clips[d].track = c} BY <1>3
  <2>2. ClipsMirror(g) BY DEF Linked
  <2> QED BY <1>2, <1>3, <1>4, <1>5, <2>1, <2>2 DEF ClipsMirror, ClipsOn, Refs
<1>9. MediaMirror(h)
  <2>1. \A p : MediaOf(h, p) = MediaOf(g, p) BY <1>3 DEF MediaOf
  <2>2. MediaMirror(g) /\ \A c \in DOMAIN g.clips : g.clips[c].track \in DOMAIN g.tracks \cup {None}
    BY DEF Linked, ClipsMirror, Refs
  <2> QED BY <1>2, <1>3, <1>4, <2>1, <2>2 DEF MediaMirror
<1>10. Owned(g) => Owned(h) BY <1>3 DEF Owned, TextsMirror, EffectsMirror
<1>nodes. NodesExist(h) BY <1>3 DEF Linked, NodesExist, Refs
<1> QED BY <1>nodes, <1>3, <1>6, <1>7, <1>8, <1>9, <1>10 DEF KeepsOwners, Keeps, Linked, h

(* The tracks of a project in another order *)
LEMMA TracksReordered ==
  ASSUME NEW g, Linked(g), NEW p \in DOMAIN g.projects, NEW s \in Seq(Nat), IsInjective(s), ToSet(s) = TracksOf(g, p)
  PROVE  KeepsOwners(g, [g EXCEPT !.projects[p].tracks = s])
<1> DEFINE y == [g.projects[p] EXCEPT !.tracks = s]
           u == [g.projects EXCEPT ![p] = y]
           h == [g EXCEPT !.projects[p].tracks = s]
<1>1. g \in Graphs BY DEF Linked
<1>2. /\ y \in ProjectNodes /\ y.tracks = s /\ y.resources = g.projects[p].resources
      /\ y.video = g.projects[p].video /\ y.audio = g.projects[p].audio
  BY <1>1, GraphFields DEF ProjectNodes
<1> HIDE DEF y
<1>3. u \in Seq(ProjectNodes) /\ DOMAIN u = DOMAIN g.projects /\ u[p] = y /\ \A q \in DOMAIN g.projects : q # p => u[q] = g.projects[q]
  BY <1>1, <1>2, GraphFields, ReplacedKeeps
<1>4. h = [g EXCEPT !.projects = u] BY DEF y
<1> HIDE DEF u, h
<1>5. /\ h \in Graphs /\ h.projects = u /\ h.tracks = g.tracks /\ h.clips = g.clips
      /\ h.texts = g.texts /\ h.effects = g.effects /\ h.resources = g.resources
  BY <1>1, <1>3, <1>4 DEF Graphs
<1>6. \A q \in DOMAIN u : /\ TracksOf(h, q) = TracksOf(g, q) /\ MediaOf(h, q) = MediaOf(g, q)
                         /\ u[q].video = g.projects[q].video /\ u[q].audio = g.projects[q].audio
  BY <1>2, <1>3, <1>5 DEF TracksOf, MediaOf
<1>7. \A q \in DOMAIN u : IsInjective(u[q].tracks) BY <1>2, <1>3 DEF Linked, TracksMirror
<1>8. PrimaryTracks(g) => PrimaryTracks(h) BY <1>3, <1>5, <1>6 DEF PrimaryTracks
<1>9. TracksMirror(h) BY <1>3, <1>5, <1>6, <1>7 DEF Linked, TracksMirror
<1>10. ClipsMirror(h) BY <1>5 DEF Linked, ClipsMirror, ClipsOn, Refs
<1>11. MediaMirror(h)
  <2>1. MediaMirror(g) /\ \A c \in DOMAIN g.clips : g.clips[c].track # None => g.tracks[g.clips[c].track].project \in DOMAIN g.projects
    BY DEF Linked, ClipsMirror, TracksMirror, Refs
  <2> QED BY <1>3, <1>5, <1>6, <2>1 DEF MediaMirror
<1>12. Owned(g) => Owned(h) BY <1>5 DEF Owned, TextsMirror, EffectsMirror
<1>nodes. NodesExist(h) BY <1>5 DEF Linked, NodesExist, Refs
<1> QED BY <1>nodes, <1>3, <1>5, <1>8, <1>9, <1>10, <1>11, <1>12 DEF KeepsOwners, Keeps, Linked, h

(* A text edited *)
LEMMA TextChanged ==
  ASSUME NEW g, Linked(g), NEW x \in DOMAIN g.texts, NEW l \in Looks
  PROVE  KeepsOwners(g, [g EXCEPT !.texts[x].content = l])
<1> DEFINE y == [g.texts[x] EXCEPT !.content = l]
           u == [g.texts EXCEPT ![x] = y]
           h == [g EXCEPT !.texts[x].content = l]
<1>1. g \in Graphs BY DEF Linked
<1>2. y \in TextNodes /\ y.clip = g.texts[x].clip BY <1>1, GraphFields DEF TextNodes
<1> HIDE DEF y
<1>3. u \in Seq(TextNodes) /\ DOMAIN u = DOMAIN g.texts /\ u[x] = y /\ \A q \in DOMAIN g.texts : q # x => u[q] = g.texts[q]
  BY <1>1, <1>2, GraphFields, ReplacedKeeps
<1>4. h = [g EXCEPT !.texts = u] BY DEF y
<1> HIDE DEF u, h
<1>5. /\ h \in Graphs /\ h.texts = u /\ h.projects = g.projects /\ h.tracks = g.tracks /\ h.clips = g.clips
      /\ h.effects = g.effects /\ h.resources = g.resources
  BY <1>1, <1>3, <1>4 DEF Graphs
<1>6. PrimaryTracks(g) => PrimaryTracks(h) BY <1>5 DEF PrimaryTracks, TracksOf
<1>7. TracksMirror(h) /\ ClipsMirror(h) /\ MediaMirror(h)
  <2>1. TracksMirror(h) BY <1>5 DEF Linked, TracksMirror, TracksOf
  <2>2. ClipsMirror(h) BY <1>5 DEF Linked, ClipsMirror, ClipsOn, Refs
  <2>3. \A p : MediaOf(h, p) = MediaOf(g, p) BY <1>5 DEF MediaOf
  <2>4. MediaMirror(h) BY <1>5, <2>3 DEF Linked, MediaMirror
  <2> QED BY <2>1, <2>2, <2>4
<1>8. ASSUME Owned(g) PROVE Owned(h)
  <2>1. EffectsMirror(h) BY <1>5, <1>8 DEF Owned, EffectsMirror
  <2>2. \A q \in DOMAIN u : u[q].clip = g.texts[q].clip BY <1>2, <1>3
  <2>3. TextsMirror(g) BY <1>8 DEF Owned
  <2>4. TextsMirror(h) BY <1>3, <1>5, <2>2, <2>3 DEF TextsMirror
  <2> QED BY <2>1, <2>4 DEF Owned
<1>nodes. NodesExist(h) BY <1>3, <1>5 DEF Linked, NodesExist, Refs
<1> QED BY <1>nodes, <1>5, <1>6, <1>7, <1>8 DEF KeepsOwners, Keeps, Linked, h

(* A new effect of a clip, at the end of its list *)
LEMMA EffectAdded ==
  ASSUME NEW g, Linked(g), NEW c \in DOMAIN g.clips
  PROVE  KeepsOwners(g, [g EXCEPT !.effects = Append(@, c), !.clips[c].effects = Append(@, Len(g.effects) + 1)])
<1> DEFINE e == Len(g.effects) + 1
           y == [g.clips[c] EXCEPT !.effects = Append(@, e)]
           u == [g.clips EXCEPT ![c] = y]
           f == Append(g.effects, c)
           h == [g EXCEPT !.effects = Append(@, c), !.clips[c].effects = Append(@, e)]
<1>1. g \in Graphs BY DEF Linked
<1>2. g.effects \in Seq(Nat) /\ g.clips \in Seq(ClipNodes) /\ g.clips[c] \in ClipNodes BY <1>1, GraphFields
<1>3. c \in Nat /\ e \in Nat BY <1>2
<1>4. /\ f \in Seq(Nat) /\ DOMAIN f = 1..e /\ f[e] = c /\ \A i \in DOMAIN g.effects : f[i] = g.effects[i]
      /\ DOMAIN g.effects = 1..Len(g.effects)
  BY <1>2, <1>3, AppendedKeeps
<1>5. DOMAIN g.effects \subseteq DOMAIN f /\ e \in DOMAIN f BY <1>2, <1>3, <1>4
<1> HIDE DEF f
<1>6. g.clips[c].effects \in Seq(Nat) BY <1>2 DEF ClipNodes
<1>7. Append(g.clips[c].effects, e) \in Seq(Nat) /\ ToSet(Append(g.clips[c].effects, e)) = ToSet(g.clips[c].effects) \cup {e}
  BY <1>3, <1>6, AppendedKeeps
<1>8. /\ y \in ClipNodes /\ y.track = g.clips[c].track /\ y.resource = g.clips[c].resource /\ y.text = g.clips[c].text
      /\ ToSet(y.effects) = ToSet(g.clips[c].effects) \cup {e}
  <2> DEFINE l == Append(g.clips[c].effects, e)
  <2>1. l \in Seq(Nat) /\ y = [g.clips[c] EXCEPT !.effects = l] BY <1>7
  <2>2. ToSet(l) = ToSet(g.clips[c].effects) \cup {e} BY <1>7
  <2> HIDE DEF l, y
  <2> QED BY <1>2, <2>1, <2>2 DEF ClipNodes
<1> HIDE DEF y
<1>9. u \in Seq(ClipNodes) /\ DOMAIN u = DOMAIN g.clips /\ u[c] = y /\ \A d \in DOMAIN g.clips : d # c => u[d] = g.clips[d]
  BY <1>2, <1>8, ReplacedKeeps
<1>10. h = [g EXCEPT !.effects = f, !.clips = u] BY DEF f, y
<1> HIDE DEF u, h
<1>11. /\ h \in Graphs /\ h.effects = f /\ h.clips = u /\ h.projects = g.projects /\ h.tracks = g.tracks
       /\ h.texts = g.texts /\ h.resources = g.resources
  BY <1>1, <1>4, <1>9, <1>10 DEF Graphs
<1>12. \A d \in DOMAIN u : u[d].track = g.clips[d].track /\ u[d].resource = g.clips[d].resource /\ u[d].text = g.clips[d].text
  BY <1>8, <1>9
<1>13. PrimaryTracks(g) => PrimaryTracks(h) BY <1>11 DEF PrimaryTracks, TracksOf
<1>14. TracksMirror(h) BY <1>11 DEF Linked, TracksMirror, TracksOf
<1>15. ClipsMirror(h)
  <2>1. ASSUME NEW t PROVE {d \in DOMAIN h.clips : h.clips[d].track = t} = {d \in DOMAIN g.clips : g.clips[d].track = t}
    BY <1>9, <1>11, <1>12
  <2> QED BY <1>9, <1>11, <1>12, <2>1 DEF Linked, ClipsMirror, ClipsOn, Refs
<1>16. MediaMirror(h)
  <2>1. \A p : MediaOf(h, p) = MediaOf(g, p) BY <1>11 DEF MediaOf
  <2>2. MediaMirror(g) BY DEF Linked
  <2> QED BY <1>9, <1>11, <1>12, <2>1, <2>2 DEF MediaMirror
<1>17. ASSUME Owned(g) PROVE Owned(h)
  <2>1. TextsMirror(h)
    <3>1. ASSUME NEW t PROVE {d \in DOMAIN h.clips : h.clips[d].text = t} = {d \in DOMAIN g.clips : g.clips[d].text = t}
      BY <1>9, <1>11, <1>12
    <3>2. TextsMirror(g) BY <1>17 DEF Owned
    <3> QED BY <1>9, <1>11, <1>12, <3>1, <3>2 DEF TextsMirror
  <2>2. EffectsMirror(g) BY <1>17 DEF Owned
  <2>3. ASSUME NEW d \in DOMAIN u, NEW i \in ToSet(u[d].effects) PROVE i \in DOMAIN f /\ f[i] = d
    <3>1. CASE i \in ToSet(g.clips[d].effects) BY <1>4, <1>5, <1>9, <2>2, <3>1 DEF EffectsMirror
    <3>2. CASE i \notin ToSet(g.clips[d].effects)
      <4>1. d = c /\ i = e BY <1>8, <1>9, <2>3, <3>2
      <4> QED BY <1>4, <1>5, <4>1
    <3> QED BY <3>1, <3>2
  <2>4. EffectsMirror(h) BY <1>11, <2>3 DEF EffectsMirror
  <2> QED BY <2>1, <2>4 DEF Owned
<1>nodes. NodesExist(h) BY <1>9, <1>11, <1>12 DEF Linked, NodesExist, Refs
<1> QED BY <1>nodes, <1>9, <1>11, <1>13, <1>14, <1>15, <1>16, <1>17 DEF KeepsOwners, Keeps, Linked, h

(* AddClip: a new clip, at the end of the list of its track.  What is needed of it later: the *)
(* other nodes are the ones there were.                                                      *)
LEMMA ClipAdded ==
  ASSUME NEW g, Linked(g), NEW x \in ClipNodes, x.track \in DOMAIN g.tracks,
         x.resource \in MediaOf(g, g.tracks[x.track].project) \cup {None}, x.text \in Refs(g.texts)
  PROVE  /\ Keeps(g, AddClip(g, x)) /\ (x.text = None /\ x.effects = <<>> => KeepsOwners(g, AddClip(g, x)))
         /\ AddClip(g, x).projects = g.projects /\ AddClip(g, x).texts = g.texts /\ AddClip(g, x).resources = g.resources
         /\ AddClip(g, x).clips = Append(g.clips, x) /\ DOMAIN AddClip(g, x).tracks = DOMAIN g.tracks
         /\ \A t \in DOMAIN g.tracks : AddClip(g, x).tracks[t].project = g.tracks[t].project
<1> DEFINE n == Len(g.clips) + 1
           v == x.track
           y == [g.tracks[v] EXCEPT !.clips = Append(@, n)]
           w == [g.tracks EXCEPT ![v] = y]
           u == Append(g.clips, x)
           h == AddClip(g, x)
<1>1. g \in Graphs /\ TracksMirror(g) /\ ClipsMirror(g) /\ MediaMirror(g) BY DEF Linked
<1>2. /\ g.tracks \in Seq(TrackNodes) /\ g.clips \in Seq(ClipNodes) /\ v \in DOMAIN g.tracks /\ g.tracks[v] \in TrackNodes
      /\ x \in ClipNodes
  BY <1>1, GraphFields
<1>3. /\ u \in Seq(ClipNodes) /\ DOMAIN u = 1..n /\ u[n] = x /\ \A d \in DOMAIN g.clips : u[d] = g.clips[d]
      /\ n \in Nat \ {0} /\ DOMAIN g.clips = 1..(n - 1)
  BY <1>2, AppendedKeeps
<1>4. DOMAIN u = DOMAIN g.clips \cup {n} /\ n \notin DOMAIN g.clips BY <1>3
<1>5. ToSet(g.tracks[v].clips) \subseteq DOMAIN g.clips /\ IsInjective(g.tracks[v].clips)
  BY <1>1, <1>2 DEF ClipsMirror, ClipsOn
<1>6. y \in TrackNodes /\ y.project = g.tracks[v].project /\ IsInjective(y.clips) /\ ToSet(y.clips) = ClipsOn(g, v) \cup {n}
  <2> DEFINE l == Append(g.tracks[v].clips, n)
  <2>1. g.tracks[v].clips \in Seq(Nat) /\ n \in Nat BY <1>2, <1>3 DEF TrackNodes
  <2>2. l \in Seq(Nat) /\ ToSet(l) = ToSet(g.tracks[v].clips) \cup {n} /\ IsInjective(l)
    BY <1>4, <1>5, <2>1, AppendedKeeps
  <2>3. y = [g.tracks[v] EXCEPT !.clips = l] OBVIOUS
  <2> HIDE DEF l, y
  <2> QED BY <1>2, <2>2, <2>3 DEF TrackNodes, ClipsOn
<1>7. w \in Seq(TrackNodes) /\ DOMAIN w = DOMAIN g.tracks /\ w[v] = y /\ \A t \in DOMAIN g.tracks : t # v => w[t] = g.tracks[t]
  BY <1>2, <1>6, ReplacedKeeps
<1>8. h = [g EXCEPT !.clips = u, !.tracks = w] BY DEF AddClip
<1> HIDE DEF u, w, y, h, n
<1>9. /\ h \in Graphs /\ h.clips = u /\ h.tracks = w /\ h.projects = g.projects
      /\ h.texts = g.texts /\ h.effects = g.effects /\ h.resources = g.resources
  BY <1>1, <1>3, <1>7, <1>8 DEF Graphs
<1>10. \A t \in DOMAIN w : w[t].project = g.tracks[t].project BY <1>6, <1>7
<1>11. PrimaryTracks(g) => PrimaryTracks(h) BY <1>9 DEF PrimaryTracks, TracksOf
<1>12. TracksMirror(h)
  <2>1. ASSUME NEW p PROVE {t \in DOMAIN h.tracks : h.tracks[t].project = p} = {t \in DOMAIN g.tracks : g.tracks[t].project = p}
    BY <1>7, <1>9, <1>10
  <2> QED BY <1>1, <1>7, <1>9, <1>10, <2>1 DEF TracksMirror, TracksOf
<1>13. ClipsMirror(h)
  <2>1. ASSUME NEW t \in DOMAIN w PROVE IsInjective(w[t].clips) /\ ToSet(w[t].clips) = {d \in DOMAIN u : u[d].track = t}
    <3>0. IsInjective(g.tracks[t].clips) /\ ClipsOn(g, t) = {d \in DOMAIN g.clips : g.clips[d].track = t}
      BY <1>1, <1>7 DEF ClipsMirror
    <3>1. CASE t = v
      <4>1. {d \in DOMAIN u : u[d].track = t} = {d \in DOMAIN g.clips : g.clips[d].track = t} \cup {n}
        BY <1>3, <1>4, <3>1
      <4> QED BY <1>6, <1>7, <3>0, <3>1, <4>1
    <3>2. CASE t # v
      <4>1. {d \in DOMAIN u : u[d].track = t} = {d \in DOMAIN g.clips : g.clips[d].track = t}
        BY <1>3, <1>4, <3>2
      <4> QED BY <1>7, <3>0, <3>2, <4>1 DEF ClipsOn
    <3> QED BY <3>1, <3>2
  <2>2. \A d \in DOMAIN u : u[d].track \in DOMAIN w \cup {None}
    BY <1>1, <1>2, <1>3, <1>4, <1>7 DEF ClipsMirror, Refs
  <2> QED BY <1>9, <2>1, <2>2 DEF ClipsMirror, ClipsOn, Refs
<1>14. MediaMirror(h)
  <2>1. \A p : MediaOf(h, p) = MediaOf(g, p) BY <1>9 DEF MediaOf
  <2>2. ASSUME NEW d \in DOMAIN u, u[d].track # None PROVE u[d].resource \in MediaOf(g, w[u[d].track].project) \cup {None}
    <3>1. CASE d = n BY <1>2, <1>3, <1>7, <1>10, <3>1
    <3>2. CASE d # n
      <4>1. d \in DOMAIN g.clips /\ u[d] = g.clips[d] BY <1>3, <1>4, <3>2
      <4>2. u[d].track \in DOMAIN g.tracks BY <1>1, <2>2, <4>1 DEF ClipsMirror, Refs
      <4> QED BY <1>1, <1>7, <1>10, <2>2, <4>1, <4>2 DEF MediaMirror
    <3> QED BY <3>1, <3>2
  <2> QED BY <1>1, <1>9, <2>1, <2>2 DEF MediaMirror
<1>nodes. NodesExist(h)
  <2>1. NodesExist(g) BY DEF Linked
  <2>2. u[n].resource \in Refs(g.resources)
    <3>1. g.tracks[v].project \in DOMAIN g.projects BY <1>1, <1>2 DEF TracksMirror
    <3>2. MediaOf(g, g.tracks[v].project) \subseteq DOMAIN g.resources BY <1>1, <3>1 DEF MediaMirror
    <3> QED BY <1>3, <3>2 DEF Refs
  <2>3. u[n].text \in Refs(g.texts) BY <1>3
  <2> QED BY <1>3, <1>4, <1>9, <2>1, <2>2, <2>3 DEF NodesExist
<1>15. Keeps(g, h) BY <1>nodes, <1>4, <1>9, <1>11, <1>12, <1>13, <1>14 DEF Keeps, Linked
<1>16. ASSUME x.text = None, x.effects = <<>>, Owned(g) PROVE Owned(h)
  <2>1. TextsMirror(h)
    <3>1. TextsMirror(g) BY <1>16 DEF Owned
    <3>2. \A z \in DOMAIN g.texts : z # None BY <1>1, GraphFields DEF None
    <3>3. ASSUME NEW z \in DOMAIN g.texts PROVE {d \in DOMAIN u : u[d].text = z} = {d \in DOMAIN g.clips : g.clips[d].text = z}
      BY <1>3, <1>4, <1>16, <3>2
    <3> QED BY <1>9, <3>1, <3>3 DEF TextsMirror
  <2>2. EffectsMirror(h)
    <3>1. EffectsMirror(g) BY <1>16 DEF Owned
    <3>2. ToSet(u[n].effects) = {} BY <1>3, <1>16 DEF ToSet
    <3>3. ASSUME NEW d \in DOMAIN u, NEW e \in ToSet(u[d].effects) PROVE e \in DOMAIN g.effects /\ g.effects[e] = d
      <4>1. d # n BY <3>2, <3>3
      <4>2. d \in DOMAIN g.clips /\ u[d] = g.clips[d] BY <1>3, <1>4, <4>1
      <4> QED BY <3>1, <3>3, <4>2 DEF EffectsMirror
    <3> QED BY <1>9, <3>3 DEF EffectsMirror
  <2> QED BY <2>1, <2>2 DEF Owned
<1> QED BY <1>7, <1>9, <1>10, <1>15, <1>16 DEF KeepsOwners, h, u

(* LinkText: a new text, of the newest clip *)
LEMMA TextLinked ==
  ASSUME NEW g, Linked(g), g.clips # <<>>, g.clips[Len(g.clips)].text = None, NEW l \in Looks
  PROVE  KeepsOwners(g, LinkText(g, l))
<1> DEFINE c == Len(g.clips)
           n == Len(g.texts) + 1
           y == [g.clips[c] EXCEPT !.text = n]
           u == [g.clips EXCEPT ![c] = y]
           z == [clip |-> c, content |-> l]
           w == Append(g.texts, z)
           h == LinkText(g, l)
<1>1. g \in Graphs /\ TracksMirror(g) /\ ClipsMirror(g) /\ MediaMirror(g) BY DEF Linked
<1>2. g.texts \in Seq(TextNodes) /\ g.clips \in Seq(ClipNodes) BY <1>1, GraphFields
<1>3. c \in DOMAIN g.clips /\ c \in Nat /\ g.clips[c] \in ClipNodes BY <1>2
<1>4. n \in Nat \ {0} /\ DOMAIN g.texts = 1..(n - 1) BY <1>2
<1>5. z \in TextNodes /\ z.clip = c BY <1>3 DEF TextNodes
<1>6. w \in Seq(TextNodes) /\ DOMAIN w = 1..n /\ w[n] = z /\ \A i \in DOMAIN g.texts : w[i] = g.texts[i]
  BY <1>2, <1>5, AppendedKeeps
<1>7. /\ y \in ClipNodes /\ y.track = g.clips[c].track /\ y.resource = g.clips[c].resource /\ y.effects = g.clips[c].effects
      /\ y.text = n
  <2> HIDE DEF c, n
  <2> QED BY <1>3, <1>4 DEF ClipNodes
<1>8. u \in Seq(ClipNodes) /\ DOMAIN u = DOMAIN g.clips /\ u[c] = y /\ \A d \in DOMAIN g.clips : d # c => u[d] = g.clips[d]
  BY <1>2, <1>3, <1>7, ReplacedKeeps
<1>9. h = [g EXCEPT !.texts = w, !.clips = u] BY DEF LinkText
<1>10. g.clips[c].text = None OBVIOUS
<1> HIDE DEF u, w, y, z, h, n, c
<1>11. DOMAIN w = DOMAIN g.texts \cup {n} /\ n \notin DOMAIN g.texts /\ n # None /\ None \notin DOMAIN g.texts
  BY <1>4, <1>6 DEF None
<1>12. /\ h \in Graphs /\ h.clips = u /\ h.texts = w /\ h.projects = g.projects /\ h.tracks = g.tracks
       /\ h.effects = g.effects /\ h.resources = g.resources
  BY <1>1, <1>6, <1>8, <1>9 DEF Graphs
<1>13. \A d \in DOMAIN u : u[d].track = g.clips[d].track /\ u[d].resource = g.clips[d].resource /\ u[d].effects = g.clips[d].effects
  BY <1>7, <1>8
<1>14. PrimaryTracks(g) => PrimaryTracks(h) BY <1>12 DEF PrimaryTracks, TracksOf
<1>15. TracksMirror(h) BY <1>1, <1>12 DEF TracksMirror, TracksOf
<1>16. ClipsMirror(h)
  <2>1. ASSUME NEW t PROVE {d \in DOMAIN h.clips : h.clips[d].track = t} = {d \in DOMAIN g.clips : g.clips[d].track = t}
    BY <1>8, <1>12, <1>13
  <2> QED BY <1>1, <1>8, <1>12, <1>13, <2>1 DEF ClipsMirror, ClipsOn, Refs
<1>17. MediaMirror(h)
  <2>1. \A p : MediaOf(h, p) = MediaOf(g, p) BY <1>12 DEF MediaOf
  <2> QED BY <1>1, <1>8, <1>12, <1>13, <2>1 DEF MediaMirror
<1>18. ASSUME Owned(g) PROVE Owned(h)
  <2>0. TextsMirror(g) /\ EffectsMirror(g) BY <1>18 DEF Owned
  <2>2. {d \in DOMAIN u : u[d].text = n} = {w[n].clip}
    <3>1. \A d \in DOMAIN g.clips : g.clips[d].text # n BY <1>11 DEF Linked, NodesExist, Refs
    <3> QED BY <1>3, <1>5, <1>6, <1>7, <1>8, <3>1
  <2>3. ASSUME NEW i \in DOMAIN g.texts PROVE {d \in DOMAIN u : u[d].text = i} = {w[i].clip}
    <3>1. {d \in DOMAIN u : u[d].text = i} = {d \in DOMAIN g.clips : g.clips[d].text = i}
      BY <1>7, <1>8, <1>10, <1>11
    <3> QED BY <1>6, <2>0, <3>1 DEF TextsMirror
  <2>4. TextsMirror(h) BY <1>11, <1>12, <2>2, <2>3 DEF TextsMirror
  <2>5. EffectsMirror(h) BY <1>8, <1>12, <1>13, <2>0 DEF EffectsMirror
  <2> QED BY <2>4, <2>5 DEF Owned
<1>nodes. NodesExist(h) BY <1>7, <1>8, <1>11, <1>12, <1>13 DEF Linked, NodesExist, Refs
<1> QED BY <1>nodes, <1>8, <1>12, <1>14, <1>15, <1>16, <1>17, <1>18 DEF KeepsOwners, Keeps, Linked, h

(* AddTrackTo: a new track of a project, at the end of its list.  Giving every track of the     *)
(* project the project changes nothing, since they have it.                                    *)
LEMMA TrackAdded ==
  ASSUME NEW g, Linked(g), NEW p \in DOMAIN g.projects, NEW kind \in {"video", "audio"},
         NEW role \in {"normal", "incomingReview", "currentReview"}
  PROVE  LET h == AddTrackTo(g, p, kind, role)
             t == Len(g.tracks) + 1
         IN /\ KeepsOwners(g, h) /\ h.clips = g.clips /\ h.texts = g.texts
            /\ t \in Nat /\ t \notin DOMAIN g.tracks
            /\ DOMAIN h.tracks = DOMAIN g.tracks \cup {t} /\ DOMAIN h.projects = DOMAIN g.projects
            /\ Len(h.tracks) = t
            /\ \A v \in DOMAIN g.tracks : h.tracks[v] = g.tracks[v]
            /\ h.tracks[t].project = p /\ h.tracks[t].role = role /\ h.resources = g.resources
            /\ \A q \in DOMAIN g.projects :
                 /\ h.projects[q].video = g.projects[q].video /\ h.projects[q].audio = g.projects[q].audio
                 /\ MediaOf(h, q) = MediaOf(g, q) /\ TracksOf(g, q) \subseteq TracksOf(h, q)
            /\ t \in TracksOf(h, p)
            /\ \A i \in DOMAIN g.projects[p].tracks : i \in DOMAIN h.projects[p].tracks /\ h.projects[p].tracks[i] = g.projects[p].tracks[i]
            /\ Len(g.projects[p].tracks) + 1 \in DOMAIN h.projects[p].tracks
            /\ h.projects[p].tracks[Len(g.projects[p].tracks) + 1] = t
<1> DEFINE t == Len(g.tracks) + 1
           s == Append(g.projects[p].tracks, t)
           k == Len(g.projects[p].tracks)
           new == [NewTrack(kind, role) EXCEPT !.project = p]
           Node(u) == IF u = t THEN NewTrack(kind, role) ELSE g.tracks[u]
           w == [u \in 1..t |-> IF u \in ToSet(s) THEN [Node(u) EXCEPT !.project = p] ELSE Node(u)]
           y == [g.projects[p] EXCEPT !.tracks = s]
           r == [g.projects EXCEPT ![p] = y]
           h == AddTrackTo(g, p, kind, role)
<1>1. g \in Graphs /\ TracksMirror(g) /\ ClipsMirror(g) /\ MediaMirror(g) BY DEF Linked
<1>2. /\ g.tracks \in Seq(TrackNodes) /\ g.projects \in Seq(ProjectNodes) /\ g.projects[p] \in ProjectNodes
      /\ \A v \in DOMAIN g.tracks : g.tracks[v] \in TrackNodes
  BY <1>1, GraphFields
<1>3. t \in Nat /\ DOMAIN g.tracks = 1..(t - 1) /\ t \notin DOMAIN g.tracks /\ 1..t = DOMAIN g.tracks \cup {t} BY <1>2
<1>4. g.projects[p].tracks \in Seq(Nat) BY <1>2 DEF ProjectNodes
<1>5. TracksOf(g, p) = {v \in DOMAIN g.tracks : g.tracks[v].project = p} /\ IsInjective(g.projects[p].tracks)
  BY <1>1 DEF TracksMirror
<1>6. /\ s \in Seq(Nat) /\ ToSet(s) = TracksOf(g, p) \cup {t} /\ IsInjective(s)
      /\ \A i \in DOMAIN g.projects[p].tracks : i \in DOMAIN s /\ s[i] = g.projects[p].tracks[i]
      /\ k + 1 \in DOMAIN s /\ s[k + 1] = t
  <2>1. t \notin ToSet(g.projects[p].tracks) BY <1>3, <1>5 DEF TracksOf
  <2> HIDE DEF t
  <2>2. k \in Nat /\ DOMAIN g.projects[p].tracks = 1..k BY <1>4
  <2>3. /\ s \in Seq(Nat) /\ DOMAIN s = 1..(k + 1) /\ \A i \in DOMAIN g.projects[p].tracks : s[i] = g.projects[p].tracks[i]
        /\ s[k + 1] = t /\ ToSet(s) = ToSet(g.projects[p].tracks) \cup {t} /\ IsInjective(s)
    <3> DEFINE l == g.projects[p].tracks
    <3>1. l \in Seq(Nat) /\ t \in Nat /\ IsInjective(l) /\ t \notin ToSet(l) BY <1>3, <1>4, <1>5, <2>1
    <3> HIDE DEF l
    <3> QED BY <3>1, AppendedKeeps DEF l
  <2> HIDE DEF k, s
  <2>4. k + 1 \in 1..(k + 1) /\ 1..k \subseteq 1..(k + 1) BY <2>2
  <2> QED BY <2>2, <2>3, <2>4 DEF TracksOf
<1> HIDE DEF k
<1>7. p \in Nat BY <1>2
<1>8. NewTrack(kind, role) \in TrackNodes /\ new \in TrackNodes /\ new.project = p /\ new.role = role /\ new.clips = <<>>
  <2> DEFINE b == (role = "normal")
  <2>1. b \in BOOLEAN /\ <<>> \in Seq(Nat) /\ None \in Nat BY DEF None
  <2>2. NewTrack(kind, role) = [project |-> None, kind |-> kind, role |-> role, enabled |-> b, clips |-> <<>>]
    BY DEF NewTrack
  <2>3. new = [project |-> p, kind |-> kind, role |-> role, enabled |-> b, clips |-> <<>>] BY DEF NewTrack
  <2>4. kind \in {"video", "audio"} /\ role \in {"normal", "incomingReview", "currentReview"} OBVIOUS
  <2> HIDE DEF b, new
  <2>5. NewTrack(kind, role) \in TrackNodes BY <2>1, <2>2, <2>4 DEF TrackNodes
  <2> QED BY <1>7, <2>1, <2>3, <2>4, <2>5 DEF TrackNodes
<1>9. Node(t) = NewTrack(kind, role) /\ \A v \in DOMAIN g.tracks : Node(v) = g.tracks[v] BY <1>3
<1> HIDE DEF Node
<1>10. w[t] = new
  <2>1. t \in 1..t /\ t \in ToSet(s) BY <1>3, <1>6
  <2> HIDE DEF s, t
  <2> QED BY <1>9, <2>1
<1>11. ASSUME NEW v \in DOMAIN g.tracks PROVE w[v] = g.tracks[v]
  <2>1. v \in 1..t /\ Node(v) = g.tracks[v] /\ g.tracks[v] \in TrackNodes BY <1>2, <1>3, <1>9
  <2>2. v \in ToSet(s) => g.tracks[v].project = p BY <1>3, <1>5, <1>6
  <2> HIDE DEF s, t
  <2> QED BY <2>1, <2>2 DEF TrackNodes
<1>12. DOMAIN w = DOMAIN g.tracks \cup {t} BY <1>3
<1>13. w \in Seq(TrackNodes) /\ Len(w) = t
  <2>1. \A v \in 1..t : w[v] \in TrackNodes BY <1>2, <1>3, <1>8, <1>10, <1>11
  <2>2. DOMAIN w = 1..t OBVIOUS
  <2>3. w = [v \in 1..t |-> w[v]] OBVIOUS
  <2> HIDE DEF w, t
  <2> QED BY <1>3, <2>1, <2>2, <2>3
<1>14. /\ y \in ProjectNodes /\ y.tracks = s /\ y.resources = g.projects[p].resources
       /\ y.video = g.projects[p].video /\ y.audio = g.projects[p].audio
  <2> HIDE DEF s
  <2> QED BY <1>2, <1>6 DEF ProjectNodes
<1> HIDE DEF y
<1>15. r \in Seq(ProjectNodes) /\ DOMAIN r = DOMAIN g.projects /\ r[p] = y /\ \A q \in DOMAIN g.projects : q # p => r[q] = g.projects[q]
  BY <1>2, <1>14, ReplacedKeeps
<1>16. h = [g EXCEPT !.tracks = w, !.projects = r] BY DEF AddTrackTo, y, Node
<1> HIDE DEF w, r, h, s, new, t
<1>17. /\ h \in Graphs /\ h.projects = r /\ h.tracks = w /\ h.clips = g.clips
       /\ h.texts = g.texts /\ h.effects = g.effects /\ h.resources = g.resources
  BY <1>1, <1>13, <1>15, <1>16 DEF Graphs
<1>18. \A q \in DOMAIN r : /\ r[q].video = g.projects[q].video /\ r[q].audio = g.projects[q].audio
                           /\ MediaOf(h, q) = MediaOf(g, q) /\ TracksOf(g, q) \subseteq TracksOf(h, q)
                           /\ q # p => TracksOf(h, q) = TracksOf(g, q) /\ IsInjective(r[q].tracks)
  <2>1. ASSUME NEW q \in DOMAIN r, q # p PROVE r[q] = g.projects[q] /\ IsInjective(r[q].tracks)
    BY <1>1, <1>15, <2>1 DEF TracksMirror
  <2> QED BY <1>6, <1>14, <1>15, <1>17, <2>1 DEF MediaOf, TracksOf
<1>19. TracksOf(h, p) = TracksOf(g, p) \cup {t} BY <1>6, <1>14, <1>15, <1>17 DEF TracksOf
<1>20. PrimaryTracks(g) => PrimaryTracks(h) BY <1>15, <1>17, <1>18 DEF PrimaryTracks
<1>21. TracksMirror(h)
  <2>1. ASSUME NEW q \in DOMAIN r, q # p PROVE TracksOf(h, q) = {v \in DOMAIN w : w[v].project = q}
    <3>1. {v \in DOMAIN w : w[v].project = q} = {v \in DOMAIN g.tracks : g.tracks[v].project = q}
      BY <1>8, <1>10, <1>11, <1>12, <2>1
    <3> QED BY <1>1, <1>15, <1>18, <2>1, <3>1 DEF TracksMirror
  <2>2. TracksOf(h, p) = {v \in DOMAIN w : w[v].project = p}
    <3>1. {v \in DOMAIN w : w[v].project = p} = {v \in DOMAIN g.tracks : g.tracks[v].project = p} \cup {t}
      BY <1>8, <1>10, <1>11, <1>12
    <3> QED BY <1>5, <1>19, <3>1
  <2>3. IsInjective(r[p].tracks) BY <1>6, <1>14, <1>15
  <2>4. \A v \in DOMAIN w : w[v].project \in DOMAIN r BY <1>1, <1>8, <1>10, <1>11, <1>12, <1>15 DEF TracksMirror
  <2> QED BY <1>17, <1>18, <2>1, <2>2, <2>3, <2>4 DEF TracksMirror
<1>22. ClipsMirror(h)
  <2>1. \A c \in DOMAIN g.clips : g.clips[c].track # t BY <1>1, <1>3 DEF ClipsMirror, Refs, None
  <2>2. {c \in DOMAIN g.clips : g.clips[c].track = t} = {} BY <2>1
  <2>3. ToSet(w[t].clips) = {} /\ IsInjective(w[t].clips) BY <1>8, <1>10 DEF ToSet, IsInjective
  <2>4. \A v \in DOMAIN w : IsInjective(w[v].clips) /\ ToSet(w[v].clips) = {c \in DOMAIN g.clips : g.clips[c].track = v}
    BY <1>1, <1>11, <1>12, <2>2, <2>3 DEF ClipsMirror, ClipsOn
  <2>5. \A c \in DOMAIN g.clips : g.clips[c].track \in DOMAIN w \cup {None} BY <1>1, <1>12 DEF ClipsMirror, Refs
  <2> QED BY <1>17, <2>4, <2>5 DEF ClipsMirror, ClipsOn, Refs
<1>23. MediaMirror(h)
  <2>1. ASSUME NEW c \in DOMAIN g.clips, g.clips[c].track # None
        PROVE  g.clips[c].resource \in MediaOf(h, w[g.clips[c].track].project) \cup {None}
    <3>1. g.clips[c].track \in DOMAIN g.tracks BY <1>1, <2>1 DEF ClipsMirror, Refs
    <3>2. w[g.clips[c].track].project = g.tracks[g.clips[c].track].project /\ g.tracks[g.clips[c].track].project \in DOMAIN r
      BY <1>1, <1>11, <1>15, <3>1 DEF TracksMirror
    <3> QED BY <1>1, <1>18, <2>1, <3>2 DEF MediaMirror
  <2>2. \A q \in DOMAIN r : MediaOf(h, q) \subseteq DOMAIN g.resources BY <1>1, <1>15, <1>18 DEF MediaMirror
  <2> QED BY <1>17, <2>1, <2>2 DEF MediaMirror
<1>24. Owned(g) => Owned(h) BY <1>17 DEF Owned, TextsMirror, EffectsMirror
<1>nodes. NodesExist(h) BY <1>17 DEF Linked, NodesExist
<1>25. KeepsOwners(g, h)
  BY <1>nodes, <1>15, <1>17, <1>20, <1>21, <1>22, <1>23, <1>24 DEF KeepsOwners, Keeps, Linked
<1>26. t \in TracksOf(h, p) BY <1>19
<1>27. h.tracks[t].project = p /\ h.tracks[t].role = role BY <1>8, <1>10, <1>17
<1>28. \A i \in DOMAIN g.projects[p].tracks : i \in DOMAIN h.projects[p].tracks /\ h.projects[p].tracks[i] = g.projects[p].tracks[i]
  BY <1>6, <1>14, <1>15, <1>17
<1>29. k + 1 \in DOMAIN h.projects[p].tracks /\ h.projects[p].tracks[k + 1] = t BY <1>6, <1>14, <1>15, <1>17
<1>30. Len(h.tracks) = t /\ DOMAIN h.tracks = DOMAIN g.tracks \cup {t} /\ DOMAIN h.projects = DOMAIN g.projects BY <1>12, <1>13, <1>15, <1>17
<1> QED BY <1>3, <1>11, <1>15, <1>17, <1>18, <1>25, <1>26, <1>27, <1>28, <1>29, <1>30 DEF h, t, k

(* ImportInto: a new resource of a project *)
LEMMA ResourceImported ==
  ASSUME NEW g, Linked(g), NEW p \in DOMAIN g.projects, NEW f \in Files
  PROVE  KeepsOwners(g, ImportInto(g, p, f))
<1> DEFINE n == Len(g.resources) + 1
           x == [project |-> p, kind |-> f.kind, duration |-> f.duration]
           w == Append(g.resources, x)
           l == Append(g.projects[p].resources, n)
           y == [g.projects[p] EXCEPT !.resources = l]
           r == [g.projects EXCEPT ![p] = y]
           h == ImportInto(g, p, f)
<1>1. g \in Graphs /\ TracksMirror(g) /\ ClipsMirror(g) /\ MediaMirror(g) BY DEF Linked
<1>2. /\ g.projects \in Seq(ProjectNodes) /\ g.projects[p] \in ProjectNodes /\ g.resources \in Seq(ResourceNodes)
      /\ p \in Nat
  BY <1>1, GraphFields
<1>3. x \in ResourceNodes BY <1>2, TimelineAssumption DEF ResourceNodes
<1>4. n \in Nat /\ w \in Seq(ResourceNodes) /\ DOMAIN w = 1..n /\ DOMAIN g.resources = 1..(n - 1) BY <1>2, <1>3, AppendedKeeps
<1>5. DOMAIN g.resources \subseteq DOMAIN w /\ n \in DOMAIN w BY <1>2, <1>4
<1>6. l \in Seq(Nat) /\ ToSet(l) = MediaOf(g, p) \cup {n}
  <2>1. g.projects[p].resources \in Seq(Nat) BY <1>2 DEF ProjectNodes
  <2> HIDE DEF n
  <2> QED BY <1>4, <2>1, AppendedKeeps DEF MediaOf
<1> HIDE DEF x, l
<1>7. /\ y \in ProjectNodes /\ y.resources = l /\ y.tracks = g.projects[p].tracks
      /\ y.video = g.projects[p].video /\ y.audio = g.projects[p].audio
  BY <1>2, <1>6 DEF ProjectNodes
<1> HIDE DEF y
<1>8. r \in Seq(ProjectNodes) /\ DOMAIN r = DOMAIN g.projects /\ r[p] = y /\ \A q \in DOMAIN g.projects : q # p => r[q] = g.projects[q]
  BY <1>2, <1>7, ReplacedKeeps
<1>9. h = [g EXCEPT !.resources = w, !.projects = r] BY DEF ImportInto, x, y, l
<1> HIDE DEF w, r, h, n
<1>10. /\ h \in Graphs /\ h.projects = r /\ h.resources = w /\ h.tracks = g.tracks /\ h.clips = g.clips
       /\ h.texts = g.texts /\ h.effects = g.effects
  BY <1>1, <1>4, <1>8, <1>9 DEF Graphs
<1>11. \A q \in DOMAIN r : /\ TracksOf(h, q) = TracksOf(g, q) /\ r[q].tracks = g.projects[q].tracks
                           /\ r[q].video = g.projects[q].video /\ r[q].audio = g.projects[q].audio
  BY <1>7, <1>8, <1>10 DEF TracksOf
<1>12. \A q \in DOMAIN r : MediaOf(g, q) \subseteq MediaOf(h, q) /\ MediaOf(h, q) \subseteq MediaOf(g, q) \cup {n}
  BY <1>6, <1>7, <1>8, <1>10 DEF MediaOf
<1>13. PrimaryTracks(g) => PrimaryTracks(h) BY <1>8, <1>10, <1>11 DEF PrimaryTracks
<1>14. TracksMirror(h) BY <1>1, <1>8, <1>10, <1>11 DEF TracksMirror
<1>15. ClipsMirror(h) BY <1>1, <1>10 DEF ClipsMirror, ClipsOn, Refs
<1>16. MediaMirror(h)
  <2>1. \A q \in DOMAIN r : MediaOf(h, q) \subseteq DOMAIN w BY <1>1, <1>5, <1>8, <1>12 DEF MediaMirror
  <2>2. \A c \in DOMAIN g.clips : g.clips[c].track # None => g.tracks[g.clips[c].track].project \in DOMAIN r
    BY <1>1, <1>8 DEF ClipsMirror, TracksMirror, Refs
  <2>3. \A c \in DOMAIN g.clips : g.clips[c].track # None =>
           g.clips[c].resource \in MediaOf(h, g.tracks[g.clips[c].track].project) \cup {None}
    BY <1>1, <1>12, <2>2 DEF MediaMirror
  <2> QED BY <1>10, <2>1, <2>3 DEF MediaMirror
<1>17. Owned(g) => Owned(h) BY <1>10 DEF Owned, TextsMirror, EffectsMirror
<1>nodes. NodesExist(h) BY <1>10, <1>5 DEF Linked, NodesExist, Refs
<1> QED BY <1>nodes, <1>8, <1>10, <1>13, <1>14, <1>15, <1>16, <1>17 DEF KeepsOwners, Keeps, Linked, h

(* CreateProjectIn: a new project and its two tracks, which are its primary tracks only once     *)
(* both are there.                                                                            *)
LEMMA ProjectCreated ==
  ASSUME NEW g, Linked(g)
  PROVE  KeepsOwners(g, CreateProjectIn(g)) /\ DOMAIN CreateProjectIn(g).projects = DOMAIN g.projects \cup {Len(g.projects) + 1}
<1> DEFINE p == Len(g.projects) + 1
           t == Len(g.tracks) + 1
           y == [tracks |-> <<>>, resources |-> <<>>, video |-> t, audio |-> t + 1]
           r == Append(g.projects, y)
           e == [g EXCEPT !.projects = r]
           f == AddTrackTo(e, p, "video", "normal")
           h == AddTrackTo(f, p, "audio", "normal")
<1>0. CreateProjectIn(g) = h BY DEF CreateProjectIn
<1>1. g \in Graphs /\ TracksMirror(g) /\ ClipsMirror(g) /\ MediaMirror(g) BY DEF Linked
<1>2. g.projects \in Seq(ProjectNodes) /\ g.tracks \in Seq(TrackNodes) BY <1>1, GraphFields
<1>3. p \in Nat \ {0} /\ t \in Nat /\ DOMAIN g.projects = 1..(p - 1) BY <1>2
<1>4. y \in ProjectNodes /\ y.tracks = <<>> /\ y.resources = <<>> /\ y.video = t /\ y.audio = t + 1
  <2> HIDE DEF t
  <2> QED BY <1>3 DEF ProjectNodes
<1>5. r \in Seq(ProjectNodes) /\ DOMAIN r = 1..p /\ r[p] = y /\ \A q \in DOMAIN g.projects : r[q] = g.projects[q]
  <2> HIDE DEF y
  <2> QED BY <1>2, <1>4, AppendedKeeps
<1> HIDE DEF r, y
<1>6. DOMAIN r = DOMAIN g.projects \cup {p} /\ p \notin DOMAIN g.projects BY <1>3, <1>5
<1>7. /\ e \in Graphs /\ e.projects = r /\ e.tracks = g.tracks /\ e.clips = g.clips
      /\ e.texts = g.texts /\ e.effects = g.effects /\ e.resources = g.resources
  BY <1>1, <1>5 DEF Graphs
<1> HIDE DEF p, t, e, f, h
<1>8. TracksOf(e, p) = {} /\ MediaOf(e, p) = {} /\ IsInjective(r[p].tracks)
  BY <1>4, <1>5, <1>7 DEF TracksOf, MediaOf, ToSet, IsInjective
<1>9. \A q \in DOMAIN g.projects : TracksOf(e, q) = TracksOf(g, q) /\ MediaOf(e, q) = MediaOf(g, q) /\ r[q] = g.projects[q]
  BY <1>5, <1>7 DEF TracksOf, MediaOf
<1>10. TracksMirror(e)
  <2>1. {v \in DOMAIN g.tracks : g.tracks[v].project = p} = {} BY <1>1, <1>6 DEF TracksMirror
  <2>2. \A q \in DOMAIN r : IsInjective(r[q].tracks) /\ TracksOf(e, q) = {v \in DOMAIN g.tracks : g.tracks[v].project = q}
    BY <1>1, <1>6, <1>8, <1>9, <2>1 DEF TracksMirror
  <2>3. \A v \in DOMAIN g.tracks : g.tracks[v].project \in DOMAIN r BY <1>1, <1>6 DEF TracksMirror
  <2> QED BY <1>7, <2>2, <2>3 DEF TracksMirror
<1>11. ClipsMirror(e) BY <1>1, <1>7 DEF ClipsMirror, ClipsOn, Refs
<1>12. MediaMirror(e)
  <2>1. \A c \in DOMAIN g.clips : g.clips[c].track # None => g.tracks[g.clips[c].track].project \in DOMAIN g.projects
    BY <1>1 DEF ClipsMirror, TracksMirror, Refs
  <2>2. \A q \in DOMAIN r : MediaOf(e, q) \subseteq DOMAIN g.resources BY <1>1, <1>6, <1>8, <1>9 DEF MediaMirror
  <2>3. \A c \in DOMAIN g.clips : g.clips[c].track # None =>
           g.clips[c].resource \in MediaOf(e, g.tracks[g.clips[c].track].project) \cup {None}
    BY <1>1, <1>9, <2>1 DEF MediaMirror
  <2> QED BY <1>7, <2>2, <2>3 DEF MediaMirror
<1>13. Owned(g) => Owned(e) BY <1>7 DEF Owned, TextsMirror, EffectsMirror
<1>nodes. NodesExist(e) BY <1>7 DEF Linked, NodesExist
<1>14. Linked(e) /\ p \in DOMAIN e.projects BY <1>nodes, <1>6, <1>7, <1>10, <1>11, <1>12 DEF Linked
<1>15. /\ KeepsOwners(e, f) /\ DOMAIN f.projects = DOMAIN r /\ Len(f.tracks) = t /\ t \in TracksOf(f, p) /\ f.clips = g.clips
       /\ \A q \in DOMAIN r : /\ f.projects[q].video = r[q].video /\ f.projects[q].audio = r[q].audio
                              /\ TracksOf(e, q) \subseteq TracksOf(f, q)
  BY <1>7, <1>14, TrackAdded DEF f, t
<1>16. Linked(f) /\ p \in DOMAIN f.projects BY <1>6, <1>15 DEF KeepsOwners, Keeps
<1>17. /\ KeepsOwners(f, h) /\ DOMAIN h.projects = DOMAIN r /\ t + 1 \in TracksOf(h, p) /\ h.clips = g.clips
       /\ \A q \in DOMAIN r : /\ h.projects[q].video = f.projects[q].video /\ h.projects[q].audio = f.projects[q].audio
                              /\ TracksOf(f, q) \subseteq TracksOf(h, q)
  <2>1. f.tracks \in Seq(TrackNodes) /\ t = Len(f.tracks) BY <1>15, <1>16, GraphFields DEF Linked
  <2> QED BY <1>15, <1>16, <2>1, TrackAdded DEF h
<1>18. PrimaryTracks(g) => PrimaryTracks(h)
  <2>1. {h.projects[p].video, h.projects[p].audio} \subseteq TracksOf(h, p) BY <1>4, <1>5, <1>6, <1>15, <1>17
  <2>2. ASSUME PrimaryTracks(g), NEW q \in DOMAIN g.projects
        PROVE  {h.projects[q].video, h.projects[q].audio} \subseteq TracksOf(h, q)
    <3>1. /\ h.projects[q].video = g.projects[q].video /\ h.projects[q].audio = g.projects[q].audio
          /\ TracksOf(g, q) \subseteq TracksOf(h, q)
      BY <1>6, <1>9, <1>15, <1>17
    <3> QED BY <2>2, <3>1 DEF PrimaryTracks
  <2> QED BY <1>6, <1>17, <2>1, <2>2 DEF PrimaryTracks
<1>19. Owned(g) => Owned(h) BY <1>13, <1>15, <1>17 DEF KeepsOwners
<1>20. Linked(h) BY <1>17 DEF KeepsOwners, Keeps
<1> QED BY <1>0, <1>6, <1>17, <1>18, <1>19, <1>20 DEF KeepsOwners, Keeps, p

(* No track has a clip twice in its list. *)
Distinct(g) == \A u \in DOMAIN g.tracks : IsInjective(g.tracks[u].clips)

(* The nodes but for the tracks and the clips *)
SameOthers(g, h) ==
  h \in Graphs /\ h.projects = g.projects /\ h.texts = g.texts /\ h.effects = g.effects /\ h.resources = g.resources

(* The clip c is off the lists of the tracks T. *)
Taken(g, h, T, c) ==
  /\ SameOthers(g, h) /\ h.clips = g.clips /\ DOMAIN h.tracks = DOMAIN g.tracks
  /\ \A u \in DOMAIN g.tracks :
       /\ h.tracks[u].project = g.tracks[u].project /\ IsInjective(h.tracks[u].clips)
       /\ ClipsOn(h, u) = IF u \in T THEN ClipsOn(g, u) \ {c} ELSE ClipsOn(g, u)

(* Without takes a clip off the lists of some tracks. *)
LEMMA ClipTaken ==
  ASSUME NEW g \in Graphs, Distinct(g), NEW T, NEW c
  PROVE  Taken(g, Without(g, T, c), T, c)
<1> DEFINE h == Without(g, T, c)
           y(u) == [g.tracks[u] EXCEPT !.clips = Except(@, c)]
           w == [u \in DOMAIN g.tracks |-> IF u \in T THEN y(u) ELSE g.tracks[u]]
<1>1. /\ g.tracks \in Seq(TrackNodes) /\ \A u \in DOMAIN g.tracks : g.tracks[u] \in TrackNodes
      /\ \A u \in DOMAIN g.tracks : IsInjective(g.tracks[u].clips)
  BY GraphFields DEF Distinct
<1>2. ASSUME NEW u \in DOMAIN g.tracks
      PROVE  /\ y(u) \in TrackNodes /\ y(u).project = g.tracks[u].project
             /\ IsInjective(y(u).clips) /\ ToSet(y(u).clips) = ToSet(g.tracks[u].clips) \ {c}
  <2>1. g.tracks[u].clips \in Seq(Nat) BY <1>1 DEF TrackNodes
  <2> DEFINE l == Except(g.tracks[u].clips, c)
  <2>2. l \in Seq(Nat) /\ ToSet(l) = ToSet(g.tracks[u].clips) \ {c} /\ IsInjective(l) BY <1>1, <2>1, ExceptKeeps
  <2> HIDE DEF l
  <2>3. [g.tracks[u] EXCEPT !.clips = l] \in TrackNodes /\ [g.tracks[u] EXCEPT !.clips = l].clips = l
        /\ [g.tracks[u] EXCEPT !.clips = l].project = g.tracks[u].project
    BY <1>1, <2>2 DEF TrackNodes
  <2> QED BY <2>2, <2>3 DEF l
<1> HIDE DEF y
<1>3. \A u \in DOMAIN g.tracks : w[u] \in TrackNodes BY <1>1, <1>2
<1>4. w \in Seq(TrackNodes) /\ DOMAIN w = DOMAIN g.tracks
  <2>1. DOMAIN g.tracks = 1..Len(g.tracks) /\ Len(g.tracks) \in Nat BY <1>1
  <2>2. DOMAIN w = DOMAIN g.tracks /\ w = [u \in DOMAIN g.tracks |-> w[u]] OBVIOUS
  <2> HIDE DEF w
  <2> QED BY <1>3, <2>1, <2>2
<1>5. h = [g EXCEPT !.tracks = w] BY DEF Without, y
<1>6. \A u \in DOMAIN g.tracks : /\ w[u].project = g.tracks[u].project /\ IsInjective(w[u].clips)
                                 /\ ToSet(w[u].clips) = IF u \in T THEN ToSet(g.tracks[u].clips) \ {c} ELSE ToSet(g.tracks[u].clips)
  BY <1>1, <1>2
<1> HIDE DEF w, h
<1>7. /\ h \in Graphs /\ h.tracks = w /\ h.projects = g.projects /\ h.clips = g.clips /\ h.texts = g.texts
      /\ h.effects = g.effects /\ h.resources = g.resources
  BY <1>4, <1>5 DEF Graphs
<1> QED BY <1>4, <1>6, <1>7 DEF Taken, SameOthers, ClipsOn, h

(* The clip c is on the track t, or on none, and in no other list. *)
Relinked(g, h, c, t) ==
  /\ SameOthers(g, h) /\ h.clips = [g.clips EXCEPT ![c].track = t] /\ DOMAIN h.tracks = DOMAIN g.tracks
  /\ \A u \in DOMAIN g.tracks :
       /\ h.tracks[u].project = g.tracks[u].project /\ IsInjective(h.tracks[u].clips)
       /\ ClipsOn(h, u) = IF u = t THEN ClipsOn(g, u) \cup {c} ELSE ClipsOn(g, u) \ {c}

(* A clip that leaves its track, for another or for none *)
LEMMA ClipRelinked ==
  ASSUME NEW g, Linked(g), NEW c \in DOMAIN g.clips, NEW t \in Refs(g.tracks),
         t = None \/ g.clips[c].resource \in MediaOf(g, g.tracks[t].project) \cup {None}, NEW h, Relinked(g, h, c, t)
  PROVE  KeepsOwners(g, h)
<1>0. /\ h \in Graphs /\ h.projects = g.projects /\ h.texts = g.texts /\ h.effects = g.effects /\ h.resources = g.resources
      /\ h.clips = [g.clips EXCEPT ![c].track = t] /\ DOMAIN h.tracks = DOMAIN g.tracks
      /\ \A u \in DOMAIN g.tracks :
           /\ h.tracks[u].project = g.tracks[u].project /\ IsInjective(h.tracks[u].clips)
           /\ ClipsOn(h, u) = IF u = t THEN ClipsOn(g, u) \cup {c} ELSE ClipsOn(g, u) \ {c}
  BY DEF Relinked, SameOthers
<1>1. g \in Graphs /\ TracksMirror(g) /\ ClipsMirror(g) /\ MediaMirror(g) BY DEF Linked
<1>2. g.clips[c] \in ClipNodes /\ c \in DOMAIN g.clips BY <1>1, GraphFields
<1>3. /\ DOMAIN h.clips = DOMAIN g.clips /\ h.clips[c].track = t /\ \A d \in DOMAIN g.clips : d # c => h.clips[d] = g.clips[d]
      /\ h.clips[c].text = g.clips[c].text /\ h.clips[c].resource = g.clips[c].resource /\ h.clips[c].effects = g.clips[c].effects
  BY <1>0, <1>2 DEF ClipNodes
<1>4. PrimaryTracks(g) => PrimaryTracks(h) BY <1>0 DEF PrimaryTracks, TracksOf
<1>5. TracksMirror(h)
  <2>1. ASSUME NEW p PROVE {v \in DOMAIN h.tracks : h.tracks[v].project = p} = {v \in DOMAIN g.tracks : g.tracks[v].project = p}
    BY <1>0
  <2>2. \A v \in DOMAIN h.tracks : h.tracks[v].project \in DOMAIN h.projects BY <1>0, <1>1 DEF TracksMirror
  <2> QED BY <1>0, <1>1, <2>1, <2>2 DEF TracksMirror, TracksOf
<1>6. ClipsMirror(h)
  <2>1. \A d \in DOMAIN h.clips : h.clips[d].track \in Refs(h.tracks) BY <1>0, <1>1, <1>3 DEF ClipsMirror, Refs
  <2>2. ASSUME NEW u \in DOMAIN g.tracks PROVE ClipsOn(h, u) = {d \in DOMAIN h.clips : h.clips[d].track = u}
    <3>1. ClipsOn(g, u) = {d \in DOMAIN g.clips : g.clips[d].track = u} BY <1>1 DEF ClipsMirror
    <3>2. CASE u = t BY <1>0, <1>2, <1>3, <3>1, <3>2
    <3>3. CASE u # t BY <1>0, <1>2, <1>3, <3>1, <3>3
    <3> QED BY <3>2, <3>3
  <2> QED BY <1>0, <2>1, <2>2 DEF ClipsMirror
<1>7. MediaMirror(h)
  <2>1. \A p : MediaOf(h, p) = MediaOf(g, p) BY <1>0 DEF MediaOf
  <2>2. ASSUME NEW d \in DOMAIN g.clips, h.clips[d].track # None
        PROVE  h.clips[d].resource \in MediaOf(g, h.tracks[h.clips[d].track].project) \cup {None}
    <3>1. CASE d = c BY <1>0, <1>3, <2>2, <3>1 DEF Refs
    <3>2. CASE d # c
      <4>1. h.clips[d] = g.clips[d] /\ g.clips[d].track \in DOMAIN g.tracks BY <1>1, <1>3, <2>2, <3>2 DEF ClipsMirror, Refs
      <4> QED BY <1>0, <1>1, <2>2, <4>1 DEF MediaMirror
    <3> QED BY <3>1, <3>2
  <2>3. \A p \in DOMAIN h.projects : MediaOf(h, p) \subseteq DOMAIN h.resources BY <1>0, <1>1, <2>1 DEF MediaMirror
  <2>4. \A d \in DOMAIN h.clips : h.clips[d].track # None =>
          h.clips[d].resource \in MediaOf(h, h.tracks[h.clips[d].track].project) \cup {None}
    BY <1>3, <2>1, <2>2
  <2> QED BY <2>3, <2>4 DEF MediaMirror
<1>8. ASSUME Owned(g) PROVE Owned(h)
  <2>1. \A d \in DOMAIN g.clips : h.clips[d].text = g.clips[d].text /\ h.clips[d].effects = g.clips[d].effects BY <1>0, <1>3
  <2>2. TextsMirror(h)
    <3>1. ASSUME NEW x PROVE {d \in DOMAIN h.clips : h.clips[d].text = x} = {d \in DOMAIN g.clips : g.clips[d].text = x}
      BY <1>0, <1>3, <2>1
    <3> QED BY <1>0, <1>3, <1>8, <2>1, <3>1 DEF Owned, TextsMirror, Refs
  <2>3. EffectsMirror(h) BY <1>0, <1>3, <1>8, <2>1 DEF Owned, EffectsMirror
  <2> QED BY <1>0, <2>2, <2>3 DEF Owned
<1>nodes. NodesExist(h) BY <1>0, <1>3 DEF Linked, NodesExist, Refs
<1> QED BY <1>nodes, <1>0, <1>3, <1>4, <1>5, <1>6, <1>7, <1>8 DEF KeepsOwners, Keeps, Linked

(* The clips of a graph when one of them is given a track *)
LEMMA TrackGiven ==
  ASSUME NEW g \in Graphs, NEW c \in DOMAIN g.clips, NEW t \in Nat
  PROVE  LET h == [g EXCEPT !.clips[c].track = t]
         IN SameOthers(g, h) /\ h.tracks = g.tracks /\ h.clips = [g.clips EXCEPT ![c].track = t]
<1> DEFINE y == [g.clips[c] EXCEPT !.track = t]
           u == [g.clips EXCEPT ![c] = y]
           h == [g EXCEPT !.clips[c].track = t]
<1>1. g.clips \in Seq(ClipNodes) /\ g.clips[c] \in ClipNodes BY GraphFields
<1>2. y \in ClipNodes BY <1>1 DEF ClipNodes
<1>3. u \in Seq(ClipNodes) BY <1>1, <1>2, ReplacedKeeps
<1>4. u = [g.clips EXCEPT ![c].track = t] OBVIOUS
<1>5. h = [g EXCEPT !.clips = u] OBVIOUS
<1> HIDE DEF y, u, h
<1>6. /\ h \in Graphs /\ h.clips = u /\ h.projects = g.projects /\ h.tracks = g.tracks
      /\ h.texts = g.texts /\ h.effects = g.effects /\ h.resources = g.resources
  BY <1>3, <1>5 DEF Graphs
<1> QED BY <1>4, <1>6 DEF SameOthers, h

(* RemoveClip: a clip off its track *)
LEMMA ClipRemoved ==
  ASSUME NEW g, Linked(g), NEW c \in DOMAIN g.clips
  PROVE  KeepsOwners(g, RemoveClip(g, c))
<1> DEFINE t == g.clips[c].track
           f == IF t = None THEN g ELSE Without(g, {t}, c)
           h == [f EXCEPT !.clips[c].track = None]
<1>0. RemoveClip(g, c) = h BY DEF RemoveClip
<1>1. g \in Graphs /\ ClipsMirror(g) BY DEF Linked
<1>2. Distinct(g) /\ \A u \in DOMAIN g.tracks : ClipsOn(g, u) = {d \in DOMAIN g.clips : g.clips[d].track = u}
  BY <1>1 DEF ClipsMirror, Distinct
<1>3. \A u \in DOMAIN g.tracks : u # t => c \notin ClipsOn(g, u) BY <1>2
<1>4. None \in Nat /\ None \notin DOMAIN g.tracks /\ None \in Refs(g.tracks) BY <1>1, GraphFields DEF None, Refs
<1>5. Taken(g, f, {t}, c)
  <2>1. CASE t = None
    <3>1. f = g /\ t \notin DOMAIN g.tracks BY <1>4, <2>1
    <3> HIDE DEF f, t
    <3> QED BY <1>1, <1>2, <3>1 DEF Taken, SameOthers, Distinct
  <2>2. CASE t # None
    <3>1. f = Without(g, {t}, c) BY <2>2
    <3> HIDE DEF f, t
    <3> QED BY <1>1, <1>2, <3>1, ClipTaken
  <2> QED BY <2>1, <2>2
<1> HIDE DEF f, t
<1>6. SameOthers(f, h) /\ h.tracks = f.tracks /\ h.clips = [f.clips EXCEPT ![c].track = None]
  <2>1. f \in Graphs /\ c \in DOMAIN f.clips BY <1>5 DEF Taken, SameOthers
  <2> QED BY <1>4, <2>1, TrackGiven
<1> HIDE DEF h
<1>7. Relinked(g, h, c, None)
  <2>1. SameOthers(g, h) /\ h.clips = [g.clips EXCEPT ![c].track = None] /\ DOMAIN h.tracks = DOMAIN g.tracks
    BY <1>5, <1>6 DEF Taken, SameOthers
  <2>2. ASSUME NEW u \in DOMAIN g.tracks
        PROVE  /\ h.tracks[u].project = g.tracks[u].project /\ IsInjective(h.tracks[u].clips)
               /\ ClipsOn(h, u) = ClipsOn(g, u) \ {c} /\ u # None
    <3>1. ClipsOn(f, u) = ClipsOn(g, u) \ {c} BY <1>3, <1>5 DEF Taken
    <3>2. ClipsOn(h, u) = ClipsOn(f, u) BY <1>6 DEF ClipsOn
    <3> QED BY <1>4, <1>5, <1>6, <3>1, <3>2 DEF Taken
  <2> QED BY <2>1, <2>2 DEF Relinked
<1>8. KeepsOwners(g, h) BY <1>4, <1>7, ClipRelinked
<1> QED BY <1>0, <1>8

(* MoveToTrack: a clip of the project, or one that was removed from it, to one of its tracks *)
LEMMA ClipMoved ==
  ASSUME NEW g, Linked(g), NEW p \in DOMAIN g.projects, NEW c \in DOMAIN g.clips, NEW t \in TracksOf(g, p),
         g.clips[c].track \in TracksOf(g, p) \cup {None}, g.clips[c].resource \in MediaOf(g, p) \cup {None}
  PROVE  KeepsOwners(g, MoveToTrack(g, p, c, t))
<1> DEFINE f == [g EXCEPT !.clips[c].track = t]
           w == Without(f, TracksOf(g, p), c)
           y == [w.tracks[t] EXCEPT !.clips = Append(@, c)]
           v == [w.tracks EXCEPT ![t] = y]
           h == MoveToTrack(g, p, c, t)
<1>1. g \in Graphs /\ TracksMirror(g) /\ ClipsMirror(g) BY DEF Linked
<1>2. t \in DOMAIN g.tracks /\ g.tracks[t].project = p /\ t \in Nat /\ c \in Nat BY <1>1, GraphFields DEF TracksMirror
<1>3. Distinct(g) /\ \A u \in DOMAIN g.tracks : ClipsOn(g, u) = {d \in DOMAIN g.clips : g.clips[d].track = u}
  BY <1>1 DEF ClipsMirror, Distinct
<1>4. \A u \in DOMAIN g.tracks : u \notin TracksOf(g, p) => c \notin ClipsOn(g, u)
  <2>1. None \notin DOMAIN g.tracks BY <1>1, GraphFields DEF None
  <2> QED BY <1>3, <2>1
<1>5. SameOthers(g, f) /\ f.tracks = g.tracks /\ f.clips = [g.clips EXCEPT ![c].track = t] BY <1>1, <1>2, TrackGiven
<1> HIDE DEF f
<1>6. Taken(f, w, TracksOf(g, p), c)
  <2>1. f \in Graphs /\ Distinct(f) BY <1>3, <1>5 DEF SameOthers, Distinct
  <2> QED BY <2>1, ClipTaken
<1> HIDE DEF w
<1>7. /\ SameOthers(g, w) /\ w.clips = f.clips /\ DOMAIN w.tracks = DOMAIN g.tracks
      /\ \A u \in DOMAIN g.tracks : /\ w.tracks[u].project = g.tracks[u].project /\ IsInjective(w.tracks[u].clips)
                                    /\ ClipsOn(w, u) = ClipsOn(g, u) \ {c}
  BY <1>4, <1>5, <1>6 DEF Taken, SameOthers, ClipsOn
<1>8. w \in Graphs /\ w.tracks \in Seq(TrackNodes) /\ w.tracks[t] \in TrackNodes BY <1>2, <1>7, GraphFields DEF SameOthers
<1>9. y \in TrackNodes /\ y.project = g.tracks[t].project /\ IsInjective(y.clips) /\ ToSet(y.clips) = ClipsOn(g, t) \cup {c}
  <2> DEFINE l == Append(w.tracks[t].clips, c)
  <2>1. w.tracks[t].clips \in Seq(Nat) BY <1>8 DEF TrackNodes
  <2>2. c \notin ToSet(w.tracks[t].clips) /\ IsInjective(w.tracks[t].clips) BY <1>2, <1>7 DEF ClipsOn
  <2>3. l \in Seq(Nat) /\ ToSet(l) = ToSet(w.tracks[t].clips) \cup {c} /\ IsInjective(l) BY <1>2, <2>1, <2>2, AppendedKeeps
  <2>4. y = [w.tracks[t] EXCEPT !.clips = l] OBVIOUS
  <2> HIDE DEF l, y
  <2>5. y \in TrackNodes /\ y.clips = l /\ y.project = w.tracks[t].project BY <1>8, <2>3, <2>4 DEF TrackNodes
  <2> QED BY <1>2, <1>7, <2>3, <2>5 DEF ClipsOn
<1>10. v \in Seq(TrackNodes) /\ DOMAIN v = DOMAIN g.tracks /\ v[t] = y /\ \A u \in DOMAIN g.tracks : u # t => v[u] = w.tracks[u]
  <2> HIDE DEF y
  <2> QED BY <1>2, <1>7, <1>8, <1>9, ReplacedKeeps
<1>11. h = [w EXCEPT !.clips = f.clips, !.tracks = v]
  <2>1. c \notin ClipsOn(w, t) BY <1>2, <1>7
  <2>2. h = Accept(w, t, c)
    <3>1. w = Without([g EXCEPT !.clips[c].track = t], TracksOf(g, p), c) BY DEF w, f
    <3> QED BY <3>1 DEF MoveToTrack
  <2>3. Accept(w, t, c) = [w EXCEPT !.clips[c].track = t, !.tracks[t].clips = Append(@, c)] BY <2>1 DEF Accept
  <2>4. [w.clips EXCEPT ![c].track = t] = f.clips
    <3>1. w.clips = [g.clips EXCEPT ![c].track = t] /\ g.clips[c] \in ClipNodes /\ g.clips \in Seq(ClipNodes)
      BY <1>1, <1>5, <1>7, GraphFields
    <3>2. [g.clips[c] EXCEPT !.track = t] = [[g.clips[c] EXCEPT !.track = t] EXCEPT !.track = t] BY <3>1 DEF ClipNodes
    <3> QED BY <1>5, <3>1, <3>2
  <2>5. [w EXCEPT !.clips[c].track = t, !.tracks[t].clips = Append(@, c)]
        = [w EXCEPT !.clips = [w.clips EXCEPT ![c].track = t], !.tracks = v]
    OBVIOUS
  <2> QED BY <2>2, <2>3, <2>4, <2>5
<1> HIDE DEF v, y, h
<1>12. SameOthers(g, h) /\ h.clips = [g.clips EXCEPT ![c].track = t] /\ h.tracks = v
  BY <1>5, <1>7, <1>10, <1>11 DEF SameOthers, Graphs
<1>13. Relinked(g, h, c, t) BY <1>7, <1>9, <1>10, <1>12 DEF Relinked, ClipsOn
<1>14. t \in Refs(g.tracks) /\ g.clips[c].resource \in MediaOf(g, g.tracks[t].project) \cup {None} BY <1>2 DEF Refs
<1>15. KeepsOwners(g, h) BY <1>13, <1>14, ClipRelinked
<1> QED BY <1>15 DEF h

-----------------------------------------------------------------------------
(* Times. *)

(* The greater of two *)
LEMMA MaxOfTwo ==
  ASSUME NEW a \in Int, NEW b \in Int
  PROVE  Max({a, b}) = IF a >= b THEN a ELSE b
<1> DEFINE m == CHOOSE x \in {a, b} : \A y \in {a, b} : x >= y
<1>1. \E x \in {a, b} : \A y \in {a, b} : x >= y OBVIOUS
<1>2. m \in {a, b} /\ m >= a /\ m >= b BY <1>1
<1>3. Max({a, b}) = m BY DEF Max
<1> HIDE DEF m
<1> QED BY <1>2, <1>3

(* The lesser of two *)
LEMMA MinOfTwo ==
  ASSUME NEW a \in Int, NEW b \in Int
  PROVE  Min({a, b}) = IF a <= b THEN a ELSE b
<1> DEFINE m == CHOOSE x \in {a, b} : \A y \in {a, b} : x <= y
<1>1. \E x \in {a, b} : \A y \in {a, b} : x <= y OBVIOUS
<1>2. m \in {a, b} /\ m <= a /\ m <= b BY <1>1
<1>3. Min({a, b}) = m BY DEF Min
<1> HIDE DEF m
<1> QED BY <1>2, <1>3

(* A set of natural numbers that is not empty has a least. *)
LEMMA LeastExists ==
  ASSUME NEW S \in SUBSET Nat, S # {}
  PROVE  \E x \in S : \A y \in S : x <= y
<1>0. \A y \in S : y \in Nat OBVIOUS
<1>1. PICK x \in S : \A y \in S : ~(<<y, x>> \in OpToRel(<, Nat))
  BY WFMin, NatLessThanWellFounded
<1>2. ASSUME NEW y \in S PROVE x <= y
  <2>1. x \in Nat /\ y \in Nat BY <1>0
  <2>2. ~(y < x) BY <1>1, <2>1 DEF OpToRel
  <2> QED BY <2>1, <2>2
<1> QED BY <1>2

(* Finitely many times have a greatest, or 0 is above them all. *)
LEMMA GreatestExists ==
  ASSUME NEW n \in Nat, NEW f \in [1..n -> Int]
  PROVE  \E b \in Int : b \in {0} \cup {f[i] : i \in 1..n} /\ b >= 0 /\ \A i \in 1..n : f[i] <= b
<1> DEFINE Greatest(k, b) == b \in Int /\ b \in {0} \cup {f[i] : i \in 1..k} /\ b >= 0 /\ \A i \in 1..k : f[i] <= b
           S == {k \in Nat : k <= n /\ ~\E b \in Int : Greatest(k, b)}
<1>1. SUFFICES S = {}
  <2>1. n \notin S BY <1>1
  <2> QED BY <2>1
<1>2. SUFFICES ASSUME S # {} PROVE FALSE OBVIOUS
<1>3. PICK k \in S : \A y \in S : k <= y BY <1>2, LeastExists
<1>4. Greatest(0, 0) OBVIOUS
<1>5. k \in Nat /\ k <= n /\ ~\E b \in Int : Greatest(k, b) BY <1>3
<1>6. k # 0 BY <1>4, <1>5
<1>7. k - 1 \in Nat /\ k - 1 <= n /\ ~(k <= k - 1) BY <1>5, <1>6
<1>8. PICK b \in Int : Greatest(k - 1, b) BY <1>3, <1>7
<1>9. k \in 1..n /\ f[k] \in Int /\ \A i \in 1..k : i \in 1..n /\ f[i] \in Int /\ (i = k \/ i \in 1..(k - 1))
  BY <1>5, <1>6
<1>10. CASE f[k] <= b
  <2>1. b \in {0} \cup {f[i] : i \in 1..k} /\ \A i \in 1..k : f[i] <= b BY <1>5, <1>8, <1>9, <1>10
  <2>2. Greatest(k, b) BY <1>8, <2>1
  <2> QED BY <1>5, <2>2
<1>11. CASE ~(f[k] <= b)
  <2>1. f[k] >= 0 /\ \A i \in 1..k : f[i] <= f[k] BY <1>8, <1>9, <1>11
  <2>2. Greatest(k, f[k]) BY <1>5, <1>6, <1>9, <2>1
  <2> QED BY <1>5, <1>9, <2>2
<1> QED BY <1>10, <1>11

(* AppendStart is the greatest end of a clip of the track, or 0. *)
LEMMA AppendStartIsLast ==
  ASSUME NEW g \in Graphs, ClipsMirror(g), NEW t \in DOMAIN g.tracks
  PROVE  AppendStart(g, t) \in Nat /\ \A c \in ClipsOn(g, t) : End(g.clips[c]) \in Int /\ End(g.clips[c]) <= AppendStart(g, t)
<1> DEFINE s == g.tracks[t].clips
           n == Len(s)
           f == [i \in 1..n |-> End(g.clips[s[i]])]
           E == {0} \cup {End(g.clips[c]) : c \in ClipsOn(g, t)}
<1>1. s \in Seq(Nat) BY GraphFields DEF TrackNodes
<1>2. n \in Nat /\ DOMAIN s = 1..n BY <1>1
<1>3. \A c \in ClipsOn(g, t) : c \in DOMAIN g.clips BY DEF ClipsMirror
<1>4. \A c \in ClipsOn(g, t) : End(g.clips[c]) \in Int
  <2>1. SUFFICES ASSUME NEW c \in ClipsOn(g, t) PROVE End(g.clips[c]) \in Int OBVIOUS
  <2>2. g.clips[c] \in ClipNodes BY <1>3, GraphFields
  <2>3. g.clips[c].start \in Int /\ g.clips[c].duration \in Int BY <2>2 DEF ClipNodes
  <2> QED BY <2>3 DEF End
<1>5. ClipsOn(g, t) = {s[i] : i \in 1..n} BY <1>2 DEF ClipsOn, ToSet
<1> HIDE DEF s, n
<1>6. f \in [1..n -> Int] BY <1>4, <1>5
<1>7. {End(g.clips[c]) : c \in ClipsOn(g, t)} = {f[i] : i \in 1..n} BY <1>5
<1>8. PICK b \in Int : b \in {0} \cup {f[i] : i \in 1..n} /\ b >= 0 /\ \A i \in 1..n : f[i] <= b
  <2> HIDE DEF f
  <2> QED BY <1>2, <1>6, GreatestExists
<1>9. b \in E /\ \A e \in E : e \in Int /\ b >= e
  <2>1. \A e \in {f[i] : i \in 1..n} : e \in Int /\ b >= e BY <1>6, <1>8
  <2> QED BY <1>7, <1>8, <2>1
<1> HIDE DEF E, f
<1>10. Max(E) \in E /\ \A e \in E : Max(E) >= e BY <1>9 DEF Max
<1>11. Max(E) \in Nat
  <2>1. Max(E) \in Int /\ Max(E) >= b BY <1>9, <1>10
  <2> HIDE DEF f
  <2>2. b \in Int /\ b >= 0 BY <1>8
  <2> QED BY <2>1, <2>2
<1>12. AppendStart(g, t) = Max(E) BY DEF AppendStart, E
<1>13. \A c \in ClipsOn(g, t) : End(g.clips[c]) \in E BY DEF E
<1> QED BY <1>4, <1>10, <1>11, <1>12, <1>13

(* Rounding and clamping give times. *)
LEMMA Times ==
  /\ \A x \in Int : Round(x) \in Int
  /\ \A v, low, high \in Int : Clamp(v, low, high) \in Int
<1>1. \A x \in Int : Round(x) \in Int BY DEF Round
<1>2. ASSUME NEW v \in Int, NEW low \in Int, NEW high \in Int PROVE Clamp(v, low, high) \in Int
  <2>1. Max({low, v}) \in Int BY MaxOfTwo
  <2>2. Min({high, Max({low, v})}) \in Int BY <2>1, MinOfTwo
  <2> QED BY <2>2 DEF Clamp
<1> QED BY <1>1, <1>2

(* The durations that are constants *)
LEMMA Durations == MinDuration \in Int /\ MaxDuration \in Int /\ TextDuration \in Int /\ Moments \subseteq Int /\ Deltas \subseteq Int
BY TimelineAssumption

-----------------------------------------------------------------------------
(* What changes the times of a clip leaves its relations. *)
Times3 == [start : Int, in : Int, duration : Int]
SameLinks(x, y) == y \in ClipNodes /\ y.track = x.track /\ y.resource = x.resource /\ y.text = x.text /\ y.effects = x.effects

(* Times written to a clip *)
LEMMA TimesWritten ==
  ASSUME NEW x \in ClipNodes, NEW t \in Times3
  PROVE  SameLinks(x, Retimed(x, t)) /\ Timing(x) \in Times3
BY DEF ClipNodes, Times3, Retimed, SameLinks, Timing

(* A clip moved *)
LEMMA ClipShifted ==
  ASSUME NEW x \in ClipNodes, NEW d \in Int
  PROVE  SameLinks(x, Moved(x, d))
<1> DEFINE s == Max({0, Round(x.start + d)})
<1>1. s \in Int
  <2>1. x.start + d \in Int BY DEF ClipNodes
  <2>2. Round(x.start + d) \in Int BY <2>1, Times
  <2> QED BY <2>2, MaxOfTwo
<1>2. Moved(x, d) = [x EXCEPT !.start = s] BY DEF Moved
<1> HIDE DEF s
<1> QED BY <1>1, <1>2 DEF ClipNodes, SameLinks

(* A clip trimmed at one of its edges *)
LEMMA ClipTrimmed ==
  ASSUME NEW x \in ClipNodes, NEW d \in Int, NEW edge
  PROVE  SameLinks(x, Resized(x, edge, d))
<1>1. x.start \in Int /\ x.in \in Int /\ x.duration \in Int BY DEF ClipNodes
<1>2. CASE edge = "end"
  <2> DEFINE n == Clamp(Round(x.duration + d), MinDuration, MaxDuration)
  <2>1. x.duration + d \in Int BY <1>1
  <2>2. n \in Int BY <2>1, Times, Durations
  <2>3. Resized(x, edge, d) = [x EXCEPT !.duration = n] BY <1>2 DEF Resized
  <2> HIDE DEF n
  <2> QED BY <2>2, <2>3 DEF ClipNodes, SameLinks
<1>3. CASE edge # "end"
  <2> DEFINE m == Max({0, x.start - x.in})
             s == Clamp(Round(x.start + d), m, End(x) - MinDuration)
             i == Round(x.in + (s - x.start))
             n == Round(End(x) - s)
  <2>1. x.start - x.in \in Int /\ x.start + d \in Int /\ End(x) \in Int /\ End(x) - MinDuration \in Int BY <1>1, Durations DEF End
  <2>2. m \in Int /\ Round(x.start + d) \in Int
    <3> DEFINE e == x.start - x.in
    <3> HIDE DEF e
    <3>1. Max({0, e}) \in Int BY <2>1, MaxOfTwo DEF e
    <3> QED BY <2>1, <3>1, Times DEF e
  <2>3. s \in Int
    <3> HIDE DEF m
    <3> QED BY <2>1, <2>2, Times
  <2>4. Resized(x, edge, d) = [x EXCEPT !.start = s, !.in = i, !.duration = n] BY <1>3 DEF Resized
  <2> HIDE DEF s
  <2>5. x.in + (s - x.start) \in Int /\ End(x) - s \in Int BY <1>1, <2>1, <2>3
  <2>6. i \in Int /\ n \in Int BY <2>5, Times
  <2> HIDE DEF i, n
  <2> QED BY <2>3, <2>4, <2>6 DEF ClipNodes, SameLinks
<1> QED BY <1>2, <1>3

(* A clip that changes but for its relations *)
LEMMA ClipKept ==
  ASSUME NEW g, Linked(g), NEW c \in DOMAIN g.clips, NEW x, SameLinks(g.clips[c], x)
  PROVE  KeepsOwners(g, [g EXCEPT !.clips[c] = x])
<1>1. x \in ClipNodes /\ x.track = g.clips[c].track /\ x.resource = g.clips[c].resource /\ x.text = g.clips[c].text
  BY DEF SameLinks
<1>2. ToSet(x.effects) \subseteq ToSet(g.clips[c].effects) BY DEF SameLinks
<1> QED BY <1>1, <1>2, ClipChanged

-----------------------------------------------------------------------------
(* What makes clips. *)

(* The clip x is new in h, and the rest is there as before. *)
Made(g, h, x) ==
  /\ KeepsOwners(g, h) /\ h.projects = g.projects /\ h.clips = Append(g.clips, x) /\ DOMAIN h.tracks = DOMAIN g.tracks
  /\ \A t \in DOMAIN g.tracks : h.tracks[t].project = g.tracks[t].project

(* A clip with no text and no effects *)
LEMMA NewClipMade ==
  ASSUME NEW g, Linked(g), NEW t \in DOMAIN g.tracks, NEW r \in MediaOf(g, g.tracks[t].project) \cup {None},
         NEW kind \in {"video", "audio", "image", "text"}, NEW start \in Int, NEW duration \in Int
  PROVE  LET x == NewClip(t, r, kind, start, duration)
         IN /\ x \in ClipNodes /\ x.text = None
            /\ Made(g, AddClip(g, x), x)
<1> DEFINE x == NewClip(t, r, kind, start, duration)
<1>1. g \in Graphs /\ TracksMirror(g) /\ MediaMirror(g) BY DEF Linked
<1>2. t \in Nat /\ r \in Nat
  <2>1. t \in Nat BY <1>1, GraphFields
  <2>2. DOMAIN g.resources \subseteq Nat BY <1>1, GraphFields
  <2>3. g.tracks[t].project \in DOMAIN g.projects BY <1>1 DEF TracksMirror
  <2>4. MediaOf(g, g.tracks[t].project) \subseteq DOMAIN g.resources BY <1>1, <2>3 DEF MediaMirror
  <2> QED BY <2>1, <2>2, <2>4 DEF None
<1>3. /\ x = [track |-> t, resource |-> r, text |-> None, kind |-> kind, start |-> start, in |-> 0, duration |-> duration,
              fadeIn |-> 0, fadeOut |-> 0, effects |-> <<>>, look |-> "plain"]
  BY DEF NewClip
<1>4. "plain" \in Looks /\ <<>> \in Seq(Nat) /\ None \in Nat BY TimelineAssumption DEF None
<1> HIDE DEF x
<1>5. x \in ClipNodes BY <1>2, <1>3, <1>4 DEF ClipNodes
<1>6. /\ x.track = t /\ x.resource = r /\ x.text = None /\ x.effects = <<>> /\ x.text \in Refs(g.texts)
  BY <1>3 DEF Refs
<1>7. x.track \in DOMAIN g.tracks /\ x.resource \in MediaOf(g, g.tracks[x.track].project) \cup {None} BY <1>6
<1> QED BY <1>5, <1>6, <1>7, ClipAdded DEF Made, x

(* The primary tracks of a project are tracks of it. *)
LEMMA PrimaryTracksExist ==
  ASSUME NEW g, Linked(g), PrimaryTracks(g), NEW p \in DOMAIN g.projects
  PROVE  /\ g.projects[p].video \in DOMAIN g.tracks /\ g.tracks[g.projects[p].video].project = p
         /\ g.projects[p].audio \in DOMAIN g.tracks /\ g.tracks[g.projects[p].audio].project = p
BY DEF Linked, PrimaryTracks, TracksMirror

(* AddTextClip *)
LEMMA TextClipAdded ==
  ASSUME NEW g, Linked(g), PrimaryTracks(g), NEW p \in DOMAIN g.projects
  PROVE  KeepsOwners(g, AddTextClip(g, p))
<1> DEFINE t == g.projects[p].video
           x == NewClip(t, None, "text", 0, TextDuration)
           f == AddClip(g, x)
           h == LinkText(f, "plain")
<1>0. AddTextClip(g, p) = h BY DEF AddTextClip
<1>1. t \in DOMAIN g.tracks BY PrimaryTracksExist
<1>2. None \in MediaOf(g, g.tracks[t].project) \cup {None} /\ TextDuration \in Int BY Durations
<1>3. x \in ClipNodes /\ x.text = None /\ KeepsOwners(g, f) /\ f.clips = Append(g.clips, x)
  <2>1. "text" \in {"video", "audio", "image", "text"} /\ 0 \in Int OBVIOUS
  <2> HIDE DEF t
  <2>2. x \in ClipNodes /\ x.text = None /\ Made(g, AddClip(g, x), x) BY <1>1, <1>2, <2>1, NewClipMade
  <2> QED BY <2>2 DEF Made
<1> HIDE DEF x, f
<1>4. g.clips \in Seq(ClipNodes) BY GraphFields DEF Linked
<1>5. f.clips # <<>> /\ f.clips[Len(f.clips)].text = None BY <1>3, <1>4
<1>6. Linked(f) /\ "plain" \in Looks BY <1>3, TimelineAssumption DEF KeepsOwners, Keeps
<1>7. KeepsOwners(f, h) BY <1>5, <1>6, TextLinked
<1> QED BY <1>0, <1>3, <1>7, KeepsTransitive

(* AppendResource *)
LEMMA ResourceAppended ==
  ASSUME NEW g, Linked(g), PrimaryTracks(g), NEW p \in DOMAIN g.projects, NEW r \in MediaOf(g, p)
  PROVE  KeepsOwners(g, AppendResource(g, p, r))
<1> DEFINE v == g.projects[p].video
           a == g.projects[p].audio
           file == g.resources[r]
           both == Max({AppendStart(g, v), AppendStart(g, a)})
           x == NewClip(v, r, "video", both, file.duration)
           y == NewClip(a, r, "audio", both, file.duration)
           f == AddClip(g, x)
           image == AddClip(g, NewClip(v, r, "image", both, file.duration))
           sound == AddClip(g, NewClip(a, r, "audio", AppendStart(g, a), file.duration))
<1>1. g \in Graphs /\ ClipsMirror(g) /\ MediaMirror(g) BY DEF Linked
<1>2. v \in DOMAIN g.tracks /\ g.tracks[v].project = p /\ a \in DOMAIN g.tracks /\ g.tracks[a].project = p
  BY PrimaryTracksExist
<1>3. file.duration \in Int /\ file.kind \in {"video", "audio", "image"}
  <2>1. r \in DOMAIN g.resources BY <1>1 DEF MediaMirror
  <2>2. file \in ResourceNodes BY <1>1, <2>1, GraphFields
  <2> QED BY <2>2 DEF ResourceNodes
<1>4. AppendStart(g, a) \in Int /\ both \in Int
  <2>1. AppendStart(g, v) \in Int /\ AppendStart(g, a) \in Int BY <1>1, <1>2, AppendStartIsLast
  <2> QED BY <2>1, MaxOfTwo
<1>5. /\ file.kind = "audio" => AppendResource(g, p, r) = sound
      /\ file.kind = "image" => AppendResource(g, p, r) = image
      /\ file.kind = "video" => AppendResource(g, p, r) = AddClip(f, y)
  BY DEF AppendResource
<1> HIDE DEF v, a, file, both
<1>6. KeepsOwners(g, sound)
  <2>1. "audio" \in {"video", "audio", "image", "text"} OBVIOUS
  <2> QED BY <1>2, <1>3, <1>4, <2>1, NewClipMade DEF Made
<1>7. KeepsOwners(g, image)
  <2>1. "image" \in {"video", "audio", "image", "text"} OBVIOUS
  <2> QED BY <1>2, <1>3, <1>4, <2>1, NewClipMade DEF Made
<1>8. /\ KeepsOwners(g, f) /\ f.projects = g.projects /\ DOMAIN f.tracks = DOMAIN g.tracks
      /\ \A u \in DOMAIN g.tracks : f.tracks[u].project = g.tracks[u].project
  <2>1. "video" \in {"video", "audio", "image", "text"} OBVIOUS
  <2>2. Made(g, f, x) BY <1>2, <1>3, <1>4, <2>1, NewClipMade
  <2> QED BY <2>2 DEF Made
<1> HIDE DEF f
<1>9. KeepsOwners(f, AddClip(f, y))
  <2>1. Linked(f) /\ a \in DOMAIN f.tracks /\ f.tracks[a].project = p BY <1>2, <1>8 DEF KeepsOwners, Keeps
  <2>2. MediaOf(f, p) = MediaOf(g, p) BY <1>8 DEF MediaOf
  <2>3. "audio" \in {"video", "audio", "image", "text"} OBVIOUS
  <2>4. Made(f, AddClip(f, y), y) BY <1>3, <1>4, <2>1, <2>2, <2>3, NewClipMade
  <2> QED BY <2>4 DEF Made
<1>10. KeepsOwners(g, AddClip(f, y)) BY <1>8, <1>9, KeepsTransitive
<1> QED BY <1>3, <1>5, <1>6, <1>7, <1>10

(* EmbedAudio *)
LEMMA AudioEmbedded ==
  ASSUME NEW g, Linked(g), PrimaryTracks(g), NEW p \in DOMAIN g.projects, NEW r \in MediaOf(g, p)
  PROVE  KeepsOwners(g, EmbedAudio(g, p, r))
<1> DEFINE a == g.projects[p].audio
           h == AddClip(g, NewClip(a, r, "audio", AppendStart(g, a), g.resources[r].duration))
<1>1. g \in Graphs /\ ClipsMirror(g) /\ MediaMirror(g) BY DEF Linked
<1>2. a \in DOMAIN g.tracks /\ g.tracks[a].project = p BY PrimaryTracksExist
<1>3. g.resources[r].duration \in Int
  <2>1. r \in DOMAIN g.resources BY <1>1 DEF MediaMirror
  <2>2. g.resources[r] \in ResourceNodes BY <1>1, <2>1, GraphFields
  <2> QED BY <2>2 DEF ResourceNodes
<1>4. AppendStart(g, a) \in Int BY <1>1, <1>2, AppendStartIsLast
<1>5. EmbedAudio(g, p, r) \in {g, h} BY DEF EmbedAudio
<1> HIDE DEF a
<1>6. KeepsOwners(g, h)
  <2>1. "audio" \in {"video", "audio", "image", "text"} OBVIOUS
  <2> QED BY <1>2, <1>3, <1>4, <2>1, NewClipMade DEF Made
<1> QED BY <1>5, <1>6, KeepsSelf

(* Split: the left part, and the right part with its text *)
LEMMA ClipSplit ==
  ASSUME NEW g, Linked(g), NEW c \in DOMAIN g.clips, NEW time \in Int
  PROVE  KeepsOwners(g, Split(g, c, time))
<1> DEFINE x == g.clips[c]
           left == Round(time - x.start)
           cut == Round(x.start + left)
           y == [x EXCEPT !.duration = left]
           f == [g EXCEPT !.clips[c].duration = left]
           z == RightPart(x, cut)
           h == AddClip(f, z)
<1>1. g \in Graphs /\ ClipsMirror(g) /\ MediaMirror(g) /\ NodesExist(g) BY DEF Linked
<1>2. g.clips \in Seq(ClipNodes) /\ x \in ClipNodes BY <1>1, GraphFields
<1>3. x.start \in Int /\ x.in \in Int /\ x.duration \in Int BY <1>2 DEF ClipNodes
<1>4. left \in Int /\ cut \in Int
  <2>1. time - x.start \in Int BY <1>3
  <2>2. left \in Int BY <2>1, Times
  <2> HIDE DEF left
  <2>3. x.start + left \in Int BY <1>3, <2>2
  <2> QED BY <2>2, <2>3, Times
<1>5. Split(g, c, time) \in {g, f} \/ (x.track # None /\ Split(g, c, time) = CutTo(f, z, x.text)) BY DEF Split
<1> HIDE DEF left, cut
<1>6. SameLinks(x, y) BY <1>2, <1>4 DEF ClipNodes, SameLinks
<1>7. KeepsOwners(g, f)
  <2>1. f = [g EXCEPT !.clips[c] = y] OBVIOUS
  <2> HIDE DEF y, f
  <2> QED BY <1>6, <2>1, ClipKept
<1>8. ASSUME x.track # None PROVE KeepsOwners(g, CutTo(f, z, x.text))
  <2>1. Linked(f) /\ DOMAIN f.clips = DOMAIN g.clips BY <1>7 DEF KeepsOwners, Keeps
  <2>2. f.tracks = g.tracks /\ f.projects = g.projects /\ f.texts = g.texts BY <1>1 DEF Graphs
  <2>3. z \in ClipNodes /\ z.track = x.track /\ z.resource = x.resource /\ z.text = None /\ z.effects = <<>>
    <3>1. End(x) - cut \in Int /\ x.in + (cut - x.start) \in Int BY <1>3, <1>4 DEF End
    <3>2. None \in Nat BY DEF None
    <3> DEFINE n == End(x) - cut
               i == x.in + (cut - x.start)
               e == <<>>
               w == [x EXCEPT !.start = cut, !.in = i, !.duration = n]
               f0 == [w EXCEPT !.fadeIn = 0]
               b == [f0 EXCEPT !.effects = e]
    <3>3. z = [b EXCEPT !.text = None] BY DEF RightPart
    <3>4. e \in Seq(Nat) OBVIOUS
    <3> HIDE DEF z, n, i, e
    <3>5. n \in Int /\ i \in Int BY <3>1 DEF n, i
    <3>6. w \in ClipNodes /\ w.track = x.track /\ w.resource = x.resource BY <1>2, <1>4, <3>5 DEF ClipNodes
    <3> HIDE DEF w, x
    <3>made. f0 \in ClipNodes /\ f0.track = w.track /\ f0.resource = w.resource BY <3>6 DEF ClipNodes
    <3> HIDE DEF f0
    <3>7. b \in ClipNodes /\ b.track = w.track /\ b.resource = w.resource /\ b.effects = e BY <3>4, <3>made DEF ClipNodes
    <3> HIDE DEF b
    <3>8. z \in ClipNodes /\ z.track = b.track /\ z.resource = b.resource /\ z.text = None /\ z.effects = e
      BY <3>2, <3>3, <3>7 DEF ClipNodes
    <3> QED BY <3>6, <3>7, <3>8 DEF e
  <2>4. x.track \in DOMAIN g.tracks /\ x.resource \in MediaOf(g, g.tracks[x.track].project) \cup {None}
    BY <1>1, <1>8 DEF ClipsMirror, MediaMirror, Refs
  <2>5. MediaOf(f, g.tracks[x.track].project) = MediaOf(g, g.tracks[x.track].project) BY <2>2 DEF MediaOf
  <2> HIDE DEF x, z, f
  <2>6. z.track \in DOMAIN f.tracks /\ z.resource \in MediaOf(f, f.tracks[z.track].project) \cup {None} /\ z.text \in Refs(f.texts)
    BY <2>2, <2>3, <2>4, <2>5 DEF Refs
  <2>7. KeepsOwners(f, h) /\ h.clips = Append(f.clips, z) BY <2>1, <2>3, <2>6, ClipAdded
  <2>8. CASE x.text = None
    <3>1. CutTo(f, z, x.text) = h BY <2>8 DEF CutTo
    <3> QED BY <1>7, <2>7, <3>1, KeepsTransitive
  <2>9. CASE x.text # None
    <3> DEFINE l == f.texts[x.text].content
    <3>1. CutTo(f, z, x.text) = LinkText(h, l) BY <2>9 DEF CutTo
    <3>2. l \in Looks
      <4>1. x.text \in DOMAIN f.texts BY <1>1, <2>2, <2>9 DEF NodesExist, Refs, x
      <4>2. f.texts[x.text] \in TextNodes BY <2>1, <4>1, GraphFields DEF Linked
      <4> QED BY <4>2 DEF TextNodes
    <3>3. h.clips # <<>> /\ h.clips[Len(h.clips)].text = None
      <4>1. f.clips \in Seq(ClipNodes) BY <2>1, GraphFields DEF Linked
      <4> QED BY <2>3, <2>7, <4>1
    <3>4. Linked(h) BY <2>7 DEF KeepsOwners, Keeps
    <3> HIDE DEF h, l
    <3>5. KeepsOwners(h, LinkText(h, l)) BY <3>2, <3>3, <3>4, TextLinked
    <3> QED BY <1>7, <2>7, <3>1, <3>5, KeepsTransitive
  <2> QED BY <2>8, <2>9
<1> QED BY <1>5, <1>7, <1>8, KeepsSelf

(* The clip a review makes of a variant *)
LEMMA VariantMade ==
  ASSUME NEW x \in ClipNodes, NEW t \in Nat
  PROVE  LET z == Variant(x, t) IN z \in ClipNodes /\ z.track = t /\ z.resource = x.resource /\ z.text = None /\ z.effects = <<>>
<1> DEFINE e == <<>>
           a == [x EXCEPT !.track = t]
           b == [a EXCEPT !.text = None]
           z == [b EXCEPT !.effects = e]
<1>1. Variant(x, t) = z BY DEF Variant
<1>2. e \in Seq(Nat) /\ None \in Nat BY DEF None
<1>3. a \in ClipNodes /\ a.track = t /\ a.resource = x.resource BY DEF ClipNodes
<1> HIDE DEF e, a
<1>4. b \in ClipNodes /\ b.track = t /\ b.resource = x.resource /\ b.text = None BY <1>2, <1>3 DEF ClipNodes
<1> HIDE DEF b
<1>5. z \in ClipNodes /\ z.track = t /\ z.resource = x.resource /\ z.text = None /\ z.effects = e BY <1>2, <1>4 DEF ClipNodes
<1> QED BY <1>1, <1>5 DEF e

(* A variant put on a track of the project its media is of *)
LEMMA VariantAdded ==
  ASSUME NEW g, Linked(g), NEW x \in ClipNodes, NEW t \in DOMAIN g.tracks,
         x.resource \in MediaOf(g, g.tracks[t].project) \cup {None}
  PROVE  KeepsOwners(g, AddClip(g, Variant(x, t)))
<1>1. g.tracks \in Seq(TrackNodes) BY GraphFields DEF Linked
<1>2. t \in Nat BY <1>1
<1> DEFINE z == Variant(x, t)
<1>3. z \in ClipNodes /\ z.track = t /\ z.resource = x.resource /\ z.text = None /\ z.effects = <<>> BY <1>2, VariantMade
<1>4. z.text \in Refs(g.texts) BY <1>3 DEF Refs
<1> HIDE DEF z
<1>5. z.track \in DOMAIN g.tracks /\ z.resource \in MediaOf(g, g.tracks[z.track].project) \cup {None} BY <1>3
<1>6. z.text = None /\ z.effects = <<>> => KeepsOwners(g, AddClip(g, z)) BY <1>3, <1>4, <1>5, ClipAdded
<1> QED BY <1>3, <1>6 DEF z

(* The review tracks of a project are tracks of it. *)
LEMMA ReviewTracksExist ==
  ASSUME NEW g, Linked(g), NEW p \in DOMAIN g.projects, NEW role
  PROVE  /\ ReviewTracks(g, p, role) # <<>> => Head(ReviewTracks(g, p, role)) \in TracksOf(g, p)
         /\ (\E i \in DOMAIN g.projects[p].tracks : g.tracks[g.projects[p].tracks[i]].role = role)
              => ReviewTracks(g, p, role) # <<>>
<1> DEFINE tracks == g.projects[p].tracks
           I == {i \in DOMAIN tracks : g.tracks[tracks[i]].role = role}
           s == Only(tracks, I)
<1>1. tracks \in Seq(Nat)
  <2>1. g.projects[p] \in ProjectNodes BY GraphFields DEF Linked
  <2> QED BY <2>1 DEF ProjectNodes
<1>2. I \in SUBSET DOMAIN tracks OBVIOUS
<1>3. ReviewTracks(g, p, role) = s BY DEF ReviewTracks
<1>4. TracksOf(g, p) = ToSet(tracks) BY DEF TracksOf
<1>5. I # {} <=> \E i \in DOMAIN tracks : g.tracks[tracks[i]].role = role OBVIOUS
<1> HIDE DEF I, tracks
<1>6. s \in Seq(Nat) /\ ToSet(s) = {tracks[i] : i \in I} /\ (s = <<>> <=> I = {}) BY <1>1, <1>2, Filtered
<1>7. ToSet(s) \subseteq ToSet(tracks) BY <1>2, <1>6 DEF ToSet
<1> HIDE DEF s
<1>8. s # <<>> => Head(s) \in ToSet(s) BY <1>6 DEF ToSet
<1> QED BY <1>3, <1>4, <1>5, <1>6, <1>7, <1>8 DEF tracks

(* ParkEdited: a variant on the review track of the project, which is made if there is none *)
LEMMA EditedParked ==
  ASSUME NEW g, Linked(g), NEW p \in DOMAIN g.projects, NEW c \in DOMAIN g.clips,
         g.clips[c].resource \in MediaOf(g, p) \cup {None}
  PROVE  KeepsOwners(g, ParkEdited(g, p, c))
<1> DEFINE x == g.clips[c]
           kind == ReviewKind(x)
           role == "incomingReview"
           f == AddTrackTo(g, p, kind, role)
           g1 == IF ReviewTracks(g, p, role) # <<>> THEN g ELSE f
           t == Head(ReviewTracks(g1, p, role))
<1>1. ParkEdited(g, p, c) = AddClip(g1, Variant(x, t)) BY DEF ParkEdited
<1>2. x \in ClipNodes BY GraphFields DEF Linked
<1>3. kind \in {"video", "audio"} /\ role \in {"normal", "incomingReview", "currentReview"} BY DEF ReviewKind
<1> HIDE DEF x, kind, role
<1>4. /\ KeepsOwners(g, f) /\ DOMAIN f.projects = DOMAIN g.projects
      /\ MediaOf(f, p) = MediaOf(g, p)
      /\ \E i \in DOMAIN f.projects[p].tracks : f.tracks[f.projects[p].tracks[i]].role = role
  <2> DEFINE n == Len(g.projects[p].tracks) + 1
             u == Len(g.tracks) + 1
  <2>1. /\ KeepsOwners(g, f) /\ DOMAIN f.projects = DOMAIN g.projects
        /\ \A q \in DOMAIN g.projects : MediaOf(f, q) = MediaOf(g, q)
    BY <1>3, TrackAdded
  <2>2. f.tracks[u].role = role BY <1>3, TrackAdded
  <2>3. n \in DOMAIN f.projects[p].tracks BY <1>3, TrackAdded
  <2>4. f.projects[p].tracks[n] = u BY <1>3, TrackAdded
  <2> HIDE DEF n, u, f
  <2>5. f.tracks[f.projects[p].tracks[n]].role = role BY <2>2, <2>4
  <2> QED BY <2>1, <2>3, <2>5
<1> HIDE DEF f
<1>5. KeepsOwners(g, g1) /\ p \in DOMAIN g1.projects /\ MediaOf(g1, p) = MediaOf(g, p) /\ ReviewTracks(g1, p, role) # <<>>
  <2>1. CASE ReviewTracks(g, p, role) # <<>> BY <2>1, KeepsSelf
  <2>2. CASE ReviewTracks(g, p, role) = <<>>
    <3>1. Linked(f) /\ p \in DOMAIN f.projects BY <1>4 DEF KeepsOwners, Keeps
    <3>2. ReviewTracks(f, p, role) # <<>> BY <1>4, <3>1, ReviewTracksExist
    <3> QED BY <1>4, <2>2, <3>1, <3>2
  <2> QED BY <2>1, <2>2
<1> HIDE DEF g1
<1>6. Linked(g1) /\ TracksMirror(g1) BY <1>5 DEF KeepsOwners, Keeps, Linked
<1>7. t \in TracksOf(g1, p) BY <1>5, <1>6, ReviewTracksExist
<1>8. t \in DOMAIN g1.tracks /\ g1.tracks[t].project = p BY <1>5, <1>6, <1>7 DEF TracksMirror
<1> HIDE DEF t
<1>9. x.resource \in MediaOf(g1, g1.tracks[t].project) \cup {None} BY <1>5, <1>8 DEF x
<1>10. KeepsOwners(g1, AddClip(g1, Variant(x, t))) BY <1>2, <1>6, <1>8, <1>9, VariantAdded
<1> QED BY <1>1, <1>5, <1>10, KeepsTransitive

(* ParkIncoming: the clip with its new times, and a clip of its text and effects on a new review *)
(* track                                                                                       *)
LEMMA IncomingParked ==
  ASSUME NEW g, Linked(g), NEW p \in DOMAIN g.projects, NEW c \in ClipsIn(g, p), NEW source \in Times3, NEW parked \in Times3
  PROVE  Keeps(g, ParkIncoming(g, p, c, source, parked))
<1> DEFINE x == g.clips[c]
           kind == ReviewKind(x)
           role == "incomingReview"
           f == [g EXCEPT !.clips[c] = Retimed(@, source)]
           h == AddTrackTo(f, p, kind, role)
           t == Len(h.tracks)
           y == Retimed(x, parked)
           z == [y EXCEPT !.track = t]
<1>1. ParkIncoming(g, p, c, source, parked) = AddClip(h, z) BY DEF ParkIncoming
<1>2. g \in Graphs /\ TracksMirror(g) /\ ClipsMirror(g) /\ MediaMirror(g) /\ NodesExist(g) BY DEF Linked
<1>3. c \in DOMAIN g.clips /\ x.resource \in MediaOf(g, p) \cup {None} /\ x.text \in Refs(g.texts)
  <2>1. PICK u \in TracksOf(g, p) : c \in ClipsOn(g, u) BY DEF ClipsIn
  <2>2. u \in DOMAIN g.tracks /\ g.tracks[u].project = p BY <1>2, <2>1 DEF TracksMirror
  <2>3. c \in DOMAIN g.clips /\ x.track = u BY <1>2, <2>1, <2>2 DEF ClipsMirror
  <2>4. u # None BY <1>2, <2>2, GraphFields DEF None
  <2> QED BY <1>2, <2>2, <2>3, <2>4 DEF MediaMirror, NodesExist
<1>4. x \in ClipNodes BY <1>2, <1>3, GraphFields
<1>5. SameLinks(x, Retimed(x, source)) /\ SameLinks(x, y) BY <1>4, TimesWritten
<1>6. kind \in {"video", "audio"} /\ role \in {"normal", "incomingReview", "currentReview"} BY DEF ReviewKind
<1>7. Keeps(g, f) /\ f.projects = g.projects /\ f.texts = g.texts
  <2> DEFINE w == Retimed(x, source)
  <2>1. f = [g EXCEPT !.clips[c] = w] OBVIOUS
  <2>2. f.projects = g.projects /\ f.texts = g.texts BY <1>2 DEF Graphs
  <2> HIDE DEF w, f
  <2>3. KeepsOwners(g, f) BY <1>3, <1>5, <2>1, ClipKept DEF w
  <2> QED BY <2>2, <2>3 DEF KeepsOwners
<1> HIDE DEF f, kind, role, y
<1>8. MediaOf(f, p) = MediaOf(g, p) BY <1>7 DEF MediaOf
<1>9. Linked(f) /\ p \in DOMAIN f.projects BY <1>7 DEF Keeps
<1>10. /\ KeepsOwners(f, h) /\ h.texts = f.texts /\ MediaOf(h, p) = MediaOf(f, p)
       /\ t \in Nat /\ t \in DOMAIN h.tracks /\ h.tracks[t].project = p
  <2> DEFINE n == Len(f.tracks) + 1
  <2>1. /\ KeepsOwners(f, h) /\ h.texts = f.texts /\ \A q \in DOMAIN f.projects : MediaOf(h, q) = MediaOf(f, q)
        /\ n \in Nat /\ DOMAIN h.tracks = DOMAIN f.tracks \cup {n} /\ Len(h.tracks) = n /\ h.tracks[n].project = p
    BY <1>6, <1>9, TrackAdded
  <2> HIDE DEF h, n
  <2> QED BY <1>9, <2>1
<1> HIDE DEF h, t, x
<1>11. z \in ClipNodes /\ z.track = t /\ z.resource = x.resource /\ z.text = x.text
  <2>1. y \in ClipNodes /\ y.resource = x.resource /\ y.text = x.text BY <1>5 DEF SameLinks
  <2> QED BY <1>10, <2>1 DEF ClipNodes
<1> HIDE DEF z
<1>12. z.track \in DOMAIN h.tracks /\ z.resource \in MediaOf(h, h.tracks[z.track].project) \cup {None}
  BY <1>3, <1>8, <1>10, <1>11
<1>13. z.text \in Refs(h.texts) BY <1>3, <1>7, <1>10, <1>11
<1>14. Linked(h) /\ Keeps(f, h) BY <1>10 DEF KeepsOwners, Keeps
<1>15. Keeps(h, AddClip(h, z)) BY <1>11, <1>12, <1>13, <1>14, ClipAdded
<1> QED BY <1>1, <1>7, <1>14, <1>15, KeepsTransitive

-----------------------------------------------------------------------------
(* The commands. *)

(* What a tab holds: times, and references to nodes that stay in the graph. *)
Drags == [clip : Nat, kind : {"move", "start", "end"}, original : Times3, current : Times3, final : {<<>>} \cup Times3]
SessionRoots == [project : Nat, selected : Nat, cursor : Int, playing : BOOLEAN, drag : {<<>>} \cup Drags]

SessionOf(g, s) ==
  /\ s \in SessionRoots /\ s.project \in Refs(g.projects)
  /\ s.drag # <<>> => s.drag.clip \in DOMAIN g.clips

Sessions == session \in [Tabs -> SessionRoots] /\ \A tab \in Tabs : SessionOf(graph, session[tab])

(* The inductive invariant *)
Mirrored ==
  /\ scene \in Scenes /\ Linked(graph) /\ PrimaryTracks(graph) /\ Sessions
  /\ "parkIncomingVariantOnReviewTrack" \notin scene.commands => Owned(graph)

(* What a session holds stays in a graph that grows. *)
LEMMA SessionStays ==
  ASSUME NEW g, NEW h, Keeps(g, h), NEW s, SessionOf(g, s)
  PROVE  SessionOf(h, s)
BY DEF Keeps, SessionOf, Refs

(* Whether the store takes a change or not, the relations stay. *)
LEMMA ChangeKeeps ==
  ASSUME Linked(graph), NEW g, KeepsOwners(graph, g), Becomes(g)
  PROVE  KeepsOwners(graph, graph')
BY KeepsSelf DEF Becomes

(* A command to a node that keeps the relations keeps the invariant. *)
LEMMA EditKeeps ==
  ASSUME Mirrored, NEW command, NEW g, KeepsOwners(graph, g), Edit(command, g)
  PROVE  Mirrored'
<1>1. scene' = scene /\ session' = session /\ Becomes(g) BY DEF Edit, Run
<1>2. KeepsOwners(graph, graph') BY <1>1, ChangeKeeps DEF Mirrored
<1>3. Keeps(graph, graph') BY <1>2 DEF KeepsOwners
<1>4. \A tab \in Tabs : SessionOf(graph', session[tab]) BY <1>3, SessionStays DEF Mirrored, Sessions
<1> QED BY <1>1, <1>2, <1>3, <1>4 DEF Mirrored, Sessions, KeepsOwners, Keeps

(* So does a command to a session root that keeps them. *)
LEMMA SetKeeps ==
  ASSUME Mirrored, NEW command, NEW tab \in Tabs, NEW s, Set(command, tab, s), KeepsOwners(graph, graph'), SessionOf(graph', s)
  PROVE  Mirrored'
<1>1. scene' = scene BY DEF Set, Run
<1>2. Keeps(graph, graph') BY DEF KeepsOwners
<1>3. ASSUME NEW u \in Tabs PROVE session'[u] \in SessionRoots /\ SessionOf(graph', session'[u])
  <2>1. SessionOf(graph', session[u]) BY <1>2, SessionStays DEF Mirrored, Sessions
  <2>2. s \in SessionRoots /\ session[u] \in SessionRoots BY <2>1 DEF SessionOf
  <2> DEFINE r == [s EXCEPT !.drag = session[u].drag]
  <2>3. session'[u] \in {s, session[u], r} BY DEF Set
  <2>4. r \in SessionRoots /\ r.project = s.project /\ r.drag = session[u].drag BY <2>2 DEF SessionRoots
  <2> HIDE DEF r
  <2>5. SessionOf(graph', r) BY <2>1, <2>4 DEF SessionOf
  <2> QED BY <2>1, <2>2, <2>3, <2>4, <2>5
<1>4. session' \in [Tabs -> SessionRoots]
  <2>1. DOMAIN session' = Tabs /\ session' = [u \in Tabs |-> session'[u]] BY DEF Set
  <2> QED BY <1>3, <2>1
<1> QED BY <1>1, <1>2, <1>3, <1>4 DEF Mirrored, Sessions, KeepsOwners, Keeps

(* The fields of a session root that commands set *)
LEMMA SessionFields ==
  ASSUME NEW g, NEW s, SessionOf(g, s)
  PROVE  /\ \A p \in Refs(g.projects) : p \in Nat => SessionOf(g, Opened(s, p))
         /\ \A c \in Nat : SessionOf(g, [s EXCEPT !.selected = c])
         /\ \A m \in Int : SessionOf(g, [s EXCEPT !.cursor = m])
         /\ SessionOf(g, [s EXCEPT !.playing = ~@])
         /\ \A d \in {<<>>} \cup Drags : (d # <<>> => d.clip \in DOMAIN g.clips) => SessionOf(g, [s EXCEPT !.drag = d])
<1>1. s \in SessionRoots /\ s.project \in Refs(g.projects) /\ (s.drag # <<>> => s.drag.clip \in DOMAIN g.clips) BY DEF SessionOf
<1>2. ASSUME NEW p \in Refs(g.projects), p \in Nat PROVE SessionOf(g, Opened(s, p))
  <2> DEFINE a == [s EXCEPT !.project = p]
             b == [a EXCEPT !.selected = None]
  <2>1. Opened(s, p) = [b EXCEPT !.cursor = 0] BY DEF Opened
  <2>2. a \in SessionRoots /\ a.project = p /\ a.drag = s.drag BY <1>1, <1>2 DEF SessionRoots
  <2> HIDE DEF a
  <2>3. b \in SessionRoots /\ b.project = p /\ b.drag = s.drag BY <2>2 DEF SessionRoots, None
  <2> HIDE DEF b
  <2> QED BY <1>1, <2>1, <2>3 DEF SessionOf, SessionRoots
<1>3. ASSUME NEW c \in Nat PROVE SessionOf(g, [s EXCEPT !.selected = c]) BY <1>1 DEF SessionOf, SessionRoots
<1>4. ASSUME NEW m \in Int PROVE SessionOf(g, [s EXCEPT !.cursor = m]) BY <1>1 DEF SessionOf, SessionRoots
<1>5. SessionOf(g, [s EXCEPT !.playing = ~@])
  <2> DEFINE b == ~s.playing
             r == [s EXCEPT !.playing = b]
  <2>1. b \in BOOLEAN OBVIOUS
  <2> HIDE DEF b
  <2>2. SessionOf(g, r) BY <1>1, <2>1 DEF SessionOf, SessionRoots
  <2> QED BY <2>2 DEF b
<1>6. ASSUME NEW d \in {<<>>} \cup Drags, d # <<>> => d.clip \in DOMAIN g.clips
      PROVE  SessionOf(g, [s EXCEPT !.drag = d])
  <2> DEFINE r == [s EXCEPT !.drag = d]
  <2>1. r \in SessionRoots /\ r.project = s.project /\ r.drag = d BY <1>1 DEF SessionRoots
  <2> HIDE DEF r
  <2>2. SessionOf(g, r) BY <1>1, <1>6, <2>1 DEF SessionOf
  <2> QED BY <2>2 DEF r
<1> QED BY <1>2, <1>3, <1>4, <1>5, <1>6

(* What the invariant says of a tab *)
LEMMA TabHolds ==
  ASSUME Mirrored, NEW tab \in Tabs
  PROVE  /\ Linked(graph) /\ PrimaryTracks(graph) /\ graph \in Graphs /\ KeepsOwners(graph, graph)
         /\ session[tab] \in SessionRoots /\ SessionOf(graph, session[tab])
         /\ Active(tab) \in Refs(graph.projects) /\ session[tab].cursor \in Int /\ session[tab].selected \in Nat
         /\ Selected(tab) # None => Selected(tab) \in DOMAIN graph.clips
<1>1. Linked(graph) /\ PrimaryTracks(graph) BY DEF Mirrored
<1>2. graph \in Graphs /\ KeepsOwners(graph, graph) BY <1>1, KeepsSelf DEF Linked
<1>3. session[tab] \in SessionRoots /\ SessionOf(graph, session[tab]) BY DEF Mirrored, Sessions
<1>4. Active(tab) \in Refs(graph.projects) BY <1>3 DEF SessionOf, Active
<1>5. session[tab].cursor \in Int /\ session[tab].selected \in Nat BY <1>3 DEF SessionRoots
<1>6. ASSUME Selected(tab) # None PROVE Selected(tab) \in DOMAIN graph.clips
  <2>1. Active(tab) \in DOMAIN graph.projects /\ Selected(tab) \in ClipsIn(graph, Active(tab))
    BY <1>4, <1>6 DEF Selected, Refs
  <2>2. PICK t \in TracksOf(graph, Active(tab)) : Selected(tab) \in ClipsOn(graph, t) BY <2>1 DEF ClipsIn
  <2>3. t \in DOMAIN graph.tracks BY <1>1, <2>1, <2>2 DEF Linked, TracksMirror
  <2> QED BY <1>1, <2>2, <2>3 DEF Linked, ClipsMirror
<1> QED BY <1>1, <1>2, <1>3, <1>4, <1>5, <1>6

(* What opens, creates and shows projects *)
LEMMA OpeningKeeps ==
  ASSUME Mirrored, NEW tab \in Tabs,
         \/ HandleInit(tab) \/ CreateProject(tab) \/ TogglePlayback(tab)
         \/ \E p \in Projects : SetActiveProject(tab, p)
         \/ \E c \in Clips : SelectEntity(tab, c)
         \/ \E m \in Moments : SetCursor(tab, m) \/ TickPlayback(tab, m)
  PROVE  Mirrored'
<1> DEFINE s == session[tab]
           n == Len(graph.projects) + 1
           h == CreateProjectIn(graph)
<1>1. /\ graph \in Graphs /\ KeepsOwners(graph, graph) /\ s \in SessionRoots /\ SessionOf(graph, s) /\ s.cursor \in Int
      /\ Linked(graph)
  BY TabHolds
<1>2. KeepsOwners(graph, h) /\ DOMAIN h.projects = DOMAIN graph.projects \cup {n} BY <1>1, ProjectCreated
<1>3. graph.projects \in Seq(ProjectNodes) /\ graph.clips \in Seq(ClipNodes) BY <1>1, GraphFields
<1>4. n \in Nat /\ (graph.projects = <<>> => n = 1) /\ (graph.projects # <<>> => 1 \in DOMAIN graph.projects) /\ None \in Nat
  BY <1>3 DEF None
<1>5. SessionOf(h, s) BY <1>1, <1>2, SessionStays DEF KeepsOwners
<1> HIDE DEF h, n, s
<1>6. CASE HandleInit(tab)
  <2>1. PICK ready \in BOOLEAN :
          LET create == Active(tab) = None /\ graph.projects = <<>> /\ ready
              next == IF Active(tab) # None THEN s ELSE Opened(s, IF graph.projects # <<>> \/ create THEN 1 ELSE None)
          IN Set("handleInit", tab, next) /\ graph' = IF create THEN h ELSE graph
    BY <1>6 DEF HandleInit, s, h
  <2> DEFINE create == Active(tab) = None /\ graph.projects = <<>> /\ ready
             q == IF graph.projects # <<>> \/ create THEN 1 ELSE None
             next == IF Active(tab) # None THEN s ELSE Opened(s, q)
  <2>2. Set("handleInit", tab, next) /\ graph' = IF create THEN h ELSE graph BY <2>1
  <2>3. KeepsOwners(graph, graph') BY <1>1, <1>2, <2>2
  <2>4. SessionOf(graph', s) BY <1>1, <1>5, <2>2
  <2>5. q \in Refs(graph'.projects) /\ q \in Nat BY <1>2, <1>4, <2>2 DEF Refs
  <2> HIDE DEF create, q
  <2>6. SessionOf(graph', Opened(s, q)) BY <2>4, <2>5, SessionFields
  <2>7. SessionOf(graph', next) BY <2>4, <2>6
  <2> HIDE DEF next
  <2> QED BY <2>2, <2>3, <2>7, SetKeeps
<1>7. CASE CreateProject(tab)
  <2>1. Set("createProject", tab, Opened(s, n)) /\ graph' = h BY <1>7 DEF CreateProject, s, n, h
  <2>2. n \in Refs(h.projects) BY <1>2 DEF Refs
  <2>3. SessionOf(h, Opened(s, n)) BY <1>4, <1>5, <2>2, SessionFields
  <2> QED BY <1>2, <2>1, <2>3, SetKeeps
<1>8. CASE TogglePlayback(tab)
  <2> DEFINE r == [s EXCEPT !.playing = ~@]
  <2>1. Set("togglePlayback", tab, r) /\ graph' = graph BY <1>8 DEF TogglePlayback, s
  <2>2. SessionOf(graph, r) BY <1>1, SessionFields
  <2> HIDE DEF r
  <2> QED BY <1>1, <2>1, <2>2, SetKeeps
<1>9. CASE \E p \in Projects : SetActiveProject(tab, p)
  <2>1. PICK p \in Projects : SetActiveProject(tab, p) BY <1>9
  <2>2. Set("setActiveProject", tab, Opened(s, p)) /\ graph' = graph BY <2>1 DEF SetActiveProject, s
  <2>3. p \in Refs(graph.projects) /\ p \in Nat BY <1>3 DEF Refs, Projects
  <2>4. SessionOf(graph, Opened(s, p)) BY <1>1, <2>3, SessionFields
  <2> QED BY <1>1, <2>2, <2>4, SetKeeps
<1>10. CASE \E c \in Clips : SelectEntity(tab, c)
  <2>1. PICK c \in Clips : SelectEntity(tab, c) BY <1>10
  <2> DEFINE r == [s EXCEPT !.selected = c]
  <2>2. Set("selectEntity", tab, r) /\ graph' = graph BY <2>1 DEF SelectEntity, s
  <2>3. c \in Nat BY <1>3 DEF Clips
  <2>4. SessionOf(graph, r) BY <1>1, <2>3, SessionFields
  <2> HIDE DEF r
  <2> QED BY <1>1, <2>2, <2>4, SetKeeps
<1>11. CASE \E m \in Moments : SetCursor(tab, m) \/ TickPlayback(tab, m)
  <2>1. PICK m \in Moments : SetCursor(tab, m) \/ TickPlayback(tab, m) BY <1>11
  <2> DEFINE i == CursorAt(m)
             j == s.cursor + m
             a == [s EXCEPT !.cursor = i]
             b == [s EXCEPT !.cursor = j]
  <2>2. m \in Int BY Durations
  <2>3. i \in Int /\ j \in Int
    <3>1. 0 \in Int OBVIOUS
    <3>2. i \in Int BY <2>2, <3>1, MaxOfTwo DEF CursorAt
    <3> QED BY <1>1, <2>2, <3>2
  <2>4. (Set("setCursor", tab, a) \/ Set("tickPlayback", tab, b)) /\ graph' = graph
    BY <2>1 DEF SetCursor, TickPlayback, s
  <2> HIDE DEF i, j
  <2>5. SessionOf(graph, a) /\ SessionOf(graph, b) BY <1>1, <2>3, SessionFields
  <2> HIDE DEF a, b
  <2> QED BY <1>1, <2>4, <2>5, SetKeeps
<1> QED BY <1>6, <1>7, <1>8, <1>9, <1>10, <1>11

(* What edits the timeline of the active project *)
LEMMA EditingKeeps ==
  ASSUME Mirrored, NEW tab \in Tabs,
         \/ DeleteSelected(tab) \/ SplitSelected(tab) \/ AddText(tab)
         \/ \E d \in Deltas : NudgeSelected(tab, d)
         \/ \E f \in Files : ImportResource(tab, f)
         \/ \E r \in ResourcesOf(Active(tab)) : AddToTimeline(tab, r) \/ AddEmbeddedAudio(tab, r)
  PROVE  Mirrored'
<1> DEFINE s == session[tab]
           p == Active(tab)
           c == Selected(tab)
<1>1. /\ Linked(graph) /\ PrimaryTracks(graph) /\ KeepsOwners(graph, graph) /\ graph \in Graphs
      /\ SessionOf(graph, s) /\ s.cursor \in Int
      /\ (p # None => p \in DOMAIN graph.projects) /\ (c # None => c \in DOMAIN graph.clips)
  BY TabHolds DEF Refs
<1>2. ASSUME NEW g, KeepsOwners(graph, g), NEW command, NEW r, SessionOf(graph, r), Set(command, tab, r), Becomes(g)
      PROVE  Mirrored'
  <2>1. KeepsOwners(graph, graph') BY <1>1, <1>2, ChangeKeeps
  <2>2. SessionOf(graph', r) BY <1>2, <2>1, SessionStays DEF KeepsOwners
  <2> QED BY <1>2, <2>1, <2>2, SetKeeps
<1> DEFINE q == [s EXCEPT !.selected = None]
<1>3. SessionOf(graph, q) BY <1>1, SessionFields DEF None
<1> HIDE DEF p, c, s, q
<1>4. CASE DeleteSelected(tab)
  <2> DEFINE g == IF c = None THEN graph ELSE RemoveClip(graph, c)
  <2>1. Set("deleteSelectedClip", tab, q) /\ Becomes(g) BY <1>4 DEF DeleteSelected, q, c, s
  <2>2. KeepsOwners(graph, g) BY <1>1, ClipRemoved
  <2> HIDE DEF g
  <2> QED BY <1>2, <1>3, <2>1, <2>2
<1>5. CASE SplitSelected(tab)
  <2>1. c # None /\ Edit("splitSelectedClip", Split(graph, c, s.cursor)) BY <1>5 DEF SplitSelected, c, s
  <2>2. KeepsOwners(graph, Split(graph, c, s.cursor)) BY <1>1, <2>1, ClipSplit
  <2> QED BY <2>1, <2>2, EditKeeps
<1>6. CASE AddText(tab)
  <2>1. p # None /\ Set("addTextClipToTimeline", tab, q) /\ Becomes(AddTextClip(graph, p)) BY <1>6 DEF AddText, p, q, s
  <2>2. KeepsOwners(graph, AddTextClip(graph, p)) BY <1>1, <2>1, TextClipAdded
  <2> QED BY <1>2, <1>3, <2>1, <2>2
<1>7. CASE \E d \in Deltas : NudgeSelected(tab, d)
  <2>1. PICK d \in Deltas : NudgeSelected(tab, d) BY <1>7
  <2> DEFINE x == Moved(graph.clips[c], d)
             g == [graph EXCEPT !.clips[c] = x]
  <2>2. c # None /\ Edit("nudgeSelectedClip", g) BY <2>1 DEF NudgeSelected, c
  <2>3. graph.clips[c] \in ClipNodes /\ d \in Int BY <1>1, <2>2, GraphFields, Durations
  <2>4. SameLinks(graph.clips[c], x) BY <2>3, ClipShifted
  <2> HIDE DEF x
  <2>5. KeepsOwners(graph, g) BY <1>1, <2>2, <2>4, ClipKept
  <2> HIDE DEF g
  <2> QED BY <2>2, <2>5, EditKeeps
<1>8. CASE \E f \in Files : ImportResource(tab, f)
  <2>1. PICK f \in Files : ImportResource(tab, f) BY <1>8
  <2>2. p # None /\ Edit("importResource", ImportInto(graph, p, f)) BY <2>1 DEF ImportResource, p
  <2>3. KeepsOwners(graph, ImportInto(graph, p, f)) BY <1>1, <2>2, ResourceImported
  <2> QED BY <2>2, <2>3, EditKeeps
<1>9. CASE \E r \in ResourcesOf(Active(tab)) : AddToTimeline(tab, r) \/ AddEmbeddedAudio(tab, r)
  <2>1. PICK r \in ResourcesOf(p) : AddToTimeline(tab, r) \/ AddEmbeddedAudio(tab, r) BY <1>9 DEF p
  <2>2. p # None /\ r \in MediaOf(graph, p) BY DEF ResourcesOf
  <2>3. KeepsOwners(graph, AppendResource(graph, p, r)) /\ KeepsOwners(graph, EmbedAudio(graph, p, r))
    BY <1>1, <2>2, ResourceAppended, AudioEmbedded
  <2>4. Edit("addResourceToTimeline", AppendResource(graph, p, r)) \/ Edit("addEmbeddedAudioToTimeline", EmbedAudio(graph, p, r))
    BY <2>1 DEF AddToTimeline, AddEmbeddedAudio, p
  <2> QED BY <2>3, <2>4, EditKeeps
<1> QED BY <1>4, <1>5, <1>6, <1>7, <1>8, <1>9

(* How far a pointer may move an edge is a time. *)
LEMMA UiDeltaIsTime ==
  ASSUME Linked(graph), NEW c \in DOMAIN graph.clips, NEW base \in Times3, NEW edge, NEW d \in Int
  PROVE  UiDelta(graph.clips[c], base, edge, d) \in Int
<1> DEFINE x == graph.clips[c]
           length == graph.resources[x.resource].duration
           most == Max({MinDuration, length - base.in})
           room == IF x.resource = None THEN MaxDuration ELSE most
           low == Max({0, base.start - base.in})
           end == Clamp(End(base) + d, base.start + MinDuration, base.start + room)
           start == Clamp(base.start + d, low, End(base) - MinDuration)
<1>1. MinDuration \in Int /\ MaxDuration \in Int BY Durations
<1>2. base.start \in Int /\ base.in \in Int /\ base.duration \in Int /\ End(base) \in Int BY DEF Times3, End
<1>3. room \in Int
  <2>1. CASE x.resource = None BY <1>1, <2>1
  <2>2. CASE x.resource # None
    <3>1. x.resource \in DOMAIN graph.resources BY <2>2 DEF Linked, NodesExist, Refs
    <3>2. graph.resources \in Seq(ResourceNodes) BY GraphFields DEF Linked
    <3>3. graph.resources[x.resource] \in ResourceNodes BY <3>1, <3>2
    <3>4. length \in Int BY <3>3 DEF ResourceNodes
    <3> HIDE DEF length
    <3>5. length - base.in \in Int BY <1>2, <3>4
    <3>6. most \in Int BY <1>1, <3>5, MaxOfTwo
    <3> QED BY <2>2, <3>6
  <2> QED BY <2>1, <2>2
<1>4. low \in Int
  <2>1. base.start - base.in \in Int /\ 0 \in Int BY <1>2
  <2> QED BY <2>1, MaxOfTwo
<1>5. UiDelta(graph.clips[c], base, edge, d) = IF edge = "end" THEN end - End(base) ELSE start - base.start
  BY DEF UiDelta
<1> HIDE DEF room, low
<1>6. end \in Int
  <2>1. End(base) + d \in Int /\ base.start + MinDuration \in Int /\ base.start + room \in Int BY <1>1, <1>2, <1>3
  <2> QED BY <2>1, Times
<1>7. start \in Int
  <2>1. base.start + d \in Int /\ End(base) - MinDuration \in Int BY <1>1, <1>2
  <2> QED BY <1>4, <2>1, Times
<1> HIDE DEF end, start
<1> QED BY <1>2, <1>5, <1>6, <1>7

(* What a drag is when a clip is grabbed and how it goes on *)
LEMMA DragFields ==
  ASSUME NEW drag \in Drags
  PROVE  /\ \A t \in Times3 : [drag EXCEPT !.current = t] \in Drags /\ [drag EXCEPT !.current = t].clip = drag.clip
         /\ \A t \in Times3 : [drag EXCEPT !.final = t] \in Drags /\ [drag EXCEPT !.final = t].clip = drag.clip
BY DEF Drags

(* The tab that drags a clip *)
LEMMA DragHolds ==
  ASSUME Mirrored, NEW tab \in Tabs, Dragging(tab)
  PROVE  /\ session[tab].drag \in Drags /\ session[tab].drag.clip \in DOMAIN graph.clips
         /\ graph.clips[session[tab].drag.clip] \in ClipNodes
<1>1. session[tab] \in SessionRoots /\ SessionOf(graph, session[tab]) /\ graph \in Graphs BY TabHolds
<1>2. session[tab].drag \in Drags /\ session[tab].drag.clip \in DOMAIN graph.clips
  BY <1>1 DEF SessionRoots, SessionOf, Dragging
<1> QED BY <1>1, <1>2, GraphFields

(* The commands of a drag *)
LEMMA DraggingKeeps ==
  ASSUME Mirrored, NEW tab \in Tabs,
         \/ \E c \in Clips, kind \in {"move", "start", "end"} : Grab(tab, c, kind)
         \/ \E d \in Deltas : DragBy(tab, d)
         \/ Drop(tab) \/ CommitDrag(tab) \/ CancelDrag(tab)
  PROVE  Mirrored'
<1> DEFINE s == session[tab]
           drag == s.drag
           x == graph.clips[drag.clip]
           Dragged(d) == [s EXCEPT !.drag = d]
           Written(t) == [graph EXCEPT !.clips[drag.clip] = Retimed(@, t)]
<1>1. Linked(graph) /\ graph \in Graphs /\ KeepsOwners(graph, graph) /\ SessionOf(graph, s) /\ s \in SessionRoots
  BY TabHolds
<1>2. ASSUME NEW g, KeepsOwners(graph, g), NEW command, NEW r, SessionOf(graph, r), Set(command, tab, r), Becomes(g)
      PROVE  Mirrored'
  <2>1. KeepsOwners(graph, graph') BY <1>1, <1>2, ChangeKeeps
  <2>2. SessionOf(graph', r) BY <1>2, <2>1, SessionStays DEF KeepsOwners
  <2> QED BY <1>2, <2>1, <2>2, SetKeeps
<1>3. Dragging(tab) => drag \in Drags /\ drag.clip \in DOMAIN graph.clips /\ x \in ClipNodes BY DragHolds
<1>4. ASSUME Dragging(tab), NEW t \in Times3 PROVE KeepsOwners(graph, Written(t))
  <2> DEFINE y == Retimed(x, t)
  <2>1. Written(t) = [graph EXCEPT !.clips[drag.clip] = y] OBVIOUS
  <2>2. SameLinks(x, y) BY <1>3, <1>4, TimesWritten
  <2> HIDE DEF y, drag
  <2>3. KeepsOwners(graph, [graph EXCEPT !.clips[drag.clip] = y]) BY <1>1, <1>3, <1>4, <2>2, ClipKept
  <2> QED BY <2>1, <2>3
<1>5. \A d \in {<<>>} \cup Drags : (d # <<>> => d.clip \in DOMAIN graph.clips) => SessionOf(graph, Dragged(d))
  BY <1>1, SessionFields
<1>6. CASE \E c \in Clips, kind \in {"move", "start", "end"} : Grab(tab, c, kind)
  <2>1. PICK c \in Clips, kind \in {"move", "start", "end"} : Grab(tab, c, kind) BY <1>6
  <2> DEFINE seen == Timing(graph.clips[c])
             d == [clip |-> c, kind |-> kind, original |-> seen, current |-> seen, final |-> <<>>]
             r == Dragged(d)
             z == IF kind = "move" THEN r.selected ELSE c
  <2>2. Set("drag", tab, [r EXCEPT !.selected = z]) /\ graph' = graph
    <3>1. [s EXCEPT !.drag = d, !.selected = IF kind = "move" THEN @ ELSE c] = [r EXCEPT !.selected = z] BY <1>1 DEF SessionRoots
    <3>2. Set("drag", tab, [s EXCEPT !.drag = d, !.selected = IF kind = "move" THEN @ ELSE c]) /\ graph' = graph
      BY <2>1 DEF Grab
    <3> QED BY <3>1, <3>2
  <2>3. c \in DOMAIN graph.clips /\ graph.clips \in Seq(ClipNodes) BY <1>1, GraphFields DEF Clips
  <2>4. c \in Nat /\ graph.clips[c] \in ClipNodes BY <2>3
  <2>5. seen \in Times3 BY <2>4 DEF Timing, Times3, ClipNodes
  <2> HIDE DEF seen
  <2>6. d \in Drags /\ d.clip = c BY <2>4, <2>5 DEF Drags
  <2> HIDE DEF d
  <2>7. SessionOf(graph, r) BY <1>5, <2>3, <2>6
  <2>8. z \in Nat
    <3>1. r \in SessionRoots BY <2>7 DEF SessionOf
    <3> HIDE DEF r
    <3> QED BY <2>4, <3>1 DEF SessionRoots
  <2> HIDE DEF r, z
  <2>9. SessionOf(graph, [r EXCEPT !.selected = z]) BY <2>7, <2>8, SessionFields
  <2> QED BY <1>1, <2>2, <2>9, SetKeeps
<1>7. CASE \E d \in Deltas : DragBy(tab, d)
  <2>1. PICK d \in Deltas : DragBy(tab, d) BY <1>7
  <2> DEFINE base == drag.current
             by == IF drag.kind = "move" THEN d ELSE UiDelta(x, base, drag.kind, d)
             moved == Max({0, Round(base.start + by)})
             longer == Round(base.duration + by)
             later == [start |-> Round(base.start + by), in |-> Round(base.in + by), duration |-> Round(base.duration - by)]
             a == [base EXCEPT !.start = moved]
             b == [base EXCEPT !.duration = longer]
             y == IF drag.kind = "move" THEN Moved(x, by) ELSE Resized(x, drag.kind, by)
             Next1(t) == [drag EXCEPT !.current = t]
             r == [s EXCEPT !.drag.current = a, !.selected = drag.clip]
  <2>2. Dragging(tab) /\ drag \in Drags /\ drag.clip \in DOMAIN graph.clips /\ x \in ClipNodes BY <1>3, <2>1 DEF DragBy
  <2>3. base \in Times3 /\ d \in Int /\ drag.kind \in {"move", "start", "end"} BY <2>2, Durations DEF Drags
  <2>4. by \in Int
    <3>1. UiDelta(x, base, drag.kind, d) \in Int BY <1>1, <2>2, <2>3, UiDeltaIsTime
    <3> QED BY <2>3, <3>1
  <2>5. PICK t \in {a, b, later} :
          /\ Set("drag", tab, [s EXCEPT !.drag.current = t, !.selected = drag.clip])
          /\ Becomes([graph EXCEPT !.clips[drag.clip] = y])
    <3> DEFINE t == CASE drag.kind = "move" -> a [] drag.kind = "end" -> b [] drag.kind = "start" -> later
    <3>1. t \in {a, b, later} BY <2>3
    <3>2. /\ Set("drag", tab, [s EXCEPT !.drag.current = t, !.selected = drag.clip])
          /\ Becomes([graph EXCEPT !.clips[drag.clip] = y])
      BY <2>1 DEF DragBy
    <3> HIDE DEF t, a, b, later, y
    <3> QED BY <3>1, <3>2
  <2> HIDE DEF by
  <2>6. t \in Times3
    <3>1. base.start \in Int /\ base.in \in Int /\ base.duration \in Int BY <2>3 DEF Times3
    <3>2. base.start + by \in Int /\ base.in + by \in Int /\ base.duration + by \in Int /\ base.duration - by \in Int /\ 0 \in Int
      BY <2>4, <3>1
    <3>3. longer \in Int /\ later \in Times3 /\ Round(base.start + by) \in Int BY <3>2, Times DEF Times3
    <3>4. moved \in Int BY <3>2, <3>3, MaxOfTwo
    <3> HIDE DEF moved, longer, later, base
    <3>5. a \in Times3 /\ b \in Times3 BY <2>3, <3>3, <3>4 DEF Times3
    <3> QED BY <2>5, <3>3, <3>5
  <2>7. KeepsOwners(graph, [graph EXCEPT !.clips[drag.clip] = y])
    <3>1. SameLinks(x, y) BY <2>2, <2>4, ClipShifted, ClipTrimmed
    <3> HIDE DEF y, drag
    <3> QED BY <1>1, <2>2, <3>1, ClipKept
  <2> HIDE DEF y, a, b, later
  <2> DEFINE e == Next1(t)
             w == Dragged(e)
  <2>8. e \in Drags /\ e.clip = drag.clip BY <2>2, <2>6, DragFields
  <2>9. [s EXCEPT !.drag.current = t, !.selected = drag.clip] = [w EXCEPT !.selected = drag.clip]
    BY <1>1 DEF SessionRoots
  <2> HIDE DEF e
  <2>10. SessionOf(graph, w) BY <1>5, <2>2, <2>8
  <2>11. drag.clip \in Nat BY <2>2 DEF Drags
  <2> HIDE DEF w, drag
  <2>12. SessionOf(graph, [w EXCEPT !.selected = drag.clip]) BY <2>10, <2>11, SessionFields
  <2> QED BY <1>2, <2>5, <2>7, <2>9, <2>12
<1>8. CASE Drop(tab)
  <2>1. Dragging(tab) BY <1>8 DEF Drop
  <2>2. PICK t \in {drag.current, Timing(x)} :
          Set("drag", tab, [s EXCEPT !.drag.final = t]) /\ Becomes(Written(drag.original))
    <3>1. PICK t \in {drag.current} \cup (IF drag.kind = "move" THEN {Timing(x)} ELSE {}) :
            Set("drag", tab, [s EXCEPT !.drag.final = t]) /\ Becomes(Restored(drag))
      BY <1>8 DEF Drop
    <3>2. t \in {drag.current, Timing(x)} OBVIOUS
    <3>3. Restored(drag) = Written(drag.original) BY DEF Restored
    <3> QED BY <3>1, <3>2, <3>3
  <2>3. drag.current \in Times3 /\ drag.original \in Times3 /\ Timing(x) \in Times3
    BY <1>3, <2>1, TimesWritten DEF Drags
  <2>4. KeepsOwners(graph, Written(drag.original)) BY <1>4, <2>1, <2>3
  <2> DEFINE e == [drag EXCEPT !.final = t]
  <2>5. e \in Drags /\ e.clip = drag.clip BY <1>3, <2>1, <2>2, <2>3, DragFields
  <2>6. [s EXCEPT !.drag.final = t] = Dragged(e) OBVIOUS
  <2> HIDE DEF e
  <2>7. SessionOf(graph, Dragged(e)) BY <1>3, <1>5, <2>1, <2>5
  <2> HIDE DEF Written, Dragged
  <2> QED BY <1>2, <2>2, <2>4, <2>6, <2>7
<1>9. CASE CommitDrag(tab)
  <2>1. Dragging(tab) /\ drag.final # <<>> /\ Set("drag", tab, Dragged(<<>>)) /\ Becomes(Written(drag.final))
    BY <1>9 DEF CommitDrag
  <2>2. drag.final \in Times3 BY <1>3, <2>1 DEF Drags
  <2>3. KeepsOwners(graph, Written(drag.final)) BY <1>4, <2>1, <2>2
  <2>4. SessionOf(graph, Dragged(<<>>)) BY <1>5
  <2> HIDE DEF Written, Dragged
  <2> QED BY <1>2, <2>1, <2>3, <2>4
<1>10. CASE CancelDrag(tab)
  <2>1. Dragging(tab) /\ Set("drag", tab, Dragged(<<>>)) /\ Becomes(Written(drag.original))
    BY <1>10 DEF CancelDrag, Restored
  <2>2. drag.original \in Times3 BY <1>3, <2>1 DEF Drags
  <2>3. KeepsOwners(graph, Written(drag.original)) BY <1>4, <2>1, <2>2
  <2>4. SessionOf(graph, Dragged(<<>>)) BY <1>5
  <2> HIDE DEF Written, Dragged
  <2> QED BY <1>2, <2>1, <2>3, <2>4
<1> QED BY <1>6, <1>7, <1>8, <1>9, <1>10

(* What the invariant says of a project *)
LEMMA ProjectHolds ==
  ASSUME Mirrored, NEW p \in Projects
  PROVE  /\ Linked(graph) /\ graph \in Graphs /\ p \in DOMAIN graph.projects
         /\ graph.projects[p].tracks \in Seq(Nat) /\ IsInjective(graph.projects[p].tracks)
         /\ TracksOf(graph, p) = ToSet(graph.projects[p].tracks)
         /\ \A t \in TracksOf(graph, p) : t \in DOMAIN graph.tracks /\ graph.tracks[t].project = p
         /\ \A c \in ClipsIn(graph, p) :
              /\ c \in DOMAIN graph.clips /\ graph.clips[c].track \in TracksOf(graph, p)
              /\ graph.clips[c].resource \in MediaOf(graph, p) \cup {None}
         /\ \A c \in RemovedFrom(p) :
              c \in DOMAIN graph.clips /\ graph.clips[c].track = None /\ graph.clips[c].resource \in MediaOf(graph, p) \cup {None}
<1>1. Linked(graph) /\ graph \in Graphs /\ TracksMirror(graph) /\ ClipsMirror(graph) /\ MediaMirror(graph)
  BY DEF Mirrored, Linked
<1>2. p \in DOMAIN graph.projects BY DEF Projects
<1>3. graph.projects[p] \in ProjectNodes BY <1>1, <1>2, GraphFields
<1>4. graph.projects[p].tracks \in Seq(Nat) BY <1>3 DEF ProjectNodes
<1>5. IsInjective(graph.projects[p].tracks) /\ \A t \in TracksOf(graph, p) : t \in DOMAIN graph.tracks /\ graph.tracks[t].project = p
  BY <1>1, <1>2 DEF TracksMirror
<1>6. ASSUME NEW c \in ClipsIn(graph, p)
      PROVE  /\ c \in DOMAIN graph.clips /\ graph.clips[c].track \in TracksOf(graph, p)
             /\ graph.clips[c].resource \in MediaOf(graph, p) \cup {None}
  <2>1. PICK t \in TracksOf(graph, p) : c \in ClipsOn(graph, t) BY DEF ClipsIn
  <2>2. t \in DOMAIN graph.tracks /\ graph.tracks[t].project = p BY <1>5
  <2>3. c \in DOMAIN graph.clips /\ graph.clips[c].track = t BY <1>1, <2>1, <2>2 DEF ClipsMirror
  <2>4. t # None BY <1>1, <2>2, GraphFields DEF None
  <2> QED BY <1>1, <2>1, <2>2, <2>3, <2>4 DEF MediaMirror
<1> QED BY <1>1, <1>2, <1>4, <1>5, <1>6 DEF TracksOf, RemovedFrom, Removed, Clips

(* The commands of a project: of its tracks, of the clips it lost, of their reviews *)
LEMMA ProjectCommandKeeps ==
  ASSUME Mirrored, NEW p \in Projects, EditProject(p)
  PROVE  Mirrored'
<1> DEFINE tracks == graph.projects[p].tracks
           Roles == {"normal", "incomingReview", "currentReview"}
<1>1. /\ Linked(graph) /\ graph \in Graphs /\ p \in DOMAIN graph.projects
      /\ tracks \in Seq(Nat) /\ IsInjective(tracks) /\ TracksOf(graph, p) = ToSet(tracks)
  BY ProjectHolds
<1>2. ASSUME NEW kind \in {"video", "audio"}, NEW role \in Roles
      PROVE  KeepsOwners(graph, AddTrackTo(graph, p, kind, role))
  BY <1>1, <1>2, TrackAdded
<1>3. CASE \E kind \in {"video", "audio"} : AddTrack(p, kind)
  <2>1. PICK kind \in {"video", "audio"} : AddTrack(p, kind) BY <1>3
  <2>2. "normal" \in Roles OBVIOUS
  <2>3. KeepsOwners(graph, AddTrackTo(graph, p, kind, "normal")) BY <1>2, <2>2
  <2> QED BY <2>1, <2>3, EditKeeps DEF AddTrack
<1>4. CASE \E role \in {"incomingReview", "currentReview"} :
             EnsureReviewTrack(p, role) \/ \E kind \in {"video", "audio"} : CreateReviewTrack(p, role, kind)
  <2>1. PICK role \in {"incomingReview", "currentReview"} :
          EnsureReviewTrack(p, role) \/ \E kind \in {"video", "audio"} : CreateReviewTrack(p, role, kind)
    BY <1>4
  <2>2. role \in Roles /\ "video" \in {"video", "audio"} OBVIOUS
  <2>3. CASE EnsureReviewTrack(p, role)
    <3>1. KeepsOwners(graph, AddTrackTo(graph, p, "video", role)) BY <1>2, <2>2
    <3> QED BY <2>3, <3>1, EditKeeps DEF EnsureReviewTrack
  <2>4. CASE \E kind \in {"video", "audio"} : CreateReviewTrack(p, role, kind)
    <3>1. PICK kind \in {"video", "audio"} : CreateReviewTrack(p, role, kind) BY <2>4
    <3>2. KeepsOwners(graph, AddTrackTo(graph, p, kind, role)) BY <1>2, <2>2
    <3> QED BY <3>1, <3>2, EditKeeps DEF CreateReviewTrack
  <2> QED BY <2>1, <2>3, <2>4
<1>5. ASSUME NEW s \in Seq(Nat), IsInjective(s), ToSet(s) = ToSet(tracks)
      PROVE  KeepsOwners(graph, [graph EXCEPT !.projects[p].tracks = s])
  BY <1>1, <1>5, TracksReordered
<1>6. CASE \E t \in ToSet(tracks), after \in ToSet(tracks) \cup {None} : after # t /\ MoveTrack(p, t, after)
  <2>1. PICK t \in ToSet(tracks), after \in ToSet(tracks) \cup {None} : MoveTrack(p, t, after) BY <1>6
  <2> DEFINE s == Placed(tracks, t, after)
  <2>2. Edit("moveTrackWithinProject", [graph EXCEPT !.projects[p].tracks = s]) BY <2>1 DEF MoveTrack
  <2>3. s \in Seq(Nat) /\ IsInjective(s) /\ ToSet(s) = ToSet(tracks) BY <1>1, PlacedKeeps
  <2> HIDE DEF s
  <2> QED BY <1>5, <2>2, <2>3, EditKeeps
<1>7. CASE \E t, u \in ToSet(tracks) : t # u /\ ResolveTrackOrder(p, <<t, u>>)
  <2>1. PICK t \in ToSet(tracks), u \in ToSet(tracks) : ResolveTrackOrder(p, <<t, u>>) BY <1>7
  <2> DEFINE order == <<t, u>>
             s == Expanded(order, tracks)
  <2>2. t \in Nat /\ u \in Nat BY <1>1 DEF ToSet
  <2>3. order \in Seq(Nat) BY <2>2
  <2>4. /\ ToSet(order) \subseteq ToSet(tracks) /\ IsInjective(order)
        /\ Edit("resolveTrackOrderConflict", [graph EXCEPT !.projects[p].tracks = s])
    BY <1>1, <2>1 DEF ResolveTrackOrder
  <2> HIDE DEF order
  <2>5. s \in Seq(Nat) /\ IsInjective(s) /\ ToSet(s) = ToSet(tracks) BY <1>1, <2>3, <2>4, ExpandedKeeps
  <2> HIDE DEF s
  <2> QED BY <1>5, <2>4, <2>5, EditKeeps
<1>8. CASE \E c \in RemovedFrom(p) : ParkEditedVariant(p, c)
  <2>1. PICK c \in RemovedFrom(p) : ParkEditedVariant(p, c) BY <1>8
  <2>2. c \in DOMAIN graph.clips /\ graph.clips[c].resource \in MediaOf(graph, p) \cup {None} BY ProjectHolds
  <2>3. KeepsOwners(graph, ParkEdited(graph, p, c)) BY <1>1, <2>2, EditedParked
  <2> QED BY <2>1, <2>3, EditKeeps DEF ParkEditedVariant
<1>9. CASE \E c \in RemovedFrom(p) \cup ClipsIn(graph, p), t \in ToSet(tracks) : MoveClipToTrack(p, c, t)
  <2>1. PICK c \in RemovedFrom(p) \cup ClipsIn(graph, p), t \in ToSet(tracks) : MoveClipToTrack(p, c, t) BY <1>9
  <2>2. /\ c \in DOMAIN graph.clips /\ graph.clips[c].track \in TracksOf(graph, p) \cup {None}
        /\ graph.clips[c].resource \in MediaOf(graph, p) \cup {None}
    BY ProjectHolds
  <2>3. KeepsOwners(graph, MoveToTrack(graph, p, c, t)) BY <1>1, <2>2, ClipMoved
  <2> QED BY <2>1, <2>3, EditKeeps DEF MoveClipToTrack
<1>10. CASE \E c \in ClipsIn(graph, p), m \in Moments : ParkIncomingVariant(p, c, m)
  <2>1. PICK c \in ClipsIn(graph, p), m \in Moments : ParkIncomingVariant(p, c, m) BY <1>10
  <2> DEFINE source == Timing(graph.clips[c])
             parked == [source EXCEPT !.start = m]
             h == ParkIncoming(graph, p, c, source, parked)
  <2>2. Edit("parkIncomingVariantOnReviewTrack", h) BY <2>1 DEF ParkIncomingVariant
  <2>3. c \in DOMAIN graph.clips /\ m \in Int BY ProjectHolds, Durations
  <2>4. source \in Times3
    <3>1. graph.clips[c] \in ClipNodes BY <1>1, <2>3, GraphFields
    <3> QED BY <3>1 DEF Timing, Times3, ClipNodes
  <2> HIDE DEF source
  <2>5. parked \in Times3 BY <2>3, <2>4 DEF Times3
  <2>6. Keeps(graph, h) BY <1>1, <2>4, <2>5, IncomingParked
  <2>7. Keeps(graph, graph) BY <1>1, KeepsSelf DEF KeepsOwners
  <2> HIDE DEF h, parked
  <2>8. Keeps(graph, graph') /\ scene' = scene /\ session' = session /\ "parkIncomingVariantOnReviewTrack" \in scene.commands
    BY <2>2, <2>6, <2>7 DEF Edit, Becomes, Run
  <2>9. \A tab \in Tabs : SessionOf(graph', session[tab]) BY <2>8, SessionStays DEF Mirrored, Sessions
  <2> QED BY <2>8, <2>9 DEF Mirrored, Sessions, Keeps
<1> QED BY <1>3, <1>4, <1>6, <1>7, <1>8, <1>9, <1>10 DEF EditProject

(* The commands of a track *)
LEMMA TrackCommandKeeps ==
  ASSUME Mirrored, NEW t \in DOMAIN graph.tracks, EditTrack(t)
  PROVE  Mirrored'
<1> DEFINE y == graph.tracks[t]
           p == y.project
<1>1. Linked(graph) /\ graph \in Graphs /\ TracksMirror(graph) /\ ClipsMirror(graph) BY DEF Mirrored, Linked
<1>2. y \in TrackNodes BY <1>1, GraphFields
<1>3. y.clips \in Seq(Nat) /\ IsInjective(y.clips) /\ ClipsOn(graph, t) = ToSet(y.clips) BY <1>1, <1>2 DEF TrackNodes, ClipsMirror, ClipsOn
<1>4. CASE \E on \in BOOLEAN : SetTrackPreviewEnabled(t, on)
  <2>1. PICK on \in BOOLEAN : SetTrackPreviewEnabled(t, on) BY <1>4
  <2> DEFINE z == [y EXCEPT !.enabled = on]
  <2>2. Edit("setTrackPreviewEnabled", [graph EXCEPT !.tracks[t] = z]) BY <2>1 DEF SetTrackPreviewEnabled
  <2>3. z \in TrackNodes /\ z.project = y.project /\ z.clips = y.clips BY <1>2 DEF TrackNodes
  <2> HIDE DEF z
  <2>4. KeepsOwners(graph, [graph EXCEPT !.tracks[t] = z]) BY <1>1, <1>3, <2>3, TrackChanged
  <2> QED BY <2>2, <2>4, EditKeeps
<1>5. CASE \E c \in ClipsOn(graph, t), after \in ClipsOn(graph, t) \cup {None} : after # c /\ MoveClipWithinTrack(t, c, after)
  <2>1. PICK c \in ClipsOn(graph, t), after \in ClipsOn(graph, t) \cup {None} : MoveClipWithinTrack(t, c, after) BY <1>5
  <2> DEFINE s == Placed(y.clips, c, after)
             z == [y EXCEPT !.clips = s]
  <2>2. Edit("moveClipWithinTrack", [graph EXCEPT !.tracks[t] = z]) BY <2>1 DEF MoveClipWithinTrack
  <2>3. s \in Seq(Nat) /\ IsInjective(s) /\ ToSet(s) = ToSet(y.clips) BY <1>3, PlacedKeeps
  <2> HIDE DEF s, y
  <2>4. z \in TrackNodes /\ z.project = y.project /\ z.clips = s BY <1>2, <2>3 DEF TrackNodes
  <2> HIDE DEF z
  <2>5. KeepsOwners(graph, [graph EXCEPT !.tracks[t] = z]) BY <1>1, <1>3, <2>3, <2>4, TrackChanged DEF y
  <2> QED BY <2>2, <2>5, EditKeeps
<1>6. CASE \E c \in RemovedFrom(graph.tracks[t].project) : RestoreVariant(c, t)
  <2>1. PICK c \in RemovedFrom(p) : RestoreVariant(c, t) BY <1>6
  <2>2. p \in Projects BY <1>1 DEF TracksMirror, Projects
  <2> HIDE DEF p
  <2>3. c \in DOMAIN graph.clips /\ graph.clips[c].resource \in MediaOf(graph, p) \cup {None} BY <2>2, ProjectHolds
  <2>4. graph.clips[c] \in ClipNodes BY <1>1, <2>3, GraphFields
  <2>5. KeepsOwners(graph, AddClip(graph, Variant(graph.clips[c], t))) BY <1>1, <2>3, <2>4, VariantAdded DEF p
  <2> QED BY <2>1, <2>5, EditKeeps DEF RestoreVariant
<1> QED BY <1>4, <1>5, <1>6 DEF EditTrack

(* The commands of a clip *)
LEMMA ClipCommandKeeps ==
  ASSUME Mirrored, NEW c \in Clips, EditClip(c)
  PROVE  Mirrored'
<1> DEFINE x == graph.clips[c]
           Changed(y) == [graph EXCEPT !.clips[c] = y]
<1>1. Linked(graph) /\ graph \in Graphs /\ c \in DOMAIN graph.clips BY DEF Mirrored, Linked, Clips
<1>2. x \in ClipNodes BY <1>1, GraphFields
<1>3. /\ x.start \in Int /\ x.in \in Int /\ x.duration \in Int /\ x.fadeIn \in Int /\ x.fadeOut \in Int
      /\ x.effects \in Seq(Nat)
  BY <1>2 DEF ClipNodes
<1>4. ASSUME NEW y, SameLinks(x, y), NEW command, Edit(command, Changed(y)) PROVE Mirrored'
  <2>1. KeepsOwners(graph, Changed(y)) BY <1>1, <1>4, ClipKept
  <2> QED BY <1>4, <2>1, EditKeeps
<1>5. ASSUME NEW s \in Seq(Nat), ToSet(s) \subseteq ToSet(x.effects), NEW command, Edit(command, Changed([x EXCEPT !.effects = s]))
      PROVE  Mirrored'
  <2> DEFINE y == [x EXCEPT !.effects = s]
  <2>1. y \in ClipNodes /\ y.track = x.track /\ y.resource = x.resource /\ y.text = x.text /\ y.effects = s
    BY <1>2, <1>5 DEF ClipNodes
  <2>2. Edit(command, Changed(y)) BY <1>5
  <2> HIDE DEF y
  <2>3. KeepsOwners(graph, Changed(y)) BY <1>1, <1>5, <2>1, ClipChanged
  <2> QED BY <2>2, <2>3, EditKeeps
<1> HIDE DEF Changed
<1>6. CASE RemoveSelf(c)
  <2>1. KeepsOwners(graph, RemoveClip(graph, c)) BY <1>1, ClipRemoved
  <2> QED BY <1>6, <2>1, EditKeeps DEF RemoveSelf
<1>7. CASE AddEffect(c)
  <2> DEFINE g == [graph EXCEPT !.effects = Append(@, c), !.clips[c].effects = Append(@, Len(graph.effects) + 1)]
  <2>1. KeepsOwners(graph, g) BY <1>1, EffectAdded
  <2>2. Edit("addEffect", g) BY <1>7 DEF AddEffect
  <2> HIDE DEF g
  <2> QED BY <2>1, <2>2, EditKeeps
<1>8. CASE \E m \in Moments : SplitSelfAt(c, m)
  <2>1. PICK m \in Moments : SplitSelfAt(c, m) BY <1>8
  <2>2. m \in Int BY Durations
  <2>3. KeepsOwners(graph, Split(graph, c, m)) BY <1>1, <2>2, ClipSplit
  <2> QED BY <2>1, <2>3, EditKeeps DEF SplitSelfAt
<1>9. CASE \E m, n \in Moments : ResolveClipTiming(c, m, n, 0)
  <2>1. PICK m \in Moments, n \in Moments : ResolveClipTiming(c, m, n, 0) BY <1>9
  <2> DEFINE now == Timing(x)
             t == [now EXCEPT !.start = m, !.duration = n]
             y == Retimed(x, t)
             z == [y EXCEPT !.fadeIn = 0]
             w == [z EXCEPT !.fadeOut = 0]
  <2>2. m \in Int /\ n \in Int BY Durations
  <2>3. now \in Times3 BY <1>3 DEF Timing, Times3
  <2>4. Edit("resolveClipTimingConflict", Changed(w))
    <3>1. Edit("resolveClipTimingConflict", [graph EXCEPT !.clips[c] = [Retimed(@, t) EXCEPT !.fadeIn = 0, !.fadeOut = 0]])
      BY <2>1 DEF ResolveClipTiming
    <3> QED BY <3>1 DEF Changed
  <2> HIDE DEF now
  <2>5. t \in Times3 BY <2>2, <2>3 DEF Times3
  <2> HIDE DEF t
  <2>6. SameLinks(x, y) BY <1>2, <2>5, TimesWritten
  <2> HIDE DEF y
  <2>7. z \in ClipNodes /\ z.track = y.track /\ z.resource = y.resource /\ z.text = y.text /\ z.effects = y.effects
    BY <2>6 DEF SameLinks, ClipNodes
  <2> HIDE DEF z, x
  <2>8. w \in ClipNodes /\ w.track = z.track /\ w.resource = z.resource /\ w.text = z.text /\ w.effects = z.effects
    <3>1. z \in ClipNodes BY <2>7
    <3>2. w \in ClipNodes BY <3>1, SMTT(20) DEF ClipNodes
    <3>3. w.track = z.track /\ w.resource = z.resource /\ w.text = z.text /\ w.effects = z.effects BY <3>1 DEF ClipNodes
    <3> QED BY <3>2, <3>3
  <2> HIDE DEF w
  <2>9. SameLinks(x, w) BY <2>6, <2>7, <2>8 DEF SameLinks
  <2> QED BY <1>4, <2>4, <2>9
<1>10. CASE \E d \in Deltas : MoveBy(c, d)
  <2>1. PICK d \in Deltas : MoveBy(c, d) BY <1>10
  <2>2. d \in Int BY Durations
  <2>3. SameLinks(x, Moved(x, d)) BY <1>2, <2>2, ClipShifted
  <2>4. Edit("moveBy", Changed(Moved(x, d))) BY <2>1 DEF MoveBy, Changed
  <2> QED BY <1>4, <2>3, <2>4
<1>11. CASE \E d \in Deltas, edge \in {"start", "end"} : Trim(c, edge, d) \/ SetFade(c, edge, d)
  <2>1. PICK d \in Deltas, edge \in {"start", "end"} : Trim(c, edge, d) \/ SetFade(c, edge, d) BY <1>11
  <2>2. d \in Int BY Durations
  <2>3. CASE Trim(c, edge, d)
    <3>1. SameLinks(x, Resized(x, edge, d)) BY <1>2, <2>2, ClipTrimmed
    <3>2. Edit("trim", Changed(Resized(x, edge, d))) BY <2>3 DEF Trim, Changed
    <3> QED BY <1>4, <3>1, <3>2
  <2>4. CASE SetFade(c, edge, d)
    <3> DEFINE i == Clamp(Round(x.fadeIn + d), 0, x.duration)
               o == Clamp(Round(x.fadeOut + d), 0, x.duration)
               y == [x EXCEPT !.fadeIn = i]
               z == [x EXCEPT !.fadeOut = o]
    <3>1. i \in Int /\ o \in Int
      <4> HIDE DEF x
      <4>1. x.fadeIn + d \in Int /\ x.fadeOut + d \in Int /\ 0 \in Int BY <1>3, <2>2
      <4>2. Round(x.fadeIn + d) \in Int /\ Round(x.fadeOut + d) \in Int BY <4>1, Times
      <4> QED BY <1>3, <4>1, <4>2, Times
    <3>2. Edit("setFade", IF edge = "start" THEN Changed(y) ELSE Changed(z)) BY <2>4 DEF SetFade, Changed
    <3> HIDE DEF i, o
    <3>3. SameLinks(x, y) /\ SameLinks(x, z) BY <1>2, <3>1 DEF SameLinks, ClipNodes
    <3> HIDE DEF y, z
    <3>4. Edit("setFade", Changed(y)) \/ Edit("setFade", Changed(z)) BY <3>2
    <3> QED BY <1>4, <3>3, <3>4
  <2> QED BY <2>1, <2>3, <2>4
<1>12. CASE \E l \in Looks : Paint(c, l)
  <2>1. PICK l \in Looks : Paint(c, l) BY <1>12
  <2> DEFINE y == [x EXCEPT !.look = l]
  <2>2. Edit("setClipAttrs", Changed(y)) BY <2>1 DEF Paint, Changed
  <2>3. SameLinks(x, y) BY <1>2 DEF SameLinks, ClipNodes
  <2> HIDE DEF y
  <2> QED BY <1>4, <2>2, <2>3
<1>13. CASE \E e \in ToSet(graph.clips[c].effects) : RemoveEffect(c, e) \/ \E i \in 1..2 : ReorderEffect(c, e, i)
  <2>1. PICK e \in ToSet(x.effects) : RemoveEffect(c, e) \/ \E i \in 1..2 : ReorderEffect(c, e, i) BY <1>13
  <2> DEFINE rest == Except(x.effects, e)
  <2>2. rest \in Seq(Nat) /\ ToSet(rest) = ToSet(x.effects) \ {e} BY <1>3, ExceptKeeps
  <2>3. e \in Nat BY <1>3 DEF ToSet
  <2>4. CASE RemoveEffect(c, e)
    <3>1. Edit("removeEffect", Changed([x EXCEPT !.effects = rest])) BY <2>4 DEF RemoveEffect, Changed
    <3> HIDE DEF rest
    <3> QED BY <1>5, <2>2, <3>1
  <2>5. CASE \E i \in 1..2 : ReorderEffect(c, e, i)
    <3>1. PICK i \in 1..2 : ReorderEffect(c, e, i) BY <2>5
    <3> DEFINE k == Clamp(i, 1, Len(rest) + 1)
               s == InsertAt(rest, k, e)
    <3>2. Edit("reorderEffect", Changed([x EXCEPT !.effects = s])) BY <3>1 DEF ReorderEffect, Changed
    <3> HIDE DEF rest
    <3>3. Len(rest) \in Nat BY <2>2
    <3>4. k - 1 \in 0..Len(rest) /\ (k - 1) + 1 = k
      <4> DEFINE n == Len(rest)
                 low == Max({1, i})
      <4>1. i \in Int /\ 1 \in Int /\ n + 1 \in Int /\ n \in Nat BY <3>3
      <4> HIDE DEF n
      <4>2. low \in Int /\ low >= 1 BY <4>1, MaxOfTwo
      <4> HIDE DEF low
      <4>3. k = Min({n + 1, low}) BY DEF Clamp, low, n
      <4>4. Min({n + 1, low}) = IF n + 1 <= low THEN n + 1 ELSE low BY <4>1, <4>2, MinOfTwo
      <4> HIDE DEF k
      <4>5. k \in 1..(n + 1) BY <4>1, <4>2, <4>3, <4>4
      <4> QED BY <4>1, <4>5 DEF n
    <3> HIDE DEF k
    <3>5. InsertAt(rest, (k - 1) + 1, e) \in Seq(Nat) /\ ToSet(InsertAt(rest, (k - 1) + 1, e)) = ToSet(rest) \cup {e}
      BY <2>2, <2>3, <3>4, InsertedKeeps
    <3>6. s \in Seq(Nat) /\ ToSet(s) \subseteq ToSet(x.effects) BY <2>2, <3>4, <3>5
    <3> HIDE DEF s
    <3> QED BY <1>5, <3>2, <3>6
  <2> QED BY <2>1, <2>4, <2>5
<1> QED BY <1>6, <1>7, <1>8, <1>9, <1>10, <1>11, <1>12, <1>13 DEF EditClip

(* Every step keeps the invariant. *)
LEMMA StepKeeps ==
  ASSUME Mirrored, [Next]_timelineVars
  PROVE  Mirrored'
<1>1. CASE UNCHANGED timelineVars BY <1>1 DEF timelineVars, Mirrored, Sessions
<1>2. ASSUME NEW tab \in scene.tabs, Session(tab) PROVE Mirrored'
  <2>1. tab \in Tabs BY TimelineAssumption DEF Mirrored
  <2> QED BY <1>2, <2>1, OpeningKeeps, EditingKeeps, DraggingKeeps DEF Session
<1>3. ASSUME NEW x \in DOMAIN graph.texts, NEW l \in Looks, EditText(x, l) PROVE Mirrored'
  <2> DEFINE g == [graph EXCEPT !.texts[x].content = l]
  <2>1. KeepsOwners(graph, g) BY TextChanged DEF Mirrored
  <2>2. Edit("setTextContent", g) BY <1>3 DEF EditText
  <2> HIDE DEF g
  <2> QED BY <2>1, <2>2, EditKeeps
<1> QED BY <1>1, <1>2, <1>3, ProjectCommandKeeps, TrackCommandKeeps, ClipCommandKeeps DEF Next

(* A scene opens on a graph whose relations agree. *)
LEMMA InitMirrored ==
  ASSUME Init
  PROVE  Mirrored
<1> DEFINE p == IF scene.graph = EmptyGraph THEN None ELSE 1
           s == [InitSession EXCEPT !.project = p]
<1>1. scene \in Scenes /\ graph = scene.graph /\ session = [tab \in Tabs |-> s] BY DEF Init
<1>2. /\ graph \in Graphs /\ (graph # EmptyGraph => graph.projects # <<>>)
      /\ Linked(graph) /\ PrimaryTracks(graph) /\ Owned(graph)
  BY <1>1, TimelineAssumption DEF Linked, Owned
<1>3. p \in Refs(graph.projects) /\ p \in Nat
  <2>1. graph.projects \in Seq(ProjectNodes) BY <1>2, GraphFields
  <2> QED BY <1>1, <1>2, <2>1 DEF Refs, None
<1> HIDE DEF p
<1>4. InitSession \in SessionRoots /\ InitSession.drag = <<>>
  <2> DEFINE e == <<>>
             b == FALSE
  <2>1. InitSession = [project |-> None, selected |-> None, cursor |-> 0, playing |-> b, drag |-> e] BY DEF InitSession
  <2>2. e = <<>> /\ b \in BOOLEAN OBVIOUS
  <2> HIDE DEF e, b
  <2> QED BY <2>1, <2>2 DEF SessionRoots, None
<1>5. s \in SessionRoots /\ s.project = p /\ s.drag = <<>> BY <1>3, <1>4 DEF SessionRoots
<1> HIDE DEF s
<1>6. SessionOf(graph, s) BY <1>3, <1>5 DEF SessionOf
<1> QED BY <1>1, <1>2, <1>5, <1>6 DEF Mirrored, Sessions

(***************************************************************************)
(* Whatever the tabs send, in any order and addressed to nodes that others  *)
(* have changed meanwhile, the two ends of every relation of the project    *)
(* graph agree (dkt/test/projectGraphAssertions.ts).                        *)
(***************************************************************************)
THEOREM RelationsAgree == Spec => []GraphMirrors
<1>1. Init => Mirrored BY InitMirrored
<1>2. Mirrored /\ [Next]_timelineVars => Mirrored' BY StepKeeps
<1>3. Mirrored => GraphMirrors BY DEF Mirrored, Linked, Owned, GraphMirrors
<1> QED BY <1>1, <1>2, <1>3, PTL DEF Spec

-----------------------------------------------------------------------------
(* What is appended, and what is cut. *)

(* One clip more: it is the new one, and the others are as they were. *)
LEMMA OneMore ==
  ASSUME NEW S, NEW s \in Seq(S), NEW x \in S
  PROVE  /\ DOMAIN Append(s, x) \ DOMAIN s = {Len(s) + 1} /\ Len(s) + 1 \notin DOMAIN s
         /\ Append(s, x)[Len(s) + 1] = x /\ \A i \in DOMAIN s : Append(s, x)[i] = s[i]
OBVIOUS

(* AppendResource: its clips start together, at or after the end of what is on their tracks. *)
LEMMA AppendedLast ==
  ASSUME NEW g, Linked(g), PrimaryTracks(g), NEW p \in DOMAIN g.projects, NEW r \in MediaOf(g, p)
  PROVE  LET h == AppendResource(g, p, r)
         IN \E start \in Int : \A c \in DOMAIN h.clips \ DOMAIN g.clips :
              h.clips[c].start = start /\ h.clips[c].track \in DOMAIN g.tracks /\ AppendStart(g, h.clips[c].track) <= start
<1> DEFINE v == g.projects[p].video
           a == g.projects[p].audio
           file == g.resources[r]
           both == Max({AppendStart(g, v), AppendStart(g, a)})
           last == AppendStart(g, a)
           x == NewClip(v, r, "video", both, file.duration)
           y == NewClip(a, r, "audio", both, file.duration)
           z == NewClip(v, r, "image", both, file.duration)
           w == NewClip(a, r, "audio", last, file.duration)
           f == AddClip(g, x)
           n == Len(g.clips)
           Good(start, d) == d.start = start /\ d.track \in DOMAIN g.tracks /\ AppendStart(g, d.track) <= start
<1>1. g \in Graphs /\ ClipsMirror(g) /\ MediaMirror(g) /\ g.clips \in Seq(ClipNodes) BY GraphFields DEF Linked
<1>2. v \in DOMAIN g.tracks /\ g.tracks[v].project = p /\ a \in DOMAIN g.tracks /\ g.tracks[a].project = p
  BY PrimaryTracksExist
<1>3. file.duration \in Int /\ file.kind \in {"video", "audio", "image"}
  <2>1. r \in DOMAIN g.resources BY <1>1 DEF MediaMirror
  <2>2. file \in ResourceNodes BY <1>1, <2>1, GraphFields
  <2> QED BY <2>2 DEF ResourceNodes
<1>4. last \in Int /\ both \in Int /\ AppendStart(g, v) <= both /\ AppendStart(g, a) <= both
  <2>1. AppendStart(g, v) \in Int /\ AppendStart(g, a) \in Int BY <1>1, <1>2, AppendStartIsLast
  <2>2. both = IF AppendStart(g, v) >= AppendStart(g, a) THEN AppendStart(g, v) ELSE AppendStart(g, a) BY <2>1, MaxOfTwo
  <2> QED BY <2>1, <2>2
<1>5. /\ file.kind = "audio" => AppendResource(g, p, r) = AddClip(g, w)
      /\ file.kind = "image" => AppendResource(g, p, r) = AddClip(g, z)
      /\ file.kind = "video" => AppendResource(g, p, r) = AddClip(f, y)
  BY DEF AppendResource
<1>6. /\ x.start = both /\ x.track = v /\ y.start = both /\ y.track = a
      /\ z.start = both /\ z.track = v /\ w.start = last /\ w.track = a
  BY DEF NewClip
<1>7. last <= last BY <1>4
<1> HIDE DEF v, a, file, both, last
<1>8. /\ z \in ClipNodes /\ w \in ClipNodes /\ x \in ClipNodes /\ Made(g, f, x)
      /\ Made(g, AddClip(g, z), z) /\ Made(g, AddClip(g, w), w)
  <2>1. "audio" \in {"video", "audio", "image", "text"} OBVIOUS
  <2>2. "image" \in {"video", "audio", "image", "text"} OBVIOUS
  <2>3. "video" \in {"video", "audio", "image", "text"} OBVIOUS
  <2>4. Made(g, AddClip(g, w), w) /\ w \in ClipNodes BY <1>2, <1>3, <1>4, <2>1, NewClipMade
  <2>5. Made(g, AddClip(g, z), z) /\ z \in ClipNodes BY <1>2, <1>3, <1>4, <2>2, NewClipMade
  <2>6. Made(g, f, x) /\ x \in ClipNodes BY <1>2, <1>3, <1>4, <2>3, NewClipMade
  <2> QED BY <2>4, <2>5, <2>6
<1>9. y \in ClipNodes /\ Made(f, AddClip(f, y), y)
  <2>1. Linked(f) /\ f.projects = g.projects /\ a \in DOMAIN f.tracks /\ f.tracks[a].project = p
    BY <1>2, <1>8 DEF Made, KeepsOwners, Keeps
  <2>2. MediaOf(f, p) = MediaOf(g, p) BY <2>1 DEF MediaOf
  <2>3. "audio" \in {"video", "audio", "image", "text"} OBVIOUS
  <2> HIDE DEF f
  <2> QED BY <1>3, <1>4, <2>1, <2>2, <2>3, NewClipMade
<1>10. Good(both, x) /\ Good(both, y) /\ Good(both, z) /\ Good(last, w)
  <2>1. w.start = last /\ w.track \in DOMAIN g.tracks /\ AppendStart(g, w.track) <= last BY <1>2, <1>6, <1>7 DEF last
  <2> QED BY <1>2, <1>4, <1>6, <2>1
<1> HIDE DEF Good, x, y, z, w, f
<1>11. ASSUME NEW d \in ClipNodes, NEW h, h.clips = Append(g.clips, d), NEW start, Good(start, d)
       PROVE  \A c \in DOMAIN h.clips \ DOMAIN g.clips : Good(start, h.clips[c])
  <2>1. DOMAIN Append(g.clips, d) \ DOMAIN g.clips = {n + 1} /\ Append(g.clips, d)[n + 1] = d
    BY <1>1, <1>11, OneMore
  <2> QED BY <1>11, <2>1
<1>12. CASE file.kind = "audio"
  <2> DEFINE h == AppendResource(g, p, r)
  <2>1. h.clips = Append(g.clips, w) BY <1>5, <1>8, <1>12 DEF Made
  <2> HIDE DEF h
  <2>2. \A c \in DOMAIN h.clips \ DOMAIN g.clips : Good(last, h.clips[c]) BY <1>8, <1>10, <1>11, <2>1
  <2> QED BY <1>4, <2>2 DEF Good, h
<1>13. CASE file.kind = "image"
  <2> DEFINE h == AppendResource(g, p, r)
  <2>1. h.clips = Append(g.clips, z) BY <1>5, <1>8, <1>13 DEF Made
  <2> HIDE DEF h
  <2>2. \A c \in DOMAIN h.clips \ DOMAIN g.clips : Good(both, h.clips[c]) BY <1>8, <1>10, <1>11, <2>1
  <2> QED BY <1>4, <2>2 DEF Good, h
<1>14. CASE file.kind = "video"
  <2> DEFINE h == AppendResource(g, p, r)
             s == Append(g.clips, x)
  <2>1. h.clips = Append(s, y) /\ f.clips = s BY <1>5, <1>8, <1>9, <1>14 DEF Made
  <2>2. s \in Seq(ClipNodes) /\ \A c \in DOMAIN s \ DOMAIN g.clips : Good(both, s[c])
    <3>1. \A c \in DOMAIN f.clips \ DOMAIN g.clips : Good(both, f.clips[c]) BY <1>8, <1>10, <1>11, <2>1
    <3>2. s \in Seq(ClipNodes) BY <1>1, <1>8, AppendedKeeps
    <3> QED BY <2>1, <3>1, <3>2
  <2> HIDE DEF h, s
  <2>3. /\ DOMAIN Append(s, y) \ DOMAIN s = {Len(s) + 1} /\ Append(s, y)[Len(s) + 1] = y
        /\ \A i \in DOMAIN s : Append(s, y)[i] = s[i]
    BY <1>9, <2>2, OneMore
  <2>4. \A c \in DOMAIN h.clips \ DOMAIN g.clips : Good(both, h.clips[c]) BY <1>10, <2>1, <2>2, <2>3
  <2> QED BY <1>4, <2>4 DEF Good, h
<1> QED BY <1>3, <1>12, <1>13, <1>14

(***************************************************************************)
(* What a tab appends to the timeline covers nothing that is there, and a   *)
(* video and its audio start together (reduceAddResourceToTimeline).        *)
(***************************************************************************)
THEOREM AppendsInStep == Spec => AppendInStep
<1> DEFINE InStep ==
      \A tab \in Tabs : (\E r \in ResourcesOf(Active(tab)) : AddToTimeline(tab, r)) =>
         LET new == DOMAIN graph'.clips \ Clips
         IN \A c \in new :
              /\ \A d \in new : graph'.clips[d].start = graph'.clips[c].start
              /\ \A d \in ClipsOn(graph, graph'.clips[c].track) : End(graph.clips[d]) <= graph'.clips[c].start
<1>1. Init => Mirrored BY InitMirrored
<1>2. Mirrored /\ [Next]_timelineVars => Mirrored' BY StepKeeps
<1>3. ASSUME Mirrored, NEW tab \in Tabs, NEW r \in ResourcesOf(Active(tab)), AddToTimeline(tab, r),
             NEW c \in DOMAIN graph'.clips \ Clips
      PROVE  /\ \A d \in DOMAIN graph'.clips \ Clips : graph'.clips[d].start = graph'.clips[c].start
             /\ \A d \in ClipsOn(graph, graph'.clips[c].track) : End(graph.clips[d]) <= graph'.clips[c].start
  <2> DEFINE h == AppendResource(graph, Active(tab), r)
             t == graph'.clips[c].track
             start == graph'.clips[c].start
  <2>1. Linked(graph) /\ PrimaryTracks(graph) /\ Active(tab) \in Refs(graph.projects) /\ graph \in Graphs /\ ClipsMirror(graph)
    BY <1>3, TabHolds DEF Linked
  <2>2. Active(tab) \in DOMAIN graph.projects /\ r \in MediaOf(graph, Active(tab)) BY <2>1 DEF ResourcesOf, Refs
  <2>3. graph' = h
    <3>1. Becomes(h) BY <1>3 DEF AddToTimeline, Edit
    <3>2. graph' # graph BY DEF Clips
    <3> QED BY <3>1, <3>2 DEF Becomes
  <2>4. PICK first \in Int : \A d \in DOMAIN h.clips \ DOMAIN graph.clips :
          /\ h.clips[d].start = first /\ h.clips[d].track \in DOMAIN graph.tracks
          /\ AppendStart(graph, h.clips[d].track) <= first
    BY <2>1, <2>2, AppendedLast
  <2> HIDE DEF h
  <2>5. /\ \A d \in DOMAIN graph'.clips \ Clips : graph'.clips[d].start = first
        /\ t \in DOMAIN graph.tracks /\ AppendStart(graph, t) <= first /\ start = first
    BY <2>3, <2>4 DEF Clips
  <2>6. AppendStart(graph, t) \in Nat /\ \A d \in ClipsOn(graph, t) : End(graph.clips[d]) \in Int /\ End(graph.clips[d]) <= AppendStart(graph, t)
    BY <2>1, <2>5, AppendStartIsLast
  <2> HIDE DEF t, start
  <2>7. \A d \in ClipsOn(graph, t) : End(graph.clips[d]) <= start BY <2>5, <2>6
  <2> QED BY <2>5, <2>7 DEF t, start
<1>4. Mirrored => InStep BY <1>3
<1>5. Mirrored /\ [Next]_timelineVars => [InStep]_timelineVars BY <1>4
<1>6. AppendInStep <=> [][InStep]_timelineVars BY DEF AppendInStep
<1> QED BY <1>1, <1>2, <1>5, <1>6, PTL DEF Spec

(* Rounding goes up by at most half a tenth. *)
LEMMA RoundsUp == \A x \in Int : Round(x) \in {x, x + 1}
BY DEF Round

(* What is shown from the moment from until the moment to by a clip that starts at start *)
Span(start, in, from, to) == {<<k, (k - start) + in>> : k \in from..(to - 1)}

(* The two spans of a cut are the span of the clip, but for at most the moment of the cut. *)
LEMMA SpansOfCut ==
  ASSUME NEW s \in Int, NEW i \in Int, NEW to \in Int, NEW left \in Nat, s + left < to, NEW cut \in {s + left, s + left + 1}
  PROVE  LET both == Span(s, i, s, s + left) \cup Span(cut, i + (cut - s), cut, to)
         IN both \subseteq Span(s, i, s, to) /\ Span(s, i, s, to) \ both \subseteq {<<s + left, left + i>>}
<1> DEFINE a == Span(s, i, s, s + left)
           b == Span(cut, i + (cut - s), cut, to)
           all == Span(s, i, s, to)
           Pair(k) == <<k, (k - s) + i>>
<1>1. a = {Pair(k) : k \in s..(s + left - 1)} /\ all = {Pair(k) : k \in s..(to - 1)} BY DEF Span
<1>2. b = {Pair(k) : k \in cut..(to - 1)}
  <2>1. \A k \in Int : (k - cut) + (i + (cut - s)) = (k - s) + i OBVIOUS
  <2>2. b = {<<k, (k - cut) + (i + (cut - s))>> : k \in cut..(to - 1)} BY DEF Span
  <2>3. \A k \in cut..(to - 1) : k \in Int OBVIOUS
  <2> QED BY <2>1, <2>2, <2>3
<1>3. Pair(s + left) = <<s + left, left + i>>
  <2>1. ((s + left) - s) + i = left + i OBVIOUS
  <2> QED BY <2>1
<1> HIDE DEF Pair, a, b, all
<1>4. s..(s + left - 1) \subseteq s..(to - 1) /\ cut..(to - 1) \subseteq s..(to - 1) OBVIOUS
<1>5. a \cup b \subseteq all BY <1>1, <1>2, <1>4
<1>6. ASSUME NEW e \in all \ (a \cup b) PROVE e = Pair(s + left)
  <2>1. PICK k \in s..(to - 1) : e = Pair(k) BY <1>1
  <2>2. k \notin s..(s + left - 1) /\ k \notin cut..(to - 1) BY <1>1, <1>2, <2>1
  <2>3. k = s + left BY <2>2
  <2> QED BY <2>1, <2>3
<1> QED BY <1>3, <1>5, <1>6 DEF a, b, all

(* A set with one possible member has at most one. *)
LEMMA AtMostOne ==
  ASSUME NEW S, NEW e, S \subseteq {e}
  PROVE  Cardinality(S) <= 1
<1>1. CASE S = {}
  <2>1. Cardinality({}) = 0 BY FS_EmptySet
  <2> QED BY <1>1, <2>1
<1>2. CASE S = {e}
  <2>1. Cardinality({e}) = 1 BY FS_Singleton
  <2> QED BY <1>2, <2>1
<1> QED BY <1>1, <1>2

(* Where the cut of a clip falls *)
LEMMA CutTimes ==
  ASSUME NEW s \in Int, NEW d \in Int, NEW time \in Int, s < time, time < s + d
  PROVE  LET left == Round(time - s)
             cut == Round(s + left)
         IN /\ left \in Nat /\ left <= d /\ cut \in {s + left, s + left + 1}
            /\ ~(0 < left /\ left < d) => left = d
            /\ 0 < left /\ left < d /\ ~(s < cut /\ cut < s + d) => left = d - 1
<1> DEFINE left == Round(time - s)
           cut == Round(s + left)
<1>1. left \in {time - s, time - s + 1}
  <2>1. time - s \in Int OBVIOUS
  <2> QED BY <2>1, RoundsUp
<1> HIDE DEF left
<1>2. left \in Int /\ 0 < left /\ left <= d BY <1>1
<1>3. cut \in {s + left, s + left + 1}
  <2>1. s + left \in Int BY <1>2
  <2> QED BY <2>1, RoundsUp
<1> HIDE DEF cut
<1> QED BY <1>2, <1>3 DEF left, cut

(* A clip that is cut and makes no second part *)
LEMMA OnePart ==
  ASSUME NEW g, NEW h, NEW c \in DOMAIN g.clips, DOMAIN h.clips = DOMAIN g.clips,
         h.clips[c].text = g.clips[c].text, h.texts = g.texts,
         Shown(h.clips[c]) \subseteq Shown(g.clips[c]), NEW e, Shown(g.clips[c]) \ Shown(h.clips[c]) \subseteq {e}
  PROVE  CutKeepsMedia(g, h, c)
<1> DEFINE parts == {c} \cup (DOMAIN h.clips \ DOMAIN g.clips)
           before == Shown(g.clips[c])
           after == UNION {Shown(h.clips[d]) : d \in parts}
<1>1. parts = {c} OBVIOUS
<1>2. after = Shown(h.clips[c]) BY <1>1
<1>3. Cardinality(before \ after) <= 1
  <2>1. before \ after \subseteq {e} BY <1>2
  <2> HIDE DEF before, after
  <2> QED BY <2>1, AtMostOne
<1> QED BY <1>1, <1>2, <1>3 DEF CutKeepsMedia

(* The two parts have the text of the clip, in two nodes. *)
TextCopied(g, h, c, n) ==
  /\ h.clips[c].text # h.clips[n].text
  /\ \A d \in {c, n} : h.texts[h.clips[d].text].content = g.texts[g.clips[c].text].content

(* A clip that is cut in two *)
LEMMA TwoParts ==
  ASSUME NEW g, NEW h, NEW c \in DOMAIN g.clips, NEW n, DOMAIN h.clips \ DOMAIN g.clips = {n},
         NEW both, both = Shown(h.clips[c]) \cup Shown(h.clips[n]),
         both \subseteq Shown(g.clips[c]), NEW e, Shown(g.clips[c]) \ both \subseteq {e},
         g.clips[c].text # None => TextCopied(g, h, c, n)
  PROVE  CutKeepsMedia(g, h, c)
<1> DEFINE parts == {c} \cup (DOMAIN h.clips \ DOMAIN g.clips)
           before == Shown(g.clips[c])
           after == UNION {Shown(h.clips[d]) : d \in parts}
<1>1. parts = {c, n} OBVIOUS
<1>2. after = both BY <1>1
<1>3. Cardinality(before \ after) <= 1
  <2>1. before \ after \subseteq {e} BY <1>2
  <2> HIDE DEF before, after
  <2> QED BY <2>1, AtMostOne
<1>4. ASSUME g.clips[c].text # None, NEW d \in parts
      PROVE  /\ h.texts[h.clips[d].text].content = g.texts[g.clips[c].text].content
             /\ \A f \in parts : h.clips[d].text = h.clips[f].text => d = f
  <2> HIDE DEF parts
  <2> QED BY <1>1, <1>4 DEF TextCopied
<1>5. after \subseteq before BY <1>2
<1> HIDE DEF after, before
<1> QED BY <1>3, <1>4, <1>5 DEF CutKeepsMedia, after, before

(* Split: a clip on a track, cut at any moment *)
LEMMA SplitShows ==
  ASSUME NEW g, Linked(g), NEW c \in DOMAIN g.clips, g.clips[c].track # None, NEW time \in Int
  PROVE  CutKeepsMedia(g, Split(g, c, time), c)
<1> DEFINE x == g.clips[c]
           s == x.start
           i == x.in
           d == x.duration
           left == Round(time - s)
           cut == Round(s + left)
           f == [g EXCEPT !.clips[c].duration = left]
           z == RightPart(x, cut)
           h == Split(g, c, time)
           n == Len(g.clips) + 1
<1>1. g \in Graphs /\ ClipsMirror(g) /\ NodesExist(g) BY DEF Linked
<1>2. g.clips \in Seq(ClipNodes) /\ x \in ClipNodes BY <1>1, GraphFields
<1>3. s \in Int /\ i \in Int /\ d \in Int BY <1>2 DEF ClipNodes
<1>4. Shown(x) = Span(s, i, s, s + d) BY DEF Shown, Span, End
<1>5. CASE ~(s < time /\ time < End(x))
  <2>1. h = g BY <1>5 DEF Split
  <2>2. Shown(g.clips[c]) \subseteq Shown(g.clips[c]) /\ Shown(g.clips[c]) \ Shown(g.clips[c]) \subseteq {c} OBVIOUS
  <2>3. CutKeepsMedia(g, g, c) BY <2>2, OnePart
  <2> QED BY <2>1, <2>3
<1>6. CASE s < time /\ time < End(x)
  <2> USE <1>6
  <2>1. /\ left \in Nat /\ left <= d /\ cut \in {s + left, s + left + 1}
        /\ ~(0 < left /\ left < d) => left = d
        /\ 0 < left /\ left < d /\ ~(s < cut /\ cut < s + d) => left = d - 1
    <3> HIDE DEF s, d
    <3> QED BY <1>3, CutTimes DEF End, s, d
  <2>2. h = IF ~(0 < left /\ left < d) \/ ~(s < cut /\ cut < End(x)) THEN f ELSE CutTo(f, z, x.text) BY DEF Split
  <2> HIDE DEF left, cut
  <2> DEFINE y == [x EXCEPT !.duration = left]
  <2>3. /\ f = [g EXCEPT !.clips = [g.clips EXCEPT ![c] = y]]
        /\ y.start = s /\ y.in = i /\ y.duration = left /\ y.text = x.text /\ SameLinks(x, y)
    <3>1. left \in Int BY <2>1
    <3>2. SameLinks(x, y) /\ y.text = x.text /\ y.start = s /\ y.in = i /\ y.duration = left
      BY <1>2, <3>1 DEF ClipNodes, SameLinks
    <3>3. f = [g EXCEPT !.clips = [g.clips EXCEPT ![c] = y]] OBVIOUS
    <3> HIDE DEF f, y
    <3> QED BY <3>2, <3>3
  <2>4. Shown(y) = Span(s, i, s, s + left) BY <2>3 DEF Shown, Span, End
  <2> HIDE DEF y
  <2>5. /\ f.texts = g.texts /\ f.tracks = g.tracks /\ f.clips = [g.clips EXCEPT ![c] = y]
        /\ DOMAIN f.clips = DOMAIN g.clips /\ f.clips[c] = y
    BY <1>1, <2>3 DEF Graphs
  <2>6. CASE ~(0 < left /\ left < d) \/ ~(s < cut /\ cut < End(x))
    <3>1. h = f BY <2>2, <2>6
    <3>2. left = d \/ (left = d - 1) BY <2>1, <2>6 DEF End
    <3> DEFINE e == <<s + left, left + i>>
    <3>3. Shown(y) \subseteq Shown(x) /\ Shown(x) \ Shown(y) \subseteq {e}
      <4>1. CASE left = d BY <1>4, <2>4, <4>1
      <4>2. CASE left = d - 1
        <5> DEFINE to == s + d
                   a == Span(s, i, s, s + left)
                   b == Span(to, i + (to - s), to, to)
        <5>1. to \in Int /\ s + left < to /\ to \in {s + left, s + left + 1} BY <1>3, <4>2
        <5>2. b = {}
          <6>1. to..(to - 1) = {} BY <5>1
          <6> QED BY <6>1 DEF Span
        <5> HIDE DEF to, s, i
        <5>3. /\ a \cup b \subseteq Span(s, i, s, to)
              /\ Span(s, i, s, to) \ (a \cup b) \subseteq {e}
          BY <1>3, <2>1, <5>1, SpansOfCut
        <5> HIDE DEF a, b, e
        <5> QED BY <1>4, <2>4, <5>2, <5>3 DEF to, a
      <4> QED BY <3>2, <4>1, <4>2
    <3> HIDE DEF e, f
    <3>4. CutKeepsMedia(g, f, c) BY <2>3, <2>5, <3>3, OnePart
    <3> QED BY <3>1, <3>4
  <2>7. CASE (0 < left /\ left < d) /\ (s < cut /\ cut < End(x))
    <3> DEFINE k == AddClip(f, z)
               to == s + d
               a == Span(s, i, s, s + left)
               b == Span(cut, i + (cut - s), cut, to)
               e == <<s + left, left + i>>
    <3>1. h = CutTo(f, z, x.text) BY <2>2, <2>7
    <3>2. cut \in Int /\ to \in Int /\ s + left < to BY <1>3, <2>1, <2>7
    <3>3. z.start = cut /\ z.in = i + (cut - s) /\ z.duration = to - cut /\ z \in ClipNodes
      <4> DEFINE m == End(x) - cut
                 j == i + (cut - s)
                 o == <<>>
                 x1 == [x EXCEPT !.start = cut, !.in = j, !.duration = m]
                 x2 == [x1 EXCEPT !.fadeIn = 0]
                 x3 == [x2 EXCEPT !.effects = o]
      <4>1. z = [x3 EXCEPT !.text = None] BY DEF RightPart
      <4>2. o \in Seq(Nat) /\ m \in Int /\ j \in Int /\ m = to - cut /\ None \in Nat BY <1>3, <3>2 DEF End, None
      <4> HIDE DEF z, o, m, x
      <4>3. j \in Int BY <4>2
      <4> HIDE DEF j
      <4>4. x1 \in ClipNodes /\ x1.start = cut /\ x1.in = j /\ x1.duration = m BY <1>2, <3>2, <4>2, <4>3 DEF ClipNodes
      <4> HIDE DEF x1
      <4>5. x2 \in ClipNodes /\ x2.start = x1.start /\ x2.in = x1.in /\ x2.duration = x1.duration BY <4>4 DEF ClipNodes
      <4> HIDE DEF x2
      <4>6. x3 \in ClipNodes /\ x3.start = x1.start /\ x3.in = x1.in /\ x3.duration = x1.duration BY <4>2, <4>5 DEF ClipNodes
      <4> HIDE DEF x3
      <4>7. z \in ClipNodes /\ z.start = x1.start /\ z.in = x1.in /\ z.duration = x1.duration BY <4>1, <4>2, <4>6 DEF ClipNodes
      <4> QED BY <4>2, <4>4, <4>7 DEF j
    <3>4. ASSUME NEW w, w.start = cut, w.in = i + (cut - s), w.duration = to - cut PROVE Shown(w) = b
      <4>1. End(w) = to BY <3>2, <3>4 DEF End
      <4> QED BY <3>4, <4>1 DEF Shown, Span
    <3>5. a \cup b \subseteq Shown(x) /\ Shown(x) \ (a \cup b) \subseteq {e}
      <4>1. cut \in {s + left, s + left + 1} /\ left \in Nat BY <2>1
      <4> HIDE DEF s, i, to
      <4>2. a \cup b \subseteq Span(s, i, s, to) /\ Span(s, i, s, to) \ (a \cup b) \subseteq {e}
        BY <1>3, <3>2, <4>1, SpansOfCut
      <4> HIDE DEF a, b, e, x, d
      <4> QED BY <1>4, <4>2 DEF to
    <3> DEFINE t == f.clips
    <3>6. t \in Seq(ClipNodes) /\ Len(t) = Len(g.clips) /\ DOMAIN t = DOMAIN g.clips
      <4>1. y \in ClipNodes BY <2>3 DEF SameLinks
      <4>2. [g.clips EXCEPT ![c] = y] \in Seq(ClipNodes) BY <1>2, <4>1, ReplacedKeeps
      <4> HIDE DEF f
      <4> QED BY <1>2, <2>5, <4>2
    <3>7. k.clips = Append(t, z) /\ k.texts = g.texts
      <4>1. f \in [projects : {f.projects}, tracks : {f.tracks}, clips : {f.clips}, texts : {f.texts}, effects : {f.effects}, resources : {f.resources}]
        BY <1>1 DEF Graphs
      <4> HIDE DEF f, z
      <4> QED BY <2>5, <4>1 DEF AddClip
    <3>8. /\ DOMAIN k.clips \ DOMAIN g.clips = {n} /\ n \notin DOMAIN g.clips
          /\ k.clips[n] = z /\ k.clips[c] = y /\ k.clips \in Seq(ClipNodes) /\ Len(k.clips) = n
      <4> HIDE DEF t, z, k
      <4>1. /\ DOMAIN Append(t, z) \ DOMAIN t = {Len(t) + 1} /\ Len(t) + 1 \notin DOMAIN t
            /\ Append(t, z)[Len(t) + 1] = z /\ \A q \in DOMAIN t : Append(t, z)[q] = t[q]
        BY <3>3, <3>6, OneMore
      <4>2. Append(t, z) \in Seq(ClipNodes) /\ Len(Append(t, z)) = Len(t) + 1 BY <3>3, <3>6, AppendedKeeps
      <4>3. t[c] = y BY <2>5 DEF t
      <4> QED BY <3>6, <3>7, <4>1, <4>2, <4>3
    <3> HIDE DEF t, z, k, f, e
    <3>9. CASE x.text = None
      <4>1. h = k BY <3>1, <3>9 DEF CutTo, k
      <4>2. Shown(k.clips[c]) \cup Shown(k.clips[n]) = a \cup b BY <2>4, <3>3, <3>4, <3>8
      <4> HIDE DEF a, b, h
      <4>3. CutKeepsMedia(g, k, c) BY <3>5, <3>8, <3>9, <4>2, TwoParts
      <4> QED BY <4>1, <4>3 DEF h
    <3>10. CASE x.text # None
      <4> DEFINE l == g.texts[x.text].content
                 u == LinkText(k, l)
                 r == [z EXCEPT !.text = Len(g.texts) + 1]
                 new == [clip |-> n, content |-> l]
      <4>1. h = u BY <2>5, <3>1, <3>10 DEF CutTo, k
      <4>2. u.clips = [k.clips EXCEPT ![n] = r] /\ u.texts = Append(g.texts, new)
        <5>1. k \in [projects : {k.projects}, tracks : {k.tracks}, clips : {k.clips}, texts : {k.texts}, effects : {k.effects}, resources : {k.resources}]
          BY <1>1 DEF Graphs, k, f, AddClip
        <5>2. u.clips = [k.clips EXCEPT ![Len(k.clips)].text = Len(k.texts) + 1] /\ u.texts = Append(k.texts, [clip |-> Len(k.clips), content |-> l])
          BY <5>1 DEF LinkText
        <5> HIDE DEF u
        <5> QED BY <3>7, <3>8, <5>2
      <4>3. g.texts \in Seq(TextNodes) /\ x.text \in DOMAIN g.texts BY <1>1, <3>10, GraphFields DEF NodesExist, Refs
      <4>4. l \in Looks
        <5>1. g.texts[x.text] \in TextNodes BY <4>3
        <5> QED BY <5>1 DEF TextNodes
      <4> DEFINE m == Len(g.texts) + 1
      <4>5. m \in Nat /\ x.text # m /\ u.texts[x.text] = g.texts[x.text] /\ u.texts[m] = new
        <5> HIDE DEF new, l, u, x
        <5> QED BY <4>2, <4>3
      <4>6. r.text = m /\ r.start = z.start /\ r.in = z.in /\ r.duration = z.duration
        <5> HIDE DEF m
        <5> QED BY <3>3, <4>5 DEF ClipNodes, m
      <4>7. new.content = l OBVIOUS
      <4> HIDE DEF u, r, new, m, x
      <4>8. /\ u.clips[c] = y /\ u.clips[n] = r /\ DOMAIN u.clips = DOMAIN k.clips
        <5>1. c # n /\ n \in DOMAIN k.clips BY <3>8
        <5> QED BY <3>8, <4>2, <5>1
      <4>9. Shown(r) = b BY <3>3, <3>4, <4>6
      <4>10. Shown(u.clips[c]) \cup Shown(u.clips[n]) = a \cup b BY <2>4, <4>8, <4>9 DEF x
      <4>11. u.clips[c].text # u.clips[n].text BY <2>3, <4>5, <4>6, <4>8
      <4>12. \A q \in {c, n} : u.texts[u.clips[q].text].content = g.texts[x.text].content
        BY <2>3, <4>5, <4>6, <4>7, <4>8 DEF l
      <4> HIDE DEF a, b, h
      <4>13. DOMAIN u.clips \ DOMAIN g.clips = {n} BY <3>8, <4>8
      <4>14. TextCopied(g, u, c, n) BY <4>11, <4>12 DEF x, TextCopied
      <4>15. CutKeepsMedia(g, u, c) BY <3>5, <4>10, <4>13, <4>14, TwoParts DEF x
      <4> QED BY <4>1, <4>15 DEF h
    <3> QED BY <3>9, <3>10
  <2> QED BY <2>6, <2>7
<1> QED BY <1>5, <1>6

(***************************************************************************)
(* A cut leaves on the track what was shown there before, but for half a    *)
(* tenth at most, at whatever moment a tab cuts whatever clip, and the      *)
(* parts of a text clip have the same text (Clip.splitSelfAt,               *)
(* Track.splitClipAt).                                                     *)
(***************************************************************************)
THEOREM CutsKeepMedia == Spec => SplitKeepsMedia
<1> DEFINE Cuts ==
      \A c \in Clips \ Removed :
        (\E m \in Moments : SplitSelfAt(c, m)) \/ (\E tab \in Tabs : Selected(tab) = c /\ SplitSelected(tab))
          => CutKeepsMedia(graph, graph', c)
<1>1. Init => Mirrored BY InitMirrored
<1>2. Mirrored /\ [Next]_timelineVars => Mirrored' BY StepKeeps
<1>3. ASSUME Mirrored, NEW c \in Clips \ Removed, NEW m \in Int, NEW command, Edit(command, Split(graph, c, m))
      PROVE  CutKeepsMedia(graph, graph', c)
  <2>1. Linked(graph) /\ c \in DOMAIN graph.clips /\ graph.clips[c].track # None BY <1>3 DEF Mirrored, Clips, Removed
  <2>2. CutKeepsMedia(graph, Split(graph, c, m), c) BY <2>1, SplitShows
  <2>3. CutKeepsMedia(graph, graph, c)
    <3>1. Shown(graph.clips[c]) \subseteq Shown(graph.clips[c]) /\ Shown(graph.clips[c]) \ Shown(graph.clips[c]) \subseteq {c} OBVIOUS
    <3> QED BY <2>1, <3>1, OnePart
  <2>4. graph' \in {graph, Split(graph, c, m)} BY <1>3 DEF Edit, Becomes
  <2> QED BY <2>2, <2>3, <2>4
<1>4. Mirrored => Cuts
  <2>1. ASSUME Mirrored, NEW c \in Clips \ Removed, NEW m \in Moments, SplitSelfAt(c, m) PROVE CutKeepsMedia(graph, graph', c)
    <3>1. m \in Int BY Durations
    <3> QED BY <1>3, <2>1, <3>1 DEF SplitSelfAt
  <2>2. ASSUME Mirrored, NEW c \in Clips \ Removed, NEW tab \in Tabs, Selected(tab) = c, SplitSelected(tab)
        PROVE  CutKeepsMedia(graph, graph', c)
    <3>1. session[tab].cursor \in Int BY <2>2, TabHolds
    <3> QED BY <1>3, <2>2, <3>1 DEF SplitSelected
  <2> QED BY <2>1, <2>2
<1>5. Mirrored /\ [Next]_timelineVars => [Cuts]_timelineVars BY <1>4
<1>6. SplitKeepsMedia <=> [][Cuts]_timelineVars BY DEF SplitKeepsMedia
<1> QED BY <1>1, <1>2, <1>5, <1>6, PTL DEF Spec

=============================================================================
