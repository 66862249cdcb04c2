------------------------- MODULE Rendering_proofs -------------------------
(***************************************************************************)
(* Proofs about Rendering: the stage and the canvas worker follow the       *)
(* session, and the frames and the sound of an export are those of the       *)
(* preview, for any structures, ranges, lengths, rates and tolerances.       *)
(*                                                                         *)
(* First what the functions on clips do: Only keeps order and membership,    *)
(* Sorted is in order, and the three evaluations of a clip (createPreview-   *)
(* Frame, compileFrameOperationsFromPlan and the canvas worker's) agree.     *)
(* PreviewInv then says that the elements of the stage were told the         *)
(* committed state, and that the canvas has painted the committed frame or   *)
(* has it in its queue.  ExportInv says of every frame drawn that it is       *)
(* right, of the frame being prepared that its layers and what is to do are   *)
(* its operations and that a video stands near the source time of the last    *)
(* layer that it was prepared for, and of the sound that every clip's is       *)
(* where it belongs.                                                        *)
(***************************************************************************)
EXTENDS Rendering, FiniteSetTheorems, WellFoundedInduction, SequenceTheorems, TLAPS

-----------------------------------------------------------------------------
(* Orders of finite sets. *)

(* Numbers given to the elements of a finite set, no two the same and none     *)
(* above their count, are all given.                                        *)
LEMMA AllGiven ==
  ASSUME NEW D, IsFiniteSet(D), NEW r \in [D -> 1..Cardinality(D)],
         \A a, b \in D : r[a] = r[b] => a = b
  PROVE  \A k \in 1..Cardinality(D) : \E d \in D : r[d] = k
<1>1. Cardinality(D) \in Nat BY FS_CardinalityType
<1>2. IsFiniteSet(1..Cardinality(D)) /\ Cardinality(1..Cardinality(D)) = Cardinality(D)
  BY <1>1, FS_Interval
<1>3. r \in Injection(D, 1..Cardinality(D)) BY DEF Injection, IsInjective
<1>4. r \in Surjection(D, 1..Cardinality(D)) BY <1>2, <1>3, FS_Injection
<1> QED BY <1>4 DEF Surjection

(* And the other way round: numbers to elements, none twice, reach them all.    *)
LEMMA AllReached ==
  ASSUME NEW D, IsFiniteSet(D), NEW f \in [1..Cardinality(D) -> D],
         \A j, k \in 1..Cardinality(D) : f[j] = f[k] => j = k
  PROVE  \A d \in D : \E k \in 1..Cardinality(D) : f[k] = d
<1>1. Cardinality(D) \in Nat BY FS_CardinalityType
<1>2. Cardinality(1..Cardinality(D)) = Cardinality(D) BY <1>1, FS_Interval
<1>3. f \in Injection(1..Cardinality(D), D) BY DEF Injection, IsInjective
<1>4. f \in Surjection(1..Cardinality(D), D) BY <1>2, <1>3, FS_Injection
<1> QED BY <1>4 DEF Surjection

(* A set of whole numbers can be listed in its order. *)
Lists(f, I) ==
  /\ f \in [1..Cardinality(I) -> I]
  /\ \A j, k \in DOMAIN f : j < k => f[j] < f[k]

(* A finite set of numbers has an order, and what Only picks is one. *)
LEMMA ListExists ==
  ASSUME NEW I \in SUBSET Int, IsFiniteSet(I)
  PROVE  \E f : Lists(f, I)
<1> DEFINE upTo(i) == {j \in I : j <= i}
           r == [i \in I |-> Cardinality(upTo(i))]
<1>1. Cardinality(I) \in Nat BY FS_CardinalityType
<1>2. ASSUME NEW i \in I PROVE IsFiniteSet(upTo(i)) /\ Cardinality(upTo(i)) \in 1..Cardinality(I)
  <2>1. upTo(i) \in SUBSET I /\ i \in upTo(i) OBVIOUS
  <2>2. IsFiniteSet(upTo(i)) /\ Cardinality(upTo(i)) <= Cardinality(I) BY <2>1, FS_Subset
  <2>3. Cardinality(upTo(i)) # 0 BY <2>1, <2>2, FS_EmptySet
  <2> QED BY <1>1, <2>2, <2>3, FS_CardinalityType
<1>3. r \in [I -> 1..Cardinality(I)] BY <1>2
<1>4. ASSUME NEW a \in I, NEW b \in I, a < b PROVE r[a] < r[b]
  <2>0. a \in Int /\ b \in Int /\ \A j \in I : j \in Int OBVIOUS
  <2>1. b \in upTo(b) /\ b \notin upTo(a) BY <1>4, <2>0
  <2>3. \A j \in I : j <= a => j <= b BY <1>4, <2>0
  <2>4. upTo(a) \in SUBSET upTo(b) BY <2>3
  <2>2. Cardinality(upTo(a)) <= Cardinality(upTo(b)) /\ Cardinality(upTo(a)) # Cardinality(upTo(b))
    BY <1>2, <2>1, <2>4, FS_Subset
  <2> HIDE DEF upTo
  <2> QED BY <1>2, <2>2
<1> HIDE DEF r
<1>5. \A a, b \in I : r[a] = r[b] => a = b BY <1>1, <1>3, <1>4
<1>6. \A k \in 1..Cardinality(I) : \E i \in I : r[i] = k BY <1>3, <1>5, AllGiven
<1> DEFINE f == [k \in 1..Cardinality(I) |-> CHOOSE i \in I : r[i] = k]
<1>7. \A k \in 1..Cardinality(I) : f[k] \in I /\ r[f[k]] = k BY <1>6
<1>8. f \in [1..Cardinality(I) -> I] BY <1>7
<1> HIDE DEF f
<1>9. ASSUME NEW j \in 1..Cardinality(I), NEW k \in 1..Cardinality(I), j < k PROVE f[j] < f[k]
  <2>1. f[j] \in I /\ f[k] \in I /\ r[f[j]] = j /\ r[f[k]] = k BY <1>7
  <2>0. \A i \in I : i \in Int OBVIOUS
  <2>4. j \in Int /\ k \in Int BY <1>1
  <2>5. f[j] \in Int /\ f[k] \in Int BY <2>0, <2>1
  <2>2. CASE f[k] < f[j]
    <3>1. r[f[k]] < r[f[j]] BY <1>4, <2>1, <2>2
    <3> QED BY <1>9, <2>1, <2>4, <3>1
  <2>3. CASE f[k] = f[j] BY <1>9, <2>1, <2>4, <2>3
  <2> QED BY <2>5, <2>2, <2>3
<1>10. Lists(f, I) BY <1>8, <1>9 DEF Lists
<1> QED BY <1>10

(* The order names every number of the set. *)
LEMMA ListReaches ==
  ASSUME NEW I \in SUBSET Int, IsFiniteSet(I), NEW f, Lists(f, I)
  PROVE  \A i \in I : \E k \in 1..Cardinality(I) : f[k] = i
<1>1. f \in [1..Cardinality(I) -> I] /\ Cardinality(I) \in Nat BY FS_CardinalityType DEF Lists
<1>2. ASSUME NEW j \in 1..Cardinality(I), NEW k \in 1..Cardinality(I), f[j] = f[k] PROVE j = k
  <2>0. \A i \in I : i \in Int OBVIOUS
  <2>4. j \in Int /\ k \in Int /\ f[j] \in I /\ f[k] \in I BY <1>1
  <2>1. f[j] \in Int /\ f[k] \in Int BY <2>0, <2>4
  <2>2. ~(f[j] < f[k]) /\ ~(f[k] < f[j]) BY <1>2, <2>1
  <2>3. ~(j < k) /\ ~(k < j) BY <1>1, <2>2 DEF Lists
  <2> QED BY <2>4, <2>3
<1> QED BY <1>1, <1>2, AllReached

-----------------------------------------------------------------------------
(* Only: a sequence with the elements at the indices, and no others. *)

(* What is picked from a sequence of some kind is a sequence of that kind. *)
LEMMA OnlyIsSeq ==
  ASSUME NEW T, NEW s, NEW I \in SUBSET Int, IsFiniteSet(I), \A i \in I : s[i] \in T
  PROVE  Only(s, I) \in Seq(T) /\ Len(Only(s, I)) = Cardinality(I)
<1> DEFINE order == CHOOSE f \in [1..Cardinality(I) -> I] : \A j, k \in DOMAIN f : j < k => f[j] < f[k]
<1>1. Cardinality(I) \in Nat BY FS_CardinalityType
<1>2. Lists(order, I) BY ListExists DEF Lists
<1>3. order \in [1..Cardinality(I) -> I] BY <1>2 DEF Lists
<1>4. Only(s, I) = [k \in DOMAIN order |-> s[order[k]]] BY DEF Only
<1> HIDE DEF order
<1>5. Only(s, I) = [k \in 1..Cardinality(I) |-> s[order[k]]] BY <1>3, <1>4
<1>6. Only(s, I) \in [1..Cardinality(I) -> T] BY <1>3, <1>5
<1> QED BY <1>1, <1>6

(* What is picked are the elements at the indices, all of them and no others. *)
LEMMA OnlyElements ==
  ASSUME NEW s, NEW I \in SUBSET Int, IsFiniteSet(I)
  PROVE  ToSet(Only(s, I)) = {s[i] : i \in I}
<1> DEFINE order == CHOOSE f \in [1..Cardinality(I) -> I] : \A j, k \in DOMAIN f : j < k => f[j] < f[k]
<1>1. Cardinality(I) \in Nat BY FS_CardinalityType
<1>2. Lists(order, I) BY ListExists DEF Lists
<1>3. order \in [1..Cardinality(I) -> I] BY <1>2 DEF Lists
<1>4. Only(s, I) = [k \in DOMAIN order |-> s[order[k]]] BY DEF Only
<1> HIDE DEF order
<1>5. Only(s, I) = [k \in 1..Cardinality(I) |-> s[order[k]]] BY <1>3, <1>4
<1>7. \A i \in I : \E k \in 1..Cardinality(I) : order[k] = i BY <1>2, ListReaches
<1>8. DOMAIN Only(s, I) = 1..Cardinality(I) BY <1>5
<1>9. ToSet(Only(s, I)) = {Only(s, I)[k] : k \in 1..Cardinality(I)} BY <1>8 DEF ToSet
<1>10. \A k \in 1..Cardinality(I) : Only(s, I)[k] = s[order[k]] BY <1>5
<1>11. ToSet(Only(s, I)) = {s[order[k]] : k \in 1..Cardinality(I)} BY <1>9, <1>10
<1>12. \A k \in 1..Cardinality(I) : order[k] \in I BY <1>3
<1>13. {s[order[k]] : k \in 1..Cardinality(I)} = {s[i] : i \in I} BY <1>7, <1>12
<1> QED BY <1>11, <1>13

(* What is not in a sequence is not missed by the order. *)
LEMMA OnlySame ==
  ASSUME NEW s, NEW t, NEW I \in SUBSET Int, IsFiniteSet(I), \A i \in I : s[i] = t[i]
  PROVE  Only(s, I) = Only(t, I)
<1> DEFINE order == CHOOSE f \in [1..Cardinality(I) -> I] : \A j, k \in DOMAIN f : j < k => f[j] < f[k]
<1>2. Lists(order, I) BY ListExists DEF Lists
<1>4. /\ Only(s, I) = [k \in DOMAIN order |-> s[order[k]]]
      /\ Only(t, I) = [k \in DOMAIN order |-> t[order[k]]]
  BY DEF Only
<1> HIDE DEF order
<1>5. \A k \in DOMAIN order : order[k] \in I BY <1>2 DEF Lists
<1> QED BY <1>4, <1>5

-----------------------------------------------------------------------------
(* The least and the greatest. *)

(* The greater of two. *)
LEMMA MaxOfTwo ==
  ASSUME NEW a \in Int, NEW b \in Int
  PROVE  Max({a, b}) = IF a >= b THEN a ELSE b
<1> DEFINE m == CHOOSE x \in {a, b} : \A y \in {a, b} : x >= y
<1>1. \E x \in {a, b} : \A y \in {a, b} : x >= y OBVIOUS
<1>2. m \in {a, b} /\ m >= a /\ m >= b BY <1>1
<1>3. Max({a, b}) = m BY DEF Max
<1> HIDE DEF m
<1> QED BY <1>2, <1>3

(* The lesser of two. *)
LEMMA MinOfTwo ==
  ASSUME NEW a \in Int, NEW b \in Int
  PROVE  Min({a, b}) = IF a <= b THEN a ELSE b
<1> DEFINE m == CHOOSE x \in {a, b} : \A y \in {a, b} : x <= y
<1>1. \E x \in {a, b} : \A y \in {a, b} : x <= y OBVIOUS
<1>2. m \in {a, b} /\ m <= a /\ m <= b BY <1>1
<1>3. Min({a, b}) = m BY DEF Min
<1> HIDE DEF m
<1> QED BY <1>2, <1>3

(* A set of natural numbers that is not empty has a least. *)
LEMMA LeastExists ==
  ASSUME NEW S \in SUBSET Nat, S # {}
  PROVE  \E x \in S : \A y \in S : x <= y
<1>0. \A y \in S : y \in Nat OBVIOUS
<1>1. PICK x \in S : \A y \in S : ~(<<y, x>> \in OpToRel(<, Nat))
  BY WFMin, NatLessThanWellFounded
<1>2. ASSUME NEW y \in S PROVE x <= y
  <2>1. x \in Nat /\ y \in Nat BY <1>0
  <2>2. ~(y < x) BY <1>1, <2>1 DEF OpToRel
  <2> QED BY <2>1, <2>2
<1> QED BY <1>2

(* Min finds it. *)
LEMMA MinIsLeast ==
  ASSUME NEW S \in SUBSET Nat, S # {}
  PROVE  Min(S) \in S /\ \A y \in S : Min(S) <= y
<1>1. \E x \in S : \A y \in S : x <= y BY LeastExists
<1> QED BY <1>1 DEF Min

(* The ends of finitely many clips have a greatest. *)
LEMMA BoundExists ==
  ASSUME NEW n \in Nat, NEW f \in [1..n -> Int]
  PROVE  \E b \in Int : \A i \in 1..n : f[i] <= b
<1> DEFINE Bounded(k) == \E b \in Int : \A i \in 1..k : f[i] <= b
           S == {k \in Nat : k <= n /\ ~Bounded(k)}
<1>1. SUFFICES S = {}
  <2>1. n \notin S BY <1>1
  <2> QED BY <2>1
<1>2. SUFFICES ASSUME S # {} PROVE FALSE OBVIOUS
<1>3. PICK k \in S : \A y \in S : k <= y BY <1>2, LeastExists
<1>4. Bounded(0) OBVIOUS
<1>5. k \in Nat /\ k <= n /\ ~Bounded(k) BY <1>3
<1>6. k # 0 BY <1>4, <1>5
<1>7. k - 1 \in Nat /\ k - 1 <= n /\ k - 1 < k BY <1>5, <1>6
<1>8. k - 1 \notin S
  <2>1. ~(k <= k - 1) BY <1>7, <1>5
  <2> QED BY <1>3, <2>1
<1>9. Bounded(k - 1) BY <1>7, <1>8
<1>10. PICK b \in Int : \A i \in 1..(k - 1) : f[i] <= b BY <1>9
<1>11. k \in 1..n /\ f[k] \in Int BY <1>5, <1>6
<1> DEFINE c == IF f[k] <= b THEN b ELSE f[k]
<1>12. c \in Int /\ b <= c /\ f[k] <= c BY <1>11
<1> HIDE DEF c
<1>13. ASSUME NEW i \in 1..k PROVE f[i] <= c
  <2>1. CASE i = k BY <1>12, <2>1
  <2>2. CASE i # k
    <3>1. i \in 1..(k - 1) /\ i \in 1..n BY <1>5, <2>2
    <3>2. f[i] <= b /\ f[i] \in Int BY <1>10, <3>1
    <3> QED BY <1>12, <3>2
  <2> QED BY <2>1, <2>2
<1>14. Bounded(k) BY <1>12, <1>13
<1> QED BY <1>5, <1>14

-----------------------------------------------------------------------------
(* Keyframes. *)

Keyframes == [time : Int, value : Int, hold : BOOLEAN]

(* Sorted has the keyframes, in the order of their times. *)
LEMMA SortedInOrder ==
  ASSUME NEW ks \in Seq(Keyframes)
  PROVE  /\ Sorted(ks) \in Seq(Keyframes)
         /\ Len(Sorted(ks)) = Len(ks)
         /\ \A j, k \in 1..Len(ks) : j < k => Sorted(ks)[j].time <= Sorted(ks)[k].time
<1> DEFINE n == Len(ks)
           t == [i \in 1..n |-> ks[i].time]
           Before(j, i) == t[j] < t[i] \/ (t[j] = t[i] /\ j <= i)
           upTo(i) == {j \in 1..n : Before(j, i)}
           r == [i \in 1..n |-> Cardinality(upTo(i))]
<1>1. n \in Nat /\ DOMAIN ks = 1..n /\ ks \in [1..n -> Keyframes] OBVIOUS
<1>2. t \in [1..n -> Int] BY <1>1 DEF Keyframes
<1>3. \A i \in 1..n : ks[i].time = t[i] OBVIOUS
<1>4. \A i \in 1..n : Place(ks, i) = Cardinality(upTo(i))
  <2>1. TAKE i \in 1..n
  <2>2. {j \in DOMAIN ks : \/ ks[j].time < ks[i].time
                           \/ ks[j].time = ks[i].time /\ j <= i} = upTo(i)
    BY <1>1, <1>3
  <2> QED BY <2>2 DEF Place
<1>5. IsFiniteSet(1..n) /\ Cardinality(1..n) = n BY <1>1, FS_Interval
<1> HIDE DEF n, t
<1>20. \A i \in 1..n : i \in Int /\ t[i] \in Int BY <1>1, <1>2
<1>6. ASSUME NEW i \in 1..n PROVE IsFiniteSet(upTo(i)) /\ Cardinality(upTo(i)) \in 1..n
  <2>0. i \in Int /\ t[i] \in Int BY <1>20
  <2>1. upTo(i) \in SUBSET (1..n) /\ i \in upTo(i) BY <2>0
  <2>2. IsFiniteSet(upTo(i)) /\ Cardinality(upTo(i)) <= n BY <1>5, <2>1, FS_Subset
  <2>3. Cardinality(upTo(i)) # 0 BY <2>1, <2>2, FS_EmptySet
  <2> QED BY <1>1, <2>2, <2>3, FS_CardinalityType
<1>7. r \in [1..n -> 1..n] BY <1>6
<1>8. ASSUME NEW a \in 1..n, NEW b \in 1..n, a # b, Before(a, b) PROVE r[a] < r[b]
  <2>1. a \in Int /\ b \in Int /\ t[a] \in Int /\ t[b] \in Int BY <1>20
  <2>2. ASSUME NEW j \in 1..n, Before(j, a) PROVE Before(j, b)
    <3>1. j \in Int /\ t[j] \in Int BY <1>20
    <3> QED BY <1>8, <2>1, <2>2, <3>1
  <2>3. b \in upTo(b) /\ b \notin upTo(a) BY <1>8, <2>1
  <2>4. upTo(a) \in SUBSET upTo(b) BY <2>2
  <2> HIDE DEF upTo
  <2>5. Cardinality(upTo(a)) <= Cardinality(upTo(b)) /\ Cardinality(upTo(a)) # Cardinality(upTo(b))
    BY <1>6, <2>3, <2>4, FS_Subset
  <2> QED BY <1>1, <1>6, <2>5
<1>9. ASSUME NEW a \in 1..n, NEW b \in 1..n PROVE Before(a, b) \/ Before(b, a) BY <1>20
<1> HIDE DEF r, Before
<1>10. ASSUME NEW a \in 1..n, NEW b \in 1..n, r[a] = r[b] PROVE a = b
  <2>1. r[a] \in Int /\ r[b] \in Int BY <1>1, <1>7
  <2> QED BY <1>8, <1>9, <1>10, <2>1
<1>11. \A k \in 1..n : \E i \in 1..n : r[i] = k
  <2> DEFINE D == 1..n
  <2>1. IsFiniteSet(D) /\ Cardinality(D) = n /\ r \in [D -> 1..n] BY <1>5, <1>7
  <2>2. \A a, b \in D : r[a] = r[b] => a = b BY <1>10
  <2> HIDE DEF D
  <2>3. r \in [D -> 1..Cardinality(D)] BY <2>1
  <2>4. \A k \in 1..Cardinality(D) : \E i \in D : r[i] = k BY <2>1, <2>2, <2>3, AllGiven
  <2> QED BY <2>1, <2>4 DEF D
<1>13. \A i \in 1..n : r[i] = Place(ks, i) BY <1>4 DEF r
<1>14. \A k \in 1..n : (CHOOSE i \in 1..n : Place(ks, i) = k) \in 1..n
                       /\ r[CHOOSE i \in 1..n : Place(ks, i) = k] = k
  BY <1>11, <1>13
<1> DEFINE h == [k \in 1..n |-> CHOOSE i \in 1..n : Place(ks, i) = k]
<1>15. \A k \in 1..n : h[k] \in 1..n /\ r[h[k]] = k BY <1>14
<1>16. Sorted(ks) = [k \in 1..n |-> ks[h[k]]] BY <1>1 DEF Sorted, n
<1> HIDE DEF h
<1>17. Sorted(ks) \in [1..n -> Keyframes] BY <1>1, <1>15, <1>16
<1>18. Sorted(ks) \in Seq(Keyframes) /\ Len(Sorted(ks)) = n BY <1>1, <1>17
<1>19. ASSUME NEW j \in 1..n, NEW k \in 1..n, j < k PROVE Sorted(ks)[j].time <= Sorted(ks)[k].time
  <2>1. Sorted(ks)[j].time = t[h[j]] /\ Sorted(ks)[k].time = t[h[k]] BY <1>3, <1>15, <1>16
  <2>2. h[j] \in 1..n /\ h[k] \in 1..n /\ r[h[j]] = j /\ r[h[k]] = k BY <1>15
  <2>3. j \in Int /\ k \in Int BY <1>1
  <2>4. h[j] # h[k] BY <1>19, <2>2, <2>3
  <2>5. ~Before(h[k], h[j])
    <3>1. SUFFICES ASSUME Before(h[k], h[j]) PROVE FALSE OBVIOUS
    <3>2. r[h[k]] < r[h[j]] BY <1>8, <2>2, <2>4, <3>1
    <3> QED BY <1>19, <2>2, <2>3, <3>2
  <2>6. Before(h[j], h[k]) BY <1>9, <2>2, <2>5
  <2>7. t[h[j]] \in Int /\ t[h[k]] \in Int BY <1>20, <2>2
  <2> QED BY <2>1, <2>6, <2>7 DEF Before
<1> QED BY <1>18, <1>19 DEF n

-----------------------------------------------------------------------------
(* Clips, and what they show at an instant. *)

IsClip(c) ==
  /\ c.start \in Nat /\ c.duration \in Nat /\ c.inPoint \in Nat
  /\ c.fadeIn \in Nat /\ c.fadeOut \in Nat
  /\ c.opacity.keyframes \in Seq(Keyframes) /\ c.opacity.value \in Int
  /\ c.resource \in DOMAIN Length

AreClips(s) == s \in Seq(ToSet(s)) /\ \A i \in DOMAIN s : IsClip(s[i])

(* What the assumption says of a structure. *)
LEMMA StructureHasClips ==
  ASSUME NEW s \in Structures
  PROVE  AreClips(s)
<1>1. s \in Seq(ToSet(s)) BY StructuresAssumption
<1>2. ASSUME NEW i \in DOMAIN s PROVE IsClip(s[i])
  <2>1. s[i] \in ToSet(s) BY DEF ToSet
  <2> DEFINE c == s[i]
  <2> HIDE DEF c
  <2>2. c \in ToSet(s) BY <2>1 DEF c
  <2>3. /\ {c.start, c.duration, c.inPoint, c.fadeIn, c.fadeOut} \subseteq Nat
        /\ c.opacity.keyframes \in Seq(Keyframes)
        /\ c.opacity.value \in Int /\ c.resource \in DOMAIN Length
    BY <2>2, StructuresAssumption DEF Keyframes
  <2>4. IsClip(c) BY <2>3 DEF IsClip
  <2> QED BY <2>4 DEF c
<1> QED BY <1>1, <1>2 DEF AreClips

(* A plan that was not made yet has no clips, which are of the right kind. *)
LEMMA NoClips == AreClips(<<>>)
<1>1. ToSet(<<>>) = {} BY DEF ToSet
<1>2. <<>> \in Seq({}) OBVIOUS
<1> QED BY <1>1, <1>2 DEF AreClips

(* The canvas worker's evaluateScalar is evaluateKeyframedScalar: between two   *)
(* keyframes of one time they would differ, but no time that is looked up is    *)
(* first found between such.                                                *)
LEMMA ScalarsAgree ==
  ASSUME NEW scalar, scalar.keyframes \in Seq(Keyframes), NEW time \in Int
  PROVE  EvaluateScalar(scalar, time) = EvaluateKeyframedScalar(scalar, time)
<1> DEFINE keys == Sorted(scalar.keyframes)
           n == Len(keys)
           spans == {i \in 1..n - 1 : keys[i].time <= time /\ time <= keys[i + 1].time}
           m == Min(spans)
           inner == IF keys[m].hold \/ keys[m].time = keys[m + 1].time THEN keys[m].value
                    ELSE InterpolateLinear(keys[m], keys[m + 1], time)
           outer == IF keys[m].hold THEN keys[m].value
                    ELSE IF keys[m].time = keys[m + 1].time THEN keys[m + 1].value
                    ELSE InterpolateLinear(keys[m], keys[m + 1], time)
<1>1. /\ keys \in Seq(Keyframes) /\ n \in Nat /\ DOMAIN keys = 1..n
      /\ \A j, k \in 1..n : j < k => keys[j].time <= keys[k].time
  BY SortedInOrder
<1>2. EvaluateScalar(scalar, time) =
        CASE keys = <<>> -> scalar.value
          [] keys # <<>> /\ time <= keys[1].time -> keys[1].value
          [] keys # <<>> /\ time > keys[1].time /\ time >= keys[n].time -> keys[n].value
          [] OTHER -> inner
  BY DEF EvaluateScalar, Last
<1>3. EvaluateKeyframedScalar(scalar, time) =
        IF n = 0 THEN scalar.value
        ELSE IF time <= keys[1].time THEN keys[1].value
        ELSE IF time >= keys[n].time THEN keys[n].value
        ELSE outer
  BY DEF EvaluateKeyframedScalar
<1> HIDE DEF keys
<1>4. keys = <<>> <=> n = 0
  <2>1. keys \in Seq(Keyframes) BY <1>1
  <2> QED BY <2>1, EmptySeq
<1>5. \A i \in 1..n : keys[i].time \in Int
  <2>1. \A i \in 1..n : keys[i] \in Keyframes BY <1>1
  <2> QED BY <2>1 DEF Keyframes
<1> HIDE DEF n, inner, outer
<1>6. CASE n = 0 BY <1>2, <1>3, <1>4, <1>6
<1>7. CASE n # 0 /\ time <= keys[1].time BY <1>2, <1>3, <1>4, <1>7, <1>5, <1>1
<1>8. CASE n # 0 /\ ~(time <= keys[1].time) /\ time >= keys[n].time
  BY <1>2, <1>3, <1>4, <1>8, <1>5, <1>1
<1>9. CASE n # 0 /\ ~(time <= keys[1].time) /\ ~(time >= keys[n].time)
  <2>1. EvaluateScalar(scalar, time) = inner /\ EvaluateKeyframedScalar(scalar, time) = outer
    BY <1>2, <1>3, <1>4, <1>9, <1>5, <1>1
  <2> DEFINE later == {k \in 1..n : time <= keys[k].time}
  <2>2. later \in SUBSET Nat /\ later # {}
    <3>1. n \in 1..n BY <1>1, <1>9
    <3>2. time <= keys[n].time BY <1>5, <1>9, <3>1
    <3> QED BY <1>1, <3>1, <3>2
  <2>3. PICK k \in later : \A y \in later : k <= y BY <2>2, LeastExists
  <2>4. k # 1 BY <1>9, <2>3
  <2>5. k - 1 \in 1..n /\ k - 1 \in 1..n - 1 /\ (k - 1) + 1 = k BY <1>1, <2>3, <2>4
  <2>6. k - 1 \notin later
    <3>1. ~(k <= k - 1) BY <1>1, <2>3
    <3> QED BY <2>3, <3>1
  <2>7. keys[k - 1].time <= time BY <1>5, <2>5, <2>6
  <2>8. k - 1 \in spans BY <2>3, <2>5, <2>7
  <2>9. spans \in SUBSET Nat BY <1>1
  <2>10. m \in spans /\ \A y \in spans : m <= y BY <2>8, <2>9, MinIsLeast
  <2> HIDE DEF m
  <2>11. m \in 1..n /\ m + 1 \in 1..n /\ m \in Nat BY <1>1, <2>10
  <2>12. keys[m].time # keys[m + 1].time
    <3>1. SUFFICES ASSUME keys[m].time = keys[m + 1].time PROVE FALSE OBVIOUS
    <3>2. keys[m].time = time BY <1>5, <2>10, <2>11, <3>1
    <3>3. m # 1 BY <1>5, <1>9, <2>11, <3>2
    <3>4. m - 1 \in 1..n /\ m - 1 \in 1..n - 1 /\ (m - 1) + 1 = m /\ m - 1 < m BY <1>1, <2>11, <3>3
    <3>5. keys[m - 1].time <= keys[m].time BY <1>1, <2>11, <3>4
    <3>6. m - 1 \in spans BY <1>5, <2>11, <3>2, <3>4, <3>5
    <3>7. m <= m - 1 BY <2>10, <3>6
    <3> QED BY <2>11, <3>7
  <2>13. inner = outer BY <2>12 DEF inner, outer
  <2> QED BY <2>1, <2>13
<1> QED BY <1>6, <1>7, <1>8, <1>9

(* And its fades are those of timing.ts. *)
LEMMA OpacitiesAgree ==
  ASSUME NEW c, IsClip(c), NEW time \in Int
  PROVE  CanvasOpacity(c, time) =
           IF ActiveAt(c, time)
           THEN EvaluateFadeOpacity(time, c, EvaluateKeyframedScalar(c.opacity, time - c.start))
           ELSE 0
<1> DEFINE local == time - c.start
           fadesIn == IF c.fadeIn > 0 THEN Min({Full, (Full * local) \div c.fadeIn}) ELSE Full
           fadesOut == IF c.fadeOut > 0 /\ local > c.duration - c.fadeOut
                       THEN Min({Full, (Full * (c.duration - local)) \div c.fadeOut}) ELSE Full
           multiplierIn == IF c.fadeIn = 0 THEN Full ELSE Min({Full, (Full * local) \div c.fadeIn})
           multiplierOut == IF c.fadeOut = 0 \/ local <= c.duration - c.fadeOut THEN Full
                            ELSE Min({Full, (Full * (c.duration - local)) \div c.fadeOut})
           base == EvaluateKeyframedScalar(c.opacity, local)
<1>1. c.start \in Nat /\ c.duration \in Nat /\ c.fadeIn \in Nat /\ c.fadeOut \in Nat
  BY DEF IsClip
<1>2. local \in Int BY <1>1
<1>3. EvaluateScalar(c.opacity, local) = base BY <1>2, ScalarsAgree DEF IsClip
<1>4. multiplierIn = fadesIn BY <1>1
<1>5. multiplierOut = fadesOut BY <1>1, <1>2
<1>6. CanvasOpacity(c, time) = IF ActiveAt(c, time) THEN base * Min({multiplierIn, multiplierOut}) ELSE 0
  BY <1>3 DEF CanvasOpacity
<1>7. ActiveAt(c, time) => EvaluateFadeOpacity(time, c, base) = base * Min({fadesIn, fadesOut})
  <2>1. SUFFICES ASSUME ActiveAt(c, time) PROVE EvaluateFadeOpacity(time, c, base) = base * Min({fadesIn, fadesOut})
    OBVIOUS
  <2>2. ~(time < c.start \/ time >= c.start + c.duration) BY <1>1, <2>1 DEF ActiveAt
  <2>3. EvaluateFadeOpacity(time, c, base) =
          IF time < c.start \/ time >= c.start + c.duration THEN 0 ELSE base * Min({fadesIn, fadesOut})
    BY DEF EvaluateFadeOpacity
  <2> HIDE DEF fadesIn, fadesOut, base
  <2> QED BY <2>2, <2>3
<1> HIDE DEF fadesIn, fadesOut, multiplierIn, multiplierOut
<1> QED BY <1>4, <1>5, <1>6, <1>7

(* The two ways to a frame, and what the canvas shows of it. *)

(* The layers of a frame are those of the clips that are active. *)
LEMMA FrameIsRendered ==
  ASSUME NEW s, AreClips(s), NEW time \in Int
  PROVE  ToSet(CreatePreviewFrame(s, time).rendered)
           = {RenderClip(s[i], time) : i \in {j \in DOMAIN s : ActiveAt(s[j], time)}}
<1> DEFINE I == {j \in DOMAIN s : ActiveAt(s[j], time)}
           all == [i \in DOMAIN s |-> RenderClip(s[i], time)]
           T == {RenderClip(s[i], time) : i \in DOMAIN s}
<1>1. Len(s) \in Nat /\ DOMAIN s = 1..Len(s) BY DEF AreClips
<1>2. IsFiniteSet(DOMAIN s) BY <1>1, FS_Interval
<1>3. I \in SUBSET Int
  <2>1. \A i \in DOMAIN s : i \in Int BY <1>1
  <2> QED BY <2>1
<1>4. IsFiniteSet(I) BY <1>2, FS_Subset
<1>5. \A i \in I : all[i] = RenderClip(s[i], time) OBVIOUS
<1>6. \A i \in I : all[i] \in T OBVIOUS
<1> HIDE DEF I, all, T
<1>7. ToSet(Only(all, I)) = {all[i] : i \in I} BY <1>3, <1>4, OnlyElements, Zenon
<1>8. CreatePreviewFrame(s, time).rendered = Only(all, I) BY DEF CreatePreviewFrame, I, all
<1>9. {all[i] : i \in I} = {RenderClip(s[i], time) : i \in I} BY <1>5
<1>10. ToSet(CreatePreviewFrame(s, time).rendered) = {RenderClip(s[i], time) : i \in I}
  BY <1>7, <1>8, <1>9
<1> QED BY <1>10 DEF I

(* The canvas worker, which filters and evaluates on its own, shows the layers of the frame. *)
LEMMA CanvasShowsTheFrame ==
  ASSUME NEW s, AreClips(s), NEW time \in Int
  PROVE  RenderClipsAtCursor(s, time)
           = {[id |-> c.id, opacity |-> c.opacity] :
                c \in {x \in ToSet(CreatePreviewFrame(s, time).rendered) : x.opacity > 0}}
<1> DEFINE I == {j \in DOMAIN s : ActiveAt(s[j], time)}
           rendered == ToSet(CreatePreviewFrame(s, time).rendered)
           O(c) == EvaluateFadeOpacity(time, c, EvaluateKeyframedScalar(c.opacity, time - c.start))
           left == {[id |-> c.id, opacity |-> CanvasOpacity(c, time)] :
                      c \in {x \in ToSet(s) : CanvasOpacity(x, time) > 0}}
           right == {[id |-> c.id, opacity |-> c.opacity] : c \in {x \in rendered : x.opacity > 0}}
<1>1. rendered = {RenderClip(s[i], time) : i \in I} BY FrameIsRendered
<1>2. \A i \in I : RenderClip(s[i], time).id = s[i].id /\ RenderClip(s[i], time).opacity = O(s[i])
  BY DEF RenderClip
<1>3. \A i \in DOMAIN s : IsClip(s[i]) BY DEF AreClips
<1>4. \A i \in DOMAIN s : CanvasOpacity(s[i], time) = IF ActiveAt(s[i], time) THEN O(s[i]) ELSE 0
  BY <1>3, OpacitiesAgree
<1>5. \A i \in DOMAIN s : CanvasOpacity(s[i], time) > 0 => i \in I BY <1>4
<1>6. \A i \in I : i \in DOMAIN s /\ CanvasOpacity(s[i], time) = RenderClip(s[i], time).opacity
  BY <1>2, <1>4
<1> HIDE DEF I, O, rendered
<1>7. ASSUME NEW e \in left PROVE e \in right
  <2>1. PICK c \in ToSet(s) : CanvasOpacity(c, time) > 0 /\ e = [id |-> c.id, opacity |-> CanvasOpacity(c, time)]
    BY <1>7
  <2>2. PICK i \in DOMAIN s : c = s[i] BY <2>1 DEF ToSet
  <2>3. i \in I BY <1>5, <2>1, <2>2
  <2> DEFINE x == RenderClip(s[i], time)
  <2>4. x \in rendered BY <1>1, <2>3
  <2>5. x.opacity = CanvasOpacity(c, time) /\ x.id = c.id BY <1>2, <1>6, <2>2, <2>3
  <2> HIDE DEF x
  <2>6. e = [id |-> x.id, opacity |-> x.opacity] /\ x.opacity > 0 BY <2>1, <2>5
  <2> QED BY <2>4, <2>6
<1>8. ASSUME NEW e \in right PROVE e \in left
  <2>1. PICK x \in rendered : x.opacity > 0 /\ e = [id |-> x.id, opacity |-> x.opacity] BY <1>8
  <2>2. PICK i \in I : x = RenderClip(s[i], time) BY <1>1, <2>1
  <2> DEFINE c == s[i]
  <2>3. c \in ToSet(s) BY <1>6, <2>2 DEF ToSet
  <2>4. x.opacity = CanvasOpacity(c, time) /\ x.id = c.id BY <1>2, <1>6, <2>2
  <2> HIDE DEF c
  <2>5. e = [id |-> c.id, opacity |-> CanvasOpacity(c, time)] /\ CanvasOpacity(c, time) > 0 BY <2>1, <2>4
  <2> QED BY <2>3, <2>5
<1>9. left = right BY <1>7, <1>8
<1> QED BY <1>9 DEF RenderClipsAtCursor, rendered

(* The export compiles for a time what the preview shows at that time. *)
LEMMA CompilesThePreview ==
  ASSUME NEW s, AreClips(s), NEW time \in Int
  PROVE  CompileFrameOperations(s, time) = CreatePreviewFrame(s, time).rendered
<1> DEFINE I == {j \in DOMAIN s : ActiveAt(s[j], time)}
           J == {i \in DOMAIN s : time >= s[i].start /\ time < s[i].start + s[i].duration}
           shown == [i \in DOMAIN s |-> RenderClip(s[i], time)]
           compiled == [i \in DOMAIN s |-> Compile(s[i], time)]
<1>1. \A i \in DOMAIN s : IsClip(s[i]) BY DEF AreClips
<1>2. \A i \in DOMAIN s : s[i].start \in Int /\ s[i].duration \in Int BY <1>1 DEF IsClip
<1>3. I = J BY <1>2 DEF ActiveAt
<1>4. ASSUME NEW i \in I PROVE compiled[i] = shown[i]
  <2> DEFINE c == s[i]
             local == Max({0, time - c.start})
  <2>1. c.start \in Int /\ c.duration \in Int /\ c.inPoint \in Int BY <1>1 DEF IsClip
  <2>2. c.start <= time BY DEF ActiveAt
  <2>3. time - c.start \in Int /\ time - c.start >= 0 BY <2>1, <2>2
  <2>4. local = time - c.start BY <2>3, MaxOfTwo
  <2>5. Compile(c, time) = [id |-> c.id, kind |-> c.kind, resource |-> c.resource, source |-> c.inPoint + local,
           opacity |-> EvaluateFadeOpacity(time, c, EvaluateKeyframedScalar(c.opacity, local))]
    BY DEF Compile
  <2>6. RenderClip(c, time) = [id |-> c.id, kind |-> c.kind, resource |-> c.resource,
           source |-> c.inPoint + time - c.start,
           opacity |-> EvaluateFadeOpacity(time, c, EvaluateKeyframedScalar(c.opacity, time - c.start))]
    BY DEF RenderClip
  <2> HIDE DEF local
  <2>7. c.inPoint + local = c.inPoint + time - c.start BY <2>1, <2>4
  <2>8. Compile(c, time) = RenderClip(c, time) BY <2>4, <2>5, <2>6, <2>7
  <2> QED BY <2>8
<1>5. Len(s) \in Nat /\ DOMAIN s = 1..Len(s) BY DEF AreClips
<1>6. I \in SUBSET Int
  <2>1. \A i \in DOMAIN s : i \in Int BY <1>5
  <2> QED BY <2>1
<1>7. IsFiniteSet(I)
  <2>1. IsFiniteSet(DOMAIN s) BY <1>5, FS_Interval
  <2> QED BY <2>1, FS_Subset
<1> HIDE DEF shown, compiled, I
<1>8. Only(compiled, I) = Only(shown, I) BY <1>4, <1>6, <1>7, OnlySame
<1> QED BY <1>3, <1>8 DEF CompileFrameOperations, CreatePreviewFrame, shown, compiled, I

-----------------------------------------------------------------------------
(* The session and what is under way to it. *)

Buffers == [structure : Structures \cup {<<>>}, startCursor : Int, endCursor : Int]
Sessions == [structure : Structures, cursor : Int, playing : BOOLEAN, buffer : Buffers]
Actions == [type : {"startPreviewBuffer", "togglePlayback"}] \cup [type : {"tickPlayback"}, delta : Ticks]

SessionInv == session \in Sessions /\ inbox \in Seq(Actions)

(* The stage: one remembered state, one registered callback and one element     *)
(* for every medium of the frame, told to play as the committed state says.     *)
IsRef(r) ==
  /\ r = [kind |-> r.kind, url |-> r.url, layer |-> r.layer]
  /\ r.kind = "audio" => r.layer = 0

StageInv ==
  /\ page.playing \in BOOLEAN
  /\ DOMAIN page.was = DOMAIN page.registry /\ DOMAIN page.elements = DOMAIN page.registry
  /\ \A id \in DOMAIN page.registry :
       /\ page.was[id] = page.playing
       /\ page.elements[id] \in BOOLEAN
       /\ IsRef(page.registry[id])
       /\ page.playing => page.elements[id]
       /\ ~page.playing /\ page.registry[id].kind = "audio" => ~page.elements[id]

(* The canvas worker: it has painted the committed frame, or has yet to be told *)
(* of its scene and its cursor, or of its cursor only.                       *)
Shown == IF page.structure # <<>> THEN page.structure
         ELSE [i \in DOMAIN page.frame.rendered |-> Still(page.frame.rendered[i])]
SceneMessage == [type |-> "setScene", clips |-> Shown]
CursorMessage == [type |-> "render", cursor |-> page.frame.cursor]

CanvasInv ==
  /\ canvas = [queue |-> canvas.queue, scene |-> canvas.scene, painted |-> canvas.painted]
  /\ \/ canvas.queue = <<>> /\ canvas.painted = RenderClipsAtCursor(Shown, page.frame.cursor)
     \/ canvas.queue = <<SceneMessage, CursorMessage>>
     \/ canvas.queue = <<CursorMessage>> /\ canvas.scene = Shown

PreviewInv == SessionInv /\ StageInv /\ CanvasInv

(* What is claimed of the stage and of the canvas follows. *)
LEMMA StageFollows == StageInv => MediaFollowsPlayback
  BY DEF StageInv, MediaFollowsPlayback

(* The canvas, when nothing is queued for it, has painted what the stage shows. *)
LEMMA CanvasFollows == PreviewInv => CanvasAgreesWithStage
<1>1. SUFFICES ASSUME PreviewInv, canvas.queue = <<>>, ~session.playing,
                      page.frame = PreviewFrame, page.structure = session.structure
               PROVE  canvas.painted = {[id |-> c.id, opacity |-> c.opacity] :
                         c \in {x \in ToSet(page.frame.rendered) : x.opacity > 0}}
  BY DEF CanvasAgreesWithStage
<1>2. session.structure \in Structures /\ session.cursor \in Int
  BY <1>1 DEF PreviewInv, SessionInv, Sessions
<1> DEFINE s == session.structure
           time == session.cursor
<1>3. AreClips(s) BY <1>2, StructureHasClips
<1>4. page.frame = CreatePreviewFrame(s, time) BY <1>1 DEF PreviewFrame
<1>5. page.frame.cursor = time BY <1>4 DEF CreatePreviewFrame
<1>6. canvas.painted = RenderClipsAtCursor(Shown, time) BY <1>1, <1>5 DEF PreviewInv, CanvasInv
<1>7. CASE s # <<>>
  <2>1. Shown = s BY <1>1, <1>7 DEF Shown
  <2> HIDE DEF s, time
  <2>2. time \in Int BY <1>2 DEF time
  <2>3. RenderClipsAtCursor(s, time)
           = {[id |-> c.id, opacity |-> c.opacity] :
                c \in {x \in ToSet(CreatePreviewFrame(s, time).rendered) : x.opacity > 0}}
    BY <1>3, <2>2, CanvasShowsTheFrame
  <2> QED BY <1>4, <1>6, <2>1, <2>3
<1>8. CASE s = <<>>
  <2> HIDE DEF s, time
  <2>1. time \in Int BY <1>2 DEF time
  <2>2. ToSet(page.frame.rendered) = {RenderClip(s[i], time) : i \in {j \in DOMAIN s : ActiveAt(s[j], time)}}
    BY <1>3, <1>4, <2>1, FrameIsRendered
  <2>3. DOMAIN s = {} BY <1>8
  <2>4. ToSet(page.frame.rendered) = {} BY <2>2, <2>3
  <2>5. DOMAIN page.frame.rendered = {} BY <2>4 DEF ToSet
  <2>6. page.structure = <<>> BY <1>1, <1>8 DEF s
  <2>7. DOMAIN Shown = {} BY <2>5, <2>6 DEF Shown
  <2>8. ToSet(Shown) = {} BY <2>7 DEF ToSet
  <2>9. RenderClipsAtCursor(Shown, time) = {} BY <2>8 DEF RenderClipsAtCursor
  <2> QED BY <1>6, <2>4, <2>9
<1> QED BY <1>7, <1>8

-----------------------------------------------------------------------------
(* The stage at a commit. *)

(* The references that a frame gives its media have the fields of a reference. *)
LEMMA RefsAreRefs ==
  ASSUME NEW frame, NEW id \in DOMAIN MediaRefs(frame)
  PROVE  IsRef(MediaRefs(frame)[id])
<1> DEFINE media == {c \in ToSet(frame.rendered) : c.kind \in {"video", "audio"} /\ url[c.resource] # 0}
           c == CHOOSE x \in media : x.id = id
           layer == IF c.kind = "audio" THEN 0 ELSE Layer(frame, c)
<1>1. MediaRefs(frame)[id] = [kind |-> c.kind, url |-> url[c.resource], layer |-> layer]
  BY DEF MediaRefs
<1> HIDE DEF c
<1>2. c.kind = "audio" => layer = 0 OBVIOUS
<1> HIDE DEF layer
<1> QED BY <1>1, <1>2 DEF IsRef

(* A commit leaves the elements of the stage told what it committed. *)
LEMMA StageAtCommit ==
  ASSUME StageInv, SessionInv, NEW frame,
         page'.playing = session.playing,
         page'.registry = Registry(MediaRefs(frame)),
         page'.was = [id \in DOMAIN MediaRefs(frame) |-> session.playing],
         page'.elements = SyncPlayback(Elements(MediaRefs(frame)), SeekStates(MediaRefs(frame)), session.playing)
  PROVE  StageInv'
<1> DEFINE refs == MediaRefs(frame)
           playing == session.playing
           kept == DOMAIN page.registry \ Released(refs)
           was == SeekStates(refs)
<1>1. playing \in BOOLEAN /\ page.playing \in BOOLEAN BY DEF SessionInv, Sessions, StageInv
<1>2. \A id \in DOMAIN refs : IsRef(refs[id]) BY RefsAreRefs
<1> HIDE DEF refs
<1>3. \A id \in kept : id \in DOMAIN refs /\ id \in DOMAIN page.registry /\ refs[id] = page.registry[id]
  BY DEF Released
<1>4. DOMAIN Registry(refs) = DOMAIN refs /\ \A id \in DOMAIN refs : Registry(refs)[id] = refs[id]
  BY <1>3 DEF Registry
<1>5. DOMAIN was = kept /\ \A id \in kept : was[id] = page.playing
  BY DEF StageInv, SeekStates, Restrict
<1>6. DOMAIN Elements(refs) = DOMAIN refs
      /\ \A id \in DOMAIN refs :
           Elements(refs)[id] = (/\ id \in DOMAIN page.elements /\ page.elements[id]
                                 /\ page.registry[id].url = refs[id].url
                                 /\ page.registry[id].kind = refs[id].kind)
  BY DEF Elements
<1>7. DOMAIN page'.elements = DOMAIN refs
      /\ \A id \in DOMAIN refs :
           page'.elements[id] = IF WasPlaying(was, id) # playing THEN playing ELSE Elements(refs)[id]
  BY <1>6 DEF SyncPlayback, refs
<1> HIDE DEF kept, was
<1>8. ASSUME NEW id \in DOMAIN refs
      PROVE  /\ page'.elements[id] \in BOOLEAN
             /\ playing => page'.elements[id]
             /\ ~playing /\ refs[id].kind = "audio" => ~page'.elements[id]
  <2>1. WasPlaying(was, id) = (id \in kept /\ page.playing) BY <1>1, <1>5 DEF WasPlaying
  <2>2. CASE id \in kept
    <3>1. id \in DOMAIN page.registry /\ refs[id] = page.registry[id] BY <1>3, <2>2
    <3>2. WasPlaying(was, id) = page.playing BY <1>1, <2>1, <2>2
    <3>3. /\ page.elements[id] \in BOOLEAN /\ id \in DOMAIN page.elements
          /\ page.playing => page.elements[id]
          /\ ~page.playing /\ refs[id].kind = "audio" => ~page.elements[id]
      BY <3>1 DEF StageInv
    <3>4. Elements(refs)[id] = page.elements[id] BY <1>6, <3>1, <3>3
    <3>5. page'.elements[id] = IF page.playing # playing THEN playing ELSE page.elements[id]
      BY <1>7, <3>2, <3>4
    <3> QED BY <1>1, <3>3, <3>5
  <2>3. CASE id \notin kept
    <3>1. WasPlaying(was, id) = FALSE BY <2>1, <2>3
    <3>2. Elements(refs)[id] \in BOOLEAN
      <4>1. id \in DOMAIN page.elements => page.elements[id] \in BOOLEAN BY DEF StageInv
      <4> QED BY <1>6, <4>1
    <3>3. refs[id].kind = "audio" => Elements(refs)[id] = FALSE
      <4>1. SUFFICES ASSUME refs[id].kind = "audio", Elements(refs)[id] PROVE FALSE BY <3>2
      <4>2. /\ id \in DOMAIN page.elements
            /\ page.registry[id].url = refs[id].url /\ page.registry[id].kind = refs[id].kind
        BY <1>6, <4>1
      <4>3. id \in DOMAIN page.registry BY <4>2 DEF StageInv
      <4>4. IsRef(refs[id]) /\ IsRef(page.registry[id]) BY <1>2, <4>3 DEF StageInv
      <4>5. refs[id] = page.registry[id] BY <4>1, <4>2, <4>4 DEF IsRef
      <4>6. id \in kept BY <4>3, <4>5 DEF kept, Released
      <4> QED BY <2>3, <4>6
    <3>4. page'.elements[id] = IF FALSE # playing THEN playing ELSE Elements(refs)[id] BY <1>7, <3>1
    <3> QED BY <1>1, <3>2, <3>3, <3>4
  <2> QED BY <2>2, <2>3
<1>9. DOMAIN page'.registry = DOMAIN refs /\ \A id \in DOMAIN refs : page'.registry[id] = refs[id]
  BY <1>4 DEF refs
<1>10. DOMAIN page'.was = DOMAIN refs /\ \A id \in DOMAIN refs : page'.was[id] = playing BY DEF refs
<1>11. page'.playing = playing OBVIOUS
<1> HIDE DEF playing
<1> QED BY <1>1, <1>2, <1>7, <1>8, <1>9, <1>10, <1>11 DEF StageInv

-----------------------------------------------------------------------------
(* The invariant of playback. *)

(* The invariant holds initially. *)
LEMMA PreviewInvInit == PreviewInit => PreviewInv
<1> SUFFICES ASSUME PreviewInit PROVE PreviewInv OBVIOUS
<1> USE DEF PreviewInit
<1>1. SessionInv
  <2>1. NoBuffer \in Buffers BY DEF NoBuffer, Buffers
  <2>4. session \in [structure : Structures, cursor : {0}, playing : {FALSE}, buffer : {NoBuffer}]
    OBVIOUS
  <2>5. {0} \subseteq Int /\ {FALSE} \subseteq BOOLEAN /\ {NoBuffer} \subseteq Buffers BY <2>1
  <2>2. session \in Sessions BY ONLY <2>4, <2>5 DEF Sessions
  <2>3. inbox \in Seq(Actions) OBVIOUS
  <2> QED BY <2>2, <2>3 DEF SessionInv
<1>2. page.playing = FALSE /\ page.registry = <<>> /\ page.was = <<>> /\ page.elements = <<>>
  OBVIOUS
<1>3. StageInv BY <1>2 DEF StageInv
<1>4. CanvasInv
  <2>1. page.structure = <<>> /\ page.frame.rendered = <<>> BY DEF NothingShown
  <2>2. DOMAIN Shown = {} BY <2>1 DEF Shown
  <2>3. ToSet(Shown) = {} BY <2>2 DEF ToSet
  <2>4. RenderClipsAtCursor(Shown, page.frame.cursor) = {} BY <2>3 DEF RenderClipsAtCursor
  <2>5. canvas.queue = <<>> /\ canvas.painted = {} OBVIOUS
  <2>6. canvas = [queue |-> canvas.queue, scene |-> canvas.scene, painted |-> canvas.painted] OBVIOUS
  <2> QED BY <2>4, <2>5, <2>6 DEF CanvasInv
<1> QED BY <1>1, <1>3, <1>4 DEF PreviewInv

(* The stage is kept by a step that does not touch the page. *)
LEMMA StageUnchanged == StageInv /\ UNCHANGED page => StageInv' BY DEF StageInv, IsRef

(* The canvas is kept by a step that touches neither it nor the page. *)
LEMMA CanvasUnchanged == CanvasInv /\ UNCHANGED <<page, canvas>> => CanvasInv'
<1> SUFFICES ASSUME CanvasInv, UNCHANGED <<page, canvas>> PROVE CanvasInv' OBVIOUS
<1>1. Shown' = Shown BY DEF Shown, Still
<1>2. SceneMessage' = SceneMessage /\ CursorMessage' = CursorMessage
  BY <1>1 DEF SceneMessage, CursorMessage
<1>3. page' = page /\ canvas' = canvas OBVIOUS
<1>4. RenderClipsAtCursor(Shown, page.frame.cursor)' = RenderClipsAtCursor(Shown, page.frame.cursor)
  BY <1>1, <1>3 DEF RenderClipsAtCursor, CanvasOpacity, EvaluateScalar
<1> HIDE DEF Shown
<1> QED BY <1>1, <1>2, <1>3, <1>4 DEF CanvasInv

(* The buffer that is built is one. *)
LEMMA BuffersAreBuilt ==
  ASSUME NEW structure \in Structures, NEW cursor \in Int
  PROVE  BuildPreviewBuffer(structure, cursor) \in Buffers
<1>1. Lookahead \in Int BY PreviewAssumption
<1> QED BY <1>1 DEF BuildPreviewBuffer, Buffers

(* The session handles an action. *)
LEMMA SessionAtHandle == SessionInv /\ Handle => SessionInv'
<1> SUFFICES ASSUME SessionInv, Handle PROVE SessionInv' OBVIOUS
<1> DEFINE action == Head(inbox)
<1>1. inbox \in Seq(Actions) /\ inbox # <<>> BY DEF SessionInv, Handle
<1>2. action \in Actions /\ Tail(inbox) \in Seq(Actions) BY <1>1
<1>3. inbox' \in Seq(Actions) BY <1>2 DEF Handle
<1>4. session' = CASE action.type = "tickPlayback" -> TickPlayback(action.delta)
                   [] action.type = "startPreviewBuffer" -> StartPreviewBuffer
                   [] action.type = "togglePlayback" -> TogglePlayback
  BY DEF Handle
<1> HIDE DEF action
<1>5. session \in Sessions BY DEF SessionInv
<1>6. session.structure \in Structures /\ session.cursor \in Int /\ session.playing \in BOOLEAN
      /\ session.buffer \in Buffers
  BY <1>5 DEF Sessions
<1>7. CASE action.type = "tickPlayback"
  <2>1. session' = TickPlayback(action.delta) BY <1>4, <1>7
  <2>6. \A d \in Ticks : d \in Int
    <3>1. Ticks \subseteq Nat BY PreviewAssumption
    <3> QED BY <3>1
  <2>7. action.delta \in Ticks BY <1>2, <1>7 DEF Actions
  <2>2. action.delta \in Int BY <2>6, <2>7
  <2> DEFINE cursor == session.cursor + action.delta
             buffer == IF \/ session.buffer = NoBuffer \/ cursor + Refill >= session.buffer.endCursor
                       THEN BuildPreviewBuffer(session.structure, cursor) ELSE session.buffer
  <2>3. cursor \in Int BY <1>6, <2>2
  <2>4. buffer \in Buffers BY <1>6, <2>3, BuffersAreBuilt
  <2>5. session' = IF session.playing THEN [session EXCEPT !.cursor = cursor, !.buffer = buffer] ELSE session
    BY <2>1 DEF TickPlayback
  <2> HIDE DEF cursor, buffer
  <2>8. session' \in Sessions BY <1>5, <2>3, <2>4, <2>5 DEF Sessions
  <2> QED BY <1>3, <2>8 DEF SessionInv
<1>8. CASE action.type = "startPreviewBuffer"
  <2>1. session' = StartPreviewBuffer BY <1>4, <1>8
  <2>2. BuildPreviewBuffer(session.structure, session.cursor) \in Buffers BY <1>6, BuffersAreBuilt
  <2>3. session' \in Sessions BY <1>5, <2>1, <2>2 DEF StartPreviewBuffer, Sessions
  <2> QED BY <1>3, <2>3 DEF SessionInv
<1>9. CASE action.type = "togglePlayback"
  <2>1. session' = TogglePlayback BY <1>4, <1>9
  <2>2. session' \in Sessions BY <1>5, <2>1 DEF TogglePlayback, Sessions
  <2> QED BY <1>3, <2>2 DEF SessionInv
<1>10. action.type \in {"tickPlayback", "startPreviewBuffer", "togglePlayback"} BY <1>2 DEF Actions
<1> QED BY <1>7, <1>8, <1>9, <1>10

(* The worker reads a message: of the two that a commit sends, the scene is first. *)
LEMMA CanvasAtReceive == CanvasInv /\ CanvasReceives => CanvasInv'
<1> SUFFICES ASSUME CanvasInv, CanvasReceives PROVE CanvasInv' OBVIOUS
<1> DEFINE message == Head(canvas.queue)
<1>1. /\ canvas.queue # <<>>
      /\ canvas' = IF message.type = "setScene"
                   THEN [canvas EXCEPT !.queue = Tail(@), !.scene = message.clips]
                   ELSE [canvas EXCEPT !.queue = Tail(@),
                                       !.painted = RenderClipsAtCursor(canvas.scene, message.cursor)]
      /\ page' = page
  BY DEF CanvasReceives
<1>2. canvas = [queue |-> canvas.queue, scene |-> canvas.scene, painted |-> canvas.painted]
  BY DEF CanvasInv
<1>3. Shown' = Shown BY <1>1 DEF Shown, Still
<1>4. SceneMessage' = SceneMessage /\ CursorMessage' = CursorMessage
  BY <1>1, <1>3 DEF SceneMessage, CursorMessage
<1> DEFINE cursor == page.frame.cursor
<1>5. RenderClipsAtCursor(Shown, page.frame.cursor)' = RenderClipsAtCursor(Shown, cursor)
  <2>1. page'.frame.cursor = cursor BY <1>1
  <2> QED BY ONLY <1>3, <2>1
<1>6. SceneMessage.type = "setScene" /\ SceneMessage.clips = Shown
      /\ CursorMessage.type = "render" /\ CursorMessage.cursor = cursor
  BY DEF SceneMessage, CursorMessage
<1> HIDE DEF cursor
<1>7. CASE canvas.queue = <<SceneMessage, CursorMessage>>
  <2>1. message = SceneMessage /\ Tail(canvas.queue) = <<CursorMessage>> BY <1>7
  <2> HIDE DEF message
  <2>2. canvas' = [canvas EXCEPT !.queue = Tail(@), !.scene = Shown] BY <1>1, <1>6, <2>1
  <2>3. canvas' = [queue |-> <<CursorMessage>>, scene |-> Shown, painted |-> canvas.painted]
    BY <1>2, <2>1, <2>2
  <2>4. canvas'.queue = <<CursorMessage'>> /\ canvas'.scene = Shown' BY <1>3, <1>4, <2>3
  <2>5. canvas' = [queue |-> canvas'.queue, scene |-> canvas'.scene, painted |-> canvas'.painted] BY <2>3
  <2> QED BY <2>4, <2>5 DEF CanvasInv
<1>8. CASE canvas.queue = <<CursorMessage>> /\ canvas.scene = Shown
  <2>1. message = CursorMessage /\ Tail(canvas.queue) = <<>> BY <1>8
  <2> HIDE DEF message
  <2>2. canvas' = [canvas EXCEPT !.queue = Tail(@), !.painted = RenderClipsAtCursor(Shown, cursor)]
    BY <1>1, <1>6, <1>8, <2>1
  <2>3. canvas' = [queue |-> <<>>, scene |-> canvas.scene, painted |-> RenderClipsAtCursor(Shown, cursor)]
    BY <1>2, <2>1, <2>2
  <2>4. canvas'.queue = <<>> /\ canvas'.painted = RenderClipsAtCursor(Shown, page.frame.cursor)'
    BY <1>5, <2>3
  <2>5. canvas' = [queue |-> canvas'.queue, scene |-> canvas'.scene, painted |-> canvas'.painted] BY <2>3
  <2> QED BY <2>4, <2>5 DEF CanvasInv
<1> QED BY <1>1, <1>7, <1>8 DEF CanvasInv

(* A commit: the stage follows the session, and the worker is sent what was committed. *)
LEMMA PreviewAtCommit == PreviewInv /\ Commit => PreviewInv'
<1> SUFFICES ASSUME PreviewInv, Commit PROVE PreviewInv' OBVIOUS
<1> DEFINE frame == PreviewFrame
           refs == MediaRefs(frame)
<1>1. page' = [frame |-> frame, structure |-> session.structure, playing |-> session.playing,
               registry |-> Registry(refs),
               elements |-> SyncPlayback(Elements(refs), SeekStates(refs), session.playing),
               was |-> [id \in DOMAIN refs |-> session.playing]]
  BY DEF Commit
<1>2. /\ canvas' = [canvas EXCEPT !.queue = @ \o Paint(frame)] /\ canvas.queue = <<>>
      /\ inbox' = LoopEffect(session.playing) /\ session' = session
  BY DEF Commit
<1> HIDE DEF frame
<1>3. page'.frame = frame /\ page'.structure = session.structure /\ page'.playing = session.playing
      /\ page'.registry = Registry(refs) /\ page'.was = [id \in DOMAIN refs |-> session.playing]
      /\ page'.elements = SyncPlayback(Elements(refs), SeekStates(refs), session.playing)
  BY <1>1
<1>4. StageInv' BY <1>3, StageAtCommit DEF PreviewInv
<1>5. SessionInv'
  <2>1. [type |-> "startPreviewBuffer"] \in Actions BY DEF Actions
  <2>2. inbox \in Seq(Actions) BY DEF PreviewInv, SessionInv
  <2>3. Append(inbox, [type |-> "startPreviewBuffer"]) \in Seq(Actions) BY <2>1, <2>2
  <2>4. inbox' \in Seq(Actions) BY <1>2, <2>2, <2>3 DEF LoopEffect
  <2> QED BY <1>2, <2>4 DEF SessionInv, PreviewInv
<1>6. Shown' = CanvasClips(frame) BY <1>3 DEF Shown, CanvasClips, Still
<1>7. Paint(frame) = <<SceneMessage', CursorMessage'>>
  BY <1>3, <1>6 DEF Paint, SceneMessage, CursorMessage
<1>8. canvas = [queue |-> canvas.queue, scene |-> canvas.scene, painted |-> canvas.painted]
  BY DEF PreviewInv, CanvasInv
<1>9. <<>> \o Paint(frame) = Paint(frame) BY DEF Paint
<1>10. canvas' = [queue |-> Paint(frame), scene |-> canvas.scene, painted |-> canvas.painted]
  BY <1>2, <1>8, <1>9
<1>11. canvas'.queue = Paint(frame)
       /\ canvas' = [queue |-> canvas'.queue, scene |-> canvas'.scene, painted |-> canvas'.painted]
  BY <1>10
<1>12. CanvasInv' BY <1>7, <1>11 DEF CanvasInv
<1> QED BY <1>4, <1>5, <1>12 DEF PreviewInv

(* Every step of the playback keeps the invariant. *)
LEMMA PreviewInvStep == PreviewInv /\ PreviewNext => PreviewInv'
<1> SUFFICES ASSUME PreviewInv, PreviewNext PROVE PreviewInv' OBVIOUS
<1>0. SessionInv /\ StageInv /\ CanvasInv BY DEF PreviewInv
<1>1. ASSUME UNCHANGED <<page, canvas>>, SessionInv' PROVE PreviewInv'
  BY <1>0, <1>1, StageUnchanged, CanvasUnchanged DEF PreviewInv
<1>2. CASE Handle BY <1>0, <1>1, <1>2, SessionAtHandle DEF Handle
<1>3. CASE Commit BY <1>3, PreviewAtCommit
<1>4. CASE CanvasReceives
  <2>1. UNCHANGED <<session, inbox, page>> BY <1>4 DEF CanvasReceives
  <2>2. SessionInv' BY <1>0, <2>1 DEF SessionInv
  <2> QED BY <1>0, <1>4, <2>1, <2>2, StageUnchanged, CanvasAtReceive DEF PreviewInv
<1>5. CASE Press
  <2>1. [type |-> "togglePlayback"] \in Actions BY DEF Actions
  <2>2. inbox' = Append(inbox, [type |-> "togglePlayback"]) /\ UNCHANGED <<session, page, canvas>>
    BY <1>5 DEF Press
  <2>3. inbox \in Seq(Actions) /\ session \in Sessions BY <1>0 DEF SessionInv
  <2>4. inbox' \in Seq(Actions) BY <2>1, <2>2, <2>3
  <2>5. SessionInv' BY <2>2, <2>3, <2>4 DEF SessionInv
  <2> QED BY <1>1, <2>2, <2>5
<1>6. ASSUME NEW delta \in Ticks, Tick(delta) PROVE PreviewInv'
  <2>1. [type |-> "tickPlayback", delta |-> delta] \in Actions BY DEF Actions
  <2>2. inbox' = Append(inbox, [type |-> "tickPlayback", delta |-> delta]) /\ UNCHANGED <<session, page, canvas>>
    BY <1>6 DEF Tick
  <2>3. inbox \in Seq(Actions) /\ session \in Sessions BY <1>0 DEF SessionInv
  <2>4. inbox' \in Seq(Actions) BY <2>1, <2>2, <2>3
  <2>5. SessionInv' BY <2>2, <2>3, <2>4 DEF SessionInv
  <2> QED BY <1>1, <2>2, <2>5
<1>7. ASSUME Edited, session' \in Sessions PROVE PreviewInv'
  <2>1. UNCHANGED <<inbox, page, canvas>> BY <1>7 DEF Edited
  <2>2. SessionInv' BY <1>0, <1>7, <2>1 DEF SessionInv
  <2> QED BY <1>1, <2>1, <2>2
<1>8. session \in Sessions BY <1>0 DEF SessionInv
<1>9. ASSUME NEW structure \in Structures, Edit(structure) PROVE PreviewInv'
  BY <1>7, <1>8, <1>9 DEF Edit, Sessions
<1>10. ASSUME NEW structure \in Structures, SetActiveProject(structure) PROVE PreviewInv'
  <2>1. session' = [session EXCEPT !.structure = structure, !.cursor = 0] /\ Edited
    BY <1>10 DEF SetActiveProject
  <2>2. 0 \in Int OBVIOUS
  <2>3. [session EXCEPT !.structure = structure, !.cursor = 0] \in Sessions
    BY ONLY <1>8, <2>2, structure \in Structures DEF Sessions
  <2> QED BY <1>7, <2>1, <2>3
<1>11. ASSUME NEW cursor \in Cursors, SetCursor(cursor) PROVE PreviewInv'
  <2>1. cursor \in Int BY PreviewAssumption
  <2>2. session' = [session EXCEPT !.cursor = cursor] /\ Edited BY <1>11 DEF SetCursor
  <2>3. session' \in Sessions BY <1>8, <2>1, <2>2 DEF Sessions
  <2> QED BY <1>7, <2>2, <2>3
<1>12. ASSUME NEW r \in Resources, NEW u \in 0..2, UrlChanges(r, u) PROVE PreviewInv'
  BY <1>7, <1>8, <1>12 DEF UrlChanges
<1> QED BY <1>2, <1>3, <1>4, <1>5, <1>6, <1>9, <1>10, <1>11, <1>12 DEF PreviewNext

-----------------------------------------------------------------------------
(* The export: its request, its frames and their operations. *)

Fields == {"phase", "plan", "start", "duration", "clipIds", "backend", "todo", "prepared", "seeking",
           "late", "frames", "decoded", "sound", "why"}
RequestInv ==
  /\ DOMAIN render = Fields
  /\ render.plan \in Structures \cup {<<>>}
  /\ render.start \in Nat /\ render.duration \in Nat /\ render.late \in Nat

(* The operations there can be: of clips that are active. *)
ClipsThere == {x \in UNION {ToSet(s) : s \in Structures} : IsClip(x)}
Operations == {RenderClip(p[1], p[2]) : p \in {q \in ClipsThere \X Int : ActiveAt(q[1], q[2])}}

(* An operation has a resource and a source time. *)
LEMMA OperationsAreTyped ==
  ASSUME NEW op \in Operations
  PROVE  op.resource \in DOMAIN Length /\ op.source \in Nat
<1>1. PICK p \in {q \in ClipsThere \X Int : ActiveAt(q[1], q[2])} : op = RenderClip(p[1], p[2])
  BY DEF Operations
<1> DEFINE c == p[1]
           time == p[2]
<1>2. IsClip(c) /\ time \in Int /\ ActiveAt(c, time) BY <1>1 DEF ClipsThere
<1> HIDE DEF c, time
<1>3. op.resource = c.resource /\ op.source = c.inPoint + time - c.start
  BY <1>1 DEF RenderClip, c, time
<1>4. c.resource \in DOMAIN Length /\ c.inPoint \in Nat /\ c.start \in Nat BY <1>2 DEF IsClip
<1>5. c.start <= time BY <1>2 DEF ActiveAt
<1>6. c.inPoint + time - c.start \in Nat BY <1>2, <1>4, <1>5
<1> QED BY <1>3, <1>4, <1>6

(* The plan is made of clips. *)
LEMMA PlanHasClips ==
  ASSUME RequestInv
  PROVE  AreClips(render.plan) /\ \A c \in ToSet(render.plan) : IsClip(c)
<1>1. AreClips(render.plan) BY StructureHasClips, NoClips DEF RequestInv
<1>2. \A c \in ToSet(render.plan) : IsClip(c) BY <1>1 DEF AreClips, ToSet
<1> QED BY <1>1, <1>2

(* The time of a frame is a number. *)
LEMMA FrameTimeType ==
  ASSUME RequestInv, NEW index \in Nat
  PROVE  FrameTime(index) \in Int
<1>1. FrameUnits \in Nat BY ExportAssumption
<1>2. index * FrameUnits \in Int BY <1>1
<1>3. render.start \in Int BY DEF RequestInv
<1> QED BY <1>2, <1>3 DEF FrameTime

(* An export has one frame at least. *)
LEMMA CountType == RequestInv => GetFrameCount \in Nat \ {0}
<1> SUFFICES ASSUME RequestInv PROVE GetFrameCount \in Nat \ {0} OBVIOUS
<1>1. FrameUnits \in Nat \ {0} /\ render.duration \in Nat BY ExportAssumption DEF RequestInv
<1> DEFINE q == (render.duration + FrameUnits - 1) \div FrameUnits
<1>2. q \in Int BY <1>1
<1> HIDE DEF q
<1>3. Max({1, q}) = IF 1 >= q THEN 1 ELSE q BY <1>2, MaxOfTwo
<1>4. GetFrameCount = Max({1, q}) BY DEF GetFrameCount, q
<1> QED BY <1>2, <1>3, <1>4

(* What is compiled from the plan are operations. *)
LEMMA CompiledAreOperations ==
  ASSUME RequestInv, NEW time \in Int
  PROVE  CompileFrameOperations(render.plan, time) \in Seq(Operations)
<1> DEFINE s == render.plan
           I == {j \in DOMAIN s : ActiveAt(s[j], time)}
           shown == [i \in DOMAIN s |-> RenderClip(s[i], time)]
<1>1. AreClips(s) BY PlanHasClips
<1>2. s \in Structures \cup {<<>>} BY DEF RequestInv
<1> HIDE DEF s
<1>3. Len(s) \in Nat /\ DOMAIN s = 1..Len(s) BY <1>1 DEF AreClips
<1>4. ASSUME NEW i \in I PROVE shown[i] \in Operations
  <2>1. s \in Structures
    <3>1. DOMAIN s # {} OBVIOUS
    <3>2. s # <<>> BY <3>1
    <3> QED BY <1>2, <3>2
  <2>2. s[i] \in UNION {ToSet(x) : x \in Structures} BY <2>1 DEF ToSet
  <2>3. IsClip(s[i]) BY <1>1 DEF AreClips
  <2>4. s[i] \in ClipsThere /\ ActiveAt(s[i], time) BY <2>2, <2>3 DEF ClipsThere
  <2> DEFINE p == <<s[i], time>>
  <2>5. p \in {q \in ClipsThere \X Int : ActiveAt(q[1], q[2])} /\ p[1] = s[i] /\ p[2] = time BY <2>4
  <2> HIDE DEF p
  <2>6. shown[i] = RenderClip(p[1], p[2]) BY <2>5
  <2> QED BY <2>5, <2>6 DEF Operations
<1>5. I \in SUBSET Int
  <2>1. \A i \in DOMAIN s : i \in Int BY <1>3
  <2> QED BY <2>1
<1>6. IsFiniteSet(I)
  <2>1. IsFiniteSet(DOMAIN s) BY <1>3, FS_Interval
  <2> QED BY <2>1, FS_Subset
<1>7. \A i \in I : shown[i] \in Operations BY <1>4
<1> HIDE DEF I, shown
<1>8. Only(shown, I) \in Seq(Operations) BY <1>5, <1>6, <1>7, OnlyIsSeq
<1>9. CreatePreviewFrame(s, time).rendered = Only(shown, I) BY DEF CreatePreviewFrame, I, shown
<1>10. CompileFrameOperations(s, time) \in Seq(Operations) BY <1>1, <1>8, <1>9, CompilesThePreview
<1> QED BY <1>10 DEF s

(* And so are those of the clips that are exported. *)
LEMMA FrameOperationsAreTyped ==
  ASSUME RequestInv, NEW index \in Nat
  PROVE  FrameOperations(index) \in Seq(Operations)
<1> DEFINE ops == CompileFrameOperations(render.plan, FrameTime(index))
           K == {i \in DOMAIN ops : ops[i].id \in render.clipIds}
<1>1. ops \in Seq(Operations) BY FrameTimeType, CompiledAreOperations
<1> HIDE DEF ops
<1>2. Len(ops) \in Nat /\ DOMAIN ops = 1..Len(ops) BY <1>1
<1>3. K \in SUBSET Int
  <2>1. \A i \in DOMAIN ops : i \in Int BY <1>2
  <2> QED BY <2>1
<1>4. IsFiniteSet(K)
  <2>1. IsFiniteSet(DOMAIN ops) BY <1>2, FS_Interval
  <2> QED BY <2>1, FS_Subset
<1>5. \A i \in K : ops[i] \in Operations BY <1>1, <1>2
<1>6. Only(ops, K) \in Seq(Operations)
  <2> HIDE DEF K
  <2> QED BY <1>3, <1>4, <1>5, OnlyIsSeq
<1> QED BY <1>6 DEF FrameOperations, FilterClips, ops

(* A frame of the export is the preview's. *)
LEMMA OperationsAreThePreview ==
  ASSUME RequestInv, NEW index \in Nat
  PROVE  FrameOperations(index) = FilterClips(CreatePreviewFrame(render.plan, FrameTime(index)).rendered)
<1>1. AreClips(render.plan) /\ FrameTime(index) \in Int BY PlanHasClips, FrameTimeType
<1>2. CompileFrameOperations(render.plan, FrameTime(index))
        = CreatePreviewFrame(render.plan, FrameTime(index)).rendered
  BY <1>1, CompilesThePreview
<1> QED BY <1>2 DEF FrameOperations

-----------------------------------------------------------------------------
(* The sound. *)

Medium(c, n) == c.inPoint + render.start + n - c.start
Audible(c, n) == ActiveAt(c, render.start + n) /\ Medium(c, n) < Length[c.resource]
Belongs(n, c) == <<n, c.id, Medium(c, n)>>

(* What a clip is to sound, of the sound it gives. *)
SoundOf(c, sound) ==
  /\ \A t \in sound : Audible(c, t[1]) /\ t = Belongs(t[1], c)
  /\ \A n \in 0..render.duration - 1 :
       Audible(c, n) => Belongs(n, c) \in sound \/ Medium(c, n) = Length[c.resource] - 1

(* The later of two instants. *)
LEMMA LaterType ==
  ASSUME NEW a \in Int, NEW b \in Int
  PROVE  Later(a, b) = IF a >= b THEN a ELSE b
BY MaxOfTwo DEF Later

(* The frames last as long as the range, or longer. *)
LEMMA FramesLast ==
  ASSUME RequestInv
  PROVE  GetFrameCount * FrameUnits \in Int /\ render.duration <= GetFrameCount * FrameUnits
<1> DEFINE d == render.duration
           u == FrameUnits
           q == (d + u - 1) \div u
           r == (d + u - 1) % u
<1>1. u \in Nat \ {0} /\ d \in Nat BY ExportAssumption DEF RequestInv
<1> HIDE DEF d, u
<1>2. q \in Int /\ d + u - 1 \in Nat BY <1>1
<1>3. d + u - 1 = u * q + r /\ r \in 0..(u - 1) BY <1>1, <1>2
<1>4. u * q \in Int BY <1>1, <1>2
<1>5. d <= u * q BY <1>1, <1>3, <1>4
<1> HIDE DEF q
<1>6. GetFrameCount = IF 1 >= q THEN 1 ELSE q BY <1>2, MaxOfTwo DEF GetFrameCount, q, d, u
<1>7. CASE 1 >= q
  <2>1. q = 1 \/ q <= 0 BY <1>2, <1>7
  <2>2. GetFrameCount = 1 /\ GetFrameCount * u = u BY <1>1, <1>6, <1>7
  <2>3. CASE q = 1
    <3>1. u * q = u BY <1>1, <2>3
    <3> QED BY <1>1, <1>5, <2>2, <3>1 DEF d, u
  <2>4. CASE q <= 0
    <3>1. u * q <= 0 BY <1>1, <1>2, <2>4
    <3>2. d <= 0 BY <1>1, <1>4, <1>5, <3>1
    <3>3. d <= u BY <1>1, <3>2
    <3> QED BY <1>1, <2>2, <3>3 DEF d, u
  <2> QED BY <2>1, <2>3, <2>4
<1>8. CASE ~(1 >= q)
  <2>1. GetFrameCount = q BY <1>6, <1>8
  <2>2. q * u = u * q BY <1>1, <1>2
  <2> QED BY <1>4, <1>5, <2>1, <2>2 DEF d, u
<1> QED BY <1>7, <1>8

(* Where a clip begins and ends within the range. *)
LEMMA ActiveTypes ==
  ASSUME RequestInv, NEW c, IsClip(c), NEW length \in Int
  PROVE  /\ ActiveStart(c) = IF render.start >= c.start THEN render.start ELSE c.start
         /\ ActiveEnd(c, length) = IF render.start + length <= c.start + c.duration
                                   THEN render.start + length ELSE c.start + c.duration
<1>1. render.start \in Int /\ c.start \in Int /\ c.duration \in Int BY DEF RequestInv, IsClip
<1>2. render.start + length \in Int /\ c.start + c.duration \in Int BY <1>1
<1> QED BY <1>1, <1>2, LaterType, MinOfTwo DEF ActiveStart, ActiveEnd

(* The recorder schedules a clip where it belongs. *)
LEMMA ScheduledSound ==
  ASSUME RequestInv, NEW c, IsClip(c)
  PROVE  SoundOf(c, ScheduleSource(c))
<1> DEFINE s == render.start
           d == render.duration
           cs == c.start
           cd == c.duration
           ip == c.inPoint
           len == Length[c.resource]
           delay == Later(0, c.start - render.start)
           off == c.inPoint + Later(0, render.start - c.start)
           span == ActiveEnd(c, render.duration) - ActiveStart(c)
           left == Later(0, Length[c.resource] - off)
           active == Min({span, left})
<1>1. s \in Int /\ d \in Int /\ cs \in Int /\ cd \in Int /\ ip \in Int /\ len \in Int
  BY StructuresAssumption DEF RequestInv, IsClip
<1>2. delay = (IF 0 >= cs - s THEN 0 ELSE cs - s) BY <1>1, LaterType
<1>3. off = ip + (IF 0 >= s - cs THEN 0 ELSE s - cs) BY <1>1, LaterType
<1>4. span = (IF s + d <= cs + cd THEN s + d ELSE cs + cd) - (IF s >= cs THEN s ELSE cs)
  BY <1>1, ActiveTypes
<1>5. ScheduleSource(c) = {<<delay + k, c.id, off + k>> : k \in 0..active - 1} BY DEF ScheduleSource
<1> HIDE DEF delay, span
<1>6. off \in Int BY <1>1, <1>3
<1>7. left = (IF 0 >= len - off THEN 0 ELSE len - off)
  <2> HIDE DEF off
  <2> QED BY <1>1, <1>6, LaterType
<1> HIDE DEF off
<1>8. span \in Int /\ left \in Int BY <1>1, <1>4, <1>6, <1>7
<1> HIDE DEF left
<1>9. active = (IF span <= left THEN span ELSE left) BY <1>8, MinOfTwo
<1>10. \A n : Audible(c, n) <=> (cs <= s + n /\ s + n < cs + cd /\ ip + s + n - cs < len)
  BY DEF Audible, ActiveAt, Medium
<1>11. \A n : Medium(c, n) = ip + s + n - cs BY DEF Medium
<1> HIDE DEF active, s, d, cs, cd, ip, len
<1>12. ASSUME NEW t \in ScheduleSource(c) PROVE Audible(c, t[1]) /\ t = Belongs(t[1], c)
  <2>1. PICK k \in 0..active - 1 : t = <<delay + k, c.id, off + k>> BY <1>5
  <2>2. k \in Int /\ 0 <= k /\ k < span /\ k < left BY <1>8, <1>9
  <2> DEFINE n == delay + k
  <2>3. n \in Int /\ cs <= s + n /\ s + n < cs + cd /\ off + k = ip + s + n - cs
    BY <1>1, <1>2, <1>3, <1>4, <2>2
  <2>4. off + k < len BY <1>1, <1>6, <1>7, <2>2
  <2>5. t[1] = n BY <2>1
  <2>6. Audible(c, n) BY <1>10, <2>3, <2>4
  <2>7. t = <<n, c.id, off + k>> BY <2>1
  <2> HIDE DEF n
  <2>8. t = Belongs(n, c) BY <1>11, <2>3, <2>7 DEF Belongs
  <2> QED BY <2>5, <2>6, <2>8
<1>13. ASSUME NEW n \in 0..d - 1, Audible(c, n) PROVE Belongs(n, c) \in ScheduleSource(c)
  <2>1. n \in Int /\ 0 <= n /\ n < d /\ cs <= s + n /\ s + n < cs + cd /\ ip + s + n - cs < len
    BY <1>1, <1>10, <1>13
  <2> DEFINE k == n - delay
  <2>2. k \in Int /\ 0 <= k /\ k < span BY <1>1, <1>2, <1>4, <2>1
  <2>3. off + k = ip + s + n - cs /\ delay + k = n BY <1>1, <1>2, <1>3, <2>1
  <2>4. k < left BY <1>1, <1>6, <1>7, <2>1, <2>2, <2>3
  <2> HIDE DEF k
  <2>5. k \in 0..active - 1 BY <1>8, <1>9, <2>2, <2>4
  <2>6. Belongs(n, c) = <<delay + k, c.id, off + k>> BY <1>11, <2>3 DEF Belongs
  <2> QED BY <1>5, <2>5, <2>6
<1> QED BY <1>12, <1>13 DEF SoundOf, d

(* WebCodecs mixes a clip where it belongs, but for the last sample of its medium. *)
LEMMA MixedSound ==
  ASSUME RequestInv, NEW c, IsClip(c)
  PROVE  SoundOf(c, MixWebCodecsAudioTrack(c))
<1> DEFINE s == render.start
           d == render.duration
           cs == c.start
           cd == c.duration
           ip == c.inPoint
           len == Length[c.resource]
           length == GetFrameCount * FrameUnits
           dest == ActiveStart(c) - render.start
           span == ActiveEnd(c, length) - ActiveStart(c)
           count == Min({length - dest, span})
           off == c.inPoint + Later(0, render.start - c.start)
<1>1. s \in Int /\ d \in Int /\ cs \in Int /\ cd \in Int /\ ip \in Int /\ len \in Int
  BY StructuresAssumption DEF RequestInv, IsClip
<1>2. length \in Int /\ d <= length BY FramesLast
<1>3. MixWebCodecsAudioTrack(c) = {<<dest + k, c.id, off + k>> :
         k \in {j \in 0..count - 1 : off + j < Length[c.resource] - 1}}
  BY DEF MixWebCodecsAudioTrack
<1> HIDE DEF length
<1>4. dest = (IF s >= cs THEN s ELSE cs) - s BY <1>1, <1>2, ActiveTypes
<1>5. span = (IF s + length <= cs + cd THEN s + length ELSE cs + cd) - (IF s >= cs THEN s ELSE cs)
  BY <1>1, <1>2, ActiveTypes
<1>6. off = ip + (IF 0 >= s - cs THEN 0 ELSE s - cs) BY <1>1, LaterType
<1> HIDE DEF dest, span, off
<1>7. dest \in Int /\ span \in Int /\ off \in Int BY <1>1, <1>2, <1>4, <1>5, <1>6
<1>8. count = (IF length - dest <= span THEN length - dest ELSE span) BY <1>2, <1>7, MinOfTwo
<1>10. \A n : Audible(c, n) <=> (cs <= s + n /\ s + n < cs + cd /\ ip + s + n - cs < len)
  BY DEF Audible, ActiveAt, Medium
<1>11. \A n : Medium(c, n) = ip + s + n - cs BY DEF Medium
<1> HIDE DEF count, s, d, cs, cd, ip
<1>12. ASSUME NEW t \in MixWebCodecsAudioTrack(c) PROVE Audible(c, t[1]) /\ t = Belongs(t[1], c)
  <2>1. PICK k \in {j \in 0..count - 1 : off + j < len - 1} : t = <<dest + k, c.id, off + k>> BY <1>3
  <2> HIDE DEF len
  <2>2. k \in Int /\ 0 <= k /\ k < span /\ off + k < len - 1 BY <1>2, <1>7, <1>8
  <2> DEFINE n == dest + k
  <2>3. n \in Int /\ cs <= s + n /\ s + n < cs + cd /\ off + k = ip + s + n - cs
    BY <1>1, <1>2, <1>4, <1>5, <1>6, <2>2
  <2>4. off + k < len BY <1>1, <1>7, <2>2
  <2>5. t[1] = n BY <2>1
  <2>6. Audible(c, n) BY <1>10, <2>3, <2>4 DEF len
  <2>7. t = <<n, c.id, off + k>> BY <2>1
  <2> HIDE DEF n
  <2>8. t = Belongs(n, c) BY <1>11, <2>3, <2>7 DEF Belongs
  <2> QED BY <2>5, <2>6, <2>8
<1>13. ASSUME NEW n \in 0..d - 1, Audible(c, n), Medium(c, n) # len - 1
       PROVE  Belongs(n, c) \in MixWebCodecsAudioTrack(c)
  <2>0. ip + s + n - cs < len /\ ip + s + n - cs # len - 1 BY <1>10, <1>11, <1>13
  <2> HIDE DEF len
  <2>1. n \in Int /\ 0 <= n /\ n < d /\ cs <= s + n /\ s + n < cs + cd /\ ip + s + n - cs < len - 1
    BY <1>1, <1>10, <1>13, <2>0
  <2> DEFINE k == n - dest
  <2>2. k \in Int /\ 0 <= k /\ k < span /\ k < length - dest BY <1>1, <1>2, <1>4, <1>5, <2>1
  <2>3. off + k = ip + s + n - cs /\ dest + k = n BY <1>1, <1>4, <1>6, <2>1
  <2> HIDE DEF k
  <2>4. k \in 0..count - 1 /\ off + k < len - 1 BY <1>2, <1>7, <1>8, <2>1, <2>2, <2>3
  <2>6. Belongs(n, c) = <<dest + k, c.id, off + k>> BY <1>11, <2>3 DEF Belongs
  <2> QED BY <1>3, <2>4, <2>6 DEF len
<1> QED BY <1>12, <1>13 DEF SoundOf, d

(* The sound of all the clips. *)
SoundRight ==
  /\ \A t \in render.sound : \E c \in AudioClips : Audible(c, t[1]) /\ t = Belongs(t[1], c)
  /\ \A c \in render.decoded, n \in 0..render.duration - 1 :
       Audible(c, n) => Belongs(n, c) \in render.sound \/ Medium(c, n) = Length[c.resource] - 1

-----------------------------------------------------------------------------
(* Lists of anything. *)

IsList(s) == s \in Seq(ToSet(s))

(* A sequence of any kind is a list. *)
LEMMA TypedIsList ==
  ASSUME NEW T, NEW s \in Seq(T)
  PROVE  IsList(s)
<1>1. s \in [1..Len(s) -> T] /\ Len(s) \in Nat /\ DOMAIN s = 1..Len(s) OBVIOUS
<1>2. \A i \in 1..Len(s) : s[i] \in ToSet(s) BY <1>1 DEF ToSet
<1>3. s \in [1..Len(s) -> ToSet(s)] BY <1>1, <1>2
<1>4. s \in Seq(ToSet(s)) BY <1>1, <1>3
<1> QED BY <1>4 DEF IsList

(* One more at the end. *)
LEMMA ListAppend ==
  ASSUME NEW s, IsList(s), NEW e
  PROVE  /\ IsList(Append(s, e)) /\ Len(s) \in Nat /\ Len(Append(s, e)) = Len(s) + 1
         /\ DOMAIN s = 1..Len(s) /\ DOMAIN Append(s, e) = 1..(Len(s) + 1)
         /\ Append(s, e)[Len(s) + 1] = e
         /\ \A i \in 1..Len(s) : Append(s, e)[i] = s[i]
<1> DEFINE T == ToSet(s) \cup {e}
<1>1. s \in Seq(T)
  <2>1. s \in [1..Len(s) -> ToSet(s)] /\ Len(s) \in Nat BY DEF IsList
  <2>2. s \in [1..Len(s) -> T] BY <2>1
  <2> QED BY <2>1, <2>2
<1>2. e \in T OBVIOUS
<1> HIDE DEF T
<1>3. /\ Append(s, e) \in Seq(T) /\ Len(Append(s, e)) = Len(s) + 1
      /\ Append(s, e)[Len(s) + 1] = e /\ \A i \in 1..Len(s) : Append(s, e)[i] = s[i]
  BY <1>1, <1>2, AppendProperties
<1>4. Len(s) \in Nat /\ DOMAIN s = 1..Len(s) BY <1>1, LenProperties
<1>5. DOMAIN Append(s, e) = 1..(Len(s) + 1) BY ONLY <1>3, LenProperties
<1>6. IsList(Append(s, e)) BY ONLY <1>3, TypedIsList
<1> QED BY ONLY <1>3, <1>4, <1>5, <1>6

(* One less at the front. *)
LEMMA ListTail ==
  ASSUME NEW T, NEW s \in Seq(T), s # <<>>
  PROVE  /\ Head(s) = s[1] /\ Head(s) \in T /\ Tail(s) \in Seq(T)
         /\ Len(s) \in Nat \ {0} /\ Len(Tail(s)) = Len(s) - 1
         /\ \A i \in 1..(Len(s) - 1) : Tail(s)[i] = s[i + 1]
<1>1. Len(s) \in Nat /\ s \in [1..Len(s) -> T] /\ Len(s) # 0 BY EmptySeq, LenProperties
<1>2. Head(s) = s[1] /\ s[1] \in T BY <1>1
<1>3. Tail(s) \in Seq(T) /\ Len(Tail(s)) = Len(s) - 1 BY HeadTailProperties
<1>4. \A i \in 1..(Len(s) - 1) : Tail(s)[i] = s[i + 1] BY <1>1
<1> QED BY <1>1, <1>2, <1>3, <1>4

-----------------------------------------------------------------------------
(* The invariant of an export. *)

(* Where the videos stand. *)
StandFields == {"state", "at", "goal", "plays"}
Stands(stands) ==
  /\ DOMAIN stands = DOMAIN Length
  /\ \A r \in DOMAIN Length :
       /\ DOMAIN stands[r] = StandFields
       /\ stands[r].at \in Int /\ stands[r].goal \in Nat /\ stands[r].goal <= Length[r]

(* What the property says of the frame with this number. *)
RightFrame(frame, i, backend) ==
  /\ frame.operations = FrameOperations(i - 1)
  /\ backend # "manifest" =>
       [n \in DOMAIN frame.layers |-> frame.layers[n].op] = frame.operations
  /\ DrawnRight(frame, i, backend)

(* While a frame is prepared: what is prepared and what is to do are together   *)
(* its operations; a video stands near the last layer it was prepared for, or   *)
(* is sought for the layer that is next.                                      *)
Sought(op, stands, backend, late) ==
  ~RunsOut(backend, op, late) =>
    Distance(stands[op.resource].goal, Clamp(op.resource, op.source)) <= Near(backend, late)
Layers(prepared, todo, operations, stands, backend, seeking, late) ==
  /\ IsList(prepared) /\ todo \in Seq(Operations)
  /\ Len(prepared) + Len(todo) = Len(operations)
  /\ \A n \in 1..Len(prepared) : prepared[n].op = operations[n]
  /\ \A n \in 1..Len(todo) : todo[n] = operations[Len(prepared) + n]
  /\ \A n \in VideoLayers(prepared) :
       LastOfItsVideo(prepared, n) /\ ~(seeking /\ Head(todo).resource = prepared[n].op.resource) =>
         Sought(prepared[n].op, stands, backend, late)
  /\ seeking => /\ todo # <<>> /\ Head(todo).kind = "video"
                /\ stands[Head(todo).resource].state = "loaded"
                /\ Sought(Head(todo), stands, backend, late)

(* What WebCodecs has asked a video for in the first frames. *)
WasAsked(stands, count) ==
  \A r \in DOMAIN Length :
    /\ stands[r].goal \in {0} \cup Asked(r, count)
    /\ stands[r].at \in {Blank, 0} \cup Asked(r, count)

Early == {"idle", "config", "mix", "fallback", "capture", "start"}
Drawing == {"frames", "pace", "flush", "stop"}

EarlyInv ==
  render.phase \in Early =>
    /\ render.frames = <<>> /\ render.prepared = <<>> /\ ~render.seeking
    /\ \A r \in DOMAIN Length : /\ cache[r].goal = 0 /\ cache[r].at = Blank
                                /\ cache[r].state # "loaded"

FramesInv ==
  /\ render.phase \in Drawing => render.backend \in {"webcodecs", "recorder"}
  /\ render.phase \in Drawing \cup {"done"} =>
       /\ IsList(render.frames)
       /\ \A i \in DOMAIN render.frames : RightFrame(render.frames[i], i, render.backend)
  /\ render.phase = "frames" => Len(render.frames) < GetFrameCount
  /\ render.phase = "pace" => /\ Len(render.frames) <= GetFrameCount
                             /\ render.backend = "recorder" /\ render.seeking = FALSE
  /\ render.phase \in {"flush", "stop", "done"} => Len(render.frames) = GetFrameCount

LayersInv ==
  render.phase = "frames" =>
    /\ Layers(render.prepared, render.todo, FrameOperations(Len(render.frames)), cache, render.backend,
              render.seeking, render.late)
    /\ render.backend = "webcodecs" => WasAsked(cache, Len(render.frames) + 1)

SoundInv ==
  /\ render.phase \in {"capture", "start"} \cup Drawing => SoundRight
  /\ render.phase = "done" /\ render.backend # "manifest" => SoundRight

ExportInv == RequestInv /\ Stands(cache) /\ EarlyInv /\ FramesInv /\ LayersInv /\ SoundInv

(* What is claimed of the frames and of the sound follows. *)
LEMMA ExportFollows ==
  ASSUME ExportInv
  PROVE  FramesAreThePreview /\ SoundWhereItBelongs
<1>1. SoundWhereItBelongs
  BY DEF ExportInv, SoundInv, SoundRight, SoundWhereItBelongs, Audible, Belongs, Medium
<1>2. FramesAreThePreview
  <2>1. SUFFICES ASSUME render.phase = "done" PROVE FramesAreThePreview BY DEF FramesAreThePreview
  <2>2. /\ Len(render.frames) = GetFrameCount /\ IsList(render.frames)
        /\ \A i \in DOMAIN render.frames : RightFrame(render.frames[i], i, render.backend)
    BY <2>1 DEF ExportInv, FramesInv
  <2>3. ASSUME NEW i \in DOMAIN render.frames
        PROVE  LET frame == render.frames[i] IN
               /\ frame.operations = FilterClips(CreatePreviewFrame(render.plan, FrameTime(i - 1)).rendered)
               /\ render.backend # "manifest" =>
                    [n \in DOMAIN frame.layers |-> frame.layers[n].op] = frame.operations
               /\ DrawnRight(frame, i, render.backend)
    <3>1. i - 1 \in Nat BY <2>2 DEF IsList
    <3>2. FrameOperations(i - 1) = FilterClips(CreatePreviewFrame(render.plan, FrameTime(i - 1)).rendered)
      BY <3>1, OperationsAreThePreview DEF ExportInv
    <3> QED BY <2>2, <3>2, Zenon DEF RightFrame
  <2> QED BY <2>2, <2>3, Zenon DEF FramesAreThePreview
<1> QED BY <1>1, <1>2

-----------------------------------------------------------------------------
(* The layers of a frame. *)

(* A clamped time is within the medium, and is the time itself when that is.    *)
LEMMA ClampIsNear ==
  ASSUME NEW r \in DOMAIN Length, NEW source \in Nat
  PROVE  /\ Clamp(r, source) \in Nat /\ Clamp(r, source) <= Length[r]
         /\ Distance(Clamp(r, source), Clamp(r, source)) = 0
         /\ source < Length[r] => Clamp(r, source) = source
<1> DEFINE last == Length[r] - 1
           m == Min({source, last})
           clamp == Clamp(r, source)
<1>1. Length[r] \in Nat /\ last \in Int BY StructuresAssumption
<1>2. Clamp(r, source) = Later(0, m) BY DEF Clamp
<1> HIDE DEF last
<1>3. m = IF source <= last THEN source ELSE last BY <1>1, MinOfTwo
<1> HIDE DEF m
<1>4. m \in Int BY <1>1, <1>3
<1>5. clamp = IF 0 >= m THEN 0 ELSE m BY <1>2, <1>4, LaterType
<1> HIDE DEF clamp
<1>6. clamp \in Nat /\ clamp <= Length[r] /\ (source < Length[r] => clamp = source)
  BY <1>1, <1>3, <1>4, <1>5 DEF last
<1>7. Distance(clamp, clamp) = 0 BY <1>6 DEF Distance
<1> QED BY <1>6, <1>7 DEF clamp

(* A step forward adds at most itself to a distance. *)
LEMMA DistanceMoved ==
  ASSUME NEW g \in Nat, NEW h \in Nat, NEW clamp \in Nat, NEW d \in Nat, g <= h, h <= g + d
  PROVE  /\ Distance(g, clamp) \in Nat /\ Distance(h, clamp) \in Nat
         /\ Distance(h, clamp) <= Distance(g, clamp) + d
<1>1. CASE h < clamp BY <1>1 DEF Distance
<1>2. CASE ~(h < clamp) /\ g < clamp
  <2>1. Distance(g, clamp) = clamp - g /\ Distance(h, clamp) = h - clamp BY <1>2 DEF Distance
  <2> QED BY <1>2, <2>1
<1>3. CASE ~(h < clamp) /\ ~(g < clamp)
  <2>1. Distance(g, clamp) = g - clamp /\ Distance(h, clamp) = h - clamp BY <1>3 DEF Distance
  <2> QED BY <1>3, <2>1
<1> QED BY <1>1, <1>2, <1>3

(* A video that moves on by no more than the time that passes stays near.       *)
LEMMA SoughtMoved ==
  ASSUME NEW op \in Operations, NEW stands, NEW new, NEW backend, NEW late \in Nat, NEW d \in Nat,
         Sought(op, stands, backend, late), d = 0 \/ backend = "recorder",
         stands[op.resource].goal \in Nat, new[op.resource].goal \in Nat,
         stands[op.resource].goal <= new[op.resource].goal,
         new[op.resource].goal <= stands[op.resource].goal + d
  PROVE  Sought(op, new, backend, late + d)
<1> DEFINE r == op.resource
           g == stands[r].goal
           h == new[r].goal
           source == op.source
           clamp == Clamp(r, source)
<1>1. r \in DOMAIN Length /\ source \in Nat BY OperationsAreTyped
<1>2. Length[r] \in Nat /\ Tolerance \in Nat BY <1>1, StructuresAssumption, ExportAssumption
<1>3. clamp \in Nat BY <1>1, ClampIsNear
<1>4. g \in Nat /\ h \in Nat /\ g <= h /\ h <= g + d OBVIOUS
<1>5. SUFFICES ASSUME ~RunsOut(backend, op, late + d) PROVE Distance(h, clamp) <= Near(backend, late + d)
  BY DEF Sought
<1>6. ~RunsOut(backend, op, late) BY <1>1, <1>2, <1>5 DEF RunsOut
<1>7. Distance(g, clamp) <= Near(backend, late) BY <1>6 DEF Sought
<1> HIDE DEF g, h, clamp
<1>8. Distance(h, clamp) <= Distance(g, clamp) + d /\ Distance(g, clamp) \in Nat /\ Distance(h, clamp) \in Nat
  BY <1>3, <1>4, DistanceMoved
<1>9. CASE d = 0
  <2>1. late + d = late BY <1>9
  <2>2. Distance(h, clamp) <= Distance(g, clamp) BY <1>8, <1>9
  <2>3. Near(backend, late) \in Int BY <1>2 DEF Near
  <2>4. Distance(h, clamp) <= Near(backend, late) BY ONLY <1>7, <1>8, <2>2, <2>3
  <2> QED BY <2>1, <2>4
<1>10. CASE backend = "recorder"
  <2>1. Near(backend, late + d) = Tolerance + late + d /\ Near(backend, late) = Tolerance + late
    BY <1>2, <1>10 DEF Near
  <2> QED BY <1>2, <1>7, <1>8, <2>1
<1> QED BY <1>9, <1>10 DEF h, clamp

(* A frame begins with everything to do. *)
LEMMA LayersStart ==
  ASSUME NEW operations \in Seq(Operations), NEW stands, NEW backend, NEW late
  PROVE  Layers(<<>>, operations, operations, stands, backend, FALSE, late)
<1>1. IsList(<<>>) BY EmptySeq DEF IsList
<1>2. Len(<<>>) = 0 /\ DOMAIN <<>> = {} OBVIOUS
<1>3. Len(operations) \in Nat BY LenProperties
<1>4. VideoLayers(<<>>) = {} BY <1>2 DEF VideoLayers
<1>5. \A n \in 1..Len(operations) : operations[n] = operations[0 + n] OBVIOUS
<1> QED BY <1>1, <1>2, <1>3, <1>4, <1>5 DEF Layers

(* A layer that is prepared is one of the frame's operations. *)
LEMMA PreparedAreOperations ==
  ASSUME NEW prepared, NEW todo, NEW operations \in Seq(Operations), NEW stands, NEW backend,
         NEW seeking, NEW late,
         Layers(prepared, todo, operations, stands, backend, seeking, late)
  PROVE  /\ Len(prepared) \in Nat /\ DOMAIN prepared = 1..Len(prepared)
         /\ \A n \in DOMAIN prepared : prepared[n].op \in Operations
<1>1. /\ IsList(prepared) /\ todo \in Seq(Operations) /\ Len(prepared) + Len(todo) = Len(operations)
      /\ \A m \in 1..Len(prepared) : prepared[m].op = operations[m]
  BY DEF Layers
<1>2. Len(prepared) \in Nat /\ DOMAIN prepared = 1..Len(prepared) BY <1>1, LenProperties DEF IsList
<1>3. Len(todo) \in Nat /\ Len(operations) \in Nat BY <1>1, LenProperties
<1>4. ASSUME NEW n \in DOMAIN prepared PROVE prepared[n].op \in Operations
  <2>1. n \in 1..Len(operations) BY <1>1, <1>2, <1>3
  <2>2. operations[n] \in Operations BY <2>1, ElementOfSeq
  <2> QED BY <1>1, <1>2, <2>2
<1> QED BY <1>2, <1>4

(* A layer is prepared: the goal of its video may have moved, no other has. *)
LEMMA LayersAdd ==
  ASSUME NEW prepared, NEW todo, NEW operations, NEW stands, NEW new, NEW backend, NEW layer,
         NEW seeking, NEW late,
         Layers(prepared, todo, operations, stands, backend, seeking, late), todo # <<>>,
         layer.op = Head(todo),
         layer.with = "video" => Sought(layer.op, new, backend, late),
         layer.with # "video" => ~seeking,
         operations \in Seq(Operations),
         \A r \in DOMAIN Length :
            new[r].goal = stands[r].goal \/ (r = layer.op.resource /\ layer.with = "video")
  PROVE  Layers(Append(prepared, layer), Tail(todo), operations, new, backend, FALSE, late)
<1> DEFINE p == Append(prepared, layer)
           l == Len(prepared)
           k == Len(todo)
<1>1. /\ IsList(prepared) /\ todo \in Seq(Operations) /\ l + k = Len(operations)
      /\ \A n \in 1..l : prepared[n].op = operations[n]
      /\ \A n \in 1..k : todo[n] = operations[l + n]
      /\ \A n \in VideoLayers(prepared) :
           LastOfItsVideo(prepared, n) /\ ~(seeking /\ Head(todo).resource = prepared[n].op.resource) =>
             Sought(prepared[n].op, stands, backend, late)
  BY DEF Layers
<1>11. \A n \in DOMAIN prepared : prepared[n].op \in Operations BY PreparedAreOperations
<1>2. /\ IsList(p) /\ l \in Nat /\ Len(p) = l + 1 /\ DOMAIN prepared = 1..l /\ DOMAIN p = 1..(l + 1)
      /\ p[l + 1] = layer /\ \A i \in 1..l : p[i] = prepared[i]
  BY <1>1, ListAppend
<1>3. /\ Head(todo) = todo[1] /\ Tail(todo) \in Seq(Operations)
      /\ k \in Nat \ {0} /\ Len(Tail(todo)) = k - 1
      /\ \A i \in 1..(k - 1) : Tail(todo)[i] = todo[i + 1]
  BY <1>1, ListTail
<1> HIDE DEF p, l, k
<1>4. Len(p) + Len(Tail(todo)) = Len(operations)
  <2>1. l + k = Len(operations) /\ l \in Nat /\ k \in Nat BY <1>1, <1>2, <1>3
  <2>2. Len(p) = l + 1 /\ Len(Tail(todo)) = k - 1 BY <1>2, <1>3
  <2>3. (l + 1) + (k - 1) = l + k BY ONLY <2>1
  <2> QED BY ONLY <2>1, <2>2, <2>3
<1>5. ASSUME NEW n \in 1..Len(p) PROVE p[n].op = operations[n]
  <2>1. CASE n \in 1..l BY <1>1, <1>2, <2>1
  <2>2. CASE n = l + 1
    <3>1. todo[1] = operations[l + 1] BY <1>1, <1>3
    <3> QED BY <1>2, <1>3, <2>2, <3>1
  <2> QED BY <1>2, <2>1, <2>2
<1>6. ASSUME NEW n \in 1..Len(Tail(todo)) PROVE Tail(todo)[n] = operations[Len(p) + n]
  <2>1. n \in Nat /\ n \in 1..(k - 1) /\ n + 1 \in 1..k BY <1>3
  <2>2. Tail(todo)[n] = operations[l + (n + 1)] BY <1>1, <1>3, <2>1
  <2>3. l + (n + 1) = Len(p) + n BY <1>2, <2>1
  <2> QED BY <2>2, <2>3
<1>7. ASSUME NEW n \in VideoLayers(p), LastOfItsVideo(p, n) PROVE Sought(p[n].op, new, backend, late)
  <2>1. n \in 1..(l + 1) /\ p[n].with = "video" BY <1>2 DEF VideoLayers
  <2>2. CASE n = l + 1 BY <1>2, <2>1, <2>2
  <2>3. CASE n \in 1..l
    <3>1. p[n] = prepared[n] /\ n \in VideoLayers(prepared) BY <1>2, <2>1, <2>3 DEF VideoLayers
    <3>2. \A m \in VideoLayers(prepared) : m \in VideoLayers(p) /\ p[m] = prepared[m]
      BY <1>2 DEF VideoLayers
    <3>3. LastOfItsVideo(prepared, n) BY <1>7, <3>1, <3>2 DEF LastOfItsVideo
    <3>4. ~(prepared[n].op.resource = layer.op.resource /\ layer.with = "video")
      <4>1. SUFFICES ASSUME layer.with = "video" PROVE prepared[n].op.resource # layer.op.resource
        OBVIOUS
      <4>2. l + 1 \in VideoLayers(p) /\ l + 1 > n BY <1>2, <2>3, <4>1 DEF VideoLayers
      <4> QED BY <1>2, <1>7, <3>1, <4>2 DEF LastOfItsVideo
    <3>5. Sought(prepared[n].op, stands, backend, late) BY <1>1, <3>1, <3>3, <3>4
    <3>6. prepared[n].op.resource \in DOMAIN Length BY <1>2, <1>11, <2>3, OperationsAreTyped
    <3>7. new[prepared[n].op.resource].goal = stands[prepared[n].op.resource].goal BY <3>4, <3>6
    <3> QED BY <3>1, <3>5, <3>7 DEF Sought
  <2> QED BY <1>2, <2>1, <2>2, <2>3
<1> QED BY <1>2, <1>3, <1>4, <1>5, <1>6, <1>7 DEF Layers, p

(* Time passes while a layer is awaited: the videos move on by no more. *)
LEMMA LayersMoved ==
  ASSUME NEW prepared, NEW todo, NEW operations \in Seq(Operations), NEW stands, NEW new, NEW backend,
         NEW seeking, NEW late \in Nat, NEW d \in Nat,
         Layers(prepared, todo, operations, stands, backend, seeking, late),
         d = 0 \/ backend = "recorder",
         \A r \in DOMAIN Length :
           /\ stands[r].goal \in Nat /\ new[r].goal \in Nat
           /\ stands[r].goal <= new[r].goal /\ new[r].goal <= stands[r].goal + d
           /\ stands[r].state = "loaded" => new[r].state = "loaded"
  PROVE  Layers(prepared, todo, operations, new, backend, seeking, late + d)
<1>1. /\ IsList(prepared) /\ todo \in Seq(Operations)
      /\ Len(prepared) + Len(todo) = Len(operations)
      /\ \A n \in 1..Len(prepared) : prepared[n].op = operations[n]
      /\ \A n \in 1..Len(todo) : todo[n] = operations[Len(prepared) + n]
      /\ \A n \in VideoLayers(prepared) :
           LastOfItsVideo(prepared, n) /\ ~(seeking /\ Head(todo).resource = prepared[n].op.resource) =>
             Sought(prepared[n].op, stands, backend, late)
      /\ seeking => /\ todo # <<>> /\ Head(todo).kind = "video"
                    /\ stands[Head(todo).resource].state = "loaded"
                    /\ Sought(Head(todo), stands, backend, late)
  BY DEF Layers
<1>2. ASSUME NEW op \in Operations, Sought(op, stands, backend, late)
      PROVE  Sought(op, new, backend, late + d)
  <2>1. op.resource \in DOMAIN Length BY OperationsAreTyped
  <2> QED BY <1>2, <2>1, SoughtMoved
<1>3. ASSUME NEW n \in VideoLayers(prepared), LastOfItsVideo(prepared, n),
             ~(seeking /\ Head(todo).resource = prepared[n].op.resource)
      PROVE  Sought(prepared[n].op, new, backend, late + d)
  <2>1. prepared[n].op \in Operations BY PreparedAreOperations DEF VideoLayers
  <2> QED BY <1>1, <1>2, <1>3, <2>1
<1>4. ASSUME seeking
      PROVE  /\ todo # <<>> /\ Head(todo).kind = "video"
             /\ new[Head(todo).resource].state = "loaded"
             /\ Sought(Head(todo), new, backend, late + d)
  <2>1. todo # <<>> /\ Head(todo).kind = "video" BY <1>1, <1>4
  <2>2. Head(todo) \in Operations BY <1>1, <2>1, ListTail
  <2>3. Head(todo).resource \in DOMAIN Length BY <2>2, OperationsAreTyped
  <2> QED BY <1>1, <1>2, <1>4, <2>1, <2>2, <2>3
<1> QED BY <1>1, <1>3, <1>4 DEF Layers

(* A seek of the next layer begins. *)
LEMMA LayersSeek ==
  ASSUME NEW prepared, NEW todo, NEW operations \in Seq(Operations), NEW stands, NEW new, NEW backend,
         NEW late,
         Layers(prepared, todo, operations, stands, backend, FALSE, late),
         todo # <<>>, Head(todo).kind = "video", new[Head(todo).resource].state = "loaded",
         Sought(Head(todo), new, backend, late),
         \A r \in DOMAIN Length \ {Head(todo).resource} : new[r].goal = stands[r].goal
  PROVE  Layers(prepared, todo, operations, new, backend, TRUE, late)
<1>1. ASSUME NEW n \in VideoLayers(prepared), LastOfItsVideo(prepared, n),
             Head(todo).resource # prepared[n].op.resource
      PROVE  Sought(prepared[n].op, new, backend, late)
  <2>1. prepared[n].op \in Operations BY PreparedAreOperations DEF VideoLayers
  <2>2. prepared[n].op.resource \in DOMAIN Length BY <2>1, OperationsAreTyped
  <2>3. Sought(prepared[n].op, stands, backend, late) BY <1>1 DEF Layers
  <2> QED BY <1>1, <2>2, <2>3 DEF Sought
<1> QED BY <1>1 DEF Layers

(* What is drawn of the layers when all of them are prepared. *)
Shows(prepared, stands) ==
  [i \in DOMAIN prepared |->
     LET layer == prepared[i]
         stood == stands[layer.op.resource]
     IN IF layer.with = "video"
        THEN [op |-> layer.op, with |-> "video", at |-> stood.at, landed |-> stood.at = stood.goal]
        ELSE layer]

(* All layers are prepared: the frame that is drawn is right. *)
LEMMA LayersDrawn ==
  ASSUME NEW prepared, NEW index \in Nat, NEW stands, NEW backend, NEW seeking, NEW late,
         FrameOperations(index) \in Seq(Operations),
         Layers(prepared, <<>>, FrameOperations(index), stands, backend, seeking, late),
         backend = "webcodecs" => WasAsked(stands, index + 1)
  PROVE  RightFrame([operations |-> FrameOperations(index), layers |-> Shows(prepared, stands), late |-> late],
                    index + 1, backend)
<1> DEFINE operations == FrameOperations(index)
           shows == Shows(prepared, stands)
           frame == [operations |-> operations, layers |-> shows, late |-> late]
<1>0. operations \in Seq(Operations) /\ (index + 1) - 1 = index OBVIOUS
<1>1. Len(<<>>) = 0 OBVIOUS
<1>2. /\ IsList(prepared) /\ Len(prepared) + Len(<<>>) = Len(operations)
      /\ \A n \in 1..Len(prepared) : prepared[n].op = operations[n]
      /\ ~seeking
      /\ \A n \in VideoLayers(prepared) :
           LastOfItsVideo(prepared, n) => Sought(prepared[n].op, stands, backend, late)
  BY DEF Layers
<1>14. \A n \in DOMAIN prepared : prepared[n].op \in Operations BY PreparedAreOperations
<1>15. frame.operations = FrameOperations(index) OBVIOUS
<1> HIDE DEF operations
<1>3. Len(prepared) \in Nat /\ DOMAIN prepared = 1..Len(prepared) BY <1>2, LenProperties DEF IsList
<1>4. Len(prepared) = Len(operations) BY <1>1, <1>2, <1>3
<1>5. DOMAIN operations = 1..Len(operations) /\ operations = [n \in 1..Len(operations) |-> operations[n]]
  BY <1>0
<1>6. DOMAIN shows = DOMAIN prepared BY DEF Shows
<1>7. ASSUME NEW n \in DOMAIN prepared
      PROVE  /\ shows[n].op = prepared[n].op /\ shows[n].with = prepared[n].with
             /\ prepared[n].with = "video" =>
                  /\ shows[n].at = stands[prepared[n].op.resource].at
                  /\ shows[n].landed <=>
                       stands[prepared[n].op.resource].at = stands[prepared[n].op.resource].goal
  <2> DEFINE layer == prepared[n]
             stood == stands[layer.op.resource]
  <2>1. shows[n] = IF layer.with = "video"
                   THEN [op |-> layer.op, with |-> "video", at |-> stood.at, landed |-> stood.at = stood.goal]
                   ELSE layer
    BY DEF Shows
  <2>2. CASE layer.with = "video"
    <3>1. shows[n] = [op |-> layer.op, with |-> "video", at |-> stood.at, landed |-> stood.at = stood.goal]
      BY <2>1, <2>2
    <3> HIDE DEF shows
    <3>2. shows[n].op = layer.op /\ shows[n].with = "video" /\ shows[n].at = stood.at BY <3>1
    <3> DEFINE landed == stood.at = stood.goal
    <3>3. shows[n].landed = landed
      <4>1. shows[n] = [op |-> layer.op, with |-> "video", at |-> stood.at, landed |-> landed] BY <3>1
      <4> HIDE DEF landed
      <4> QED BY <4>1
    <3> QED BY <2>2, <3>2, <3>3, Zenon
  <2>3. CASE layer.with # "video" BY <2>1, <2>3
  <2> QED BY <2>2, <2>3
<1> HIDE DEF shows
<1>8. [n \in DOMAIN shows |-> shows[n].op] = operations
  <2>1. [n \in DOMAIN shows |-> shows[n].op] = [n \in 1..Len(operations) |-> operations[n]]
    BY <1>2, <1>3, <1>4, <1>6, <1>7
  <2> QED BY <1>5, <2>1
<1>9. ASSUME NEW n \in VideoLayers(shows)
      PROVE  /\ LastOfItsVideo(shows, n) /\ shows[n].landed /\ ~RunsOut(backend, shows[n].op, late) =>
                  Distance(shows[n].at, Clamp(shows[n].op.resource, shows[n].op.source)) <= Near(backend, late)
             /\ backend = "webcodecs" => shows[n].at \in {Blank, 0} \cup Asked(shows[n].op.resource, index + 1)
  <2>1. n \in VideoLayers(prepared) BY <1>6, <1>7, <1>9 DEF VideoLayers
  <2>2. \A m \in VideoLayers(prepared) : m \in VideoLayers(shows) /\ shows[m].op = prepared[m].op
    BY <1>6, <1>7 DEF VideoLayers
  <2>3. prepared[n].with = "video" /\ n \in DOMAIN prepared BY <2>1 DEF VideoLayers
  <2>4. ASSUME LastOfItsVideo(shows, n), shows[n].landed, ~RunsOut(backend, shows[n].op, late)
        PROVE  Distance(shows[n].at, Clamp(shows[n].op.resource, shows[n].op.source)) <= Near(backend, late)
    <3>1. LastOfItsVideo(prepared, n) BY <2>1, <2>2, <2>4 DEF LastOfItsVideo
    <3>2. Sought(prepared[n].op, stands, backend, late) BY <1>2, <2>1, <3>1
    <3>3. shows[n].at = stands[prepared[n].op.resource].goal /\ shows[n].op = prepared[n].op
      BY <1>7, <2>3, <2>4
    <3> QED BY <2>4, <3>2, <3>3 DEF Sought
  <2>5. ASSUME backend = "webcodecs"
        PROVE  shows[n].at \in {Blank, 0} \cup Asked(shows[n].op.resource, index + 1)
    <3>1. prepared[n].op.resource \in DOMAIN Length BY <1>14, <2>3, OperationsAreTyped
    <3>2. stands[prepared[n].op.resource].at \in {Blank, 0} \cup Asked(prepared[n].op.resource, index + 1)
      BY <2>5, <3>1 DEF WasAsked
    <3>3. shows[n].at = stands[prepared[n].op.resource].at /\ shows[n].op = prepared[n].op BY <1>7, <2>3
    <3> QED BY <3>2, <3>3
  <2> QED BY <2>4, <2>5
<1>10. frame.operations = operations /\ frame.layers = shows /\ frame.late = late OBVIOUS
<1> HIDE DEF frame
<1>11. DrawnRight(frame, index + 1, backend) BY <1>9, <1>10, Zenon DEF DrawnRight
<1>12. frame.operations = FrameOperations((index + 1) - 1) BY <1>0, <1>15
<1>13. RightFrame(frame, index + 1, backend) BY <1>8, <1>10, <1>11, <1>12 DEF RightFrame
<1> QED BY <1>13 DEF frame, shows, operations

-----------------------------------------------------------------------------
(* What a step that keeps the request leaves alone. *)

SameRequest ==
  /\ DOMAIN render' = Fields /\ render'.plan = render.plan /\ render'.start = render.start
  /\ render'.duration = render.duration /\ render'.clipIds = render.clipIds
  /\ render'.late \in Nat

(* The number of frames, their operations and the clips that sound are those of the request. *)
LEMMA RequestKept ==
  ASSUME RequestInv, SameRequest
  PROVE  /\ RequestInv' /\ GetFrameCount' = GetFrameCount /\ AudioClips' = AudioClips
         /\ \A i : FrameOperations(i)' = FrameOperations(i)
         /\ \A r, count : Asked(r, count)' = Asked(r, count)
         /\ \A frame, i, backend : RightFrame(frame, i, backend) => RightFrame(frame, i, backend)'
<1>1. RequestInv' BY DEF RequestInv, SameRequest
<1>2. GetFrameCount' = GetFrameCount BY DEF GetFrameCount, SameRequest
<1>3. AudioClips' = AudioClips BY DEF AudioClips, SameRequest
<1>4. ASSUME NEW i PROVE FrameOperations(i)' = FrameOperations(i)
  <2> DEFINE ops == CompileFrameOperations(render.plan, FrameTime(i))
  <2>1. FrameTime(i)' = FrameTime(i) BY DEF FrameTime, SameRequest
  <2>2. ops' = ops
    <3>1. render'.plan = render.plan BY DEF SameRequest
    <3> QED BY <2>1, <3>1, Zenon
  <2> HIDE DEF ops
  <2>3. render'.clipIds = render.clipIds BY DEF SameRequest
  <2>4. FilterClips(ops)' = FilterClips(ops)
    BY ONLY <2>2, <2>3 DEF FilterClips
  <2> QED BY <2>4 DEF FrameOperations, ops
<1>5. ASSUME NEW r, NEW count PROVE Asked(r, count)' = Asked(r, count)
  BY <1>4 DEF Asked
<1>6. ASSUME NEW frame, NEW i, NEW backend, RightFrame(frame, i, backend)
      PROVE  RightFrame(frame, i, backend)'
  <2>1. FrameOperations(i - 1)' = FrameOperations(i - 1) BY <1>4
  <2>2. DrawnRight(frame, i, backend)' <=> DrawnRight(frame, i, backend) BY <1>5 DEF DrawnRight
  <2> QED BY <1>6, <2>1, <2>2 DEF RightFrame
<1> QED BY <1>1, <1>2, <1>3, <1>4, <1>5, <1>6

(* The sound is right while the request and the sound are the same. *)
LEMMA SoundKept ==
  ASSUME RequestInv, SameRequest, SoundRight,
         render'.sound = render.sound, render'.decoded = render.decoded
  PROVE  SoundRight'
<1>1. AudioClips' = AudioClips /\ render'.start = render.start /\ render'.duration = render.duration
  BY RequestKept DEF SameRequest
<1>2. \A c, n : (Audible(c, n)' <=> Audible(c, n)) /\ Medium(c, n)' = Medium(c, n)
                /\ Belongs(n, c)' = Belongs(n, c)
  BY <1>1 DEF Audible, Medium, Belongs
<1>3. \A t \in render.sound : \E c \in AudioClips : Audible(c, t[1])' /\ t = Belongs(t[1], c)'
  BY <1>2 DEF SoundRight
<1>4. \A c \in render.decoded, n \in 0..render.duration - 1 :
         Audible(c, n)' => Belongs(n, c)' \in render.sound \/ Medium(c, n)' = Length[c.resource] - 1
  BY <1>2 DEF SoundRight
<1> QED BY <1>1, <1>3, <1>4 DEF SoundRight, Audible, Medium, Belongs

(* The sound of all clips that play, and of those that were decoded. *)
LEMMA AllSound ==
  ASSUME RequestInv, SameRequest, NEW playing, playing \subseteq AudioClips,
         NEW decoded, decoded \subseteq playing, NEW sounds,
         \A c \in playing : SoundOf(c, sounds[c]),
         render'.sound = UNION {sounds[c] : c \in playing}, render'.decoded = decoded
  PROVE  SoundRight'
<1>1. AudioClips' = AudioClips /\ render'.start = render.start /\ render'.duration = render.duration
  BY RequestKept DEF SameRequest
<1>2. \A c, n : (Audible(c, n)' <=> Audible(c, n)) /\ Medium(c, n)' = Medium(c, n)
                /\ Belongs(n, c)' = Belongs(n, c)
  BY <1>1 DEF Audible, Medium, Belongs
<1>3. ASSUME NEW t \in render'.sound
      PROVE  \E c \in AudioClips : Audible(c, t[1])' /\ t = Belongs(t[1], c)'
  <2>1. PICK c \in playing : t \in sounds[c] OBVIOUS
  <2>2. Audible(c, t[1]) /\ t = Belongs(t[1], c) BY <2>1 DEF SoundOf
  <2>3. Audible(c, t[1])' /\ t = Belongs(t[1], c)' BY <1>2, <2>2
  <2> QED BY <2>3
<1>4. ASSUME NEW c \in decoded, NEW n \in 0..render.duration - 1, Audible(c, n)'
      PROVE  Belongs(n, c)' \in render'.sound \/ Medium(c, n)' = Length[c.resource] - 1
  <2>1. Audible(c, n) BY <1>2, <1>4
  <2>2. c \in playing OBVIOUS
  <2>3. Belongs(n, c) \in sounds[c] \/ Medium(c, n) = Length[c.resource] - 1 BY <2>1, <2>2 DEF SoundOf
  <2>4. CASE Belongs(n, c) \in sounds[c]
    <3>1. Belongs(n, c) \in render'.sound BY <2>2, <2>4
    <3> QED BY <1>2, <3>1
  <2> QED BY <1>2, <2>3, <2>4
<1> QED BY <1>1, <1>3, <1>4 DEF SoundRight, Audible, Medium, Belongs

-----------------------------------------------------------------------------
(* The steps of an export, by what they do to its phase. *)

(* An export that has failed owes nothing. *)
LEMMA FailureIsKept ==
  ASSUME ExportInv, SameRequest, render'.phase = "failed", Stands(cache)'
  PROVE  ExportInv'
<1>1. RequestInv' BY RequestKept DEF ExportInv
<1>2. EarlyInv' /\ FramesInv' BY DEF EarlyInv, FramesInv, Early, Drawing
<1>3. LayersInv' BY DEF LayersInv
<1>4. SoundInv' BY DEF SoundInv, Drawing
<1> QED BY <1>1, <1>2, <1>3, <1>4 DEF ExportInv

(* Whatever it failed of. *)
LEMMA ExportAtFails ==
  ASSUME ExportInv, NEW why, Fails(why), Stands(cache)'
  PROVE  ExportInv'
<1>1. SameRequest /\ render'.phase = "failed" BY DEF Fails, ExportInv, RequestInv, SameRequest, Fields
<1> QED BY <1>1, FailureIsKept

(* Before the first frame nothing is owed, but for the sound of the recorder. *)
LEMMA Prepares ==
  ASSUME ExportInv, SameRequest, render.phase \in Early,
         render'.phase \in {"config", "mix", "fallback", "capture", "start"},
         render'.frames = render.frames, render'.prepared = render.prepared,
         render'.seeking = render.seeking, UNCHANGED cache,
         render'.phase \in {"capture", "start"} => SoundRight'
  PROVE  ExportInv'
<1>1. RequestInv' BY RequestKept DEF ExportInv
<1>2. EarlyInv' /\ FramesInv' BY DEF ExportInv, EarlyInv, FramesInv, Early, Drawing
<1>3. LayersInv' BY DEF LayersInv
<1>4. SoundInv' BY DEF SoundInv, Drawing
<1>5. Stands(cache)' BY DEF ExportInv, Stands
<1> QED BY <1>1, <1>2, <1>3, <1>4, <1>5 DEF ExportInv

(* The first frame is begun: its sound must be right by now. *)
LEMMA Starts ==
  ASSUME ExportInv, render.phase \in Early,
         NEW backend \in {"webcodecs", "recorder"}, NEW decoded, NEW sound,
         StartFrames(backend, decoded, sound), UNCHANGED cache,
         SameRequest /\ render'.sound = sound /\ render'.decoded = decoded => SoundRight'
  PROVE  ExportInv'
<1>1. RequestInv /\ Stands(cache) /\ EarlyInv BY DEF ExportInv
<1>2. /\ SameRequest /\ render'.phase = "frames" /\ render'.backend = backend
      /\ render'.todo = FrameOperations(0) /\ render'.sound = sound /\ render'.decoded = decoded
      /\ render'.frames = render.frames /\ render'.prepared = render.prepared
      /\ render'.seeking = render.seeking
  BY <1>1 DEF StartFrames, RequestInv, SameRequest, Fields
<1>3. /\ render'.frames = <<>> /\ render'.prepared = <<>> /\ ~render'.seeking
      /\ \A r \in DOMAIN Length : cache'[r].goal = 0 /\ cache'[r].at = Blank
  BY <1>1, <1>2 DEF EarlyInv
<1>4. RequestInv' /\ GetFrameCount' = GetFrameCount /\ \A i : FrameOperations(i)' = FrameOperations(i)
  BY <1>1, <1>2, RequestKept
<1>5. GetFrameCount \in Nat \ {0} BY <1>1, CountType
<1>6. Len(<<>>) = 0 /\ DOMAIN <<>> = {} OBVIOUS
<1>7. IsList(<<>>) BY EmptySeq DEF IsList
<1>8. EarlyInv' /\ FramesInv'
  BY <1>2, <1>3, <1>4, <1>5, <1>6, <1>7 DEF EarlyInv, FramesInv, Early, Drawing
<1>9. LayersInv'
  <2> DEFINE ops == FrameOperations(0)
  <2>1. ops \in Seq(Operations) BY <1>1, FrameOperationsAreTyped
  <2>2. FrameOperations(Len(render.frames))' = ops BY <1>3, <1>4, <1>6
  <2> HIDE DEF ops
  <2>3. Layers(<<>>, ops, ops, cache', backend, FALSE, render'.late) BY <2>1, LayersStart
  <2>4. render'.seeking = FALSE
    <3>1. render.seeking = FALSE \/ render.seeking # FALSE OBVIOUS
    <3> QED BY <1>1, <1>2 DEF EarlyInv
  <2>5. Layers(render'.prepared, render'.todo, FrameOperations(Len(render.frames))', cache', render'.backend,
               render'.seeking, render'.late)
    BY <1>2, <1>3, <2>2, <2>3, <2>4 DEF ops
  <2>6. WasAsked(cache, Len(render.frames) + 1)' BY <1>3 DEF WasAsked
  <2> QED BY <2>5, <2>6 DEF LayersInv
<1>10. SoundInv' BY <1>2 DEF SoundInv
<1>11. Stands(cache)' BY <1>1 DEF Stands
<1> QED BY <1>4, <1>8, <1>9, <1>10, <1>11 DEF ExportInv

(* The layers of a frame are prepared. *)
LEMMA KeepsPreparing ==
  ASSUME ExportInv, SameRequest, render.phase = "frames", render'.phase = "frames",
         render'.frames = render.frames, render'.backend = render.backend,
         render'.sound = render.sound, render'.decoded = render.decoded, Stands(cache)',
         Layers(render'.prepared, render'.todo, FrameOperations(Len(render.frames)), cache', render.backend,
                render'.seeking, render'.late),
         render.backend = "webcodecs" => WasAsked(cache', Len(render.frames) + 1)
  PROVE  ExportInv'
<1>1. RequestInv /\ FramesInv /\ SoundInv BY DEF ExportInv
<1>2. /\ RequestInv' /\ GetFrameCount' = GetFrameCount /\ \A i : FrameOperations(i)' = FrameOperations(i)
      /\ \A r, count : Asked(r, count)' = Asked(r, count)
      /\ \A frame, i, backend : RightFrame(frame, i, backend) => RightFrame(frame, i, backend)'
  BY <1>1, RequestKept
<1>3. FramesInv'
  <2>1. /\ IsList(render.frames) /\ Len(render.frames) < GetFrameCount
        /\ render.backend \in {"webcodecs", "recorder"}
        /\ \A i \in DOMAIN render.frames : RightFrame(render.frames[i], i, render.backend)
    BY <1>1 DEF FramesInv, Drawing
  <2>2. \A i \in DOMAIN render'.frames : RightFrame(render.frames[i], i, render.backend)' BY <1>2, <2>1
  <2>3. IsList(render'.frames) /\ Len(render'.frames) < GetFrameCount' BY <1>2, <2>1
  <2> QED BY <2>1, <2>2, <2>3 DEF FramesInv, Early, Drawing
<1>4. LayersInv'
  <2>1. FrameOperations(Len(render.frames))' = FrameOperations(Len(render.frames)) BY <1>2
  <2>2. Layers(render'.prepared, render'.todo, FrameOperations(Len(render.frames))', cache', render'.backend,
               render'.seeking, render'.late)
    BY <2>1
  <2>3. render'.backend = "webcodecs" => WasAsked(cache, Len(render.frames) + 1)' BY <1>2 DEF WasAsked
  <2> QED BY <2>2, <2>3 DEF LayersInv
<1>5. SoundInv'
  <2>1. SoundRight BY <1>1 DEF SoundInv, Drawing
  <2> QED BY <1>1, <2>1, SoundKept DEF SoundInv
<1>6. EarlyInv' BY DEF EarlyInv, Early
<1> QED BY <1>2, <1>3, <1>4, <1>5, <1>6 DEF ExportInv

(* The frames are kept, or one is drawn; then the next is begun or it is over.  *)
LEMMA MovesOn ==
  ASSUME ExportInv, SameRequest, render.phase \in Drawing, render'.phase \in Drawing \cup {"done"},
         render'.backend = render.backend, render'.sound = render.sound,
         render'.decoded = render.decoded, Stands(cache)',
         IsList(render'.frames),
         \A i \in DOMAIN render'.frames : RightFrame(render'.frames[i], i, render.backend),
         render'.phase = "frames" =>
            /\ Len(render'.frames) < GetFrameCount /\ Len(render'.frames) \in Nat
            /\ render'.prepared = <<>> /\ render'.todo = FrameOperations(Len(render'.frames))
            /\ render'.seeking = FALSE
            /\ render.backend = "webcodecs" => WasAsked(cache', Len(render'.frames) + 1),
         render'.phase = "pace" => /\ Len(render'.frames) <= GetFrameCount
                                   /\ render.backend = "recorder" /\ render'.seeking = FALSE,
         render'.phase \in {"flush", "stop", "done"} => Len(render'.frames) = GetFrameCount
  PROVE  ExportInv'
<1>1. RequestInv /\ FramesInv /\ SoundInv BY DEF ExportInv
<1>2. /\ RequestInv' /\ GetFrameCount' = GetFrameCount /\ \A i : FrameOperations(i)' = FrameOperations(i)
      /\ \A r, count : Asked(r, count)' = Asked(r, count)
      /\ \A frame, i, backend : RightFrame(frame, i, backend) => RightFrame(frame, i, backend)'
  BY <1>1, RequestKept
<1>3. FramesInv'
  <2>1. render.backend \in {"webcodecs", "recorder"} BY <1>1 DEF FramesInv
  <2>2. \A i \in DOMAIN render'.frames : RightFrame(render.frames[i], i, render.backend)' BY <1>2
  <2> QED BY <1>2, <2>1, <2>2 DEF FramesInv, Early, Drawing
<1>4. LayersInv'
  <2> SUFFICES ASSUME render'.phase = "frames"
               PROVE  /\ Layers(render'.prepared, render'.todo, FrameOperations(Len(render.frames))', cache',
                                render'.backend, render'.seeking, render'.late)
                      /\ render'.backend = "webcodecs" => WasAsked(cache, Len(render.frames) + 1)'
    BY DEF LayersInv
  <2>1. FrameOperations(Len(render.frames))' = FrameOperations(Len(render'.frames)) BY <1>2
  <2> DEFINE ops == FrameOperations(Len(render'.frames))
  <2>2. ops \in Seq(Operations) BY <1>1, FrameOperationsAreTyped
  <2>3. render'.prepared = <<>> /\ render'.todo = ops /\ render'.seeking = FALSE OBVIOUS
  <2>4. render'.backend = "webcodecs" => WasAsked(cache, Len(render.frames) + 1)' BY <1>2 DEF WasAsked
  <2> HIDE DEF ops
  <2>5. Layers(<<>>, ops, ops, cache', render'.backend, FALSE, render'.late) BY <2>2, LayersStart
  <2> QED BY <2>1, <2>3, <2>4, <2>5 DEF ops
<1>5. SoundInv'
  <2>1. SoundRight BY <1>1 DEF SoundInv
  <2> QED BY <1>1, <2>1, SoundKept DEF SoundInv
<1>6. EarlyInv' BY DEF EarlyInv, Early, Drawing
<1> QED BY <1>2, <1>3, <1>4, <1>5, <1>6 DEF ExportInv

-----------------------------------------------------------------------------
(* Where the videos stand, after a step. *)

(* One video changes. *)
LEMMA OneIsKept ==
  ASSUME Stands(cache), NEW r \in DOMAIN Length, NEW e, cache' = [cache EXCEPT ![r] = e],
         DOMAIN e = StandFields, e.at \in Int, e.goal \in Nat, e.goal <= Length[r]
  PROVE  /\ Stands(cache)'
         /\ \A q \in DOMAIN Length : cache'[q] = IF q = r THEN e ELSE cache[q]
<1>1. DOMAIN cache = DOMAIN Length BY DEF Stands
<1>2. DOMAIN cache' = DOMAIN Length BY <1>1
<1>3. \A q \in DOMAIN Length : cache'[q] = IF q = r THEN e ELSE cache[q] BY <1>1
<1>4. Stands(cache)' BY <1>2, <1>3 DEF Stands
<1> QED BY <1>3, <1>4

(* What is known of a video. *)
LEMMA StandsThere ==
  ASSUME Stands(cache), NEW r \in DOMAIN Length
  PROVE  /\ DOMAIN cache = DOMAIN Length /\ DOMAIN cache[r] = StandFields
         /\ cache[r].at \in Int /\ cache[r].goal \in Nat /\ cache[r].goal <= Length[r]
BY DEF Stands

(* Loading. *)
LEMMA LoadIsKept ==
  ASSUME Stands(cache), NEW r \in DOMAIN Length, NEW state,
         cache' = [cache EXCEPT ![r].state = state]
  PROVE  /\ Stands(cache)'
         /\ \A q \in DOMAIN Length : /\ cache'[q].goal = cache[q].goal /\ cache'[q].at = cache[q].at
                                     /\ q # r => cache'[q].state = cache[q].state
<1> DEFINE e == [cache[r] EXCEPT !.state = state]
<1>1. cache' = [cache EXCEPT ![r] = e] OBVIOUS
<1>2. DOMAIN e = StandFields /\ e.at = cache[r].at /\ e.goal = cache[r].goal
  BY StandsThere DEF StandFields
<1> HIDE DEF e
<1>3. Stands(cache)' /\ \A q \in DOMAIN Length : cache'[q] = IF q = r THEN e ELSE cache[q]
  BY <1>1, <1>2, StandsThere, OneIsKept
<1> QED BY <1>2, <1>3

(* A seek begins. *)
LEMMA SeekIsKept ==
  ASSUME Stands(cache), NEW r \in DOMAIN Length, NEW at \in Int, NEW goal \in Nat, goal <= Length[r],
         cache' = [cache EXCEPT ![r].at = at, ![r].goal = goal]
  PROVE  /\ Stands(cache)'
         /\ cache'[r].goal = goal /\ cache'[r].at = at /\ cache'[r].state = cache[r].state
         /\ \A q \in DOMAIN Length \ {r} : cache'[q] = cache[q]
<1>1. DOMAIN cache = DOMAIN Length /\ DOMAIN cache[r] = StandFields BY StandsThere
<1> DEFINE e == [[cache[r] EXCEPT !.at = at] EXCEPT !.goal = goal]
<1>2. cache' = [cache EXCEPT ![r] = e] BY <1>1
<1>3. DOMAIN e = StandFields /\ e.at = at /\ e.goal = goal /\ e.state = cache[r].state
  BY <1>1 DEF StandFields
<1> HIDE DEF e
<1>4. Stands(cache)' /\ \A q \in DOMAIN Length : cache'[q] = IF q = r THEN e ELSE cache[q]
  BY <1>2, <1>3, OneIsKept
<1> QED BY <1>3, <1>4

(* The picture of the goal arrives. *)
LEMMA LandingIsKept ==
  ASSUME Stands(cache), NEW r \in DOMAIN Length, cache' = [cache EXCEPT ![r].at = cache[r].goal]
  PROVE  /\ Stands(cache)'
         /\ \A q \in DOMAIN Length : /\ cache'[q].goal = cache[q].goal /\ cache'[q].state = cache[q].state
                                     /\ cache'[q].at \in {cache[q].at, cache[q].goal}
<1> DEFINE e == [cache[r] EXCEPT !.at = cache[r].goal]
<1>1. cache' = [cache EXCEPT ![r] = e] OBVIOUS
<1>2. /\ DOMAIN e = StandFields /\ e.at = cache[r].goal /\ e.goal = cache[r].goal
      /\ e.state = cache[r].state
  BY StandsThere DEF StandFields
<1>3. cache[r].goal \in Nat /\ cache[r].goal \in Int /\ cache[r].goal <= Length[r]
  BY StandsThere
<1> HIDE DEF e
<1>4. e.at \in Int /\ e.goal \in Nat /\ e.goal <= Length[r] BY <1>2, <1>3
<1>5. Stands(cache)' /\ \A q \in DOMAIN Length : cache'[q] = IF q = r THEN e ELSE cache[q]
  BY <1>1, <1>2, <1>4, OneIsKept
<1> QED BY <1>2, <1>5

(* The recorder plays a video that goes on where it is. *)
LEMMA PlayIsKept ==
  ASSUME Stands(cache), NEW r \in DOMAIN Length, cache' = [cache EXCEPT ![r].plays = TRUE]
  PROVE  /\ Stands(cache)' /\ cache'[r].goal = cache[r].goal
         /\ \A q \in DOMAIN Length \ {r} : cache'[q] = cache[q]
<1> DEFINE e == [cache[r] EXCEPT !.plays = TRUE]
<1>1. cache' = [cache EXCEPT ![r] = e] OBVIOUS
<1>2. DOMAIN e = StandFields /\ e.at = cache[r].at /\ e.goal = cache[r].goal
  BY StandsThere DEF StandFields
<1>3. cache[r].at \in Int /\ cache[r].goal \in Nat /\ cache[r].goal <= Length[r] BY StandsThere
<1> HIDE DEF e
<1>4. e.at \in Int /\ e.goal \in Nat /\ e.goal <= Length[r] BY <1>2, <1>3
<1>5. Stands(cache)' /\ \A q \in DOMAIN Length : cache'[q] = IF q = r THEN e ELSE cache[q]
  BY <1>1, <1>2, <1>4, OneIsKept
<1> QED BY <1>2, <1>5

(* The recorder plays a video that has ended: it starts over. *)
LEMMA ReplayIsKept ==
  ASSUME Stands(cache), NEW r \in DOMAIN Length, NEW at \in Int,
         cache' = [cache EXCEPT ![r] = [@ EXCEPT !.plays = TRUE, !.goal = 0, !.at = at]]
  PROVE  /\ Stands(cache)' /\ cache'[r].goal = 0
         /\ \A q \in DOMAIN Length \ {r} : cache'[q] = cache[q]
<1> DEFINE e == [cache[r] EXCEPT !.plays = TRUE, !.goal = 0, !.at = at]
<1>1. cache' = [cache EXCEPT ![r] = e] OBVIOUS
<1>2. DOMAIN e = StandFields /\ e.at = at /\ e.goal = 0 BY StandsThere DEF StandFields
<1>3. 0 <= Length[r] BY StructuresAssumption
<1> HIDE DEF e
<1>4. e.at \in Int /\ e.goal \in Nat /\ e.goal <= Length[r] BY <1>2, <1>3
<1>5. Stands(cache)' /\ \A q \in DOMAIN Length : cache'[q] = IF q = r THEN e ELSE cache[q]
  BY <1>1, <1>2, <1>4, OneIsKept
<1> QED BY <1>2, <1>5

(* The videos are unloaded. *)
LEMMA UnloadedIsKept ==
  ASSUME Stands(cache), Unloaded
  PROVE  Stands(cache)'
<1> DEFINE e == [NotLoaded EXCEPT !.state = "released"]
<1>1. DOMAIN cache = DOMAIN Length /\ cache' = [r \in DOMAIN cache |-> e] BY DEF Stands, Unloaded
<1>2. DOMAIN e = StandFields /\ e.at \in Int /\ e.goal = 0 BY DEF NotLoaded, Blank, StandFields
<1> HIDE DEF e
<1>3. \A r \in DOMAIN Length : Length[r] \in Nat BY StructuresAssumption
<1> QED BY <1>1, <1>2, <1>3 DEF Stands

(* The videos that play go on, by no more than the time that passes. *)
LEMMA PlayedIsKept ==
  ASSUME Stands(cache), NEW d \in Nat, NEW moved, Played(moved),
         \A r \in Playing : moved[r] \in Nat /\ moved[r] <= d
  PROVE  /\ Stands(cache)'
         /\ \A r \in DOMAIN Length :
              /\ cache[r].goal <= cache'[r].goal /\ cache'[r].goal <= cache[r].goal + d
              /\ cache'[r].state = cache[r].state
<1>1. DOMAIN cache = DOMAIN Length BY DEF Stands
<1>2. DOMAIN cache' = DOMAIN Length BY <1>1 DEF Played
<1>3. ASSUME NEW r \in DOMAIN Length
      PROVE  /\ DOMAIN cache'[r] = StandFields
             /\ cache'[r].at \in Int /\ cache'[r].goal \in Nat /\ cache'[r].goal <= Length[r]
             /\ cache[r].goal <= cache'[r].goal /\ cache'[r].goal <= cache[r].goal + d
             /\ cache'[r].state = cache[r].state
  <2>1. /\ DOMAIN cache[r] = StandFields /\ cache[r].at \in Int /\ cache[r].goal \in Nat
        /\ cache[r].goal <= Length[r]
    BY StandsThere
  <2> DEFINE g == cache[r].goal
             at == Min({g + moved[r], Length[r]})
             plays == at < Length[r]
             e == [cache[r] EXCEPT !.at = at, !.goal = at, !.plays = plays]
  <2>2. cache'[r] = IF r \notin Playing THEN cache[r] ELSE e BY <1>1 DEF Played
  <2>3. CASE r \notin Playing
    <3>1. cache'[r] = cache[r] BY <2>2, <2>3
    <3> QED BY <2>1, <3>1
  <2>4. CASE r \in Playing
    <3>1. moved[r] \in Nat /\ moved[r] <= d /\ Length[r] \in Nat BY <2>4, StructuresAssumption
    <3>2. g + moved[r] \in Nat BY <2>1, <3>1
    <3>3. at = IF g + moved[r] <= Length[r] THEN g + moved[r] ELSE Length[r]
      <4> DEFINE sum == g + moved[r]
      <4> HIDE DEF sum
      <4>1. sum \in Int /\ Length[r] \in Int BY <3>1, <3>2 DEF sum
      <4>2. Min({sum, Length[r]}) = IF sum <= Length[r] THEN sum ELSE Length[r] BY <4>1, MinOfTwo
      <4> QED BY <4>2 DEF sum
    <3>4. at \in Nat /\ at <= Length[r] /\ g <= at /\ at <= g + d BY <2>1, <3>1, <3>2, <3>3
    <3> HIDE DEF at, plays, g
    <3>5. DOMAIN e = StandFields /\ e.at = at /\ e.goal = at /\ e.state = cache[r].state
      BY <2>1 DEF StandFields
    <3>6. cache'[r] = e BY <2>2, <2>4
    <3> HIDE DEF e
    <3> QED BY <3>4, <3>5, <3>6 DEF g
  <2> QED BY <2>3, <2>4
<1>4. Stands(cache)' BY <1>2, <1>3 DEF Stands
<1> QED BY <1>3, <1>4

-----------------------------------------------------------------------------
(* The steps themselves. *)

(* A plan lasts until the last of its clips ends. *)
LEMMA PlanDurationType ==
  ASSUME NEW plan \in Structures
  PROVE  PlanDuration(plan) \in Nat
<1> DEFINE n == Len(plan)
           ends == {c.start + c.duration : c \in ToSet(plan)}
           E == {0} \cup ends
           f == [i \in 1..n |-> plan[i].start + plan[i].duration]
<1>1. AreClips(plan) BY StructureHasClips
<1>2. n \in Nat /\ DOMAIN plan = 1..n /\ \A i \in 1..n : IsClip(plan[i])
  BY <1>1, LenProperties DEF AreClips
<1> HIDE DEF n
<1>3. \A i \in 1..n : plan[i].start + plan[i].duration \in Nat BY <1>2 DEF IsClip
<1>4. f \in [1..n -> Int] BY <1>3
<1> HIDE DEF f
<1>5. PICK b \in Int : \A i \in 1..n : f[i] <= b BY <1>2, <1>4, BoundExists
<1>6. \A e \in ends : e \in Nat /\ e <= b
  <2>1. \A c \in ToSet(plan) : c.start + c.duration \in Nat /\ c.start + c.duration <= b
    BY <1>2, <1>3, <1>5 DEF ToSet, f
  <2> QED BY <2>1
<1> HIDE DEF ends
<1>7. PICK m \in Nat : \A e \in E : e \in Nat /\ e <= m
  <2>1. CASE b >= 0
    <3>1. b \in Nat /\ \A e \in E : e \in Nat /\ e <= b BY <1>5, <1>6, <2>1
    <3> QED BY <3>1
  <2>2. CASE ~(b >= 0)
    <3>1. \A e \in ends : FALSE BY <1>5, <1>6, <2>2
    <3>2. \A e \in E : e \in Nat /\ e <= 0 BY <3>1
    <3> QED BY <3>2
  <2> QED BY <2>1, <2>2
<1> DEFINE S == {m - e : e \in E}
<1> HIDE DEF E
<1>8. S \in SUBSET Nat BY <1>7
<1>9. S # {} BY DEF E
<1>10. PICK x \in S : \A y \in S : x <= y
  <2> HIDE DEF S
  <2> QED BY <1>8, <1>9, LeastExists
<1>11. PICK g \in E : x = m - g BY <1>10
<1>12. \A e \in E : g >= e BY <1>7, <1>10, <1>11
<1>13. \E y \in E : \A e \in E : y >= e BY <1>12
<1>14. Max(E) \in E BY <1>13 DEF Max
<1>15. Max(E) \in Nat BY <1>7, <1>14
<1> QED BY <1>15 DEF PlanDuration, E, ends

(* The plan is the structure that the preview shows, and the range lies in it. *)
LEMMA ExportAtAsk ==
  ASSUME ExportInv, SessionInv, NEW range, Ask(session.structure, range)
  PROVE  ExportInv'
<1> DEFINE plan == session.structure
           resolved == ResolveExportRange(plan, range)
<1>1. RequestInv /\ EarlyInv /\ Stands(cache) BY DEF ExportInv
<1>2. plan \in Structures BY DEF SessionInv, Sessions
<1>3. render.phase = "idle" /\ UNCHANGED cache BY DEF Ask
<1>4. Stands(cache)' BY <1>1, <1>3 DEF Stands
<1>6. CASE range # "project" /\ ~\E c \in ToSet(plan) : c.id = range
  <2>1. Fails("unknown-clip") BY <1>6 DEF Ask, Fails
  <2> QED BY <1>4, <2>1, ExportAtFails
<1>7. CASE range = "project" \/ \E c \in ToSet(plan) : c.id = range
  <2>1. resolved.start \in Nat /\ resolved.duration \in Nat
    <3>1. CASE range = "project"
      <4>1. PlanDuration(plan) \in Nat BY <1>2, PlanDurationType
      <4> QED BY <3>1, <4>1 DEF ResolveExportRange
    <3>2. CASE range # "project"
      <4>1. Clip(plan, range) \in ToSet(plan) BY <1>7, <3>2 DEF Clip
      <4>2. \A c \in ToSet(plan) : IsClip(c) BY <1>2, StructureHasClips DEF AreClips, ToSet
      <4>3. Clip(plan, range).start \in Nat /\ Clip(plan, range).duration \in Nat BY <4>1, <4>2 DEF IsClip
      <4> QED BY <3>2, <4>3 DEF ResolveExportRange
    <3> QED BY <3>1, <3>2
  <2>2. render' = [render EXCEPT !.phase = "config", !.plan = plan, !.start = resolved.start,
                                 !.duration = resolved.duration, !.clipIds = resolved.clipIds]
    BY <1>7 DEF Ask
  <2> HIDE DEF plan, resolved
  <2>3. /\ DOMAIN render' = Fields /\ render'.phase = "config" /\ render'.plan = plan
        /\ render'.start = resolved.start /\ render'.duration = resolved.duration
        /\ render'.frames = render.frames /\ render'.prepared = render.prepared
        /\ render'.seeking = render.seeking /\ render'.late = render.late
    BY <1>1, <2>2 DEF RequestInv, Fields
  <2>4. RequestInv' BY <1>1, <1>2, <2>1, <2>3 DEF RequestInv
  <2>5. EarlyInv' /\ FramesInv' BY <1>1, <1>3, <2>3 DEF EarlyInv, FramesInv, Early, Drawing
  <2>6. LayersInv' BY <2>3 DEF LayersInv
  <2>7. SoundInv' BY <2>3 DEF SoundInv, Drawing
  <2> QED BY <1>4, <2>4, <2>5, <2>6, <2>7 DEF ExportInv
<1> QED BY <1>6, <1>7

(* A step that only goes on. *)
LEMMA ExportAtGoes ==
  ASSUME ExportInv, NEW phase, Goes(phase)
  PROVE  /\ SameRequest /\ render'.phase = phase /\ render'.backend = render.backend
         /\ render'.frames = render.frames /\ render'.prepared = render.prepared
         /\ render'.seeking = render.seeking
         /\ render'.sound = render.sound /\ render'.decoded = render.decoded
BY DEF ExportInv, RequestInv, Goes, SameRequest, Fields

(* What is supported is found out. *)
LEMMA ExportAtConfigure == ExportInv /\ Configure => ExportInv'
<1> SUFFICES ASSUME ExportInv, Configure PROVE ExportInv' OBVIOUS
<1>1. render.phase \in Early /\ UNCHANGED cache BY DEF Configure, Early
<1>2. CASE Goes("mix") BY <1>1, <1>2, ExportAtGoes, Prepares
<1>3. CASE Goes("fallback") BY <1>1, <1>3, ExportAtGoes, Prepares
<1> QED BY <1>2, <1>3 DEF Configure

(* The sound is mixed, or it falls back, or fails before the first frame. *)
LEMMA ExportAtMix ==
  ASSUME ExportInv, NEW decoded, MixAudio(decoded)
  PROVE  ExportInv'
<1>1. /\ render.phase \in Early /\ Stands(cache)' /\ decoded \subseteq AudioClips /\ UNCHANGED cache
  BY DEF MixAudio, Early, ExportInv, Stands
<1>2. CASE Goes("fallback") BY <1>1, <1>2, ExportAtGoes, Prepares
<1> DEFINE sound == UNION {MixWebCodecsAudioTrack(c) : c \in decoded}
<1>3. CASE StartFrames("webcodecs", decoded, sound)
  <2>1. ASSUME SameRequest, render'.sound = sound, render'.decoded = decoded PROVE SoundRight'
    <3> DEFINE sounds == [c \in decoded |-> MixWebCodecsAudioTrack(c)]
    <3>1. RequestInv BY DEF ExportInv
    <3>2. \A c \in decoded : IsClip(c) BY <1>1, <3>1, PlanHasClips DEF AudioClips
    <3>3. \A c \in decoded : SoundOf(c, sounds[c]) BY <3>1, <3>2, MixedSound
    <3>4. render'.sound = UNION {sounds[c] : c \in decoded}
      <4>1. sound = UNION {sounds[c] : c \in decoded} OBVIOUS
      <4> QED BY <2>1, <4>1
    <3> HIDE DEF sounds
    <3> QED BY <1>1, <2>1, <3>1, <3>3, <3>4, AllSound
  <2> HIDE DEF sound
  <2> QED BY <1>1, <1>3, <2>1, Starts
<1>4. CASE Fails("canvas") \/ Fails("configure") BY <1>1, <1>4, ExportAtFails
<1> QED BY <1>2, <1>3, <1>4 DEF MixAudio

(* The manifest has all frames at once. *)
LEMMA ExportAtManifest == ExportInv /\ WriteManifest => ExportInv'
<1> SUFFICES ASSUME ExportInv, WriteManifest PROVE ExportInv' OBVIOUS
<1> DEFINE n == GetFrameCount
           frames == [i \in 1..n |-> [operations |-> FrameOperations(i - 1), layers |-> <<>>, late |-> 0]]
<1>1. RequestInv /\ Stands(cache) BY DEF ExportInv
<1>2. render' = [render EXCEPT !.phase = "done", !.backend = "manifest", !.frames = frames]
  BY DEF WriteManifest
<1>3. n \in Nat BY <1>1, CountType
<1> HIDE DEF n
<1>4. \A i \in 1..n : frames[i].operations = FrameOperations(i - 1) /\ frames[i].layers = <<>> OBVIOUS
<1>5. DOMAIN frames = 1..n OBVIOUS
<1>6. frames \in Seq({frames[i] : i \in 1..n})
  <2>1. frames \in [1..n -> {frames[i] : i \in 1..n}] OBVIOUS
  <2> HIDE DEF frames
  <2> QED BY <1>3, <2>1
<1> HIDE DEF frames
<1>7. /\ SameRequest /\ render'.phase = "done" /\ render'.backend = "manifest" /\ render'.frames = frames
  BY <1>1, <1>2 DEF RequestInv, SameRequest, Fields
<1>8. /\ RequestInv' /\ GetFrameCount' = GetFrameCount
      /\ \A frame, i, backend : RightFrame(frame, i, backend) => RightFrame(frame, i, backend)'
  BY <1>1, <1>7, RequestKept
<1>9. IsList(frames) /\ Len(frames) = n BY <1>3, <1>5, <1>6, TypedIsList, LenProperties
<1>10. ASSUME NEW i \in DOMAIN frames
       PROVE  RightFrame(frames[i], i, "manifest")
  <2>1. frames[i].operations = FrameOperations(i - 1) /\ frames[i].layers = <<>> BY <1>4, <1>5
  <2>2. DOMAIN <<>> = {} OBVIOUS
  <2>3. VideoLayers(frames[i].layers) = {} BY <2>1, <2>2 DEF VideoLayers
  <2> QED BY <2>1, <2>3 DEF RightFrame, DrawnRight
<1>11. EarlyInv' /\ FramesInv'
  <2>1. \A i, frame, backend :
          i \in DOMAIN frames /\ frame = frames[i] /\ backend = "manifest" => RightFrame(frame, i, backend)'
    BY <1>8, <1>10
  <2>2. \A i \in DOMAIN render'.frames : RightFrame(render.frames[i], i, render.backend)'
    BY <1>7, <2>1
  <2>3. IsList(render'.frames) /\ Len(render'.frames) = GetFrameCount' BY <1>7, <1>8, <1>9 DEF n
  <2> QED BY <1>7, <2>2, <2>3 DEF EarlyInv, FramesInv, Early, Drawing
<1>12. LayersInv' /\ SoundInv' BY <1>7 DEF LayersInv, SoundInv, Drawing
<1>13. Stands(cache)' BY <1>1 DEF WriteManifest, Stands
<1> QED BY <1>8, <1>11, <1>12, <1>13 DEF ExportInv

(* The recorder schedules the sound of the clips that play. *)
LEMMA ExportAtRecord ==
  ASSUME ExportInv, NEW decoded, NEW playing, Record(decoded, playing)
  PROVE  ExportInv'
<1> DEFINE sound == UNION {ScheduleSource(c) : c \in playing}
           recorded == [render EXCEPT !.phase = "capture", !.decoded = decoded, !.sound = sound]
<1>1. RequestInv /\ Stands(cache) BY DEF ExportInv
<1>2. /\ decoded \subseteq playing /\ playing \subseteq AudioClips
      /\ render.phase = "fallback" /\ UNCHANGED cache
      /\ render' = recorded \/ Fails("mixer")
  BY DEF Record
<1>3. CASE render' = recorded
  <2>1. \A c \in playing : IsClip(c) BY <1>1, <1>2, PlanHasClips DEF AudioClips
  <2> DEFINE sounds == [c \in playing |-> ScheduleSource(c)]
  <2>2. \A c \in playing : SoundOf(c, sounds[c]) BY <1>1, <2>1, ScheduledSound
  <2>3. sound = UNION {sounds[c] : c \in playing} OBVIOUS
  <2> HIDE DEF sound, sounds
  <2>4. /\ SameRequest /\ render'.phase = "capture" /\ render'.sound = sound /\ render'.decoded = decoded
        /\ render'.frames = render.frames /\ render'.prepared = render.prepared
        /\ render'.seeking = render.seeking
    BY <1>1, <1>3 DEF RequestInv, SameRequest, Fields
  <2>5. SoundRight' BY <1>1, <1>2, <2>2, <2>3, <2>4, AllSound
  <2>6. render.phase \in Early BY <1>2 DEF Early
  <2> QED BY <1>2, <2>4, <2>5, <2>6, Prepares
<1>4. CASE Fails("mixer")
  <2>1. Stands(cache)' BY <1>1, <1>2 DEF Stands
  <2> QED BY <1>4, <2>1, ExportAtFails
<1> QED BY <1>2, <1>3, <1>4

(* The recorder starts or fails. *)
LEMMA ExportAtRecorder == ExportInv /\ RecorderStarts => ExportInv'
<1> SUFFICES ASSUME ExportInv, RecorderStarts PROVE ExportInv' OBVIOUS
<1>1. RequestInv /\ Stands(cache) /\ SoundInv BY DEF ExportInv
<1>2. render.phase = "capture" /\ UNCHANGED cache BY DEF RecorderStarts
<1>3. SoundRight /\ render.phase \in Early BY <1>1, <1>2 DEF SoundInv, Early
<1>4. CASE Goes("start")
  <2>1. /\ SameRequest /\ render'.phase = "start"
        /\ render'.frames = render.frames /\ render'.prepared = render.prepared
        /\ render'.seeking = render.seeking
        /\ render'.sound = render.sound /\ render'.decoded = render.decoded
    BY <1>4, ExportAtGoes
  <2>2. SoundRight' BY <1>1, <1>3, <2>1, SoundKept
  <2> QED BY <1>2, <1>3, <2>1, <2>2, Prepares
<1>5. CASE Fails("recorder")
  <2>1. Stands(cache)' BY <1>1, <1>2 DEF Stands
  <2> QED BY <1>5, <2>1, ExportAtFails
<1> QED BY <1>4, <1>5 DEF RecorderStarts

(* The mixer starts or fails. *)
LEMMA ExportAtMixer == ExportInv /\ MixerStarts => ExportInv'
<1> SUFFICES ASSUME ExportInv, MixerStarts PROVE ExportInv' OBVIOUS
<1>1. RequestInv /\ Stands(cache) /\ SoundInv BY DEF ExportInv
<1>2. render.phase = "start" /\ UNCHANGED cache BY DEF MixerStarts
<1>3. SoundRight /\ render.phase \in Early BY <1>1, <1>2 DEF SoundInv, Early
<1>4. CASE StartFrames("recorder", render.decoded, render.sound)
  <2>1. ASSUME SameRequest, render'.sound = render.sound, render'.decoded = render.decoded
        PROVE  SoundRight'
    BY <1>1, <1>3, <2>1, SoundKept
  <2> QED BY <1>2, <1>3, <1>4, <2>1, Starts
<1>5. CASE Fails("mixerStart")
  <2>1. Stands(cache)' BY <1>1, <1>2 DEF Stands
  <2> QED BY <1>5, <2>1, ExportAtFails
<1> QED BY <1>4, <1>5 DEF MixerStarts

(* What is known while a frame is prepared. *)
LEMMA PreparingFacts ==
  ASSUME ExportInv, NEW kinds, Preparing(kinds)
  PROVE  /\ render.phase = "frames" /\ render.todo # <<>> /\ Head(render.todo).kind \in kinds
         /\ RequestInv /\ Stands(cache) /\ render.late \in Nat
         /\ render.backend \in {"webcodecs", "recorder"}
         /\ Len(render.frames) \in Nat
         /\ FrameOperations(Len(render.frames)) \in Seq(Operations)
         /\ Layers(render.prepared, render.todo, FrameOperations(Len(render.frames)), cache, render.backend,
                   render.seeking, render.late)
         /\ render.backend = "webcodecs" => WasAsked(cache, Len(render.frames) + 1)
         /\ Head(render.todo) \in Operations /\ Resource \in DOMAIN Length
         /\ Head(render.todo).source \in Nat
<1>1. RequestInv /\ Stands(cache) /\ FramesInv /\ LayersInv BY DEF ExportInv
<1>2. render.phase = "frames" /\ render.todo # <<>> /\ Head(render.todo).kind \in kinds BY DEF Preparing
<1>3. IsList(render.frames) /\ render.backend \in {"webcodecs", "recorder"}
  BY <1>1, <1>2 DEF FramesInv, Drawing
<1>4. Len(render.frames) \in Nat BY <1>3, LenProperties DEF IsList
<1>5. FrameOperations(Len(render.frames)) \in Seq(Operations) BY <1>1, <1>4, FrameOperationsAreTyped
<1>6. /\ Layers(render.prepared, render.todo, FrameOperations(Len(render.frames)), cache, render.backend,
                render.seeking, render.late)
      /\ render.backend = "webcodecs" => WasAsked(cache, Len(render.frames) + 1)
  BY <1>1, <1>2 DEF LayersInv
<1>7. render.todo \in Seq(Operations) BY <1>6 DEF Layers
<1>8. Head(render.todo) \in Operations BY <1>2, <1>7, ListTail
<1>9. render.late \in Nat BY <1>1 DEF RequestInv
<1> QED BY <1>1, <1>2, <1>3, <1>4, <1>5, <1>6, <1>8, <1>9, OperationsAreTyped DEF Resource

(* A layer that is sought is a video that is loaded. *)
LEMMA SeekingFacts ==
  ASSUME ExportInv, NEW kinds, Preparing(kinds), render.seeking
  PROVE  /\ Head(render.todo).kind = "video" /\ cache[Resource].state = "loaded"
         /\ Sought(Head(render.todo), cache, render.backend, render.late)
BY PreparingFacts DEF Layers, Resource

(* A layer is prepared while its video stands where it should. *)
LEMMA ExportAtPrepared ==
  ASSUME ExportInv, NEW kinds, Preparing(kinds), NEW source, Prepared(source), Stands(cache)',
         source = "video" => Sought(Head(render.todo), cache', render.backend, render.late),
         source # "video" => ~render.seeking,
         \A r \in DOMAIN Length : cache'[r].goal = cache[r].goal \/ (r = Resource /\ source = "video"),
         render.backend = "webcodecs" => UNCHANGED cache
  PROVE  ExportInv'
<1> DEFINE layer == [op |-> Head(render.todo), with |-> source]
           ops == FrameOperations(Len(render.frames))
           late == render.late
<1>1. /\ render.phase = "frames" /\ render.todo # <<>> /\ RequestInv /\ ops \in Seq(Operations)
      /\ Layers(render.prepared, render.todo, ops, cache, render.backend, render.seeking, late)
      /\ render.backend = "webcodecs" => WasAsked(cache, Len(render.frames) + 1)
  BY PreparingFacts
<1>2. render' = [render EXCEPT !.todo = Tail(@), !.seeking = FALSE, !.prepared = Append(@, layer)]
  BY DEF Prepared
<1>3. layer.op = Head(render.todo) /\ layer.with = source OBVIOUS
<1> HIDE DEF layer, ops
<1>4. /\ SameRequest /\ render'.phase = "frames" /\ render'.todo = Tail(render.todo)
      /\ render'.prepared = Append(render.prepared, layer)
      /\ render'.seeking = FALSE /\ render'.late = late
      /\ render'.frames = render.frames /\ render'.backend = render.backend
      /\ render'.sound = render.sound /\ render'.decoded = render.decoded
  BY <1>1, <1>2 DEF RequestInv, SameRequest, Fields
<1>5. \A r \in DOMAIN Length :
         cache'[r].goal = cache[r].goal \/ (r = layer.op.resource /\ layer.with = "video")
  BY <1>3 DEF Resource
<1>6. layer.with = "video" => Sought(layer.op, cache', render.backend, late) BY <1>3
<1>7. layer.with # "video" => ~render.seeking BY <1>3
<1> HIDE DEF late
<1>8. Layers(Append(render.prepared, layer), Tail(render.todo), ops, cache', render.backend, FALSE, late)
  BY <1>1, <1>3, <1>5, <1>6, <1>7, LayersAdd
<1>9. Layers(render'.prepared, render'.todo, ops, cache', render.backend, render'.seeking, render'.late)
  BY <1>4, <1>8
<1>10. render.backend = "webcodecs" => WasAsked(cache', Len(render.frames) + 1) BY <1>1
<1> QED BY <1>1, <1>4, <1>9, <1>10, KeepsPreparing DEF ops

(* A layer without a video moves no goal. *)
LEMMA ExportAtOther ==
  ASSUME ExportInv, NEW kinds, Preparing(kinds), NEW source, Prepared(source), source # "video",
         ~render.seeking, UNCHANGED cache
  PROVE  ExportInv'
<1>1. Stands(cache)' /\ \A r \in DOMAIN Length : cache'[r].goal = cache[r].goal
  BY DEF ExportInv, Stands
<1>2. \A r \in DOMAIN Length : cache'[r].goal = cache[r].goal \/ (r = Resource /\ source = "video")
  BY <1>1
<1>3. source = "video" => Sought(Head(render.todo), cache', render.backend, render.late) OBVIOUS
<1> QED BY <1>1, <1>2, <1>3, ExportAtPrepared

(* Text, sound, a placeholder and an image are such layers. *)
LEMMA ExportAtPrepare ==
  ASSUME ExportInv, PrepareOther \/ PreparePlaceholder \/ PrepareImage
  PROVE  ExportInv'
<1>1. UNCHANGED cache BY DEF PrepareOther, PreparePlaceholder, PrepareImage
<1>3. CASE PrepareOther
  <2>1. Preparing({"text", "audio"}) /\ Prepared("nothing") BY <1>3 DEF PrepareOther
  <2>2. ~render.seeking BY <2>1, PreparingFacts, SeekingFacts
  <2> QED BY <1>1, <2>1, <2>2, ExportAtOther
<1>4. CASE PreparePlaceholder
  <2>1. /\ Preparing({"video", "image"}) /\ Prepared("placeholder") /\ cache[Resource].state = "failed"
    BY <1>4 DEF PreparePlaceholder
  <2>2. ~render.seeking BY <2>1, SeekingFacts
  <2> QED BY <1>1, <2>1, <2>2, ExportAtOther
<1>5. CASE PrepareImage
  <2>1. Preparing({"image"}) /\ Prepared("image") BY <1>5 DEF PrepareImage
  <2>2. ~render.seeking BY <2>1, PreparingFacts, SeekingFacts
  <2> QED BY <1>1, <2>1, <2>2, ExportAtOther
<1> QED BY <1>3, <1>4, <1>5

(* A step on the videos alone, while a frame is prepared. *)
LEMMA ExportAtVideos ==
  ASSUME ExportInv, NEW kinds, Preparing(kinds), Stands(cache)',
         NEW seeking \in {render.seeking, TRUE}, NEW late \in Nat,
         render' = [render EXCEPT !.seeking = seeking, !.late = late],
         Layers(render.prepared, render.todo, FrameOperations(Len(render.frames)), cache', render.backend,
                seeking, late),
         render.backend = "webcodecs" => WasAsked(cache', Len(render.frames) + 1)
  PROVE  ExportInv'
<1>1. render.phase = "frames" /\ RequestInv BY PreparingFacts
<1>2. /\ SameRequest /\ render'.phase = "frames" /\ render'.todo = render.todo
      /\ render'.prepared = render.prepared /\ render'.seeking = seeking /\ render'.late = late
      /\ render'.frames = render.frames /\ render'.backend = render.backend
      /\ render'.sound = render.sound /\ render'.decoded = render.decoded
  BY <1>1 DEF RequestInv, SameRequest, Fields
<1> QED BY <1>1, <1>2, KeepsPreparing

(* The next layer to prepare is one of the frame's operations. *)
LEMMA NextIsAnOperation ==
  ASSUME NEW prepared, NEW todo, NEW operations \in Seq(Operations), NEW stands, NEW backend,
         NEW seeking, NEW late,
         Layers(prepared, todo, operations, stands, backend, seeking, late), todo # <<>>
  PROVE  Head(todo) \in ToSet(operations)
<1>1. /\ todo \in Seq(Operations) /\ Len(prepared) + Len(todo) = Len(operations)
      /\ \A n \in 1..Len(todo) : todo[n] = operations[Len(prepared) + n]
  BY DEF Layers
<1>2. Len(prepared) \in Nat BY PreparedAreOperations
<1>3. Head(todo) = todo[1] /\ Len(todo) \in Nat \ {0} BY <1>1, ListTail
<1>4. Len(prepared) + 1 \in DOMAIN operations BY <1>1, <1>2, <1>3, LenProperties
<1>5. todo[1] = operations[Len(prepared) + 1] BY <1>1, <1>2, <1>3
<1> QED BY <1>3, <1>4, <1>5 DEF ToSet

(* What a layer of the frame asks of its video. *)
LEMMA LayerAsks ==
  ASSUME ExportInv, Preparing({"video"})
  PROVE  Clamp(Resource, Head(render.todo).source) \in Asked(Resource, Len(render.frames) + 1)
<1> DEFINE l == Len(render.frames)
           op == Head(render.todo)
<1>1. l \in Nat /\ op.kind = "video" /\ op.resource = Resource BY PreparingFacts DEF Resource
<1>2. op \in ToSet(FrameOperations(l)) BY PreparingFacts, NextIsAnOperation
<1>3. l \in 0..(l + 1) - 1 BY <1>1
<1> HIDE DEF l, op
<1>4. op \in UNION {ToSet(FrameOperations(j)) : j \in 0..(l + 1) - 1} BY <1>2, <1>3
<1>5. Clamp(Resource, op.source) \in Asked(Resource, l + 1) BY <1>1, <1>4 DEF Asked
<1> QED BY <1>5 DEF l, op

(* A video is sought to its source time. *)
LEMMA ExportAtSeekVideo == ExportInv /\ SeekVideo => ExportInv'
<1> SUFFICES ASSUME ExportInv, SeekVideo PROVE ExportInv' OBVIOUS
<1> DEFINE op == Head(render.todo)
           goal == Clamp(Resource, op.source)
           ops == FrameOperations(Len(render.frames))
           late == render.late
<1>1. /\ Preparing({"video"}) /\ cache[Resource].state = "loaded" /\ ~render.seeking
      /\ render' = [render EXCEPT !.seeking = TRUE]
  BY DEF SeekVideo
<1>2. PICK at \in {cache[Resource].at, Blank} :
        cache' = [cache EXCEPT ![Resource].at = at, ![Resource].goal = goal]
  BY DEF SeekVideo
<1>3. /\ Resource \in DOMAIN Length /\ op.source \in Nat /\ op.kind = "video" /\ render.todo # <<>>
      /\ Stands(cache) /\ late \in Nat /\ ops \in Seq(Operations) /\ RequestInv
      /\ render.backend \in {"webcodecs", "recorder"}
      /\ Layers(render.prepared, render.todo, ops, cache, render.backend, render.seeking, late)
      /\ render.backend = "webcodecs" => WasAsked(cache, Len(render.frames) + 1)
  BY <1>1, PreparingFacts
<1>4. goal \in Nat /\ goal <= Length[Resource] /\ Distance(goal, goal) = 0 BY <1>3, ClampIsNear
<1>5. at \in Int BY <1>3, StandsThere DEF Blank
<1>6. /\ Stands(cache)' /\ cache'[Resource].goal = goal /\ cache'[Resource].at = at
      /\ cache'[Resource].state = cache[Resource].state
      /\ \A q \in DOMAIN Length \ {Resource} : cache'[q] = cache[q]
  <2> HIDE DEF goal
  <2> QED BY <1>2, <1>3, <1>4, <1>5, SeekIsKept
<1>7. Sought(op, cache', render.backend, late)
  <2>1. 0 <= Near(render.backend, late) BY <1>3, ExportAssumption DEF Near
  <2> QED BY <1>4, <1>6, <2>1 DEF Sought, Resource
<1>8. op.resource = Resource BY DEF Resource
<1>9. render.seeking = FALSE \/ render.seeking # FALSE OBVIOUS
<1>10. Layers(render.prepared, render.todo, ops, cache, render.backend, FALSE, late)
  BY <1>1, <1>3 DEF Layers
<1>11. Layers(render.prepared, render.todo, ops, cache', render.backend, TRUE, late)
  <2> HIDE DEF ops, late, goal
  <2>1. cache'[op.resource].state = "loaded" BY <1>1, <1>6, <1>8
  <2>2. \A r \in DOMAIN Length \ {op.resource} : cache'[r].goal = cache[r].goal BY <1>6, <1>8
  <2> QED BY <1>3, <1>7, <1>10, <2>1, <2>2, LayersSeek
<1>12. ASSUME render.backend = "webcodecs" PROVE WasAsked(cache', Len(render.frames) + 1)
  <2> DEFINE count == Len(render.frames) + 1
  <2>1. goal \in Asked(Resource, count) BY <1>1, LayerAsks
  <2>2. WasAsked(cache, count) BY <1>3, <1>12
  <2> HIDE DEF goal, count
  <2>3. at \in {Blank, 0} \cup Asked(Resource, count) BY <1>2, <1>3, <2>2 DEF WasAsked
  <2>4. WasAsked(cache', count) BY <1>6, <2>1, <2>2, <2>3 DEF WasAsked
  <2> QED BY <2>4 DEF count
<1>13. render' = [render EXCEPT !.seeking = TRUE, !.late = late]
  BY <1>1, <1>3 DEF RequestInv, Fields
<1> HIDE DEF goal
<1> QED BY <1>1, <1>3, <1>6, <1>11, <1>12, <1>13, ExportAtVideos

(* A video that is prepared stands where its layer asks, and so it does when the  *)
(* recorder plays it, unless it has run out.                                    *)
LEMMA ExportAtVideo == ExportInv /\ PrepareVideo => ExportInv'
<1> SUFFICES ASSUME ExportInv, PrepareVideo PROVE ExportInv' OBVIOUS
<1> DEFINE op == Head(render.todo)
           goal == cache[Resource].goal
           late == render.late
<1>1. /\ Preparing({"video"}) /\ Prepared("video")
      /\ render.seeking \/ ~ShouldSeek(op)
  BY DEF PrepareVideo
<1>2. /\ Resource \in DOMAIN Length /\ op.source \in Nat /\ Stands(cache) /\ late \in Nat
      /\ render.backend \in {"webcodecs", "recorder"}
  BY <1>1, PreparingFacts
<1>3. goal \in Nat /\ goal <= Length[Resource] /\ Length[Resource] \in Nat /\ Tolerance \in Nat
  BY <1>2, StandsThere, StructuresAssumption, ExportAssumption
<1>4. op.resource = Resource BY DEF Resource
<1>5. Sought(op, cache, render.backend, late)
  <2>1. CASE render.seeking BY <1>1, <2>1, SeekingFacts
  <2>2. CASE ~ShouldSeek(op)
    <3>1. render.backend = "recorder" /\ ~(Distance(goal, op.source) > Tolerance)
      BY <1>2, <1>4, <2>2 DEF ShouldSeek
    <3>2. SUFFICES ASSUME ~RunsOut(render.backend, op, late)
                   PROVE  Distance(goal, Clamp(Resource, op.source)) <= Near(render.backend, late)
      BY <1>4 DEF Sought
    <3>3. op.source + Tolerance + late < Length[Resource] BY <1>2, <1>3, <1>4, <3>1, <3>2 DEF RunsOut
    <3>4. Clamp(Resource, op.source) = op.source BY <1>2, <1>3, <3>3, ClampIsNear
    <3>5. Near(render.backend, late) = Tolerance + late BY <3>1 DEF Near
    <3> DEFINE source == op.source
               distance == Distance(goal, source)
    <3>6. distance \in Nat BY <1>2, <1>3 DEF Distance
    <3> HIDE DEF distance, source, goal, op, late
    <3>7. distance <= Tolerance + late BY <1>2, <1>3, <3>1, <3>6 DEF distance, source
    <3> QED BY <3>4, <3>5, <3>7 DEF distance, source
  <2> QED BY <1>1, <2>1, <2>2
<1>6. CASE UNCHANGED cache
  <2>1. Stands(cache)' /\ \A r \in DOMAIN Length : cache'[r].goal = cache[r].goal
    BY <1>2, <1>6 DEF Stands
  <2>2. Sought(op, cache', render.backend, late) BY <1>5, <1>6
  <2> QED BY <1>1, <1>6, <2>1, <2>2, ExportAtPrepared
<1>7. CASE render.backend = "recorder" /\ cache' = [cache EXCEPT ![Resource].plays = TRUE]
  <2>1. /\ Stands(cache)' /\ cache'[Resource].goal = goal
        /\ \A q \in DOMAIN Length \ {Resource} : cache'[q] = cache[q]
    BY <1>2, <1>7, PlayIsKept
  <2>2. \A r \in DOMAIN Length : cache'[r].goal = cache[r].goal BY <2>1
  <2>3. Sought(op, cache', render.backend, late) BY <1>4, <1>5, <2>1 DEF Sought
  <2> QED BY <1>1, <1>7, <2>1, <2>2, <2>3, ExportAtPrepared
<1>8. ASSUME render.backend = "recorder", goal >= Length[Resource],
             NEW at \in {cache[Resource].at, Blank},
             cache' = [cache EXCEPT ![Resource] = [@ EXCEPT !.plays = TRUE, !.goal = 0, !.at = at]]
      PROVE  ExportInv'
  <2>1. at \in Int BY <1>2, StandsThere DEF Blank
  <2>2. /\ Stands(cache)' /\ cache'[Resource].goal = 0
        /\ \A q \in DOMAIN Length \ {Resource} : cache'[q] = cache[q]
    BY <1>2, <1>8, <2>1, ReplayIsKept
  <2>3. RunsOut(render.backend, op, late) \/ Sought(op, cache', render.backend, late)
    <3> SUFFICES ASSUME ~RunsOut(render.backend, op, late) PROVE FALSE OBVIOUS
    <3> DEFINE clamp == Clamp(Resource, op.source)
               source == op.source
               length == Length[Resource]
    <3>1. source + Tolerance + late < length BY <1>2, <1>3, <1>4, <1>8 DEF RunsOut
    <3>2. clamp = source BY <1>2, <1>3, <3>1, ClampIsNear
    <3>3. Distance(goal, clamp) <= Tolerance + late BY <1>4, <1>5, <1>8 DEF Sought, Near
    <3> HIDE DEF clamp, source, length, goal, op, late
    <3>4. goal \in Nat /\ source \in Nat /\ length \in Nat /\ late \in Nat /\ goal >= length
      BY <1>2, <1>3, <1>8 DEF source, length, op
    <3>5. Distance(goal, source) = goal - source BY <1>3, <3>1, <3>4 DEF Distance
    <3> QED BY <1>3, <3>1, <3>2, <3>3, <3>4, <3>5
  <2>4. Sought(op, cache', render.backend, late) BY <2>3 DEF Sought
  <2>5. \A r \in DOMAIN Length : cache'[r].goal = cache[r].goal \/ r = Resource BY <2>2
  <2> QED BY <1>1, <1>8, <2>2, <2>4, <2>5, ExportAtPrepared
<1> QED BY <1>6, <1>7, <1>8 DEF PrepareVideo

(* A resource is loaded or fails. *)
LEMMA ExportAtLoad == ExportInv /\ Load => ExportInv'
<1> SUFFICES ASSUME ExportInv, Load PROVE ExportInv' OBVIOUS
<1> DEFINE ops == FrameOperations(Len(render.frames))
           late == render.late
<1>1. Preparing({"video", "image"}) /\ UNCHANGED render /\ cache[Resource].state = "new" BY DEF Load
<1>2. /\ RequestInv /\ Stands(cache) /\ ops \in Seq(Operations) /\ late \in Nat
      /\ Layers(render.prepared, render.todo, ops, cache, render.backend, render.seeking, late)
      /\ render.backend = "webcodecs" => WasAsked(cache, Len(render.frames) + 1)
      /\ Resource \in DOMAIN Length
  BY <1>1, PreparingFacts
<1>3. PICK state : cache' = [cache EXCEPT ![Resource].state = state] BY DEF Load
<1>4. /\ Stands(cache)'
      /\ \A q \in DOMAIN Length : /\ cache'[q].goal = cache[q].goal /\ cache'[q].at = cache[q].at
                                  /\ q # Resource => cache'[q].state = cache[q].state
  BY <1>2, <1>3, LoadIsKept
<1> HIDE DEF ops, late
<1>5. \A r \in DOMAIN Length :
        /\ cache[r].goal \in Nat /\ cache'[r].goal \in Nat
        /\ cache[r].goal <= cache'[r].goal /\ cache'[r].goal <= cache[r].goal + 0
        /\ cache[r].state = "loaded" => cache'[r].state = "loaded"
  BY <1>1, <1>2, <1>4, StandsThere
<1>6. Layers(render.prepared, render.todo, ops, cache', render.backend, render.seeking, late + 0)
  BY <1>2, <1>5, LayersMoved
<1>7. late + 0 = late BY <1>2
<1>8. render.backend = "webcodecs" => WasAsked(cache', Len(render.frames) + 1)
  BY <1>2, <1>4 DEF WasAsked
<1>9. SameRequest /\ render.phase = "frames" BY <1>1, <1>2, PreparingFacts DEF SameRequest, RequestInv
<1>10. Layers(render'.prepared, render'.todo, ops, cache', render.backend, render'.seeking, render'.late)
  BY <1>1, <1>6, <1>7 DEF late
<1> QED BY <1>1, <1>4, <1>8, <1>9, <1>10, KeepsPreparing DEF ops

(* While a layer of the recorder is awaited, the videos play on. *)
LEMMA ExportAtPlayOn ==
  ASSUME ExportInv, NEW advance \in Nat, PlayOn(advance)
  PROVE  ExportInv'
<1> DEFINE ops == FrameOperations(Len(render.frames))
           late == render.late
<1>1. /\ Preparing({"video", "image"}) /\ render.backend = "recorder"
      /\ render' = [render EXCEPT !.late = @ + advance]
  BY DEF PlayOn
<1>2. PICK moved \in [Playing -> 0..advance] : Played(moved) BY DEF PlayOn
<1>3. /\ RequestInv /\ Stands(cache) /\ ops \in Seq(Operations) /\ late \in Nat
      /\ Layers(render.prepared, render.todo, ops, cache, render.backend, render.seeking, late)
  BY <1>1, PreparingFacts
<1>4. /\ Stands(cache)'
      /\ \A r \in DOMAIN Length :
           /\ cache[r].goal <= cache'[r].goal /\ cache'[r].goal <= cache[r].goal + advance
           /\ cache'[r].state = cache[r].state
  <2>1. \A r \in Playing : moved[r] \in Nat /\ moved[r] <= advance BY <1>2
  <2> QED BY <1>2, <1>3, <2>1, PlayedIsKept
<1> HIDE DEF ops, late
<1>5. \A r \in DOMAIN Length : cache[r].goal \in Nat /\ cache'[r].goal \in Nat
  BY <1>3, <1>4 DEF Stands
<1>6. Layers(render.prepared, render.todo, ops, cache', render.backend, render.seeking, late + advance)
  BY <1>1, <1>3, <1>4, <1>5, LayersMoved
<1>7. late + advance \in Nat BY <1>3
<1>8. render' = [render EXCEPT !.seeking = render.seeking, !.late = late + advance]
  BY <1>1, <1>3 DEF RequestInv, Fields, late
<1> QED BY <1>1, <1>4, <1>6, <1>7, <1>8, ExportAtVideos DEF ops

(* A picture arrives, of a seek that may have been given up, at any time. *)
LEMMA ExportAtSeek ==
  ASSUME ExportInv, NEW r \in DOMAIN Length, SeekLands(r)
  PROVE  ExportInv'
<1>1. /\ cache' = [cache EXCEPT ![r].at = cache[r].goal] /\ UNCHANGED render
      /\ cache[r].state = "loaded"
  BY DEF SeekLands
<1>2. RequestInv /\ Stands(cache) /\ EarlyInv /\ FramesInv /\ LayersInv /\ SoundInv BY DEF ExportInv
<1>3. /\ Stands(cache)'
      /\ \A q \in DOMAIN Length : /\ cache'[q].goal = cache[q].goal /\ cache'[q].state = cache[q].state
                                  /\ cache'[q].at \in {cache[q].at, cache[q].goal}
  BY <1>1, <1>2, LandingIsKept
<1>4. SameRequest BY <1>1, <1>2 DEF SameRequest, RequestInv
<1>5. /\ RequestInv' /\ GetFrameCount' = GetFrameCount
      /\ \A frame, i, backend : RightFrame(frame, i, backend) => RightFrame(frame, i, backend)'
  BY <1>2, <1>4, RequestKept
<1>6. FramesInv'
  <2>1. render.phase \in Drawing \cup {"done"} =>
          /\ IsList(render.frames)
          /\ \A i \in DOMAIN render.frames : RightFrame(render.frames[i], i, render.backend)'
    BY <1>1, <1>2, <1>5 DEF FramesInv
  <2> QED BY <1>1, <1>2, <1>5, <2>1 DEF FramesInv
<1>7. SoundInv'
  <2>1. SoundRight => SoundRight' BY <1>1, <1>2, <1>4, SoundKept
  <2> QED BY <1>1, <1>2, <2>1 DEF SoundInv
<1>8. EarlyInv' BY <1>1, <1>2 DEF EarlyInv
<1>9. CASE render.phase # "frames"
  <2>1. LayersInv' BY <1>1, <1>9 DEF LayersInv
  <2> QED BY <1>3, <1>5, <1>6, <1>7, <1>8, <2>1 DEF ExportInv
<1>10. CASE render.phase = "frames"
  <2> DEFINE ops == FrameOperations(Len(render.frames))
             late == render.late
  <2>1. /\ Layers(render.prepared, render.todo, ops, cache, render.backend, render.seeking, late)
        /\ render.backend = "webcodecs" => WasAsked(cache, Len(render.frames) + 1)
        /\ late \in Nat
    BY <1>2, <1>10 DEF LayersInv, RequestInv
  <2>2. Len(render.frames) \in Nat BY <1>2, <1>10, LenProperties DEF FramesInv, Drawing, IsList
  <2>3. ops \in Seq(Operations) BY <1>2, <2>2, FrameOperationsAreTyped
  <2>4. \A q \in DOMAIN Length :
          /\ cache[q].goal \in Nat /\ cache'[q].goal \in Nat
          /\ cache[q].goal <= cache'[q].goal /\ cache'[q].goal <= cache[q].goal + 0
          /\ cache[q].state = "loaded" => cache'[q].state = "loaded"
    BY <1>2, <1>3, StandsThere
  <2> HIDE DEF ops, late
  <2>5. Layers(render.prepared, render.todo, ops, cache', render.backend, render.seeking, late + 0)
    BY <2>1, <2>3, <2>4, LayersMoved
  <2>6. late + 0 = late BY <2>1
  <2>7. render.backend = "webcodecs" => WasAsked(cache', Len(render.frames) + 1)
    BY <1>3, <2>1 DEF WasAsked
  <2>8. Layers(render'.prepared, render'.todo, ops, cache', render.backend, render'.seeking, render'.late)
    BY <1>1, <2>5, <2>6 DEF late
  <2> QED BY <1>1, <1>3, <1>4, <1>10, <2>7, <2>8, KeepsPreparing DEF ops
<1> QED BY <1>9, <1>10

(* The frames after one more is drawn. *)
LEMMA OneMore ==
  ASSUME ExportInv, render.phase = "frames", render.todo = <<>>
  PROVE  LET frames == Append(render.frames, Drawn) IN
         /\ Len(render.frames) \in Nat /\ IsList(frames) /\ Len(frames) = Len(render.frames) + 1
         /\ \A i \in DOMAIN frames : RightFrame(frames[i], i, render.backend)
         /\ render.backend = "webcodecs" => WasAsked(cache, Len(render.frames) + 1)
         /\ render.backend \in {"webcodecs", "recorder"} /\ render.seeking = FALSE
<1> DEFINE l == Len(render.frames)
           frames == Append(render.frames, Drawn)
           ops == FrameOperations(l)
<1>1. RequestInv /\ FramesInv /\ LayersInv BY DEF ExportInv
<1>2. /\ IsList(render.frames)
      /\ \A i \in DOMAIN render.frames : RightFrame(render.frames[i], i, render.backend)
      /\ render.backend \in {"webcodecs", "recorder"}
  BY <1>1 DEF FramesInv, Drawing
<1>3. /\ IsList(frames) /\ l \in Nat /\ Len(frames) = l + 1
      /\ DOMAIN render.frames = 1..l /\ DOMAIN frames = 1..(l + 1)
      /\ frames[l + 1] = Drawn /\ \A i \in 1..l : frames[i] = render.frames[i]
  BY <1>2, ListAppend
<1>4. ops \in Seq(Operations) BY <1>1, <1>3, FrameOperationsAreTyped
<1>5. /\ Layers(render.prepared, <<>>, ops, cache, render.backend, render.seeking, render.late)
      /\ render.backend = "webcodecs" => WasAsked(cache, l + 1)
  BY <1>1 DEF LayersInv
<1>6. Drawn = [operations |-> ops, layers |-> Shows(render.prepared, cache), late |-> render.late]
  BY DEF Drawn, Shows
<1>7. RightFrame(Drawn, l + 1, render.backend)
  <2> HIDE DEF l, frames
  <2> QED BY <1>3, <1>4, <1>5, <1>6, LayersDrawn
<1> HIDE DEF l, frames, ops
<1>8. ASSUME NEW i \in DOMAIN frames
      PROVE  RightFrame(frames[i], i, render.backend)
  <2>1. CASE i \in 1..l BY <1>2, <1>3, <2>1
  <2>2. CASE i = l + 1 BY <1>3, <1>7, <2>2
  <2> QED BY <1>3, <2>1, <2>2
<1>9. ~render.seeking BY <1>5 DEF Layers
<1>10. render.seeking = FALSE
  <2>1. render.seeking = FALSE \/ render.seeking # FALSE OBVIOUS
  <2> QED BY <1>9
<1> QED BY <1>2, <1>3, <1>5, <1>8, <1>10 DEF l, frames

(* What the first frames ask for, more frames ask for too. *)
LEMMA AskedLater ==
  ASSUME NEW stands, NEW count \in Nat, WasAsked(stands, count)
  PROVE  WasAsked(stands, count + 1)
<1>1. \A j \in 0..count - 1 : j \in 0..(count + 1) - 1 OBVIOUS
<1>2. ASSUME NEW r PROVE Asked(r, count) \subseteq Asked(r, count + 1) BY <1>1 DEF Asked
<1> QED BY <1>2 DEF WasAsked

(* NextFrame begins a frame, or it is over. *)
LEMMA NextFrameFacts ==
  ASSUME RequestInv, render.seeking = FALSE, NEW index, NEW over
  PROVE  LET next == NextFrame(index, over) IN
         /\ DOMAIN next = Fields /\ next.plan = render.plan /\ next.start = render.start
         /\ next.duration = render.duration /\ next.clipIds = render.clipIds
         /\ next.backend = render.backend /\ next.sound = render.sound /\ next.decoded = render.decoded
         /\ next.frames = render.frames /\ next.seeking = FALSE /\ next.late \in Nat
         /\ index = GetFrameCount => next.phase = over
         /\ index # GetFrameCount => /\ next.phase = "frames" /\ next.prepared = <<>>
                                     /\ next.todo = FrameOperations(index)
<1>1. CASE index = GetFrameCount BY <1>1 DEF NextFrame, RequestInv, Fields
<1>2. CASE index # GetFrameCount BY <1>2 DEF NextFrame, RequestInv, Fields
<1> QED BY <1>1, <1>2

(* A frame is drawn; the next is begun, the recorder waits or it is over. *)
LEMMA ExportAtDraw == ExportInv /\ Draw => ExportInv'
<1> SUFFICES ASSUME ExportInv, Draw PROVE ExportInv' OBVIOUS
<1> DEFINE frames == Append(render.frames, Drawn)
           l == Len(render.frames)
           next == IF render.backend = "recorder" THEN [render EXCEPT !.phase = "pace"]
                   ELSE NextFrame(l + 1, "flush")
<1>1. RequestInv /\ FramesInv /\ Stands(cache) BY DEF ExportInv
<1>2. /\ render.phase = "frames" /\ render.todo = <<>> /\ UNCHANGED cache
      /\ render' = [next EXCEPT !.frames = Append(@, Drawn)]
  BY DEF Draw
<1>3. Stands(cache)' BY <1>1, <1>2 DEF Stands
<1>4. /\ l \in Nat /\ IsList(frames) /\ Len(frames) = l + 1
      /\ \A i \in DOMAIN frames : RightFrame(frames[i], i, render.backend)
      /\ render.backend = "webcodecs" => WasAsked(cache, l + 1)
      /\ render.seeking = FALSE
  BY <1>2, OneMore
<1>5. GetFrameCount \in Nat /\ l < GetFrameCount BY <1>1, <1>2, CountType DEF FramesInv
<1>6. l + 1 <= GetFrameCount BY <1>4, <1>5
<1>7. CASE render.backend = "recorder"
  <2>1. next = [render EXCEPT !.phase = "pace"] BY <1>7
  <2>2. /\ DOMAIN next = Fields /\ next.plan = render.plan /\ next.start = render.start
        /\ next.duration = render.duration /\ next.clipIds = render.clipIds
        /\ next.backend = render.backend /\ next.sound = render.sound /\ next.decoded = render.decoded
        /\ next.frames = render.frames /\ next.phase = "pace"
        /\ next.seeking = render.seeking /\ next.late \in Nat
    BY <1>1, <2>1 DEF RequestInv, Fields
  <2> HIDE DEF next
  <2>3. /\ SameRequest /\ render'.phase = "pace" /\ render'.frames = frames
        /\ render'.backend = render.backend /\ render'.sound = render.sound
        /\ render'.decoded = render.decoded /\ render'.seeking = FALSE
    BY <1>2, <1>4, <2>2 DEF SameRequest, Fields
  <2>4. render.phase \in Drawing BY <1>2 DEF Drawing
  <2>5. render'.phase \in Drawing \cup {"done"} BY <2>3 DEF Drawing
  <2>6. Len(render'.frames) <= GetFrameCount BY <1>4, <1>6, <2>3
  <2> HIDE DEF frames, l
  <2> QED BY <1>3, <1>4, <1>7, <2>3, <2>4, <2>5, <2>6, MovesOn
<1>8. CASE render.backend # "recorder"
  <2>1. next = NextFrame(l + 1, "flush") BY <1>8
  <2>2. /\ DOMAIN next = Fields /\ next.plan = render.plan /\ next.start = render.start
        /\ next.duration = render.duration /\ next.clipIds = render.clipIds
        /\ next.backend = render.backend /\ next.sound = render.sound /\ next.decoded = render.decoded
        /\ next.frames = render.frames /\ next.seeking = FALSE /\ next.late \in Nat
        /\ l + 1 = GetFrameCount => next.phase = "flush"
        /\ l + 1 # GetFrameCount => /\ next.phase = "frames" /\ next.prepared = <<>>
                                    /\ next.todo = FrameOperations(l + 1)
    <3>1. render.seeking = FALSE BY <1>4
    <3> DEFINE index == l + 1
               begun == NextFrame(index, "flush")
    <3> HIDE DEF next, l, frames, index
    <3>2. /\ DOMAIN begun = Fields /\ begun.plan = render.plan /\ begun.start = render.start
          /\ begun.duration = render.duration /\ begun.clipIds = render.clipIds
          /\ begun.backend = render.backend /\ begun.sound = render.sound /\ begun.decoded = render.decoded
          /\ begun.frames = render.frames /\ begun.seeking = FALSE /\ begun.late \in Nat
          /\ index = GetFrameCount => begun.phase = "flush"
          /\ index # GetFrameCount => /\ begun.phase = "frames" /\ begun.prepared = <<>>
                                      /\ begun.todo = FrameOperations(index)
      BY <1>1, <3>1, NextFrameFacts
    <3>3. next = begun BY <2>1 DEF index
    <3> HIDE DEF begun
    <3> QED BY <3>2, <3>3, Zenon DEF index
  <2> HIDE DEF next
  <2>3. /\ SameRequest /\ render'.frames = frames
        /\ render'.backend = render.backend /\ render'.sound = render.sound
        /\ render'.decoded = render.decoded
        /\ render'.phase = next.phase /\ render'.prepared = next.prepared /\ render'.todo = next.todo
        /\ render'.seeking = FALSE
    BY <1>2, <2>2 DEF SameRequest, Fields
  <2> HIDE DEF frames, l
  <2>4. CASE l + 1 = GetFrameCount
    <3>1. render'.phase = "flush" BY <2>2, <2>3, <2>4
    <3> QED BY <1>2, <1>3, <1>4, <2>3, <2>4, <3>1, MovesOn DEF Drawing
  <2>5. CASE l + 1 # GetFrameCount
    <3>1. render'.phase = "frames" /\ render'.prepared = <<>> /\ render'.todo = FrameOperations(Len(render'.frames))
      BY <1>4, <2>2, <2>3, <2>5
    <3>2. Len(render'.frames) < GetFrameCount /\ Len(render'.frames) \in Nat
      BY <1>4, <1>5, <1>6, <2>3, <2>5
    <3>3. render.backend = "webcodecs" => WasAsked(cache', Len(render'.frames) + 1)
      <4>1. render.backend = "webcodecs" => WasAsked(cache, (l + 1) + 1) BY <1>4, AskedLater
      <4>2. UNCHANGED cache /\ Len(render'.frames) = l + 1 BY <1>2, <1>4, <2>3
      <4> QED BY <4>1, <4>2
    <3> QED BY <1>2, <1>3, <1>4, <2>3, <3>1, <3>2, <3>3, MovesOn DEF Drawing
  <2> QED BY <2>4, <2>5
<1> QED BY <1>7, <1>8

(* The recorder has waited. *)
LEMMA ExportAtPace == ExportInv /\ Pace => ExportInv'
<1> SUFFICES ASSUME ExportInv, Pace PROVE ExportInv' OBVIOUS
<1> DEFINE l == Len(render.frames)
           next == NextFrame(l, "stop")
<1>1. RequestInv /\ FramesInv /\ Stands(cache) BY DEF ExportInv
<1>2. render.phase = "pace" /\ render' = next BY DEF Pace
<1>3. Stands(cache)'
  <2>1. PICK moved \in [Playing -> {0, FrameUnits, FrameUnits + Tolerance}] : Played(moved) BY DEF Pace
  <2>2. FrameUnits \in Nat /\ Tolerance \in Nat BY ExportAssumption
  <2>3. FrameUnits + Tolerance \in Nat BY <2>2
  <2>4. \A r \in Playing : moved[r] \in Nat /\ moved[r] <= FrameUnits + Tolerance BY <2>1, <2>2
  <2> QED BY <1>1, <2>1, <2>3, <2>4, PlayedIsKept
<1>4. /\ IsList(render.frames) /\ l <= GetFrameCount /\ render.seeking = FALSE
      /\ \A i \in DOMAIN render.frames : RightFrame(render.frames[i], i, render.backend)
      /\ render.backend = "recorder"
  BY <1>1, <1>2 DEF FramesInv, Drawing
<1>5. GetFrameCount \in Nat /\ l \in Nat BY <1>1, <1>4, CountType, LenProperties DEF IsList
<1>6. /\ DOMAIN next = Fields /\ next.plan = render.plan /\ next.start = render.start
      /\ next.duration = render.duration /\ next.clipIds = render.clipIds
      /\ next.backend = render.backend /\ next.sound = render.sound /\ next.decoded = render.decoded
      /\ next.frames = render.frames /\ next.seeking = FALSE /\ next.late \in Nat
      /\ l = GetFrameCount => next.phase = "stop"
      /\ l # GetFrameCount => /\ next.phase = "frames" /\ next.prepared = <<>>
                              /\ next.todo = FrameOperations(l)
  BY <1>1, <1>4, NextFrameFacts
<1> HIDE DEF next
<1>7. /\ SameRequest /\ render'.frames = render.frames /\ render'.backend = render.backend
      /\ render'.sound = render.sound /\ render'.decoded = render.decoded
  BY <1>2, <1>6 DEF SameRequest
<1>8. CASE l = GetFrameCount
  <2>1. render'.phase = "stop" /\ Len(render'.frames) = GetFrameCount BY <1>2, <1>6, <1>7, <1>8
  <2> QED BY <1>2, <1>3, <1>4, <1>7, <2>1, MovesOn DEF Drawing
<1>9. CASE l # GetFrameCount
  <2>1. /\ render'.phase = "frames" /\ render'.prepared = <<>>
        /\ render'.todo = FrameOperations(Len(render'.frames))
    BY <1>2, <1>6, <1>7, <1>9
  <2>2. Len(render'.frames) < GetFrameCount /\ Len(render'.frames) \in Nat BY <1>4, <1>5, <1>7, <1>9
  <2>3. render'.seeking = FALSE BY <1>2, <1>6
  <2> QED BY <1>2, <1>3, <1>4, <1>7, <2>1, <2>2, <2>3, MovesOn DEF Drawing
<1> QED BY <1>8, <1>9

(* Flush and StopRecorder: done or failed, and the videos are unloaded. *)
LEMMA ExportAtEnd ==
  ASSUME ExportInv, Flush \/ StopRecorder
  PROVE  ExportInv'
<1>1. render.phase \in {"flush", "stop"} /\ Unloaded BY DEF Flush, StopRecorder
<1>2. Stands(cache)' BY <1>1, UnloadedIsKept DEF ExportInv
<1>3. /\ IsList(render.frames) /\ Len(render.frames) = GetFrameCount
      /\ \A i \in DOMAIN render.frames : RightFrame(render.frames[i], i, render.backend)
  BY <1>1 DEF ExportInv, FramesInv, Drawing
<1>4. CASE Goes("done")
  <2>1. /\ SameRequest /\ render'.phase = "done" /\ render'.backend = render.backend
        /\ render'.frames = render.frames
        /\ render'.sound = render.sound /\ render'.decoded = render.decoded
    BY <1>4, ExportAtGoes
  <2>2. render.phase \in Drawing BY <1>1 DEF Drawing
  <2> QED BY <1>2, <1>3, <2>1, <2>2, MovesOn
<1>5. CASE Goes("failed")
  <2>1. SameRequest /\ render'.phase = "failed" BY <1>5, ExportAtGoes
  <2> QED BY <1>2, <2>1, FailureIsKept
<1>6. CASE Fails("sound") \/ Fails("soundConfigure") BY <1>2, <1>6, ExportAtFails
<1> QED BY <1>4, <1>5, <1>6 DEF Flush, StopRecorder

(* A frame fails, or the encoder does. *)
LEMMA ExportAtFailure ==
  ASSUME ExportInv, FrameFails \/ EncoderFails
  PROVE  ExportInv'
<1>1. Stands(cache) BY DEF ExportInv
<1>2. CASE FrameFails
  <2>1. Fails("frame") /\ Unloaded BY <1>2 DEF FrameFails
  <2> QED BY <1>1, <2>1, UnloadedIsKept, ExportAtFails
<1>3. CASE EncoderFails
  <2>1. Fails("encoder") /\ Stands(cache)' BY <1>1, <1>3 DEF EncoderFails, Stands
  <2> QED BY <2>1, ExportAtFails
<1> QED BY <1>2, <1>3

(* Every step of an export keeps the invariant. *)
LEMMA ExportStep == ExportInv /\ ExportSteps => ExportInv'
<1> SUFFICES ASSUME ExportInv, ExportSteps PROVE ExportInv' OBVIOUS
<1>1. CASE Renders
  <2>1. CASE Configure \/ WriteManifest \/ RecorderStarts \/ MixerStarts
    BY <2>1, ExportAtConfigure, ExportAtManifest, ExportAtRecorder, ExportAtMixer
  <2>2. ASSUME NEW decoded \in SUBSET AudioClips,
               MixAudio(decoded) \/ \E playing \in SUBSET AudioClips : Record(decoded, playing)
        PROVE  ExportInv'
    BY <2>2, ExportAtMix, ExportAtRecord
  <2>3. CASE PrepareOther \/ PreparePlaceholder \/ PrepareImage BY <2>3, ExportAtPrepare
  <2>4. CASE Load \/ SeekVideo \/ PrepareVideo
    BY <2>4, ExportAtLoad, ExportAtSeekVideo, ExportAtVideo
  <2>5. CASE Draw \/ Pace BY <2>5, ExportAtDraw, ExportAtPace
  <2>6. CASE Flush \/ StopRecorder BY <2>6, ExportAtEnd
  <2> QED BY <1>1, <2>1, <2>2, <2>3, <2>4, <2>5, <2>6 DEF Renders
<1>2. CASE EncoderFails \/ FrameFails BY <1>2, ExportAtFailure
<1>3. ASSUME NEW r \in DOMAIN Length, SeekLands(r) PROVE ExportInv' BY <1>3, ExportAtSeek
<1>4. ASSUME NEW advance \in 1..MaxLate, PlayOn(advance) PROVE ExportInv'
  <2>1. advance \in Nat BY ExportAssumption
  <2> QED BY <1>4, <2>1, ExportAtPlayOn
<1> QED BY <1>1, <1>2, <1>3, <1>4 DEF ExportSteps

-----------------------------------------------------------------------------
(* The specification. *)

RenderingInv == PreviewInv /\ ExportInv

(* An edit or a step of the playback leaves an export alone. *)
LEMMA ExportStutters == ExportInv /\ UNCHANGED <<render, cache>> => ExportInv'
<1> SUFFICES ASSUME ExportInv, UNCHANGED <<render, cache>> PROVE ExportInv' OBVIOUS
<1>1. RequestInv /\ Stands(cache) /\ EarlyInv /\ FramesInv /\ LayersInv /\ SoundInv BY DEF ExportInv
<1>2. SameRequest BY <1>1 DEF SameRequest, RequestInv
<1>3. /\ RequestInv' /\ GetFrameCount' = GetFrameCount /\ \A i : FrameOperations(i)' = FrameOperations(i)
      /\ \A r, count : Asked(r, count)' = Asked(r, count)
      /\ \A frame, i, backend : RightFrame(frame, i, backend) => RightFrame(frame, i, backend)'
  BY <1>1, <1>2, RequestKept
<1>4. Stands(cache)' BY <1>1 DEF Stands
<1>5. EarlyInv' BY <1>1 DEF EarlyInv
<1>6. FramesInv'
  <2>1. render.phase \in Drawing \cup {"done"} =>
          /\ IsList(render.frames)
          /\ \A i \in DOMAIN render.frames : RightFrame(render.frames[i], i, render.backend)'
    BY <1>1, <1>3 DEF FramesInv
  <2> QED BY <1>1, <1>3, <2>1 DEF FramesInv
<1>7. LayersInv'
  <2>1. render.phase = "frames" =>
          /\ Layers(render.prepared, render.todo, FrameOperations(Len(render.frames)), cache, render.backend,
                    render.seeking, render.late)
          /\ render.backend = "webcodecs" => WasAsked(cache, Len(render.frames) + 1)
    BY <1>1 DEF LayersInv
  <2>2. FrameOperations(Len(render.frames))' = FrameOperations(Len(render.frames)) BY <1>3
  <2>3. WasAsked(cache, Len(render.frames) + 1) => WasAsked(cache, Len(render.frames) + 1)'
    BY <1>3 DEF WasAsked
  <2> QED BY <2>1, <2>2, <2>3 DEF LayersInv
<1>8. SoundInv'
  <2>1. SoundRight => SoundRight' BY <1>1, <1>2, SoundKept
  <2> QED BY <1>1, <2>1 DEF SoundInv
<1> QED BY <1>3, <1>4, <1>5, <1>6, <1>7, <1>8 DEF ExportInv

(* The invariant holds initially. *)
LEMMA ExportInitially == ExportInit => ExportInv
<1> SUFFICES ASSUME ExportInit PROVE ExportInv OBVIOUS
<1>1. render = Idle /\ cache = [r \in DOMAIN Length |-> NotLoaded] BY DEF ExportInit
<1>2. RequestInv BY <1>1 DEF Idle, RequestInv, Fields
<1>3. DOMAIN cache = DOMAIN Length /\ \A r \in DOMAIN Length : cache[r] = NotLoaded BY <1>1
<1>4. /\ DOMAIN NotLoaded = StandFields /\ NotLoaded.at = Blank /\ NotLoaded.goal = 0
      /\ NotLoaded.state # "loaded" /\ Blank \in Int
  BY DEF NotLoaded, StandFields, Blank
<1>5. \A r \in DOMAIN Length : 0 <= Length[r] BY StructuresAssumption
<1>6. Stands(cache) BY <1>3, <1>4, <1>5 DEF Stands
<1>7. render.phase = "idle" /\ render.frames = <<>> /\ render.prepared = <<>> /\ ~render.seeking
  BY <1>1 DEF Idle
<1>8. EarlyInv BY <1>3, <1>4, <1>7 DEF EarlyInv
<1>9. FramesInv BY <1>7 DEF FramesInv, Drawing
<1>10. LayersInv /\ SoundInv BY <1>7 DEF LayersInv, SoundInv, Drawing
<1> QED BY <1>2, <1>6, <1>8, <1>9, <1>10 DEF ExportInv

(* A step of an export leaves the playback alone. *)
LEMMA PreviewStutters == PreviewInv /\ UNCHANGED <<session, inbox, page, canvas>> => PreviewInv'
<1> SUFFICES ASSUME PreviewInv, UNCHANGED <<session, inbox, page, canvas>> PROVE PreviewInv' OBVIOUS
<1>1. SessionInv' BY DEF PreviewInv, SessionInv
<1>2. StageInv' BY StageUnchanged DEF PreviewInv
<1>3. CanvasInv' BY CanvasUnchanged DEF PreviewInv
<1> QED BY <1>1, <1>2, <1>3 DEF PreviewInv

(* A behaviour watches, exports, or edits while it exports. *)
LEMMA RenderingStep == RenderingInv /\ [Next]_vars => RenderingInv'
<1> SUFFICES ASSUME PreviewInv, ExportInv, [Next]_vars PROVE PreviewInv' /\ ExportInv'
  BY DEF RenderingInv
<1>1. CASE Watch
  <2>1. PreviewNext /\ UNCHANGED <<render, cache>> BY <1>1 DEF Watch, exportVars
  <2> QED BY <2>1, PreviewInvStep, ExportStutters
<1>2. CASE Export
  <2>1. UNCHANGED <<session, inbox, page, canvas>> /\ ExportSteps BY <1>2 DEF Export, previewVars
  <2> QED BY <2>1, PreviewStutters, ExportStep
<1>3. CASE EditMeanwhile
  <2>1. \E structure \in Structures : Edit(structure) BY <1>3 DEF EditMeanwhile
  <2>2. PreviewNext BY <2>1 DEF PreviewNext
  <2>3. UNCHANGED <<render, cache>> BY <1>3 DEF EditMeanwhile, exportVars
  <2> QED BY <2>2, <2>3, PreviewInvStep, ExportStutters
<1>4. ASSUME NEW range, AskExport(range) PROVE PreviewInv' /\ ExportInv'
  <2>1. UNCHANGED <<session, inbox, page, canvas>> /\ Ask(session.structure, range)
    BY <1>4 DEF AskExport, previewVars
  <2>2. SessionInv BY DEF PreviewInv
  <2> QED BY <2>1, <2>2, PreviewStutters, ExportAtAsk
<1>5. CASE UNCHANGED vars
  <2>1. UNCHANGED <<session, inbox, page, canvas, render, cache>>
    BY <1>5 DEF vars, previewVars, exportVars
  <2> QED BY <2>1, PreviewStutters, ExportStutters
<1> QED BY <1>1, <1>2, <1>3, <1>4, <1>5 DEF Next

(* What the invariant is about holds in every state of every behaviour: the stage    *)
(* and the canvas worker follow the committed state; of an export, the layers of    *)
(* the frame in preparation stand near what they ask, though the recorder's videos  *)
(* run on while other layers are awaited, and every frame drawn is right in the     *)
(* sense of DrawnRight.                                                            *)
THEOREM RenderingKept == Spec => []RenderingInv
<1>1. Init => RenderingInv BY PreviewInvInit, ExportInitially DEF Init, RenderingInv
<1> QED BY <1>1, RenderingStep, PTL DEF Spec

(* Every medium on the stage is told to play as the committed state says, whatever  *)
(* the order of presses, ticks, edits, commits and changes of URLs                  *)
(* (RendererStage.tsx).                                                            *)
THEOREM StageIsFollowed == Spec => []MediaFollowsPlayback
<1>1. RenderingInv => MediaFollowsPlayback BY StageFollows DEF RenderingInv, PreviewInv
<1> QED BY <1>1, RenderingKept, PTL

(* A canvas worker at rest has painted what the stage shows: its own evaluation of   *)
(* keyframes and fades agrees with the page's, for every structure and cursor.      *)
THEOREM CanvasIsTheStage == Spec => []CanvasAgreesWithStage
<1>1. RenderingInv => CanvasAgreesWithStage BY CanvasFollows DEF RenderingInv
<1> QED BY <1>1, RenderingKept, PTL

(* An export that ends well, by WebCodecs, recorder or manifest, has the frames of   *)
(* its range and in each the layers the preview computes for that time, whatever    *)
(* loads, fails, seeks late or is edited meanwhile.  The last layer of each video   *)
(* shows its source time: exactly with WebCodecs, up to the tolerance and the time  *)
(* its other layers were awaited with the recorder.  Only a seek that was given up  *)
(* escapes that, and a recorder's video that runs out; the former shows nothing or  *)
(* a picture that was asked for.                                                   *)
THEOREM FramesArePreviewed == Spec => []FramesAreThePreview
<1>1. RenderingInv => FramesAreThePreview BY ExportFollows DEF RenderingInv
<1> QED BY <1>1, RenderingKept, PTL

(* The mix of WebCodecs and the schedule of the recorder put every clip's sound at    *)
(* the same instants, for every range, length of frame and length of medium.         *)
THEOREM SoundIsInPlace == Spec => []SoundWhereItBelongs
<1>1. RenderingInv => SoundWhereItBelongs BY ExportFollows DEF RenderingInv
<1> QED BY <1>1, RenderingKept, PTL
=============================================================================
