-------------------------- MODULE WorkerRoom_proofs --------------------------
(***************************************************************************)
(* What holds in a browser with any number of tabs, ports, remote pages and *)
(* upsets.  First the coordinator of the transport alone, for any tabs and  *)
(* any kinds of packet (IInv).  Among its ports it still behaves as         *)
(* specified; no tab that is in touch with the worker believes itself       *)
(* attached when it is not leased the transport; a room with tabs keeps a   *)
(* transport (KeepInv: what each waiting tab is owed, and by whom); and the *)
(* channels of a page get its packets in order (LineInv: what has been sent *)
(* over a channel, what waits for it and what comes down to its tab), and    *)
(* all of the log (LogInv: what every open channel is still owed).           *)
(***************************************************************************)
EXTENDS WorkerRoom, SequenceTheorems, FiniteSetTheorems, TLAPS

-----------------------------------------------------------------------------
(* The coordinator. *)

IInv ==
  /\ TypeOK
  /\ LeaseIsLegitimate
  /\ NoRoomWithoutOwner
  /\ SingleOwner

-----------------------------------------------------------------------------
Elements(s) == {s[j] : j \in DOMAIN s}

(* Sequences: a registration at the end, and one taken out at i. *)
LEMMA RegisteredAfterAppend ==
  \A S, e, r : \A s \in Seq(S) :
    e \in S /\ r = Append(s, e) =>
      r \in Seq(S) /\ Elements(r) = Elements(s) \cup {e}
  <1> SUFFICES ASSUME NEW S, NEW e \in S, NEW r, NEW s \in Seq(S), r = Append(s, e)
               PROVE  r \in Seq(S) /\ Elements(r) = Elements(s) \cup {e}
    OBVIOUS
  <1>1. /\ r \in Seq(S)
        /\ Len(r) = Len(s) + 1
        /\ \A j \in 1..Len(s) : r[j] = s[j]
        /\ r[Len(s) + 1] = e
    BY AppendProperties
  <1>2. Len(s) \in Nat /\ DOMAIN s = 1..Len(s) /\ DOMAIN r = 1..(Len(s) + 1)
    BY <1>1, LenProperties
  <1>3. QED
    BY <1>1, <1>2 DEF Elements

LEMMA Shifting ==
  ASSUME NEW i \in Nat, NEW n \in Nat, 1 <= i, i <= n
  PROVE  /\ \A j \in 1..(n - 1) : ~(j <= i - 1) =>
               j - (i - 1) \in 1..(n - i) /\ i + (j - (i - 1)) = j + 1
         /\ \A j \in 1..n : j = i \/ j < i \/ j > i
  OBVIOUS

LEMMA RegisteredAfterRemoval ==
  \A S, r : \A s \in Seq(S) : \A i \in DOMAIN s :
    r = SubSeq(s, 1, i - 1) \o SubSeq(s, i + 1, Len(s)) =>
      /\ r \in Seq(S)
      /\ Elements(r) \subseteq Elements(s)
      /\ Elements(s) \subseteq Elements(r) \cup {s[i]}
  <1> SUFFICES ASSUME NEW S, NEW r, NEW s \in Seq(S), NEW i \in DOMAIN s,
                      r = SubSeq(s, 1, i - 1) \o SubSeq(s, i + 1, Len(s))
               PROVE  /\ r \in Seq(S)
                      /\ Elements(r) \subseteq Elements(s)
                      /\ Elements(s) \subseteq Elements(r) \cup {s[i]}
    OBVIOUS
  <1> DEFINE a == SubSeq(s, 1, i - 1)
             b == SubSeq(s, i + 1, Len(s))
  <1>1. Len(s) \in Nat /\ DOMAIN s = 1..Len(s) /\ i \in 1..Len(s)
        /\ \A j \in 1..Len(s) : s[j] \in S
    BY LenProperties, ElementOfSeq
  <1>n. i \in Nat /\ Len(s) \in Nat /\ 1 <= i /\ i <= Len(s)
    BY <1>1
  <1>2. /\ a \in Seq(S)
        /\ Len(a) = i - 1
        /\ \A j \in 1..(i - 1) : a[j] = s[j]
    <2>1. \A j \in 1..(i - 1) : s[j] \in S
      BY <1>1
    <2>2. 1 \in Int /\ i - 1 \in Int
      BY <1>1
    <2>3. /\ a \in Seq(S)
          /\ Len(a) = IF 1 <= i - 1 THEN i - 1 - 1 + 1 ELSE 0
          /\ \A j \in 1..(i - 1 - 1 + 1) : a[j] = s[1 + j - 1]
      BY <2>1, <2>2, SubSeqProperties
    <2>4. QED
      BY <1>1, <2>3
  <1>3. /\ b \in Seq(S)
        /\ Len(b) = Len(s) - i
        /\ \A j \in 1..(Len(s) - i) : b[j] = s[i + j]
    <2>1. \A j \in (i + 1)..Len(s) : s[j] \in S
      BY <1>1
    <2>2. i + 1 \in Int /\ Len(s) \in Int
      BY <1>1
    <2>3. /\ b \in Seq(S)
          /\ Len(b) = IF i + 1 <= Len(s) THEN Len(s) - (i + 1) + 1 ELSE 0
          /\ \A j \in 1..(Len(s) - (i + 1) + 1) : b[j] = s[(i + 1) + j - 1]
      BY <2>1, <2>2, SubSeqProperties
    <2>4. QED
      BY <1>1, <2>3
  <1>4. /\ r \in Seq(S)
        /\ Len(r) = Len(s) - 1
        /\ \A j \in 1..(Len(s) - 1) :
             r[j] = IF j <= i - 1 THEN a[j] ELSE b[j - (i - 1)]
    <2>1. /\ a \o b \in Seq(S)
          /\ Len(a \o b) = Len(a) + Len(b)
          /\ \A j \in 1..(Len(a) + Len(b)) :
               (a \o b)[j] = IF j <= Len(a) THEN a[j] ELSE b[j - Len(a)]
      BY <1>2, <1>3, ConcatProperties
    <2>2. Len(a) + Len(b) = Len(s) - 1
      BY <1>1, <1>2, <1>3
    <2>3. QED
      BY <1>2, <2>1, <2>2
  <1>5. DOMAIN r = 1..(Len(s) - 1)
    BY <1>4, LenProperties
  <1>6. \A j \in 1..(Len(s) - 1) : r[j] = IF j <= i - 1 THEN s[j] ELSE s[j + 1]
    <2> SUFFICES ASSUME NEW j \in 1..(Len(s) - 1)
                 PROVE  r[j] = IF j <= i - 1 THEN s[j] ELSE s[j + 1]
      OBVIOUS
    <2> HIDE DEF a, b
    <2>1. CASE j <= i - 1
      BY <1>1, <1>2, <1>4, <2>1
    <2>2. CASE ~(j <= i - 1)
      <3>1. \A k \in 1..(Len(s) - 1) : ~(k <= i - 1) =>
              k - (i - 1) \in 1..(Len(s) - i) /\ i + (k - (i - 1)) = k + 1
        BY <1>n, Shifting
      <3>2. j - (i - 1) \in 1..(Len(s) - i) /\ i + (j - (i - 1)) = j + 1
        BY <2>2, <3>1, Zenon
      <3>3. QED
        BY <1>3, <1>4, <2>2, <3>2
    <2>3. QED
      BY <2>1, <2>2
  <1>7. \A j \in 1..Len(s) : j # i => \E k \in 1..(Len(s) - 1) : r[k] = s[j]
    <2> SUFFICES ASSUME NEW j \in 1..Len(s), j # i
                 PROVE  \E k \in 1..(Len(s) - 1) : r[k] = s[j]
      OBVIOUS
    <2>1. CASE j < i
      <3>1. j \in 1..(Len(s) - 1) /\ j <= i - 1
        <4>1. \A x, y, n \in Int : 1 <= x /\ x < y /\ y <= n => x \in 1..(n - 1) /\ x <= y - 1
          OBVIOUS
        <4>2. j \in Int /\ 1 <= j /\ i \in Int /\ Len(s) \in Int /\ i <= Len(s)
          BY <1>n
        <4>3. QED
          BY <2>1, <4>1, <4>2
      <3>2. QED
        BY <1>6, <3>1
    <2>2. CASE j > i
      <3>1. j - 1 \in 1..(Len(s) - 1) /\ ~(j - 1 <= i - 1) /\ (j - 1) + 1 = j
        BY <1>1, <2>2
      <3>2. QED
        BY <1>6, <3>1
    <2>3. QED
      BY <1>n, <2>1, <2>2, Shifting
  <1>8. \A j \in 1..(Len(s) - 1) : \E k \in 1..Len(s) : r[j] = s[k]
    <2> SUFFICES ASSUME NEW j \in 1..(Len(s) - 1)
                 PROVE  \E k \in 1..Len(s) : r[j] = s[k]
      OBVIOUS
    <2>1. j \in 1..Len(s) /\ j + 1 \in 1..Len(s)
      BY <1>1
    <2>2. QED
      BY <1>6, <2>1
  <1> HIDE DEF a, b
  <1>9. {r[j] : j \in DOMAIN r} \subseteq {s[j] : j \in DOMAIN s}
    <2> SUFFICES ASSUME NEW j \in DOMAIN r PROVE r[j] \in {s[k] : k \in DOMAIN s}
      OBVIOUS
    <2>1. PICK k \in 1..Len(s) : r[j] = s[k]
      BY <1>5, <1>8
    <2>2. QED
      BY <1>1, <2>1
  <1>10. {s[j] : j \in DOMAIN s} \subseteq {r[j] : j \in DOMAIN r} \cup {s[i]}
    <2> SUFFICES ASSUME NEW j \in DOMAIN s, j # i
                 PROVE  s[j] \in {r[k] : k \in DOMAIN r}
      OBVIOUS
    <2>1. PICK k \in 1..(Len(s) - 1) : r[k] = s[j]
      BY <1>1, <1>7
    <2>2. QED
      BY <1>5, <2>1
  <1>11. QED
    BY <1>4, <1>9, <1>10 DEF Elements

-----------------------------------------------------------------------------
(* The ways a handler may leave the lease.  Held(l) is what a handler knows   *)
(* of the lease l it keeps, after its other changes.                         *)
LeaseTypes ==
  /\ tabs' \in Seq(TabIds)
  /\ hosts' \subseteq TabIds
  /\ disabled' \subseteq TabIds
  /\ openState' \in OpenStates
  /\ generation \in Nat
  /\ told \in [TabIds -> Nat]

LeaseFacts ==
  /\ generation' \in Nat
  /\ lease' \in Leases \cup {NoLease}
  /\ told' \in [TabIds -> Nat]
  /\ LeaseIsLegitimate'
  /\ NoRoomWithoutOwner'
  /\ SingleOwner'

LEMMA NewLeaseType ==
  ASSUME generation \in Nat, NEW t \in TabIds
  PROVE  /\ NewLease(t) \in Leases
         /\ NewLease(t) # NoLease
         /\ NewLease(t).tab = t
         /\ NewLease(t).generation = generation + 1
  <1>1. NewLease(t) \in Leases
    BY DEF NewLease, Leases
  <1>2. QED
    BY <1>1, LeaseAssumption DEF NewLease, Leases

LEMMA RegisteredAreTabs ==
  ASSUME LeaseTypes
  PROVE  Registered' \subseteq TabIds
  BY LenProperties, ElementOfSeq DEF LeaseTypes, Registered

LEMMA AttachOwnerFacts ==
  ASSUME LeaseTypes, NEW t \in TabIds, NEW forget \in SUBSET TabIds,
         AttachOwner(t, forget),
         t \in Registered' \cap Eligible',
         CanAttach(openState'),
         \A u \in Registered' \ (forget \cup {t}) : told[u] # 0 => u \in disabled'
  PROVE  LeaseFacts
  <1> USE DEF LeaseTypes
  <1>1. /\ generation' = generation + 1
        /\ lease' = NewLease(t)
        /\ lease' \in Leases
        /\ lease' # NoLease
        /\ lease'.tab = t
        /\ lease'.generation = generation'
    BY NewLeaseType DEF AttachOwner
  <1>2. /\ told' \in [TabIds -> Nat]
        /\ told'[t] = generation'
        /\ \A u \in TabIds : u # t => told'[u] = IF u \in forget THEN 0 ELSE told[u]
    BY <1>1 DEF AttachOwner
  <1>3. LeaseIsLegitimate'
    BY <1>1 DEF LeaseIsLegitimate, CanAttach
  <1>4. NoRoomWithoutOwner'
    BY <1>1 DEF NoRoomWithoutOwner
  <1>5. \A u \in Registered' : u \in TabIds
    BY RegisteredAreTabs
  <1>6. ASSUME NEW u \in Registered', told'[u] # 0
        PROVE  Accepts(u, told[u])' \/ u \in disabled'
    BY <1>1, <1>2, <1>5, <1>6 DEF Accepts, Holds
  <1>7. SingleOwner'
    BY <1>1, <1>2, <1>6 DEF SingleOwner
  <1>8. QED
    BY <1>1, <1>2, <1>3, <1>4, <1>7 DEF LeaseFacts

LEMMA KeepLeaseFacts ==
  ASSUME LeaseTypes, NEW l \in Leases \cup {NoLease}, NEW forget \in SUBSET TabIds,
         KeepLease(l, forget),
         l # NoLease => /\ l.tab \in (Registered' \cap Eligible') \ forget
                        /\ l.generation = generation
                        /\ openState' \notin {"none", "FAILED"}
                        /\ told[l.tab] = l.generation,
         l = NoLease => ~CanAttach(openState') \/ Registered' \cap Eligible' = {},
         \A u \in Registered' \ forget : told[u] # 0 =>
           \/ l # NoLease /\ l.tab = u /\ l.generation = told[u]
           \/ u \in disabled'
  PROVE  LeaseFacts
  <1> USE DEF LeaseTypes
  <1>1. /\ lease' = l
        /\ generation' = generation
        /\ told' \in [TabIds -> Nat]
        /\ \A u \in TabIds : told'[u] = IF u \in forget THEN 0 ELSE told[u]
    BY DEF KeepLease
  <1>2. LeaseIsLegitimate' /\ NoRoomWithoutOwner'
    BY <1>1 DEF LeaseIsLegitimate, NoRoomWithoutOwner
  <1>3. \A u \in Registered' : u \in TabIds
    BY RegisteredAreTabs
  <1>4. ASSUME NEW u \in Registered', told'[u] # 0
        PROVE  Accepts(u, told[u])' \/ u \in disabled'
    <2>1. u \in TabIds /\ u \notin forget /\ told'[u] = told[u]
      BY <1>1, <1>3, <1>4
    <2>2. CASE l # NoLease /\ l.tab = u /\ l.generation = told[u]
      BY <1>1, <2>1, <2>2 DEF Accepts, Holds
    <2>3. QED
      BY <1>4, <2>1, <2>2
  <1>5. l # NoLease => l.tab \in TabIds
    BY DEF Leases
  <1>6. SingleOwner'
    BY <1>1, <1>4, <1>5 DEF SingleOwner
  <1>7. QED
    BY <1>1, <1>2, <1>6 DEF LeaseFacts

LEMMA ElectOwnerFacts ==
  ASSUME LeaseTypes, NEW l \in Leases \cup {NoLease}, NEW forget \in SUBSET TabIds,
         ElectOwner(l, forget),
         l # NoLease => /\ l.tab \in (Registered' \cap Eligible') \ forget
                        /\ l.generation = generation
                        /\ openState' \notin {"none", "FAILED"}
                        /\ told[l.tab] = l.generation,
         \A u \in Registered' \ forget : told[u] # 0 =>
           \/ l # NoLease /\ l.tab = u /\ l.generation = told[u]
           \/ u \in disabled'
  PROVE  LeaseFacts
  <1>1. CASE l = NoLease /\ CanAttach(openState') /\ Eligible' # {}
    <2>1. PICK i \in DOMAIN tabs' : /\ tabs'[i] \in Eligible'
                                    /\ AttachOwner(tabs'[i], forget)
      BY <1>1 DEF ElectOwner
    <2>2. tabs'[i] \in TabIds /\ tabs'[i] \in Registered'
      BY <2>1, LenProperties, ElementOfSeq DEF LeaseTypes, Registered
    <2>3. \A u \in Registered' \ (forget \cup {tabs'[i]}) : told[u] # 0 => u \in disabled'
      BY <1>1
    <2>4. QED
      BY <1>1, <2>1, <2>2, <2>3, AttachOwnerFacts
  <1>2. CASE ~(l = NoLease /\ CanAttach(openState') /\ Eligible' # {})
    <2>1. KeepLease(l, forget)
      BY <1>2 DEF ElectOwner
    <2>2. l = NoLease => ~CanAttach(openState') \/ Registered' \cap Eligible' = {}
      BY <1>2
    <2>3. QED
      BY <2>1, <2>2, KeepLeaseFacts
  <1>3. QED
    BY <1>1, <1>2

LEMMA InvariantFromFacts ==
  ASSUME TypeOK, LeaseTypes, LeaseFacts,
         pending' \in [Kinds -> Seq(Nat)],
         issued' \in [Kinds -> Nat],
         carried' \in [Kinds -> Seq(Nat)]
  PROVE  IInv'
  BY DEF TypeOK, LeaseTypes, LeaseFacts, IInv

LEMMA QueuesKept ==
  ASSUME TypeOK, UNCHANGED queues
  PROVE  /\ pending' \in [Kinds -> Seq(Nat)]
         /\ issued' \in [Kinds -> Nat]
         /\ carried' \in [Kinds -> Seq(Nat)]
  BY DEF TypeOK, queues

-----------------------------------------------------------------------------
LEMMA InitIInv == Init => IInv
  <1> SUFFICES ASSUME Init PROVE IInv
    OBVIOUS
  <1>1. Registered = {}
    BY DEF Init, Registered
  <1>2. <<>> \in Seq(TabIds) /\ <<>> \in Seq(Nat)
    BY EmptySeq
  <1>3. TypeOK
    BY <1>2 DEF Init, TypeOK, OpenStates
  <1>4. LeaseIsLegitimate /\ NoRoomWithoutOwner /\ SingleOwner
    BY <1>1 DEF Init, LeaseIsLegitimate, NoRoomWithoutOwner, SingleOwner, CanAttach
  <1>5. QED
    BY <1>3, <1>4 DEF IInv

LEMMA SetWorkspaceOpenStateIInv ==
  ASSUME IInv, NEW state \in OpenStates \ {"none"}, SetWorkspaceOpenState(state)
  PROVE  IInv'
  <1> USE DEF IInv
  <1>1. /\ openState' = state
        /\ UNCHANGED <<tabs, hosts, disabled, queues>>
        /\ Registered' = Registered
        /\ Eligible' = Eligible
    BY DEF SetWorkspaceOpenState, Registered, Eligible
  <1>2. LeaseTypes
    BY <1>1 DEF LeaseTypes, TypeOK
  <1>3. CASE state = "FAILED"
    <2>1. KeepLease(NoLease, LeaseHolder)
      BY <1>3 DEF SetWorkspaceOpenState
    <2>2. LeaseHolder \in SUBSET TabIds
      BY DEF LeaseHolder, TypeOK, Leases
    <2>3. ~CanAttach(openState')
      BY <1>1, <1>3 DEF CanAttach
    <2>4. \A u \in Registered' \ LeaseHolder : told[u] # 0 => u \in disabled'
      BY <1>1 DEF SingleOwner, Accepts, Holds, LeaseHolder
    <2>5. LeaseFacts
      BY <1>2, <2>1, <2>2, <2>3, <2>4, KeepLeaseFacts
    <2>6. QED
      BY <1>1, <1>2, <2>5, InvariantFromFacts, QueuesKept
  <1>4. CASE state # "FAILED"
    <2>1. ElectOwner(lease, {})
      BY <1>4 DEF SetWorkspaceOpenState
    <2>2. lease # NoLease => /\ lease.tab \in (Registered' \cap Eligible') \ {}
                             /\ lease.generation = generation
                             /\ openState' \notin {"none", "FAILED"}
                             /\ told[lease.tab] = lease.generation
      BY <1>1, <1>4 DEF LeaseIsLegitimate, SingleOwner
    <2>3. \A u \in Registered' \ {} : told[u] # 0 =>
            \/ lease # NoLease /\ lease.tab = u /\ lease.generation = told[u]
            \/ u \in disabled'
      BY <1>1 DEF SingleOwner, Accepts, Holds
    <2>4. lease \in Leases \cup {NoLease} /\ {} \in SUBSET TabIds
      BY DEF TypeOK
    <2>5. LeaseFacts
      BY <1>2, <2>1, <2>2, <2>3, <2>4, ElectOwnerFacts
    <2>6. QED
      BY <1>1, <1>2, <2>5, InvariantFromFacts, QueuesKept
  <1>5. QED
    BY <1>3, <1>4

LEMMA RegisterTabIInv ==
  ASSUME IInv, NEW t \in TabIds, NEW canHost \in BOOLEAN, RegisterTab(t, canHost)
  PROVE  IInv'
  <1> USE DEF IInv
  <1>1. tabs' \in Seq(TabIds) /\ Registered' = Registered \cup {t}
    <2>1. CASE t \in Registered
      BY <2>1 DEF RegisterTab, TypeOK, Registered
    <2>2. CASE t \notin Registered
      <3>1. tabs' = Append(tabs, t)
        BY <2>2 DEF RegisterTab
      <3>2. tabs \in Seq(TabIds)
        BY DEF TypeOK
      <3>3. tabs' \in Seq(TabIds) /\ Elements(tabs') = Elements(tabs) \cup {t}
        BY <3>1, <3>2, RegisteredAfterAppend
      <3>4. QED
        BY <3>3, Zenon DEF Registered, Elements
    <2>3. QED
      BY <2>1, <2>2
  <1>2. /\ hosts' = IF canHost THEN hosts \cup {t} ELSE hosts \ {t}
        /\ disabled' = IF canHost THEN disabled \ {t} ELSE disabled
        /\ openState' = openState
        /\ UNCHANGED queues
    BY DEF RegisterTab
  <1>3. LeaseTypes
    BY <1>1, <1>2 DEF LeaseTypes, TypeOK
  <1>4. \A u \in Eligible : u # t => u \in Eligible'
    BY <1>2 DEF Eligible
  <1>5. CASE Holds(t) /\ canHost /\ CanAttach(openState)
    <2>1. AttachOwner(t, {})
      BY <1>5 DEF RegisterTab
    <2>2. t \in Registered' \cap Eligible' /\ CanAttach(openState')
      BY <1>1, <1>2, <1>5 DEF Eligible
    <2>3. \A u \in Registered' \ ({} \cup {t}) : told[u] # 0 => u \in disabled'
      BY <1>1, <1>2, <1>5 DEF SingleOwner, Accepts, Holds
    <2>4. LeaseFacts
      BY <1>3, <2>1, <2>2, <2>3, AttachOwnerFacts
    <2>5. QED
      BY <1>2, <1>3, <2>4, InvariantFromFacts, QueuesKept
  <1>6. CASE ~(Holds(t) /\ canHost /\ CanAttach(openState))
    <2> DEFINE l == IF Holds(t) THEN NoLease ELSE lease
    <2>1. ElectOwner(l, {t})
      BY <1>6 DEF RegisterTab
    <2>2. l # NoLease => l = lease /\ lease # NoLease /\ lease.tab # t
      BY DEF Holds
    <2>3. l # NoLease => /\ l.tab \in (Registered' \cap Eligible') \ {t}
                         /\ l.generation = generation
                         /\ openState' \notin {"none", "FAILED"}
                         /\ told[l.tab] = l.generation
      <3> HIDE DEF l
      <3>1. QED
        BY <1>1, <1>2, <1>4, <2>2 DEF LeaseIsLegitimate, SingleOwner
    <2>4. \A u \in Registered' \ {t} : told[u] # 0 =>
            \/ l # NoLease /\ l.tab = u /\ l.generation = told[u]
            \/ u \in disabled'
      <3> SUFFICES ASSUME NEW u \in Registered' \ {t}, told[u] # 0, u \notin disabled'
                   PROVE  l # NoLease /\ l.tab = u /\ l.generation = told[u]
        OBVIOUS
      <3>1. Accepts(u, told[u])
        BY <1>1, <1>2 DEF SingleOwner
      <3>2. QED
        BY <3>1 DEF Accepts, Holds
    <2>5. l \in Leases \cup {NoLease} /\ {t} \in SUBSET TabIds
      BY DEF TypeOK
    <2> HIDE DEF l
    <2>6. LeaseFacts
      BY <1>3, <2>1, <2>3, <2>4, <2>5, ElectOwnerFacts
    <2>7. QED
      BY <1>2, <1>3, <2>6, InvariantFromFacts, QueuesKept
  <1>7. QED
    BY <1>5, <1>6

LEMMA UnregisterTabIInv ==
  ASSUME IInv, NEW t \in TabIds, UnregisterTab(t)
  PROVE  IInv'
  <1> USE DEF IInv
  <1>1. PICK i \in DOMAIN tabs :
          /\ tabs[i] = t
          /\ tabs' = SubSeq(tabs, 1, i - 1) \o SubSeq(tabs, i + 1, Len(tabs))
    BY DEF UnregisterTab
  <1>2. /\ tabs' \in Seq(TabIds)
        /\ Registered' \subseteq Registered
        /\ Registered \subseteq Registered' \cup {t}
    <2>1. tabs \in Seq(TabIds)
      BY DEF TypeOK
    <2>2. /\ tabs' \in Seq(TabIds)
          /\ Elements(tabs') \subseteq Elements(tabs)
          /\ Elements(tabs) \subseteq Elements(tabs') \cup {tabs[i]}
      BY <1>1, <2>1, RegisteredAfterRemoval, ZenonT(30)
    <2>3. Registered = Elements(tabs) /\ Registered' = Elements(tabs')
      BY DEF Registered, Elements
    <2>4. QED
      BY <1>1, <2>2, <2>3
  <1>3. /\ hosts' = hosts \ {t}
        /\ disabled' = disabled \ {t}
        /\ openState' = openState
        /\ UNCHANGED queues
    BY DEF UnregisterTab
  <1>4. LeaseTypes
    BY <1>2, <1>3 DEF LeaseTypes, TypeOK
  <1>5. Eligible' = Eligible \ {t}
    BY <1>3 DEF Eligible
  <1>6. ASSUME NEW u \in Registered' \ {t}, told[u] # 0, u \notin disabled'
        PROVE  Accepts(u, told[u])
    BY <1>2, <1>3, <1>6 DEF SingleOwner
  <1>7. {t} \in SUBSET TabIds
    OBVIOUS
  <1>8. CASE Holds(t)
    <2>1. ElectOwner(NoLease, {t})
      BY <1>8 DEF UnregisterTab
    <2>2. \A u \in Registered' \ {t} : told[u] # 0 => u \in disabled'
      BY <1>6, <1>8 DEF Accepts, Holds
    <2>3. LeaseFacts
      BY <1>4, <1>7, <2>1, <2>2, ElectOwnerFacts
    <2>4. QED
      BY <1>3, <1>4, <2>3, InvariantFromFacts, QueuesKept
  <1>9. CASE ~Holds(t)
    <2>1. KeepLease(lease, {t})
      BY <1>9 DEF UnregisterTab
    <2>2. lease # NoLease => /\ lease.tab \in (Registered' \cap Eligible') \ {t}
                             /\ lease.generation = generation
                             /\ openState' \notin {"none", "FAILED"}
                             /\ told[lease.tab] = lease.generation
      BY <1>2, <1>3, <1>5, <1>9 DEF LeaseIsLegitimate, SingleOwner, Holds
    <2>3. lease = NoLease => ~CanAttach(openState') \/ Registered' \cap Eligible' = {}
      BY <1>2, <1>3, <1>5 DEF NoRoomWithoutOwner
    <2>4. \A u \in Registered' \ {t} : told[u] # 0 =>
            \/ lease # NoLease /\ lease.tab = u /\ lease.generation = told[u]
            \/ u \in disabled'
      BY <1>6 DEF Accepts, Holds
    <2>5. lease \in Leases \cup {NoLease}
      BY DEF TypeOK
    <2>6. LeaseFacts
      BY <1>4, <1>7, <2>1, <2>2, <2>3, <2>4, <2>5, KeepLeaseFacts
    <2>7. QED
      BY <1>3, <1>4, <2>6, InvariantFromFacts, QueuesKept
  <1>10. QED
    BY <1>8, <1>9

(* Steps that leave the tabs alone and end the lease: nobody but its holder,  *)
(* which is told or disabled, held a transport.                              *)
LEMMA ReplacedOwnerIInv ==
  ASSUME IInv, NEW forget \in SUBSET TabIds, ElectOwner(NoLease, forget),
         UNCHANGED <<tabs, hosts, openState, queues>>,
         disabled' \in SUBSET TabIds, disabled \subseteq disabled',
         \A u \in Registered : Holds(u) => u \in forget \cup disabled'
  PROVE  IInv'
  <1>1. TypeOK /\ SingleOwner
    BY DEF IInv
  <1>2. LeaseTypes
    BY <1>1 DEF LeaseTypes, TypeOK
  <1>3. \A u \in Registered' \ forget : told[u] # 0 => u \in disabled'
    BY <1>1 DEF SingleOwner, Accepts, Registered
  <1>4. LeaseFacts
    BY <1>2, <1>3, ElectOwnerFacts
  <1>5. QED
    BY <1>1, <1>2, <1>4, InvariantFromFacts, QueuesKept DEF queues

LEMMA OwnerLostIInv ==
  ASSUME IInv, NEW t \in TabIds, NEW g \in Nat, NEW status \in LostStatuses,
         OwnerLost(t, g, status)
  PROVE  IInv'
  <1>1. /\ Holds(t)
        /\ ElectOwner(NoLease, {t})
        /\ UNCHANGED <<tabs, hosts, openState, queues>>
        /\ disabled' \in SUBSET TabIds
        /\ disabled \subseteq disabled'
    BY DEF OwnerLost, Accepts, IInv, TypeOK
  <1>2. \A u \in Registered : Holds(u) => u \in {t} \cup disabled'
    BY <1>1 DEF Holds
  <1>3. QED
    BY <1>1, <1>2, ReplacedOwnerIInv

LEMMA ExpireOwnerLeaseIInv ==
  ASSUME IInv, ExpireOwnerLease
  PROVE  IInv'
  <1>1. /\ ElectOwner(NoLease, {})
        /\ UNCHANGED <<tabs, hosts, openState, queues>>
        /\ disabled' \in SUBSET TabIds
        /\ disabled \subseteq disabled'
    BY DEF ExpireOwnerLease, IInv, TypeOK, Leases
  <1>2. \A u \in Registered : Holds(u) => u \in {} \cup disabled'
    BY DEF Holds, ExpireOwnerLease
  <1>3. QED
    BY <1>1, <1>2, ReplacedOwnerIInv

(* Steps that keep the lease with its holder and its generation. *)
LEMMA SameOwnerIInv ==
  ASSUME IInv,
         UNCHANGED <<tabs, hosts, disabled, generation, openState, told>>,
         lease = NoLease => lease' = NoLease,
         lease # NoLease => /\ lease' \in Leases
                            /\ lease'.tab = lease.tab
                            /\ lease'.generation = lease.generation,
         pending' \in [Kinds -> Seq(Nat)],
         issued' \in [Kinds -> Nat],
         carried' \in [Kinds -> Seq(Nat)]
  PROVE  IInv'
  <1>1. Registered' = Registered /\ Eligible' = Eligible
    BY DEF Registered, Eligible
  <1>2. lease' = NoLease <=> lease = NoLease
    BY LeaseAssumption DEF Leases
  <1>3. TypeOK'
    BY DEF IInv, TypeOK
  <1>4. LeaseIsLegitimate'
    BY <1>1, <1>2 DEF IInv, LeaseIsLegitimate
  <1>5. NoRoomWithoutOwner'
    BY <1>1, <1>2 DEF IInv, NoRoomWithoutOwner
  <1>6. SingleOwner'
    BY <1>1, <1>2 DEF IInv, SingleOwner, Accepts, Holds
  <1>7. QED
    BY <1>3, <1>4, <1>5, <1>6 DEF IInv

LEMMA OwnerAttachedIInv ==
  ASSUME IInv, NEW t \in TabIds, NEW g \in Nat, OwnerAttached(t, g)
  PROVE  IInv'
  <1>1. lease # NoLease /\ lease \in Leases
    BY DEF OwnerAttached, Accepts, Holds, IInv, TypeOK
  <1>2. /\ lease' \in Leases
        /\ lease'.tab = lease.tab
        /\ lease'.generation = lease.generation
    BY <1>1 DEF OwnerAttached, Leases
  <1>3. \A k \in Kinds : carried[k] \o pending[k] \in Seq(Nat) /\ <<>> \in Seq(Nat)
    BY ConcatProperties, EmptySeq DEF IInv, TypeOK
  <1>4. /\ pending' \in [Kinds -> Seq(Nat)]
        /\ issued' \in [Kinds -> Nat]
        /\ carried' \in [Kinds -> Seq(Nat)]
    BY <1>3 DEF OwnerAttached, FlushPendingPackets, IInv, TypeOK
  <1>5. UNCHANGED <<tabs, hosts, disabled, generation, openState, told>>
    BY DEF OwnerAttached
  <1>6. QED
    BY <1>1, <1>2, <1>4, <1>5, SameOwnerIInv

LEMMA HeartbeatsIInv ==
  ASSUME IInv,
         HeartbeatOverdue \/ \E t \in TabIds, g \in Nat : OwnerHeartbeat(t, g)
  PROVE  IInv'
  <1>1. /\ lease # NoLease /\ lease \in Leases
        /\ \E b \in BOOLEAN : lease' = [lease EXCEPT !.overdue = b]
        /\ UNCHANGED <<tabs, hosts, disabled, generation, openState, told, queues>>
    BY DEF HeartbeatOverdue, OwnerHeartbeat, Accepts, Holds, IInv, TypeOK
  <1>2. /\ lease' \in Leases
        /\ lease'.tab = lease.tab
        /\ lease'.generation = lease.generation
    BY <1>1 DEF Leases
  <1>3. TypeOK /\ UNCHANGED queues
    BY <1>1 DEF IInv
  <1>4. QED
    BY <1>1, <1>2, <1>3, SameOwnerIInv, QueuesKept

LEMMA SendPacketIInv ==
  ASSUME IInv, NEW k \in Kinds, SendPacket(k)
  PROVE  IInv'
  <1>1. lease \in Leases \cup {NoLease}
    BY DEF IInv, TypeOK
  <1>2. /\ issued[k] + 1 \in Nat
        /\ Append(carried[k], issued[k] + 1) \in Seq(Nat)
        /\ Append(pending[k], issued[k] + 1) \in Seq(Nat)
    BY AppendProperties DEF IInv, TypeOK
  <1>3. /\ pending' \in [Kinds -> Seq(Nat)]
        /\ issued' \in [Kinds -> Nat]
        /\ carried' \in [Kinds -> Seq(Nat)]
    BY <1>2 DEF SendPacket, IInv, TypeOK
  <1>4. UNCHANGED <<tabs, hosts, disabled, generation, openState, lease, told>>
    BY DEF SendPacket
  <1>5. QED
    BY <1>1, <1>3, <1>4, SameOwnerIInv

LEMMA StutterIInv ==
  ASSUME IInv, UNCHANGED vars
  PROVE  IInv'
  <1>1. lease \in Leases \cup {NoLease} /\ TypeOK
    BY DEF IInv, TypeOK
  <1>2. UNCHANGED <<tabs, hosts, disabled, generation, openState, lease, told, queues>>
    BY DEF vars
  <1>3. QED
    BY <1>1, <1>2, SameOwnerIInv, QueuesKept

LEMMA NextIInv ==
  ASSUME IInv, [Next]_vars
  PROVE  IInv'
  <1>1. 1..generation \subseteq Nat
    BY DEF IInv, TypeOK
  <1>2. CASE \E state \in OpenStates \ {"none"} : SetWorkspaceOpenState(state)
    BY <1>2, SetWorkspaceOpenStateIInv
  <1>3. CASE \E t \in TabIds :
               UnregisterTab(t) \/ \E canHost \in BOOLEAN : RegisterTab(t, canHost)
    BY <1>3, RegisterTabIInv, UnregisterTabIInv
  <1>4. CASE \E t \in TabIds, g \in 1..generation :
               \/ OwnerAttached(t, g)
               \/ \E status \in LostStatuses : OwnerLost(t, g, status)
    BY <1>1, <1>4, OwnerAttachedIInv, OwnerLostIInv
  <1>5. CASE \/ HeartbeatOverdue
             \/ \E t \in TabIds, g \in 1..generation : OwnerHeartbeat(t, g)
    <2>1. HeartbeatOverdue \/ \E t \in TabIds, g \in Nat : OwnerHeartbeat(t, g)
      BY <1>1, <1>5
    <2>2. QED
      BY <2>1, HeartbeatsIInv
  <1>6. CASE ExpireOwnerLease
    BY <1>6, ExpireOwnerLeaseIInv
  <1>7. CASE \E k \in Kinds : SendPacket(k)
    BY <1>7, SendPacketIInv
  <1>8. CASE UNCHANGED vars
    BY <1>8, StutterIInv
  <1>9. QED
    BY <1>2, <1>3, <1>4, <1>5, <1>6, <1>7, <1>8 DEF Next

-----------------------------------------------------------------------------
(* The inductive invariant: a lease is legitimate, the tab that has it is the *)
(* one that was told so, and nobody else was.                                *)
THEOREM OwnerInvariant == Spec => []IInv
  <1>1. IInv /\ [Next]_vars => IInv'
    BY NextIInv
  <1>2. QED
    BY InitIInv, <1>1, PTL DEF Spec

(* The types. *)
THEOREM TypeCorrect == Spec => []TypeOK
  <1>1. IInv => TypeOK
    BY DEF IInv
  <1>2. QED
    BY <1>1, OwnerInvariant, PTL

(* Only a registered, capable tab ever has the lease. *)
THEOREM LeaseLegitimate == Spec => []LeaseIsLegitimate
  <1>1. IInv => LeaseIsLegitimate
    BY DEF IInv
  <1>2. QED
    BY <1>1, OwnerInvariant, PTL

(* The room has an owner whenever a tab could be one. *)
THEOREM RoomHasOwner == Spec => []NoRoomWithoutOwner
  <1>1. IInv => NoRoomWithoutOwner
    BY DEF IInv
  <1>2. QED
    BY <1>1, OwnerInvariant, PTL

(* One tab at a time holds the transport. *)
THEOREM OneOwner == Spec => []SingleOwner
  <1>1. IInv => SingleOwner
    BY DEF IInv
  <1>2. QED
    BY <1>1, OwnerInvariant, PTL

-----------------------------------------------------------------------------
(* What a step may do to the lease, to the generation and to the queues. *)
Ends == lease' \in {lease, NoLease} /\ generation' = generation
Leased == /\ generation' = generation + 1
          /\ \E t \in TabIds : lease' = NewLease(t)
Refreshed == /\ lease # NoLease
             /\ \E b \in BOOLEAN : lease' = [lease EXCEPT !.overdue = b]
             /\ generation' = generation
Attaches == /\ lease # NoLease
            /\ lease' = [lease EXCEPT !.attached = TRUE, !.overdue = FALSE]
            /\ generation' = generation

LEMMA ElectionOutcome ==
  ASSUME TypeOK', NEW l \in {lease, NoLease}, NEW forget, ElectOwner(l, forget)
  PROVE  Ends \/ Leased
  <1>1. \A i \in DOMAIN tabs' : tabs'[i] \in TabIds
    BY LenProperties, ElementOfSeq DEF TypeOK
  <1>2. QED
    BY <1>1 DEF ElectOwner, KeepLease, AttachOwner, Ends, Leased

LEMMA StepOutcome ==
  ASSUME TypeOK', [Next]_vars
  PROVE  \/ UNCHANGED queues /\ (Ends \/ Leased \/ Refreshed)
         \/ FlushPendingPackets /\ Attaches
         \/ UNCHANGED <<lease, generation>> /\ \E k \in Kinds : SendPacket(k)
  <1>1. ASSUME NEW state, SetWorkspaceOpenState(state)
        PROVE  UNCHANGED queues /\ (Ends \/ Leased)
    <2>1. UNCHANGED queues
      BY <1>1 DEF SetWorkspaceOpenState
    <2>2. Ends \/ Leased
      BY <1>1, ElectionOutcome DEF SetWorkspaceOpenState, KeepLease, Ends
    <2>3. QED
      BY <2>1, <2>2
  <1>2. ASSUME NEW t \in TabIds, NEW canHost \in BOOLEAN, RegisterTab(t, canHost)
        PROVE  UNCHANGED queues /\ (Ends \/ Leased)
    <2>1. UNCHANGED queues
      BY <1>2 DEF RegisterTab
    <2>2. CASE AttachOwner(t, {})
      BY <2>1, <2>2 DEF AttachOwner, Leased
    <2>3. CASE ElectOwner(IF Holds(t) THEN NoLease ELSE lease, {t})
      BY <2>1, <2>3, ElectionOutcome
    <2>4. QED
      BY <1>2, <2>2, <2>3 DEF RegisterTab
  <1>3. ASSUME NEW t \in TabIds, UnregisterTab(t)
        PROVE  UNCHANGED queues /\ (Ends \/ Leased)
    <2>1. UNCHANGED queues
      BY <1>3 DEF UnregisterTab
    <2>2. CASE ElectOwner(NoLease, {t})
      BY <2>1, <2>2, ElectionOutcome
    <2>3. CASE KeepLease(lease, {t})
      BY <2>1, <2>3 DEF KeepLease, Ends
    <2>4. QED
      BY <1>3, <2>2, <2>3 DEF UnregisterTab
  <1>4. ASSUME NEW t \in TabIds, NEW g, OwnerAttached(t, g)
        PROVE  FlushPendingPackets /\ Attaches
    BY <1>4 DEF OwnerAttached, Attaches, Accepts, Holds
  <1>5. ASSUME NEW t \in TabIds, NEW g, NEW status, OwnerLost(t, g, status)
        PROVE  UNCHANGED queues /\ (Ends \/ Leased)
    <2>1. UNCHANGED queues /\ ElectOwner(NoLease, {t})
      BY <1>5 DEF OwnerLost
    <2>2. QED
      BY <2>1, ElectionOutcome
  <1>6. ASSUME HeartbeatOverdue \/ \E t \in TabIds, g \in 1..generation : OwnerHeartbeat(t, g)
        PROVE  UNCHANGED queues /\ Refreshed
    BY <1>6 DEF HeartbeatOverdue, OwnerHeartbeat, Accepts, Holds, Refreshed
  <1>7. ASSUME ExpireOwnerLease
        PROVE  UNCHANGED queues /\ (Ends \/ Leased)
    <2>1. UNCHANGED queues /\ ElectOwner(NoLease, {})
      BY <1>7 DEF ExpireOwnerLease
    <2>2. QED
      BY <2>1, ElectionOutcome
  <1>8. ASSUME NEW k \in Kinds, SendPacket(k)
        PROVE  UNCHANGED <<lease, generation>>
    BY <1>8 DEF SendPacket
  <1>9. ASSUME UNCHANGED vars
        PROVE  UNCHANGED queues /\ Ends
    BY <1>9 DEF vars, Ends
  <1>10. QED
    BY <1>1, <1>2, <1>3, <1>4, <1>5, <1>6, <1>7, <1>8, <1>9 DEF Next

(* Generations only grow, and every new lease has one that nobody had.       *)
THEOREM FreshGenerations == Spec => GenerationsAreFresh
  <1> DEFINE Fresh == /\ generation' >= generation
                      /\ lease' # NoLease /\ (lease = NoLease \/ lease'.tab # lease.tab
                                              \/ (lease.attached /\ ~lease'.attached))
                           => lease'.generation > generation
  <1>1. ASSUME IInv, IInv', [Next]_vars
        PROVE  Fresh
    <2>1. generation \in Nat /\ lease \in Leases \cup {NoLease} /\ TypeOK'
      BY <1>1 DEF IInv, TypeOK
    <2>2. CASE Leased
      BY <2>1, <2>2, NewLeaseType DEF Leased
    <2>3. CASE Ends
      BY <2>1, <2>3 DEF Ends
    <2>4. CASE Refreshed
      BY <2>1, <2>4 DEF Refreshed, Leases
    <2>5. CASE Attaches
      BY <2>1, <2>5 DEF Attaches, Leases
    <2>6. CASE UNCHANGED <<lease, generation>>
      BY <2>1, <2>6
    <2>7. QED
      BY <1>1, <2>1, <2>2, <2>3, <2>4, <2>5, <2>6, StepOutcome
  <1>2. IInv /\ IInv' /\ [Next]_vars => [Fresh]_vars
    BY <1>1
  <1>3. QED
    BY <1>2, OwnerInvariant, PTL DEF GenerationsAreFresh, Spec

-----------------------------------------------------------------------------
(* Nothing is lost, repeated or overtaken on its way to the owner.           *)
Numbers(n) == [i \in 1..n |-> i]

LEMMA NumbersGrow ==
  ASSUME NEW n \in Nat
  PROVE  Numbers(n + 1) \in Seq(Nat) /\ Append(Numbers(n), n + 1) = Numbers(n + 1)
  <1>1. Numbers(n) \in Seq(Nat) /\ Len(Numbers(n)) = n
    BY DEF Numbers
  <1>2. Numbers(n + 1) \in Seq(Nat) /\ Len(Numbers(n + 1)) = n + 1
    BY DEF Numbers
  <1>3. /\ Append(Numbers(n), n + 1) \in Seq(Nat)
        /\ Len(Append(Numbers(n), n + 1)) = n + 1
        /\ \A i \in 1..n : Append(Numbers(n), n + 1)[i] = Numbers(n)[i]
        /\ Append(Numbers(n), n + 1)[n + 1] = n + 1
    BY <1>1, AppendProperties
  <1>4. \A i \in 1..(n + 1) : Append(Numbers(n), n + 1)[i] = Numbers(n + 1)[i]
    BY <1>3 DEF Numbers
  <1>5. QED
    BY <1>1, <1>2, <1>3, <1>4, SeqEqual

LEMMA AppendToConcat ==
  ASSUME NEW s \in Seq(Nat), NEW t \in Seq(Nat), NEW e \in Nat
  PROVE  s \o Append(t, e) = Append(s \o t, e)
  <1>1. Append(t, e) = t \o <<e>> /\ <<e>> \in Seq(Nat)
    BY AppendIsConcat
  <1>2. s \o t \in Seq(Nat)
    BY ConcatProperties
  <1>3. Append(s \o t, e) = (s \o t) \o <<e>>
    BY <1>2, AppendIsConcat
  <1>4. (s \o t) \o <<e>> = s \o (t \o <<e>>)
    BY <1>1, ConcatAssociative
  <1>5. QED
    BY <1>1, <1>3, <1>4

LEMMA SendPacketInOrder ==
  ASSUME TypeOK, PacketsInOrder, NEW k \in Kinds, SendPacket(k)
  PROVE  PacketsInOrder'
  <1>1. /\ issued[k] \in Nat /\ carried[k] \in Seq(Nat) /\ pending[k] \in Seq(Nat)
        /\ lease' = lease
        /\ issued' = [issued EXCEPT ![k] = @ + 1]
    BY DEF TypeOK, SendPacket
  <1>2. carried[k] \o pending[k] = Numbers(issued[k])
    BY DEF PacketsInOrder, Numbers
  <1>3. \A j \in Kinds : j # k =>
          carried'[j] = carried[j] /\ pending'[j] = pending[j] /\ issued'[j] = issued[j]
    BY DEF SendPacket, TypeOK
  <1>4. issued'[k] = issued[k] + 1
    BY DEF SendPacket, TypeOK
  <1>5. carried'[k] \o pending'[k] = Numbers(issued'[k])
    <2>1. CASE lease # NoLease /\ lease.attached
      <3>1. pending[k] = <<>> /\ pending'[k] = <<>>
        BY <2>1 DEF PacketsInOrder, SendPacket
      <3>2. carried[k] = Numbers(issued[k])
        <4>1. carried[k] \o <<>> = carried[k]
          BY <1>1, ConcatEmptySeq
        <4>2. QED
          BY <1>2, <3>1, <4>1
      <3>3. carried'[k] = Append(carried[k], issued[k] + 1)
        BY <2>1 DEF SendPacket, TypeOK
      <3>4. carried'[k] = Numbers(issued[k] + 1) /\ Numbers(issued[k] + 1) \in Seq(Nat)
        <4>1. /\ Numbers(issued[k] + 1) \in Seq(Nat)
              /\ Append(Numbers(issued[k]), issued[k] + 1) = Numbers(issued[k] + 1)
          BY <1>1, NumbersGrow
        <4>2. QED
          BY <3>2, <3>3, <4>1
      <3>5. Numbers(issued[k] + 1) \o <<>> = Numbers(issued[k] + 1)
        BY <3>4, ConcatEmptySeq
      <3>6. QED
        BY <1>4, <3>1, <3>4, <3>5
    <2>2. CASE ~(lease # NoLease /\ lease.attached)
      <3>1. /\ carried'[k] = carried[k]
            /\ pending'[k] = Append(pending[k], issued[k] + 1)
        BY <2>2 DEF SendPacket, TypeOK
      <3>2. carried[k] \o Append(pending[k], issued[k] + 1)
              = Append(Numbers(issued[k]), issued[k] + 1)
        <4>1. issued[k] + 1 \in Nat
          BY <1>1
        <4>2. carried[k] \o Append(pending[k], issued[k] + 1)
                = Append(carried[k] \o pending[k], issued[k] + 1)
          BY <1>1, <4>1, AppendToConcat
        <4>3. QED
          BY <1>2, <4>2
      <3>3. Append(Numbers(issued[k]), issued[k] + 1) = Numbers(issued[k] + 1)
        BY <1>1, NumbersGrow
      <3>4. carried'[k] \o pending'[k] = Append(Numbers(issued[k]), issued[k] + 1)
        BY <3>1, <3>2
      <3>5. Numbers(issued'[k]) = Numbers(issued[k] + 1)
        BY <1>4
      <3>6. QED
        BY <3>3, <3>4, <3>5, Zenon
    <2>3. QED
      BY <2>1, <2>2
  <1>6. \A j \in Kinds : carried'[j] \o pending'[j] = Numbers(issued'[j])
    BY <1>3, <1>5 DEF PacketsInOrder, Numbers
  <1>7. \A j \in Kinds : lease' # NoLease /\ lease'.attached => pending'[j] = <<>>
    BY <1>1, <1>3 DEF PacketsInOrder, SendPacket, TypeOK
  <1>8. QED
    BY <1>6, <1>7 DEF PacketsInOrder, Numbers

LEMMA FlushInOrder ==
  ASSUME TypeOK, PacketsInOrder, FlushPendingPackets
  PROVE  PacketsInOrder'
  <1>1. ASSUME NEW k \in Kinds
        PROVE  /\ pending'[k] = <<>> /\ issued'[k] = issued[k]
               /\ carried'[k] = carried[k] \o pending[k]
               /\ carried'[k] \in Seq(Nat)
    BY ConcatProperties DEF FlushPendingPackets, TypeOK
  <1>2. ASSUME NEW k \in Kinds
        PROVE  carried'[k] \o pending'[k] = [i \in 1..issued'[k] |-> i]
    BY <1>1, ConcatEmptySeq DEF PacketsInOrder
  <1>3. QED
    BY <1>1, <1>2 DEF PacketsInOrder

LEMMA QueuesKeptInOrder ==
  ASSUME IInv, PacketsInOrder, UNCHANGED queues, Ends \/ Leased \/ Refreshed
  PROVE  PacketsInOrder'
  <1>1. lease' # NoLease /\ lease'.attached => lease # NoLease /\ lease.attached
    <2>1. CASE Ends
      BY <2>1 DEF Ends
    <2>2. CASE Leased
      BY <2>2 DEF Leased, NewLease
    <2>3. CASE Refreshed
      BY <2>3 DEF Refreshed, IInv, TypeOK, Leases
    <2>4. QED
      BY <2>1, <2>2, <2>3
  <1>2. QED
    BY <1>1 DEF PacketsInOrder, queues

(* Packets are carried in order, none is lost and none repeated. *)
THEOREM PacketOrder == Spec => []PacketsInOrder
  <1>1. Init => PacketsInOrder
    <2> SUFFICES ASSUME Init, NEW k \in Kinds
                 PROVE  carried[k] \o pending[k] = [i \in 1..issued[k] |-> i]
                        /\ (lease # NoLease /\ lease.attached => pending[k] = <<>>)
      BY DEF PacketsInOrder
    <2>1. carried[k] = <<>> /\ pending[k] = <<>> /\ issued[k] = 0 /\ lease = NoLease
      BY DEF Init
    <2>2. <<>> \o <<>> = <<>> /\ <<>> = [i \in 1..0 |-> i]
      BY EmptySeq, ConcatEmptySeq
    <2>3. QED
      BY <2>1, <2>2
  <1>2. ASSUME IInv, IInv', PacketsInOrder, [Next]_vars
        PROVE  PacketsInOrder'
    <2>1. TypeOK /\ TypeOK'
      BY <1>2 DEF IInv
    <2>2. CASE UNCHANGED queues /\ (Ends \/ Leased \/ Refreshed)
      BY <1>2, <2>2, QueuesKeptInOrder
    <2>3. CASE FlushPendingPackets
      BY <1>2, <2>1, <2>3, FlushInOrder
    <2>4. CASE \E k \in Kinds : SendPacket(k)
      BY <1>2, <2>1, <2>4, SendPacketInOrder
    <2>5. QED
      BY <1>2, <2>1, <2>2, <2>3, <2>4, StepOutcome
  <1>3. IInv /\ IInv' /\ PacketsInOrder /\ [Next]_vars => PacketsInOrder'
    BY <1>2
  <1>4. QED
    BY <1>1, <1>3, OwnerInvariant, PTL DEF Spec

-----------------------------------------------------------------------------
(* The coordinator among its tabs and ports. *)

(* What the steps of RoomTransportOwner need here: its invariant, and that a *)
(* lease is never without a generation.                                     *)
LeaseNumbered == lease # NoLease => generation \in Nat \ {0}
OwnerInv == IInv /\ LeaseNumbered

LEMMA OwnerInvStep ==
  ASSUME OwnerInv, [Next]_vars
  PROVE  OwnerInv'
  <1>1. IInv'
    BY NextIInv DEF OwnerInv
  <1>2. generation \in Nat /\ TypeOK'
    BY <1>1 DEF OwnerInv, IInv, TypeOK
  <1>3. LeaseNumbered'
    <2>1. CASE Leased
      BY <1>2, <2>1 DEF Leased, LeaseNumbered
    <2>2. CASE Ends \/ Refreshed \/ Attaches \/ UNCHANGED <<lease, generation>>
      BY <2>2 DEF Ends, Refreshed, Attaches, LeaseNumbered, OwnerInv
    <2>3. QED
      BY <1>2, <2>1, <2>2, StepOutcome
  <1>4. QED
    BY <1>1, <1>3 DEF OwnerInv

-----------------------------------------------------------------------------
(* The steps of the pages leave the coordinator alone. *)
LEMMA PageStepsLeaveOwner ==
  ASSUME \/ \E p \in Pages : LeaderChanges(p)
         \/ \E t \in TabIds :
              \/ Activate(t) \/ SessionLost(t) \/ Read(t) \/ PageGone(t) \/ CloseSession(t)
              \/ \E p \in Keys : ChannelOpens(t, p) \/ ChannelBreaks(t, p)
  PROVE  UNCHANGED vars
  BY DEF LeaderChanges, Activate, SessionLost, Read, PageGone, CloseSession, ChannelOpens,
         ChannelBreaks

LEMMA DisconnectIsOwnerStep ==
  ASSUME NEW t \in TabIds, NEW i, Disconnect(t, i)
  PROVE  [Next]_vars
  BY DEF Disconnect, Next

LEMMA ReceiveIsOwnerStep ==
  ASSUME OwnerInv, NEW t \in TabIds, Receive(t)
  PROVE  [Next]_vars
  <1>1. CASE ReceiveHello(t)
    BY <1>1 DEF ReceiveHello, Next
  <1>2. CASE ReceiveAttached(t)
    <2>1. CASE OwnerAttached(t, Message(t).gen)
      <3>1. Message(t).gen = generation /\ lease # NoLease
        BY <2>1 DEF OwnerAttached, Accepts, Holds, OwnerInv, IInv, LeaseIsLegitimate
      <3>2. generation \in 1..generation
        BY <3>1 DEF OwnerInv, LeaseNumbered
      <3>3. QED
        BY <2>1, <3>1, <3>2 DEF Next
    <2>2. QED
      BY <1>2, <2>1 DEF ReceiveAttached
  <1>3. CASE ReceiveBootstrap(t) \/ ReceivePeerAttached(t) \/ ReceivePeerDetached(t)
             \/ ReceiveClose(t)
    BY <1>3 DEF ReceiveBootstrap, ReceivePeerAttached, ReceivePeerDetached, ReceiveClose
  <1>4. QED
    BY <1>1, <1>2, <1>3 DEF Receive

LEMMA RoomIsOwnerStep ==
  ASSUME \/ \E state \in Outcomes : WorkspaceOpens(state)
         \/ RuntimeStarts \/ Commit
         \/ \E p \in Keys : Replay(p) \/ RetryReplay(p)
  PROVE  [Next]_vars
  <1>1. "crdt" \in Kinds
    BY WorkerAssumption
  <1>2. CASE \E state \in Outcomes : WorkspaceOpens(state)
    <2>1. PICK state \in Outcomes : WorkspaceOpens(state)
      BY <1>2
    <2>2. state \in OpenStates \ {"none"}
      BY WorkerAssumption DEF OpenStates
    <2>3. QED
      BY <2>1, <2>2 DEF WorkspaceOpens, Next
  <1>3. CASE RuntimeStarts
    BY <1>3 DEF RuntimeStarts
  <1>4. CASE Commit
    BY <1>1, <1>4 DEF Commit, SendBatches, Next
  <1>5. CASE \E p \in Keys : Replay(p) \/ RetryReplay(p)
    BY <1>1, <1>5 DEF Replay, RetryReplay, SendBatches, Next
  <1>6. QED
    BY <1>2, <1>3, <1>4, <1>5

LEMMA WorkerStepIsOwnerStep ==
  ASSUME OwnerInv, [WorkerNext]_workerVars
  PROVE  [Next]_vars
  <1>1. CASE \E t \in TabIds : Receive(t) \/ \E i \in Ports : PortCloses(t, i) \/ PortCollected(t, i)
    BY <1>1, ReceiveIsOwnerStep, DisconnectIsOwnerStep DEF PortCloses, PortCollected
  <1>2. CASE UNCHANGED workerVars
    BY <1>2 DEF workerVars
  <1>3. QED
    BY <1>1, <1>2, PageStepsLeaveOwner, RoomIsOwnerStep DEF WorkerNext

(* The coordinator keeps its invariant, whatever tabs and ports do.          *)
THEOREM WorkerKeepsOwnerInvariant == WorkerSpec => []OwnerInv
  <1>1. WorkerInit => OwnerInv
    BY InitIInv DEF WorkerInit, Init, OwnerInv, LeaseNumbered
  <1>2. OwnerInv /\ [WorkerNext]_workerVars => OwnerInv'
    BY WorkerStepIsOwnerStep, OwnerInvStep
  <1>3. QED
    BY <1>1, <1>2, PTL DEF WorkerSpec

(* Among tabs that come, go, change their role and port, and ports whose end  *)
(* is noticed late, the coordinator takes its own steps only, so all that is  *)
(* proved of it holds here.                                                  *)
LEMMA WorkerImplementsOwner == WorkerSpec => Spec
  <1>1. WorkerInit => Init
    BY DEF WorkerInit
  <1>2. OwnerInv /\ [WorkerNext]_workerVars => [Next]_vars
    BY WorkerStepIsOwnerStep
  <1>3. QED
    BY <1>1, <1>2, WorkerKeepsOwnerInvariant, PTL DEF WorkerSpec, Spec

(* Packets are carried once and in order although tabs change their ports. *)
THEOREM PacketOrderAmongPorts == WorkerSpec => []PacketsInOrder
  BY WorkerImplementsOwner, PacketOrder, PTL

-----------------------------------------------------------------------------
(* The part of a tab that tells what it believes: its role, its port and the *)
(* generation, with what is under way.                                       *)
Types == {"hello", "bootstrap", "attached", "peer-attached", "peer-detached", "close"}
PortStates == {"none", "open", "session", "closed", "gone"}
Posted == [type: Types, port: 0..MaxPorts, gen: Nat, peers: SUBSET Keys]

TabShape(a) ==
  /\ DOMAIN a = {"life", "port", "server", "lost", "gen", "channel", "announced", "unsent",
                 "sent", "up", "down"}
  /\ a.port \in 0..MaxPorts
  /\ a.gen \in Nat
  /\ a.announced \subseteq Keys
  /\ a.up \in Seq(Posted)
  /\ a.down \in Seq(ToTab)

(* v is u with further messages from port p, no hello and no close. *)
Continues(u, v, p) ==
  /\ Len(u) <= Len(v)
  /\ \A i \in 1..Len(u) : v[i] = u[i]
  /\ \A i \in (Len(u) + 1)..Len(v) : v[i].port = p /\ v[i].type \notin {"hello", "close"}

(* b is a after some work of its adapter. *)
Follows(a, b) ==
  /\ TabShape(a) /\ TabShape(b)
  /\ b.life = a.life /\ b.port = a.port /\ b.lost = a.lost
  /\ b.gen = a.gen /\ b.down = a.down
  /\ Continues(a.up, b.up, a.port)

LEMMA FollowsItself ==
  ASSUME NEW a, TabShape(a)
  PROVE  Follows(a, a)
  BY LenProperties DEF Follows, TabShape, Continues

LEMMA FollowsTransitive ==
  ASSUME NEW a, NEW b, NEW c, Follows(a, b), Follows(b, c)
  PROVE  Follows(a, c)
  <1>1. Len(a.up) \in Nat /\ Len(b.up) \in Nat /\ Len(c.up) \in Nat
    BY LenProperties DEF Follows, TabShape
  <1>2. Continues(a.up, c.up, a.port)
    BY <1>1 DEF Follows, Continues
  <1>3. QED
    BY <1>2 DEF Follows

LEMMA SayFollows ==
  ASSUME NEW a, TabShape(a), NEW about \in SUBSET Keys,
         NEW type \in Types \ {"hello", "close"}
  PROVE  Follows(a, Say(a, type, about))
  <1> DEFINE m == [type |-> type, port |-> a.port, gen |-> a.gen, peers |-> about]
  <1>1. CASE a.lost
    BY <1>1, FollowsItself DEF Say
  <1>2. CASE ~a.lost
    <2>1. m \in Posted /\ m.port = a.port /\ m.type \notin {"hello", "close"}
      BY DEF TabShape, Posted
    <2>2. Say(a, type, about) = [a EXCEPT !.up = Append(a.up, m)]
      BY <1>2 DEF Say
    <2>3. /\ Append(a.up, m) \in Seq(Posted)
          /\ Len(Append(a.up, m)) = Len(a.up) + 1
          /\ \A i \in 1..Len(a.up) : Append(a.up, m)[i] = a.up[i]
          /\ Append(a.up, m)[Len(a.up) + 1] = m
      BY <2>1, AppendProperties DEF TabShape
    <2>4. Len(a.up) \in Nat
      BY LenProperties DEF TabShape
    <2> HIDE DEF m
    <2>5. Continues(a.up, Append(a.up, m), a.port)
      BY <2>1, <2>3, <2>4 DEF Continues
    <2>6. QED
      BY <2>2, <2>3, <2>5 DEF Follows, TabShape
  <1>3. QED
    BY <1>1, <1>2

LEMMA SayOfFollows ==
  ASSUME NEW a, TabShape(a), NEW about \in SUBSET Keys,
         NEW type \in Types \ {"hello", "close"}
  PROVE  Follows(a, SayOf(a, type, about))
  BY SayFollows, FollowsItself DEF SayOf

(* The bookkeeping of channels and packets does not touch what is followed.  *)
LEMMA BookkeepingFollows ==
  ASSUME NEW a, TabShape(a), NEW announced \in SUBSET Keys, NEW channel, NEW unsent, NEW sent
  PROVE  /\ Follows(a, [a EXCEPT !.announced = announced, !.channel = channel])
         /\ Follows(a, [a EXCEPT !.announced = announced])
         /\ Follows(a, [a EXCEPT !.channel = channel])
         /\ Follows(a, [a EXCEPT !.sent = sent, !.unsent = unsent])
         /\ Follows(a, [a EXCEPT !.unsent = unsent])
  BY LenProperties DEF TabShape, Follows, Continues

LEMMA AnnounceFollows ==
  ASSUME NEW a, TabShape(a)
  PROVE  Follows(a, Announce(a))
  <1> DEFINE new == Known(a) \ a.announced
             b == [a EXCEPT !.announced = a.announced \cup new]
  <1>1. new \subseteq Keys /\ a.announced \cup new \subseteq Keys
    BY DEF Known, TabShape
  <1>2. Follows(a, b)
    BY <1>1, BookkeepingFollows
  <1>3. Follows(b, SayOf(b, "peer-attached", new))
    <2>1. TabShape(b)
      BY <1>2 DEF Follows
    <2>2. "peer-attached" \in Types \ {"hello", "close"} /\ new \in SUBSET Keys
      BY <1>1 DEF Types
    <2> HIDE DEF b, new
    <2>3. QED
      BY <2>1, <2>2, SayOfFollows
  <1>4. CASE a.gen = 0
    BY <1>4, FollowsItself DEF Announce
  <1>5. CASE a.gen # 0
    <2>1. Announce(a) = SayOf(b, "peer-attached", new)
      BY <1>5 DEF Announce
    <2>2. QED
      BY <1>2, <1>3, <2>1, FollowsTransitive
  <1>6. QED
    BY <1>4, <1>5

LEMMA DropFollows ==
  ASSUME NEW a, TabShape(a), NEW failed
  PROVE  Follows(a, Drop(a, failed))
  <1> DEFINE channel == [p \in Keys |-> IF p \in failed THEN "dropped" ELSE a.channel[p]]
             b == [a EXCEPT !.announced = a.announced \ failed, !.channel = channel]
  <1>1. a.announced \ failed \subseteq Keys /\ failed \cap a.announced \subseteq Keys
    BY DEF TabShape
  <1>2. Follows(a, b)
    BY <1>1, BookkeepingFollows
  <1>3. Follows(b, SayOf(b, "peer-detached", failed \cap a.announced))
    <2>1. TabShape(b)
      BY <1>2 DEF Follows
    <2>2. "peer-detached" \in Types \ {"hello", "close"} /\ failed \cap a.announced \in SUBSET Keys
      BY <1>1 DEF Types
    <2> HIDE DEF b
    <2>3. QED
      BY <2>1, <2>2, SayOfFollows
  <1>4. Drop(a, failed) = SayOf(b, "peer-detached", failed \cap a.announced)
    BY DEF Drop, TabShape
  <1>5. QED
    BY <1>2, <1>3, <1>4, FollowsTransitive

LEMMA SendFollows ==
  ASSUME NEW a, TabShape(a), NEW ms
  PROVE  Follows(a, Send(a, ms))
  <1> DEFINE b == Drop(a, Failed(a, ms))
             sent == [p \in Keys |-> b.sent[p] \o Over(a, ms, p)]
             unsent == b.unsent \o Waiting(a, ms)
  <1>1. Follows(a, b) /\ TabShape(b)
    BY DropFollows DEF Follows
  <1>2. Send(a, ms) = [b EXCEPT !.sent = sent, !.unsent = unsent]
    BY <1>1 DEF Send, TabShape
  <1> HIDE DEF b, sent, unsent
  <1>3. Follows(b, [b EXCEPT !.sent = sent, !.unsent = unsent])
    <2>1. {} \in SUBSET Keys
      OBVIOUS
    <2>2. QED
      BY <1>1, <2>1, BookkeepingFollows
  <1>4. QED
    BY <1>1, <1>2, <1>3, FollowsTransitive

LEMMA FlushFollows ==
  ASSUME NEW a, TabShape(a)
  PROVE  Follows(a, Flush(a))
  <1> DEFINE b == [a EXCEPT !.unsent = <<>>]
  <1>1. Follows(a, b)
    <2>1. {} \in SUBSET Keys
      OBVIOUS
    <2>2. QED
      BY <2>1, BookkeepingFollows
  <1>2. Follows(b, Send(b, Current(a)))
    BY <1>1, SendFollows DEF Follows
  <1>3. Flush(a) = IF a.gen = 0 THEN a ELSE Send(b, Current(a))
    BY DEF Flush
  <1>4. QED
    BY <1>1, <1>2, <1>3, FollowsItself, FollowsTransitive

-----------------------------------------------------------------------------
(* The invariant.  a is a tab, h the port it is registered with, c the        *)
(* worker's ends of its ports, g the generation it has last been told of.     *)
Live(a, h) == a.life = "live" /\ a.port # 0 /\ h = a.port

IsHello(a, i) == a.port # 0 /\ a.up[i].type = "hello" /\ a.up[i].port = a.port

PortsOK(a, h, c) ==
  /\ TabShape(a)
  /\ h <= a.port
  /\ \A i \in DOMAIN a.up : a.up[i].port <= a.port
  /\ a.life = "live" => \A i \in DOMAIN a.up : a.up[i].type # "close"
  /\ Live(a, h) => c[a.port] \in {"open", "session"}
  /\ \A i \in DOMAIN a.up : IsHello(a, i) =>
       /\ a.gen = 0 /\ a.down = <<>> /\ h # a.port
       /\ \A j \in DOMAIN a.up : IsHello(a, j) => j = i

(* The tab holds generation g once it has read its messages. *)
Orders(d) == {i \in DOMAIN d : d[i].packet = 0}
Holding(a, g) ==
  /\ Orders(a.down) = {} => a.gen = g
  /\ \A i \in Orders(a.down) : (\A j \in Orders(a.down) : j <= i) => a.down[i].gen = g

TabOK(a, h, c, g) ==
  /\ PortsOK(a, h, c)
  /\ Live(a, h) /\ ~a.lost => Holding(a, g)

WorkerInv ==
  /\ disabled = {}
  /\ boot \in {"no", "opening"} => openState = "none"
  /\ conn \in [TabIds -> [Ports -> PortStates]]
  /\ helloPort \in [TabIds -> 0..MaxPorts]
  /\ DOMAIN tab = TabIds
  /\ \A t \in TabIds : /\ helloPort[t] # 0 => t \in Registered
                       /\ TabOK(tab[t], helloPort[t], conn[t], told[t])

LEMMA WorkerInvInit == WorkerInit => WorkerInv
  <1> SUFFICES ASSUME WorkerInit PROVE WorkerInv
    OBVIOUS
  <1>1. <<>> \in Seq(Posted) /\ <<>> \in Seq(ToTab) /\ DOMAIN <<>> = {}
    BY EmptySeq
  <1>2. MaxPorts \in Nat
    BY WorkerAssumption
  <1>3. ASSUME NEW t \in TabIds
        PROVE  TabOK(tab[t], helloPort[t], conn[t], told[t])
    <2>1. tab[t] = NewTab /\ helloPort[t] = 0
      BY DEF WorkerInit
    <2>2. TabShape(NewTab)
      BY <1>1, <1>2 DEF NewTab, TabShape
    <2>3. NewTab.port = 0 /\ NewTab.up = <<>>
      BY DEF NewTab
    <2>4. QED
      BY <1>1, <2>1, <2>2, <2>3 DEF TabOK, PortsOK, Live, IsHello
  <1>4. conn \in [TabIds -> [Ports -> PortStates]]
    <2>1. [i \in Ports |-> "none"] \in [Ports -> PortStates]
      BY DEF PortStates
    <2>2. QED
      BY <2>1 DEF WorkerInit
  <1>5. helloPort \in [TabIds -> 0..MaxPorts] /\ \A t \in TabIds : helloPort[t] = 0
    BY <1>2 DEF WorkerInit
  <1>6. QED
    BY <1>3, <1>4, <1>5 DEF WorkerInit, WorkerInv, Init

-----------------------------------------------------------------------------
(* What the steps of a page make of its tab. *)
LEMMA FollowsKeepsTab ==
  ASSUME NEW a, NEW b, NEW h, NEW c, NEW g, TabOK(a, h, c, g), Follows(a, b)
  PROVE  TabOK(b, h, c, g)
  <1>1. /\ Len(a.up) \in Nat /\ Len(b.up) \in Nat
        /\ DOMAIN a.up = 1..Len(a.up) /\ DOMAIN b.up = 1..Len(b.up)
        /\ a.port \in Nat
    BY LenProperties, WorkerAssumption DEF Follows, TabShape
  <1>2. \A i \in DOMAIN b.up : \/ i \in DOMAIN a.up /\ b.up[i] = a.up[i]
                               \/ /\ b.up[i].port = a.port
                                  /\ b.up[i].type \notin {"hello", "close"}
    BY <1>1 DEF Follows, Continues
  <1>3. PortsOK(b, h, c)
    BY <1>1, <1>2 DEF TabOK, PortsOK, Follows, Live, IsHello
  <1>4. QED
    BY <1>3 DEF TabOK, Follows, Live, Holding

LEMMA ReadKeepsTab ==
  ASSUME NEW a, NEW h, NEW c, NEW g, TabOK(a, h, c, g), a.down # <<>>
  PROVE  /\ Head(a.down).packet = 0 =>
               TabOK([a EXCEPT !.down = Tail(a.down), !.gen = Head(a.down).gen], h, c, g)
         /\ Head(a.down).packet # 0 => TabOK([a EXCEPT !.down = Tail(a.down)], h, c, g)
  <1> DEFINE d == a.down
  <1>1. TabShape(a) /\ d \in Seq(ToTab) /\ d # <<>>
    BY DEF TabOK, PortsOK, TabShape
  <1>2. /\ Tail(d) \in Seq(ToTab)
        /\ Len(Tail(d)) = Len(d) - 1
        /\ \A i \in 1..Len(Tail(d)) : Tail(d)[i] = d[i + 1]
        /\ Head(d) = d[1] /\ Head(d) \in ToTab
    BY <1>1, HeadTailProperties
  <1>3. /\ Len(d) \in Nat \ {0} /\ DOMAIN d = 1..Len(d)
        /\ DOMAIN Tail(d) = 1..(Len(d) - 1)
    BY <1>1, <1>2, LenProperties, EmptySeq
  <1>4. Head(d).gen \in Nat
    BY <1>2 DEF ToTab
  <1>5. \A i \in Orders(Tail(d)) : i + 1 \in Orders(d)
    BY <1>2, <1>3 DEF Orders
  <1>6. \A i \in Orders(d) : i = 1 \/ i - 1 \in Orders(Tail(d))
    <2> SUFFICES ASSUME NEW i \in Orders(d), i # 1
                 PROVE  i - 1 \in Orders(Tail(d))
      OBVIOUS
    <2>1. i - 1 \in 1..(Len(d) - 1) /\ (i - 1) + 1 = i
      BY <1>3 DEF Orders
    <2>2. QED
      BY <1>2, <1>3, <2>1 DEF Orders
  <1>7. \A i \in Orders(d) : i \in 1..Len(d)
    BY <1>3 DEF Orders
  <1>8. ~\E i \in DOMAIN a.up : IsHello(a, i)
    BY DEF TabOK, PortsOK
  <1>9. ASSUME Head(d).packet = 0
        PROVE  TabOK([a EXCEPT !.down = Tail(d), !.gen = Head(d).gen], h, c, g)
    <2> DEFINE b == [a EXCEPT !.down = Tail(d), !.gen = Head(d).gen]
    <2>1. /\ TabShape(b) /\ b.up = a.up /\ b.life = a.life /\ b.port = a.port /\ b.lost = a.lost
          /\ b.down = Tail(d) /\ b.gen = Head(d).gen
      BY <1>1, <1>2, <1>4 DEF TabShape
    <2>2. PortsOK(b, h, c)
      BY <1>8, <2>1 DEF TabOK, PortsOK, Live, IsHello
    <2>3. ASSUME Holding(a, g)
          PROVE  Holding(b, g)
      <3>1. 1 \in Orders(d)
        BY <1>2, <1>3, <1>9 DEF Orders
      <3>2. CASE Orders(Tail(d)) = {}
        <4>1. \A j \in Orders(d) : j <= 1
          BY <1>6, <3>2
        <4>2. QED
          BY <1>2, <2>1, <2>3, <3>1, <3>2, <4>1 DEF Holding
      <3>3. CASE Orders(Tail(d)) # {}
        <4>1. ASSUME NEW i \in Orders(Tail(d)), \A j \in Orders(Tail(d)) : j <= i
              PROVE  Tail(d)[i].gen = g
          <5>1. i + 1 \in Orders(d) /\ i \in 1..Len(Tail(d))
            BY <1>2, <1>3, <1>5, <4>1 DEF Orders
          <5>2. \A j \in Orders(d) : j <= i + 1
            BY <1>3, <1>6, <1>7, <4>1, <5>1
          <5>3. QED
            BY <1>2, <2>3, <5>1, <5>2 DEF Holding
        <4>2. QED
          BY <2>1, <3>3, <4>1 DEF Holding
      <3>4. QED
        BY <3>2, <3>3
    <2>4. QED
      BY <2>1, <2>2, <2>3 DEF TabOK, Live
  <1>10. ASSUME Head(d).packet # 0
         PROVE  TabOK([a EXCEPT !.down = Tail(d)], h, c, g)
    <2> DEFINE b == [a EXCEPT !.down = Tail(d)]
    <2>1. /\ TabShape(b) /\ b.up = a.up /\ b.life = a.life /\ b.port = a.port /\ b.lost = a.lost
          /\ b.down = Tail(d) /\ b.gen = a.gen
      BY <1>1, <1>2 DEF TabShape
    <2>2. PortsOK(b, h, c)
      BY <1>8, <2>1 DEF TabOK, PortsOK, Live, IsHello
    <2>3. ASSUME Holding(a, g)
          PROVE  Holding(b, g)
      <3>1. 1 \notin Orders(d)
        BY <1>2, <1>10 DEF Orders
      <3>2. Orders(Tail(d)) = {} => Orders(d) = {}
        BY <1>6, <3>1
      <3>3. ASSUME NEW i \in Orders(Tail(d)), \A j \in Orders(Tail(d)) : j <= i
            PROVE  Tail(d)[i].gen = g
        <4>1. i + 1 \in Orders(d) /\ i \in 1..Len(Tail(d))
          BY <1>2, <1>3, <1>5, <3>3 DEF Orders
        <4>2. \A j \in Orders(d) : j <= i + 1
          BY <1>3, <1>6, <1>7, <3>1, <3>3, <4>1
        <4>3. QED
          BY <1>2, <2>3, <4>1, <4>2 DEF Holding
      <3>4. QED
        BY <2>1, <2>3, <3>2, <3>3 DEF Holding
    <2>4. QED
      BY <2>1, <2>2, <2>3 DEF TabOK, Live
  <1>11. QED
    BY <1>9, <1>10

LEMMA SessionLostKeepsTab ==
  ASSUME NEW a, NEW h, NEW c, NEW g, TabOK(a, h, c, g)
  PROVE  TabOK([a EXCEPT !.lost = TRUE, !.down = <<>>], h, c, g)
  <1> DEFINE b == [a EXCEPT !.lost = TRUE, !.down = <<>>]
  <1>1. <<>> \in Seq(ToTab)
    BY EmptySeq
  <1>2. /\ TabShape(b) /\ b.up = a.up /\ b.life = a.life /\ b.port = a.port /\ b.lost
        /\ b.down = <<>> /\ b.gen = a.gen
    BY <1>1 DEF TabOK, PortsOK, TabShape
  <1> HIDE DEF b
  <1>3. PortsOK(b, h, c)
    BY <1>2 DEF TabOK, PortsOK, Live, IsHello
  <1>4. TabOK(b, h, c, g)
    BY <1>2, <1>3 DEF TabOK
  <1>5. QED
    BY <1>4 DEF b

(* A tab that is gone, or has left its session, perhaps with a close. *)
LEMMA DepartedKeepsTab ==
  ASSUME NEW a, NEW h, NEW c, NEW g, TabOK(a, h, c, g), NEW life \in {"gone", "left"}
  PROVE  /\ TabOK(Departed(a, life), h, c, g)
         /\ TabOK(Departed(Say(a, "close", {}), life), h, c, g)
  <1>1. ASSUME NEW b, TabShape(b), b.port = a.port,
               \A i \in DOMAIN b.up : \/ i \in DOMAIN a.up /\ b.up[i] = a.up[i]
                                      \/ b.up[i].type = "close" /\ b.up[i].port = a.port
        PROVE  TabOK(Departed(b, life), h, c, g)
    <2> DEFINE e == Departed(b, life)
    <2>1. e = [NewTab EXCEPT !.life = life, !.port = b.port, !.up = b.up]
      BY DEF Departed
    <2>2. <<>> \in Seq(ToTab)
      BY EmptySeq
    <2>3. /\ TabShape(e) /\ e.life = life /\ e.port = a.port /\ e.up = b.up
          /\ e.gen = 0 /\ e.down = <<>>
      BY <1>1, <2>1, <2>2 DEF TabShape, NewTab
    <2> HIDE DEF e
    <2>4. a.port \in Nat
      BY WorkerAssumption DEF TabOK, PortsOK, TabShape
    <2>5. PortsOK(e, h, c)
      BY <1>1, <2>3, <2>4 DEF TabOK, PortsOK, Live, IsHello
    <2>6. TabOK(e, h, c, g)
      BY <2>3, <2>5 DEF TabOK, Live
    <2>7. QED
      BY <2>6 DEF e
  <1>2. TabOK(Departed(a, life), h, c, g)
    BY <1>1 DEF TabOK, PortsOK
  <1>3. TabOK(Departed(Say(a, "close", {}), life), h, c, g)
    <2> DEFINE m == [type |-> "close", port |-> a.port, gen |-> a.gen, peers |-> {}]
    <2>1. CASE a.lost
      BY <1>2, <2>1 DEF Say
    <2>2. CASE ~a.lost
      <3>1. TabShape(a) /\ m \in Posted /\ m.type = "close" /\ m.port = a.port
        BY DEF TabOK, PortsOK, TabShape, Posted, Types
      <3>2. Say(a, "close", {}) = [a EXCEPT !.up = Append(a.up, m)]
        BY <2>2 DEF Say
      <3> HIDE DEF m
      <3>3. /\ Append(a.up, m) \in Seq(Posted)
            /\ Len(Append(a.up, m)) = Len(a.up) + 1
            /\ \A i \in 1..Len(a.up) : Append(a.up, m)[i] = a.up[i]
            /\ Append(a.up, m)[Len(a.up) + 1] = m
        BY <3>1, AppendProperties DEF TabShape
      <3>4. /\ Len(a.up) \in Nat /\ DOMAIN a.up = 1..Len(a.up)
            /\ DOMAIN Append(a.up, m) = 1..(Len(a.up) + 1)
        BY <3>1, <3>3, LenProperties DEF TabShape
      <3> DEFINE b == [a EXCEPT !.up = Append(a.up, m)]
      <3>5. TabShape(b) /\ b.port = a.port /\ b.up = Append(a.up, m)
        BY <3>1, <3>3 DEF TabShape
      <3> HIDE DEF b
      <3>6. \A i \in DOMAIN b.up : \/ i \in DOMAIN a.up /\ b.up[i] = a.up[i]
                                   \/ b.up[i].type = "close" /\ b.up[i].port = a.port
        BY <3>1, <3>3, <3>4, <3>5
      <3>7. TabOK(Departed(b, life), h, c, g)
        BY <1>1, <3>5, <3>6
      <3>8. QED
        BY <3>2, <3>7 DEF b
    <2>3. QED
      BY <2>1, <2>2
  <1>4. QED
    BY <1>2, <1>3

(* A new role: another port, on which the tab first says hello. *)
LEMMA ActivatedKeepsTab ==
  ASSUME NEW a, NEW h \in Nat, NEW c, NEW g, NEW server, TabOK(a, h, c, g), a.port < MaxPorts,
         a.life = "live"
  PROVE  TabOK(Activated(a, server), h, c, g)
  <1> DEFINE n == [NewTab EXCEPT !.port = a.port + 1, !.server = server, !.up = a.up]
             m == [type |-> "hello", port |-> a.port + 1, gen |-> 0, peers |-> {}]
             b == [n EXCEPT !.up = Append(a.up, m)]
  <1>1. TabShape(a) /\ a.port \in Nat /\ MaxPorts \in Nat
    BY WorkerAssumption DEF TabOK, PortsOK, TabShape
  <1>2. <<>> \in Seq(ToTab)
    BY EmptySeq
  <1>3. /\ TabShape(n) /\ n.life = "live" /\ n.port = a.port + 1 /\ n.up = a.up
        /\ n.gen = 0 /\ n.down = <<>> /\ ~n.lost
    BY <1>1, <1>2 DEF TabShape, NewTab
  <1>4. m \in Posted /\ m.type = "hello" /\ m.port = a.port + 1
    BY <1>1 DEF Posted, Types
  <1>5. Say(n, "hello", {}) = b
    BY <1>3 DEF Say
  <1> HIDE DEF m, n
  <1>6. /\ Append(a.up, m) \in Seq(Posted)
        /\ Len(Append(a.up, m)) = Len(a.up) + 1
        /\ \A i \in 1..Len(a.up) : Append(a.up, m)[i] = a.up[i]
        /\ Append(a.up, m)[Len(a.up) + 1] = m
    BY <1>1, <1>4, AppendProperties DEF TabShape
  <1>7. /\ Len(a.up) \in Nat /\ DOMAIN a.up = 1..Len(a.up)
        /\ DOMAIN Append(a.up, m) = 1..(Len(a.up) + 1)
    BY <1>1, <1>6, LenProperties DEF TabShape
  <1>8. /\ TabShape(b) /\ b.life = "live" /\ b.port = a.port + 1
        /\ b.up = Append(a.up, m) /\ b.gen = 0 /\ b.down = <<>>
    BY <1>3, <1>6 DEF TabShape
  <1> HIDE DEF b
  <1>9. \A i \in DOMAIN a.up : a.up[i].port \in Nat /\ a.up[i].port <= a.port
    <2>1. \A i \in DOMAIN a.up : a.up[i] \in Posted
      BY <1>1, LenProperties, ElementOfSeq DEF TabShape
    <2>2. QED
      BY <2>1, WorkerAssumption DEF TabOK, PortsOK, Posted
  <1>10. h <= a.port
    BY DEF TabOK, PortsOK
  <1>11. \A i \in DOMAIN b.up : \/ i \in DOMAIN a.up /\ b.up[i] = a.up[i]
                                \/ i = Len(a.up) + 1 /\ b.up[i] = m
    BY <1>6, <1>7, <1>8
  <1>12. \A i \in DOMAIN b.up : IsHello(b, i) => i = Len(a.up) + 1
    BY <1>1, <1>8, <1>9, <1>11 DEF IsHello
  <1>13. \A i \in DOMAIN b.up : b.up[i].port <= b.port /\ b.up[i].type # "close"
    BY <1>1, <1>4, <1>8, <1>9, <1>11 DEF TabOK, PortsOK
  <1>14. PortsOK(b, h, c)
    BY <1>1, <1>8, <1>10, <1>12, <1>13 DEF PortsOK, Live
  <1>15. TabOK(b, h, c, g)
    BY <1>1, <1>8, <1>10, <1>14 DEF TabOK, Live
  <1>16. Follows(b, Say(b, "bootstrap", {}))
    <2>1. "bootstrap" \in Types \ {"hello", "close"} /\ {} \in SUBSET Keys
      BY DEF Types
    <2>2. QED
      BY <1>8, <2>1, SayFollows
  <1>17. QED
    BY <1>5, <1>15, <1>16, FollowsKeepsTab DEF Activated, n

LEMMA PageStepsKeepTabs ==
  ASSUME WorkerInv, NEW t \in TabIds, NEW b,
         UNCHANGED <<vars, conn, helloPort, boot>>, tab' = [tab EXCEPT ![t] = b],
         TabOK(b, helloPort[t], conn[t], told[t])
  PROVE  WorkerInv'
  <1>1. DOMAIN tab' = TabIds /\ \A u \in TabIds : tab'[u] = IF u = t THEN b ELSE tab[u]
    BY DEF WorkerInv
  <1>2. UNCHANGED <<disabled, openState, told, tabs, conn, helloPort, boot>>
    BY DEF vars
  <1>3. \A u \in TabIds : TabOK(tab'[u], helloPort'[u], conn'[u], told'[u])
    BY <1>1, <1>2 DEF WorkerInv
  <1>4. Registered' = Registered
    BY <1>2 DEF Registered
  <1>5. QED
    BY <1>1, <1>2, <1>3, <1>4 DEF WorkerInv

LEMMA PageStepsKeepInv ==
  ASSUME WorkerInv, NEW t \in TabIds,
         \/ Activate(t) \/ SessionLost(t) \/ Read(t) \/ PageGone(t) \/ CloseSession(t)
         \/ \E p \in Keys : ChannelOpens(t, p) \/ ChannelBreaks(t, p)
  PROVE  WorkerInv'
  <1> DEFINE a == tab[t]
             Keeps(b) == TabOK(b, helloPort[t], conn[t], told[t])
  <1>1. Keeps(a) /\ TabShape(a) /\ helloPort[t] \in Nat
    BY WorkerAssumption DEF WorkerInv, TabOK, PortsOK
  <1>2. ASSUME NEW b, tab' = [tab EXCEPT ![t] = b], Keeps(b),
               UNCHANGED <<vars, conn, helloPort, boot>>
        PROVE  WorkerInv'
    BY <1>2, PageStepsKeepTabs
  <1>3. CASE Activate(t)
    <2>1. Keeps(Activated(a, leader))
      BY <1>1, <1>3, ActivatedKeepsTab DEF Activate
    <2>2. QED
      BY <1>2, <1>3, <2>1 DEF Activate, roomVars
  <1>4. CASE SessionLost(t)
    <2>1. Keeps([a EXCEPT !.lost = TRUE, !.down = <<>>])
      BY <1>1, SessionLostKeepsTab
    <2>2. QED
      BY <1>2, <1>4, <2>1 DEF SessionLost, roomVars
  <1>5. CASE PageGone(t)
    <2>1. Keeps(Departed(a, "gone"))
      BY <1>1, DepartedKeepsTab
    <2>2. QED
      BY <1>2, <1>5, <2>1 DEF PageGone, roomVars
  <1>6. CASE CloseSession(t)
    <2>1. Keeps(Departed(Say(a, "close", {}), "left"))
      BY <1>1, DepartedKeepsTab
    <2>2. QED
      BY <1>2, <1>6, <2>1 DEF CloseSession, roomVars
  <1>7. ASSUME NEW p \in Keys, ChannelOpens(t, p)
        PROVE  WorkerInv'
    <2> DEFINE o == [a EXCEPT !.channel[p] = "open"]
               b == Flush(Announce(o))
    <2>1. Follows(a, o)
      BY <1>1, BookkeepingFollows
    <2>2. Follows(o, Announce(o)) /\ Follows(Announce(o), b)
      <3>1. TabShape(o)
        BY <2>1 DEF Follows
      <3> HIDE DEF o
      <3>2. Follows(o, Announce(o))
        BY <3>1, AnnounceFollows
      <3>3. TabShape(Announce(o))
        BY <3>2 DEF Follows
      <3>4. QED
        BY <3>2, <3>3, FlushFollows
    <2>3. Keeps(b)
      BY <1>1, <2>1, <2>2, FollowsTransitive, FollowsKeepsTab
    <2>4. tab' = [tab EXCEPT ![t] = b] /\ UNCHANGED <<vars, conn, helloPort, boot>>
      BY <1>7 DEF ChannelOpens, roomVars
    <2> HIDE DEF b
    <2>5. QED
      BY <1>2, <2>3, <2>4
  <1>8. ASSUME NEW p \in Keys, ChannelBreaks(t, p)
        PROVE  WorkerInv'
    <2> DEFINE b == [a EXCEPT !.channel[p] = "broken"]
    <2>1. Follows(a, b)
      BY <1>1, BookkeepingFollows
    <2>2. tab' = [tab EXCEPT ![t] = b] /\ UNCHANGED <<vars, conn, helloPort, boot>>
      BY <1>8 DEF ChannelBreaks, roomVars
    <2> HIDE DEF b
    <2>3. QED
      BY <1>1, <1>2, <2>1, <2>2, FollowsKeepsTab
  <1>9. CASE Read(t)
    <2> DEFINE m == Head(a.down)
               r == [a EXCEPT !.down = Tail(a.down)]
               o == [a EXCEPT !.down = Tail(a.down), !.gen = m.gen]
    <2>1. a.down # <<>> /\ UNCHANGED <<vars, conn, helloPort, boot>>
      BY <1>9 DEF Read, roomVars
    <2>2. tab' = [tab EXCEPT ![t] = IF m.packet = 0 THEN Attach(r, m.gen)
                                    ELSE IF m.gen = r.gen THEN Send(r, <<m>>) ELSE r]
      BY <1>9 DEF Read
    <2>3. Attach(r, m.gen) = Say(Flush(Announce(o)), "attached", {})
      BY <1>1 DEF Attach, TabShape
    <2>4. (m.packet = 0 => Keeps(o)) /\ (m.packet # 0 => Keeps(r))
      BY <1>1, <2>1, ReadKeepsTab
    <2> HIDE DEF o, r, m
    <2>5. ASSUME m.packet = 0
          PROVE  Keeps(Attach(r, m.gen))
      <3>1. Follows(o, Announce(o))
        BY <2>4, <2>5, AnnounceFollows DEF TabOK, PortsOK
      <3>2. Follows(Announce(o), Flush(Announce(o)))
        BY <3>1, FlushFollows DEF Follows
      <3>3. "attached" \in Types \ {"hello", "close"} /\ {} \in SUBSET Keys
        BY DEF Types
      <3>4. Follows(Flush(Announce(o)), Say(Flush(Announce(o)), "attached", {}))
        BY <3>2, <3>3, SayFollows DEF Follows
      <3>5. QED
        BY <2>3, <2>4, <2>5, <3>1, <3>2, <3>4, FollowsTransitive, FollowsKeepsTab
    <2>6. ASSUME m.packet # 0
          PROVE  Keeps(Send(r, <<m>>))
      <3>1. Keeps(r) /\ TabShape(r)
        BY <2>4, <2>6 DEF TabOK, PortsOK
      <3>2. Follows(r, Send(r, <<m>>))
        BY <3>1, SendFollows
      <3>3. QED
        BY <3>1, <3>2, FollowsKeepsTab
    <2>7. QED
      BY <1>2, <2>1, <2>2, <2>4, <2>5, <2>6
  <1>10. QED
    BY <1>3, <1>4, <1>5, <1>6, <1>7, <1>8, <1>9

-----------------------------------------------------------------------------
(* What the coordinator pushes: all of it under the generation the tab has    *)
(* been told of, and first of all the order to attach when it is newly leased. *)
NewlyLeased(t) == generation' > generation /\ lease' # NoLease /\ lease'.tab = t

LEMMA FunctionIsSeq ==
  ASSUME NEW S, NEW n \in Int, NEW q \in [1..n -> S]
  PROVE  q \in Seq(S) /\ 1..Len(q) = 1..n
  <1>1. CASE n \in Nat
    <2>1. q \in Seq(S) /\ DOMAIN q = 1..n
      BY <1>1
    <2>2. QED
      BY <2>1, LenProperties
  <1>2. CASE n <= 0
    <2>1. 1..n = 1..0 /\ 0 \in Nat
      BY <1>2
    <2>2. q \in Seq(S) /\ DOMAIN q = 1..n
      BY <2>1
    <2>3. QED
      BY <2>2, LenProperties
  <1>3. QED
    BY <1>1, <1>2

LEMMA SingletonIsSeq ==
  ASSUME NEW S, NEW e \in S
  PROVE  <<e>> \in Seq(S) /\ Len(<<e>>) = 1 /\ <<e>>[1] = e
  OBVIOUS

LEMMA PacketsAreOrders ==
  ASSUME NEW g \in Nat, NEW c \in Seq(Nat), NEW old \in Nat
  PROVE  [i \in 1..(Len(c) - old) |-> [gen |-> g, packet |-> c[old + i]]]
           \in [1..(Len(c) - old) -> ToTab]
  <1>1. Len(c) \in Nat /\ \A i \in 1..Len(c) : c[i] \in Nat
    BY LenProperties, ElementOfSeq
  <1>2. \A i \in 1..(Len(c) - old) : old + i \in 1..Len(c)
    BY <1>1
  <1>3. QED
    BY <1>1, <1>2 DEF ToTab

LEMMA PushedFacts ==
  ASSUME IInv, IInv', NEW t \in TabIds
  PROVE  /\ Pushed(t) \in Seq(ToTab)
         /\ \A i \in 1..Len(Pushed(t)) : Pushed(t)[i].gen = told'[t]
         /\ NewlyLeased(t) => Len(Pushed(t)) > 0 /\ Pushed(t)[1].packet = 0
  <1>1. CASE lease' = NoLease \/ lease'.tab # t
    <2>1. Pushed(t) = <<>> /\ ~NewlyLeased(t)
      BY <1>1 DEF Pushed, NewlyLeased
    <2>2. QED
      BY <2>1, EmptySeq
  <1>2. CASE lease' # NoLease /\ lease'.tab = t
    <2> DEFINE order == [gen |-> generation', packet |-> 0]
               s == IF generation' > generation THEN <<order>> ELSE <<>>
               c == carried'["crdt"]
               old == Len(carried["crdt"])
               q == [i \in 1..(Len(c) - old) |->
                       [gen |-> lease'.generation, packet |-> c[old + i]]]
    <2>1. /\ lease'.generation = generation' /\ told'[t] = generation' /\ generation' \in Nat
          /\ lease'.generation \in Nat
      BY <1>2 DEF IInv, SingleOwner, LeaseIsLegitimate, TypeOK
    <2>2. carried["crdt"] \in Seq(Nat) /\ c \in Seq(Nat)
      BY WorkerAssumption DEF IInv, TypeOK
    <2>3. old \in Nat /\ Len(c) - old \in Int
      BY <2>2, LenProperties
    <2>4. s \in Seq(ToTab) /\ (Len(s) = 0 \/ (Len(s) = 1 /\ s[1] = order))
          /\ (generation' > generation => Len(s) = 1)
      <3>1. order \in ToTab
        BY <2>1 DEF ToTab
      <3> HIDE DEF order
      <3>2. <<order>> \in Seq(ToTab) /\ Len(<<order>>) = 1 /\ <<order>>[1] = order
        BY <3>1, SingletonIsSeq
      <3>3. <<>> \in Seq(ToTab) /\ Len(<<>>) = 0
        BY EmptySeq
      <3>4. QED
        BY <3>2, <3>3
    <2>5. q \in Seq(ToTab) /\ \A i \in 1..Len(q) : q[i].gen = lease'.generation
      <3>1. q \in [1..(Len(c) - old) -> ToTab]
        <4> HIDE DEF c, old
        <4>1. QED
          BY <2>1, <2>2, <2>3, PacketsAreOrders
      <3>2. q \in Seq(ToTab) /\ 1..Len(q) = 1..(Len(c) - old)
        <4> HIDE DEF q
        <4>1. QED
          BY <2>3, <3>1, FunctionIsSeq
      <3>3. \A i \in 1..(Len(c) - old) : q[i].gen = lease'.generation
        OBVIOUS
      <3>4. QED
        BY <3>2, <3>3
    <2>6. Pushed(t) = s \o q
      BY <1>2 DEF Pushed
    <2> HIDE DEF s, q
    <2>7. /\ s \o q \in Seq(ToTab)
          /\ Len(s \o q) = Len(s) + Len(q)
          /\ \A i \in 1..(Len(s) + Len(q)) :
               (s \o q)[i] = IF i <= Len(s) THEN s[i] ELSE q[i - Len(s)]
      BY <2>4, <2>5, ConcatProperties
    <2>8. Len(s) \in Nat /\ Len(q) \in Nat
      BY <2>4, <2>5, LenProperties
    <2>9. \A i \in 1..Len(s \o q) : (s \o q)[i].gen = told'[t]
      <3> SUFFICES ASSUME NEW i \in 1..Len(s \o q)
                   PROVE  (s \o q)[i].gen = told'[t]
        OBVIOUS
      <3>1. CASE i <= Len(s)
        <4>1. i \in Nat /\ i >= 1 /\ i <= Len(s) /\ Len(s) = 1
          BY <2>4, <2>7, <2>8, <3>1
        <4>2. i = 1 /\ (s \o q)[i] = s[1]
          BY <2>7, <2>8, <4>1
        <4>3. s[1].gen = generation'
          BY <2>4, <4>1
        <4>4. QED
          BY <2>1, <4>2, <4>3
      <3>2. CASE ~(i <= Len(s))
        <4>1. i - Len(s) \in 1..Len(q) /\ (s \o q)[i] = q[i - Len(s)]
          BY <2>7, <2>8, <3>2
        <4>2. QED
          BY <2>1, <2>5, <4>1
      <3>3. QED
        BY <3>1, <3>2
    <2>10. ASSUME NewlyLeased(t)
           PROVE  Len(s \o q) > 0 /\ (s \o q)[1].packet = 0
      <3>1. Len(s) = 1 /\ s[1] = order
        BY <2>4, <2>10 DEF NewlyLeased
      <3>2. (s \o q)[1] = order /\ Len(s \o q) > 0
        BY <2>7, <2>8, <3>1
      <3>3. QED
        BY <3>2
    <2>11. QED
      BY <2>6, <2>7, <2>9, <2>10
  <1>3. QED
    BY <1>1, <1>2

(* Messages pushed to a tab keep it aware of its generation. *)
LEMMA PushKeepsTab ==
  ASSUME NEW a, NEW h, NEW c, NEW g, NEW P \in Seq(ToTab), NEW new \in BOOLEAN,
         PortsOK(a, h, c), Live(a, h) /\ ~a.lost => new \/ Holding(a, g),
         \A i \in 1..Len(P) : P[i].gen = g,
         new => Len(P) > 0 /\ P[1].packet = 0
  PROVE  Live(a, h) /\ ~a.lost => TabOK([a EXCEPT !.down = a.down \o P], h, c, g)
  <1> SUFFICES ASSUME Live(a, h), ~a.lost, new \/ Holding(a, g)
               PROVE  TabOK([a EXCEPT !.down = a.down \o P], h, c, g)
    OBVIOUS
  <1> DEFINE d == a.down
             r == d \o P
             b == [a EXCEPT !.down = r]
  <1>1. TabShape(a) /\ d \in Seq(ToTab)
    BY DEF PortsOK, TabShape
  <1>2. /\ r \in Seq(ToTab)
        /\ Len(r) = Len(d) + Len(P)
        /\ \A i \in 1..(Len(d) + Len(P)) : r[i] = IF i <= Len(d) THEN d[i] ELSE P[i - Len(d)]
    BY <1>1, ConcatProperties
  <1>3. /\ Len(d) \in Nat /\ Len(P) \in Nat /\ DOMAIN d = 1..Len(d)
        /\ DOMAIN r = 1..(Len(d) + Len(P))
    BY <1>1, <1>2, LenProperties
  <1> HIDE DEF r
  <1>4. /\ TabShape(b) /\ b.up = a.up /\ b.life = a.life /\ b.port = a.port /\ b.lost = a.lost
        /\ b.gen = a.gen /\ b.down = r
    BY <1>1, <1>2 DEF TabShape
  <1> HIDE DEF b
  <1>5. PortsOK(b, h, c)
    BY <1>4 DEF PortsOK, Live, IsHello
  <1>6. \A i \in Orders(d) : i \in Orders(r)
    BY <1>2, <1>3 DEF Orders
  <1>7. \A i \in Orders(r) : i \in Orders(d) \/ r[i].gen = g
    <2> SUFFICES ASSUME NEW i \in Orders(r), ~(i <= Len(d))
                 PROVE  r[i].gen = g
      BY <1>2, <1>3 DEF Orders
    <2>1. i \in 1..(Len(d) + Len(P))
      BY <1>3 DEF Orders
    <2>2. i - Len(d) \in 1..Len(P) /\ r[i] = P[i - Len(d)]
      BY <1>2, <1>3, <2>1
    <2>3. QED
      BY <2>2
  <1>8. CASE new
    <2>1. Len(d) + 1 \in Orders(r)
      <3>1. Len(d) + 1 \in 1..(Len(d) + Len(P)) /\ Len(d) + 1 - Len(d) = 1
        BY <1>3, <1>8
      <3>2. r[Len(d) + 1] = P[1]
        <4>1. ~(Len(d) + 1 <= Len(d))
          BY <1>3
        <4>2. r[Len(d) + 1] = P[Len(d) + 1 - Len(d)]
          BY <1>2, <3>1, <4>1
        <4>3. QED
          BY <3>1, <4>2
      <3>3. QED
        BY <1>3, <1>8, <3>1, <3>2 DEF Orders
    <2>2. ASSUME NEW i \in Orders(r), \A j \in Orders(r) : j <= i
          PROVE  i \notin Orders(d)
      <3>1. Len(d) + 1 <= i
        BY <2>1, <2>2
      <3>2. i \notin 1..Len(d)
        BY <1>3, <3>1
      <3>3. QED
        BY <1>3, <3>2 DEF Orders
    <2>3. Holding(b, g)
      BY <1>4, <1>7, <2>1, <2>2 DEF Holding
    <2>4. TabOK(b, h, c, g)
      BY <1>5, <2>3 DEF TabOK
    <2>5. QED
      BY <2>4 DEF b, r
  <1>9. CASE Holding(a, g)
    <2>1. ASSUME NEW i \in Orders(r), \A j \in Orders(r) : j <= i
          PROVE  r[i].gen = g
      <3>1. CASE i \in Orders(d)
        <4>1. d[i].gen = g
          BY <1>6, <1>9, <2>1, <3>1 DEF Holding
        <4>2. r[i] = d[i]
          BY <1>2, <1>3, <3>1 DEF Orders
        <4>3. QED
          BY <4>1, <4>2
      <3>2. QED
        BY <1>7, <3>1
    <2>2. Orders(r) = {} => a.gen = g
      BY <1>6, <1>9 DEF Holding
    <2>3. Holding(b, g)
      BY <1>4, <2>1, <2>2 DEF Holding
    <2>4. TabOK(b, h, c, g)
      BY <1>5, <2>3 DEF TabOK
    <2>5. QED
      BY <2>4 DEF b, r
  <1>10. QED
    BY <1>8, <1>9

(* A step in which the coordinator may push to the tabs ts. *)
LEMMA DeliverKeepsTabs ==
  ASSUME IInv, IInv', NEW ts, DOMAIN ts = TabIds, Deliver(ts), NEW u \in TabIds,
         PortsOK(ts[u], helloPort'[u], conn'[u]),
         Live(ts[u], helloPort'[u]) /\ ~ts[u].lost => NewlyLeased(u) \/ Holding(ts[u], told'[u])
  PROVE  TabOK(tab'[u], helloPort'[u], conn'[u], told'[u])
  <1> DEFINE a == ts[u]
             h == helloPort'[u]
             c == conn'[u]
             P == Pushed(u)
  <1>1. tab'[u] = IF Listens(ts, u) THEN [a EXCEPT !.down = a.down \o P] ELSE a
    BY DEF Deliver
  <1>2. Listens(ts, u) <=> Live(a, h) /\ ~a.lost
    BY DEF Listens, Live, PortsOK
  <1>3. /\ P \in Seq(ToTab)
        /\ \A i \in 1..Len(P) : P[i].gen = told'[u]
        /\ NewlyLeased(u) => Len(P) > 0 /\ P[1].packet = 0
    BY PushedFacts
  <1>4. NewlyLeased(u) \in BOOLEAN
    BY DEF NewlyLeased
  <1> HIDE DEF a, h, c, P
  <1>5. Live(a, h) /\ ~a.lost => TabOK([a EXCEPT !.down = a.down \o P], h, c, told'[u])
    <2>1. PortsOK(a, h, c) /\ (Live(a, h) /\ ~a.lost => NewlyLeased(u) \/ Holding(a, told'[u]))
      BY DEF a, h, c
    <2>2. QED
      BY <1>3, <1>4, <2>1, PushKeepsTab
  <1>6. ~(Live(a, h) /\ ~a.lost) => TabOK(a, h, c, told'[u])
    BY DEF TabOK, a, h, c
  <1>7. TabOK(tab'[u], h, c, told'[u])
    BY <1>1, <1>2, <1>5, <1>6
  <1>8. QED
    BY <1>7 DEF h, c

-----------------------------------------------------------------------------
(* What a step of the coordinator tells the tabs. *)
LEMMA ElectionTells ==
  ASSUME TypeOK, TypeOK', NEW l, NEW forget, ElectOwner(l, forget), NEW u \in TabIds
  PROVE  NewlyLeased(u) \/ told'[u] = IF u \in forget THEN 0 ELSE told[u]
  <1>1. ASSUME NEW t \in TabIds, AttachOwner(t, forget)
        PROVE  NewlyLeased(u) \/ told'[u] = IF u \in forget THEN 0 ELSE told[u]
    <2>1. generation \in Nat
      BY DEF TypeOK
    <2>2. lease' # NoLease /\ lease'.tab = t /\ generation' > generation
      BY <1>1, <2>1, NewLeaseType DEF AttachOwner
    <2>3. QED
      BY <1>1, <2>2 DEF AttachOwner, NewlyLeased
  <1>2. \A i \in DOMAIN tabs' : tabs'[i] \in TabIds
    BY LenProperties, ElementOfSeq DEF TypeOK
  <1>3. QED
    BY <1>1, <1>2 DEF ElectOwner, KeepLease

LEMMA RegistrationTells ==
  ASSUME IInv, IInv', NEW t \in TabIds, RegisterTab(t, TRUE), disabled = {}
  PROVE  /\ disabled' = {} /\ openState' = openState
         /\ Registered \cup {t} \subseteq Registered'
         /\ \A u \in TabIds : NewlyLeased(u) \/ told'[u] = IF u = t THEN 0 ELSE told[u]
  <1>1. TypeOK /\ TypeOK' /\ tabs \in Seq(TabIds)
    BY DEF IInv, TypeOK
  <1>2. disabled' = {} /\ openState' = openState
    BY DEF RegisterTab
  <1>3. Registered \cup {t} \subseteq Registered'
    <2>1. Registered = Elements(tabs) /\ Registered' = Elements(tabs')
      BY DEF Registered, Elements
    <2>2. CASE t \in Registered
      BY <2>1, <2>2 DEF RegisterTab
    <2>3. CASE t \notin Registered
      <3>1. tabs' = Append(tabs, t)
        BY <2>3 DEF RegisterTab
      <3>2. Elements(tabs') = Elements(tabs) \cup {t}
        BY <1>1, <3>1, RegisteredAfterAppend
      <3>3. QED
        BY <2>1, <3>2
    <2>4. QED
      BY <2>2, <2>3
  <1>4. ASSUME NEW u \in TabIds
        PROVE  NewlyLeased(u) \/ told'[u] = IF u = t THEN 0 ELSE told[u]
    <2>1. CASE AttachOwner(t, {})
      <3>1. generation \in Nat
        BY <1>1 DEF TypeOK
      <3>2. lease' # NoLease /\ lease'.tab = t /\ generation' > generation
        BY <2>1, <3>1, NewLeaseType DEF AttachOwner
      <3>3. QED
        BY <2>1, <3>2 DEF AttachOwner, NewlyLeased
    <2>2. CASE ElectOwner(IF Holds(t) THEN NoLease ELSE lease, {t})
      <3>1. NewlyLeased(u) \/ told'[u] = IF u \in {t} THEN 0 ELSE told[u]
        BY <1>1, <2>2, ElectionTells
      <3>2. QED
        BY <3>1
    <2>3. QED
      BY <2>1, <2>2 DEF RegisterTab
  <1>5. QED
    BY <1>2, <1>3, <1>4

LEMMA UnregistrationTells ==
  ASSUME IInv, IInv', NEW t \in TabIds, UnregisterTab(t), disabled = {}
  PROVE  /\ disabled' = {} /\ openState' = openState
         /\ Registered \subseteq Registered' \cup {t}
         /\ \A u \in TabIds : u # t => NewlyLeased(u) \/ told'[u] = told[u]
  <1>1. TypeOK /\ TypeOK' /\ tabs \in Seq(TabIds)
    BY DEF IInv, TypeOK
  <1>2. disabled' = {} /\ openState' = openState
    BY DEF UnregisterTab
  <1>3. Registered \subseteq Registered' \cup {t}
    <2>1. Registered = Elements(tabs) /\ Registered' = Elements(tabs')
      BY DEF Registered, Elements
    <2>2. PICK i \in DOMAIN tabs :
            tabs[i] = t /\ tabs' = SubSeq(tabs, 1, i - 1) \o SubSeq(tabs, i + 1, Len(tabs))
      BY DEF UnregisterTab
    <2>3. QED
      BY <1>1, <2>1, <2>2, RegisteredAfterRemoval
  <1>4. ASSUME NEW u \in TabIds, u # t
        PROVE  NewlyLeased(u) \/ told'[u] = told[u]
    <2>1. CASE ElectOwner(NoLease, {t})
      <3>1. NewlyLeased(u) \/ told'[u] = IF u \in {t} THEN 0 ELSE told[u]
        BY <1>1, <2>1, ElectionTells
      <3>2. QED
        BY <1>4, <3>1
    <2>2. CASE KeepLease(lease, {t})
      BY <1>4, <2>2 DEF KeepLease
    <2>3. QED
      BY <2>1, <2>2 DEF UnregisterTab
  <1>5. QED
    BY <1>2, <1>3, <1>4

LEMMA OpeningTells ==
  ASSUME IInv, IInv', NEW state, SetWorkspaceOpenState(state), openState = "none"
  PROVE  /\ UNCHANGED <<tabs, disabled>>
         /\ \A u \in TabIds : NewlyLeased(u) \/ told'[u] = told[u]
  <1>1. TypeOK /\ TypeOK' /\ lease = NoLease
    BY DEF IInv, LeaseIsLegitimate
  <1>2. ASSUME NEW u \in TabIds
        PROVE  NewlyLeased(u) \/ told'[u] = told[u]
    <2>1. CASE KeepLease(NoLease, LeaseHolder)
      BY <1>1, <2>1 DEF KeepLease, LeaseHolder
    <2>2. CASE ElectOwner(lease, {})
      <3>1. NewlyLeased(u) \/ told'[u] = IF u \in {} THEN 0 ELSE told[u]
        BY <1>1, <2>2, ElectionTells
      <3>2. QED
        BY <3>1
    <2>3. QED
      BY <2>1, <2>2 DEF SetWorkspaceOpenState
  <1>3. QED
    BY <1>2 DEF SetWorkspaceOpenState

-----------------------------------------------------------------------------
(* What receiving a message makes of the tab that posted it. *)
LEMMA ReceiptKeepsTab ==
  ASSUME NEW a, NEW h, NEW c, NEW g, TabOK(a, h, c, g), a.up # <<>>
  PROVE  LET m == Head(a.up)
             b == [a EXCEPT !.up = Tail(a.up)]
         IN /\ TabOK(b, h, c, g)
            /\ m \in Posted /\ m.port <= a.port
            /\ m.type = "close" => a.life # "live"
            /\ m.type = "hello" /\ m.port = a.port /\ a.port # 0 =>
                 /\ a.gen = 0 /\ a.down = <<>>
                 /\ \A i \in DOMAIN b.up : ~IsHello(b, i)
  <1> DEFINE m == Head(a.up)
             r == Tail(a.up)
             b == [a EXCEPT !.up = r]
  <1>1. TabShape(a) /\ a.up \in Seq(Posted)
    BY DEF TabOK, PortsOK, TabShape
  <1>2. /\ r \in Seq(Posted)
        /\ Len(r) = Len(a.up) - 1
        /\ \A i \in 1..Len(r) : r[i] = a.up[i + 1]
        /\ m = a.up[1] /\ m \in Posted
    BY <1>1, HeadTailProperties
  <1>3. /\ Len(a.up) \in Nat \ {0} /\ DOMAIN a.up = 1..Len(a.up) /\ DOMAIN r = 1..(Len(a.up) - 1)
    BY <1>1, <1>2, LenProperties, EmptySeq
  <1>4. /\ TabShape(b) /\ b.up = r /\ b.life = a.life /\ b.port = a.port /\ b.lost = a.lost
        /\ b.gen = a.gen /\ b.down = a.down
    BY <1>1, <1>2 DEF TabShape
  <1> HIDE DEF b, r, m
  <1>5. \A i \in DOMAIN r : i \in Nat /\ i + 1 \in DOMAIN a.up /\ i + 1 # 1 /\ r[i] = a.up[i + 1]
    BY <1>2, <1>3
  <1>6. \A i \in DOMAIN b.up : IsHello(b, i) => IsHello(a, i + 1)
    BY <1>4, <1>5 DEF IsHello
  <1>7. 1 \in DOMAIN a.up
    BY <1>3
  <1>8. PortsOK(b, h, c)
    <2>1. /\ \A i \in DOMAIN b.up : b.up[i].port <= b.port
          /\ b.life = "live" => \A i \in DOMAIN b.up : b.up[i].type # "close"
      BY <1>4, <1>5 DEF TabOK, PortsOK
    <2>2. ASSUME NEW i \in DOMAIN b.up, IsHello(b, i)
          PROVE  /\ b.gen = 0 /\ b.down = <<>> /\ h # b.port
                 /\ \A j \in DOMAIN b.up : IsHello(b, j) => j = i
      <3>1. IsHello(a, i + 1) /\ i + 1 \in DOMAIN a.up /\ i \in Nat
        BY <1>4, <1>5, <1>6, <2>2
      <3>2. ASSUME NEW j \in DOMAIN b.up, IsHello(b, j)
            PROVE  j = i
        <4>1. IsHello(a, j + 1) /\ j + 1 \in DOMAIN a.up /\ j \in Nat
          BY <1>4, <1>5, <1>6, <3>2
        <4>2. j + 1 = i + 1
          BY <3>1, <4>1 DEF TabOK, PortsOK
        <4>3. QED
          BY <3>1, <4>1, <4>2
      <3>3. QED
        BY <1>4, <3>1, <3>2 DEF TabOK, PortsOK
    <2>3. QED
      BY <1>4, <2>1, <2>2 DEF TabOK, PortsOK, Live
  <1>9. TabOK(b, h, c, g)
    BY <1>4, <1>8 DEF TabOK, Live, Holding
  <1>10. m.port <= a.port /\ (m.type = "close" => a.life # "live")
    BY <1>2, <1>7 DEF TabOK, PortsOK
  <1>11. ASSUME m.type = "hello", m.port = a.port, a.port # 0
         PROVE  /\ a.gen = 0 /\ a.down = <<>>
                /\ \A i \in DOMAIN b.up : ~IsHello(b, i)
    <2>1. IsHello(a, 1)
      BY <1>2, <1>11 DEF IsHello
    <2>2. a.gen = 0 /\ a.down = <<>>
      BY <1>7, <2>1 DEF TabOK, PortsOK
    <2>3. ASSUME NEW i \in DOMAIN b.up, IsHello(b, i)
          PROVE  FALSE
      <3>1. IsHello(a, i + 1) /\ i + 1 \in DOMAIN a.up /\ i + 1 # 1
        BY <1>4, <1>5, <1>6, <2>3
      <3>2. QED
        BY <1>7, <2>1, <3>1 DEF TabOK, PortsOK
    <2>4. QED
      BY <2>2, <2>3
  <1>12. QED
    BY <1>2, <1>9, <1>10, <1>11 DEF m, b, r

LEMMA ReceiveHelloKeepsInv ==
  ASSUME IInv, IInv', WorkerInv, NEW t \in TabIds, ReceiveHello(t)
  PROVE  WorkerInv'
  <1> DEFINE a == tab[t]
             m == Head(a.up)
             r == [a EXCEPT !.up = Tail(a.up)]
             ts == [tab EXCEPT ![t] = r]
  <1>1. /\ a.up # <<>> /\ m.type = "hello"
        /\ conn' = [conn EXCEPT ![t][m.port] = "open"]
        /\ helloPort' = [helloPort EXCEPT ![t] = m.port]
        /\ RegisterTab(t, TRUE) /\ boot' = boot
        /\ Deliver(ts)
    BY DEF ReceiveHello, Takes, Message, Rest, roomVars
  <1>2. DOMAIN ts = TabIds /\ ts[t] = r /\ \A u \in TabIds : u # t => ts[u] = tab[u]
    BY DEF WorkerInv
  <1>3. TabOK(a, helloPort[t], conn[t], told[t])
    BY DEF WorkerInv
  <1>4. /\ TabOK(r, helloPort[t], conn[t], told[t])
        /\ m \in Posted /\ m.port <= a.port
        /\ m.port = a.port /\ a.port # 0 =>
                              /\ a.gen = 0 /\ a.down = <<>>
                              /\ \A i \in DOMAIN r.up : ~IsHello(r, i)
    BY <1>1, <1>3, ReceiptKeepsTab
  <1>5. r.port = a.port /\ r.gen = a.gen /\ r.down = a.down /\ m.port \in 0..MaxPorts
        /\ a.port \in 0..MaxPorts
    BY <1>3, <1>4 DEF TabOK, PortsOK, TabShape, Posted
  <1> HIDE DEF r, m, ts
  <1>6. /\ conn' \in [TabIds -> [Ports -> PortStates]]
        /\ helloPort' \in [TabIds -> 0..MaxPorts]
        /\ helloPort'[t] = m.port
        /\ m.port # 0 => conn'[t][m.port] = "open"
        /\ \A u \in TabIds : u # t => conn'[u] = conn[u] /\ helloPort'[u] = helloPort[u]
    <2>1. conn' = [conn EXCEPT ![t] = [conn[t] EXCEPT ![m.port] = "open"]]
      BY <1>1
    <2>2. /\ [conn[t] EXCEPT ![m.port] = "open"] \in [Ports -> PortStates]
          /\ m.port # 0 => [conn[t] EXCEPT ![m.port] = "open"][m.port] = "open"
      <3>1. "open" \in PortStates /\ conn[t] \in [Ports -> PortStates]
        BY DEF WorkerInv, PortStates
      <3>2. m.port # 0 => m.port \in Ports
        BY <1>5, WorkerAssumption DEF Ports
      <3>3. QED
        BY <3>1, <3>2
    <2>3. /\ helloPort' \in [TabIds -> 0..MaxPorts] /\ helloPort'[t] = m.port
          /\ \A u \in TabIds : u # t => helloPort'[u] = helloPort[u]
      BY <1>1, <1>5 DEF WorkerInv
    <2>4. QED
      BY <2>1, <2>2, <2>3 DEF WorkerInv
  <1>7. /\ disabled' = {} /\ openState' = openState
        /\ Registered \cup {t} \subseteq Registered'
        /\ \A u \in TabIds : NewlyLeased(u) \/ told'[u] = IF u = t THEN 0 ELSE told[u]
    BY <1>1, RegistrationTells DEF WorkerInv
  <1>8. PortsOK(r, helloPort'[t], conn'[t])
    <2>1. Live(r, m.port) => conn'[t][r.port] = "open"
      BY <1>6 DEF Live
    <2>2. ASSUME NEW i \in DOMAIN r.up, IsHello(r, i)
          PROVE  m.port # r.port
      BY <1>4, <1>5, <2>2 DEF IsHello
    <2>3. QED
      BY <1>4, <1>5, <1>6, <2>1, <2>2 DEF TabOK, PortsOK
  <1>9. Live(r, helloPort'[t]) => NewlyLeased(t) \/ Holding(r, told'[t])
    <2>1. ASSUME Live(r, m.port)
          PROVE  Holding(r, 0)
      <3>1. r.gen = 0 /\ r.down = <<>>
        BY <1>4, <1>5, <2>1 DEF Live
      <3>2. QED
        BY <3>1 DEF Holding, Orders
    <2>2. QED
      BY <1>6, <1>7, <2>1
  <1>10. ASSUME NEW u \in TabIds
         PROVE  TabOK(tab'[u], helloPort'[u], conn'[u], told'[u])
    <2>1. CASE u = t
      BY <1>1, <1>2, <1>8, <1>9, <2>1, DeliverKeepsTabs
    <2>2. CASE u # t
      <3>1. /\ PortsOK(ts[u], helloPort'[u], conn'[u])
            /\ Live(ts[u], helloPort'[u]) /\ ~ts[u].lost => Holding(ts[u], told[u])
        BY <1>2, <1>6, <2>2 DEF WorkerInv, TabOK
      <3>2. QED
        BY <1>1, <1>2, <1>7, <2>2, <3>1, DeliverKeepsTabs
    <2>3. QED
      BY <2>1, <2>2
  <1>11. DOMAIN tab' = TabIds
    BY <1>1 DEF Deliver
  <1>12. \A u \in TabIds : helloPort'[u] # 0 => u \in Registered'
    BY <1>6, <1>7 DEF WorkerInv
  <1>13. QED
    BY <1>1, <1>6, <1>7, <1>10, <1>11, <1>12 DEF WorkerInv

(* The coordinator acts, perhaps after a message of tab t has been received;  *)
(* the ports stay as they are.                                              *)
LEMMA OwnerActsKeepsInv ==
  ASSUME IInv, IInv', WorkerInv, NEW ts, DOMAIN ts = TabIds, Deliver(ts),
         \A u \in TabIds : TabOK(ts[u], helloPort[u], conn[u], told[u]),
         UNCHANGED <<conn, helloPort, tabs, disabled>>,
         boot' \in {"no", "opening"} => openState' = "none",
         \A u \in TabIds : NewlyLeased(u) \/ told'[u] = told[u]
  PROVE  WorkerInv'
  <1>1. ASSUME NEW u \in TabIds
        PROVE  TabOK(tab'[u], helloPort'[u], conn'[u], told'[u])
    <2>1. /\ PortsOK(ts[u], helloPort'[u], conn'[u])
          /\ Live(ts[u], helloPort'[u]) /\ ~ts[u].lost => Holding(ts[u], told[u])
      BY DEF TabOK
    <2>2. QED
      BY <2>1, DeliverKeepsTabs
  <1>2. DOMAIN tab' = TabIds
    BY DEF Deliver
  <1>3. Registered' = Registered
    BY DEF Registered
  <1>4. QED
    BY <1>1, <1>2, <1>3 DEF WorkerInv

LEMMA RestKeepsTabs ==
  ASSUME WorkerInv, NEW t \in TabIds, tab[t].up # <<>>
  PROVE  /\ DOMAIN Rest(t) = TabIds
         /\ \A u \in TabIds : TabOK(Rest(t)[u], helloPort[u], conn[u], told[u])
         /\ Message(t) \in Posted /\ Message(t).port <= tab[t].port
         /\ Message(t).type = "close" => tab[t].life # "live"
         /\ Rest(t)[t].life = tab[t].life
  <1> DEFINE a == tab[t]
             r == [a EXCEPT !.up = Tail(a.up)]
  <1>1. TabOK(a, helloPort[t], conn[t], told[t])
    BY DEF WorkerInv
  <1>2. Rest(t) = [tab EXCEPT ![t] = r]
    BY DEF Rest
  <1>3. /\ TabOK(r, helloPort[t], conn[t], told[t])
        /\ Message(t) \in Posted /\ Message(t).port <= a.port
        /\ Message(t).type = "close" => a.life # "live"
    BY <1>1, ReceiptKeepsTab DEF Message
  <1>4. r.life = a.life
    OBVIOUS
  <1> HIDE DEF r
  <1>5. QED
    BY <1>2, <1>3, <1>4 DEF WorkerInv

(* The worker's end of a port changes; it closes or goes only if the tab is    *)
(* not live on it.                                                           *)
LEMMA PortChangeKeepsInv ==
  ASSUME WorkerInv, NEW t \in TabIds, tab[t].up # <<>>,
         NEW i, NEW state \in PortStates,
         state \in {"open", "session"} \/ tab[t].life # "live",
         UNCHANGED <<vars, helloPort>>, boot' \in {boot} \/ (boot' = "opening" /\ boot = "no"),
         conn' = [conn EXCEPT ![t][i] = state], tab' = Rest(t)
  PROVE  WorkerInv'
  <1>1. UNCHANGED <<disabled, openState, told, tabs, helloPort>>
    BY DEF vars
  <1>2. conn' = [conn EXCEPT ![t] = [conn[t] EXCEPT ![i] = state]]
    OBVIOUS
  <1>3. [conn[t] EXCEPT ![i] = state] \in [Ports -> PortStates]
    BY DEF WorkerInv
  <1>4. /\ conn' \in [TabIds -> [Ports -> PortStates]]
        /\ conn'[t] = [conn[t] EXCEPT ![i] = state]
        /\ \A u \in TabIds : u # t => conn'[u] = conn[u]
    BY <1>2, <1>3 DEF WorkerInv
  <1>5. /\ DOMAIN Rest(t) = TabIds /\ Rest(t)[t].life = tab[t].life
        /\ \A u \in TabIds : TabOK(Rest(t)[u], helloPort[u], conn[u], told[u])
    BY RestKeepsTabs
  <1>6. ASSUME NEW u \in TabIds
        PROVE  TabOK(Rest(t)[u], helloPort[u], conn'[u], told[u])
    <2> DEFINE a == Rest(t)[u]
    <2>1. Live(a, helloPort[u]) => conn'[u][a.port] \in {"open", "session"}
      <3>1. CASE u # t
        BY <1>4, <1>5, <3>1 DEF TabOK, PortsOK
      <3>2. CASE u = t
        <4>1. Live(a, helloPort[t]) => state \in {"open", "session"}
          BY <1>5, <3>2 DEF Live
        <4>2. Live(a, helloPort[t]) => conn[t][a.port] \in {"open", "session"}
          BY <1>5, <3>2 DEF TabOK, PortsOK
        <4>3. Live(a, helloPort[t]) => a.port \in Ports
          BY <1>5, <3>2, WorkerAssumption DEF TabOK, PortsOK, TabShape, Live, Ports
        <4>4. a.port \in Ports => conn'[t][a.port] = IF a.port = i THEN state ELSE conn[t][a.port]
          BY <1>4 DEF WorkerInv
        <4>5. QED
          BY <3>2, <4>1, <4>2, <4>3, <4>4
      <3>3. QED
        BY <3>1, <3>2
    <2>2. QED
      BY <1>5, <2>1 DEF TabOK, PortsOK
  <1>7. Registered' = Registered
    BY <1>1 DEF Registered
  <1>8. QED
    BY <1>1, <1>4, <1>5, <1>6, <1>7 DEF WorkerInv

LEMMA ReceiveKeepsInv ==
  ASSUME IInv, IInv', WorkerInv, NEW t \in TabIds, Receive(t)
  PROVE  WorkerInv'
  <1>1. CASE ReceiveHello(t)
    BY <1>1, ReceiveHelloKeepsInv
  <1>2. CASE ReceiveBootstrap(t)
    <2>1. "session" \in PortStates
      BY DEF PortStates
    <2>2. tab[t].up # <<>> /\ conn' = [conn EXCEPT ![t][Message(t).port] = "session"]
          /\ UNCHANGED <<vars, helloPort>> /\ tab' = Rest(t)
          /\ boot' = IF boot = "no" THEN "opening" ELSE boot
      BY <1>2 DEF ReceiveBootstrap, Takes
    <2>3. boot' \in {boot} \/ (boot' = "opening" /\ boot = "no")
      BY <2>2
    <2> DEFINE i == Message(t).port
               state == "session"
    <2>4. state \in PortStates /\ state \in {"open", "session"}
          /\ conn' = [conn EXCEPT ![t][i] = state]
      BY <2>1, <2>2
    <2> HIDE DEF i, state
    <2>5. QED
      BY <2>2, <2>3, <2>4, PortChangeKeepsInv
  <1>3. CASE ReceiveClose(t)
    <2>1. "closed" \in PortStates
      BY DEF PortStates
    <2>2. tab[t].up # <<>> /\ Message(t).type = "close"
          /\ conn' = [conn EXCEPT ![t][Message(t).port] = "closed"]
          /\ UNCHANGED <<vars, helloPort, boot>> /\ tab' = Rest(t)
      BY <1>3 DEF ReceiveClose, Takes, roomVars
    <2>3. tab[t].life # "live"
      BY <2>2, RestKeepsTabs
    <2> DEFINE i == Message(t).port
               state == "closed"
    <2>4. state \in PortStates /\ conn' = [conn EXCEPT ![t][i] = state]
      BY <2>1, <2>2
    <2> HIDE DEF i, state
    <2>5. QED
      BY <2>2, <2>3, <2>4, PortChangeKeepsInv
  <1>4. CASE ReceivePeerAttached(t) \/ ReceivePeerDetached(t)
    <2>1. tab[t].up # <<>> /\ tab' = Rest(t) /\ UNCHANGED <<vars, conn, helloPort, boot>>
      BY <1>4 DEF ReceivePeerAttached, ReceivePeerDetached, Takes
    <2>2. UNCHANGED <<disabled, openState, told, tabs>>
      BY <2>1 DEF vars
    <2>3. Registered' = Registered
      BY <2>2 DEF Registered
    <2>4. QED
      BY <2>1, <2>2, <2>3, RestKeepsTabs DEF WorkerInv
  <1>5. CASE ReceiveAttached(t)
    <2>1. /\ tab[t].up # <<>> /\ Deliver(Rest(t)) /\ UNCHANGED <<conn, helloPort, boot>>
          /\ UNCHANGED <<tabs, disabled, openState, told>>
      BY <1>5 DEF ReceiveAttached, Takes, OwnerAttached, vars, roomVars
    <2>2. QED
      BY <2>1, RestKeepsTabs, OwnerActsKeepsInv DEF WorkerInv
  <1>6. QED
    BY <1>1, <1>2, <1>3, <1>4, <1>5 DEF Receive

LEMMA DisconnectKeepsInv ==
  ASSUME IInv, IInv', WorkerInv, NEW t \in TabIds, NEW i \in Ports, Disconnect(t, i),
         UNCHANGED boot
  PROVE  WorkerInv'
  <1>1. /\ Deliver(tab)
        /\ conn' = [conn EXCEPT ![t] = [conn[t] EXCEPT ![i] = "gone"]]
        /\ helloPort' = [helloPort EXCEPT ![t] = 0]
    BY DEF Disconnect
  <1>2. /\ disabled' = {} /\ openState' = openState
        /\ Registered \subseteq Registered' \cup {t}
        /\ \A u \in TabIds : u # t => NewlyLeased(u) \/ told'[u] = told[u]
    <2>1. CASE UnregisterTab(t)
      BY <2>1, UnregistrationTells DEF WorkerInv
    <2>2. CASE UNCHANGED vars
      BY <2>2 DEF vars, Registered, WorkerInv
    <2>3. QED
      BY <2>1, <2>2 DEF Disconnect
  <1>3. /\ conn' \in [TabIds -> [Ports -> PortStates]]
        /\ helloPort' \in [TabIds -> 0..MaxPorts] /\ helloPort'[t] = 0
        /\ \A u \in TabIds : u # t => helloPort'[u] = helloPort[u] /\ conn'[u] = conn[u]
    <2>1. "gone" \in PortStates
      BY DEF PortStates
    <2>2. [conn[t] EXCEPT ![i] = "gone"] \in [Ports -> PortStates]
      BY <2>1 DEF WorkerInv
    <2>3. 0 \in 0..MaxPorts
      BY WorkerAssumption
    <2>4. QED
      BY <1>1, <2>2, <2>3 DEF WorkerInv
  <1>4. ASSUME NEW u \in TabIds
        PROVE  TabOK(tab'[u], helloPort'[u], conn'[u], told'[u])
    <2>1. CASE u = t
      <3>1. TabOK(tab[t], helloPort[t], conn[t], told[t]) /\ ~Live(tab[t], 0)
        BY DEF WorkerInv, Live
      <3>2. tab[t].port \in Nat
        BY <3>1, WorkerAssumption DEF TabOK, PortsOK, TabShape
      <3>3. PortsOK(tab[t], 0, conn'[t])
        <4>1. \A j \in DOMAIN tab[t].up : IsHello(tab[t], j) => tab[t].port # 0
          BY DEF IsHello
        <4>2. QED
          BY <3>1, <3>2, <4>1 DEF TabOK, PortsOK
      <3>4. QED
        BY <1>1, <1>3, <2>1, <3>1, <3>3, DeliverKeepsTabs DEF WorkerInv
    <2>2. CASE u # t
      <3>1. /\ PortsOK(tab[u], helloPort'[u], conn'[u])
            /\ Live(tab[u], helloPort'[u]) /\ ~tab[u].lost => Holding(tab[u], told[u])
        BY <1>3, <2>2 DEF WorkerInv, TabOK
      <3>2. QED
        BY <1>1, <1>2, <2>2, <3>1, DeliverKeepsTabs DEF WorkerInv
    <2>3. QED
      BY <2>1, <2>2
  <1>5. DOMAIN tab' = TabIds
    BY <1>1 DEF Deliver
  <1>6. \A u \in TabIds : helloPort'[u] # 0 => u \in Registered'
    BY <1>2, <1>3 DEF WorkerInv
  <1>7. QED
    BY <1>2, <1>3, <1>4, <1>5, <1>6 DEF WorkerInv

LEMMA RoomStepsKeepInv ==
  ASSUME IInv, IInv', WorkerInv,
         \/ \E state \in Outcomes : WorkspaceOpens(state)
         \/ RuntimeStarts \/ Commit
         \/ \E p \in Keys : Replay(p) \/ RetryReplay(p)
         \/ \E p \in Pages : LeaderChanges(p)
         \/ UNCHANGED workerVars
  PROVE  WorkerInv'
  <1>1. DOMAIN tab = TabIds /\ \A u \in TabIds : TabOK(tab[u], helloPort[u], conn[u], told[u])
    BY DEF WorkerInv
  <1>2. ASSUME UNCHANGED <<vars, tab, conn, helloPort>>, boot' = boot \/ boot' = "running"
        PROVE  WorkerInv'
    <2>1. UNCHANGED <<disabled, openState, told, tabs>>
      BY <1>2 DEF vars
    <2>2. Registered' = Registered
      BY <2>1 DEF Registered
    <2>3. QED
      BY <1>2, <2>1, <2>2 DEF WorkerInv
  <1>3. ASSUME NEW batches, NEW to, SendBatches(batches, to)
        PROVE  WorkerInv'
    <2>1. /\ Deliver(tab) /\ UNCHANGED <<conn, helloPort, boot>>
          /\ UNCHANGED <<tabs, disabled, openState, told>>
      BY <1>3 DEF SendBatches, SendPacket
    <2>2. QED
      BY <1>1, <2>1, OwnerActsKeepsInv DEF WorkerInv
  <1>4. ASSUME NEW state \in Outcomes, WorkspaceOpens(state)
        PROVE  WorkerInv'
    <2>1. /\ Deliver(tab) /\ UNCHANGED <<conn, helloPort>>
          /\ boot' \notin {"no", "opening"} /\ openState = "none"
      BY <1>4 DEF WorkspaceOpens, WorkerInv
    <2>2. /\ UNCHANGED <<tabs, disabled>>
          /\ \A u \in TabIds : NewlyLeased(u) \/ told'[u] = told[u]
      <3>1. CASE SetWorkspaceOpenState(state)
        BY <2>1, <3>1, OpeningTells
      <3>2. CASE UNCHANGED vars
        BY <3>2 DEF vars
      <3>3. QED
        BY <1>4, <3>1, <3>2 DEF WorkspaceOpens
    <2>3. QED
      BY <1>1, <2>1, <2>2, OwnerActsKeepsInv
  <1>5. CASE RuntimeStarts
    BY <1>2, <1>5 DEF RuntimeStarts
  <1>6. CASE Commit
    BY <1>3, <1>6 DEF Commit
  <1>7. ASSUME NEW p \in Keys, Replay(p)
        PROVE  WorkerInv'
    <2>1. CASE log = 0
      <3>1. UNCHANGED <<vars, tab, conn, helloPort>> /\ boot' = boot
        BY <1>7, <2>1 DEF Replay
      <3>2. QED
        BY <1>2, <3>1
    <2>2. CASE log # 0
      <3>1. SendBatches(1..log, {p})
        BY <1>7, <2>2 DEF Replay
      <3>2. QED
        BY <1>3, <3>1
    <2>3. QED
      BY <2>1, <2>2
  <1>8. ASSUME NEW p \in Keys, RetryReplay(p)
        PROVE  WorkerInv'
    <2>1. UNCHANGED <<vars, tab, conn, helloPort>> /\ boot' = boot
      BY <1>8 DEF RetryReplay
    <2>2. QED
      BY <1>2, <2>1
  <1>9. ASSUME NEW p \in Pages, LeaderChanges(p)
        PROVE  WorkerInv'
    BY <1>2, <1>9 DEF LeaderChanges, roomVars
  <1>10. CASE UNCHANGED workerVars
    BY <1>2, <1>10 DEF workerVars, roomVars
  <1>11. QED
    BY <1>4, <1>5, <1>6, <1>7, <1>8, <1>9, <1>10

LEMMA WorkerInvStep ==
  ASSUME OwnerInv, WorkerInv, [WorkerNext]_workerVars
  PROVE  WorkerInv'
  <1>1. IInv /\ IInv'
    BY WorkerStepIsOwnerStep, NextIInv DEF OwnerInv
  <1>2. CASE \E t \in TabIds, i \in Ports : PortCloses(t, i) \/ PortCollected(t, i)
    BY <1>1, <1>2, DisconnectKeepsInv DEF PortCloses, PortCollected, Disconnect, roomVars
  <1>3. CASE \E t \in TabIds : Receive(t)
    BY <1>1, <1>3, ReceiveKeepsInv
  <1>4. QED
    BY <1>1, <1>2, <1>3, PageStepsKeepInv, RoomStepsKeepInv DEF WorkerNext

(* A tab that is in touch with the worker, over the port of its present role, *)
(* holds the generation the coordinator has told it of once it has read its   *)
(* messages.                                                                *)
THEOREM WorkerInvariant == WorkerSpec => []WorkerInv
  <1>1. OwnerInv /\ WorkerInv /\ [WorkerNext]_workerVars => WorkerInv'
    BY WorkerInvStep
  <1>2. QED
    BY <1>1, WorkerInvInit, WorkerKeepsOwnerInvariant, PTL DEF WorkerSpec

(* No tab that is in touch takes itself for attached while the transport is   *)
(* leased to another tab or under a newer generation, however ports are      *)
(* opened, closed and collected.                                            *)
THEOREM AttachedTabsAreLeased == WorkerSpec => []AttachedTabIsLeased
  <1>1. ASSUME IInv, WorkerInv
        PROVE  AttachedTabIsLeased
    <2> SUFFICES ASSUME NEW t \in TabIds, InTouch(t), tab[t].down = <<>>, tab[t].gen # 0
                 PROVE  Accepts(t, tab[t].gen)
      BY DEF AttachedTabIsLeased
    <2>1. Live(tab[t], helloPort[t]) /\ ~tab[t].lost /\ helloPort[t] # 0
      BY DEF InTouch, Live
    <2>2. Holding(tab[t], told[t]) /\ t \in Registered /\ disabled = {}
      BY <1>1, <2>1 DEF WorkerInv, TabOK
    <2>3. tab[t].gen = told[t]
      BY <2>2 DEF Holding, Orders
    <2>4. QED
      BY <1>1, <2>2, <2>3 DEF IInv, SingleOwner
  <1>2. OwnerInv /\ WorkerInv => AttachedTabIsLeased
    BY <1>1 DEF OwnerInv
  <1>3. QED
    BY <1>2, WorkerInvariant, WorkerKeepsOwnerInvariant, PTL
-----------------------------------------------------------------------------
(***************************************************************************)
(* The room keeps a transport: the tab that holds the lease either has the  *)
(* coordinator's order to attach before it, or its answer is under way, or  *)
(* it is attached; and a tab stays registered only with a port that is      *)
(* open, or with one it has closed itself when it left its session.         *)
(***************************************************************************)
CallOK(a, h, c) ==
  /\ a.life \in {"live", "left", "gone"}
  /\ \A i \in DOMAIN a.up : /\ a.up[i].type = "close" => a.life = "left"
                            /\ a.up[i].type = "hello" => a.up[i].port # 0
  /\ a.life = "live" =>
       \A i \in DOMAIN a.up : a.up[i].type = "hello" => \E j \in DOMAIN a.up : i <= j /\ IsHello(a, j)
  /\ a.life = "live" /\ a.port # 0 =>
       h \in {0, a.port} \/ \E i \in DOMAIN a.up : a.up[i].type = "hello"
  /\ h # 0 => c[h] \in {"open", "session"} \/ (c[h] = "closed" /\ a.life = "left")

(* The order of generation g, or the answer to it, is under way. *)
Owed(a, g) ==
  \/ \E i \in DOMAIN a.down : a.down[i].packet = 0 /\ a.down[i].gen = g
  \/ \E i \in DOMAIN a.up : a.up[i].type = "attached" /\ a.up[i].gen = g

Asks(a, h, l) == Live(a, h) /\ ~a.lost => l.attached \/ Owed(a, l.generation)

KeepInv ==
  /\ \A t \in TabIds : /\ CallOK(tab[t], helloPort[t], conn[t])
                       /\ helloPort[t] # 0 <=> t \in hosts
  /\ lease # NoLease => Asks(tab[lease.tab], helloPort[lease.tab], lease)

(* b owes what a owes. *)
Serves(a, b, h) ==
  Live(b, h) /\ ~b.lost => Live(a, h) /\ ~a.lost /\ \A g \in Nat : Owed(a, g) => Owed(b, g)

LEMMA SameCall ==
  ASSUME NEW a, NEW b, NEW h, NEW c, CallOK(a, h, c),
         b.up = a.up, b.life = a.life, b.port = a.port
  PROVE  CallOK(b, h, c)
  BY DEF CallOK, IsHello

LEMMA FollowsKeepsCall ==
  ASSUME NEW a, NEW b, NEW h, NEW c, CallOK(a, h, c), Follows(a, b)
  PROVE  CallOK(b, h, c) /\ Serves(a, b, h)
  <1>1. /\ Len(a.up) \in Nat /\ Len(b.up) \in Nat
        /\ DOMAIN a.up = 1..Len(a.up) /\ DOMAIN b.up = 1..Len(b.up)
        /\ a.port \in Nat
    BY LenProperties, WorkerAssumption DEF Follows, TabShape
  <1>2. \A i \in DOMAIN b.up : \/ i \in DOMAIN a.up /\ b.up[i] = a.up[i]
                               \/ b.up[i].type \notin {"hello", "close"}
    BY <1>1 DEF Follows, Continues
  <1>3. \A i \in DOMAIN a.up : i \in DOMAIN b.up /\ b.up[i] = a.up[i]
    BY <1>1 DEF Follows, Continues
  <1>4. b.life = a.life /\ b.port = a.port /\ b.lost = a.lost /\ b.down = a.down
    BY DEF Follows
  <1>5. \A i \in DOMAIN b.up : /\ b.up[i].type = "close" => b.life = "left"
                               /\ b.up[i].type = "hello" => b.up[i].port # 0
    BY <1>2, <1>4 DEF CallOK
  <1>6. \A j \in DOMAIN a.up : IsHello(a, j) => IsHello(b, j)
    BY <1>3, <1>4 DEF IsHello
  <1>7. ASSUME b.life = "live", NEW i \in DOMAIN b.up, b.up[i].type = "hello"
        PROVE  \E j \in DOMAIN b.up : i <= j /\ IsHello(b, j)
    <2>1. i \in DOMAIN a.up /\ a.up[i].type = "hello" /\ a.life = "live"
      BY <1>2, <1>4, <1>7
    <2>2. PICK j \in DOMAIN a.up : i <= j /\ IsHello(a, j)
      BY <2>1 DEF CallOK
    <2>3. QED
      BY <1>3, <1>6, <2>2
  <1>8. b.life = "live" /\ b.port # 0 =>
          h \in {0, b.port} \/ \E i \in DOMAIN b.up : b.up[i].type = "hello"
    BY <1>3, <1>4 DEF CallOK
  <1>9. h # 0 => c[h] \in {"open", "session"} \/ (c[h] = "closed" /\ b.life = "left")
    BY <1>4 DEF CallOK
  <1>10. CallOK(b, h, c)
    BY <1>4, <1>5, <1>7, <1>8, <1>9 DEF CallOK
  <1>11. Serves(a, b, h)
    <2>1. \A g \in Nat : Owed(a, g) => Owed(b, g)
      BY <1>3, <1>4 DEF Owed
    <2>2. QED
      BY <1>4, <2>1 DEF Serves, Live
  <1>12. QED
    BY <1>10, <1>11

(* Reading a message: an order that is read is answered.                     *)
LEMMA ReadServes ==
  ASSUME NEW a, NEW b, NEW h, NEW c, TabShape(a), CallOK(a, h, c), a.down # <<>>,
         Follows([a EXCEPT !.down = Tail(a.down), !.gen = Head(a.down).gen], b)
           \/ Follows([a EXCEPT !.down = Tail(a.down)], b),
         Head(a.down).packet = 0 /\ ~a.lost =>
           \E i \in DOMAIN b.up : b.up[i].type = "attached" /\ b.up[i].gen = Head(a.down).gen
  PROVE  CallOK(b, h, c) /\ Serves(a, b, h)
  <1> DEFINE d == a.down
             o == [a EXCEPT !.down = Tail(a.down), !.gen = Head(a.down).gen]
             r == [a EXCEPT !.down = Tail(a.down)]
  <1>1. /\ d \in Seq(ToTab) /\ d # <<>>
        /\ Tail(d) \in Seq(ToTab) /\ Len(Tail(d)) = Len(d) - 1
        /\ \A i \in 1..Len(Tail(d)) : Tail(d)[i] = d[i + 1]
        /\ Head(d) = d[1]
    BY HeadTailProperties DEF TabShape
  <1>2. /\ Len(d) \in Nat \ {0} /\ DOMAIN d = 1..Len(d)
        /\ DOMAIN Tail(d) = 1..(Len(d) - 1)
    BY <1>1, LenProperties, EmptySeq
  <1>3. /\ o.up = a.up /\ o.life = a.life /\ o.port = a.port /\ o.lost = a.lost /\ o.down = Tail(d)
        /\ r.up = a.up /\ r.life = a.life /\ r.port = a.port /\ r.lost = a.lost /\ r.down = Tail(d)
    BY DEF TabShape
  <1> HIDE DEF o, r
  <1>4. CallOK(o, h, c) /\ CallOK(r, h, c)
    BY <1>3, SameCall
  <1>5. CallOK(b, h, c) /\ (Serves(o, b, h) \/ Serves(r, b, h))
    BY <1>4, FollowsKeepsCall DEF o, r
  <1>6. ASSUME NEW g \in Nat, Owed(a, g), ~a.lost, Owed(o, g) \/ Owed(r, g) => Owed(b, g)
        PROVE  Owed(b, g)
    <2>1. CASE \E i \in DOMAIN a.up : a.up[i].type = "attached" /\ a.up[i].gen = g
      BY <1>3, <1>6, <2>1 DEF Owed
    <2>2. ASSUME NEW i \in DOMAIN d, d[i].packet = 0, d[i].gen = g
          PROVE  Owed(b, g)
      <3>1. CASE i = 1
        BY <1>1, <1>6, <2>2, <3>1 DEF Owed
      <3>2. CASE i # 1
        <4>1. i - 1 \in 1..(Len(d) - 1) /\ (i - 1) + 1 = i
          BY <1>2, <3>2
        <4>2. i - 1 \in DOMAIN Tail(d) /\ Tail(d)[i - 1] = d[i]
          BY <1>1, <1>2, <4>1
        <4>3. QED
          BY <1>3, <1>6, <2>2, <4>2 DEF Owed
      <3>3. QED
        BY <3>1, <3>2
    <2>3. QED
      BY <1>6, <2>1, <2>2 DEF Owed
  <1>7. Serves(a, b, h)
    <2> SUFFICES ASSUME Live(b, h), ~b.lost
                 PROVE  Live(a, h) /\ ~a.lost /\ \A g \in Nat : Owed(a, g) => Owed(b, g)
      BY DEF Serves
    <2>1. /\ Live(a, h) /\ ~a.lost
          /\ (\A g \in Nat : Owed(o, g) => Owed(b, g)) \/ (\A g \in Nat : Owed(r, g) => Owed(b, g))
      BY <1>3, <1>5 DEF Serves, Live
    <2>2. \A g \in Nat : Owed(o, g) <=> Owed(r, g)
      BY <1>3 DEF Owed
    <2>3. QED
      BY <1>6, <2>1, <2>2
  <1>8. QED
    BY <1>5, <1>7

LEMMA SayPosts ==
  ASSUME NEW a, TabShape(a), ~a.lost, NEW about \in SUBSET Keys, NEW type \in Types
  PROVE  LET b == Say(a, type, about)
             n == Len(a.up) + 1
         IN /\ TabShape(b) /\ DOMAIN b.up = 1..n /\ DOMAIN a.up = 1..Len(a.up)
            /\ \A i \in DOMAIN a.up : b.up[i] = a.up[i]
            /\ b.up[n].type = type /\ b.up[n].gen = a.gen /\ b.up[n].port = a.port
            /\ b.life = a.life /\ b.port = a.port /\ b.lost = a.lost /\ b.down = a.down
            /\ Len(a.up) \in Nat
  <1> DEFINE m == [type |-> type, port |-> a.port, gen |-> a.gen, peers |-> about]
             b == [a EXCEPT !.up = Append(a.up, m)]
  <1>1. m \in Posted /\ m.type = type /\ m.gen = a.gen /\ m.port = a.port
    BY DEF TabShape, Posted
  <1>2. Say(a, type, about) = b
    BY DEF Say
  <1> HIDE DEF m
  <1>3. /\ Append(a.up, m) \in Seq(Posted)
        /\ Len(Append(a.up, m)) = Len(a.up) + 1
        /\ \A i \in 1..Len(a.up) : Append(a.up, m)[i] = a.up[i]
        /\ Append(a.up, m)[Len(a.up) + 1] = m
    BY <1>1, AppendProperties DEF TabShape
  <1>4. /\ Len(a.up) \in Nat /\ DOMAIN a.up = 1..Len(a.up)
        /\ DOMAIN Append(a.up, m) = 1..(Len(a.up) + 1)
    BY <1>3, LenProperties DEF TabShape
  <1>5. /\ TabShape(b) /\ b.up = Append(a.up, m)
        /\ b.life = a.life /\ b.port = a.port /\ b.lost = a.lost /\ b.down = a.down
    BY <1>3 DEF TabShape
  <1> HIDE DEF b
  <1>6. QED
    BY <1>1, <1>2, <1>3, <1>4, <1>5

(* A tab that has left, or is gone, is asked for nothing. *)
LEMMA DepartedKeepsCall ==
  ASSUME NEW a, NEW h, NEW c, TabShape(a), CallOK(a, h, c), a.life = "live",
         \A i \in DOMAIN a.up : a.up[i].type # "close"
  PROVE  /\ CallOK(Departed(a, "gone"), h, c) /\ Serves(a, Departed(a, "gone"), h)
         /\ CallOK(Departed(Say(a, "close", {}), "left"), h, c)
         /\ Serves(a, Departed(Say(a, "close", {}), "left"), h)
  <1>1. ASSUME NEW b, NEW life \in {"gone", "left"}, TabShape(b),
               \A i \in DOMAIN b.up : \/ i \in DOMAIN a.up /\ b.up[i] = a.up[i]
                                      \/ b.up[i].type = "close" /\ life = "left"
        PROVE  CallOK(Departed(b, life), h, c) /\ Serves(a, Departed(b, life), h)
    <2> DEFINE e == Departed(b, life)
    <2>1. e.life = life /\ e.up = b.up
      BY DEF Departed, NewTab
    <2> HIDE DEF e
    <2>2. \A i \in DOMAIN e.up : /\ e.up[i].type = "close" => e.life = "left"
                                 /\ e.up[i].type = "hello" => e.up[i].port # 0
      BY <1>1, <2>1 DEF CallOK
    <2>3. CallOK(e, h, c)
      BY <2>1, <2>2 DEF CallOK
    <2>4. Serves(a, e, h)
      BY <2>1 DEF Serves, Live
    <2>5. QED
      BY <2>3, <2>4 DEF e
  <1>2. CallOK(Departed(a, "gone"), h, c) /\ Serves(a, Departed(a, "gone"), h)
    BY <1>1
  <1>3. /\ CallOK(Departed(Say(a, "close", {}), "left"), h, c)
        /\ Serves(a, Departed(Say(a, "close", {}), "left"), h)
    <2> DEFINE b == Say(a, "close", {})
    <2>1. CASE a.lost
      BY <1>1, <2>1 DEF Say
    <2>2. CASE ~a.lost
      <3>1. "close" \in Types /\ {} \in SUBSET Keys
        BY DEF Types
      <3>2. /\ TabShape(b) /\ DOMAIN b.up = 1..(Len(a.up) + 1) /\ DOMAIN a.up = 1..Len(a.up)
            /\ \A i \in DOMAIN a.up : b.up[i] = a.up[i]
            /\ b.up[Len(a.up) + 1].type = "close" /\ Len(a.up) \in Nat
        BY <2>2, <3>1, SayPosts
      <3> HIDE DEF b
      <3>3. \A i \in DOMAIN b.up : \/ i \in DOMAIN a.up /\ b.up[i] = a.up[i]
                                   \/ b.up[i].type = "close"
        BY <3>2
      <3>4. CallOK(Departed(b, "left"), h, c) /\ Serves(a, Departed(b, "left"), h)
        BY <1>1, <3>2, <3>3
      <3>5. QED
        BY <3>4 DEF b
    <2>3. QED
      BY <2>1, <2>2
  <1>4. QED
    BY <1>2, <1>3

(* A tab that opens another port is not registered with it. *)
LEMMA ActivatedKeepsCall ==
  ASSUME NEW a, NEW h \in Nat, NEW c, NEW server, TabShape(a), CallOK(a, h, c),
         h <= a.port, a.port < MaxPorts, a.life = "live",
         \A i \in DOMAIN a.up : a.up[i].type # "close"
  PROVE  CallOK(Activated(a, server), h, c) /\ Serves(a, Activated(a, server), h)
  <1> DEFINE n == [NewTab EXCEPT !.port = a.port + 1, !.server = server, !.up = a.up]
             b == Say(n, "hello", {})
  <1>1. TabShape(a) /\ a.port \in Nat /\ MaxPorts \in Nat
    BY WorkerAssumption DEF TabShape
  <1>2. <<>> \in Seq(ToTab)
    BY EmptySeq
  <1>3. TabShape(n) /\ n.life = "live" /\ n.port = a.port + 1 /\ n.up = a.up /\ ~n.lost
        /\ n.gen = 0 /\ n.down = <<>>
    BY <1>1, <1>2 DEF TabShape, NewTab
  <1> HIDE DEF n
  <1>4. {"hello", "bootstrap"} \subseteq Types /\ {} \in SUBSET Keys
    BY DEF Types
  <1>a. "hello" \in Types
    BY <1>4
  <1>b. /\ TabShape(b) /\ DOMAIN b.up = 1..(Len(n.up) + 1) /\ DOMAIN n.up = 1..Len(n.up)
        /\ \A i \in DOMAIN n.up : b.up[i] = n.up[i]
        /\ b.up[Len(n.up) + 1].type = "hello" /\ b.up[Len(n.up) + 1].port = n.port
        /\ b.life = n.life /\ b.port = n.port /\ Len(n.up) \in Nat
    <2>1. TabShape(n) /\ ~n.lost
      BY <1>3
    <2>2. QED
      BY <1>4, <1>a, <2>1, SayPosts
  <1> HIDE DEF b
  <1>5. /\ TabShape(b) /\ DOMAIN b.up = 1..(Len(a.up) + 1) /\ DOMAIN a.up = 1..Len(a.up)
        /\ \A i \in DOMAIN a.up : b.up[i] = a.up[i]
        /\ b.up[Len(a.up) + 1].type = "hello" /\ b.up[Len(a.up) + 1].port = a.port + 1
        /\ b.life = "live" /\ b.port = a.port + 1 /\ Len(a.up) \in Nat
    BY <1>3, <1>b
  <1>6. Len(a.up) + 1 \in DOMAIN b.up /\ IsHello(b, Len(a.up) + 1)
        /\ \A i \in DOMAIN b.up : i <= Len(a.up) + 1
    BY <1>1, <1>5 DEF IsHello
  <1>7. \A i \in DOMAIN b.up : (i \in DOMAIN a.up /\ b.up[i] = a.up[i]) \/ i = Len(a.up) + 1
    BY <1>5
  <1>8. \A i \in DOMAIN b.up : /\ b.up[i].type # "close"
                               /\ b.up[i].type = "hello" => b.up[i].port # 0
    <2>1. a.port + 1 # 0
      BY <1>1
    <2>2. \A i \in DOMAIN a.up : a.up[i].type = "hello" => a.up[i].port # 0
      BY DEF CallOK
    <2>3. QED
      BY <1>5, <1>7, <2>1, <2>2
  <1>9. h # 0 => c[h] \in {"open", "session"}
    BY DEF CallOK
  <1>10. CallOK(b, h, c)
    BY <1>5, <1>6, <1>8, <1>9 DEF CallOK
  <1>11. Follows(b, Say(b, "bootstrap", {}))
    <2>1. "bootstrap" \in Types \ {"hello", "close"}
      BY <1>4
    <2>2. QED
      BY <1>4, <1>5, <2>1, SayFollows
  <1>12. Activated(a, server) = Say(b, "bootstrap", {})
    BY DEF Activated, b, n
  <1>13. CallOK(Activated(a, server), h, c) /\ Serves(b, Activated(a, server), h)
    BY <1>10, <1>11, <1>12, FollowsKeepsCall
  <1>14. ~Live(b, h)
    BY <1>1, <1>5 DEF Live
  <1>15. QED
    BY <1>13, <1>14 DEF Serves

LEMMA PageStepKeepsCalls ==
  ASSUME IInv, WorkerInv, KeepInv, NEW t \in TabIds, NEW b,
         UNCHANGED <<vars, conn, helloPort>>, tab' = [tab EXCEPT ![t] = b],
         CallOK(b, helloPort[t], conn[t]), Serves(tab[t], b, helloPort[t])
  PROVE  KeepInv'
  <1>1. DOMAIN tab = TabIds /\ \A u \in TabIds : tab'[u] = IF u = t THEN b ELSE tab[u]
    BY DEF WorkerInv
  <1>2. UNCHANGED <<lease, hosts, conn, helloPort>>
    BY DEF vars
  <1>3. \A u \in TabIds : /\ CallOK(tab'[u], helloPort'[u], conn'[u])
                          /\ helloPort'[u] # 0 <=> u \in hosts'
    BY <1>1, <1>2 DEF KeepInv
  <1>4. ASSUME lease # NoLease
        PROVE  Asks(tab'[lease.tab], helloPort[lease.tab], lease)
    <2>1. lease.tab \in TabIds /\ lease.generation \in Nat
      BY <1>4 DEF IInv, TypeOK, Leases
    <2>2. Asks(tab[lease.tab], helloPort[lease.tab], lease)
      BY <1>4 DEF KeepInv
    <2>3. CASE lease.tab # t
      BY <1>1, <2>1, <2>2, <2>3
    <2>4. CASE lease.tab = t
      <3>1. Asks(b, helloPort[t], lease)
        BY <2>1, <2>2, <2>4 DEF Asks, Serves
      <3>2. QED
        BY <1>1, <2>4, <3>1
    <2>5. QED
      BY <2>3, <2>4
  <1>5. QED
    BY <1>2, <1>3, <1>4 DEF KeepInv

LEMMA PageStepsKeepCalls ==
  ASSUME IInv, WorkerInv, KeepInv, NEW t \in TabIds,
         \/ Activate(t) \/ SessionLost(t) \/ Read(t) \/ PageGone(t) \/ CloseSession(t)
         \/ \E p \in Keys : ChannelOpens(t, p) \/ ChannelBreaks(t, p)
  PROVE  KeepInv'
  <1> DEFINE a == tab[t]
             h == helloPort[t]
             c == conn[t]
             Keeps(b) == CallOK(b, h, c) /\ Serves(a, b, h)
  <1>1. /\ TabShape(a) /\ h \in Nat /\ CallOK(a, h, c) /\ h <= a.port
        /\ a.life = "live" => \A i \in DOMAIN a.up : a.up[i].type # "close"
    BY WorkerAssumption DEF WorkerInv, TabOK, PortsOK, KeepInv
  <1>2. ASSUME NEW b, tab' = [tab EXCEPT ![t] = b], Keeps(b), UNCHANGED <<vars, conn, helloPort>>
        PROVE  KeepInv'
    BY <1>2, PageStepKeepsCalls
  <1>3. CASE Activate(t)
    <2>1. Keeps(Activated(a, leader))
      BY <1>1, <1>3, ActivatedKeepsCall DEF Activate
    <2>2. QED
      BY <1>2, <1>3, <2>1 DEF Activate
  <1>4. CASE SessionLost(t)
    <2> DEFINE b == [a EXCEPT !.lost = TRUE, !.down = <<>>]
    <2>1. b.up = a.up /\ b.life = a.life /\ b.port = a.port /\ b.lost
      BY <1>1 DEF TabShape
    <2>2. tab' = [tab EXCEPT ![t] = b] /\ UNCHANGED <<vars, conn, helloPort>>
      BY <1>4 DEF SessionLost
    <2> HIDE DEF b
    <2>3. Keeps(b)
      BY <1>1, <2>1, SameCall DEF Serves
    <2>4. QED
      BY <1>2, <2>2, <2>3
  <1>5. CASE PageGone(t)
    <2>1. Keeps(Departed(a, "gone"))
      BY <1>1, <1>5, DepartedKeepsCall DEF PageGone
    <2>2. QED
      BY <1>2, <1>5, <2>1 DEF PageGone
  <1>6. CASE CloseSession(t)
    <2>1. Keeps(Departed(Say(a, "close", {}), "left"))
      BY <1>1, <1>6, DepartedKeepsCall DEF CloseSession
    <2>2. QED
      BY <1>2, <1>6, <2>1 DEF CloseSession
  <1>7. ASSUME NEW p \in Keys, ChannelOpens(t, p)
        PROVE  KeepInv'
    <2> DEFINE o == [a EXCEPT !.channel[p] = "open"]
               b == Flush(Announce(o))
    <2>1. Follows(a, o)
      BY <1>1, BookkeepingFollows
    <2>2. Follows(o, Announce(o)) /\ Follows(Announce(o), b)
      <3>1. TabShape(o)
        BY <2>1 DEF Follows
      <3> HIDE DEF o
      <3>2. Follows(o, Announce(o))
        BY <3>1, AnnounceFollows
      <3>3. TabShape(Announce(o))
        BY <3>2 DEF Follows
      <3>4. QED
        BY <3>2, <3>3, FlushFollows
    <2>3. Keeps(b)
      BY <1>1, <2>1, <2>2, FollowsTransitive, FollowsKeepsCall
    <2>4. tab' = [tab EXCEPT ![t] = b] /\ UNCHANGED <<vars, conn, helloPort>>
      BY <1>7 DEF ChannelOpens
    <2> HIDE DEF b
    <2>5. QED
      BY <1>2, <2>3, <2>4
  <1>8. ASSUME NEW p \in Keys, ChannelBreaks(t, p)
        PROVE  KeepInv'
    <2> DEFINE b == [a EXCEPT !.channel[p] = "broken"]
    <2>1. Follows(a, b)
      BY <1>1, BookkeepingFollows
    <2>2. tab' = [tab EXCEPT ![t] = b] /\ UNCHANGED <<vars, conn, helloPort>>
      BY <1>8 DEF ChannelBreaks
    <2> HIDE DEF b
    <2>3. QED
      BY <1>1, <1>2, <2>1, <2>2, FollowsKeepsCall
  <1>9. CASE Read(t)
    <2> DEFINE m == Head(a.down)
               r == [a EXCEPT !.down = Tail(a.down)]
               o == [a EXCEPT !.down = Tail(a.down), !.gen = m.gen]
               b == IF m.packet = 0 THEN Attach(r, m.gen)
                    ELSE IF m.gen = r.gen THEN Send(r, <<m>>) ELSE r
    <2>1. a.down # <<>> /\ UNCHANGED <<vars, conn, helloPort>> /\ tab' = [tab EXCEPT ![t] = b]
      BY <1>9 DEF Read
    <2>2. Attach(r, m.gen) = Say(Flush(Announce(o)), "attached", {})
      BY <1>1 DEF Attach, TabShape
    <2>3. /\ Tail(a.down) \in Seq(ToTab) /\ m \in ToTab
      BY <1>1, <2>1, HeadTailProperties DEF TabShape
    <2>4. /\ TabShape(o) /\ TabShape(r)
          /\ o.gen = m.gen /\ o.lost = a.lost
      <3>1. m.gen \in Nat
        BY <2>3 DEF ToTab
      <3> HIDE DEF m
      <3>2. QED
        BY <1>1, <2>3, <3>1 DEF TabShape
    <2> HIDE DEF o, r, m
    <2>5. ASSUME m.packet = 0
          PROVE  /\ Follows(o, b)
                 /\ ~a.lost => \E i \in DOMAIN b.up : b.up[i].type = "attached" /\ b.up[i].gen = m.gen
      <3> DEFINE f == Flush(Announce(o))
      <3>1. Follows(o, Announce(o))
        BY <2>4, AnnounceFollows
      <3>2. Follows(o, f)
        BY <3>1, FlushFollows, FollowsTransitive DEF Follows
      <3>3. "attached" \in Types \ {"hello", "close"} /\ {} \in SUBSET Keys
        BY DEF Types
      <3>4. TabShape(f) /\ f.gen = m.gen /\ f.lost = a.lost
        BY <2>4, <3>2 DEF Follows
      <3>5. b = Say(f, "attached", {})
        BY <2>2, <2>5
      <3> HIDE DEF f, b
      <3>6. Follows(f, b)
        BY <3>3, <3>4, <3>5, SayFollows
      <3>7. ASSUME ~a.lost
            PROVE  \E i \in DOMAIN b.up : b.up[i].type = "attached" /\ b.up[i].gen = m.gen
        <4>1. /\ DOMAIN b.up = 1..(Len(f.up) + 1) /\ Len(f.up) \in Nat
              /\ b.up[Len(f.up) + 1].type = "attached" /\ b.up[Len(f.up) + 1].gen = f.gen
          BY <3>3, <3>4, <3>5, <3>7, SayPosts
        <4>2. Len(f.up) + 1 \in DOMAIN b.up
          BY <4>1
        <4>3. QED
          BY <3>4, <4>1, <4>2
      <3>8. QED
        BY <3>2, <3>6, <3>7, FollowsTransitive
    <2>6. ASSUME m.packet # 0
          PROVE  Follows(r, b)
      BY <2>4, <2>6, SendFollows, FollowsItself
    <2> HIDE DEF b
    <2>7. Keeps(b)
      <3>1. Follows(o, b) \/ Follows(r, b)
        BY <2>5, <2>6
      <3>2. m.packet = 0 /\ ~a.lost =>
              \E i \in DOMAIN b.up : b.up[i].type = "attached" /\ b.up[i].gen = m.gen
        BY <2>5
      <3>3. QED
        BY <1>1, <2>1, <3>1, <3>2, ReadServes DEF o, r, m
    <2>8. QED
      BY <1>2, <2>1, <2>7
  <1>10. QED
    BY <1>3, <1>4, <1>5, <1>6, <1>7, <1>8, <1>9

-----------------------------------------------------------------------------
(* What the coordinator pushes to a tab adds to what is owed.                *)
LEMMA PushServes ==
  ASSUME NEW a, TabShape(a), NEW P \in Seq(ToTab)
  PROVE  LET b == [a EXCEPT !.down = a.down \o P]
         IN /\ b.up = a.up /\ b.life = a.life /\ b.port = a.port /\ b.lost = a.lost
            /\ \A g \in Nat : Owed(a, g) => Owed(b, g)
            /\ Len(P) > 0 /\ P[1].packet = 0 => Owed(b, P[1].gen)
  <1> DEFINE d == a.down
             r == d \o P
             b == [a EXCEPT !.down = r]
  <1>1. d \in Seq(ToTab)
    BY DEF TabShape
  <1>2. /\ r \in Seq(ToTab)
        /\ Len(r) = Len(d) + Len(P)
        /\ \A i \in 1..(Len(d) + Len(P)) : r[i] = IF i <= Len(d) THEN d[i] ELSE P[i - Len(d)]
    BY <1>1, ConcatProperties
  <1>3. /\ Len(d) \in Nat /\ Len(P) \in Nat /\ DOMAIN d = 1..Len(d)
        /\ DOMAIN r = 1..(Len(d) + Len(P))
    BY <1>1, <1>2, LenProperties
  <1> HIDE DEF r
  <1>4. /\ b.up = a.up /\ b.life = a.life /\ b.port = a.port /\ b.lost = a.lost /\ b.down = r
    BY DEF TabShape
  <1> HIDE DEF b
  <1>5. \A i \in DOMAIN d : i \in DOMAIN r /\ r[i] = d[i]
    BY <1>2, <1>3
  <1>6. ASSUME Len(P) > 0
        PROVE  Len(d) + 1 \in DOMAIN r /\ r[Len(d) + 1] = P[1]
    <2>1. /\ Len(d) + 1 \in 1..(Len(d) + Len(P)) /\ (Len(d) + 1) - Len(d) = 1
          /\ ~(Len(d) + 1 <= Len(d))
      BY <1>3, <1>6
    <2>2. QED
      BY <1>2, <1>3, <2>1
  <1>7. \A g \in Nat : Owed(a, g) => Owed(b, g)
    BY <1>4, <1>5 DEF Owed
  <1>8. Len(P) > 0 /\ P[1].packet = 0 => Owed(b, P[1].gen)
    BY <1>4, <1>6 DEF Owed
  <1>9. QED
    BY <1>4, <1>7, <1>8 DEF b, r

LEMMA OwnerStepKeepsCalls ==
  ASSUME IInv, IInv', WorkerInv', NEW ts, DOMAIN ts = TabIds, Deliver(ts),
         \A u \in TabIds : /\ TabShape(ts[u]) /\ CallOK(ts[u], helloPort'[u], conn'[u])
                           /\ helloPort'[u] # 0 <=> u \in hosts',
         lease' # NoLease =>
           NewlyLeased(lease'.tab) \/ Asks(ts[lease'.tab], helloPort'[lease'.tab], lease')
  PROVE  KeepInv'
  <1>1. ASSUME NEW u \in TabIds
        PROVE  /\ tab'[u].up = ts[u].up /\ tab'[u].life = ts[u].life
               /\ tab'[u].port = ts[u].port /\ tab'[u].lost = ts[u].lost
               /\ \A g \in Nat : Owed(ts[u], g) => Owed(tab'[u], g)
               /\ NewlyLeased(u) /\ Listens(ts, u) => Owed(tab'[u], told'[u])
    <2> DEFINE a == ts[u]
               P == Pushed(u)
               b == [a EXCEPT !.down = a.down \o P]
    <2>1. tab'[u] = IF Listens(ts, u) THEN b ELSE a
      BY DEF Deliver
    <2>2. /\ P \in Seq(ToTab)
          /\ \A i \in 1..Len(P) : P[i].gen = told'[u]
          /\ NewlyLeased(u) => Len(P) > 0 /\ P[1].packet = 0
      BY PushedFacts
    <2>3. TabShape(a)
      OBVIOUS
    <2> HIDE DEF a, P
    <2>4. /\ b.up = a.up /\ b.life = a.life /\ b.port = a.port /\ b.lost = a.lost
          /\ \A g \in Nat : Owed(a, g) => Owed(b, g)
          /\ Len(P) > 0 /\ P[1].packet = 0 => Owed(b, P[1].gen)
      BY <2>2, <2>3, PushServes
    <2> HIDE DEF b
    <2>5. Len(P) > 0 => P[1].gen = told'[u]
      <3>1. Len(P) \in Nat
        BY <2>2, LenProperties
      <3>2. Len(P) > 0 => 1 \in 1..Len(P)
        BY <3>1
      <3>3. QED
        BY <2>2, <3>2
    <2>6. NewlyLeased(u) /\ Listens(ts, u) => Owed(tab'[u], told'[u])
      BY <2>1, <2>2, <2>4, <2>5
    <2>7. /\ tab'[u].up = a.up /\ tab'[u].life = a.life
          /\ tab'[u].port = a.port /\ tab'[u].lost = a.lost
          /\ \A g \in Nat : Owed(a, g) => Owed(tab'[u], g)
      BY <2>1, <2>4
    <2>8. QED
      BY <2>6, <2>7 DEF a
  <1>2. \A u \in TabIds : CallOK(tab'[u], helloPort'[u], conn'[u])
    BY <1>1, SameCall
  <1>3. ASSUME lease' # NoLease
        PROVE  Asks(tab'[lease'.tab], helloPort'[lease'.tab], lease')
    <2> DEFINE u == lease'.tab
    <2>1. /\ u \in TabIds /\ lease'.generation \in Nat
          /\ told'[u] = lease'.generation
      BY <1>3 DEF IInv, TypeOK, Leases, SingleOwner
    <2> SUFFICES ASSUME Live(tab'[u], helloPort'[u]), ~tab'[u].lost
                 PROVE  lease'.attached \/ Owed(tab'[u], lease'.generation)
      BY DEF Asks
    <2>2. Live(ts[u], helloPort'[u]) /\ ~ts[u].lost
      BY <1>1, <2>1 DEF Live
    <2>3. CASE NewlyLeased(u)
      <3>1. conn'[u][ts[u].port] \in {"open", "session"}
        BY <1>1, <2>1 DEF WorkerInv, TabOK, PortsOK
      <3>2. Listens(ts, u)
        BY <2>2, <3>1 DEF Listens, Live
      <3>3. QED
        BY <1>1, <2>1, <2>3, <3>2
    <2>4. CASE Asks(ts[u], helloPort'[u], lease')
      BY <1>1, <2>1, <2>2, <2>4 DEF Asks
    <2>5. QED
      BY <1>3, <2>3, <2>4
  <1>4. QED
    BY <1>2, <1>3 DEF KeepInv

(* Whom a step of the coordinator leases the transport. *)
LEMMA ElectionLeases ==
  ASSUME TypeOK, TypeOK', NEW l, NEW forget, ElectOwner(l, forget)
  PROVE  lease' = l \/ NewlyLeased(lease'.tab)
  <1>1. ASSUME NEW t \in TabIds, AttachOwner(t, forget)
        PROVE  NewlyLeased(lease'.tab)
    <2>1. generation \in Nat
      BY DEF TypeOK
    <2>2. lease' # NoLease /\ lease'.tab = t /\ generation' > generation
      BY <1>1, <2>1, NewLeaseType DEF AttachOwner
    <2>3. QED
      BY <2>2 DEF NewlyLeased
  <1>2. \A i \in DOMAIN tabs' : tabs'[i] \in TabIds
    BY LenProperties, ElementOfSeq DEF TypeOK
  <1>3. QED
    BY <1>1, <1>2 DEF ElectOwner, KeepLease

LEMMA RegistrationLeases ==
  ASSUME TypeOK, TypeOK', NEW t \in TabIds, RegisterTab(t, TRUE)
  PROVE  /\ hosts' = hosts \cup {t}
         /\ lease' # NoLease => NewlyLeased(lease'.tab) \/ (lease' = lease /\ lease.tab # t)
  <1>1. CASE AttachOwner(t, {})
    <2>1. generation \in Nat
      BY DEF TypeOK
    <2>2. lease' # NoLease /\ lease'.tab = t /\ generation' > generation
      BY <1>1, <2>1, NewLeaseType DEF AttachOwner
    <2>3. QED
      BY <2>2 DEF NewlyLeased, RegisterTab
  <1>2. CASE ElectOwner(IF Holds(t) THEN NoLease ELSE lease, {t})
    <2>1. lease' = (IF Holds(t) THEN NoLease ELSE lease) \/ NewlyLeased(lease'.tab)
      BY <1>2, ElectionLeases
    <2>2. QED
      BY <2>1 DEF RegisterTab, Holds
  <1>3. QED
    BY <1>1, <1>2 DEF RegisterTab

LEMMA UnregistrationLeases ==
  ASSUME TypeOK, TypeOK', NEW t \in TabIds, UnregisterTab(t)
  PROVE  /\ hosts' = hosts \ {t}
         /\ lease' # NoLease => NewlyLeased(lease'.tab) \/ lease' = lease
  BY ElectionLeases DEF UnregisterTab, KeepLease

LEMMA OpeningLeases ==
  ASSUME TypeOK, TypeOK', NEW state, SetWorkspaceOpenState(state), lease = NoLease
  PROVE  hosts' = hosts /\ (lease' # NoLease => NewlyLeased(lease'.tab))
  BY ElectionLeases DEF SetWorkspaceOpenState, KeepLease

-----------------------------------------------------------------------------
(* What receiving a message makes of the calls of the tab that posted it.     *)
LEMMA ReceiptKeepsCall ==
  ASSUME NEW a, NEW h, NEW c, NEW h2, NEW c2, TabShape(a), CallOK(a, h, c), a.up # <<>>,
         h2 = (IF Head(a.up).type = "hello" THEN Head(a.up).port ELSE h),
         h2 # 0 => c2[h2] \in {"open", "session"} \/ (c2[h2] = "closed" /\ a.life = "left")
  PROVE  LET m == Head(a.up)
             b == [a EXCEPT !.up = Tail(a.up)]
         IN /\ TabShape(b) /\ CallOK(b, h2, c2)
            /\ m.type = "hello" => m.port # 0
            /\ m.type = "close" => a.life = "left"
            /\ b.life = a.life /\ b.port = a.port /\ b.lost = a.lost
            /\ \A g \in Nat : Owed(a, g) => Owed(b, g) \/ (m.type = "attached" /\ m.gen = g)
  <1> DEFINE m == Head(a.up)
             r == Tail(a.up)
             b == [a EXCEPT !.up = r]
  <1>1. a.up \in Seq(Posted)
    BY DEF TabShape
  <1>2. /\ r \in Seq(Posted)
        /\ Len(r) = Len(a.up) - 1
        /\ \A i \in 1..Len(r) : r[i] = a.up[i + 1]
        /\ m = a.up[1] /\ m \in Posted
    BY <1>1, HeadTailProperties
  <1>3. /\ Len(a.up) \in Nat \ {0} /\ DOMAIN a.up = 1..Len(a.up) /\ DOMAIN r = 1..(Len(a.up) - 1)
    BY <1>1, <1>2, LenProperties, EmptySeq
  <1>4. /\ TabShape(b) /\ b.up = r /\ b.life = a.life /\ b.port = a.port /\ b.lost = a.lost
        /\ b.down = a.down
    BY <1>2 DEF TabShape
  <1> HIDE DEF b, r
  <1>5. \A i \in DOMAIN r : i \in Nat /\ i + 1 \in DOMAIN a.up /\ r[i] = a.up[i + 1]
    BY <1>2, <1>3
  <1>6. ASSUME NEW i \in DOMAIN a.up, i # 1
        PROVE  i - 1 \in DOMAIN r /\ r[i - 1] = a.up[i] /\ i \in Nat
    <2>1. i - 1 \in 1..(Len(a.up) - 1) /\ (i - 1) + 1 = i /\ i \in Nat
      BY <1>3, <1>6
    <2>2. QED
      BY <1>2, <1>3, <2>1
  <1>7. 1 \in DOMAIN a.up
    BY <1>3
  <1> HIDE DEF m
  <1>8. /\ m.type = "hello" => m.port # 0
        /\ m.type = "close" => a.life = "left"
    BY <1>2, <1>7 DEF CallOK
  <1>9. \A g \in Nat : Owed(a, g) => Owed(b, g) \/ (m.type = "attached" /\ m.gen = g)
    <2> SUFFICES ASSUME NEW g \in Nat, NEW i \in DOMAIN a.up, a.up[i].type = "attached",
                        a.up[i].gen = g
                 PROVE  Owed(b, g) \/ (m.type = "attached" /\ m.gen = g)
      BY <1>4 DEF Owed
    <2>1. CASE i = 1
      BY <1>2, <2>1
    <2>2. CASE i # 1
      BY <1>4, <1>6, <2>2 DEF Owed
    <2>3. QED
      BY <2>1, <2>2
  <1>10. CallOK(b, h2, c2)
    <2>1. \A i \in DOMAIN b.up : /\ b.up[i].type = "close" => b.life = "left"
                                 /\ b.up[i].type = "hello" => b.up[i].port # 0
      BY <1>4, <1>5 DEF CallOK
    <2>2. ASSUME b.life = "live", NEW i \in DOMAIN b.up, b.up[i].type = "hello"
          PROVE  \E j \in DOMAIN b.up : i <= j /\ IsHello(b, j)
      <3>1. i \in Nat /\ i + 1 \in DOMAIN a.up /\ a.up[i + 1].type = "hello" /\ a.life = "live"
            /\ 1 <= i
        <4>1. i \in DOMAIN r /\ r[i].type = "hello" /\ a.life = "live"
          BY <1>4, <2>2
        <4>2. i \in Nat /\ i + 1 \in DOMAIN a.up /\ r[i] = a.up[i + 1] /\ 1 <= i
          BY <1>3, <1>5, <4>1
        <4>3. QED
          BY <4>1, <4>2
      <3>2. PICK j \in DOMAIN a.up : i + 1 <= j /\ IsHello(a, j)
        BY <3>1 DEF CallOK
      <3>3. j # 1 /\ i <= j - 1
        <4>1. j \in Nat
          BY <1>3
        <4>2. QED
          BY <3>1, <3>2, <4>1
      <3>4. j - 1 \in DOMAIN b.up /\ IsHello(b, j - 1)
        BY <1>4, <1>6, <3>2, <3>3 DEF IsHello
      <3>5. QED
        BY <3>3, <3>4
    <2>3. ASSUME b.life = "live", b.port # 0
          PROVE  h2 \in {0, b.port} \/ \E i \in DOMAIN b.up : b.up[i].type = "hello"
      <3>1. CASE m.type = "hello"
        <4>1. PICK j \in DOMAIN a.up : IsHello(a, j)
          BY <1>2, <1>4, <1>7, <2>3, <3>1 DEF CallOK
        <4>2. CASE j = 1
          BY <1>2, <1>4, <3>1, <4>1, <4>2 DEF IsHello, m
        <4>3. CASE j # 1
          BY <1>4, <1>6, <4>1, <4>3 DEF IsHello
        <4>4. QED
          BY <4>2, <4>3
      <3>2. CASE m.type # "hello"
        <4>1. h2 = h
          BY <3>2 DEF m
        <4>2. h \in {0, a.port} \/ \E i \in DOMAIN a.up : a.up[i].type = "hello"
          BY <1>4, <2>3 DEF CallOK
        <4>3. \A i \in DOMAIN a.up : a.up[i].type = "hello" => i # 1
          BY <1>2, <3>2
        <4>4. QED
          BY <1>4, <1>6, <4>1, <4>2, <4>3
      <3>3. QED
        BY <3>1, <3>2
    <2>4. h2 # 0 => c2[h2] \in {"open", "session"} \/ (c2[h2] = "closed" /\ b.life = "left")
      BY <1>4
    <2>5. QED
      BY <1>4, <2>1, <2>2, <2>3, <2>4 DEF CallOK
  <1>11. QED
    BY <1>4, <1>8, <1>9, <1>10 DEF m, b, r

(* A message that changes nothing of the coordinator is received. *)
LEMMA ReceiptKeepsCalls ==
  ASSUME IInv, WorkerInv, KeepInv, NEW t \in TabIds, tab[t].up # <<>>,
         Message(t).type \notin {"hello", "attached"}, UNCHANGED <<vars, helloPort>>,
         tab' = Rest(t), \A u \in TabIds : u # t => conn'[u] = conn[u],
         helloPort[t] # 0 => \/ conn'[t][helloPort[t]] \in {"session", conn[t][helloPort[t]]}
                             \/ conn'[t][helloPort[t]] = "closed" /\ Message(t).type = "close"
  PROVE  KeepInv'
  <1> DEFINE a == tab[t]
             h == helloPort[t]
             c == conn[t]
             b == [a EXCEPT !.up = Tail(a.up)]
             m == Head(a.up)
  <1>1. TabShape(a) /\ CallOK(a, h, c)
    BY DEF WorkerInv, TabOK, PortsOK, KeepInv
  <1>2. /\ h = (IF Head(a.up).type = "hello" THEN Head(a.up).port ELSE h)
        /\ Head(a.up).type # "attached"
    BY DEF Message
  <1>3. h # 0 => c[h] \in {"open", "session"} \/ (c[h] = "closed" /\ a.life = "left")
    BY <1>1 DEF CallOK
  <1>4. Head(a.up).type = "close" => a.life = "left"
    BY <1>1, <1>2, <1>3, ReceiptKeepsCall
  <1>5. h # 0 => conn'[t][h] \in {"open", "session"} \/ (conn'[t][h] = "closed" /\ a.life = "left")
    BY <1>3, <1>4 DEF Message
  <1>6. /\ CallOK(b, h, conn'[t])
        /\ b.life = a.life /\ b.port = a.port /\ b.lost = a.lost
        /\ \A g \in Nat : Owed(a, g) => Owed(b, g)
    <2> DEFINE c2 == conn'[t]
    <2>1. h # 0 => c2[h] \in {"open", "session"} \/ (c2[h] = "closed" /\ a.life = "left")
      BY <1>5
    <2>a. a.up # <<>>
      OBVIOUS
    <2> HIDE DEF c2, a, h, c
    <2>2. /\ CallOK(b, h, c2)
          /\ b.life = a.life /\ b.port = a.port /\ b.lost = a.lost
          /\ \A g \in Nat : Owed(a, g) => Owed(b, g) \/ (Head(a.up).type = "attached" /\ Head(a.up).gen = g)
      BY <1>1, <1>2, <2>1, <2>a, ReceiptKeepsCall
    <2>3. QED
      BY <1>2, <2>2 DEF c2
  <1>7. DOMAIN tab = TabIds /\ tab' = [tab EXCEPT ![t] = b]
    BY DEF WorkerInv, Rest
  <1> HIDE DEF b
  <1>8. tab'[t] = b /\ \A u \in TabIds : u # t => tab'[u] = tab[u]
    BY <1>7
  <1>9. UNCHANGED <<lease, hosts, helloPort>>
    BY DEF vars
  <1>10. \A u \in TabIds : /\ CallOK(tab'[u], helloPort'[u], conn'[u])
                           /\ helloPort'[u] # 0 <=> u \in hosts'
    BY <1>6, <1>8, <1>9 DEF KeepInv
  <1>11. ASSUME lease # NoLease
         PROVE  Asks(tab'[lease.tab], helloPort[lease.tab], lease)
    <2>1. lease.tab \in TabIds /\ lease.generation \in Nat
      BY <1>11 DEF IInv, TypeOK, Leases
    <2>2. Asks(tab[lease.tab], helloPort[lease.tab], lease)
      BY <1>11 DEF KeepInv
    <2>3. CASE lease.tab # t
      BY <1>8, <2>1, <2>2, <2>3
    <2>4. CASE lease.tab = t
      BY <1>6, <1>8, <2>1, <2>2, <2>4 DEF Asks, Live
    <2>5. QED
      BY <2>3, <2>4
  <1>12. QED
    BY <1>9, <1>10, <1>11 DEF KeepInv

LEMMA ReceiveHelloKeepsCalls ==
  ASSUME IInv, IInv', WorkerInv, WorkerInv', KeepInv, NEW t \in TabIds, ReceiveHello(t)
  PROVE  KeepInv'
  <1> DEFINE a == tab[t]
             m == Head(a.up)
             b == [a EXCEPT !.up = Tail(a.up)]
             ts == [tab EXCEPT ![t] = b]
             c2 == conn'[t]
             h == helloPort[t]
             c == conn[t]
  <1>1. /\ a.up # <<>> /\ m.type = "hello"
        /\ conn' = [conn EXCEPT ![t] = [conn[t] EXCEPT ![m.port] = "open"]]
        /\ helloPort' = [helloPort EXCEPT ![t] = m.port]
        /\ RegisterTab(t, TRUE)
        /\ Deliver(ts)
    BY DEF ReceiveHello, Takes, Message, Rest
  <1>2. DOMAIN ts = TabIds /\ ts[t] = b /\ \A u \in TabIds : u # t => ts[u] = tab[u]
    BY DEF WorkerInv
  <1>3. /\ helloPort'[t] = m.port
        /\ \A u \in TabIds : u # t => helloPort'[u] = helloPort[u] /\ conn'[u] = conn[u]
        /\ c2 = [conn[t] EXCEPT ![m.port] = "open"]
        /\ conn[t] \in [Ports -> PortStates] /\ m.port \in 0..MaxPorts
    BY <1>1 DEF WorkerInv
  <1>4. m.port # 0 => c2[m.port] = "open"
    <2>1. m.port # 0 => m.port \in Ports
      BY <1>3, WorkerAssumption DEF Ports
    <2> HIDE DEF m, c2
    <2>2. QED
      BY <1>3, <2>1
  <1>5. TabShape(a) /\ CallOK(a, h, c)
    BY DEF WorkerInv, TabOK, PortsOK, KeepInv
  <1>6. TabShape(b) /\ CallOK(b, m.port, c2) /\ m.port # 0
    <2> DEFINE h2 == m.port
    <2>1. /\ a.up # <<>> /\ Head(a.up).type = "hello"
          /\ h2 = (IF Head(a.up).type = "hello" THEN Head(a.up).port ELSE h)
          /\ h2 # 0 => c2[h2] \in {"open", "session"} \/ (c2[h2] = "closed" /\ a.life = "left")
      BY <1>1, <1>4
    <2>2. h2 = Head(a.up).port
      OBVIOUS
    <2> HIDE DEF h2, a, c2, h, c, m
    <2>3. TabShape(b) /\ CallOK(b, h2, c2) /\ Head(a.up).port # 0
      BY <1>5, <2>1, ReceiptKeepsCall
    <2>4. QED
      BY <2>2, <2>3 DEF m
  <1>7. /\ hosts' = hosts \cup {t}
        /\ lease' # NoLease => NewlyLeased(lease'.tab) \/ (lease' = lease /\ lease.tab # t)
    BY <1>1, RegistrationLeases DEF IInv
  <1> HIDE DEF b, m, ts, c2
  <1>8. \A u \in TabIds : /\ TabShape(ts[u]) /\ CallOK(ts[u], helloPort'[u], conn'[u])
                          /\ helloPort'[u] # 0 <=> u \in hosts'
    <2> SUFFICES ASSUME NEW u \in TabIds
                 PROVE  /\ TabShape(ts[u]) /\ CallOK(ts[u], helloPort'[u], conn'[u])
                        /\ helloPort'[u] # 0 <=> u \in hosts'
      OBVIOUS
    <2>1. CASE u = t
      BY <1>2, <1>3, <1>6, <1>7, <2>1 DEF c2
    <2>2. CASE u # t
      BY <1>2, <1>3, <1>7, <2>2 DEF WorkerInv, TabOK, PortsOK, KeepInv
    <2>3. QED
      BY <2>1, <2>2
  <1>9. lease' # NoLease =>
          NewlyLeased(lease'.tab) \/ Asks(ts[lease'.tab], helloPort'[lease'.tab], lease')
    <2> SUFFICES ASSUME lease' # NoLease, lease' = lease, lease.tab # t
                 PROVE  Asks(ts[lease'.tab], helloPort'[lease'.tab], lease')
      BY <1>7
    <2>1. lease.tab \in TabIds /\ Asks(tab[lease.tab], helloPort[lease.tab], lease)
      BY DEF IInv, TypeOK, Leases, KeepInv
    <2>2. QED
      BY <1>2, <1>3, <2>1
  <1>10. QED
    BY <1>1, <1>2, <1>8, <1>9, OwnerStepKeepsCalls

LEMMA ReceiveAttachedKeepsCalls ==
  ASSUME IInv, IInv', WorkerInv, WorkerInv', KeepInv, NEW t \in TabIds, ReceiveAttached(t)
  PROVE  KeepInv'
  <1> DEFINE a == tab[t]
             m == Head(a.up)
             b == [a EXCEPT !.up = Tail(a.up)]
             ts == [tab EXCEPT ![t] = b]
             h == helloPort[t]
             c == conn[t]
  <1>1. /\ a.up # <<>> /\ m.type = "attached"
        /\ OwnerAttached(t, m.gen) \/ (~Accepts(t, m.gen) /\ UNCHANGED vars)
        /\ UNCHANGED <<conn, helloPort>>
        /\ Deliver(ts)
    BY DEF ReceiveAttached, Takes, Message, Rest
  <1>2. DOMAIN ts = TabIds /\ ts[t] = b /\ \A u \in TabIds : u # t => ts[u] = tab[u]
    BY DEF WorkerInv
  <1>3. TabShape(a) /\ CallOK(a, h, c)
    BY DEF WorkerInv, TabOK, PortsOK, KeepInv
  <1>4. /\ TabShape(b) /\ CallOK(b, h, c)
        /\ b.life = a.life /\ b.port = a.port /\ b.lost = a.lost
        /\ \A g \in Nat : Owed(a, g) => Owed(b, g) \/ m.gen = g
    <2>1. /\ a.up # <<>> /\ Head(a.up).type = "attached"
          /\ h = (IF Head(a.up).type = "hello" THEN Head(a.up).port ELSE h)
      BY <1>1
    <2>2. h # 0 => c[h] \in {"open", "session"} \/ (c[h] = "closed" /\ a.life = "left")
      BY <1>3 DEF CallOK
    <2> HIDE DEF a, h, c
    <2> DEFINE h2 == h
               c2 == c
    <2>a. /\ h2 = (IF Head(a.up).type = "hello" THEN Head(a.up).port ELSE h)
          /\ h2 # 0 => c2[h2] \in {"open", "session"} \/ (c2[h2] = "closed" /\ a.life = "left")
      BY <2>1, <2>2
    <2> HIDE DEF h2, c2, m, ts
    <2>0. a.up # <<>>
      BY <2>1
    <2>b. /\ CallOK(b, h2, c2)
          /\ b.life = a.life /\ b.port = a.port /\ b.lost = a.lost
          /\ \A g \in Nat : Owed(a, g) => Owed(b, g) \/ (Head(a.up).type = "attached" /\ Head(a.up).gen = g)
      BY <1>3, <2>0, <2>a, ReceiptKeepsCall
    <2>c. TabShape(b)
      BY <1>3, <2>0, <2>a, ReceiptKeepsCall
    <2> HIDE DEF b
    <2>3. /\ TabShape(b) /\ CallOK(b, h, c)
          /\ b.life = a.life /\ b.port = a.port /\ b.lost = a.lost
          /\ \A g \in Nat : Owed(a, g) => Owed(b, g) \/ Head(a.up).gen = g
      BY <2>b, <2>c DEF h2, c2, m
    <2>4. QED
      BY <2>3 DEF m
  <1>5. hosts' = hosts
    BY <1>1 DEF OwnerAttached, vars
  <1> HIDE DEF b, m, ts
  <1>6. \A u \in TabIds : /\ TabShape(ts[u]) /\ CallOK(ts[u], helloPort'[u], conn'[u])
                          /\ helloPort'[u] # 0 <=> u \in hosts'
    <2> SUFFICES ASSUME NEW u \in TabIds
                 PROVE  /\ TabShape(ts[u]) /\ CallOK(ts[u], helloPort[u], conn[u])
                        /\ helloPort[u] # 0 <=> u \in hosts
      BY <1>1, <1>5
    <2>1. CASE u = t
      BY <1>2, <1>4, <2>1 DEF KeepInv
    <2>2. CASE u # t
      BY <1>2, <2>2 DEF WorkerInv, TabOK, PortsOK, KeepInv
    <2>3. QED
      BY <2>1, <2>2
  <1>7. ASSUME lease' # NoLease
        PROVE  Asks(ts[lease'.tab], helloPort'[lease'.tab], lease')
    <2>1. CASE OwnerAttached(t, m.gen)
      <3>1. lease # NoLease /\ lease' = [lease EXCEPT !.attached = TRUE, !.overdue = FALSE]
            /\ lease \in Leases
        BY <2>1 DEF OwnerAttached, Accepts, Holds, IInv, TypeOK
      <3>2. lease'.attached
        BY <3>1 DEF Leases
      <3>3. QED
        BY <3>2 DEF Asks
    <2>2. CASE ~Accepts(t, m.gen) /\ UNCHANGED vars
      <3>1. lease' = lease
        BY <2>2 DEF vars
      <3>2. /\ lease.tab \in TabIds /\ lease.generation \in Nat
            /\ Asks(tab[lease.tab], helloPort[lease.tab], lease)
        BY <1>7, <3>1 DEF IInv, TypeOK, Leases, KeepInv
      <3>3. CASE lease.tab # t
        <4>1. ts[lease.tab] = tab[lease.tab] /\ helloPort' = helloPort
          BY <1>1, <1>2, <3>2, <3>3
        <4>2. QED
          BY <3>1, <3>2, <4>1
      <3>4. CASE lease.tab = t
        <4>1. m.gen # lease.generation
          BY <1>7, <2>2, <3>1, <3>4 DEF Accepts, Holds
        <4>2. Asks(b, helloPort[t], lease)
          BY <1>4, <3>2, <3>4, <4>1 DEF Asks, Live
        <4>3. QED
          BY <1>1, <1>2, <3>1, <3>4, <4>2
      <3>5. QED
        BY <3>3, <3>4
    <2>3. QED
      BY <1>1, <2>1, <2>2
  <1>8. QED
    BY <1>1, <1>2, <1>6, <1>7, OwnerStepKeepsCalls

LEMMA ReceiveKeepsCalls ==
  ASSUME IInv, IInv', WorkerInv, WorkerInv', KeepInv, NEW t \in TabIds, Receive(t)
  PROVE  KeepInv'
  <1>1. DOMAIN conn = TabIds /\ conn[t] \in [Ports -> PortStates] /\ helloPort[t] \in 0..MaxPorts
    BY DEF WorkerInv
  <1>2. helloPort[t] # 0 => helloPort[t] \in DOMAIN conn[t]
    BY <1>1, WorkerAssumption DEF Ports
  <1>3. ASSUME NEW state, NEW i, conn' = [conn EXCEPT ![t][i] = state]
        PROVE  /\ \A u \in TabIds : u # t => conn'[u] = conn[u]
               /\ helloPort[t] # 0 => conn'[t][helloPort[t]] \in {state, conn[t][helloPort[t]]}
    <2>1. conn' = [conn EXCEPT ![t] = [conn[t] EXCEPT ![i] = state]]
      BY <1>3
    <2>2. conn'[t] = [conn[t] EXCEPT ![i] = state]
      BY <1>1, <2>1
    <2>3. QED
      BY <1>1, <1>2, <2>1, <2>2
  <1>4. CASE ReceiveBootstrap(t)
    <2>1. /\ tab[t].up # <<>> /\ Message(t).type = "bootstrap" /\ tab' = Rest(t)
          /\ UNCHANGED <<vars, helloPort>>
          /\ conn' = [conn EXCEPT ![t][Message(t).port] = "session"]
      BY <1>4 DEF ReceiveBootstrap, Takes
    <2>2. /\ \A u \in TabIds : u # t => conn'[u] = conn[u]
          /\ helloPort[t] # 0 => conn'[t][helloPort[t]] \in {"session", conn[t][helloPort[t]]}
      BY <1>3, <2>1
    <2>3. QED
      BY <2>1, <2>2, ReceiptKeepsCalls
  <1>5. CASE ReceiveClose(t)
    <2>1. /\ tab[t].up # <<>> /\ Message(t).type = "close" /\ tab' = Rest(t)
          /\ UNCHANGED <<vars, helloPort>>
          /\ conn' = [conn EXCEPT ![t][Message(t).port] = "closed"]
      BY <1>5 DEF ReceiveClose, Takes
    <2>2. /\ \A u \in TabIds : u # t => conn'[u] = conn[u]
          /\ helloPort[t] # 0 => conn'[t][helloPort[t]] \in {"closed", conn[t][helloPort[t]]}
      BY <1>3, <2>1
    <2>3. QED
      BY <2>1, <2>2, ReceiptKeepsCalls
  <1>6. CASE ReceivePeerAttached(t) \/ ReceivePeerDetached(t)
    <2>1. /\ tab[t].up # <<>> /\ Message(t).type \in {"peer-attached", "peer-detached"}
          /\ tab' = Rest(t) /\ UNCHANGED <<vars, helloPort, conn>>
      BY <1>6 DEF ReceivePeerAttached, ReceivePeerDetached, Takes
    <2>2. QED
      BY <2>1, ReceiptKeepsCalls
  <1>7. QED
    BY <1>4, <1>5, <1>6, ReceiveHelloKeepsCalls, ReceiveAttachedKeepsCalls DEF Receive

LEMMA DisconnectKeepsCalls ==
  ASSUME IInv, IInv', WorkerInv, WorkerInv', KeepInv, NEW t \in TabIds, NEW i, Disconnect(t, i)
  PROVE  KeepInv'
  <1>1. /\ Deliver(tab) /\ DOMAIN tab = TabIds
        /\ helloPort'[t] = 0
        /\ \A u \in TabIds : u # t => helloPort'[u] = helloPort[u] /\ conn'[u] = conn[u]
    BY DEF Disconnect, WorkerInv
  <1>2. /\ hosts' = hosts \ {t}
        /\ lease' # NoLease => NewlyLeased(lease'.tab) \/ lease' = lease
    <2>1. CASE UnregisterTab(t)
      BY <2>1, UnregistrationLeases DEF IInv
    <2>2. CASE t \notin Registered /\ UNCHANGED vars
      BY <2>2 DEF WorkerInv, KeepInv, vars
    <2>3. QED
      BY <2>1, <2>2 DEF Disconnect
  <1>3. \A u \in TabIds : /\ TabShape(tab[u]) /\ CallOK(tab[u], helloPort'[u], conn'[u])
                          /\ helloPort'[u] # 0 <=> u \in hosts'
    <2> SUFFICES ASSUME NEW u \in TabIds
                 PROVE  /\ TabShape(tab[u]) /\ CallOK(tab[u], helloPort'[u], conn'[u])
                        /\ helloPort'[u] # 0 <=> u \in hosts'
      OBVIOUS
    <2>1. TabShape(tab[u]) /\ CallOK(tab[u], helloPort[u], conn[u])
      BY DEF WorkerInv, TabOK, PortsOK, KeepInv
    <2>2. CASE u = t
      <3>1. CallOK(tab[u], 0, conn'[u])
        BY <2>1 DEF CallOK
      <3>2. QED
        BY <1>1, <1>2, <2>1, <2>2, <3>1
    <2>3. CASE u # t
      BY <1>1, <1>2, <2>1, <2>3 DEF KeepInv
    <2>4. QED
      BY <2>2, <2>3
  <1>4. lease' # NoLease =>
          NewlyLeased(lease'.tab) \/ Asks(tab[lease'.tab], helloPort'[lease'.tab], lease')
    <2> SUFFICES ASSUME lease' # NoLease, lease' = lease
                 PROVE  Asks(tab[lease.tab], helloPort'[lease.tab], lease)
      BY <1>2
    <2>1. lease.tab \in TabIds /\ Asks(tab[lease.tab], helloPort[lease.tab], lease)
      BY DEF IInv, TypeOK, Leases, KeepInv
    <2>2. CASE lease.tab = t
      BY <1>1, <2>2 DEF Asks, Live
    <2>3. CASE lease.tab # t
      BY <1>1, <2>1, <2>3
    <2>4. QED
      BY <2>2, <2>3
  <1>5. QED
    BY <1>1, <1>3, <1>4, OwnerStepKeepsCalls

LEMMA RoomStepsKeepCalls ==
  ASSUME IInv, IInv', WorkerInv, WorkerInv', KeepInv,
         \/ \E state \in Outcomes : WorkspaceOpens(state)
         \/ RuntimeStarts \/ Commit
         \/ \E p \in Keys : Replay(p) \/ RetryReplay(p)
         \/ \E p \in Pages : LeaderChanges(p)
         \/ UNCHANGED workerVars
  PROVE  KeepInv'
  <1>1. ASSUME UNCHANGED <<vars, tab, conn, helloPort>>
        PROVE  KeepInv'
    <2>1. UNCHANGED <<lease, hosts>>
      BY <1>1 DEF vars
    <2>2. QED
      BY <1>1, <2>1 DEF KeepInv
  <1>2. ASSUME Deliver(tab), UNCHANGED <<conn, helloPort, hosts>>,
               lease' # NoLease => NewlyLeased(lease'.tab) \/ lease' = lease
        PROVE  KeepInv'
    <2>1. DOMAIN tab = TabIds
          /\ \A u \in TabIds : /\ TabShape(tab[u]) /\ CallOK(tab[u], helloPort'[u], conn'[u])
                               /\ helloPort'[u] # 0 <=> u \in hosts'
      BY <1>2 DEF WorkerInv, TabOK, PortsOK, KeepInv
    <2>2. lease' # NoLease =>
            NewlyLeased(lease'.tab) \/ Asks(tab[lease'.tab], helloPort'[lease'.tab], lease')
      BY <1>2 DEF KeepInv
    <2>3. QED
      BY <1>2, <2>1, <2>2, OwnerStepKeepsCalls
  <1>3. ASSUME NEW batches, NEW to, SendBatches(batches, to)
        PROVE  KeepInv'
    BY <1>2, <1>3 DEF SendBatches, SendPacket
  <1>4. ASSUME NEW state \in Outcomes, WorkspaceOpens(state)
        PROVE  KeepInv'
    <2>1. openState = "none" /\ lease = NoLease /\ Deliver(tab) /\ UNCHANGED <<conn, helloPort>>
      BY <1>4 DEF WorkspaceOpens, WorkerInv, IInv, LeaseIsLegitimate
    <2>2. CASE SetWorkspaceOpenState(state)
      BY <1>2, <2>1, <2>2, OpeningLeases DEF IInv
    <2>3. CASE UNCHANGED vars
      BY <1>2, <2>1, <2>3 DEF vars
    <2>4. QED
      BY <1>4, <2>2, <2>3 DEF WorkspaceOpens
  <1>5. CASE Commit
    BY <1>3, <1>5 DEF Commit
  <1>6. ASSUME NEW p \in Keys, Replay(p)
        PROVE  KeepInv'
    <2>1. CASE log = 0
      BY <1>1, <1>6, <2>1 DEF Replay
    <2>2. CASE log # 0
      <3>1. SendBatches(1..log, {p})
        BY <1>6, <2>2 DEF Replay
      <3>2. QED
        BY <1>3, <3>1
    <2>3. QED
      BY <2>1, <2>2
  <1>7. ASSUME RuntimeStarts \/ (\E p \in Keys : RetryReplay(p))
                 \/ (\E p \in Pages : LeaderChanges(p)) \/ UNCHANGED workerVars
        PROVE  KeepInv'
    BY <1>1, <1>7 DEF RuntimeStarts, RetryReplay, LeaderChanges, workerVars
  <1>8. QED
    BY <1>4, <1>5, <1>6, <1>7

LEMMA KeepInvStep ==
  ASSUME OwnerInv, WorkerInv, WorkerInv', KeepInv, [WorkerNext]_workerVars
  PROVE  KeepInv'
  <1>1. IInv /\ IInv'
    BY WorkerStepIsOwnerStep, NextIInv DEF OwnerInv
  <1>2. CASE \E t \in TabIds, i \in Ports : PortCloses(t, i) \/ PortCollected(t, i)
    BY <1>1, <1>2, DisconnectKeepsCalls DEF PortCloses, PortCollected
  <1>3. CASE \E t \in TabIds : Receive(t)
    BY <1>1, <1>3, ReceiveKeepsCalls
  <1>4. QED
    BY <1>1, <1>2, <1>3, PageStepsKeepCalls, RoomStepsKeepCalls DEF WorkerNext

LEMMA KeepInvInit == WorkerInit => KeepInv
  <1> SUFFICES ASSUME WorkerInit PROVE KeepInv
    OBVIOUS
  <1>1. DOMAIN <<>> = {}
    BY EmptySeq
  <1>2. \A t \in TabIds : tab[t] = NewTab /\ helloPort[t] = 0
    BY DEF WorkerInit
  <1>3. NewTab.port = 0 /\ NewTab.up = <<>> /\ NewTab.life = "live"
    BY DEF NewTab
  <1>4. \A t \in TabIds : CallOK(tab[t], helloPort[t], conn[t])
    BY <1>1, <1>2, <1>3 DEF CallOK
  <1>5. hosts = {} /\ lease = NoLease
    BY DEF WorkerInit, Init
  <1>6. QED
    BY <1>2, <1>4, <1>5 DEF KeepInv

(* RoomKeepsTransport: whatever tabs come, go, change their role or lose      *)
(* their session, the room's transport ends up with a tab that is in touch    *)
(* and attached under the present generation, or with one that has left its  *)
(* session or waits for another role.                                       *)
THEOREM RoomIsKept == WorkerSpec => []RoomKeepsTransport
  <1>1. ASSUME IInv, WorkerInv, KeepInv
        PROVE  RoomKeepsTransport
    <2> SUFFICES ASSUME Settled, CanAttach(openState), NEW t \in TabIds, InTouch(t)
                 PROVE  /\ lease # NoLease
                        /\ \/ /\ InTouch(lease.tab) /\ lease.attached
                              /\ tab[lease.tab].gen = lease.generation
                           \/ tab[lease.tab].life = "left"
                           \/ tab[lease.tab].lost
      BY DEF RoomKeepsTransport
    <2>1. t \in Registered /\ t \in hosts /\ disabled = {}
      BY <1>1 DEF InTouch, WorkerInv, KeepInv
    <2>2. lease # NoLease
      BY <1>1, <2>1 DEF IInv, NoRoomWithoutOwner, Eligible
    <2> DEFINE u == lease.tab
               a == tab[u]
               h == helloPort[u]
               c == conn[u]
    <2>3. /\ u \in TabIds /\ h # 0 /\ lease.generation \in Nat
          /\ told[u] = lease.generation
      BY <1>1, <2>2 DEF IInv, TypeOK, Leases, LeaseIsLegitimate, Eligible, KeepInv, SingleOwner
    <2>4. /\ CallOK(a, h, c) /\ TabOK(a, h, c, told[u]) /\ Asks(a, h, lease)
          /\ h \in 0..MaxPorts /\ h <= a.port /\ a.port \in 0..MaxPorts
      BY <1>1, <2>2, <2>3 DEF KeepInv, WorkerInv, TabOK, PortsOK, TabShape
    <2>5. /\ a.up = <<>> /\ a.down = <<>>
          /\ a.life = "gone" => \A i \in Ports : c[i] \notin {"open", "session"}
      BY <2>3 DEF Settled
    <2>6. DOMAIN <<>> = {}
      BY EmptySeq
    <2>7. h \in Ports /\ a.port # 0
      BY <2>3, <2>4, WorkerAssumption DEF Ports
    <2>8. SUFFICES ASSUME a.life # "left", ~a.lost
                   PROVE  InTouch(u) /\ lease.attached /\ a.gen = lease.generation
      BY <2>2
    <2>9. c[h] \in {"open", "session"}
      BY <2>3, <2>4, <2>8 DEF CallOK
    <2>10. a.life = "live"
      BY <2>4, <2>5, <2>7, <2>8, <2>9 DEF CallOK
    <2>11. h = a.port
      BY <2>3, <2>4, <2>5, <2>6, <2>7, <2>10 DEF CallOK
    <2>12. InTouch(u)
      BY <2>7, <2>8, <2>9, <2>10, <2>11 DEF InTouch
    <2>13. Live(a, h)
      BY <2>7, <2>10, <2>11 DEF Live
    <2>14. lease.attached
      BY <2>4, <2>5, <2>6, <2>8, <2>13 DEF Asks, Owed
    <2>15. a.gen = lease.generation
      BY <2>3, <2>4, <2>5, <2>6, <2>8, <2>13 DEF TabOK, Holding, Orders
    <2>16. QED
      BY <2>12, <2>14, <2>15
  <1>2. OwnerInv /\ WorkerInv /\ KeepInv => RoomKeepsTransport
    BY <1>1 DEF OwnerInv
  <1>3. OwnerInv /\ WorkerInv /\ WorkerInv' /\ KeepInv /\ [WorkerNext]_workerVars => KeepInv'
    BY KeepInvStep
  <1>4. QED
    BY <1>2, <1>3, KeepInvInit, WorkerInvariant, WorkerKeepsOwnerInvariant, PTL DEF WorkerSpec

-----------------------------------------------------------------------------
(* What filter returns. *)

(* An injection of a finite set into as many numbers takes all of them. *)
LEMMA AllGiven ==
  ASSUME NEW D, IsFiniteSet(D), NEW r \in [D -> 1..Cardinality(D)],
         \A a, b \in D : r[a] = r[b] => a = b
  PROVE  \A k \in 1..Cardinality(D) : \E d \in D : r[d] = k
  <1>1. Cardinality(D) \in Nat
    BY FS_CardinalityType
  <1>2. IsFiniteSet(1..Cardinality(D)) /\ Cardinality(1..Cardinality(D)) = Cardinality(D)
    BY <1>1, FS_Interval
  <1>3. r \in Injection(D, 1..Cardinality(D))
    BY DEF Injection, IsInjective
  <1>4. r \in Surjection(D, 1..Cardinality(D))
    BY <1>2, <1>3, FS_Injection
  <1>5. QED
    BY <1>4 DEF Surjection

(* The members of I up to i: as many as the place of i. *)
Up(I, i) == {j \in I : j <= i}

LEMMA PlacesAreTaken ==
  ASSUME NEW I \in SUBSET Nat, IsFiniteSet(I)
  PROVE  /\ Cardinality(I) \in Nat
         /\ \A i \in I : Cardinality(Up(I, i)) \in 1..Cardinality(I)
         /\ \A i, j \in I : i < j => Cardinality(Up(I, i)) < Cardinality(Up(I, j))
         /\ \A k \in 1..Cardinality(I) : \E i \in I : Cardinality(Up(I, i)) = k
  <1> DEFINE r == [i \in I |-> Cardinality(Up(I, i))]
  <1>1. \A i \in I : i \in Nat
    OBVIOUS
  <1>2. Cardinality(I) \in Nat
    BY FS_CardinalityType
  <1>3. ASSUME NEW i \in I
        PROVE  IsFiniteSet(Up(I, i)) /\ Cardinality(Up(I, i)) \in 1..Cardinality(I)
    <2>1. Up(I, i) \in SUBSET I /\ i \in Up(I, i)
      BY <1>1 DEF Up
    <2>2. IsFiniteSet(Up(I, i)) /\ Cardinality(Up(I, i)) <= Cardinality(I)
      BY <2>1, FS_Subset
    <2>3. Cardinality(Up(I, i)) # 0
      BY <2>1, <2>2, FS_EmptySet
    <2>4. QED
      BY <1>2, <2>2, <2>3, FS_CardinalityType
  <1>4. r \in [I -> 1..Cardinality(I)]
    BY <1>3
  <1>5. ASSUME NEW a \in I, NEW b \in I, a < b
        PROVE  r[a] < r[b]
    <2>1. a \in Nat /\ b \in Nat
      BY <1>1
    <2>2. b \in Up(I, b) /\ b \notin Up(I, a)
      BY <1>5, <2>1 DEF Up
    <2>3. \A j \in I : j <= a => j <= b
      BY <1>1, <1>5, <2>1
    <2>4. Up(I, a) \in SUBSET Up(I, b)
      BY <2>3 DEF Up
    <2>5. Cardinality(Up(I, a)) <= Cardinality(Up(I, b)) /\ Cardinality(Up(I, a)) # Cardinality(Up(I, b))
      BY <1>3, <2>2, <2>4, FS_Subset
    <2>6. QED
      BY <1>2, <1>3, <2>5
  <1>6. \A i \in I : r[i] = Cardinality(Up(I, i))
    OBVIOUS
  <1> HIDE DEF r
  <1>7. ASSUME NEW a \in I, NEW b \in I, r[a] = r[b]
        PROVE  a = b
    <2>1. a \in Nat /\ b \in Nat /\ r[a] \in 1..Cardinality(I) /\ r[b] \in 1..Cardinality(I)
      BY <1>1, <1>4
    <2>2. ~(a < b) /\ ~(b < a)
      BY <1>2, <1>5, <1>7, <2>1
    <2>3. QED
      BY <2>1, <2>2
  <1>8. \A k \in 1..Cardinality(I) : \E i \in I : r[i] = k
    BY <1>4, <1>7, AllGiven
  <1>9. QED
    BY <1>2, <1>4, <1>5, <1>6, <1>8

(* o holds elements of s at indices in I, in their order. *)
TakenFrom(s, I, o) ==
  /\ \A k \in DOMAIN o : \E i \in I : o[k] = s[i]
  /\ \A k, l \in DOMAIN o : k < l => \E i, j \in I : i < j /\ o[k] = s[i] /\ o[l] = s[j]

(* It returns the elements at the indices chosen, in their order. *)
LEMMA Filtered ==
  ASSUME NEW S, NEW s \in Seq(S), NEW I \in SUBSET DOMAIN s
  PROVE  Only(s, I) \in Seq(S) /\ TakenFrom(s, I, Only(s, I)) /\ (I = {} => Only(s, I) = <<>>)
  <1> DEFINE n == Cardinality(I)
             at == [k \in 1..n |-> CHOOSE i \in I : Cardinality(Up(I, i)) = k]
             o == Only(s, I)
  <1>1. IsFiniteSet(I) /\ I \in SUBSET Nat
    <2>1. DOMAIN s = 1..Len(s) /\ Len(s) \in Nat
      OBVIOUS
    <2>2. IsFiniteSet(1..Len(s))
      BY <2>1, FS_Interval
    <2>3. QED
      BY <2>1, <2>2, FS_Subset
  <1>2. /\ n \in Nat
        /\ \A i \in I : Cardinality(Up(I, i)) \in 1..n
        /\ \A i, j \in I : i < j => Cardinality(Up(I, i)) < Cardinality(Up(I, j))
        /\ \A k \in 1..n : \E i \in I : Cardinality(Up(I, i)) = k
    <2> HIDE DEF n
    <2>1. QED
      BY <1>1, PlacesAreTaken DEF n
  <1>3. \A k \in 1..n : at[k] \in I /\ Cardinality(Up(I, at[k])) = k
    BY <1>2
  <1>4. o = [k \in 1..n |-> s[at[k]]]
    BY DEF Only, Up
  <1>5. I = {} => n = 0
    BY FS_EmptySet
  <1> HIDE DEF at, o, n
  <1>6. \A k \in 1..n : at[k] \in DOMAIN s /\ s[at[k]] \in S
    BY <1>3
  <1>7. o \in [1..n -> S]
    BY <1>4, <1>6
  <1>8. o \in Seq(S) /\ Len(o) = n /\ DOMAIN o = 1..n
    BY <1>2, <1>7
  <1>9. \A k \in 1..n : at[k] \in Nat /\ k \in Nat
    BY <1>1, <1>2, <1>3
  <1>10. ASSUME NEW k \in 1..n, NEW l \in 1..n, k < l
         PROVE  at[k] < at[l]
    <2>1. at[k] \in I /\ at[l] \in I /\ Cardinality(Up(I, at[k])) = k /\ Cardinality(Up(I, at[l])) = l
      BY <1>3
    <2>2. ~(at[l] < at[k]) /\ at[l] # at[k]
      BY <1>2, <1>9, <1>10, <2>1
    <2>3. QED
      BY <1>9, <2>2
  <1>11. n = 0 => o = <<>>
    BY <1>8
  <1>12. QED
    BY <1>3, <1>4, <1>5, <1>8, <1>10, <1>11 DEF o, TakenFrom

(* What stands in a concatenation comes from s or from t, all of s first. *)
Joins(s, t, u) ==
  /\ \A i \in DOMAIN u : (\E x \in DOMAIN s : u[i] = s[x]) \/ \E y \in DOMAIN t : u[i] = t[y]
  /\ \A i, j \in DOMAIN u : i < j =>
       \/ \E x, y \in DOMAIN s : x < y /\ u[i] = s[x] /\ u[j] = s[y]
       \/ \E x \in DOMAIN s, y \in DOMAIN t : u[i] = s[x] /\ u[j] = t[y]
       \/ \E x, y \in DOMAIN t : x < y /\ u[i] = t[x] /\ u[j] = t[y]

LEMMA Joined ==
  ASSUME NEW S, NEW s \in Seq(S), NEW t \in Seq(S)
  PROVE  s \o t \in Seq(S) /\ Joins(s, t, s \o t)
  <1> DEFINE u == s \o t
             m == Len(s)
             n == Len(t)
  <1>1. /\ m \in Nat /\ n \in Nat /\ DOMAIN s = 1..m /\ DOMAIN t = 1..n
        /\ u \in Seq(S) /\ DOMAIN u = 1..(m + n)
        /\ \A i \in 1..(m + n) : u[i] = IF i <= m THEN s[i] ELSE t[i - m]
    BY LenProperties, ConcatProperties
  <1> HIDE DEF u, m, n
  <1>2. \A i \in DOMAIN u : /\ i <= m => i \in DOMAIN s /\ u[i] = s[i]
                            /\ ~(i <= m) => i - m \in DOMAIN t /\ u[i] = t[i - m]
    BY <1>1
  <1>3. \A i \in DOMAIN u : i \in Nat
    BY <1>1
  <1>4. ASSUME NEW i \in DOMAIN u, NEW j \in DOMAIN u, i < j
        PROVE  \/ \E x, y \in DOMAIN s : x < y /\ u[i] = s[x] /\ u[j] = s[y]
               \/ \E x \in DOMAIN s, y \in DOMAIN t : u[i] = s[x] /\ u[j] = t[y]
               \/ \E x, y \in DOMAIN t : x < y /\ u[i] = t[x] /\ u[j] = t[y]
    <2>1. CASE j <= m
      <3>1. i <= m
        BY <1>1, <1>3, <1>4, <2>1
      <3>2. QED
        BY <1>2, <1>4, <2>1, <3>1
    <2>2. CASE i <= m /\ ~(j <= m)
      BY <1>2, <2>2
    <2>3. CASE ~(i <= m)
      <3>1. ~(j <= m) /\ i - m < j - m
        BY <1>1, <1>3, <1>4, <2>3
      <3>2. QED
        BY <1>2, <2>3, <3>1
    <2>4. QED
      BY <2>1, <2>2, <2>3
  <1>5. Joins(s, t, u)
    <2>1. \A i \in DOMAIN u : (\E x \in DOMAIN s : u[i] = s[x]) \/ \E y \in DOMAIN t : u[i] = t[y]
      BY <1>2
    <2>2. QED
      BY <1>4, <2>1 DEF Joins
  <1>6. QED
    BY <1>1, <1>5 DEF u

-----------------------------------------------------------------------------
(* The packets a tab has sent and those it keeps, all of them up to number k, *)
(* in the order in which the room sent them.  No channel that is open waits    *)
(* for a packet the tab keeps; only a channel that opens finds some that are   *)
(* for it, and nothing has gone over it before.                             *)
ChannelStates == {"none", "open", "broken", "dropped"}
Packets == [batches: SUBSET Nat, to: SUBSET Keys]

Ascending(s) == \A i, j \in DOMAIN s : i < j => s[i] < s[j]
Rising(ms) == \A i, j \in DOMAIN ms : i < j => ms[i].packet < ms[j].packet

Kept(a, k) ==
  /\ a.channel \in [Keys -> ChannelStates]
  /\ a.unsent \in Seq(ToTab) /\ a.sent \in [Keys -> Seq(Nat)]
  /\ a.gen = 0 => a.unsent = <<>>
  /\ Rising(a.unsent) /\ \A i \in DOMAIN a.unsent : a.unsent[i].packet \in 1..k
  /\ \A p \in Keys :
       /\ Ascending(a.sent[p]) /\ \A i \in DOMAIN a.sent[p] : a.sent[p][i] \in 1..k
       /\ a.channel[p] = "none" => a.sent[p] = <<>>

KeptFor(a, c, p) == \E i \in DOMAIN a.unsent : p \in c[a.unsent[i].packet].to

Line(a, c, k) ==
  /\ Kept(a, k)
  /\ \A p \in Keys : a.channel[p] = "open" => ~KeptFor(a, c, p)

(* What a page step may change of a tab without changing its line. *)
LineFields == {"channel", "unsent", "sent", "gen", "down"}
SameLine(a, b) == \A f \in LineFields : b[f] = a[f]

LEMMA LineStays ==
  ASSUME NEW a, NEW b, SameLine(a, b), NEW c, NEW k
  PROVE  (Kept(a, k) => Kept(b, k)) /\ (Line(a, c, k) => Line(b, c, k))
  <1>1. b.channel = a.channel /\ b.unsent = a.unsent /\ b.sent = a.sent /\ b.gen = a.gen
    BY DEF SameLine, LineFields
  <1>2. QED
    BY <1>1 DEF Kept, Line, KeptFor

LEMMA LineGrows ==
  ASSUME NEW a, NEW c, NEW k \in Int, NEW n \in Int, k <= n
  PROVE  (Kept(a, k) => Kept(a, n)) /\ (Line(a, c, k) => Line(a, c, n))
  <1>1. \A x \in 1..k : x \in 1..n
    OBVIOUS
  <1>2. QED
    BY <1>1 DEF Kept, Line

LEMMA SayKeepsLine ==
  ASSUME NEW a, LineFields \subseteq DOMAIN a, NEW type, NEW about
  PROVE  /\ SameLine(a, Say(a, type, about)) /\ SameLine(a, SayOf(a, type, about))
         /\ DOMAIN Say(a, type, about) = DOMAIN a
  <1>1. SameLine(a, a)
    BY DEF SameLine
  <1>2. ASSUME NEW up
        PROVE  SameLine(a, [a EXCEPT !.up = up]) /\ DOMAIN [a EXCEPT !.up = up] = DOMAIN a
    <2>1. "up" \notin LineFields
      BY DEF LineFields
    <2>2. QED
      BY <2>1 DEF SameLine
  <1>3. SameLine(a, Say(a, type, about)) /\ DOMAIN Say(a, type, about) = DOMAIN a
    BY <1>1, <1>2 DEF Say
  <1>4. QED
    BY <1>1, <1>3 DEF SayOf

LEMMA ShapeHasLine ==
  ASSUME NEW a, TabShape(a)
  PROVE  LineFields \subseteq DOMAIN a
  BY DEF TabShape, LineFields

LEMMA AnnounceKeepsLine ==
  ASSUME NEW a, TabShape(a)
  PROVE  SameLine(a, Announce(a))
  <1> DEFINE new == Known(a) \ a.announced
             b == [a EXCEPT !.announced = a.announced \cup new]
  <1>1. new \subseteq Keys /\ a.announced \cup new \in SUBSET Keys
    BY DEF Known, TabShape
  <1>2. Follows(a, b) /\ SameLine(a, b)
    <2>1. Follows(a, b)
      BY <1>1, BookkeepingFollows
    <2>2. SameLine(a, b)
      BY DEF SameLine, LineFields, TabShape
    <2>3. QED
      BY <2>1, <2>2
  <1>3. Announce(a) = IF a.gen = 0 THEN a ELSE SayOf(b, "peer-attached", new)
    BY DEF Announce
  <1> HIDE DEF new, b
  <1>4. SameLine(b, SayOf(b, "peer-attached", new))
    BY <1>2, SayKeepsLine, ShapeHasLine DEF Follows
  <1>5. QED
    BY <1>2, <1>3, <1>4 DEF SameLine

LEMMA DropKeepsLine ==
  ASSUME NEW a, TabShape(a), NEW failed
  PROVE  /\ Drop(a, failed).channel = [p \in Keys |-> IF p \in failed THEN "dropped" ELSE a.channel[p]]
         /\ Drop(a, failed).unsent = a.unsent /\ Drop(a, failed).sent = a.sent
         /\ Drop(a, failed).gen = a.gen
  <1> DEFINE channel == [p \in Keys |-> IF p \in failed THEN "dropped" ELSE a.channel[p]]
             b == [a EXCEPT !.announced = a.announced \ failed, !.channel = channel]
  <1>1. a.announced \ failed \in SUBSET Keys
    BY DEF TabShape
  <1>2. Drop(a, failed) = SayOf(b, "peer-detached", failed \cap a.announced)
    BY DEF Drop, TabShape
  <1> HIDE DEF channel
  <1>3. Follows(a, b)
    BY <1>1, BookkeepingFollows
  <1>4. b.channel = channel /\ b.unsent = a.unsent /\ b.sent = a.sent /\ b.gen = a.gen
    BY DEF TabShape
  <1> HIDE DEF b
  <1>5. SameLine(b, SayOf(b, "peer-detached", failed \cap a.announced))
    BY <1>3, SayKeepsLine, ShapeHasLine DEF Follows
  <1>6. QED
    BY <1>2, <1>4, <1>5 DEF SameLine, LineFields, channel

(* What goes over one channel, and what must wait. *)
LEMMA OverInOrder ==
  ASSUME NEW a, NEW ms \in Seq(ToTab), Rising(ms), NEW p
  PROVE  /\ Over(a, ms, p) \in Seq(Nat) /\ Ascending(Over(a, ms, p))
         /\ \A k \in DOMAIN Over(a, ms, p) :
              \E i \in DOMAIN ms : p \in To(a, ms[i], "open") /\ Over(a, ms, p)[k] = ms[i].packet
         /\ (\A i \in DOMAIN ms : p \notin To(a, ms[i], "open")) => Over(a, ms, p) = <<>>
  <1> DEFINE I == {i \in DOMAIN ms : p \in To(a, ms[i], "open")}
             taken == Only(ms, I)
             o == [k \in DOMAIN taken |-> taken[k].packet]
  <1>1. taken \in Seq(ToTab) /\ TakenFrom(ms, I, taken) /\ (I = {} => taken = <<>>)
    <2>1. I \in SUBSET DOMAIN ms
      OBVIOUS
    <2> HIDE DEF I
    <2>2. QED
      BY <2>1, Filtered
  <1>2. Over(a, ms, p) = o
    BY DEF Over
  <1> HIDE DEF taken
  <1>3. o \in Seq(Nat) /\ DOMAIN o = DOMAIN taken
    <2>1. DOMAIN taken = 1..Len(taken) /\ Len(taken) \in Nat
      BY <1>1
    <2>2. \A k \in DOMAIN taken : taken[k].packet \in Nat
      <3>1. \A k \in DOMAIN taken : taken[k] \in ToTab
        BY <1>1, <2>1, ElementOfSeq
      <3>2. QED
        BY <3>1 DEF ToTab
    <2>3. o \in [1..Len(taken) -> Nat]
      BY <2>1, <2>2
    <2>4. QED
      BY <2>2, <2>3
  <1>4. Ascending(o)
    BY <1>1, <1>3 DEF Ascending, Rising, TakenFrom
  <1>5. \A k \in DOMAIN o : \E i \in DOMAIN ms : p \in To(a, ms[i], "open") /\ o[k] = ms[i].packet
    BY <1>1, <1>3 DEF TakenFrom
  <1>6. I = {} => o = <<>>
    <2>1. I = {} => DOMAIN o = {} /\ DOMAIN <<>> = {}
      BY <1>1, <1>3
    <2>2. QED
      BY <1>3, <2>1
  <1>7. QED
    BY <1>2, <1>3, <1>4, <1>5, <1>6

NoneOpen(a, ms, w) == \A k \in DOMAIN w : \E i \in DOMAIN ms : To(a, ms[i], "open") = {} /\ w[k] = ms[i]

LEMMA WaitingInOrder ==
  ASSUME NEW a, NEW ms \in Seq(ToTab), Rising(ms)
  PROVE  Waiting(a, ms) \in Seq(ToTab) /\ Rising(Waiting(a, ms)) /\ NoneOpen(a, ms, Waiting(a, ms))
  <1> DEFINE I == {i \in DOMAIN ms : To(a, ms[i], "open") = {}}
  <1>1. I \in SUBSET DOMAIN ms /\ Waiting(a, ms) = Only(ms, I)
    BY DEF Waiting
  <1>2. \A i \in I : i \in DOMAIN ms /\ To(a, ms[i], "open") = {}
    OBVIOUS
  <1> HIDE DEF I
  <1>3. Only(ms, I) \in Seq(ToTab) /\ TakenFrom(ms, I, Only(ms, I))
    BY <1>1, Filtered
  <1>4. Rising(Only(ms, I))
    BY <1>2, <1>3 DEF Rising, TakenFrom
  <1>5. QED
    BY <1>1, <1>2, <1>3, <1>4 DEF TakenFrom, NoneOpen

(* Packets that come after all that is kept, and after all that has gone over the *)
(* channels they take. *)
LEMMA SendInLine ==
  ASSUME NEW a, TabShape(a), NEW k \in Nat, Line(a, content, k), a.gen # 0,
         NEW ms \in Seq(ToTab), Rising(ms), \A j \in DOMAIN ms : ms[j].packet \in 1..k,
         \A i \in DOMAIN a.unsent, j \in DOMAIN ms : a.unsent[i].packet < ms[j].packet,
         \A p \in Keys : \A j \in DOMAIN ms : p \in To(a, ms[j], "open") =>
           \A i \in DOMAIN a.sent[p] : a.sent[p][i] < ms[j].packet
  PROVE  Line(Send(a, ms), content, k)
  <1> DEFINE b == Drop(a, Failed(a, ms))
             sent == [p \in Keys |-> b.sent[p] \o Over(a, ms, p)]
             unsent == b.unsent \o Waiting(a, ms)
             s == Send(a, ms)
  <1>1. /\ b.channel = [p \in Keys |-> IF p \in Failed(a, ms) THEN "dropped" ELSE a.channel[p]]
        /\ b.unsent = a.unsent /\ b.sent = a.sent /\ b.gen = a.gen
    BY DropKeepsLine
  <1>2. TabShape(b)
    BY DropFollows DEF Follows
  <1>3. s = [b EXCEPT !.sent = sent, !.unsent = unsent]
    BY <1>2 DEF Send, TabShape
  <1> HIDE DEF b, sent, unsent
  <1>4. s.channel = b.channel /\ s.gen = a.gen /\ s.sent = sent /\ s.unsent = unsent
    BY <1>1, <1>2, <1>3 DEF TabShape
  <1> HIDE DEF s
  <1>5. /\ s.channel \in [Keys -> ChannelStates]
        /\ \A p \in Keys : /\ s.channel[p] = "open" => a.channel[p] = "open"
                           /\ s.channel[p] = "none" => a.channel[p] = "none"
    BY <1>1, <1>4 DEF Line, Kept, ChannelStates
  <1>6. /\ a.unsent \in Seq(ToTab) /\ Rising(a.unsent)
        /\ \A i \in DOMAIN a.unsent : a.unsent[i].packet \in 1..k
    BY DEF Line, Kept
  <1> DEFINE w == Waiting(a, ms)
  <1>7. w \in Seq(ToTab) /\ Rising(w) /\ NoneOpen(a, ms, w)
    BY WaitingInOrder
  <1> HIDE DEF w
  <1>8. s.unsent \in Seq(ToTab) /\ Joins(a.unsent, w, s.unsent)
    <2>1. s.unsent = a.unsent \o w
      BY <1>1, <1>4 DEF unsent, w
    <2>2. QED
      BY <1>6, <1>7, <2>1, Joined
  <1>9. Rising(s.unsent) /\ \A i \in DOMAIN s.unsent : s.unsent[i].packet \in 1..k
    <2>1. \A y \in DOMAIN w : w[y].packet \in 1..k /\ \A x \in DOMAIN a.unsent : a.unsent[x].packet < w[y].packet
      BY <1>7 DEF NoneOpen
    <2>2. \A i \in DOMAIN s.unsent : s.unsent[i].packet \in 1..k
      BY <1>6, <1>8, <2>1 DEF Joins
    <2>3. Rising(s.unsent)
      BY <1>6, <1>7, <1>8, <2>1 DEF Rising, Joins
    <2>4. QED
      BY <2>2, <2>3
  <1>10. ASSUME NEW p \in Keys
         PROVE  /\ s.sent[p] \in Seq(Nat) /\ Ascending(s.sent[p])
                /\ \A i \in DOMAIN s.sent[p] : s.sent[p][i] \in 1..k
                /\ s.channel[p] = "none" => s.sent[p] = <<>>
    <2> DEFINE u == a.sent[p]
               o == Over(a, ms, p)
    <2>1. /\ u \in Seq(Nat) /\ Ascending(u) /\ \A i \in DOMAIN u : u[i] \in 1..k
          /\ a.channel[p] = "none" => u = <<>>
      BY DEF Line, Kept
    <2>2. /\ o \in Seq(Nat) /\ Ascending(o)
          /\ \A l \in DOMAIN o : \E i \in DOMAIN ms : p \in To(a, ms[i], "open") /\ o[l] = ms[i].packet
          /\ (\A i \in DOMAIN ms : p \notin To(a, ms[i], "open")) => o = <<>>
      BY OverInOrder
    <2>3. s.sent[p] = u \o o
      BY <1>1, <1>4 DEF sent
    <2>4. \A x \in DOMAIN u, y \in DOMAIN o : u[x] < o[y]
      BY <2>2
    <2>5. \A y \in DOMAIN o : o[y] \in 1..k
      BY <2>2
    <2>6. s.channel[p] = "none" => o = <<>>
      BY <1>5, <2>2 DEF To
    <2> HIDE DEF u, o
    <2>7. u \o o \in Seq(Nat) /\ Joins(u, o, u \o o)
      BY <2>1, <2>2, Joined
    <2>8. Ascending(u \o o) /\ \A i \in DOMAIN (u \o o) : (u \o o)[i] \in 1..k
      <3> DEFINE v == u \o o
      <3>1. Joins(u, o, v)
        BY <2>7
      <3> HIDE DEF v
      <3>2. \A i \in DOMAIN v : v[i] \in 1..k
        BY <2>1, <2>5, <3>1 DEF Joins
      <3>3. Ascending(v)
        BY <2>1, <2>2, <2>4, <3>1 DEF Ascending, Joins
      <3>4. QED
        BY <3>2, <3>3 DEF v
    <2>9. s.channel[p] = "none" => u \o o = <<>>
      BY <1>5, <2>1, <2>6, ConcatEmptySeq
    <2>10. QED
      BY <2>3, <2>7, <2>8, <2>9
  <1>11. ASSUME NEW p \in Keys, s.channel[p] = "open"
         PROVE  ~KeptFor(s, content, p)
    <2>1. a.channel[p] = "open" /\ ~KeptFor(a, content, p)
      BY <1>5, <1>11 DEF Line
    <2>2. \A i \in DOMAIN ms : To(a, ms[i], "open") = {} => p \notin content[ms[i].packet].to
      BY <2>1 DEF To
    <2>3. \A y \in DOMAIN w : p \notin content[w[y].packet].to
      BY <1>7, <2>2 DEF NoneOpen
    <2>4. QED
      BY <1>8, <2>1, <2>3 DEF KeptFor, Joins
  <1>12. s.sent \in [Keys -> Seq(Nat)]
    BY <1>4, <1>10 DEF sent
  <1>13. Line(s, content, k)
    BY <1>4, <1>5, <1>8, <1>9, <1>10, <1>11, <1>12 DEF Line, Kept
  <1>14. QED
    BY <1>13 DEF s

(* What was kept goes over the channels that have just opened. *)
LEMMA FlushInLine ==
  ASSUME NEW a, TabShape(a), NEW k \in Nat, Kept(a, k),
         \A p \in Keys : a.channel[p] = "open" => a.sent[p] = <<>> \/ ~KeptFor(a, content, p)
  PROVE  Line(Flush(a), content, k)
  <1> DEFINE b == [a EXCEPT !.unsent = <<>>]
             ms == Current(a)
  <1>1. CASE a.gen = 0
    BY <1>1 DEF Flush, Line, Kept, KeptFor
  <1>2. CASE a.gen # 0
    <2>1. Flush(a) = Send(b, ms)
      BY <1>2 DEF Flush
    <2>2. ms \in Seq(ToTab) /\ TakenFrom(a.unsent, DOMAIN a.unsent, ms)
      <3> DEFINE I == {i \in DOMAIN a.unsent : a.unsent[i].gen = a.gen}
      <3>1. I \in SUBSET DOMAIN a.unsent /\ ms = Only(a.unsent, I) /\ a.unsent \in Seq(ToTab)
        BY DEF Current, Kept
      <3> HIDE DEF I, ms
      <3>2. Only(a.unsent, I) \in Seq(ToTab) /\ TakenFrom(a.unsent, I, Only(a.unsent, I))
        BY <3>1, Filtered
      <3>3. QED
        BY <3>1, <3>2 DEF TakenFrom
    <2> HIDE DEF ms
    <2>3. Rising(ms) /\ \A j \in DOMAIN ms : ms[j].packet \in 1..k
      BY <2>2 DEF Kept, Rising, TakenFrom
    <2>4. TabShape(b) /\ b.unsent = <<>> /\ b.sent = a.sent /\ b.channel = a.channel /\ b.gen = a.gen
      BY DEF TabShape
    <2> HIDE DEF b
    <2>5. DOMAIN <<>> = {} /\ <<>> \in Seq(ToTab)
      OBVIOUS
    <2>6. Line(b, content, k)
      <3>1. Kept(b, k)
        BY <2>4, <2>5 DEF Kept, Rising
      <3>2. QED
        BY <2>4, <2>5, <3>1 DEF Line, KeptFor
    <2>7. ASSUME NEW p \in Keys, NEW j \in DOMAIN ms, p \in To(b, ms[j], "open")
          PROVE  \A i \in DOMAIN b.sent[p] : b.sent[p][i] < ms[j].packet
      <3>1. a.channel[p] = "open" /\ p \in content[ms[j].packet].to
        BY <2>4, <2>7 DEF To
      <3>2. KeptFor(a, content, p)
        BY <2>2, <3>1 DEF KeptFor, TakenFrom
      <3>3. QED
        BY <2>4, <2>5, <3>1, <3>2
    <2>8. \A i \in DOMAIN b.unsent, j \in DOMAIN ms : b.unsent[i].packet < ms[j].packet
      BY <2>4, <2>5
    <2>9. QED
      BY <1>2, <2>1, <2>2, <2>3, <2>4, <2>6, <2>7, <2>8, SendInLine
  <1>3. QED
    BY <1>1, <1>2

-----------------------------------------------------------------------------
(* What comes down to a tab comes after all that it has sent or keeps, and in  *)
(* order: n packets have left the coordinator.                               *)
Coming(a, c, n) ==
  /\ \A i \in DOMAIN a.down :
       /\ a.down[i].gen # 0 /\ a.down[i].packet \in 0..n
       /\ a.down[i].packet # 0 => Line(a, c, a.down[i].packet - 1)
  /\ \A i, j \in DOMAIN a.down :
       i < j /\ a.down[i].packet # 0 /\ a.down[j].packet # 0 => a.down[i].packet < a.down[j].packet

InLine(a, c, n) == Line(a, c, n) /\ Coming(a, c, n)

Left == Len(carried["crdt"])

LineInv ==
  /\ log \in Nat /\ content \in Seq(Packets) /\ Len(content) = issued["crdt"]
  /\ \A t \in TabIds : InLine(tab[t], content, Left)

(* A step that only adds to the line leaves what comes down in order. *)
LEMMA StepInLine ==
  ASSUME NEW a, NEW b, NEW c, NEW n \in Nat, InLine(a, c, n), b.down = a.down,
         \A k \in Nat : Line(a, c, k) => Line(b, c, k)
  PROVE  InLine(b, c, n)
  <1>1. Line(b, c, n)
    BY DEF InLine
  <1>2. ASSUME NEW i \in DOMAIN a.down, a.down[i].packet # 0
        PROVE  Line(b, c, a.down[i].packet - 1)
    <2>1. a.down[i].packet - 1 \in Nat /\ Line(a, c, a.down[i].packet - 1)
      BY <1>2 DEF InLine, Coming
    <2>2. QED
      BY <2>1
  <1>3. QED
    BY <1>1, <1>2 DEF InLine, Coming

(* A tab in a new role, or one that has left, has no line. *)
LEMMA FreshInLine ==
  ASSUME NEW b, b.channel = NoChannels, b.unsent = <<>>, b.sent = NothingSent, b.down = <<>>,
         NEW c, NEW n
  PROVE  InLine(b, c, n)
  <1>1. <<>> \in Seq(ToTab) /\ <<>> \in Seq(Nat) /\ DOMAIN <<>> = {}
    OBVIOUS
  <1>2. b.channel \in [Keys -> ChannelStates] /\ \A p \in Keys : b.channel[p] = "none"
    BY DEF NoChannels, ChannelStates
  <1>3. b.sent \in [Keys -> Seq(Nat)] /\ \A p \in Keys : b.sent[p] = <<>>
    BY <1>1 DEF NothingSent
  <1>4. QED
    BY <1>1, <1>2, <1>3 DEF InLine, Line, Coming, Kept, KeptFor, Rising, Ascending

(* A channel opens: nothing has gone over it yet. *)
LEMMA OpeningInLine ==
  ASSUME NEW a, TabShape(a), NEW p \in Keys, a.channel[p] = "none", NEW n \in Nat,
         InLine(a, content, n)
  PROVE  InLine(Flush(Announce([a EXCEPT !.channel[p] = "open"])), content, n)
  <1> DEFINE channel == [a.channel EXCEPT ![p] = "open"]
             o == [a EXCEPT !.channel = channel]
             b == Flush(Announce(o))
  <1>1. o = [a EXCEPT !.channel[p] = "open"]
    OBVIOUS
  <1>2. Follows(a, o) /\ TabShape(o)
    <2> HIDE DEF channel
    <2>1. Follows(a, o)
      BY BookkeepingFollows
    <2>2. QED
      BY <2>1 DEF Follows
  <1>3. o.channel = channel /\ o.unsent = a.unsent /\ o.sent = a.sent /\ o.gen = a.gen /\ o.down = a.down
    BY DEF TabShape
  <1> HIDE DEF o
  <1>4. /\ channel \in [Keys -> ChannelStates] /\ channel[p] = "open" /\ a.sent[p] = <<>>
        /\ \A q \in Keys \ {p} : channel[q] = a.channel[q]
    BY DEF ChannelStates, InLine, Line, Kept
  <1> HIDE DEF channel
  <1>5. Follows(o, Announce(o)) /\ TabShape(Announce(o)) /\ SameLine(o, Announce(o))
    BY <1>2, AnnounceFollows, AnnounceKeepsLine DEF Follows
  <1>6. Follows(Announce(o), b)
    BY <1>5, FlushFollows
  <1>7. b.down = a.down
    BY <1>3, <1>5, <1>6 DEF Follows
  <1>8. ASSUME NEW k \in Nat, Line(a, content, k)
        PROVE  Line(b, content, k)
    <2>1. Kept(o, k) /\ \A q \in Keys : o.channel[q] = "open" => o.sent[q] = <<>> \/ ~KeptFor(o, content, q)
      BY <1>3, <1>4, <1>8 DEF Line, Kept, KeptFor
    <2> DEFINE d == Announce(o)
    <2>2. d.channel = o.channel /\ d.unsent = o.unsent /\ d.sent = o.sent
      BY <1>5 DEF SameLine, LineFields
    <2>3. Kept(d, k) /\ TabShape(d)
      BY <1>5, <2>1, LineStays
    <2> HIDE DEF d
    <2>4. \A q \in Keys : d.channel[q] = "open" => d.sent[q] = <<>> \/ ~KeptFor(d, content, q)
      BY <2>1, <2>2 DEF KeptFor
    <2>5. Line(Flush(d), content, k)
      BY <2>3, <2>4, FlushInLine
    <2>6. QED
      BY <2>5 DEF d
  <1> HIDE DEF b
  <1>9. InLine(b, content, n)
    BY <1>7, <1>8, StepInLine
  <1>10. QED
    BY <1>1, <1>9 DEF b, o

(* A channel breaks: it takes nothing any more. *)
LEMMA BreakingInLine ==
  ASSUME NEW a, TabShape(a), NEW p \in Keys, NEW n \in Nat, InLine(a, content, n)
  PROVE  a.channel[p] = "open" => InLine([a EXCEPT !.channel[p] = "broken"], content, n)
  <1> DEFINE channel == [a.channel EXCEPT ![p] = "broken"]
             b == [a EXCEPT !.channel = channel]
  <1> SUFFICES ASSUME a.channel[p] = "open"
               PROVE  InLine([a EXCEPT !.channel[p] = "broken"], content, n)
    OBVIOUS
  <1>1. b = [a EXCEPT !.channel[p] = "broken"]
    OBVIOUS
  <1>2. b.channel = channel /\ b.unsent = a.unsent /\ b.sent = a.sent /\ b.gen = a.gen /\ b.down = a.down
    BY DEF TabShape
  <1> HIDE DEF b
  <1>3. /\ channel \in [Keys -> ChannelStates] /\ channel[p] = "broken"
        /\ \A q \in Keys \ {p} : channel[q] = a.channel[q]
    BY DEF ChannelStates, InLine, Line, Kept
  <1> HIDE DEF channel
  <1>4. \A q \in Keys : /\ channel[q] = "open" => a.channel[q] = "open"
                        /\ channel[q] = "none" => a.channel[q] = "none"
    BY <1>3
  <1>5. ASSUME NEW k \in Nat, Line(a, content, k)
        PROVE  Line(b, content, k)
    BY <1>2, <1>3, <1>4, <1>5 DEF Line, Kept, KeptFor
  <1>6. InLine(b, content, n)
    BY <1>2, <1>5, StepInLine
  <1>7. QED
    BY <1>1, <1>6

(* The tab reads a packet: it is the next of the line. *)
LEMMA PacketInLine ==
  ASSUME NEW a, TabShape(a), a.down # <<>>, NEW n \in Nat, InLine(a, content, n),
         NEW m, m = Head(a.down), m.packet # 0, NEW r, r = [a EXCEPT !.down = Tail(a.down)]
  PROVE  InLine(IF m.gen = r.gen THEN Send(r, <<m>>) ELSE r, content, n)
  <1>1. /\ a.down \in Seq(ToTab) /\ m \in ToTab /\ m = a.down[1] /\ 1 \in DOMAIN a.down
        /\ Tail(a.down) \in Seq(ToTab) /\ Len(Tail(a.down)) = Len(a.down) - 1
        /\ \A i \in 1..Len(Tail(a.down)) : Tail(a.down)[i] = a.down[i + 1]
    BY HeadTailProperties, EmptySeq, ElementOfSeq, LenProperties DEF TabShape
  <1>2. /\ r.channel = a.channel /\ r.unsent = a.unsent /\ r.sent = a.sent /\ r.gen = a.gen
        /\ r.down = Tail(a.down) /\ TabShape(r)
    BY <1>1 DEF TabShape
  <1>3. \A i \in DOMAIN r.down : i + 1 \in DOMAIN a.down /\ r.down[i] = a.down[i + 1] /\ i \in Nat
    BY <1>1, <1>2, LenProperties
  <1>4. \A k : Line(a, content, k) => Line(r, content, k)
    BY <1>2 DEF Line, Kept, KeptFor
  <1>5. InLine(r, content, n)
    <2>1. Line(r, content, n)
      BY <1>4 DEF InLine
    <2>2. \A i \in DOMAIN r.down :
            /\ r.down[i].gen # 0 /\ r.down[i].packet \in 0..n
            /\ r.down[i].packet # 0 => Line(r, content, r.down[i].packet - 1)
      BY <1>3, <1>4 DEF InLine, Coming
    <2>3. \A i, j \in DOMAIN r.down :
            i < j /\ r.down[i].packet # 0 /\ r.down[j].packet # 0 => r.down[i].packet < r.down[j].packet
      <3> SUFFICES ASSUME NEW i \in DOMAIN r.down, NEW j \in DOMAIN r.down, i < j,
                          r.down[i].packet # 0, r.down[j].packet # 0
                   PROVE  r.down[i].packet < r.down[j].packet
        OBVIOUS
      <3>1. i + 1 < j + 1
        BY <1>3
      <3>2. QED
        BY <1>3, <3>1 DEF InLine, Coming
    <2>4. QED
      BY <2>1, <2>2, <2>3 DEF InLine, Coming
  <1>6. ASSUME m.gen = r.gen
        PROVE  InLine(Send(r, <<m>>), content, n)
    <2> DEFINE x == m.packet
               ms == <<m>>
               b == Send(r, ms)
    <2>1. x \in 1..n /\ x \in Nat /\ x - 1 \in Nat /\ Line(r, content, x - 1) /\ r.gen # 0
      <3>1. m.gen # 0 /\ m.packet \in 0..n /\ Line(a, content, m.packet - 1)
        BY <1>1 DEF InLine, Coming
      <3>2. x \in 1..n /\ x \in Nat /\ x - 1 \in Nat
        BY <3>1
      <3>3. QED
        BY <1>4, <1>6, <3>1, <3>2
    <2>2. Line(r, content, x)
      BY <2>1, LineGrows
    <2>3. ms \in Seq(ToTab) /\ DOMAIN ms = {1} /\ ms[1] = m
      BY <1>1
    <2> HIDE DEF ms
    <2>4. Rising(ms) /\ \A j \in DOMAIN ms : ms[j].packet \in 1..x
      BY <2>1, <2>3 DEF Rising
    <2>5. \A i \in DOMAIN r.unsent, j \in DOMAIN ms : r.unsent[i].packet < ms[j].packet
      BY <2>1, <2>3 DEF Line, Kept
    <2>6. \A p \in Keys : \A j \in DOMAIN ms : p \in To(r, ms[j], "open") =>
            \A i \in DOMAIN r.sent[p] : r.sent[p][i] < ms[j].packet
      BY <2>1, <2>3 DEF Line, Kept
    <2>7. Line(b, content, x)
      BY <1>2, <2>1, <2>2, <2>3, <2>4, <2>5, <2>6, SendInLine
    <2>8. b.down = r.down
      BY <1>2, SendFollows DEF Follows
    <2> HIDE DEF b
    <2>9. \A k \in Nat : x <= k => Line(b, content, k)
      BY <2>1, <2>7, LineGrows
    <2>10. \A i \in DOMAIN r.down : r.down[i].packet # 0 => r.down[i].packet \in 0..n /\ x <= r.down[i].packet - 1
      <3> SUFFICES ASSUME NEW i \in DOMAIN r.down, r.down[i].packet # 0
                   PROVE  r.down[i].packet \in 0..n /\ x <= r.down[i].packet - 1
        OBVIOUS
      <3>1. i + 1 \in DOMAIN a.down /\ r.down[i] = a.down[i + 1] /\ i \in Nat
        BY <1>3
      <3>2. i > 0 /\ 1 < i + 1
        BY <1>2, <3>1, LenProperties DEF TabShape
      <3>3. a.down[1].packet < a.down[i + 1].packet
        BY <1>1, <3>1, <3>2 DEF InLine, Coming
      <3>4. r.down[i].packet \in 0..n
        BY <1>5 DEF InLine, Coming
      <3>5. QED
        BY <1>1, <2>1, <3>1, <3>3, <3>4
    <2>11. ASSUME NEW i \in DOMAIN r.down, r.down[i].packet # 0
           PROVE  Line(b, content, r.down[i].packet - 1)
      <3>1. r.down[i].packet - 1 \in Nat /\ x <= r.down[i].packet - 1
        BY <2>1, <2>10, <2>11
      <3>2. QED
        BY <2>9, <3>1
    <2>12. InLine(b, content, n)
      BY <1>5, <2>1, <2>8, <2>9, <2>11 DEF InLine, Coming
    <2>13. QED
      BY <2>12 DEF b, ms
  <1>7. QED
    BY <1>5, <1>6

(* The tab reads that it is leased the transport. *)
LEMMA AttachInLine ==
  ASSUME NEW a, TabShape(a), a.down # <<>>, NEW n \in Nat, InLine(a, content, n),
         NEW m, m = Head(a.down), NEW r, r = [a EXCEPT !.down = Tail(a.down)]
  PROVE  InLine(Attach(r, m.gen), content, n)
  <1>1. /\ a.down \in Seq(ToTab) /\ m \in ToTab /\ m = a.down[1] /\ 1 \in DOMAIN a.down
        /\ Tail(a.down) \in Seq(ToTab) /\ Len(Tail(a.down)) = Len(a.down) - 1
        /\ \A i \in 1..Len(Tail(a.down)) : Tail(a.down)[i] = a.down[i + 1]
    BY HeadTailProperties, EmptySeq, ElementOfSeq, LenProperties DEF TabShape
  <1> DEFINE g == m.gen
             o == [r EXCEPT !.gen = g]
             d == Announce(o)
             f == Flush(d)
             b == Say(f, "attached", {})
  <1>2. g \in Nat /\ g # 0
    BY <1>1 DEF ToTab, InLine, Coming
  <1> HIDE DEF g
  <1>3. /\ o.channel = a.channel /\ o.unsent = a.unsent /\ o.sent = a.sent /\ o.gen = g
        /\ o.down = Tail(a.down) /\ TabShape(o)
    BY <1>1, <1>2 DEF TabShape
  <1>4. Attach(r, g) = b
    BY DEF Attach
  <1> HIDE DEF o
  <1>5. TabShape(d) /\ SameLine(o, d) /\ Follows(o, d)
    BY <1>3, AnnounceFollows, AnnounceKeepsLine DEF Follows
  <1> HIDE DEF d
  <1>6. TabShape(f) /\ Follows(d, f)
    BY <1>5, FlushFollows DEF Follows
  <1> HIDE DEF f
  <1>7. SameLine(f, b)
    BY <1>6, SayKeepsLine, ShapeHasLine
  <1> HIDE DEF b
  <1>8. b.down = Tail(a.down)
    BY <1>3, <1>5, <1>6, <1>7 DEF Follows, SameLine, LineFields
  <1>9. \A i \in DOMAIN b.down : i + 1 \in DOMAIN a.down /\ b.down[i] = a.down[i + 1] /\ i \in Nat
    BY <1>1, <1>8, LenProperties
  <1>10. ASSUME NEW k \in Nat, Line(a, content, k)
         PROVE  Line(b, content, k)
    <2>1. Kept(o, k) /\ \A q \in Keys : o.channel[q] = "open" => ~KeptFor(o, content, q)
      BY <1>2, <1>3, <1>10 DEF Line, Kept, KeptFor
    <2>2. Line(o, content, k)
      BY <2>1 DEF Line
    <2>3. Line(d, content, k)
      BY <1>5, <2>2, LineStays
    <2>4. Line(f, content, k)
      BY <1>5, <2>3, FlushInLine DEF Line, f
    <2>5. QED
      BY <1>7, <2>4, LineStays
  <1>11. ASSUME NEW i \in DOMAIN b.down, b.down[i].packet # 0
         PROVE  Line(b, content, b.down[i].packet - 1)
    <2>1. b.down[i].packet - 1 \in Nat /\ Line(a, content, b.down[i].packet - 1)
      BY <1>9, <1>11 DEF InLine, Coming
    <2>2. QED
      BY <1>10, <2>1
  <1>12. \A i \in DOMAIN b.down : b.down[i].gen # 0 /\ b.down[i].packet \in 0..n
    BY <1>9 DEF InLine, Coming
  <1>13. ASSUME NEW i \in DOMAIN b.down, NEW j \in DOMAIN b.down, i < j,
                b.down[i].packet # 0, b.down[j].packet # 0
         PROVE  b.down[i].packet < b.down[j].packet
    <2>1. i + 1 < j + 1
      BY <1>9, <1>13
    <2>2. QED
      BY <1>9, <1>13, <2>1 DEF InLine, Coming
  <1>14. Line(b, content, n)
    BY <1>10 DEF InLine
  <1>15. InLine(b, content, n)
    BY <1>11, <1>12, <1>13, <1>14 DEF InLine, Coming
  <1>16. QED
    BY <1>4, <1>15 DEF g

LEMMA PageStepsKeepLine ==
  ASSUME IInv, WorkerInv, LineInv, NEW t \in TabIds,
         \/ Activate(t) \/ SessionLost(t) \/ Read(t) \/ PageGone(t) \/ CloseSession(t)
         \/ \E p \in Keys : ChannelOpens(t, p) \/ ChannelBreaks(t, p)
  PROVE  LineInv'
  <1> DEFINE a == tab[t]
             n == Left
  <1>1. n \in Nat /\ TabShape(a) /\ InLine(a, content, n)
    <2>1. carried["crdt"] \in Seq(Nat)
      BY WorkerAssumption DEF IInv, TypeOK
    <2>2. QED
      BY <2>1, LenProperties DEF WorkerInv, TabOK, PortsOK, LineInv, Left
  <1>2. UNCHANGED <<log, content, issued, carried>>
    BY DEF Activate, SessionLost, Read, PageGone, CloseSession, ChannelOpens, ChannelBreaks,
           roomVars, vars, queues
  <1>3. ASSUME NEW b, tab' = [tab EXCEPT ![t] = b], InLine(b, content, n)
        PROVE  LineInv'
    <2>1. Left' = Left
      BY <1>2 DEF Left
    <2>2. \A u \in TabIds : tab'[u] = IF u = t THEN b ELSE tab[u]
      BY <1>3 DEF WorkerInv
    <2>3. QED
      BY <1>2, <1>3, <2>1, <2>2 DEF LineInv
  <1>4. CASE Activate(t)
    <2> DEFINE s == [NewTab EXCEPT !.port = a.port + 1, !.server = leader, !.up = a.up]
               h == Say(s, "hello", {})
               b == Say(h, "bootstrap", {})
    <2>1. Activated(a, leader) = b
      BY DEF Activated
    <2>2. LineFields \subseteq DOMAIN s /\ s.channel = NoChannels /\ s.unsent = <<>>
          /\ s.sent = NothingSent /\ s.down = <<>>
      BY DEF NewTab, LineFields
    <2> HIDE DEF s
    <2>3. LineFields \subseteq DOMAIN h /\ SameLine(s, h)
      BY <2>2, SayKeepsLine
    <2> HIDE DEF h
    <2>4. SameLine(h, b)
      BY <2>3, SayKeepsLine
    <2> HIDE DEF b
    <2>5. b.channel = NoChannels /\ b.unsent = <<>> /\ b.sent = NothingSent /\ b.down = <<>>
      BY <2>2, <2>3, <2>4 DEF SameLine, LineFields
    <2>6. InLine(b, content, n)
      BY <2>5, FreshInLine
    <2>7. QED
      BY <1>3, <1>4, <2>1, <2>6 DEF Activate
  <1>5. CASE SessionLost(t)
    <2> DEFINE b == [a EXCEPT !.lost = TRUE, !.down = <<>>]
    <2>1. b.channel = a.channel /\ b.unsent = a.unsent /\ b.sent = a.sent /\ b.gen = a.gen /\ b.down = <<>>
      BY <1>1 DEF TabShape
    <2>2. tab' = [tab EXCEPT ![t] = b]
      BY <1>5 DEF SessionLost
    <2> HIDE DEF b
    <2>3. Line(b, content, n)
      BY <1>1, <2>1 DEF InLine, Line, Kept, KeptFor
    <2>4. InLine(b, content, n)
      BY <2>1, <2>3 DEF InLine, Coming
    <2>5. QED
      BY <1>3, <2>2, <2>4
  <1>6. ASSUME NEW from, NEW life, tab' = [tab EXCEPT ![t] = Departed(from, life)]
        PROVE  LineInv'
    <2> DEFINE b == Departed(from, life)
    <2>1. b.channel = NoChannels /\ b.unsent = <<>> /\ b.sent = NothingSent /\ b.down = <<>>
      BY DEF Departed, NewTab
    <2> HIDE DEF b
    <2>2. InLine(b, content, n)
      BY <2>1, FreshInLine
    <2>3. QED
      BY <1>3, <1>6, <2>2 DEF b
  <1>7. CASE PageGone(t)
    BY <1>6, <1>7 DEF PageGone
  <1>8. CASE CloseSession(t)
    BY <1>6, <1>8 DEF CloseSession
  <1>9. ASSUME NEW p \in Keys, ChannelOpens(t, p)
        PROVE  LineInv'
    <2>1. a.channel[p] = "none" /\ tab' = [tab EXCEPT ![t] = Flush(Announce([a EXCEPT !.channel[p] = "open"]))]
      BY <1>9 DEF ChannelOpens
    <2>2. InLine(Flush(Announce([a EXCEPT !.channel[p] = "open"])), content, n)
      BY <1>1, <2>1, OpeningInLine
    <2>3. QED
      BY <1>3, <2>1, <2>2
  <1>10. ASSUME NEW p \in Keys, ChannelBreaks(t, p)
         PROVE  LineInv'
    <2> DEFINE b == [a EXCEPT !.channel[p] = "broken"]
    <2>1. a.channel[p] = "open" /\ tab' = [tab EXCEPT ![t] = b]
      BY <1>10 DEF ChannelBreaks
    <2>2. InLine(b, content, n)
      BY <1>1, <2>1, BreakingInLine
    <2> HIDE DEF b
    <2>3. QED
      BY <1>3, <2>1, <2>2
  <1>11. CASE Read(t)
    <2> DEFINE m == Head(a.down)
               r == [a EXCEPT !.down = Tail(a.down)]
               b == IF m.packet = 0 THEN Attach(r, m.gen) ELSE IF m.gen = r.gen THEN Send(r, <<m>>) ELSE r
    <2>1. a.down # <<>> /\ tab' = [tab EXCEPT ![t] = b]
      BY <1>11 DEF Read
    <2>2. InLine(Attach(r, m.gen), content, n)
      BY <1>1, <2>1, AttachInLine
    <2>3. m.packet # 0 => InLine(IF m.gen = r.gen THEN Send(r, <<m>>) ELSE r, content, n)
      BY <1>1, <2>1, PacketInLine
    <2>4. InLine(b, content, n)
      BY <2>2, <2>3
    <2> HIDE DEF b
    <2>5. QED
      BY <1>3, <2>1, <2>4
  <1>12. QED
    BY <1>4, <1>5, <1>7, <1>8, <1>9, <1>10, <1>11

-----------------------------------------------------------------------------
(* What the coordinator hands over are the numbers in order. *)
LEMMA ConcatElements ==
  ASSUME NEW S, NEW c \in Seq(S), NEW p \in Seq(S)
  PROVE  /\ Len(c) \in Nat /\ Len(p) \in Nat /\ Len(c \o p) = Len(c) + Len(p)
         /\ \A k \in 1..(Len(c) + Len(p)) : (c \o p)[k] = IF k <= Len(c) THEN c[k] ELSE p[k - Len(c)]
  BY LenProperties, ConcatProperties

LEMMA FirstNumbers ==
  ASSUME NEW c \in Seq(Nat), NEW p \in Seq(Nat), NEW n \in Nat, c \o p = [i \in 1..n |-> i]
  PROVE  Len(c) \in Nat /\ Len(c) <= n /\ \A k \in 1..Len(c) : c[k] = k
  <1>1. /\ Len(c) \in Nat /\ Len(p) \in Nat /\ Len(c \o p) = Len(c) + Len(p)
        /\ \A k \in 1..(Len(c) + Len(p)) : (c \o p)[k] = IF k <= Len(c) THEN c[k] ELSE p[k - Len(c)]
    BY ConcatElements, Zenon
  <1>2. Len([i \in 1..n |-> i]) = n
    OBVIOUS
  <1>3. Len(c) + Len(p) = n
    BY <1>1, <1>2
  <1>4. \A k \in 1..Len(c) : k \in 1..n /\ c[k] = (c \o p)[k]
    BY <1>1, <1>3
  <1>5. QED
    BY <1>1, <1>3, <1>4

LEMMA CarriedNumbers ==
  ASSUME TypeOK, PacketsInOrder
  PROVE  Left \in Nat /\ Left <= issued["crdt"] /\ \A k \in 1..Left : carried["crdt"][k] = k
  BY WorkerAssumption, FirstNumbers DEF TypeOK, PacketsInOrder, Left

LEMMA CarriedNumbersNext ==
  ASSUME TypeOK', PacketsInOrder'
  PROVE  Left' \in Nat /\ carried'["crdt"] \in Seq(Nat) /\ \A k \in 1..Left' : carried'["crdt"][k] = k
  BY WorkerAssumption, FirstNumbers DEF TypeOK, PacketsInOrder, Left

LEMMA CarriedGrow ==
  ASSUME TypeOK, TypeOK', [Next]_vars
  PROVE  Left <= Left'
  <1>1. "crdt" \in Kinds /\ carried["crdt"] \in Seq(Nat) /\ pending["crdt"] \in Seq(Nat) /\ issued["crdt"] \in Nat
    BY WorkerAssumption DEF TypeOK
  <1>2. Left \in Nat /\ Len(pending["crdt"]) \in Nat
    BY <1>1, LenProperties DEF Left
  <1>3. CASE UNCHANGED queues
    BY <1>2, <1>3 DEF queues, Left
  <1>4. CASE FlushPendingPackets
    <2>1. carried'["crdt"] = carried["crdt"] \o pending["crdt"]
      BY <1>1, <1>4 DEF FlushPendingPackets
    <2>2. Left' = Left + Len(pending["crdt"])
      BY <1>1, <2>1, ConcatProperties DEF Left
    <2>3. QED
      BY <1>2, <2>2
  <1>5. ASSUME NEW k \in Kinds, SendPacket(k)
        PROVE  Left <= Left'
    <2>1. carried'["crdt"] = carried["crdt"] \/ carried'["crdt"] = Append(carried["crdt"], issued["crdt"] + 1)
      BY <1>1, <1>5 DEF SendPacket, TypeOK
    <2>2. Len(Append(carried["crdt"], issued["crdt"] + 1)) = Left + 1
      BY <1>1, AppendProperties DEF Left
    <2>3. QED
      BY <1>2, <2>1, <2>2 DEF Left
  <1>6. QED
    BY <1>3, <1>4, <1>5, StepOutcome

LEMMA Between ==
  ASSUME NEW m \in Nat, NEW n \in Nat
  PROVE  \A i \in 1..(n - m) : m + i \in 1..n
  OBVIOUS

LEMMA PushedInLine ==
  ASSUME OwnerInv, OwnerInv', PacketsInOrder, PacketsInOrder', NEW t \in TabIds
  PROVE  /\ Pushed(t) \in Seq(ToTab)
         /\ \A i \in DOMAIN Pushed(t) :
              /\ Pushed(t)[i].gen # 0 /\ Pushed(t)[i].packet \in 0..Left'
              /\ Pushed(t)[i].packet # 0 => Left < Pushed(t)[i].packet
         /\ \A i, j \in DOMAIN Pushed(t) :
              i < j /\ Pushed(t)[i].packet # 0 /\ Pushed(t)[j].packet # 0
                => Pushed(t)[i].packet < Pushed(t)[j].packet
  <1>1. CASE lease' = NoLease \/ lease'.tab # t
    <2>1. Pushed(t) = <<>>
      BY <1>1 DEF Pushed
    <2>2. <<>> \in Seq(ToTab) /\ DOMAIN <<>> = {}
      OBVIOUS
    <2>3. QED
      BY <2>1, <2>2
  <1>2. CASE lease' # NoLease /\ lease'.tab = t
    <2> DEFINE order == [gen |-> generation', packet |-> 0]
               s == IF generation' > generation THEN <<order>> ELSE <<>>
               c == carried'["crdt"]
               q == [i \in 1..(Len(c) - Left) |-> [gen |-> lease'.generation, packet |-> c[Left + i]]]
    <2>1. lease'.generation = generation' /\ generation' \in Nat \ {0} /\ generation \in Nat
      BY <1>2 DEF OwnerInv, LeaseNumbered, IInv, SingleOwner, LeaseIsLegitimate, TypeOK
    <2>2. /\ Left \in Nat /\ Left' \in Nat /\ c \in Seq(Nat) /\ Len(c) = Left'
          /\ \A k \in 1..Left' : c[k] = k
      <3>1. Left \in Nat
        BY CarriedNumbers DEF OwnerInv, IInv
      <3>2. Left' \in Nat /\ c \in Seq(Nat) /\ \A k \in 1..Left' : c[k] = k
        BY CarriedNumbersNext DEF OwnerInv, IInv
      <3>3. QED
        BY <3>1, <3>2 DEF Left
    <2>3. Pushed(t) = s \o q
      BY <1>2 DEF Pushed, Left
    <2>4. s \in Seq(ToTab) /\ \A i \in DOMAIN s : s[i].gen = generation' /\ s[i].packet = 0
      <3>1. order \in ToTab /\ order.gen = generation' /\ order.packet = 0
        BY <2>1 DEF ToTab
      <3> HIDE DEF order
      <3>2. <<order>> \in Seq(ToTab) /\ DOMAIN <<order>> = {1} /\ <<order>>[1] = order
        BY <3>1
      <3>3. <<>> \in Seq(ToTab) /\ DOMAIN <<>> = {}
        OBVIOUS
      <3>4. QED
        BY <3>1, <3>2, <3>3
    <2> HIDE DEF s
    <2>5. /\ q \in Seq(ToTab)
          /\ \A i \in DOMAIN q : i \in 1..(Left' - Left) /\ q[i].gen = generation' /\ q[i].packet = Left + i
      <3>1. q \in [1..(Len(c) - Left) -> ToTab]
        <4> HIDE DEF c
        <4>1. QED
          BY <2>1, <2>2, PacketsAreOrders
      <3>2. q \in Seq(ToTab)
        <4> HIDE DEF q, c
        <4>1. Len(c) - Left \in Int
          BY <2>2
        <4>2. QED
          BY <3>1, <4>1, FunctionIsSeq
      <3>3. \A i \in 1..(Left' - Left) : Left + i \in 1..Left'
        BY <2>2, Between
      <3>4. \A i \in DOMAIN q : i \in 1..(Left' - Left) /\ q[i].gen = generation' /\ q[i].packet = Left + i
        BY <2>1, <2>2, <3>3
      <3>5. QED
        BY <3>2, <3>4
    <2> HIDE DEF q
    <2> DEFINE u == s \o q
    <2>6. u \in Seq(ToTab) /\ Joins(s, q, u)
      BY <2>4, <2>5, Joined
    <2> HIDE DEF u
    <2>7. \A y \in DOMAIN q : /\ q[y].gen # 0 /\ q[y].packet \in 0..Left' /\ Left < q[y].packet
                              /\ \A x \in DOMAIN q : x < y => q[x].packet < q[y].packet
      BY <2>1, <2>2, <2>5
    <2>8. \A x \in DOMAIN s : s[x].gen # 0 /\ s[x].packet = 0 /\ 0 \in 0..Left'
      BY <2>1, <2>2, <2>4
    <2>9. \A i \in DOMAIN u :
            u[i].gen # 0 /\ u[i].packet \in 0..Left' /\ (u[i].packet # 0 => Left < u[i].packet)
      BY <2>6, <2>7, <2>8 DEF Joins
    <2>10. \A i, j \in DOMAIN u : i < j /\ u[i].packet # 0 /\ u[j].packet # 0 => u[i].packet < u[j].packet
      BY <2>6, <2>7, <2>8 DEF Joins
    <2>11. QED
      BY <2>3, <2>6, <2>9, <2>10 DEF u
  <1>3. QED
    BY <1>1, <1>2

(* A step in which packets may be handed over, and packets may be added. *)
LEMMA DeliverInLine ==
  ASSUME OwnerInv, OwnerInv', PacketsInOrder, PacketsInOrder', LineInv, Left <= Left',
         NEW ts, Deliver(ts),
         \A u \in TabIds : TabShape(ts[u]) /\ SameLine(tab[u], ts[u]),
         \A k \in 1..Left : content'[k] = content[k],
         NEW u \in TabIds
  PROVE  InLine(tab'[u], content', Left')
  <1> DEFINE a == tab[u]
             b == ts[u]
             P == Pushed(u)
             d == IF Listens(ts, u) THEN [b EXCEPT !.down = b.down \o P] ELSE b
  <1>1. tab'[u] = d
    BY DEF Deliver
  <1>2. Left \in Nat /\ Left' \in Nat
    <2>1. Left \in Nat
      BY CarriedNumbers DEF OwnerInv, IInv
    <2>2. Left' \in Nat
      BY CarriedNumbersNext DEF OwnerInv, IInv
    <2>3. QED
      BY <2>1, <2>2
  <1>3. /\ P \in Seq(ToTab)
        /\ \A i \in DOMAIN P : /\ P[i].gen # 0 /\ P[i].packet \in 0..Left'
                               /\ P[i].packet # 0 => Left < P[i].packet
        /\ \A i, j \in DOMAIN P : i < j /\ P[i].packet # 0 /\ P[j].packet # 0 => P[i].packet < P[j].packet
    BY PushedInLine
  <1>4. TabShape(b) /\ SameLine(a, b) /\ InLine(a, content, Left)
    BY DEF LineInv
  <1> HIDE DEF a, b, P
  <1>5. InLine(b, content, Left)
    <2>1. b.down = a.down
      BY <1>4 DEF SameLine, LineFields
    <2>2. \A k \in Nat : Line(a, content, k) => Line(b, content, k)
      BY <1>4, LineStays
    <2>3. QED
      BY <1>2, <1>4, <2>1, <2>2, StepInLine
  <1>6. ASSUME NEW k \in Nat, k <= Left, Line(b, content, k)
        PROVE  Line(b, content', k)
    <2>1. Kept(b, k)
      BY <1>6 DEF Line
    <2>2. \A i \in DOMAIN b.unsent : content'[b.unsent[i].packet] = content[b.unsent[i].packet]
      BY <1>2, <1>6, <2>1 DEF Kept
    <2>3. QED
      BY <1>6, <2>1, <2>2 DEF Line, KeptFor
  <1>7. \A k \in Nat : Left <= k => Line(b, content', k)
    BY <1>2, <1>5, <1>6, LineGrows DEF InLine
  <1>8. \A i \in DOMAIN b.down :
          /\ b.down[i].gen # 0 /\ b.down[i].packet \in 0..Left' /\ b.down[i].packet \in 0..Left
          /\ b.down[i].packet # 0 => Line(b, content', b.down[i].packet - 1)
    <2> SUFFICES ASSUME NEW i \in DOMAIN b.down
                 PROVE  /\ b.down[i].gen # 0 /\ b.down[i].packet \in 0..Left' /\ b.down[i].packet \in 0..Left
                        /\ b.down[i].packet # 0 => Line(b, content', b.down[i].packet - 1)
      OBVIOUS
    <2>1. /\ b.down[i].gen # 0 /\ b.down[i].packet \in 0..Left
          /\ b.down[i].packet # 0 => Line(b, content, b.down[i].packet - 1)
      BY <1>5 DEF InLine, Coming
    <2>2. b.down[i].packet \in 0..Left'
      BY <1>2, <2>1
    <2>3. ASSUME b.down[i].packet # 0
          PROVE  Line(b, content', b.down[i].packet - 1)
      <3>1. b.down[i].packet - 1 \in Nat /\ b.down[i].packet - 1 <= Left
        BY <1>2, <2>1, <2>3
      <3>2. QED
        BY <1>6, <2>1, <2>3, <3>1
    <2>4. QED
      BY <2>1, <2>2, <2>3
  <1>9. CASE ~Listens(ts, u)
    <2>1. InLine(b, content', Left')
      BY <1>2, <1>5, <1>7, <1>8 DEF InLine, Coming
    <2>2. QED
      BY <1>1, <1>9, <2>1
  <1>10. CASE Listens(ts, u)
    <2> DEFINE down == b.down \o P
               e == [b EXCEPT !.down = down]
    <2>1. b.down \in Seq(ToTab)
      BY <1>4 DEF TabShape
    <2>2. Joins(b.down, P, down)
      BY <1>3, <2>1, Joined
    <2> HIDE DEF down
    <2>3. e.channel = b.channel /\ e.unsent = b.unsent /\ e.sent = b.sent /\ e.gen = b.gen /\ e.down = down
      BY <1>4 DEF TabShape
    <2> HIDE DEF e
    <2>4. \A k : Line(b, content', k) => Line(e, content', k)
      BY <2>3 DEF Line, Kept, KeptFor
    <2>5. \A y \in DOMAIN P : P[y].packet # 0 => P[y].packet - 1 \in Nat /\ Left <= P[y].packet - 1
      BY <1>2, <1>3
    <2>6. \A i \in DOMAIN down :
            /\ down[i].gen # 0 /\ down[i].packet \in 0..Left'
            /\ down[i].packet # 0 => Line(e, content', down[i].packet - 1)
      BY <1>3, <1>7, <1>8, <2>2, <2>4, <2>5 DEF Joins
    <2>7. \A x \in DOMAIN b.down, y \in DOMAIN P : P[y].packet # 0 => b.down[x].packet < P[y].packet
      BY <1>2, <1>3, <1>8
    <2>8. \A i, j \in DOMAIN down :
            i < j /\ down[i].packet # 0 /\ down[j].packet # 0 => down[i].packet < down[j].packet
      BY <1>3, <1>5, <2>2, <2>7 DEF InLine, Coming, Joins
    <2>9. Line(e, content', Left')
      BY <1>2, <1>7, <2>4
    <2>10. InLine(e, content', Left')
      BY <2>3, <2>6, <2>8, <2>9 DEF InLine, Coming
    <2>11. tab'[u] = e
      BY <1>1, <1>10 DEF e, down
    <2>12. QED
      BY <2>10, <2>11
  <1>11. QED
    BY <1>9, <1>10

LEMMA RestKeepsLine ==
  ASSUME WorkerInv, NEW t \in TabIds, tab[t].up # <<>>
  PROVE  \A u \in TabIds : TabShape(Rest(t)[u]) /\ SameLine(tab[u], Rest(t)[u])
  <1> DEFINE a == tab[t]
             r == [a EXCEPT !.up = Tail(a.up)]
  <1>1. \A u \in TabIds : TabShape(Rest(t)[u])
    BY RestKeepsTabs DEF TabOK, PortsOK
  <1>2. TabShape(a) /\ DOMAIN tab = TabIds
    BY DEF WorkerInv, TabOK, PortsOK
  <1>3. SameLine(a, r)
    BY <1>2 DEF SameLine, LineFields, TabShape
  <1>4. \A u \in TabIds : Rest(t)[u] = IF u = t THEN r ELSE tab[u]
    BY <1>2 DEF Rest
  <1>5. QED
    BY <1>1, <1>3, <1>4 DEF SameLine

LEMMA DeliverKeepsLine ==
  ASSUME OwnerInv, OwnerInv', PacketsInOrder, PacketsInOrder', LineInv, [Next]_vars,
         NEW ts, Deliver(ts), \A u \in TabIds : TabShape(ts[u]) /\ SameLine(tab[u], ts[u]),
         log' \in Nat, content' \in Seq(Packets), Len(content') = issued'["crdt"],
         \A k \in 1..Left : content'[k] = content[k]
  PROVE  LineInv'
  <1>1. Left <= Left'
    BY CarriedGrow DEF OwnerInv, IInv
  <1>2. \A u \in TabIds : InLine(tab'[u], content', Left')
    BY <1>1, DeliverInLine
  <1>3. QED
    BY <1>2 DEF LineInv

LEMMA SendKeepsLine ==
  ASSUME OwnerInv, OwnerInv', PacketsInOrder, PacketsInOrder', WorkerInv, LineInv, [Next]_vars,
         NEW batches \in SUBSET Nat, NEW to \in SUBSET Keys, SendBatches(batches, to), log' \in Nat
  PROVE  LineInv'
  <1> DEFINE new == [batches |-> batches, to |-> to]
  <1>1. new \in Packets /\ content' = Append(content, new) /\ Deliver(tab)
        /\ content \in Seq(Packets) /\ Len(content) = issued["crdt"]
    BY DEF Packets, SendBatches, LineInv
  <1> HIDE DEF new
  <1>2. /\ content' \in Seq(Packets) /\ Len(content') = Len(content) + 1
        /\ \A k \in 1..Len(content) : content'[k] = content[k]
    BY <1>1, AppendProperties
  <1>3. issued'["crdt"] = issued["crdt"] + 1
    BY WorkerAssumption DEF SendBatches, SendPacket, OwnerInv, IInv, TypeOK
  <1>4. \A k \in 1..Left : content'[k] = content[k]
    <2>1. Left \in Nat /\ Left <= Len(content) /\ Len(content) \in Nat
      BY <1>1, CarriedNumbers, LenProperties DEF OwnerInv, IInv
    <2>2. QED
      BY <1>2, <2>1
  <1>5. \A u \in TabIds : TabShape(tab[u]) /\ SameLine(tab[u], tab[u])
    BY DEF WorkerInv, TabOK, PortsOK, SameLine
  <1>6. QED
    BY <1>1, <1>2, <1>3, <1>4, <1>5, DeliverKeepsLine

LEMMA LineInvInit == WorkerInit => LineInv
  <1> SUFFICES ASSUME WorkerInit
               PROVE  LineInv
    OBVIOUS
  <1>1. log \in Nat /\ content = <<>> /\ issued["crdt"] = 0
    BY WorkerAssumption DEF WorkerInit, Init
  <1>2. <<>> \in Seq(Packets) /\ Len(<<>>) = 0
    OBVIOUS
  <1>3. \A t \in TabIds : InLine(tab[t], content, Left)
    <2>1. NewTab.channel = NoChannels /\ NewTab.unsent = <<>> /\ NewTab.sent = NothingSent /\ NewTab.down = <<>>
      BY DEF NewTab
    <2>2. InLine(NewTab, content, Left)
      BY <2>1, FreshInLine
    <2>3. QED
      BY <2>2 DEF WorkerInit
  <1>4. QED
    BY <1>1, <1>2, <1>3 DEF LineInv

LEMMA LineInvStep ==
  ASSUME OwnerInv, WorkerInv, PacketsInOrder, PacketsInOrder', LineInv, [WorkerNext]_workerVars
  PROVE  LineInv'
  <1>1. [Next]_vars /\ OwnerInv'
    BY WorkerStepIsOwnerStep, OwnerInvStep
  <1>2. \A u \in TabIds : TabShape(tab[u]) /\ SameLine(tab[u], tab[u])
    BY DEF WorkerInv, TabOK, PortsOK, SameLine
  <1>3. ASSUME UNCHANGED <<vars, tab, log, content>>
        PROVE  LineInv'
    <2>1. UNCHANGED <<issued, carried>>
      BY <1>3 DEF vars, queues
    <2>2. QED
      BY <1>3, <2>1 DEF LineInv, Left
  <1>4. ASSUME NEW ts, Deliver(ts), \A u \in TabIds : TabShape(ts[u]) /\ SameLine(tab[u], ts[u]),
               UNCHANGED <<log, content, issued>>
        PROVE  LineInv'
    BY <1>1, <1>4, DeliverKeepsLine DEF LineInv
  <1>5. CASE \E t \in TabIds : Receive(t)
    <2>1. PICK t \in TabIds : Receive(t)
      BY <1>5
    <2>2. tab[t].up # <<>>
      BY <2>1 DEF Receive, ReceiveHello, ReceiveBootstrap, ReceiveAttached, ReceivePeerAttached,
                  ReceivePeerDetached, ReceiveClose, Takes
    <2>3. \A u \in TabIds : TabShape(Rest(t)[u]) /\ SameLine(tab[u], Rest(t)[u])
      BY <2>2, RestKeepsLine
    <2>4. CASE ReceiveHello(t)
      <3>1. Deliver(Rest(t)) /\ UNCHANGED <<log, content, issued>>
        BY <2>4 DEF ReceiveHello, RegisterTab, queues, roomVars
      <3>2. QED
        BY <1>4, <2>3, <3>1
    <2>5. CASE ReceiveAttached(t)
      <3>1. Deliver(Rest(t)) /\ UNCHANGED <<log, content, issued>>
        BY <2>5 DEF ReceiveAttached, OwnerAttached, FlushPendingPackets, vars, queues, roomVars
      <3>2. QED
        BY <1>4, <2>3, <3>1
    <2>6. CASE ReceiveBootstrap(t) \/ ReceivePeerAttached(t) \/ ReceivePeerDetached(t) \/ ReceiveClose(t)
      <3>1. tab' = Rest(t) /\ UNCHANGED <<vars, log, content>>
        BY <2>6 DEF ReceiveBootstrap, ReceivePeerAttached, ReceivePeerDetached, ReceiveClose, roomVars
      <3>2. UNCHANGED <<issued, carried>>
        BY <3>1 DEF vars, queues
      <3>3. ASSUME NEW u \in TabIds
            PROVE  InLine(Rest(t)[u], content, Left)
        <4>1. InLine(tab[u], content, Left) /\ SameLine(tab[u], Rest(t)[u])
          BY <2>3 DEF LineInv
        <4>2. Rest(t)[u].down = tab[u].down
          BY <4>1 DEF SameLine, LineFields
        <4>3. \A k \in Nat : Line(tab[u], content, k) => Line(Rest(t)[u], content, k)
          BY <4>1, LineStays
        <4>4. Left \in Nat
          BY CarriedNumbers DEF OwnerInv, IInv
        <4>5. QED
          BY <4>1, <4>2, <4>3, <4>4, StepInLine
      <3>4. QED
        BY <3>1, <3>2, <3>3 DEF LineInv, Left
    <2>7. QED
      BY <2>1, <2>4, <2>5, <2>6 DEF Receive
  <1>6. CASE \E t \in TabIds, i \in Ports : PortCloses(t, i) \/ PortCollected(t, i)
    <2>1. PICK t \in TabIds, i \in Ports : PortCloses(t, i) \/ PortCollected(t, i)
      BY <1>6
    <2>2. Deliver(tab) /\ UNCHANGED <<log, content, issued>>
      BY <2>1 DEF PortCloses, PortCollected, Disconnect, UnregisterTab, vars, queues, roomVars
    <2>3. QED
      BY <1>2, <1>4, <2>2
  <1>7. CASE \E state \in Outcomes : WorkspaceOpens(state)
    <2>1. PICK state \in Outcomes : WorkspaceOpens(state)
      BY <1>7
    <2>2. Deliver(tab) /\ UNCHANGED <<log, content, issued>>
      BY <2>1 DEF WorkspaceOpens, SetWorkspaceOpenState, vars, queues
    <2>3. QED
      BY <1>2, <1>4, <2>2
  <1>8. CASE Commit
    <2>1. log \in Nat /\ {log + 1} \in SUBSET Nat /\ log' \in Nat /\ Keys \in SUBSET Keys
      BY <1>8 DEF Commit, LineInv
    <2>2. SendBatches({log + 1}, Keys)
      BY <1>8 DEF Commit
    <2>3. QED
      BY <1>1, <2>1, <2>2, SendKeepsLine
  <1>9. ASSUME NEW p \in Keys, Replay(p)
        PROVE  LineInv'
    <2>1. CASE log = 0
      BY <1>3, <1>9, <2>1 DEF Replay
    <2>2. CASE log # 0
      <3>1. 1..log \in SUBSET Nat /\ log' \in Nat /\ {p} \in SUBSET Keys
        BY <1>9 DEF Replay, LineInv
      <3>2. SendBatches(1..log, {p})
        BY <1>9, <2>2 DEF Replay
      <3>3. QED
        BY <1>1, <3>1, <3>2, SendKeepsLine
    <2>3. QED
      BY <2>1, <2>2
  <1>10. CASE \/ RuntimeStarts \/ UNCHANGED workerVars \/ \E p \in Pages : LeaderChanges(p)
              \/ \E p \in Keys : RetryReplay(p)
    BY <1>3, <1>10 DEF RuntimeStarts, workerVars, roomVars, LeaderChanges, RetryReplay
  <1>11. CASE \E t \in TabIds :
                \/ Activate(t) \/ SessionLost(t) \/ Read(t) \/ PageGone(t) \/ CloseSession(t)
                \/ \E p \in Keys : ChannelOpens(t, p) \/ ChannelBreaks(t, p)
    BY <1>11, PageStepsKeepLine DEF OwnerInv
  <1>12. QED
    BY <1>5, <1>6, <1>7, <1>8, <1>9, <1>10, <1>11 DEF WorkerNext

(* What has waited in the worker, in a message to the tab or in the tab still  *)
(* goes over a channel before what the room sent later: the line of a tab     *)
(* holds only what was handed over, in order, and what comes down comes after. *)
THEOREM ChannelsKeepOrder == WorkerSpec => []ChannelsInOrder
  <1>1. ASSUME LineInv
        PROVE  ChannelsInOrder
    <2> SUFFICES ASSUME NEW t \in TabIds, NEW p \in Keys
                 PROVE  \A i \in 1..(Len(tab[t].sent[p]) - 1) : tab[t].sent[p][i] < tab[t].sent[p][i + 1]
      BY DEF ChannelsInOrder
    <2> DEFINE s == tab[t].sent[p]
    <2>1. s \in Seq(Nat) /\ Ascending(s)
      BY <1>1 DEF LineInv, InLine, Line, Kept
    <2> HIDE DEF s
    <2>2. \A i \in 1..(Len(s) - 1) : i \in DOMAIN s /\ i + 1 \in DOMAIN s /\ i < i + 1
      BY <2>1, LenProperties
    <2>3. \A i \in 1..(Len(s) - 1) : s[i] < s[i + 1]
      BY <2>1, <2>2 DEF Ascending
    <2>4. QED
      BY <2>3 DEF s
  <1>2. LineInv => ChannelsInOrder
    BY <1>1
  <1>3. OwnerInv /\ WorkerInv /\ PacketsInOrder /\ PacketsInOrder' /\ LineInv /\ [WorkerNext]_workerVars => LineInv'
    BY LineInvStep
  <1>4. QED
    BY <1>2, <1>3, LineInvInit, WorkerKeepsOwnerInvariant, WorkerInvariant, PacketOrderAmongPorts,
       PTL DEF WorkerSpec

-----------------------------------------------------------------------------
(***************************************************************************)
(* The log reaches the peers: for every open channel of the leased tab the  *)
(* log has still to be read, or each of its batches has gone over the        *)
(* channel, is coming down to the tab or waits in the coordinator; and a tab *)
(* does not report a peer detached whose channel it still has.              *)
(***************************************************************************)
(* A message that reports peers detached names channels that are dropped. *)
Mine(a, m) == m.type = "peer-detached" => \A p \in m.peers : a.channel[p] = "dropped"

(* So does what a live tab has posted behind the hello of its port. *)
Own(a, h) ==
  a.life = "live" =>
    \A j \in DOMAIN a.up :
      Live(a, h) \/ (\E i \in DOMAIN a.up : i < j /\ IsHello(a, i)) => Mine(a, a.up[j])

Announced(a) == a.announced \subseteq Known(a) /\ (a.gen = 0 => a.announced = {})

(* A tab attaches once in a role. *)
OneOrder(a) ==
  /\ a.gen # 0 => Orders(a.down) = {}
  /\ \A i, j \in Orders(a.down) : i = j

Posts(a, h) == Own(a, h) /\ Announced(a) /\ (Live(a, h) /\ ~a.lost => OneOrder(a))

(* The tab has announced p under g; packet n has gone over channel p. *)
Heard(a, g, p) ==
  \E i \in DOMAIN a.up : a.up[i].type = "peer-attached" /\ a.up[i].gen = g /\ p \in a.up[i].peers
Passed(a, p, n) == \E i \in DOMAIN a.sent[p] : a.sent[p][i] = n

(* Channel p of tab a, which is leased generation g, will have the log read    *)
(* for it: the tab has still to attach, or to be heard, or the runtime to start, *)
(* or the log to be read.                                                   *)
Owing(a, g, ps, rs, s, p) ==
  \/ a.gen # g
  \/ Heard(a, g, p)
  \/ p \in ps /\ s # "running"
  \/ p \in rs

(* Packet n for p has gone over its channel, comes down to the tab, or is not  *)
(* among the k that have left the coordinator.                              *)
OnTheWay(a, g, k, p, n) ==
  \/ Passed(a, p, n)
  \/ \E i \in DOMAIN a.down : a.down[i].packet = n /\ a.down[i].gen = g
  \/ n > k

Served(a, g, c, k, p, l) ==
  \A x \in 1..l : \E n \in 1..Len(c) : x \in c[n].batches /\ p \in c[n].to /\ OnTheWay(a, g, k, p, n)

Fed(a, g, ps, rs, s, c, k, l) ==
  \A p \in Keys : a.channel[p] = "open" => Owing(a, g, ps, rs, s, p) \/ Served(a, g, c, k, p, l)

LogInv ==
  /\ \A t \in TabIds : Posts(tab[t], helloPort[t])
  /\ lease # NoLease /\ Live(tab[lease.tab], helloPort[lease.tab]) /\ ~tab[lease.tab].lost =>
       Fed(tab[lease.tab], lease.generation, peers, replaying, boot, content, Left, log)

(* b is a after some work of its adapter on the channels there are.          *)
Carries(a, b) ==
  /\ Follows(a, b)
  /\ \A p \in Keys : /\ b.channel[p] = "open" => a.channel[p] = "open"
                     /\ a.channel[p] = "dropped" => b.channel[p] = "dropped"
                     /\ \A n : Passed(a, p, n) => Passed(b, p, n)
  /\ Announced(a) => Announced(b)
  /\ \A i \in DOMAIN b.up : i > Len(a.up) => Mine(b, b.up[i])

LEMMA CarriesTransitive ==
  ASSUME NEW a, NEW b, NEW c, Carries(a, b), Carries(b, c)
  PROVE  Carries(a, c)
  <1>1. Follows(a, b) /\ Follows(b, c) /\ Follows(a, c)
    BY FollowsTransitive DEF Carries
  <1>2. /\ Len(a.up) \in Nat /\ Len(b.up) \in Nat /\ Len(c.up) \in Nat
        /\ DOMAIN b.up = 1..Len(b.up) /\ DOMAIN c.up = 1..Len(c.up)
        /\ \A i \in 1..Len(b.up) : c.up[i] = b.up[i]
    BY <1>1, LenProperties DEF Follows, TabShape, Continues
  <1>3. ASSUME NEW i \in DOMAIN c.up, i > Len(a.up)
        PROVE  Mine(c, c.up[i])
    <2>1. CASE i > Len(b.up)
      BY <2>1 DEF Carries
    <2>2. CASE ~(i > Len(b.up))
      <3>1. i \in DOMAIN b.up /\ c.up[i] = b.up[i]
        BY <1>2, <2>2
      <3>2. Mine(b, b.up[i]) /\ b.up[i].peers \subseteq Keys
        <4>1. b.up[i] \in Posted
          BY <1>1, <1>2, <3>1, ElementOfSeq DEF Follows, TabShape
        <4>2. QED
          BY <1>3, <3>1, <4>1 DEF Carries, Posted
      <3>3. QED
        BY <3>1, <3>2 DEF Carries, Mine
    <2>3. QED
      BY <2>1, <2>2
  <1>4. QED
    BY <1>1, <1>3 DEF Carries

LEMMA CarriesItself ==
  ASSUME NEW a, NEW b, TabShape(a), Follows(a, b), b.up = a.up, b.channel = a.channel, b.sent = a.sent,
         b.announced = a.announced \/ (Announced(a) => Announced(b))
  PROVE  Carries(a, b)
  <1>1. \A i \in DOMAIN b.up : ~(i > Len(a.up))
    BY LenProperties DEF TabShape
  <1>2. b.gen = a.gen
    BY DEF Follows
  <1>3. Announced(a) => Announced(b)
    BY <1>2 DEF Announced, Known
  <1>4. QED
    BY <1>1, <1>3 DEF Carries, Passed

(* A message to the worker. *)
LEMMA SayAdds ==
  ASSUME NEW a, TabShape(a), NEW about \in SUBSET Keys, NEW type \in Types
  PROVE  LET b == Say(a, type, about)
         IN /\ b.channel = a.channel /\ b.sent = a.sent /\ b.announced = a.announced /\ b.gen = a.gen
            /\ a.lost => b = a
            /\ ~a.lost => /\ DOMAIN b.up = 1..(Len(a.up) + 1)
                          /\ b.up[Len(a.up) + 1] =
                               [type |-> type, port |-> a.port, gen |-> a.gen, peers |-> about]
  <1> DEFINE m == [type |-> type, port |-> a.port, gen |-> a.gen, peers |-> about]
             b == [a EXCEPT !.up = Append(a.up, m)]
  <1>1. m \in Posted
    BY DEF TabShape, Posted
  <1>2. Say(a, type, about) = IF a.lost THEN a ELSE b
    BY DEF Say
  <1> HIDE DEF m
  <1>3. DOMAIN Append(a.up, m) = 1..(Len(a.up) + 1) /\ Append(a.up, m)[Len(a.up) + 1] = m
    BY <1>1, AppendProperties, LenProperties DEF TabShape
  <1>4. /\ b.channel = a.channel /\ b.sent = a.sent /\ b.announced = a.announced /\ b.gen = a.gen
        /\ b.up = Append(a.up, m)
    BY DEF TabShape
  <1> HIDE DEF b
  <1>5. QED
    BY <1>2, <1>3, <1>4 DEF m

LEMMA SayCarries ==
  ASSUME NEW a, TabShape(a), NEW about \in SUBSET Keys, NEW type \in Types \ {"hello", "close"},
         type = "peer-detached" => \A p \in about : a.channel[p] = "dropped"
  PROVE  /\ Carries(a, Say(a, type, about)) /\ Carries(a, SayOf(a, type, about))
         /\ type = "peer-attached" /\ ~a.lost => \A p \in about : Heard(SayOf(a, type, about), a.gen, p)
  <1> DEFINE b == Say(a, type, about)
  <1>1. Follows(a, b)
    BY SayFollows
  <1>2. /\ b.channel = a.channel /\ b.sent = a.sent /\ b.announced = a.announced /\ b.gen = a.gen
        /\ a.lost => b = a
        /\ ~a.lost => /\ DOMAIN b.up = 1..(Len(a.up) + 1)
                      /\ b.up[Len(a.up) + 1] =
                           [type |-> type, port |-> a.port, gen |-> a.gen, peers |-> about]
    BY SayAdds
  <1> HIDE DEF b
  <1>3. Len(a.up) \in Nat /\ DOMAIN a.up = 1..Len(a.up)
    BY LenProperties DEF TabShape
  <1>4. ASSUME NEW i \in DOMAIN b.up, i > Len(a.up)
        PROVE  Mine(b, b.up[i])
    BY <1>2, <1>3, <1>4 DEF Mine
  <1>5. Carries(a, b)
    BY <1>1, <1>2, <1>4 DEF Carries, Passed, Announced, Known
  <1>6. Carries(a, a)
    BY FollowsItself, CarriesItself
  <1>7. type = "peer-attached" /\ ~a.lost => \A p \in about : Heard(b, a.gen, p)
    BY <1>2, <1>3 DEF Heard
  <1>8. QED
    BY <1>5, <1>6, <1>7 DEF SayOf, b

LEMMA AnnounceCarries ==
  ASSUME NEW a, TabShape(a)
  PROVE  /\ Carries(a, Announce(a))
         /\ a.gen # 0 /\ ~a.lost => \A p \in Known(a) \ a.announced : Heard(Announce(a), a.gen, p)
  <1> DEFINE new == Known(a) \ a.announced
             b == [a EXCEPT !.announced = a.announced \cup new]
  <1>1. new \subseteq Keys /\ a.announced \cup new \in SUBSET Keys
    BY DEF Known, TabShape
  <1>2. Announce(a) = IF a.gen = 0 THEN a ELSE SayOf(b, "peer-attached", new)
    BY DEF Announce
  <1>3. Carries(a, a)
    BY FollowsItself, CarriesItself
  <1>4. Follows(a, b)
    BY <1>1, BookkeepingFollows
  <1>5. /\ b.up = a.up /\ b.channel = a.channel /\ b.sent = a.sent /\ b.gen = a.gen /\ b.lost = a.lost
        /\ b.announced = a.announced \cup new
    BY DEF TabShape
  <1> HIDE DEF b
  <1>6. ASSUME a.gen # 0
        PROVE  Carries(a, b)
    <2>1. Announced(a) => Announced(b)
      BY <1>5, <1>6 DEF Announced, Known
    <2>2. QED
      BY <1>4, <1>5, <2>1, CarriesItself
  <1> HIDE DEF new
  <1>7. /\ Carries(b, SayOf(b, "peer-attached", new))
        /\ ~b.lost => \A p \in new : Heard(SayOf(b, "peer-attached", new), b.gen, p)
    <2>1. "peer-attached" \in Types \ {"hello", "close"} /\ new \in SUBSET Keys /\ TabShape(b)
      BY <1>1, <1>4 DEF Types, Follows
    <2>2. QED
      BY <2>1, SayCarries
  <1>8. Carries(a, Announce(a))
    BY <1>2, <1>3, <1>6, <1>7, CarriesTransitive
  <1>9. QED
    BY <1>2, <1>5, <1>7, <1>8 DEF new

LEMMA DropCarries ==
  ASSUME NEW a, TabShape(a), NEW failed
  PROVE  Carries(a, Drop(a, failed))
  <1> DEFINE channel == [p \in Keys |-> IF p \in failed THEN "dropped" ELSE a.channel[p]]
             b == [a EXCEPT !.announced = a.announced \ failed, !.channel = channel]
             about == failed \cap a.announced
  <1>1. Drop(a, failed) = SayOf(b, "peer-detached", about)
    BY DEF Drop, TabShape
  <1>2. a.announced \ failed \in SUBSET Keys /\ about \in SUBSET Keys /\ about \subseteq failed
    BY DEF TabShape
  <1>3. Follows(a, b)
    BY <1>2, BookkeepingFollows
  <1>4. b.up = a.up /\ b.channel = channel /\ b.sent = a.sent /\ b.announced = a.announced \ failed
    BY DEF TabShape
  <1> HIDE DEF b
  <1>5. b.gen = a.gen /\ TabShape(b)
    BY <1>3 DEF Follows
  <1>6. Announced(a) => Announced(b)
    BY <1>4, <1>5 DEF Announced, Known
  <1>7. \A i \in DOMAIN b.up : ~(i > Len(a.up))
    BY <1>4, LenProperties DEF TabShape
  <1>8. Carries(a, b)
    BY <1>3, <1>4, <1>6, <1>7 DEF Carries, Passed
  <1>9. Carries(b, SayOf(b, "peer-detached", about))
    <2>1. "peer-detached" \in Types \ {"hello", "close"}
      BY DEF Types
    <2>2. \A p \in about : b.channel[p] = "dropped"
      BY <1>2, <1>4
    <2> HIDE DEF about
    <2>3. QED
      BY <1>2, <1>5, <2>1, <2>2, SayCarries
  <1>10. QED
    BY <1>1, <1>8, <1>9, CarriesTransitive

LEMMA SendCarries ==
  ASSUME NEW a, TabShape(a), NEW k, Kept(a, k), NEW ms \in Seq(ToTab), Rising(ms)
  PROVE  Carries(a, Send(a, ms))
  <1> DEFINE b == Drop(a, Failed(a, ms))
             sent == [p \in Keys |-> b.sent[p] \o Over(a, ms, p)]
             unsent == b.unsent \o Waiting(a, ms)
             s == [b EXCEPT !.sent = sent, !.unsent = unsent]
  <1>1. Carries(a, b) /\ TabShape(b)
    BY DropCarries DEF Carries, Follows
  <1>2. b.sent = a.sent
    BY DropKeepsLine
  <1>3. Send(a, ms) = s
    BY <1>1 DEF Send, TabShape
  <1> HIDE DEF b, unsent
  <1>4. \A p \in Keys : \A n : Passed(b, p, n) => \E i \in DOMAIN sent[p] : sent[p][i] = n
    <2> SUFFICES ASSUME NEW p \in Keys, NEW i \in DOMAIN b.sent[p]
                 PROVE  i \in DOMAIN sent[p] /\ sent[p][i] = b.sent[p][i]
      BY DEF Passed
    <2>1. a.sent[p] \in Seq(Nat) /\ Over(a, ms, p) \in Seq(Nat)
      BY OverInOrder DEF Kept
    <2>2. sent[p] = a.sent[p] \o Over(a, ms, p)
      BY <1>2
    <2>3. QED
      BY <1>2, <2>1, <2>2, ConcatProperties, LenProperties
  <1> HIDE DEF sent
  <1>5. Follows(b, s)
    <2>1. {} \in SUBSET Keys
      OBVIOUS
    <2>2. QED
      BY <1>1, <2>1, BookkeepingFollows
  <1>6. s.up = b.up /\ s.channel = b.channel /\ s.sent = sent /\ s.announced = b.announced
    BY <1>1 DEF TabShape
  <1> HIDE DEF s
  <1>7. s.gen = b.gen /\ \A i \in DOMAIN s.up : ~(i > Len(b.up))
    BY <1>1, <1>5, <1>6, LenProperties DEF Follows, TabShape
  <1>8. Carries(b, s)
    BY <1>4, <1>5, <1>6, <1>7 DEF Carries, Passed, Announced, Known
  <1>9. QED
    BY <1>1, <1>3, <1>8, CarriesTransitive

(* The packet that is sent goes over every channel it is for. *)
LEMMA SendPasses ==
  ASSUME NEW a, TabShape(a), NEW k, Kept(a, k), NEW m \in ToTab, NEW p \in Keys,
         p \in content[m.packet].to, a.channel[p] = "open"
  PROVE  Passed(Send(a, <<m>>), p, m.packet)
  <1> DEFINE ms == <<m>>
             I == {i \in DOMAIN ms : p \in To(a, ms[i], "open")}
             o == Over(a, ms, p)
  <1>1. ms \in Seq(ToTab) /\ Len(ms) = 1 /\ ms[1] = m /\ DOMAIN ms = {1}
    OBVIOUS
  <1>2. I = {1}
    BY <1>1 DEF To
  <1>3. Cardinality({1}) = 1 /\ {j \in {1} : j <= 1} = {1}
    BY FS_Singleton
  <1>4. Only(ms, I) = [x \in 1..1 |-> m]
    <2>1. \A x \in 1..1 : (CHOOSE i \in {1} : Cardinality({j \in {1} : j <= i}) = x) = 1
      BY <1>3
    <2>2. Only(ms, {1}) = [x \in 1..1 |-> ms[CHOOSE i \in {1} : Cardinality({j \in {1} : j <= i}) = x]]
      BY <1>3 DEF Only
    <2>3. [x \in 1..1 |-> ms[CHOOSE i \in {1} : Cardinality({j \in {1} : j <= i}) = x]] = [x \in 1..1 |-> m]
      BY <1>1, <2>1
    <2>4. QED
      BY <1>2, <2>2, <2>3
  <1>5. 1 \in DOMAIN o /\ o[1] = m.packet
    BY <1>4 DEF Over
  <1>6. o \in Seq(Nat) /\ a.sent[p] \in Seq(Nat)
    <2>1. Rising(ms)
      BY <1>1 DEF Rising
    <2> HIDE DEF ms
    <2>2. QED
      BY <1>1, <2>1, OverInOrder DEF Kept
  <1> HIDE DEF o
  <1>7. Send(a, ms).sent[p] = a.sent[p] \o o
    <2> DEFINE b == Drop(a, Failed(a, ms))
               sent == [q \in Keys |-> b.sent[q] \o Over(a, ms, q)]
    <2>1. TabShape(b) /\ b.sent = a.sent
      BY DropFollows, DropKeepsLine DEF Follows
    <2> HIDE DEF ms
    <2>2. Send(a, ms) = [b EXCEPT !.sent = sent, !.unsent = b.unsent \o Waiting(a, ms)]
      BY <2>1 DEF Send, TabShape
    <2>3. sent[p] = a.sent[p] \o o
      BY <2>1 DEF o
    <2> HIDE DEF b, sent
    <2>4. Send(a, ms).sent = sent
      BY <2>1, <2>2 DEF TabShape
    <2>5. QED
      BY <2>3, <2>4
  <1>8. Len(a.sent[p]) + 1 \in DOMAIN (a.sent[p] \o o) /\ (a.sent[p] \o o)[Len(a.sent[p]) + 1] = m.packet
    <2>1. Len(a.sent[p]) \in Nat /\ Len(o) \in Nat /\ 1 \in 1..Len(o)
      BY <1>5, <1>6, LenProperties
    <2>2. QED
      BY <1>5, <1>6, <2>1, ConcatProperties, LenProperties
  <1>9. QED
    BY <1>7, <1>8 DEF Passed

LEMMA FlushCarries ==
  ASSUME NEW a, TabShape(a), NEW k, Kept(a, k)
  PROVE  Carries(a, Flush(a))
  <1> DEFINE b == [a EXCEPT !.unsent = <<>>]
             I == {i \in DOMAIN a.unsent : a.unsent[i].gen = a.gen}
             ms == Current(a)
  <1>1. I \in SUBSET DOMAIN a.unsent /\ ms = Only(a.unsent, I) /\ a.unsent \in Seq(ToTab)
    BY DEF Current, Kept
  <1> HIDE DEF I, ms
  <1>2. ms \in Seq(ToTab) /\ TakenFrom(a.unsent, I, ms)
    BY <1>1, Filtered
  <1>3. Rising(ms)
    BY <1>1, <1>2 DEF Kept, Rising, TakenFrom
  <1>4. Follows(a, b)
    <2>1. {} \in SUBSET Keys
      OBVIOUS
    <2>2. QED
      BY <2>1, BookkeepingFollows
  <1>5. /\ b.up = a.up /\ b.channel = a.channel /\ b.sent = a.sent /\ b.announced = a.announced
        /\ b.unsent = <<>> /\ b.gen = a.gen
    BY DEF TabShape
  <1>6. Flush(a) = IF a.gen = 0 THEN a ELSE Send(b, ms)
    BY DEF Flush, ms
  <1> HIDE DEF b
  <1>7. Carries(a, b)
    BY <1>4, <1>5, CarriesItself
  <1>8. Kept(b, k) /\ TabShape(b)
    <2>1. <<>> \in Seq(ToTab) /\ DOMAIN <<>> = {}
      OBVIOUS
    <2>2. QED
      BY <1>4, <1>5, <2>1 DEF Kept, Rising, Follows
  <1>9. Carries(b, Send(b, ms))
    BY <1>2, <1>3, <1>8, SendCarries
  <1>10. QED
    BY <1>6, <1>7, <1>9, FollowsItself, CarriesItself, CarriesTransitive
-----------------------------------------------------------------------------
(* The steps of a page. *)
LEMMA MineStays ==
  ASSUME NEW a, NEW b, NEW m \in Posted, Mine(a, m),
         \A p \in Keys : a.channel[p] = "dropped" => b.channel[p] = "dropped"
  PROVE  Mine(b, m)
  BY DEF Mine, Posted

LEMMA CarriesKeepsPosts ==
  ASSUME NEW a, NEW b, NEW h, Carries(a, b), Posts(a, h)
  PROVE  Posts(b, h)
  <1>1. /\ Len(a.up) \in Nat /\ Len(b.up) \in Nat /\ Len(a.up) <= Len(b.up)
        /\ DOMAIN a.up = 1..Len(a.up) /\ DOMAIN b.up = 1..Len(b.up)
        /\ \A i \in DOMAIN a.up : b.up[i] = a.up[i] /\ a.up[i] \in Posted
        /\ b.life = a.life /\ b.port = a.port /\ b.lost = a.lost /\ b.gen = a.gen /\ b.down = a.down
    BY LenProperties, ElementOfSeq DEF Carries, Follows, TabShape, Continues
  <1>2. ASSUME b.life = "live", NEW j \in DOMAIN b.up,
               Live(b, h) \/ \E i \in DOMAIN b.up : i < j /\ IsHello(b, i)
        PROVE  Mine(b, b.up[j])
    <2>1. CASE j > Len(a.up)
      BY <2>1 DEF Carries
    <2>2. CASE ~(j > Len(a.up))
      <3>1. j \in DOMAIN a.up /\ b.up[j] = a.up[j] /\ a.up[j] \in Posted
        BY <1>1, <2>2
      <3>2. Live(a, h) \/ \E i \in DOMAIN a.up : i < j /\ IsHello(a, i)
        BY <1>1, <1>2, <3>1 DEF Live, IsHello
      <3>3. Mine(a, a.up[j])
        BY <1>1, <1>2, <3>1, <3>2 DEF Posts, Own
      <3>4. QED
        BY <3>1, <3>3, MineStays DEF Carries
    <2>3. QED
      BY <2>1, <2>2
  <1>3. Own(b, h)
    BY <1>2 DEF Own
  <1>4. QED
    BY <1>1, <1>3 DEF Posts, Carries, Live, OneOrder

LEMMA CarriesKeepsHeard ==
  ASSUME NEW a, NEW b, Carries(a, b), NEW g, NEW p
  PROVE  Heard(a, g, p) => Heard(b, g, p)
  BY LenProperties DEF Carries, Follows, TabShape, Continues, Heard

LEMMA CarriesKeepsFed ==
  ASSUME NEW a, NEW b, Carries(a, b), NEW g, NEW ps, NEW rs, NEW s, NEW c, NEW k, NEW l, NEW p \in Keys
  PROVE  /\ Owing(a, g, ps, rs, s, p) => Owing(b, g, ps, rs, s, p)
         /\ Served(a, g, c, k, p, l) => Served(b, g, c, k, p, l)
  <1>1. b.gen = a.gen /\ b.down = a.down
    BY DEF Carries, Follows
  <1>2. \A n : OnTheWay(a, g, k, p, n) => OnTheWay(b, g, k, p, n)
    BY <1>1 DEF OnTheWay, Carries
  <1>3. Owing(a, g, ps, rs, s, p) => Owing(b, g, ps, rs, s, p)
    BY <1>1, CarriesKeepsHeard DEF Owing
  <1>4. Served(a, g, c, k, p, l) => Served(b, g, c, k, p, l)
    BY <1>2 DEF Served
  <1>5. QED
    BY <1>3, <1>4

(* A channel opens, and is announced. *)
LEMMA OpeningFeeds ==
  ASSUME NEW a, TabShape(a), NEW k, Kept(a, k), NEW q \in Keys, a.channel[q] = "none", NEW h, Posts(a, h)
  PROVE  LET b == Flush(Announce([a EXCEPT !.channel[q] = "open"]))
         IN /\ Posts(b, h) /\ b.lost = a.lost /\ (Live(b, h) => Live(a, h))
            /\ ~a.lost => \A g, ps, rs, s, c, l :
                 g # 0 /\ Fed(a, g, ps, rs, s, c, k, l) => Fed(b, g, ps, rs, s, c, k, l)
  <1> DEFINE channel == [a.channel EXCEPT ![q] = "open"]
             o == [a EXCEPT !.channel = channel]
             d == Announce(o)
             b == Flush(d)
  <1>1. o = [a EXCEPT !.channel[q] = "open"]
    OBVIOUS
  <1>2. /\ \A p \in Keys : channel[p] = IF p = q THEN "open" ELSE a.channel[p]
        /\ channel \in [Keys -> ChannelStates]
    BY DEF Kept, ChannelStates
  <1> HIDE DEF channel
  <1>3. /\ o.channel = channel /\ o.unsent = a.unsent /\ o.sent = a.sent /\ o.announced = a.announced
        /\ o.up = a.up
    BY DEF TabShape
  <1>4. Follows(a, o)
    BY BookkeepingFollows
  <1> HIDE DEF o
  <1>5. TabShape(o) /\ o.gen = a.gen /\ o.down = a.down /\ o.life = a.life /\ o.port = a.port /\ o.lost = a.lost
    BY <1>4 DEF Follows
  <1>6. Kept(o, k)
    <2>1. a.sent[q] = <<>>
      BY DEF Kept
    <2>2. QED
      BY <1>2, <1>3, <1>5 DEF Kept
  <1>7. /\ Carries(o, d)
        /\ o.gen # 0 /\ ~o.lost => \A p \in Known(o) \ o.announced : Heard(d, o.gen, p)
    BY <1>5, AnnounceCarries
  <1>8. Kept(d, k) /\ TabShape(d)
    <2>1. SameLine(o, d)
      BY <1>5, AnnounceKeepsLine
    <2>2. QED
      BY <1>6, <1>7, <2>1, LineStays DEF Carries, Follows
  <1> HIDE DEF d
  <1>9. Carries(d, b)
    BY <1>8, FlushCarries
  <1> HIDE DEF b
  <1>10. Carries(o, b)
    BY <1>7, <1>9, CarriesTransitive
  <1>11. Posts(o, h)
    <2>1. Announced(o)
      BY <1>2, <1>3, <1>5 DEF Posts, Announced, Known
    <2>2. ASSUME NEW m \in Posted, Mine(a, m)
          PROVE  Mine(o, m)
      BY <1>2, <1>3, <2>2, MineStays
    <2>3. \A j \in DOMAIN a.up : a.up[j] \in Posted
      BY LenProperties, ElementOfSeq DEF TabShape
    <2>4. Own(o, h)
      BY <1>3, <1>5, <2>2, <2>3 DEF Posts, Own, Live, IsHello
    <2>5. QED
      BY <1>5, <2>1, <2>4 DEF Posts, Live, OneOrder
  <1>12. Posts(b, h)
    BY <1>10, <1>11, CarriesKeepsPosts
  <1>13. b.life = a.life /\ b.port = a.port /\ b.lost = a.lost
    BY <1>5, <1>10 DEF Carries, Follows
  <1>14. ASSUME NEW g, NEW ps, NEW rs, NEW s, NEW c, NEW l, g # 0, ~a.lost, Fed(a, g, ps, rs, s, c, k, l)
         PROVE  Fed(b, g, ps, rs, s, c, k, l)
    <2> SUFFICES ASSUME NEW p \in Keys, b.channel[p] = "open"
                 PROVE  Owing(b, g, ps, rs, s, p) \/ Served(b, g, c, k, p, l)
      BY DEF Fed
    <2>1. o.channel[p] = "open"
      BY <1>10 DEF Carries
    <2>2. CASE p = q
      <3>1. CASE o.gen = g
        <4>1. p \in Known(o) \ o.announced
          BY <1>3, <2>1, <2>2 DEF Posts, Announced, Known
        <4>2. Heard(d, g, p)
          BY <1>5, <1>7, <1>14, <3>1, <4>1
        <4>3. Heard(b, g, p)
          BY <1>9, <4>2, CarriesKeepsHeard
        <4>4. QED
          BY <4>3 DEF Owing
      <3>2. CASE o.gen # g
        BY <1>10, <3>2 DEF Owing, Carries, Follows
      <3>3. QED
        BY <3>1, <3>2
    <2>3. CASE p # q
      <3>1. a.channel[p] = "open"
        BY <1>2, <1>3, <2>1, <2>3
      <3>2. Owing(a, g, ps, rs, s, p) \/ Served(a, g, c, k, p, l)
        BY <1>14, <3>1 DEF Fed
      <3>3. Owing(o, g, ps, rs, s, p) \/ Served(o, g, c, k, p, l)
        BY <1>3, <1>5, <3>2 DEF Owing, Served, OnTheWay, Heard, Passed
      <3>4. QED
        BY <1>10, <3>3, CarriesKeepsFed
    <2>4. QED
      BY <2>2, <2>3
  <1>15. QED
    BY <1>1, <1>12, <1>13, <1>14 DEF b, d, Live

(* A message is read: those behind it stay. *)
LEMMA DownTail ==
  ASSUME NEW a, TabShape(a), a.down # <<>>
  PROVE  /\ a.down[1] = Head(a.down) /\ 1 \in DOMAIN a.down /\ Head(a.down) \in ToTab
         /\ DOMAIN Tail(a.down) \subseteq Nat
         /\ \A i \in DOMAIN Tail(a.down) : i + 1 \in DOMAIN a.down /\ Tail(a.down)[i] = a.down[i + 1]
         /\ \A i \in DOMAIN a.down : i # 1 => i - 1 \in DOMAIN Tail(a.down) /\ Tail(a.down)[i - 1] = a.down[i]
  BY HeadTailProperties, LenProperties, EmptySeq, ElementOfSeq DEF TabShape

LEMMA TailKeepsOrders ==
  ASSUME NEW a, TabShape(a), a.down # <<>>, OneOrder(a)
  PROVE  /\ \A i, j \in Orders(Tail(a.down)) : i = j
         /\ a.gen # 0 \/ Head(a.down).packet = 0 => Orders(Tail(a.down)) = {}
         /\ Head(a.down).packet = 0 => a.gen = 0
  <1>1. \A i \in Orders(Tail(a.down)) : i + 1 \in Orders(a.down) /\ i \in Nat /\ i + 1 # 1
    BY DownTail DEF Orders, TabShape
  <1>2. Head(a.down).packet = 0 => 1 \in Orders(a.down)
    BY DownTail DEF Orders
  <1>3. \A i, j \in Orders(Tail(a.down)) : i = j
    BY <1>1 DEF OneOrder
  <1>4. QED
    BY <1>1, <1>2, <1>3 DEF OneOrder

(* The tab once it has taken the next message from the port. *)
Unread(a) == [a EXCEPT !.down = Tail(a.down)]

(* A packet is read, and sent. *)
LEMMA PacketFeeds ==
  ASSUME NEW a, TabShape(a), a.down # <<>>, NEW k, Kept(a, k), NEW h, Posts(a, h),
         NEW m, m = Head(a.down), m.packet # 0, NEW r, r = Unread(a)
  PROVE  LET b == IF m.gen = r.gen THEN Send(r, <<m>>) ELSE r
         IN /\ Posts(b, h) /\ b.lost = a.lost /\ (Live(b, h) => Live(a, h))
            /\ \A g, ps, rs, s, l : Fed(a, g, ps, rs, s, content, k, l) => Fed(b, g, ps, rs, s, content, k, l)
  <1> DEFINE b == IF m.gen = r.gen THEN Send(r, <<m>>) ELSE r
  <1>1. m \in ToTab /\ \A i \in DOMAIN a.down :
                         \/ a.down[i] = m
                         \/ i - 1 \in DOMAIN Tail(a.down) /\ Tail(a.down)[i - 1] = a.down[i]
    BY DownTail
  <1>2. /\ TabShape(r) /\ r.down = Tail(a.down) /\ r.up = a.up /\ r.channel = a.channel /\ r.sent = a.sent
        /\ r.unsent = a.unsent /\ r.announced = a.announced /\ r.gen = a.gen
        /\ r.life = a.life /\ r.port = a.port /\ r.lost = a.lost
    BY HeadTailProperties DEF TabShape, Unread
  <1>3. Posts(r, h)
    <2>1. Own(r, h) /\ Announced(r)
      BY <1>2 DEF Posts, Own, Announced, Known, Mine, Live, IsHello
    <2>2. ASSUME OneOrder(a)
          PROVE  OneOrder(r)
      <3>1. /\ \A i, j \in Orders(Tail(a.down)) : i = j
            /\ a.gen # 0 \/ Head(a.down).packet = 0 => Orders(Tail(a.down)) = {}
        BY <2>2, TailKeepsOrders
      <3>2. QED
        BY <1>2, <3>1 DEF OneOrder
    <2>4. Live(r, h) /\ ~r.lost => OneOrder(r)
      BY <1>2, <2>2 DEF Posts, Live
    <2>3. QED
      BY <2>1, <2>4 DEF Posts
  <1>4. Kept(r, k)
    BY <1>2 DEF Kept
  <1>5. Carries(r, b)
    <2>1. <<m>> \in Seq(ToTab) /\ Rising(<<m>>)
      BY <1>1 DEF Rising
    <2>2. QED
      BY <1>2, <1>4, <2>1, SendCarries, FollowsItself, CarriesItself
  <1>6. ASSUME NEW p \in Keys, m.gen = r.gen, p \in content[m.packet].to, r.channel[p] = "open"
        PROVE  Passed(b, p, m.packet)
    BY <1>1, <1>2, <1>4, <1>6, SendPasses
  <1> HIDE DEF b
  <1>7. Posts(b, h) /\ b.life = a.life /\ b.port = a.port /\ b.lost = a.lost
    BY <1>2, <1>3, <1>5, CarriesKeepsPosts DEF Carries, Follows
  <1>8. ASSUME NEW g, NEW ps, NEW rs, NEW s, NEW l, Fed(a, g, ps, rs, s, content, k, l)
        PROVE  Fed(b, g, ps, rs, s, content, k, l)
    <2> SUFFICES ASSUME NEW p \in Keys, b.channel[p] = "open", a.gen = g
                 PROVE  Owing(b, g, ps, rs, s, p) \/ Served(b, g, content, k, p, l)
      BY <1>2, <1>5 DEF Fed, Owing, Carries, Follows
    <2>1. r.channel[p] = "open"
      BY <1>5 DEF Carries
    <2>2. CASE Owing(a, g, ps, rs, s, p)
      <3>1. Owing(r, g, ps, rs, s, p)
        BY <1>2, <2>2 DEF Owing, Heard
      <3>2. QED
        BY <1>5, <3>1, CarriesKeepsFed
    <2>3. CASE Served(a, g, content, k, p, l)
      <3> SUFFICES ASSUME NEW x \in 1..l
                   PROVE  \E n \in 1..Len(content) :
                            x \in content[n].batches /\ p \in content[n].to /\ OnTheWay(b, g, k, p, n)
        BY DEF Served
      <3>1. PICK n \in 1..Len(content) :
              x \in content[n].batches /\ p \in content[n].to /\ OnTheWay(a, g, k, p, n)
        BY <2>3 DEF Served
      <3>2. CASE n > k
        BY <3>1, <3>2 DEF OnTheWay
      <3>3. CASE Passed(a, p, n)
        <4>1. Passed(r, p, n)
          BY <1>2, <3>3 DEF Passed
        <4>2. Passed(b, p, n)
          BY <1>5, <4>1 DEF Carries
        <4>3. QED
          BY <3>1, <4>2 DEF OnTheWay
      <3>4. ASSUME NEW i \in DOMAIN a.down, a.down[i].packet = n, a.down[i].gen = g
            PROVE  OnTheWay(b, g, k, p, n)
        <4>1. CASE a.down[i] = m
          <5>1. Passed(b, p, n)
            BY <1>2, <1>6, <2>1, <3>1, <3>4, <4>1
          <5>2. QED
            BY <5>1 DEF OnTheWay
        <4>2. CASE a.down[i] # m
          <5>0. i - 1 \in DOMAIN Tail(a.down) /\ Tail(a.down)[i - 1] = a.down[i]
            BY <1>1, <4>2
          <5>1. \E j \in DOMAIN r.down : r.down[j].packet = n /\ r.down[j].gen = g
            BY <1>2, <3>4, <5>0
          <5>2. b.down = r.down
            BY <1>5 DEF Carries, Follows
          <5>3. QED
            BY <5>1, <5>2 DEF OnTheWay
        <4>3. QED
          BY <4>1, <4>2
      <3>5. QED
        BY <3>1, <3>2, <3>3, <3>4 DEF OnTheWay
    <2>4. QED
      BY <1>8, <1>2, <2>1, <2>2, <2>3 DEF Fed
  <1>9. Live(b, h) => Live(a, h)
    BY <1>7 DEF Live
  <1>10. QED
    BY <1>7, <1>8, <1>9 DEF b

(* The order to attach is read: all channels are announced. *)
LEMMA OrderFeeds ==
  ASSUME NEW a, TabShape(a), a.down # <<>>, NEW k, Kept(a, k), NEW h, Posts(a, h),
         NEW m, m = Head(a.down), m.packet = 0, m.gen # 0, NEW r, r = Unread(a)
  PROVE  LET b == Attach(r, m.gen)
         IN /\ Posts(b, h) /\ b.lost = a.lost /\ (Live(b, h) => Live(a, h))
            /\ Live(a, h) /\ ~a.lost => \A ps, rs, s, c, l : Fed(b, m.gen, ps, rs, s, c, k, l)
  <1> DEFINE g == m.gen
             o == [r EXCEPT !.gen = g]
             d == Announce(o)
             f == Flush(d)
             b == Say(f, "attached", {})
  <1>1. Attach(r, g) = b
    BY DEF Attach
  <1>2. g \in Nat /\ g # 0
    BY DownTail DEF ToTab
  <1> HIDE DEF g
  <1>3. /\ TabShape(o) /\ o.down = Tail(a.down) /\ o.up = a.up /\ o.channel = a.channel /\ o.sent = a.sent
        /\ o.unsent = a.unsent /\ o.announced = a.announced /\ o.gen = g
        /\ o.life = a.life /\ o.port = a.port /\ o.lost = a.lost
    BY <1>2, HeadTailProperties DEF TabShape, Unread
  <1> HIDE DEF o
  <1>4. Posts(o, h)
    <2>1. Own(o, h) /\ Announced(o)
      BY <1>2, <1>3 DEF Posts, Own, Announced, Known, Mine, Live, IsHello
    <2>2. Live(o, h) /\ ~o.lost => OneOrder(o)
      BY <1>3, TailKeepsOrders DEF Posts, OneOrder, Live
    <2>3. QED
      BY <2>1, <2>2 DEF Posts
  <1>5. Kept(o, k)
    BY <1>2, <1>3 DEF Kept
  <1>6. Carries(o, d) /\ (o.gen # 0 /\ ~o.lost => \A p \in Known(o) \ o.announced : Heard(d, o.gen, p))
    BY <1>3, AnnounceCarries
  <1>7. Kept(d, k) /\ TabShape(d)
    <2>1. SameLine(o, d)
      BY <1>3, AnnounceKeepsLine
    <2>2. QED
      BY <1>5, <1>6, <2>1, LineStays DEF Carries, Follows
  <1> HIDE DEF d
  <1>8. Carries(d, f) /\ TabShape(f)
    BY <1>7, FlushCarries DEF Carries, Follows
  <1> HIDE DEF f
  <1>9. Carries(f, b)
    <2>1. "attached" \in Types \ {"hello", "close"} /\ {} \in SUBSET Keys /\ "attached" # "peer-detached"
      BY DEF Types
    <2>2. QED
      BY <1>8, <2>1, SayCarries
  <1> HIDE DEF b
  <1>10. Carries(d, b) /\ Carries(o, b)
    BY <1>6, <1>8, <1>9, CarriesTransitive
  <1>11. Posts(b, h) /\ b.life = a.life /\ b.port = a.port /\ b.lost = a.lost
    BY <1>3, <1>4, <1>10, CarriesKeepsPosts DEF Carries, Follows
  <1>12. ASSUME Live(a, h), ~a.lost, NEW p \in Keys, b.channel[p] = "open"
         PROVE  Heard(b, g, p)
    <2>1. o.channel[p] = "open"
      BY <1>10, <1>12 DEF Carries
    <2>2. a.gen = 0 /\ a.announced = {}
      BY <1>12, TailKeepsOrders DEF Posts, Announced
    <2>3. p \in Known(o) \ o.announced
      BY <1>3, <2>1, <2>2 DEF Known
    <2>4. Heard(d, g, p)
      BY <1>2, <1>3, <1>6, <1>12, <2>3
    <2>5. QED
      BY <1>10, <2>4, CarriesKeepsHeard
  <1>13. Live(a, h) /\ ~a.lost => \A ps, rs, s, c, l : Fed(b, g, ps, rs, s, c, k, l)
    BY <1>12 DEF Fed, Owing
  <1>14. QED
    BY <1>1, <1>11, <1>13 DEF g, Live

(* A tab in a new role, or one that has left, is not live yet or any more. *)
LEMMA ActivatedPosts ==
  ASSUME NEW a, TabShape(a), NEW h \in Nat, h <= a.port, NEW server, a.port < MaxPorts,
         \A i \in DOMAIN a.up : a.up[i].port <= a.port
  PROVE  Posts(Activated(a, server), h) /\ ~Live(Activated(a, server), h)
  <1> DEFINE s == [NewTab EXCEPT !.port = a.port + 1, !.server = server, !.up = a.up]
             u == Say(s, "hello", {})
             b == Say(u, "bootstrap", {})
  <1>1. MaxPorts \in Nat /\ a.port \in Nat /\ {} \in SUBSET Keys /\ "hello" \in Types /\ "bootstrap" \in Types
    BY WorkerAssumption DEF TabShape, Types
  <1>2. /\ TabShape(s) /\ s.up = a.up /\ s.port = a.port + 1 /\ ~s.lost /\ s.gen = 0 /\ s.announced = {}
        /\ s.life = "live"
    BY <1>1, EmptySeq DEF NewTab, TabShape
  <1>3. Activated(a, server) = b
    BY DEF Activated
  <1> HIDE DEF s
  <1>4. LET n == Len(s.up) + 1
        IN /\ TabShape(u) /\ DOMAIN u.up = 1..n /\ DOMAIN s.up = 1..Len(s.up) /\ Len(s.up) \in Nat
           /\ \A i \in DOMAIN s.up : u.up[i] = s.up[i]
           /\ u.up[n].type = "hello" /\ u.port = s.port /\ u.life = s.life /\ u.lost = s.lost
    <2>1. "hello" \in Types /\ {} \in SUBSET Keys /\ TabShape(s) /\ ~s.lost
      BY <1>1, <1>2
    <2>2. QED
      BY <2>1, SayPosts
  <1>5. u.announced = s.announced /\ u.gen = s.gen
    BY <1>1, <1>2, SayAdds
  <1> HIDE DEF u
  <1>6. LET n == Len(u.up) + 1
        IN /\ DOMAIN b.up = 1..n /\ DOMAIN u.up = 1..Len(u.up) /\ Len(u.up) \in Nat
           /\ \A i \in DOMAIN u.up : b.up[i] = u.up[i]
           /\ b.up[n].type = "bootstrap" /\ b.port = u.port /\ b.life = u.life
    <2>1. "bootstrap" \in Types /\ {} \in SUBSET Keys /\ TabShape(u) /\ ~u.lost
      BY <1>1, <1>2, <1>4
    <2>2. QED
      BY <2>1, SayPosts
  <1>7. b.announced = u.announced /\ b.gen = u.gen
    BY <1>1, <1>4, SayAdds
  <1> HIDE DEF b
  <1>8. Announced(b)
    BY <1>2, <1>5, <1>7 DEF Announced
  <1>9. b.port = a.port + 1 /\ ~Live(b, h)
    BY <1>1, <1>2, <1>4, <1>6 DEF Live
  <1>10. \A i \in DOMAIN b.up : i <= Len(a.up) => ~IsHello(b, i)
    BY <1>1, <1>2, <1>4, <1>6, <1>9 DEF IsHello
  <1>11. \A j \in DOMAIN b.up : j > Len(a.up) => b.up[j].type # "peer-detached"
    BY <1>2, <1>4, <1>6
  <1>12. Own(b, h)
    BY <1>2, <1>4, <1>6, <1>9, <1>10, <1>11 DEF Own, Mine
  <1>13. QED
    BY <1>3, <1>8, <1>9, <1>12 DEF Posts

LEMMA PageStepKeepsLog ==
  ASSUME WorkerInv, LogInv, NEW t \in TabIds, NEW b, tab' = [tab EXCEPT ![t] = b],
         UNCHANGED <<vars, helloPort, roomVars>>, Posts(b, helloPort[t]),
         lease # NoLease /\ lease.tab = t /\ Live(b, helloPort[t]) /\ ~b.lost =>
           Fed(b, lease.generation, peers, replaying, boot, content, Left, log)
  PROVE  LogInv'
  <1>1. \A u \in TabIds : tab'[u] = IF u = t THEN b ELSE tab[u]
    BY DEF WorkerInv
  <1>2. UNCHANGED <<lease, Left, helloPort, peers, replaying, boot, content, log>>
    BY DEF vars, queues, roomVars, Left
  <1>3. tab'[lease.tab] = IF lease.tab = t THEN b ELSE tab[lease.tab]
    BY DEF WorkerInv
  <1>4. QED
    BY <1>1, <1>2, <1>3 DEF LogInv

LEMMA PageStepsKeepLog ==
  ASSUME OwnerInv, WorkerInv, LineInv, LogInv, NEW t \in TabIds,
         \/ Activate(t) \/ SessionLost(t) \/ Read(t) \/ PageGone(t) \/ CloseSession(t)
         \/ \E p \in Keys : ChannelOpens(t, p) \/ ChannelBreaks(t, p)
  PROVE  LogInv'
  <1> DEFINE a == tab[t]
             h == helloPort[t]
             g == lease.generation
             Feeds(b) == Fed(b, g, peers, replaying, boot, content, Left, log)
             Ours == lease # NoLease /\ lease.tab = t
  <1>1. /\ TabShape(a) /\ Posts(a, h) /\ Kept(a, Left) /\ TabOK(a, h, conn[t], told[t])
        /\ h \in Nat /\ h <= a.port /\ \A i \in DOMAIN a.up : a.up[i].port <= a.port
    BY WorkerAssumption DEF WorkerInv, TabOK, PortsOK, LogInv, LineInv, InLine, Line
  <1>2. Ours => g # 0 /\ told[t] = g
    BY DEF OwnerInv, LeaseNumbered, IInv, LeaseIsLegitimate, SingleOwner
  <1>3. Ours /\ Live(a, h) /\ ~a.lost => Feeds(a)
    BY DEF LogInv
  <1>4. UNCHANGED <<vars, helloPort, roomVars>>
    BY DEF Activate, SessionLost, Read, PageGone, CloseSession, ChannelOpens, ChannelBreaks
  <1>5. ASSUME NEW b, tab' = [tab EXCEPT ![t] = b], Posts(b, h), Ours /\ Live(b, h) /\ ~b.lost => Feeds(b)
        PROVE  LogInv'
    BY <1>4, <1>5, PageStepKeepsLog
  <1>6. CASE Activate(t)
    <2>1. Posts(Activated(a, leader), h) /\ ~Live(Activated(a, leader), h)
      BY <1>1, <1>6, ActivatedPosts DEF Activate
    <2>2. QED
      BY <1>5, <1>6, <2>1 DEF Activate
  <1>7. CASE SessionLost(t)
    <2> DEFINE b == [a EXCEPT !.lost = TRUE, !.down = <<>>]
    <2>1. /\ b.lost /\ b.up = a.up /\ b.channel = a.channel /\ b.announced = a.announced /\ b.gen = a.gen
          /\ b.life = a.life /\ b.port = a.port
      BY <1>1 DEF TabShape
    <2>2. tab' = [tab EXCEPT ![t] = b]
      BY <1>7 DEF SessionLost
    <2> HIDE DEF b
    <2>3. Posts(b, h)
      BY <1>1, <2>1 DEF Posts, Own, Announced, Known, Mine, Live, IsHello
    <2>4. QED
      BY <1>5, <2>1, <2>2, <2>3
  <1>8. ASSUME NEW from, NEW life, life # "live", tab' = [tab EXCEPT ![t] = Departed(from, life)]
        PROVE  LogInv'
    <2> DEFINE b == Departed(from, life)
    <2>1. b.life = life /\ b.announced = {}
      BY DEF Departed, NewTab
    <2> HIDE DEF b
    <2>2. Posts(b, h) /\ ~Live(b, h)
      BY <1>8, <2>1 DEF Posts, Own, Announced, Live
    <2>3. QED
      BY <1>5, <1>8, <2>2 DEF b
  <1>9. CASE PageGone(t)
    BY <1>8, <1>9 DEF PageGone
  <1>10. CASE CloseSession(t)
    BY <1>8, <1>10 DEF CloseSession
  <1>11. ASSUME NEW p \in Keys, ChannelOpens(t, p)
         PROVE  LogInv'
    <2> DEFINE b == Flush(Announce([a EXCEPT !.channel[p] = "open"]))
    <2>1. a.channel[p] = "none" /\ tab' = [tab EXCEPT ![t] = b]
      BY <1>11 DEF ChannelOpens
    <2>2. /\ Posts(b, h) /\ b.lost = a.lost /\ (Live(b, h) => Live(a, h))
          /\ ~a.lost /\ g # 0 /\ Feeds(a) => Feeds(b)
      BY <1>1, <2>1, OpeningFeeds
    <2> HIDE DEF b
    <2>3. QED
      BY <1>2, <1>3, <1>5, <2>1, <2>2
  <1>12. ASSUME NEW p \in Keys, ChannelBreaks(t, p)
         PROVE  LogInv'
    <2> DEFINE b == [a EXCEPT !.channel[p] = "broken"]
    <2>1. a.channel[p] = "open" /\ tab' = [tab EXCEPT ![t] = b]
      BY <1>12 DEF ChannelBreaks
    <2>2. Follows(a, b)
      BY <1>1, BookkeepingFollows
    <2>3. /\ b.up = a.up /\ b.sent = a.sent /\ b.announced = a.announced
          /\ \A q \in Keys : b.channel[q] = IF q = p THEN "broken" ELSE a.channel[q]
      BY <1>1 DEF TabShape, Kept
    <2> HIDE DEF b
    <2>4. Carries(a, b)
      <3>1. b.gen = a.gen /\ \A i \in DOMAIN b.up : ~(i > Len(a.up))
        BY <1>1, <2>2, <2>3, LenProperties DEF Follows, TabShape
      <3>2. QED
        BY <2>1, <2>2, <2>3, <3>1 DEF Carries, Passed, Announced, Known
    <2>5. Posts(b, h)
      BY <1>1, <2>4, CarriesKeepsPosts
    <2>6. Feeds(a) => Feeds(b)
      BY <2>4, CarriesKeepsFed DEF Fed, Carries
    <2>7. b.lost = a.lost /\ (Live(b, h) => Live(a, h))
      BY <2>2 DEF Follows, Live
    <2>8. QED
      BY <1>3, <1>5, <2>1, <2>5, <2>6, <2>7
  <1>13. CASE Read(t)
    <2> DEFINE m == Head(a.down)
               r == Unread(a)
               b == IF m.packet = 0 THEN Attach(r, m.gen) ELSE IF m.gen = r.gen THEN Send(r, <<m>>) ELSE r
    <2>1. a.down # <<>> /\ tab' = [tab EXCEPT ![t] = b]
      BY <1>13 DEF Read, Unread
    <2>2. m.gen # 0
      BY <1>1, <2>1, DownTail DEF LineInv, InLine, Coming
    <2>3. ASSUME m.packet = 0
          PROVE  Posts(b, h) /\ (Ours /\ Live(b, h) /\ ~b.lost => Feeds(b))
      <3> DEFINE c == Attach(r, m.gen)
      <3>1. /\ Posts(c, h) /\ c.lost = a.lost /\ (Live(c, h) => Live(a, h))
            /\ Live(a, h) /\ ~a.lost => Fed(c, m.gen, peers, replaying, boot, content, Left, log)
        <4>1. TabShape(a) /\ Kept(a, Left) /\ Posts(a, h)
          BY <1>1
        <4>2. a.down # <<>> /\ m.packet = 0 /\ m.gen # 0 /\ m = Head(a.down) /\ r = Unread(a)
          BY <2>1, <2>2, <2>3
        <4> HIDE DEF m, r, a, h, g
        <4>3. QED
          BY <4>1, <4>2, OrderFeeds
      <3>2. ASSUME Ours, Live(a, h), ~a.lost
            PROVE  m.gen = g
        <4>1. 1 \in Orders(a.down) /\ \A j \in Orders(a.down) : j = 1
          BY <1>1, <2>1, <2>3, <3>2, DownTail DEF Orders, Posts, OneOrder
        <4>2. a.down[1].gen = told[t]
          BY <1>1, <3>2, <4>1 DEF TabOK, Holding
        <4>3. QED
          BY <1>1, <1>2, <2>1, <3>2, <4>2, DownTail
      <3>3. b = c
        BY <2>3
      <3> HIDE DEF b, c
      <3>4. QED
        BY <3>1, <3>2, <3>3
    <2>4. ASSUME m.packet # 0
          PROVE  Posts(b, h) /\ (Ours /\ Live(b, h) /\ ~b.lost => Feeds(b))
      <3> DEFINE c == IF m.gen = r.gen THEN Send(r, <<m>>) ELSE r
      <3>1. Posts(c, h) /\ c.lost = a.lost /\ (Live(c, h) => Live(a, h)) /\ (Feeds(a) => Feeds(c))
        <4>1. TabShape(a) /\ Kept(a, Left) /\ Posts(a, h)
          BY <1>1
        <4>2. a.down # <<>> /\ m.packet # 0 /\ m = Head(a.down) /\ r = Unread(a)
          BY <2>1, <2>4
        <4> HIDE DEF m, r, a, h, g
        <4>3. QED
          BY <4>1, <4>2, PacketFeeds
      <3>2. b = c
        BY <2>4
      <3> HIDE DEF b, c
      <3>3. QED
        BY <1>3, <3>1, <3>2
    <2> HIDE DEF b
    <2>5. QED
      BY <1>5, <2>1, <2>3, <2>4
  <1>14. QED
    BY <1>6, <1>7, <1>9, <1>10, <1>11, <1>12, <1>13
-----------------------------------------------------------------------------
(* What the coordinator pushes to the tab it leases: one order at most, under *)
(* a new lease, and every packet that has left it.                           *)
LEMMA PushedPackets ==
  ASSUME OwnerInv, OwnerInv', PacketsInOrder, PacketsInOrder', NEW t \in TabIds
  PROVE  /\ \A i \in Orders(Pushed(t)) : i = 1 /\ NewlyLeased(t)
         /\ lease' # NoLease /\ lease'.tab = t =>
              \A n \in (Left + 1)..Left' :
                \E i \in DOMAIN Pushed(t) : Pushed(t)[i].packet = n /\ Pushed(t)[i].gen = lease'.generation
  <1>1. CASE lease' = NoLease \/ lease'.tab # t
    <2>1. Pushed(t) = <<>>
      BY <1>1 DEF Pushed
    <2>2. DOMAIN <<>> = {}
      OBVIOUS
    <2>3. QED
      BY <1>1, <2>1, <2>2 DEF Orders
  <1>2. CASE lease' # NoLease /\ lease'.tab = t
    <2> DEFINE order == [gen |-> generation', packet |-> 0]
               s == IF generation' > generation THEN <<order>> ELSE <<>>
               c == carried'["crdt"]
               q == [i \in 1..(Len(c) - Left) |-> [gen |-> lease'.generation, packet |-> c[Left + i]]]
    <2>1. /\ lease'.generation = generation' /\ generation' \in Nat \ {0} /\ generation \in Nat
          /\ generation' > generation => NewlyLeased(t)
      BY <1>2 DEF OwnerInv, LeaseNumbered, IInv, SingleOwner, LeaseIsLegitimate, TypeOK, NewlyLeased
    <2>2. /\ Left \in Nat /\ Left' \in Nat /\ c \in Seq(Nat) /\ Len(c) = Left'
          /\ \A k \in 1..Left' : c[k] = k
      <3>1. Left \in Nat
        BY CarriedNumbers DEF OwnerInv, IInv
      <3>2. Left' \in Nat /\ c \in Seq(Nat) /\ \A k \in 1..Left' : c[k] = k
        BY CarriedNumbersNext DEF OwnerInv, IInv
      <3>3. QED
        BY <3>1, <3>2 DEF Left
    <2>3. Pushed(t) = s \o q
      BY <1>2 DEF Pushed, Left
    <2>4. s \in Seq(ToTab) /\ Len(s) \in 0..1 /\ (Len(s) = 1 => generation' > generation)
      <3>1. order \in ToTab
        BY <2>1 DEF ToTab
      <3> HIDE DEF order
      <3>2. <<order>> \in Seq(ToTab) /\ Len(<<order>>) = 1
        BY <3>1, SingletonIsSeq
      <3>3. <<>> \in Seq(ToTab) /\ Len(<<>>) = 0
        BY EmptySeq
      <3>4. QED
        BY <3>2, <3>3
    <2> HIDE DEF s
    <2>5. /\ q \in Seq(ToTab) /\ Len(q) \in Nat /\ 1..Len(q) = 1..(Left' - Left)
          /\ \A i \in 1..(Left' - Left) : q[i].gen = generation' /\ q[i].packet = Left + i
      <3>1. q \in [1..(Len(c) - Left) -> ToTab]
        <4> HIDE DEF c
        <4>1. QED
          BY <2>1, <2>2, PacketsAreOrders
      <3>2. q \in Seq(ToTab) /\ 1..Len(q) = 1..(Len(c) - Left) /\ Len(q) \in Nat
        <4> HIDE DEF q, c
        <4>1. Len(c) - Left \in Int
          BY <2>2
        <4>2. QED
          BY <3>1, <4>1, FunctionIsSeq, LenProperties
      <3>3. \A i \in 1..(Left' - Left) : Left + i \in 1..Left'
        BY <2>2, Between
      <3>4. \A i \in 1..(Left' - Left) : q[i].gen = generation' /\ q[i].packet = Left + i
        BY <2>1, <2>2, <3>3
      <3>5. QED
        BY <2>2, <3>2, <3>4
    <2> HIDE DEF q
    <2> DEFINE u == s \o q
    <2>6. /\ u \in Seq(ToTab) /\ DOMAIN u = 1..(Len(s) + Len(q))
          /\ \A k \in 1..(Len(s) + Len(q)) : u[k] = IF k <= Len(s) THEN s[k] ELSE q[k - Len(s)]
      BY <2>4, <2>5, ConcatProperties, LenProperties
    <2> HIDE DEF u, c
    <2>7. ASSUME NEW n \in (Left + 1)..Left'
          PROVE  \E i \in DOMAIN u : u[i].packet = n /\ u[i].gen = lease'.generation
      <3> DEFINE i == Len(s) + (n - Left)
      <3>1. n - Left \in 1..Len(q) /\ Left + (n - Left) = n
        BY <2>2, <2>5
      <3>2. i \in 1..(Len(s) + Len(q)) /\ ~(i <= Len(s)) /\ i - Len(s) = n - Left
        BY <2>4, <2>5, <3>1
      <3> HIDE DEF i
      <3>3. u[i].packet = n /\ u[i].gen = generation'
        BY <2>5, <2>6, <3>1, <3>2
      <3>4. QED
        BY <2>1, <2>6, <3>2, <3>3
    <2>8. ASSUME NEW i \in Orders(u)
          PROVE  i = 1 /\ NewlyLeased(t)
      <3>1. i \in 1..(Len(s) + Len(q)) /\ u[i].packet = 0
        BY <2>6 DEF Orders
      <3>2. i <= Len(s)
        <4>1. SUFFICES ASSUME ~(i <= Len(s)) PROVE FALSE
          OBVIOUS
        <4>2. i - Len(s) \in 1..Len(q)
          BY <2>4, <2>5, <3>1, <4>1
        <4>3. u[i].packet = Left + (i - Len(s))
          BY <2>5, <2>6, <3>1, <4>1, <4>2
        <4>4. \A m \in Nat : \A x \in 1..Len(q) : m + x # 0
          BY <2>5
        <4>5. Left + (i - Len(s)) # 0
          <5> HIDE DEF u
          <5>1. QED
            BY <2>2, <4>2, <4>4
        <4>6. QED
          BY <3>1, <4>3, <4>5
      <3>3. Len(s) = 1 /\ i = 1
        <4>1. i \in Int /\ i >= 1
          BY <2>4, <2>5, <3>1
        <4>2. Len(s) = 0 \/ Len(s) = 1
          BY <2>4
        <4>3. \A x \in Int, y \in {0, 1} : x >= 1 /\ x <= y => y = 1 /\ x = 1
          OBVIOUS
        <4>4. QED
          BY <3>2, <4>1, <4>2, <4>3
      <3>4. QED
        BY <2>1, <2>4, <3>3
    <2>9. QED
      BY <1>2, <2>3, <2>7, <2>8 DEF u
  <1>3. QED
    BY <1>1, <1>2

(* The tab a once the messages P are on their way to it. *)
Handed(a, P) == [a EXCEPT !.down = a.down \o P]

LEMMA PushPosts ==
  ASSUME NEW a, TabShape(a), NEW P \in Seq(ToTab), NEW h, Posts(a, h), \A i \in Orders(P) : i = 1,
         Orders(P) # {} => a.gen = 0 /\ Orders(a.down) = {}
  PROVE  LET b == Handed(a, P)
         IN /\ Posts(b, h) /\ b.gen = a.gen /\ b.up = a.up /\ b.channel = a.channel /\ b.sent = a.sent
            /\ b.life = a.life /\ b.port = a.port /\ b.lost = a.lost
            /\ \A i \in DOMAIN a.down : \E j \in DOMAIN b.down : b.down[j] = a.down[i]
            /\ \A i \in DOMAIN P : \E j \in DOMAIN b.down : b.down[j] = P[i]
  <1> DEFINE d == a.down
             r == d \o P
             b == [a EXCEPT !.down = r]
  <1>1. d \in Seq(ToTab)
    BY DEF TabShape
  <1>2. /\ Len(d) \in Nat /\ Len(P) \in Nat /\ DOMAIN d = 1..Len(d) /\ DOMAIN P = 1..Len(P)
        /\ DOMAIN r = 1..(Len(d) + Len(P))
        /\ \A i \in 1..(Len(d) + Len(P)) : r[i] = IF i <= Len(d) THEN d[i] ELSE P[i - Len(d)]
    BY <1>1, ConcatProperties, LenProperties
  <1> HIDE DEF r
  <1>3. /\ b.down = r /\ b.gen = a.gen /\ b.up = a.up /\ b.channel = a.channel /\ b.sent = a.sent
        /\ b.life = a.life /\ b.port = a.port /\ b.lost = a.lost /\ b.announced = a.announced
    BY DEF TabShape
  <1> HIDE DEF b
  <1>4. \A i \in DOMAIN d : i \in DOMAIN r /\ r[i] = d[i]
    BY <1>2
  <1>5. \A i \in DOMAIN P : Len(d) + i \in DOMAIN r /\ r[Len(d) + i] = P[i]
    <2> SUFFICES ASSUME NEW i \in DOMAIN P
                 PROVE  Len(d) + i \in DOMAIN r /\ r[Len(d) + i] = P[i]
      OBVIOUS
    <2>1. Len(d) + i \in 1..(Len(d) + Len(P)) /\ ~(Len(d) + i <= Len(d)) /\ Len(d) + i - Len(d) = i
      BY <1>2
    <2>2. QED
      BY <1>2, <2>1
  <1>6. \A i \in Orders(r) : i \in Orders(d) \/ (i - Len(d) \in Orders(P) /\ i = Len(d) + (i - Len(d)))
    <2> SUFFICES ASSUME NEW i \in Orders(r), i \notin Orders(d)
                 PROVE  i - Len(d) \in Orders(P) /\ i = Len(d) + (i - Len(d))
      OBVIOUS
    <2>1. i \in 1..(Len(d) + Len(P)) /\ r[i].packet = 0
      BY <1>2 DEF Orders
    <2>2. ~(i <= Len(d))
      BY <1>2, <2>1 DEF Orders
    <2>3. i - Len(d) \in 1..Len(P) /\ i = Len(d) + (i - Len(d))
      BY <1>2, <2>1, <2>2
    <2>4. QED
      BY <1>2, <2>1, <2>2, <2>3 DEF Orders
  <1>7. ASSUME OneOrder(a)
        PROVE  OneOrder(b)
    <2>1. CASE Orders(P) = {}
      <3>1. \A i \in Orders(r) : i \in Orders(d)
        BY <1>6, <2>1
      <3>2. QED
        BY <1>3, <1>7, <3>1 DEF OneOrder
    <2>2. CASE Orders(P) # {}
      <3>1. a.gen = 0 /\ \A i \in Orders(r) : i = Len(d) + 1
        BY <1>6, <2>2
      <3>2. QED
        BY <1>3, <3>1 DEF OneOrder
    <2>3. QED
      BY <2>1, <2>2
  <1>8. Posts(b, h)
    BY <1>3, <1>7 DEF Posts, Own, Announced, Known, Mine, Live, IsHello
  <1>9. QED
    BY <1>3, <1>4, <1>5, <1>8 DEF b, r, Handed

(* A step in which the coordinator may push to the tabs ts. *)
LEMMA OwnerStepKeepsLog ==
  ASSUME OwnerInv, OwnerInv', PacketsInOrder, PacketsInOrder', WorkerInv',
         NEW ts, DOMAIN ts = TabIds, Deliver(ts),
         \A u \in TabIds :
           /\ TabShape(ts[u]) /\ Posts(ts[u], helloPort'[u])
           /\ Live(ts[u], helloPort'[u]) /\ ~ts[u].lost /\ NewlyLeased(u) =>
                ts[u].gen = 0 /\ Orders(ts[u].down) = {},
         lease' # NoLease /\ ~NewlyLeased(lease'.tab)
           /\ Live(ts[lease'.tab], helloPort'[lease'.tab]) /\ ~ts[lease'.tab].lost =>
           Fed(ts[lease'.tab], lease'.generation, peers', replaying', boot', content', Left, log')
  PROVE  LogInv'
  <1>1. ASSUME NEW u \in TabIds
        PROVE  LET a == ts[u]
                   b == tab'[u]
               IN /\ Posts(b, helloPort'[u]) /\ b.gen = a.gen /\ b.up = a.up /\ b.channel = a.channel
                  /\ b.sent = a.sent /\ b.life = a.life /\ b.port = a.port /\ b.lost = a.lost
                  /\ \A i \in DOMAIN a.down : \E j \in DOMAIN b.down : b.down[j] = a.down[i]
                  /\ Listens(ts, u) => \A i \in DOMAIN Pushed(u) :
                                         \E j \in DOMAIN b.down : b.down[j] = Pushed(u)[i]
    <2> DEFINE a == ts[u]
               P == Pushed(u)
               b == Handed(a, P)
    <2>1. tab'[u] = IF Listens(ts, u) THEN b ELSE a
      BY DEF Deliver, Handed
    <2>2. TabShape(a) /\ Posts(a, helloPort'[u])
      OBVIOUS
    <2>3. P \in Seq(ToTab) /\ \A i \in Orders(P) : i = 1 /\ NewlyLeased(u)
      BY PushedPackets, PushedInLine
    <2>4. ASSUME Listens(ts, u)
          PROVE  Orders(P) # {} => a.gen = 0 /\ Orders(a.down) = {}
      BY <2>3, <2>4 DEF Listens, Live
    <2> HIDE DEF P, a
    <2>5. Listens(ts, u) =>
            /\ Posts(b, helloPort'[u]) /\ b.gen = a.gen /\ b.up = a.up /\ b.channel = a.channel
            /\ b.sent = a.sent /\ b.life = a.life /\ b.port = a.port /\ b.lost = a.lost
            /\ \A i \in DOMAIN a.down : \E j \in DOMAIN b.down : b.down[j] = a.down[i]
            /\ \A i \in DOMAIN P : \E j \in DOMAIN b.down : b.down[j] = P[i]
      BY <2>2, <2>3, <2>4, PushPosts
    <2> HIDE DEF b
    <2>6. QED
      BY <2>1, <2>2, <2>5 DEF a, P
  <1>2. Left \in Nat /\ Left' \in Nat
    <2>1. Left \in Nat
      BY CarriedNumbers DEF OwnerInv, IInv
    <2>2. Left' \in Nat
      BY CarriedNumbersNext DEF OwnerInv, IInv
    <2>3. QED
      BY <2>1, <2>2
  <1>3. ASSUME lease' # NoLease, Live(tab'[lease'.tab], helloPort'[lease'.tab]), ~tab'[lease'.tab].lost
        PROVE  Fed(tab'[lease'.tab], lease'.generation, peers', replaying', boot', content', Left', log')
    <2> DEFINE u == lease'.tab
               a == ts[u]
               b == tab'[u]
               g == lease'.generation
    <2>1. u \in TabIds /\ g \in Nat \ {0}
      BY <1>3 DEF OwnerInv, LeaseNumbered, IInv, TypeOK, Leases, LeaseIsLegitimate
    <2>2. /\ b.gen = a.gen /\ b.up = a.up /\ b.channel = a.channel
          /\ b.sent = a.sent /\ b.life = a.life /\ b.port = a.port /\ b.lost = a.lost
          /\ \A i \in DOMAIN a.down : \E j \in DOMAIN b.down : b.down[j] = a.down[i]
          /\ Listens(ts, u) => \A i \in DOMAIN Pushed(u) :
                                 \E j \in DOMAIN b.down : b.down[j] = Pushed(u)[i]
      BY <1>1, <2>1
    <2>3. Live(a, helloPort'[u]) /\ ~a.lost /\ Listens(ts, u)
      <3>1. conn'[u][b.port] \in {"open", "session"}
        BY <1>3, <2>1 DEF WorkerInv, TabOK, PortsOK
      <3>2. QED
        BY <1>3, <2>2, <3>1 DEF Live, Listens
    <2>4. CASE NewlyLeased(u)
      <3>1. b.gen # g
        BY <2>1, <2>2, <2>3, <2>4
      <3>2. QED
        BY <3>1 DEF Fed, Owing
    <2>5. CASE ~NewlyLeased(u)
      <3>1. Fed(a, g, peers', replaying', boot', content', Left, log')
        BY <1>3, <2>3, <2>5
      <3>2. \A n \in (Left + 1)..Left' : \E i \in DOMAIN b.down : b.down[i].packet = n /\ b.down[i].gen = g
        BY <1>3, <2>1, <2>2, <2>3, PushedPackets
      <3> HIDE DEF a, b, u, g
      <3>3. ASSUME NEW p \in Keys, NEW n \in 1..Len(content'), OnTheWay(a, g, Left, p, n)
            PROVE  OnTheWay(b, g, Left', p, n)
        <4>1. CASE n > Left
          <5>1. n > Left' \/ n \in (Left + 1)..Left'
            BY <1>2, <4>1
          <5>2. QED
            BY <3>2, <5>1 DEF OnTheWay
        <4>2. CASE ~(n > Left)
          BY <2>2, <3>3, <4>2 DEF OnTheWay, Passed
        <4>3. QED
          BY <4>1, <4>2
      <3>4. ASSUME NEW p \in Keys
            PROVE  /\ Owing(a, g, peers', replaying', boot', p) => Owing(b, g, peers', replaying', boot', p)
                   /\ Served(a, g, content', Left, p, log') => Served(b, g, content', Left', p, log')
        BY <2>2, <3>3 DEF Owing, Heard, Served
      <3>5. QED
        BY <2>2, <3>1, <3>4 DEF Fed, b, u, g
    <2>6. QED
      BY <2>4, <2>5
  <1>4. QED
    BY <1>1, <1>3 DEF LogInv
-----------------------------------------------------------------------------
(* The transport is only leased anew while nobody has it: the tab that gets it *)
(* holds no generation and is told of none.                                 *)
LEMMA ElectionIsNew ==
  ASSUME NEW l, NEW forget, ElectOwner(l, forget), TypeOK, NEW u, NewlyLeased(u)
  PROVE  l = NoLease
  <1>1. generation \in Nat
    BY DEF TypeOK
  <1>2. ~KeepLease(l, forget)
    BY <1>1 DEF KeepLease, NewlyLeased
  <1>3. QED
    BY <1>2 DEF ElectOwner

LEMMA FreeTabIsUntold ==
  ASSUME OwnerInv, WorkerInv, LineInv, LogInv, NEW u \in TabIds, lease = NoLease \/ lease.tab # u,
         Live(tab[u], helloPort[u]), ~tab[u].lost
  PROVE  tab[u].gen = 0 /\ Orders(tab[u].down) = {}
  <1> DEFINE a == tab[u]
  <1>1. helloPort[u] # 0 /\ u \in Registered
    BY DEF WorkerInv, Live
  <1>2. told[u] = 0
    BY <1>1 DEF OwnerInv, IInv, SingleOwner, Accepts, Holds, WorkerInv
  <1>3. Holding(a, 0)
    BY <1>2 DEF WorkerInv, TabOK
  <1>4. \A i \in Orders(a.down) : a.down[i].gen # 0
    BY DEF LineInv, InLine, Coming, Orders
  <1>5. \A i, j \in Orders(a.down) : i = j
    BY DEF LogInv, Posts, OneOrder
  <1>6. Orders(a.down) \subseteq Nat
    BY LenProperties DEF Orders, WorkerInv, TabOK, PortsOK, TabShape
  <1>7. \A i \in Orders(a.down) : \A j \in Orders(a.down) : j <= i
    BY <1>5, <1>6
  <1>8. Orders(a.down) = {}
    BY <1>3, <1>4, <1>7 DEF Holding
  <1>9. QED
    BY <1>3, <1>8 DEF Holding

(* The worker takes the first message that a tab has posted. *)
Taken(a) == [a EXCEPT !.up = Tail(a.up)]

LEMMA ReceiptKeepsPosts ==
  ASSUME NEW a, NEW h, NEW c, PortsOK(a, h, c), a.up # <<>>, Posts(a, h), NEW h2,
         h2 = (IF Head(a.up).type = "hello" THEN Head(a.up).port ELSE h)
  PROVE  LET b == Taken(a)
         IN /\ TabShape(b) /\ Posts(b, h2)
            /\ b.gen = a.gen /\ b.down = a.down /\ b.channel = a.channel /\ b.sent = a.sent
            /\ b.life = a.life /\ b.port = a.port /\ b.lost = a.lost
            /\ Head(a.up).type = "hello" /\ Live(b, h2) => b.gen = 0 /\ Orders(b.down) = {}
            /\ \A g, p : Heard(a, g, p) =>
                 \/ Heard(b, g, p)
                 \/ Head(a.up).type = "peer-attached" /\ Head(a.up).gen = g /\ p \in Head(a.up).peers
            /\ Live(a, h) => Mine(a, Head(a.up))
  <1> DEFINE v == Tail(a.up)
             b == Taken(a)
  <1>1. TabShape(a)
    BY DEF PortsOK
  <1>2. /\ v \in Seq(Posted) /\ DOMAIN v \subseteq Nat /\ DOMAIN a.up \subseteq Nat
        /\ 1 \in DOMAIN a.up /\ a.up[1] = Head(a.up)
        /\ \A i \in DOMAIN v : i + 1 \in DOMAIN a.up /\ v[i] = a.up[i + 1]
        /\ \A i \in DOMAIN a.up : i = 1 \/ (i - 1 \in DOMAIN v /\ v[i - 1] = a.up[i])
    BY <1>1, HeadTailProperties, LenProperties, EmptySeq DEF TabShape
  <1> HIDE DEF v
  <1>3. /\ TabShape(b) /\ b.up = v /\ b.gen = a.gen /\ b.down = a.down /\ b.channel = a.channel
        /\ b.sent = a.sent /\ b.life = a.life /\ b.port = a.port /\ b.lost = a.lost
        /\ b.announced = a.announced
    BY <1>1, <1>2 DEF TabShape, Taken, v
  <1> HIDE DEF b
  <1>4. Head(a.up).type = "hello" /\ Live(b, h2) => IsHello(a, 1) /\ b.gen = 0 /\ Orders(b.down) = {}
    <2>1. DOMAIN <<>> = {}
      OBVIOUS
    <2>2. QED
      BY <1>2, <1>3, <2>1 DEF Live, IsHello, PortsOK, Orders
  <1>5. Own(b, h2)
    <2> SUFFICES ASSUME a.life = "live", NEW j \in DOMAIN v,
                        Live(b, h2) \/ \E i \in DOMAIN v : i < j /\ IsHello(b, i)
                 PROVE  Mine(b, v[j])
      BY <1>3 DEF Own
    <2>1. j + 1 \in DOMAIN a.up /\ v[j] = a.up[j + 1] /\ 1 < j + 1
      BY <1>2
    <2>2. Live(a, h) \/ \E i \in DOMAIN a.up : i < j + 1 /\ IsHello(a, i)
      <3>1. CASE Live(b, h2)
        BY <1>2, <1>3, <1>4, <2>1, <3>1 DEF Live
      <3>2. ASSUME NEW i \in DOMAIN v, i < j, IsHello(b, i)
            PROVE  i + 1 \in DOMAIN a.up /\ i + 1 < j + 1 /\ IsHello(a, i + 1)
        BY <1>2, <1>3, <3>2 DEF IsHello
      <3>3. QED
        BY <3>1, <3>2
    <2>3. Mine(a, a.up[j + 1])
      BY <2>1, <2>2 DEF Posts, Own
    <2>4. QED
      BY <1>3, <2>1, <2>3 DEF Mine
  <1>6. Live(b, h2) /\ ~b.lost => OneOrder(b)
    BY <1>3, <1>4 DEF Posts, OneOrder, Live
  <1>7. Posts(b, h2)
    BY <1>3, <1>5, <1>6 DEF Posts, Announced, Known
  <1>8. \A g, p : Heard(a, g, p) =>
          \/ Heard(b, g, p)
          \/ Head(a.up).type = "peer-attached" /\ Head(a.up).gen = g /\ p \in Head(a.up).peers
    <2> SUFFICES ASSUME NEW g, NEW p, NEW i \in DOMAIN a.up,
                        a.up[i].type = "peer-attached" /\ a.up[i].gen = g /\ p \in a.up[i].peers
                 PROVE  \/ Heard(b, g, p)
                        \/ Head(a.up).type = "peer-attached" /\ Head(a.up).gen = g /\ p \in Head(a.up).peers
      BY DEF Heard
    <2>1. CASE i = 1
      BY <1>2, <2>1
    <2>2. CASE i # 1
      <3>1. i - 1 \in DOMAIN v /\ v[i - 1] = a.up[i]
        BY <1>2, <2>2
      <3>2. QED
        BY <1>3, <3>1 DEF Heard
    <2>3. QED
      BY <2>1, <2>2
  <1>9. Live(a, h) => Mine(a, Head(a.up))
    BY <1>2 DEF Posts, Own, Live
  <1>10. QED
    BY <1>3, <1>4, <1>7, <1>8, <1>9 DEF b

(* What is owed to a channel stays owed when nothing else changes. *)
LEMMA FedStays ==
  ASSUME NEW a, NEW b, b.gen = a.gen, b.down = a.down, b.channel = a.channel, b.sent = a.sent,
         NEW g, NEW ps, NEW rs, NEW s, NEW c, NEW k, NEW l, Fed(a, g, ps, rs, s, c, k, l),
         NEW ps2, NEW rs2, NEW s2,
         \A p \in Keys : a.channel[p] = "open" /\ Owing(a, g, ps, rs, s, p) => Owing(b, g, ps2, rs2, s2, p)
  PROVE  Fed(b, g, ps2, rs2, s2, c, k, l)
  BY DEF Fed, Served, OnTheWay, Passed

(* The runtime starts to read the log for more peers. *)
LEMMA RoomWorkKeepsLog ==
  ASSUME LogInv, UNCHANGED <<vars, tab, helloPort, log, content>>,
         replaying \subseteq replaying',
         boot # "running" => peers \subseteq replaying' \/ (boot' # "running" /\ peers \subseteq peers')
  PROVE  LogInv'
  <1>1. UNCHANGED <<lease, Left, tab, helloPort, log, content>>
    BY DEF vars, queues, Left
  <1>2. ASSUME lease # NoLease, Live(tab[lease.tab], helloPort[lease.tab]), ~tab[lease.tab].lost
        PROVE  Fed(tab[lease.tab], lease.generation, peers', replaying', boot', content, Left, log)
    <2> DEFINE a == tab[lease.tab]
               g == lease.generation
    <2>1. Fed(a, g, peers, replaying, boot, content, Left, log)
      BY <1>2 DEF LogInv
    <2> HIDE DEF a, g
    <2>2. \A p \in Keys : Owing(a, g, peers, replaying, boot, p) => Owing(a, g, peers', replaying', boot', p)
      BY DEF Owing
    <2>3. Fed(a, g, peers', replaying', boot', content, Left, log)
      BY <2>1, <2>2, FedStays
    <2>4. QED
      BY <2>3 DEF a, g
  <1>3. QED
    BY <1>1, <1>2 DEF LogInv

LEMMA RestPosts ==
  ASSUME WorkerInv, LogInv, NEW t \in TabIds, tab[t].up # <<>>, NEW h2,
         h2 = (IF Message(t).type = "hello" THEN Message(t).port ELSE helloPort[t])
  PROVE  /\ DOMAIN Rest(t) = TabIds
         /\ \A u \in TabIds : u # t => /\ Rest(t)[u] = tab[u] /\ TabShape(tab[u])
                                       /\ Posts(tab[u], helloPort[u])
         /\ LET a == tab[t]
                b == Rest(t)[t]
            IN /\ TabShape(b) /\ Posts(b, h2)
               /\ b.gen = a.gen /\ b.down = a.down /\ b.channel = a.channel /\ b.sent = a.sent
               /\ b.life = a.life /\ b.port = a.port /\ b.lost = a.lost
               /\ Message(t).type = "hello" /\ Live(b, h2) => b.gen = 0 /\ Orders(b.down) = {}
               /\ \A g, p : Heard(a, g, p) =>
                    \/ Heard(b, g, p)
                    \/ Message(t).type = "peer-attached" /\ Message(t).gen = g /\ p \in Message(t).peers
               /\ Live(a, helloPort[t]) => Mine(a, Message(t))
  <1> DEFINE a == tab[t]
  <1>1. /\ DOMAIN Rest(t) = TabIds /\ Rest(t)[t] = Taken(a)
        /\ \A u \in TabIds : u # t => Rest(t)[u] = tab[u]
    BY DEF WorkerInv, Rest, Taken
  <1>2. \A u \in TabIds : TabShape(tab[u]) /\ Posts(tab[u], helloPort[u])
    BY DEF WorkerInv, TabOK, PortsOK, LogInv
  <1>3. PortsOK(a, helloPort[t], conn[t]) /\ Posts(a, helloPort[t])
    BY DEF WorkerInv, TabOK, LogInv
  <1>4. Message(t) = Head(a.up)
    BY DEF Message
  <1> HIDE DEF a
  <1>5. a.up # <<>> /\ h2 = (IF Head(a.up).type = "hello" THEN Head(a.up).port ELSE helloPort[t])
    BY <1>4 DEF a
  <1> DEFINE b == Taken(a)
  <1>6. /\ TabShape(b) /\ Posts(b, h2)
        /\ b.gen = a.gen /\ b.down = a.down /\ b.channel = a.channel /\ b.sent = a.sent
        /\ b.life = a.life /\ b.port = a.port /\ b.lost = a.lost
        /\ Head(a.up).type = "hello" /\ Live(b, h2) => b.gen = 0 /\ Orders(b.down) = {}
        /\ \A g, p : Heard(a, g, p) =>
             \/ Heard(b, g, p)
             \/ Head(a.up).type = "peer-attached" /\ Head(a.up).gen = g /\ p \in Head(a.up).peers
        /\ Live(a, helloPort[t]) => Mine(a, Head(a.up))
    BY <1>3, <1>5, ReceiptKeepsPosts
  <1> HIDE DEF b
  <1>7. QED
    BY <1>1, <1>2, <1>4, <1>6 DEF a, b

LEMMA RegistrationIsNew ==
  ASSUME TypeOK, NEW t \in TabIds, RegisterTab(t, TRUE), NEW u, u # t, NewlyLeased(u)
  PROVE  lease = NoLease \/ lease.tab = t
  <1>1. CASE AttachOwner(t, {})
    BY <1>1, NewLeaseType DEF TypeOK, AttachOwner, NewlyLeased
  <1>2. CASE ElectOwner(IF Holds(t) THEN NoLease ELSE lease, {t})
    <2>1. (IF Holds(t) THEN NoLease ELSE lease) = NoLease
      BY <1>2, ElectionIsNew
    <2>2. QED
      BY <2>1 DEF Holds
  <1>3. QED
    BY <1>1, <1>2 DEF RegisterTab

LEMMA UnregistrationIsNew ==
  ASSUME TypeOK, NEW t \in TabIds, UnregisterTab(t), NEW u, NewlyLeased(u)
  PROVE  lease = NoLease \/ lease.tab = t
  BY DEF UnregisterTab, KeepLease, NewlyLeased, Holds, TypeOK

LEMMA ReceiveHelloKeepsLog ==
  ASSUME OwnerInv, OwnerInv', PacketsInOrder, PacketsInOrder', WorkerInv, WorkerInv', LineInv, LogInv,
         NEW t \in TabIds, ReceiveHello(t)
  PROVE  LogInv'
  <1> DEFINE ts == Rest(t)
             h2 == Message(t).port
  <1>1. /\ tab[t].up # <<>> /\ Message(t).type = "hello" /\ RegisterTab(t, TRUE) /\ Deliver(ts)
        /\ helloPort' = [helloPort EXCEPT ![t] = h2]
        /\ UNCHANGED <<peers, replaying, boot, content, log>>
    BY DEF ReceiveHello, Takes, roomVars
  <1>2. helloPort'[t] = h2 /\ \A u \in TabIds : u # t => helloPort'[u] = helloPort[u]
    BY <1>1 DEF WorkerInv
  <1>3. /\ DOMAIN ts = TabIds
        /\ \A u \in TabIds : u # t => ts[u] = tab[u] /\ TabShape(tab[u]) /\ Posts(tab[u], helloPort[u])
        /\ TabShape(ts[t]) /\ Posts(ts[t], h2)
        /\ Live(ts[t], h2) => ts[t].gen = 0 /\ Orders(ts[t].down) = {}
    BY <1>1, RestPosts
  <1> HIDE DEF ts, h2
  <1>4. ASSUME NEW u \in TabIds
        PROVE  /\ TabShape(ts[u]) /\ Posts(ts[u], helloPort'[u])
               /\ Live(ts[u], helloPort'[u]) /\ ~ts[u].lost /\ NewlyLeased(u) =>
                    ts[u].gen = 0 /\ Orders(ts[u].down) = {}
    <2>1. CASE u = t
      BY <1>2, <1>3, <2>1
    <2>2. CASE u # t
      <3>1. ASSUME NewlyLeased(u)
            PROVE  lease = NoLease \/ lease.tab # u
        BY <1>1, <2>2, <3>1, RegistrationIsNew DEF OwnerInv, IInv
      <3>2. QED
        BY <1>2, <1>3, <2>2, <3>1, FreeTabIsUntold
    <2>3. QED
      BY <2>1, <2>2
  <1>5. ASSUME lease' # NoLease, ~NewlyLeased(lease'.tab),
               Live(ts[lease'.tab], helloPort'[lease'.tab]), ~ts[lease'.tab].lost
        PROVE  Fed(ts[lease'.tab], lease'.generation, peers', replaying', boot', content', Left, log')
    <2>1. lease' = lease /\ lease.tab # t /\ lease.tab \in TabIds
      BY <1>1, <1>5, RegistrationLeases DEF OwnerInv, IInv, TypeOK, Leases
    <2>2. QED
      BY <1>1, <1>2, <1>3, <1>5, <2>1 DEF LogInv
  <1>6. QED
    BY <1>1, <1>3, <1>4, <1>5, OwnerStepKeepsLog

LEMMA DisconnectKeepsLog ==
  ASSUME OwnerInv, OwnerInv', PacketsInOrder, PacketsInOrder', WorkerInv, WorkerInv', LineInv, LogInv,
         NEW t \in TabIds, NEW i \in Ports, Disconnect(t, i)
  PROVE  LogInv'
  <1>1. /\ Deliver(tab) /\ helloPort' = [helloPort EXCEPT ![t] = 0]
        /\ UNCHANGED <<peers, replaying, boot, content, log>>
        /\ UnregisterTab(t) \/ UNCHANGED vars
    BY DEF Disconnect, roomVars
  <1>2. helloPort'[t] = 0 /\ \A u \in TabIds : u # t => helloPort'[u] = helloPort[u]
    BY <1>1, WorkerAssumption DEF WorkerInv
  <1>3. DOMAIN tab = TabIds /\ \A u \in TabIds : TabShape(tab[u]) /\ Posts(tab[u], helloPort[u])
    BY DEF WorkerInv, TabOK, PortsOK, LogInv
  <1>4. ~Live(tab[t], 0) /\ Posts(tab[t], 0)
    <2>1. ~Live(tab[t], 0)
      BY DEF Live
    <2>2. QED
      BY <1>3, <2>1 DEF Posts, Own
  <1>5. ASSUME NEW u \in TabIds
        PROVE  /\ TabShape(tab[u]) /\ Posts(tab[u], helloPort'[u])
               /\ Live(tab[u], helloPort'[u]) /\ ~tab[u].lost /\ NewlyLeased(u) =>
                    tab[u].gen = 0 /\ Orders(tab[u].down) = {}
    <2>1. CASE u = t
      BY <1>2, <1>3, <1>4, <2>1
    <2>2. CASE u # t
      <3>1. ASSUME NewlyLeased(u)
            PROVE  lease = NoLease \/ lease.tab # u
        <4>1. UnregisterTab(t)
          BY <1>1, <3>1 DEF vars, NewlyLeased, OwnerInv, IInv, TypeOK
        <4>2. QED
          BY <2>2, <3>1, <4>1, UnregistrationIsNew DEF OwnerInv, IInv
      <3>2. QED
        BY <1>2, <1>3, <2>2, <3>1, FreeTabIsUntold
    <2>3. QED
      BY <2>1, <2>2
  <1>6. ASSUME lease' # NoLease, ~NewlyLeased(lease'.tab),
               Live(tab[lease'.tab], helloPort'[lease'.tab]), ~tab[lease'.tab].lost
        PROVE  Fed(tab[lease'.tab], lease'.generation, peers', replaying', boot', content', Left, log')
    <2>1. lease' = lease
      <3>1. CASE UnregisterTab(t)
        BY <1>6, <3>1, UnregistrationLeases DEF OwnerInv, IInv
      <3>2. CASE UNCHANGED vars
        BY <3>2 DEF vars
      <3>3. QED
        BY <1>1, <3>1, <3>2
    <2>2. lease.tab \in TabIds /\ lease.tab # t
      BY <1>2, <1>4, <1>6, <2>1 DEF OwnerInv, IInv, TypeOK, Leases
    <2>3. QED
      BY <1>1, <1>2, <1>6, <2>1, <2>2 DEF LogInv
  <1>7. QED
    BY <1>1, <1>3, <1>5, <1>6, OwnerStepKeepsLog

(* A message that the worker takes without the coordinator. *)
LEMMA ReceiptKeepsLog ==
  ASSUME OwnerInv, WorkerInv, LogInv, NEW t \in TabIds, tab[t].up # <<>>, Message(t).type # "hello",
         tab' = Rest(t), UNCHANGED <<vars, helloPort, log, content>>, replaying \subseteq replaying',
         boot' = "running" => boot = "running",
         \A p \in peers \ peers' : Accepts(t, Message(t).gen) /\ Message(t).type = "peer-detached" /\ p \in Message(t).peers,
         Accepts(t, Message(t).gen) /\ Message(t).type = "peer-attached" =>
           \A p \in Message(t).peers : p \in replaying' \/ (p \in peers' /\ boot' # "running")
  PROVE  LogInv'
  <1> DEFINE ts == Rest(t)
             h == helloPort[t]
  <1>1. UNCHANGED <<lease, Left, helloPort, log, content>>
    BY DEF vars, queues, Left
  <1>2. /\ DOMAIN ts = TabIds
        /\ \A u \in TabIds : u # t => ts[u] = tab[u] /\ Posts(tab[u], helloPort[u])
        /\ LET a == tab[t]
               b == ts[t]
           IN /\ Posts(b, h)
              /\ b.gen = a.gen /\ b.down = a.down /\ b.channel = a.channel /\ b.sent = a.sent
              /\ b.life = a.life /\ b.port = a.port /\ b.lost = a.lost
              /\ \A g, p : Heard(a, g, p) =>
                   \/ Heard(b, g, p)
                   \/ Message(t).type = "peer-attached" /\ Message(t).gen = g /\ p \in Message(t).peers
              /\ Live(a, h) => Mine(a, Message(t))
    BY RestPosts
  <1> HIDE DEF ts
  <1>3. ASSUME lease # NoLease, Live(ts[lease.tab], helloPort[lease.tab]), ~ts[lease.tab].lost
        PROVE  Fed(ts[lease.tab], lease.generation, peers', replaying', boot', content, Left, log)
    <2> DEFINE u == lease.tab
               a == tab[u]
               b == ts[u]
               g == lease.generation
    <2>1. u \in TabIds
      BY <1>3 DEF OwnerInv, IInv, TypeOK, Leases
    <2>2. b.gen = a.gen /\ b.down = a.down /\ b.channel = a.channel /\ b.sent = a.sent
      BY <1>2, <2>1
    <2>3. Live(a, helloPort[u]) /\ ~a.lost
      BY <1>2, <1>3, <2>1 DEF Live
    <2>4. Fed(a, g, peers, replaying, boot, content, Left, log)
      BY <1>3, <2>3 DEF LogInv
    <2>5. ASSUME NEW p \in Keys, a.channel[p] = "open", p \in peers
          PROVE  p \in peers'
      <3> SUFFICES ASSUME p \notin peers'
                   PROVE  FALSE
        OBVIOUS
      <3>1. u = t /\ Message(t).type = "peer-detached" /\ p \in Message(t).peers
        BY <2>5 DEF Accepts, Holds
      <3>2. Mine(a, Message(t))
        BY <1>2, <2>3, <3>1
      <3>3. QED
        BY <2>5, <3>1, <3>2 DEF Mine
    <2>6. ASSUME NEW p \in Keys, Heard(a, g, p)
          PROVE  Heard(b, g, p) \/ p \in replaying' \/ (p \in peers' /\ boot' # "running")
      <3>1. CASE u # t
        BY <1>2, <2>1, <2>6, <3>1
      <3>2. CASE u = t
        BY <1>2, <1>3, <2>6, <3>2 DEF Accepts, Holds
      <3>3. QED
        BY <3>1, <3>2
    <2> HIDE DEF u, a, b, g
    <2>7. \A p \in Keys : a.channel[p] = "open" /\ Owing(a, g, peers, replaying, boot, p) =>
            Owing(b, g, peers', replaying', boot', p)
      BY <2>2, <2>5, <2>6 DEF Owing
    <2>8. Fed(b, g, peers', replaying', boot', content, Left, log)
      BY <2>2, <2>4, <2>7, FedStays
    <2>9. QED
      BY <2>8 DEF b, g, u
  <1>4. \A u \in TabIds : Posts(ts[u], helloPort[u])
    BY <1>2
  <1>5. QED
    BY <1>1, <1>3, <1>4 DEF LogInv, ts

LEMMA ReceiveAttachedKeepsLog ==
  ASSUME OwnerInv, OwnerInv', PacketsInOrder, PacketsInOrder', WorkerInv, WorkerInv', LogInv,
         NEW t \in TabIds, ReceiveAttached(t)
  PROVE  LogInv'
  <1> DEFINE ts == Rest(t)
             h == helloPort[t]
  <1>1. /\ tab[t].up # <<>> /\ Message(t).type = "attached" /\ Deliver(ts)
        /\ UNCHANGED <<helloPort, peers, replaying, boot, content, log>>
    BY DEF ReceiveAttached, Takes, roomVars
  <1>2. /\ generation' = generation
        /\ lease' # NoLease => lease # NoLease
        /\ lease' # NoLease => lease'.tab = lease.tab /\ lease'.generation = lease.generation
    <2>1. CASE OwnerAttached(t, Message(t).gen)
      BY <2>1 DEF OwnerAttached, Accepts, Holds, OwnerInv, IInv, TypeOK, Leases
    <2>2. CASE UNCHANGED vars
      BY <2>2 DEF vars
    <2>3. QED
      BY <2>1, <2>2 DEF ReceiveAttached
  <1>3. \A u : ~NewlyLeased(u)
    BY <1>2 DEF NewlyLeased, OwnerInv, IInv, TypeOK
  <1>4. /\ DOMAIN ts = TabIds
        /\ \A u \in TabIds : u # t => ts[u] = tab[u] /\ TabShape(tab[u]) /\ Posts(tab[u], helloPort[u])
        /\ LET a == tab[t]
               b == ts[t]
           IN /\ TabShape(b) /\ Posts(b, h)
              /\ b.gen = a.gen /\ b.down = a.down /\ b.channel = a.channel /\ b.sent = a.sent
              /\ b.life = a.life /\ b.port = a.port /\ b.lost = a.lost
              /\ \A g, p : Heard(a, g, p) =>
                   \/ Heard(b, g, p)
                   \/ Message(t).type = "peer-attached" /\ Message(t).gen = g /\ p \in Message(t).peers
    BY <1>1, RestPosts
  <1> HIDE DEF ts
  <1>5. ASSUME lease' # NoLease, Live(ts[lease'.tab], helloPort'[lease'.tab]), ~ts[lease'.tab].lost
        PROVE  Fed(ts[lease'.tab], lease'.generation, peers', replaying', boot', content', Left, log')
    <2> DEFINE u == lease.tab
               a == tab[u]
               b == ts[u]
               g == lease.generation
    <2>1. u \in TabIds /\ lease # NoLease /\ lease'.tab = u /\ lease'.generation = g
      BY <1>2, <1>5 DEF OwnerInv, IInv, TypeOK, Leases
    <2>2. /\ b.gen = a.gen /\ b.down = a.down /\ b.channel = a.channel /\ b.sent = a.sent
          /\ \A p : Heard(a, g, p) => Heard(b, g, p)
      <3>1. CASE u = t
        BY <1>1, <1>4, <3>1
      <3>2. CASE u # t
        BY <1>4, <2>1, <3>2
      <3>3. QED
        BY <3>1, <3>2
    <2>3. Live(a, helloPort[u]) /\ ~a.lost
      BY <1>1, <1>4, <1>5, <2>1 DEF Live
    <2>4. Fed(a, g, peers, replaying, boot, content, Left, log)
      BY <2>1, <2>3 DEF LogInv
    <2> HIDE DEF a, b, g
    <2>5. \A p \in Keys : a.channel[p] = "open" /\ Owing(a, g, peers, replaying, boot, p) =>
            Owing(b, g, peers, replaying, boot, p)
      BY <2>2 DEF Owing
    <2>6. Fed(b, g, peers, replaying, boot, content, Left, log)
      BY <2>2, <2>4, <2>5, FedStays
    <2>7. QED
      BY <1>1, <2>1, <2>6 DEF b, g
  <1>6. \A u \in TabIds : TabShape(ts[u]) /\ Posts(ts[u], helloPort'[u])
    BY <1>1, <1>4
  <1>7. QED
    BY <1>1, <1>3, <1>4, <1>5, <1>6, OwnerStepKeepsLog

LEMMA OpeningKeepsLog ==
  ASSUME OwnerInv, OwnerInv', PacketsInOrder, PacketsInOrder', WorkerInv, WorkerInv', LineInv, LogInv,
         NEW state, WorkspaceOpens(state)
  PROVE  LogInv'
  <1>1. lease = NoLease /\ Deliver(tab) /\ UNCHANGED <<helloPort, peers, replaying, content, log>>
    BY DEF WorkspaceOpens, WorkerInv, OwnerInv, IInv, LeaseIsLegitimate
  <1>2. DOMAIN tab = TabIds /\ \A u \in TabIds : TabShape(tab[u]) /\ Posts(tab[u], helloPort[u])
    BY DEF WorkerInv, TabOK, PortsOK, LogInv
  <1>3. \A u \in TabIds : Live(tab[u], helloPort[u]) /\ ~tab[u].lost =>
                            tab[u].gen = 0 /\ Orders(tab[u].down) = {}
    BY <1>1, FreeTabIsUntold
  <1>4. lease' # NoLease => NewlyLeased(lease'.tab)
    <2>1. CASE SetWorkspaceOpenState(state)
      BY <1>1, <2>1, OpeningLeases DEF OwnerInv, IInv
    <2>2. CASE UNCHANGED vars
      BY <1>1, <2>2 DEF vars
    <2>3. QED
      BY <2>1, <2>2 DEF WorkspaceOpens
  <1>5. QED
    BY <1>1, <1>2, <1>3, <1>4, OwnerStepKeepsLog

(* A packet is added to what the room sends, and numbered.                  *)
LEMMA ContentGrows ==
  ASSUME OwnerInv, PacketsInOrder, LineInv, NEW batches \in SUBSET Nat, NEW to \in SUBSET Keys,
         content' = Append(content, [batches |-> batches, to |-> to])
  PROVE  /\ Len(content) \in Nat /\ Len(content') = Len(content) + 1 /\ Len(content') > Left
         /\ content'[Len(content')].batches = batches /\ content'[Len(content')].to = to
         /\ \A n \in 1..Len(content) : content'[n] = content[n]
  <1> DEFINE new == [batches |-> batches, to |-> to]
  <1>1. new \in Packets /\ new.batches = batches /\ new.to = to
    BY DEF Packets
  <1>2. content' = Append(content, new) /\ content \in Seq(Packets) /\ Len(content) = issued["crdt"]
    BY DEF LineInv
  <1> HIDE DEF new
  <1>3. /\ Len(content) \in Nat /\ Len(content') = Len(content) + 1
        /\ content'[Len(content) + 1] = new /\ \A n \in 1..Len(content) : content'[n] = content[n]
    BY <1>1, <1>2, AppendProperties, LenProperties
  <1>4. Left \in Nat /\ Left <= Len(content)
    BY <1>2, CarriedNumbers DEF OwnerInv, IInv
  <1>5. QED
    BY <1>1, <1>3, <1>4

LEMMA SendKeepsLog ==
  ASSUME OwnerInv, OwnerInv', PacketsInOrder, PacketsInOrder', WorkerInv, WorkerInv', LogInv,
         NEW batches, NEW to, SendBatches(batches, to),
         lease # NoLease /\ Live(tab[lease.tab], helloPort[lease.tab]) /\ ~tab[lease.tab].lost =>
           Fed(tab[lease.tab], lease.generation, peers, replaying', boot, content', Left, log')
  PROVE  LogInv'
  <1>1. Deliver(tab) /\ UNCHANGED <<helloPort, peers, boot, lease, generation>>
    BY DEF SendBatches, SendPacket
  <1>2. DOMAIN tab = TabIds /\ \A u \in TabIds : TabShape(tab[u]) /\ Posts(tab[u], helloPort[u])
    BY DEF WorkerInv, TabOK, PortsOK, LogInv
  <1>3. \A u : ~NewlyLeased(u)
    BY <1>1 DEF NewlyLeased, OwnerInv, IInv, TypeOK
  <1>4. QED
    BY <1>1, <1>2, <1>3, OwnerStepKeepsLog

LEMMA CommitKeepsLog ==
  ASSUME OwnerInv, OwnerInv', PacketsInOrder, PacketsInOrder', WorkerInv, WorkerInv', LineInv, LogInv,
         Commit
  PROVE  LogInv'
  <1>1. /\ log' = log + 1 /\ SendBatches({log + 1}, Keys) /\ UNCHANGED <<replaying, boot, peers>> /\ log \in Nat
        /\ content' = Append(content, [batches |-> {log + 1}, to |-> Keys])
    BY DEF Commit, SendBatches, LineInv
  <1>2. /\ Len(content) \in Nat /\ Len(content') = Len(content) + 1 /\ Len(content') > Left
        /\ content'[Len(content')].batches = {log + 1} /\ content'[Len(content')].to = Keys
        /\ \A n \in 1..Len(content) : content'[n] = content[n]
    <2>1. {log + 1} \in SUBSET Nat /\ Keys \in SUBSET Keys
      BY <1>1
    <2>2. QED
      BY <1>1, <2>1, ContentGrows
  <1>3. ASSUME NEW a, NEW g, NEW p \in Keys, Served(a, g, content, Left, p, log)
        PROVE  Served(a, g, content', Left, p, log')
    <2> SUFFICES ASSUME NEW x \in 1..log'
                 PROVE  \E n \in 1..Len(content') :
                          x \in content'[n].batches /\ p \in content'[n].to /\ OnTheWay(a, g, Left, p, n)
      BY DEF Served
    <2>1. CASE x = log + 1
      <3>1. Len(content') \in 1..Len(content')
        BY <1>2
      <3>2. QED
        BY <1>2, <2>1, <3>1 DEF OnTheWay
    <2>2. CASE x # log + 1
      <3>1. x \in 1..log
        BY <1>1, <2>2
      <3>2. PICK n \in 1..Len(content) :
              x \in content[n].batches /\ p \in content[n].to /\ OnTheWay(a, g, Left, p, n)
        BY <1>3, <3>1 DEF Served
      <3>3. n \in 1..Len(content')
        BY <1>2
      <3>4. QED
        BY <1>2, <3>2, <3>3
    <2>3. QED
      BY <2>1, <2>2
  <1>4. ASSUME NEW a, NEW g, Fed(a, g, peers, replaying, boot, content, Left, log)
        PROVE  Fed(a, g, peers, replaying', boot, content', Left, log')
    BY <1>1, <1>3, <1>4 DEF Fed
  <1>5. QED
    BY <1>1, <1>4, SendKeepsLog DEF LogInv

LEMMA ReplayKeepsLog ==
  ASSUME OwnerInv, OwnerInv', PacketsInOrder, PacketsInOrder', WorkerInv, WorkerInv', LineInv, LogInv,
         NEW q \in Keys, Replay(q)
  PROVE  LogInv'
  <1>1. replaying' = replaying \ {q} /\ log' = log /\ log \in Nat
    BY DEF Replay, LineInv
  <1>2. CASE log = 0
    <2>1. UNCHANGED <<vars, tab, helloPort, boot, content, peers>>
      BY <1>2 DEF Replay
    <2>2. UNCHANGED <<lease, Left>>
      BY <2>1 DEF vars, queues, Left
    <2>3. \A a, g, ps, rs, s, c, k : Fed(a, g, ps, rs, s, c, k, log)
      BY <1>2 DEF Fed, Served
    <2>4. QED
      BY <1>1, <2>1, <2>2, <2>3 DEF LogInv
  <1>3. CASE log # 0
    <2>1. /\ SendBatches(1..log, {q}) /\ UNCHANGED <<boot, peers>>
          /\ content' = Append(content, [batches |-> 1..log, to |-> {q}])
      BY <1>3 DEF Replay, SendBatches
    <2>2. /\ Len(content) \in Nat /\ Len(content') = Len(content) + 1 /\ Len(content') > Left
          /\ content'[Len(content')].batches = 1..log /\ content'[Len(content')].to = {q}
          /\ \A n \in 1..Len(content) : content'[n] = content[n]
      <3>1. 1..log \in SUBSET Nat /\ {q} \in SUBSET Keys
        BY <1>1
      <3>2. QED
        BY <2>1, <3>1, ContentGrows
    <2>3. ASSUME NEW a, NEW g
          PROVE  Served(a, g, content', Left, q, log)
      <3>1. Len(content') \in 1..Len(content')
        BY <2>2
      <3>2. QED
        BY <2>2, <3>1 DEF Served, OnTheWay
    <2>4. ASSUME NEW a, NEW g, NEW p \in Keys, Served(a, g, content, Left, p, log)
          PROVE  Served(a, g, content', Left, p, log)
      <3>1. \A n \in 1..Len(content) : n \in 1..Len(content') /\ content'[n] = content[n]
        BY <2>2
      <3>2. QED
        BY <2>4, <3>1 DEF Served
    <2>5. ASSUME NEW a, NEW g, Fed(a, g, peers, replaying, boot, content, Left, log)
          PROVE  Fed(a, g, peers, replaying', boot, content', Left, log')
      <3> SUFFICES ASSUME NEW p \in Keys, a.channel[p] = "open", p # q
                   PROVE  Owing(a, g, peers, replaying', boot, p) \/ Served(a, g, content', Left, p, log)
        BY <1>1, <2>3 DEF Fed
      <3>1. CASE Owing(a, g, peers, replaying, boot, p)
        BY <1>1, <3>1 DEF Owing
      <3>2. CASE Served(a, g, content, Left, p, log)
        BY <2>4, <3>2
      <3>3. QED
        BY <2>5, <3>1, <3>2 DEF Fed
    <2>6. QED
      BY <2>1, <2>5, SendKeepsLog DEF LogInv
  <1>4. QED
    BY <1>2, <1>3

LEMMA ReceiveKeepsLog ==
  ASSUME OwnerInv, OwnerInv', PacketsInOrder, PacketsInOrder', WorkerInv, WorkerInv', LineInv, LogInv,
         NEW t \in TabIds, Receive(t)
  PROVE  LogInv'
  <1>1. CASE ReceiveHello(t)
    BY <1>1, ReceiveHelloKeepsLog
  <1>2. CASE ReceiveAttached(t)
    BY <1>2, ReceiveAttachedKeepsLog
  <1>3. CASE ReceiveBootstrap(t) \/ ReceiveClose(t)
    <2>1. /\ tab[t].up # <<>> /\ Message(t).type \in {"bootstrap", "close"} /\ tab' = Rest(t)
          /\ UNCHANGED <<vars, helloPort, log, content, peers, replaying>>
          /\ boot' = "running" => boot = "running"
      BY <1>3 DEF ReceiveBootstrap, ReceiveClose, Takes, roomVars
    <2>2. QED
      BY <2>1, ReceiptKeepsLog
  <1>4. CASE ReceivePeerAttached(t)
    <2>1. /\ tab[t].up # <<>> /\ Message(t).type = "peer-attached" /\ tab' = Rest(t)
          /\ UNCHANGED <<vars, helloPort, log, content, boot>>
      BY <1>4 DEF ReceivePeerAttached, Takes
    <2>2. /\ replaying \subseteq replaying' /\ peers \subseteq peers'
          /\ Accepts(t, Message(t).gen) =>
               \A p \in Message(t).peers : p \in replaying' \/ (p \in peers' /\ boot' # "running")
      BY <1>4, <2>1 DEF ReceivePeerAttached, ReplayTo
    <2>3. \A p \in peers \ peers' :
            Accepts(t, Message(t).gen) /\ Message(t).type = "peer-detached" /\ p \in Message(t).peers
      BY <2>2
    <2>4. QED
      BY <2>1, <2>2, <2>3, ReceiptKeepsLog
  <1>5. CASE ReceivePeerDetached(t)
    <2>1. /\ tab[t].up # <<>> /\ Message(t).type = "peer-detached" /\ tab' = Rest(t)
          /\ UNCHANGED <<vars, helloPort, log, content, boot, replaying>>
      BY <1>5 DEF ReceivePeerDetached, Takes
    <2>2. \A p \in peers \ peers' :
            Accepts(t, Message(t).gen) /\ Message(t).type = "peer-detached" /\ p \in Message(t).peers
      BY <1>5, <2>1 DEF ReceivePeerDetached
    <2>3. QED
      BY <2>1, <2>2, ReceiptKeepsLog
  <1>6. QED
    BY <1>1, <1>2, <1>3, <1>4, <1>5 DEF Receive

LEMMA LogInvStep ==
  ASSUME OwnerInv, WorkerInv, WorkerInv', PacketsInOrder, PacketsInOrder', LineInv, LogInv,
         [WorkerNext]_workerVars
  PROVE  LogInv'
  <1>1. OwnerInv'
    BY WorkerStepIsOwnerStep, OwnerInvStep
  <1>2. CASE \E t \in TabIds : Receive(t)
    BY <1>1, <1>2, ReceiveKeepsLog
  <1>3. CASE \E t \in TabIds, i \in Ports : PortCloses(t, i) \/ PortCollected(t, i)
    BY <1>1, <1>3, DisconnectKeepsLog DEF PortCloses, PortCollected
  <1>4. CASE \E state \in Outcomes : WorkspaceOpens(state)
    BY <1>1, <1>4, OpeningKeepsLog
  <1>5. CASE Commit
    BY <1>1, <1>5, CommitKeepsLog
  <1>6. CASE \E p \in Keys : Replay(p)
    BY <1>1, <1>6, ReplayKeepsLog
  <1>7. CASE \/ RuntimeStarts \/ UNCHANGED workerVars \/ \E p \in Pages : LeaderChanges(p)
             \/ \E p \in Keys : RetryReplay(p)
    <2>1. /\ UNCHANGED <<vars, tab, helloPort, log, content>> /\ replaying \subseteq replaying'
          /\ boot # "running" => peers \subseteq replaying' \/ (boot' # "running" /\ peers \subseteq peers')
      BY <1>7 DEF RuntimeStarts, workerVars, roomVars, LeaderChanges, RetryReplay, ReplayTo
    <2>2. QED
      BY <2>1, RoomWorkKeepsLog
  <1>8. CASE \E t \in TabIds :
               \/ Activate(t) \/ SessionLost(t) \/ Read(t) \/ PageGone(t) \/ CloseSession(t)
               \/ \E p \in Keys : ChannelOpens(t, p) \/ ChannelBreaks(t, p)
    BY <1>8, PageStepsKeepLog
  <1>9. QED
    BY <1>2, <1>3, <1>4, <1>5, <1>6, <1>7, <1>8 DEF WorkerNext

LEMMA LogInvInit == WorkerInit => LogInv
  <1> SUFFICES ASSUME WorkerInit PROVE LogInv
    OBVIOUS
  <1>1. lease = NoLease /\ \A t \in TabIds : tab[t] = NewTab /\ helloPort[t] = 0
    BY DEF WorkerInit, Init
  <1>2. NewTab.port = 0 /\ NewTab.up = <<>> /\ NewTab.announced = {} /\ DOMAIN <<>> = {}
    BY DEF NewTab
  <1>3. Posts(NewTab, 0)
    BY <1>2 DEF Posts, Own, Announced, Live
  <1>4. QED
    BY <1>1, <1>3 DEF LogInv

(* LogReachesPeers: whatever roles, ports and channels the leased tab has had,  *)
(* and whenever the batches were committed, every open channel is owed the    *)
(* reading of the log or has every batch gone over it, on its way or waiting   *)
(* in the coordinator; once nothing is under way they have all gone over it.   *)
THEOREM LogIsSent == WorkerSpec => []LogReachesPeers
  <1>1. ASSUME IInv, WorkerInv, KeepInv, PacketsInOrder, LineInv, LogInv
        PROVE  LogReachesPeers
    <2> SUFFICES ASSUME Settled, boot = "running", lease # NoLease, InTouch(lease.tab),
                        NEW p \in Keys, tab[lease.tab].channel[p] = "open", NEW x \in 1..log
                 PROVE  x \in SentOver(lease.tab, p)
      BY DEF LogReachesPeers
    <2> DEFINE u == lease.tab
               a == tab[u]
               g == lease.generation
    <2>1. u \in TabIds /\ told[u] = g
      BY <1>1 DEF IInv, TypeOK, Leases, SingleOwner
    <2>2. Live(a, helloPort[u]) /\ ~a.lost
      BY DEF InTouch, Live
    <2>3. a.up = <<>> /\ a.down = <<>> /\ replaying = {} /\ DOMAIN <<>> = {}
      BY <2>1, EmptySeq DEF Settled
    <2>4. a.gen = g
      BY <1>1, <2>1, <2>2, <2>3 DEF WorkerInv, TabOK, Holding, Orders
    <2>5. lease.attached
      BY <1>1, <2>2, <2>3 DEF KeepInv, Asks, Owed
    <2>6. Left \in Nat /\ Len(content) = Left
      <3>1. "crdt" \in Kinds /\ pending["crdt"] = <<>>
        BY <1>1, <2>5, WorkerAssumption DEF PacketsInOrder
      <3>2. carried["crdt"] \in Seq(Nat) /\ issued["crdt"] \in Nat
        BY <1>1, <3>1 DEF IInv, TypeOK
      <3>3. carried["crdt"] \o <<>> = [i \in 1..issued["crdt"] |-> i]
        BY <1>1, <3>1 DEF PacketsInOrder
      <3>4. Len(carried["crdt"] \o <<>>) = Len(carried["crdt"]) + 0 /\ Len(carried["crdt"]) \in Nat
        BY <3>2, ConcatProperties, EmptySeq, LenProperties
      <3>5. Len([i \in 1..issued["crdt"] |-> i]) = issued["crdt"]
        BY <3>2
      <3>6. QED
        BY <1>1, <3>3, <3>4, <3>5 DEF LineInv, Left
    <2>7. ~Owing(a, g, peers, replaying, boot, p)
      BY <2>3, <2>4 DEF Owing, Heard
    <2>8. Served(a, g, content, Left, p, log)
      BY <1>1, <2>2, <2>7 DEF LogInv, Fed
    <2>9. PICK n \in 1..Len(content) : x \in content[n].batches /\ OnTheWay(a, g, Left, p, n)
      BY <2>8 DEF Served
    <2>10. Passed(a, p, n)
      BY <2>3, <2>6, <2>9 DEF OnTheWay
    <2>11. n \in ToSet(tab[u].sent[p])
      BY <2>10 DEF ToSet, Passed
    <2>12. QED
      BY <2>9, <2>11 DEF SentOver
  <1>2. OwnerInv /\ WorkerInv /\ KeepInv /\ PacketsInOrder /\ LineInv /\ LogInv => LogReachesPeers
    BY <1>1 DEF OwnerInv
  <1>3. OwnerInv /\ WorkerInv /\ WorkerInv' /\ KeepInv /\ [WorkerNext]_workerVars => KeepInv'
    BY KeepInvStep
  <1>4. OwnerInv /\ WorkerInv /\ PacketsInOrder /\ PacketsInOrder' /\ LineInv /\ [WorkerNext]_workerVars
          => LineInv'
    BY LineInvStep
  <1>5. OwnerInv /\ WorkerInv /\ WorkerInv' /\ PacketsInOrder /\ PacketsInOrder' /\ LineInv /\ LogInv
          /\ [WorkerNext]_workerVars => LogInv'
    BY LogInvStep
  <1>6. QED
    BY <1>2, <1>3, <1>4, <1>5, KeepInvInit, LineInvInit, LogInvInit, WorkerKeepsOwnerInvariant,
       WorkerInvariant, PacketOrderAmongPorts, PTL DEF WorkerSpec
=============================================================================
