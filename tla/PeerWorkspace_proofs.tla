------------------------- MODULE PeerWorkspace_proofs -------------------------
(***************************************************************************)
(* What holds of the database, the CRDT channel and the relay for any       *)
(* rooms, batches, packets and replicas, and any number of restarts.        *)
(* Each of the three has an invariant of its own, since they share nothing. *)
(***************************************************************************)
EXTENDS PeerWorkspace, FiniteSetTheorems, SequenceTheorems, TLAPS

-----------------------------------------------------------------------------
(* The stored workspaces: what a worker may assume of the store it has open, *)
(* and of the identity it works under.                                      *)
Phases == {"stopped", "reading", "writing", "opening", "adopting", "open", "failed"}
Ids == Nat \cup {Nobody}
AllBatches == UNION {Batches[r] : r \in Rooms}
Manifests == Found \cup Rooms \cup {"adopted"}

WorkspaceTyped ==
  /\ identity \in Ids /\ minted \in Nat /\ raced \in BOOLEAN
  /\ worker \in [Rooms -> [phase: Phases, me: Ids, staged: BOOLEAN]]
  /\ store \in [Rooms -> [manifest: Manifests, log: SUBSET AllBatches, authors: SUBSET (Ids \X Rooms)]]

(* A worker whose store is open has staged the manifest or found one that    *)
(* admits its room.                                                         *)
StoreOK(s, w, r) ==
  /\ s.log # {} => s.manifest \in {r, "adopted"}
  /\ w.phase = "open" => w.staged \/ s.manifest \in {r, "adopted"}

(* Unless the identity was written over another, whoever is past reading it  *)
(* has the stored one, and so has whoever has written before.                *)
AuthorOK(s, w, r, id) ==
  /\ s.authors \subseteq {<<id, r>>}
  /\ w.phase \in {"opening", "adopting", "open"} => w.me = id
  /\ id = Nobody => s.authors = {} /\ w.phase \notin {"opening", "adopting", "open"}

WorkspaceInv ==
  /\ WorkspaceTyped
  /\ \A r \in Rooms : /\ worker[r].phase = "writing" => worker[r].me \in Nat
                      /\ StoreOK(store[r], worker[r], r)
                      /\ raced \/ AuthorOK(store[r], worker[r], r, identity)

LEMMA WorkspaceInvInit == WorkspaceInit => WorkspaceInv
  <1> SUFFICES ASSUME WorkspaceInit PROVE WorkspaceInv
    OBVIOUS
  <1>1. identity \in Ids /\ minted \in Nat /\ raced \in BOOLEAN
    BY DEF WorkspaceInit, Ids
  <1>2. worker = [r \in Rooms |-> Stopped]
        /\ Stopped \in [phase: Phases, me: Ids, staged: BOOLEAN] /\ Stopped.phase = "stopped"
    BY DEF WorkspaceInit, Stopped, Phases, Ids
  <1>3. PICK manifest \in [Rooms -> Found] :
          store = [r \in Rooms |-> [manifest |-> manifest[r], log |-> {}, authors |-> {}]]
    BY DEF WorkspaceInit
  <1>4. store \in [Rooms -> [manifest: Manifests, log: SUBSET AllBatches, authors: SUBSET (Ids \X Rooms)]]
    BY <1>3 DEF Manifests
  <1>5. \A r \in Rooms : store[r].log = {} /\ store[r].authors = {}
    BY <1>3
  <1>6. QED
    BY <1>1, <1>2, <1>4, <1>5 DEF WorkspaceInv, WorkspaceTyped, StoreOK, AuthorOK

(* Only the worker of room r changes, to w. *)
LEMMA WorkerMoves ==
  ASSUME WorkspaceInv, NEW r \in Rooms, NEW w \in [phase: Phases, me: Ids, staged: BOOLEAN],
         worker' = [worker EXCEPT ![r] = w], UNCHANGED <<identity, raced, store>>, minted' \in Nat,
         w.phase = "writing" => w.me \in Nat,
         w.phase = "open" => w.staged \/ store[r].manifest \in {r, "adopted"},
         raced \/ (w.phase \in {"opening", "adopting", "open"} => w.me = identity /\ identity # Nobody)
  PROVE  WorkspaceInv'
  <1>1. /\ worker' \in [Rooms -> [phase: Phases, me: Ids, staged: BOOLEAN]]
        /\ worker'[r] = w /\ \A q \in Rooms : q # r => worker'[q] = worker[q]
    BY DEF WorkspaceInv, WorkspaceTyped
  <1>2. WorkspaceTyped'
    BY <1>1 DEF WorkspaceInv, WorkspaceTyped
  <1>3. ASSUME NEW q \in Rooms
        PROVE  /\ worker'[q].phase = "writing" => worker'[q].me \in Nat
               /\ StoreOK(store[q], worker'[q], q)
               /\ raced \/ AuthorOK(store[q], worker'[q], q, identity)
    <2>1. CASE q = r
      BY <1>1, <2>1 DEF WorkspaceInv, StoreOK, AuthorOK
    <2>2. CASE q # r
      BY <1>1, <2>2 DEF WorkspaceInv
    <2>3. QED
      BY <2>1, <2>2
  <1>4. QED
    BY <1>2, <1>3 DEF WorkspaceInv

LEMMA RoomStepKeepsInv ==
  ASSUME WorkspaceInv, NEW r \in Rooms, RoomStep(r)
  PROVE  WorkspaceInv'
  <1> DEFINE W == [phase: Phases, me: Ids, staged: BOOLEAN]
             w == worker[r]
  <1>1. /\ w \in W /\ minted \in Nat /\ identity \in Ids
        /\ w.phase = "writing" => w.me \in Nat
        /\ StoreOK(store[r], w, r)
        /\ raced \/ AuthorOK(store[r], w, r, identity)
    BY DEF WorkspaceInv, WorkspaceTyped
  <1>2. ASSUME NEW phase \in Phases, Moves(r, phase)
        PROVE  /\ [w EXCEPT !.phase = phase] \in W
               /\ worker' = [worker EXCEPT ![r] = [w EXCEPT !.phase = phase]]
               /\ [w EXCEPT !.phase = phase].phase = phase
               /\ [w EXCEPT !.phase = phase].me = w.me
               /\ [w EXCEPT !.phase = phase].staged = w.staged
    BY <1>1, <1>2 DEF Moves
  <1>3. ASSUME NEW phase \in {"reading", "failed"}, Moves(r, phase),
               UNCHANGED <<identity, minted, raced, store>>
        PROVE  WorkspaceInv'
    <2>1. phase \in Phases
      BY DEF Phases
    <2> DEFINE n == [w EXCEPT !.phase = phase]
    <2>2. n \in W /\ worker' = [worker EXCEPT ![r] = n] /\ n.phase \in {"reading", "failed"}
      BY <1>2, <1>3, <2>1
    <2> HIDE DEF n
    <2>3. QED
      BY <1>1, <1>3, <2>2, WorkerMoves
  <1>4. CASE Boot(r) \/ OpenFails(r)
    BY <1>3, <1>4 DEF Boot, OpenFails
  <1>5. CASE ReadIdentity(r)
    <2>1. CASE identity # Nobody /\ UNCHANGED minted
               /\ worker' = [worker EXCEPT ![r] = [w EXCEPT !.phase = "opening", !.me = identity]]
      <3> DEFINE n == [w EXCEPT !.phase = "opening", !.me = identity]
      <3>1. n \in W /\ n.phase = "opening" /\ n.me = identity
        BY <1>1 DEF Phases
      <3> HIDE DEF n
      <3>2. QED
        BY <1>1, <1>5, <2>1, <3>1, WorkerMoves DEF ReadIdentity, n
    <2>2. CASE minted' = minted + 1
               /\ worker' = [worker EXCEPT ![r] = [w EXCEPT !.phase = "writing", !.me = minted']]
      <3> DEFINE n == [w EXCEPT !.phase = "writing", !.me = minted']
      <3>1. minted' \in Nat
        BY <1>1, <2>2
      <3>2. n \in W /\ n.phase = "writing" /\ n.me \in Nat
        BY <1>1, <3>1 DEF Phases, Ids
      <3> HIDE DEF n
      <3>3. QED
        BY <1>5, <2>2, <3>1, <3>2, WorkerMoves DEF ReadIdentity, n
    <2>3. QED
      BY <1>5, <2>1, <2>2 DEF ReadIdentity
  <1>6. CASE WriteIdentity(r)
    <2>1. /\ w.phase = "writing" /\ w.me \in Nat /\ w.me # Nobody /\ w.me \in Ids
          /\ identity' = w.me /\ raced' = (raced \/ identity # Nobody)
          /\ UNCHANGED <<minted, store>> /\ Moves(r, "opening")
      BY <1>1, <1>6, WorkspaceAssumption DEF WriteIdentity, InPhase, Ids
    <2> DEFINE n == [w EXCEPT !.phase = "opening"]
    <2>2. "opening" \in Phases
      BY DEF Phases
    <2>3. n \in W /\ worker' = [worker EXCEPT ![r] = n] /\ n.phase = "opening" /\ n.me = w.me
      BY <1>2, <2>1, <2>2
    <2> HIDE DEF n
    <2>4. worker'[r] = n /\ \A q \in Rooms : q # r => worker'[q] = worker[q]
      BY <2>3 DEF WorkspaceInv, WorkspaceTyped
    <2>5. WorkspaceTyped'
      BY <1>1, <2>1, <2>3 DEF WorkspaceInv, WorkspaceTyped
    <2>6. ASSUME NEW q \in Rooms
          PROVE  /\ worker'[q].phase = "writing" => worker'[q].me \in Nat
                 /\ StoreOK(store'[q], worker'[q], q)
                 /\ raced' \/ AuthorOK(store'[q], worker'[q], q, identity')
      <3>1. CASE q = r
        BY <1>1, <2>1, <2>3, <2>4, <3>1 DEF StoreOK, AuthorOK
      <3>2. CASE q # r
        BY <2>1, <2>4, <3>2 DEF WorkspaceInv, AuthorOK
      <3>3. QED
        BY <3>1, <3>2
    <2>7. QED
      BY <2>5, <2>6 DEF WorkspaceInv
  <1>7. CASE OpenStore(r)
    <2>1. w.phase = "opening" /\ UNCHANGED <<identity, minted, raced, store>>
      BY <1>7 DEF OpenStore, InPhase
    <2>2. CASE worker' = [worker EXCEPT ![r] = [w EXCEPT !.phase = "open", !.staged = TRUE]]
      <3> DEFINE n == [w EXCEPT !.phase = "open", !.staged = TRUE]
      <3>1. n \in W /\ n.phase = "open" /\ n.staged /\ n.me = w.me
        BY <1>1 DEF Phases
      <3> HIDE DEF n
      <3>2. QED
        BY <1>1, <2>1, <2>2, <3>1, WorkerMoves DEF AuthorOK, n
    <2>3. CASE ~IsForeign(store[r], r) /\ Moves(r, "open")
      <3> DEFINE n == [w EXCEPT !.phase = "open"]
      <3>1. "open" \in Phases
        BY DEF Phases
      <3>2. n \in W /\ worker' = [worker EXCEPT ![r] = n] /\ n.phase = "open" /\ n.me = w.me
        BY <1>2, <2>3, <3>1
      <3> HIDE DEF n
      <3>3. store[r].manifest \in {r, "adopted"}
        BY <2>3 DEF IsForeign
      <3>4. QED
        BY <1>1, <2>1, <3>2, <3>3, WorkerMoves DEF AuthorOK
    <2>4. CASE Moves(r, "adopting")
      <3> DEFINE n == [w EXCEPT !.phase = "adopting"]
      <3>1. "adopting" \in Phases
        BY DEF Phases
      <3>2. n \in W /\ worker' = [worker EXCEPT ![r] = n] /\ n.phase = "adopting" /\ n.me = w.me
        BY <1>2, <2>4, <3>1
      <3> HIDE DEF n
      <3>3. QED
        BY <1>1, <2>1, <3>2, WorkerMoves DEF AuthorOK
    <2>5. CASE Moves(r, "failed")
      BY <1>3, <2>1, <2>5
    <2>6. QED
      BY <1>7, <2>2, <2>3, <2>4, <2>5 DEF OpenStore
  <1>8. CASE AdoptStore(r)
    <2>1. /\ w.phase = "adopting" /\ UNCHANGED <<identity, minted, raced>>
          /\ store' = [store EXCEPT ![r] = [store[r] EXCEPT !.manifest = "adopted"]]
          /\ Moves(r, "open")
      BY <1>8 DEF AdoptStore, InPhase
    <2> DEFINE n == [w EXCEPT !.phase = "open"]
               s == [store[r] EXCEPT !.manifest = "adopted"]
               S == [manifest: Manifests, log: SUBSET AllBatches, authors: SUBSET (Ids \X Rooms)]
    <2>2. "open" \in Phases
      BY DEF Phases
    <2>3. n \in W /\ worker' = [worker EXCEPT ![r] = n] /\ n.phase = "open" /\ n.me = w.me
      BY <1>2, <2>1, <2>2
    <2>4. s \in S /\ s.manifest = "adopted" /\ s.authors = store[r].authors
      BY DEF WorkspaceInv, WorkspaceTyped, Manifests
    <2> HIDE DEF n, s
    <2>5. /\ worker'[r] = n /\ \A q \in Rooms : q # r => worker'[q] = worker[q]
          /\ store' \in [Rooms -> S]
          /\ store'[r] = s /\ \A q \in Rooms : q # r => store'[q] = store[q]
      BY <2>1, <2>3, <2>4 DEF WorkspaceInv, WorkspaceTyped, s
    <2>6. WorkspaceTyped'
      BY <2>1, <2>3, <2>5 DEF WorkspaceInv, WorkspaceTyped
    <2>7. ASSUME NEW q \in Rooms
          PROVE  /\ worker'[q].phase = "writing" => worker'[q].me \in Nat
                 /\ StoreOK(store'[q], worker'[q], q)
                 /\ raced' \/ AuthorOK(store'[q], worker'[q], q, identity')
      <3>1. CASE q = r
        BY <1>1, <2>1, <2>3, <2>4, <2>5, <3>1 DEF StoreOK, AuthorOK
      <3>2. CASE q # r
        BY <2>1, <2>5, <3>2 DEF WorkspaceInv
      <3>3. QED
        BY <3>1, <3>2
    <2>8. QED
      BY <2>6, <2>7 DEF WorkspaceInv
  <1>9. CASE Stop(r)
    <2>1. Stopped \in W /\ Stopped.phase = "stopped"
      BY DEF Stopped, Phases, Ids
    <2> DEFINE n == Stopped
    <2>2. n \in W /\ n.phase = "stopped" /\ worker' = [worker EXCEPT ![r] = n]
      BY <1>9, <2>1 DEF Stop
    <2> HIDE DEF n
    <2>3. QED
      BY <1>1, <1>9, <2>2, WorkerMoves DEF Stop
  <1>10. ASSUME NEW b \in Batches[r], CommitBatch(r, b)
         PROVE  WorkspaceInv'
    <2> DEFINE n == [w EXCEPT !.staged = FALSE]
               s == [manifest |-> IF w.staged THEN r ELSE store[r].manifest,
                     log |-> store[r].log \cup {b},
                     authors |-> store[r].authors \cup {PeerId(r)}]
               S == [manifest: Manifests, log: SUBSET AllBatches, authors: SUBSET (Ids \X Rooms)]
    <2>1. /\ w.phase = "open" /\ UNCHANGED <<identity, minted, raced>>
          /\ store' = [store EXCEPT ![r] = s] /\ worker' = [worker EXCEPT ![r] = n]
      BY <1>10 DEF CommitBatch, InPhase
    <2>2. n \in W /\ n.phase = "open" /\ n.me = w.me
      BY <1>1, <2>1
    <2>3. s \in S
      <3>1. b \in AllBatches
        BY DEF AllBatches
      <3>2. PeerId(r) \in Ids \X Rooms
        BY <1>1 DEF PeerId
      <3>3. QED
        BY <3>1, <3>2 DEF WorkspaceInv, WorkspaceTyped, Manifests
    <2>4. s.manifest \in {r, "adopted"}
      BY <1>1, <2>1 DEF StoreOK
    <2>5. s.authors = store[r].authors \cup {<<w.me, r>>}
      BY DEF PeerId
    <2> HIDE DEF n, s
    <2>6. /\ worker'[r] = n /\ \A q \in Rooms : q # r => worker'[q] = worker[q]
          /\ worker' \in [Rooms -> W]
          /\ store' \in [Rooms -> S]
          /\ store'[r] = s /\ \A q \in Rooms : q # r => store'[q] = store[q]
      BY <2>1, <2>2, <2>3 DEF WorkspaceInv, WorkspaceTyped
    <2>7. WorkspaceTyped'
      BY <2>1, <2>6 DEF WorkspaceInv, WorkspaceTyped
    <2>8. ASSUME NEW q \in Rooms
          PROVE  /\ worker'[q].phase = "writing" => worker'[q].me \in Nat
                 /\ StoreOK(store'[q], worker'[q], q)
                 /\ raced' \/ AuthorOK(store'[q], worker'[q], q, identity')
      <3>1. CASE q = r
        BY <1>1, <2>1, <2>2, <2>4, <2>5, <2>6, <3>1 DEF StoreOK, AuthorOK
      <3>2. CASE q # r
        BY <2>1, <2>6, <3>2 DEF WorkspaceInv
      <3>3. QED
        BY <3>1, <3>2
    <2>9. QED
      BY <2>7, <2>8 DEF WorkspaceInv
  <1>11. CASE ReplayLog(r)
    BY <1>11 DEF ReplayLog, WorkspaceInv, WorkspaceTyped
  <1>12. QED
    BY <1>4, <1>5, <1>6, <1>7, <1>8, <1>9, <1>10, <1>11 DEF RoomStep

LEMMA WorkspaceInvStep ==
  ASSUME WorkspaceInv, [PeerWorkspaceNext]_peerWorkspaceVars
  PROVE  WorkspaceInv'
  <1>1. CASE WorkspaceNext
    BY <1>1, RoomStepKeepsInv DEF WorkspaceNext
  <1>2. CASE UNCHANGED workspaceVars
    BY <1>2 DEF workspaceVars, WorkspaceInv, WorkspaceTyped
  <1>3. QED
    BY <1>1, <1>2 DEF PeerWorkspaceNext, peerWorkspaceVars

(* Whatever has been found in a database, and wherever workers stop or fail,  *)
(* the two invariants of the store and of the identity hold.                 *)
THEOREM WorkspaceInvariant == PeerWorkspaceSpec => []WorkspaceInv
  <1>1. PeerWorkspaceInit => WorkspaceInv
    BY WorkspaceInvInit DEF PeerWorkspaceInit
  <1>2. WorkspaceInv /\ [PeerWorkspaceNext]_peerWorkspaceVars => WorkspaceInv'
    BY WorkspaceInvStep
  <1>3. QED
    BY <1>1, <1>2, PTL DEF PeerWorkspaceSpec

(* StoresHoldTheirRoom: no worker writes to a store of another workspace or   *)
(* of a newer version.                                                      *)
THEOREM StoresAreOfTheirRoom == PeerWorkspaceSpec => []StoresHoldTheirRoom
  <1>1. WorkspaceInv => StoresHoldTheirRoom
    BY DEF WorkspaceInv, StoreOK, StoresHoldTheirRoom
  <1>2. QED
    BY <1>1, WorkspaceInvariant, PTL

(* AuthorsKeepTheirName: unless two workers have created the identity at the  *)
(* same time, all that is written in a room has one author.                  *)
THEOREM AuthorsAreOne == PeerWorkspaceSpec => []AuthorsKeepTheirName
  <1>1. ASSUME WorkspaceInv, ~raced, NEW r \in Rooms
        PROVE  Cardinality(store[r].authors) <= 1
    <2>1. store[r].authors \subseteq {<<identity, r>>}
      BY <1>1 DEF WorkspaceInv, AuthorOK
    <2>2. /\ IsFiniteSet({<<identity, r>>}) /\ Cardinality({<<identity, r>>}) = 1
      BY FS_Singleton
    <2>3. QED
      BY <2>1, <2>2, FS_Subset
  <1>2. WorkspaceInv => AuthorsKeepTheirName
    BY <1>1 DEF AuthorsKeepTheirName
  <1>3. QED
    BY <1>2, WorkspaceInvariant, PTL

-----------------------------------------------------------------------------
(* The relay: what a replica has heard, or its transport holds for it, only  *)
(* grows while it listens.                                                  *)
Payloads == SUBSET UNION {ToSet(m.batches) : m \in Messages}
Taps == [listening: BOOLEAN, paused: BOOLEAN, held: Seq(Payloads), heard: Payloads, asked: BOOLEAN]
Entries == [from: Replicas, batches: Payloads]

Has(t) == t.heard \cup UNION ToSet(t.held)

Profiles == {None} \cup {Profile[p] : p \in Replicas}
PacketKeys == {PacketKey(p, m) : p \in Replicas, m \in Messages}
RelayRooms == [profile: Profiles, peers: SUBSET Replicas, log: Seq(Entries), seen: SUBSET PacketKeys]

RelayTyped ==
  /\ relayRoom \in RelayRooms
  /\ tap \in [Replicas -> Taps]

RelayInv ==
  /\ RelayTyped
  /\ \A p \in Replicas : tap[p].asked => tap[p].listening
  /\ NobodyMissesABatch

LEMMA ToSetAppend ==
  ASSUME NEW S, NEW s \in Seq(S), NEW e \in S
  PROVE  Append(s, e) \in Seq(S) /\ ToSet(Append(s, e)) = ToSet(s) \cup {e}
  <1>1. /\ Append(s, e) \in Seq(S) /\ Len(Append(s, e)) = Len(s) + 1 /\ Len(s) \in Nat
        /\ \A i \in 1..Len(s) : Append(s, e)[i] = s[i]
        /\ Append(s, e)[Len(s) + 1] = e
    BY AppendProperties
  <1>2. DOMAIN s = 1..Len(s) /\ DOMAIN Append(s, e) = 1..(Len(s) + 1)
    BY <1>1
  <1>3. 1..(Len(s) + 1) = 1..Len(s) \cup {Len(s) + 1}
    BY <1>1
  <1>4. QED
    BY <1>1, <1>2, <1>3 DEF ToSet

LEMMA ToSetConcat ==
  ASSUME NEW S, NEW s \in Seq(S), NEW t \in Seq(S)
  PROVE  s \o t \in Seq(S) /\ ToSet(s \o t) = ToSet(s) \cup ToSet(t)
  <1> DEFINE c == s \o t
  <1>1. /\ c \in Seq(S) /\ Len(c) = Len(s) + Len(t) /\ Len(s) \in Nat /\ Len(t) \in Nat
        /\ \A i \in 1..Len(s) + Len(t) : c[i] = IF i <= Len(s) THEN s[i] ELSE t[i - Len(s)]
    BY ConcatProperties
  <1> HIDE DEF c
  <1>2. DOMAIN s = 1..Len(s) /\ DOMAIN t = 1..Len(t) /\ DOMAIN c = 1..(Len(s) + Len(t))
    BY <1>1
  <1>3. ASSUME NEW i \in DOMAIN s PROVE i \in DOMAIN c /\ c[i] = s[i]
    BY <1>1, <1>2
  <1>4. ASSUME NEW i \in DOMAIN t PROVE i + Len(s) \in DOMAIN c /\ c[i + Len(s)] = t[i]
    BY <1>1, <1>2
  <1>5. ASSUME NEW i \in DOMAIN c
        PROVE  \/ i \in DOMAIN s /\ c[i] = s[i]
               \/ i - Len(s) \in DOMAIN t /\ c[i] = t[i - Len(s)]
    <2>1. i \in Nat /\ 1 <= i /\ i <= Len(s) + Len(t)
      BY <1>1, <1>2
    <2>2. CASE i <= Len(s)
      BY <1>1, <1>2, <2>1, <2>2
    <2>3. CASE ~(i <= Len(s))
      <3>1. i - Len(s) \in DOMAIN t
        BY <1>1, <1>2, <2>1, <2>3
      <3>2. c[i] = t[i - Len(s)]
        BY <1>1, <2>1, <2>3
      <3>3. QED
        BY <3>1, <3>2
    <2>4. QED
      BY <2>2, <2>3
  <1>6. ToSet(c) = ToSet(s) \cup ToSet(t)
    BY <1>3, <1>4, <1>5 DEF ToSet
  <1>7. QED
    BY <1>1, <1>6 DEF c

(* What is left of a sequence when its beginning is dropped was in it.       *)
LEMMA ToSetSuffix ==
  ASSUME NEW S, NEW s \in Seq(S), NEW k \in 0..Len(s)
  PROVE  LET u == SubSeq(s, 1 + Len(s) - k, Len(s)) IN u \in Seq(S) /\ ToSet(u) \subseteq ToSet(s)
  <1> DEFINE m == 1 + Len(s) - k
             n == Len(s)
             u == SubSeq(s, m, n)
  <1>1. n \in Nat /\ m \in 1..(n + 1) /\ m \in Int /\ n \in Int /\ DOMAIN s = 1..n
    OBVIOUS
  <1>2. \A i \in m..n : i \in DOMAIN s /\ s[i] \in S
    BY <1>1
  <1> HIDE DEF m, n
  <1>3. /\ u \in Seq(S) /\ Len(u) = IF m <= n THEN n - m + 1 ELSE 0
        /\ \A i \in 1..n - m + 1 : u[i] = s[m + i - 1]
    BY <1>1, <1>2, SubSeqProperties
  <1> HIDE DEF u
  <1>4. DOMAIN u = 1..(n - m + 1)
    BY <1>1, <1>3
  <1>5. ASSUME NEW i \in DOMAIN u PROVE u[i] \in ToSet(s)
    <2>1. m + i - 1 \in m..n /\ u[i] = s[m + i - 1]
      BY <1>1, <1>3, <1>4
    <2>2. QED
      BY <1>2, <2>1 DEF ToSet
  <1>6. ToSet(u) \subseteq ToSet(s)
    BY <1>5 DEF ToSet
  <1>7. QED
    BY <1>3, <1>6 DEF u, m, n

LEMMA ToSetEmpty == ToSet(<<>>) = {} /\ \A S : <<>> \in Seq(S)
  BY DEF ToSet

LEMMA DeliverGives ==
  ASSUME NEW t \in Taps, NEW batches \in Payloads
  PROVE  LET d == Deliver(t, batches)
         IN /\ d \in Taps
            /\ d.listening = t.listening /\ d.asked = t.asked
            /\ Has(t) \subseteq Has(d)
            /\ t.listening => batches \subseteq Has(d)
  <1> DEFINE d == Deliver(t, batches)
  <1>0. t.held \in Seq(Payloads) /\ t.heard \in Payloads
    BY DEF Taps
  <1>1. CASE t.paused
    <2>1. Append(t.held, batches) \in Seq(Payloads)
          /\ ToSet(Append(t.held, batches)) = ToSet(t.held) \cup {batches}
      BY <1>0, ToSetAppend
    <2>2. d = [t EXCEPT !.held = Append(t.held, batches)]
      BY <1>1 DEF Deliver
    <2>3. d \in Taps /\ d.listening = t.listening /\ d.asked = t.asked /\ d.heard = t.heard
          /\ d.held = Append(t.held, batches)
      BY <2>1, <2>2 DEF Taps
    <2>4. QED
      BY <2>1, <2>3 DEF Has
  <1>2. CASE ~t.paused /\ t.listening
    <2>1. d = [t EXCEPT !.heard = t.heard \cup batches]
      BY <1>2 DEF Deliver
    <2>2. t.heard \cup batches \in Payloads
      BY <1>0 DEF Payloads
    <2>3. d \in Taps /\ d.listening = t.listening /\ d.asked = t.asked /\ d.held = t.held
          /\ d.heard = t.heard \cup batches
      BY <2>1, <2>2 DEF Taps
    <2>4. QED
      BY <2>3 DEF Has
  <1>3. CASE ~t.paused /\ ~t.listening
    <2>1. d = t
      BY <1>3 DEF Deliver
    <2>2. QED
      BY <1>3, <2>1
  <1>4. QED
    BY <1>1, <1>2, <1>3

LEMMA FlushGives ==
  ASSUME NEW t \in Taps
  PROVE  LET d == DeliverEach([t EXCEPT !.held = <<>>], t.held)
         IN /\ d \in Taps
            /\ d.listening = t.listening /\ d.asked = t.asked
            /\ t.listening => Has(t) \subseteq Has(d)
  <1> DEFINE e == [t EXCEPT !.held = <<>>]
             d == DeliverEach(e, t.held)
  <1>0. t.held \in Seq(Payloads) /\ t.heard \in Payloads /\ <<>> \in Seq(Payloads)
    BY ToSetEmpty DEF Taps
  <1>1. e \in Taps /\ e.listening = t.listening /\ e.asked = t.asked /\ e.paused = t.paused
        /\ e.heard = t.heard /\ e.held = <<>>
    BY <1>0 DEF Taps
  <1> HIDE DEF e
  <1>2. CASE t.paused
    <2>1. e.held \o t.held = t.held
      BY <1>0, <1>1, ConcatEmptySeq
    <2>2. d = [e EXCEPT !.held = t.held]
      BY <1>1, <1>2, <2>1 DEF DeliverEach
    <2>3. d \in Taps /\ d.listening = t.listening /\ d.asked = t.asked /\ d.heard = t.heard
          /\ d.held = t.held
      BY <1>0, <1>1, <2>2 DEF Taps
    <2>4. QED
      BY <2>3 DEF Has, e
  <1>3. CASE ~t.paused /\ t.listening
    <2>1. d = [e EXCEPT !.heard = t.heard \cup UNION ToSet(t.held)]
      BY <1>1, <1>3 DEF DeliverEach
    <2>2. ToSet(t.held) \subseteq Payloads
      BY <1>0 DEF ToSet
    <2>3. t.heard \cup UNION ToSet(t.held) \in Payloads
      BY <1>0, <2>2 DEF Payloads
    <2>4. d \in Taps /\ d.listening = t.listening /\ d.asked = t.asked /\ d.held = <<>>
          /\ d.heard = t.heard \cup UNION ToSet(t.held)
      BY <1>1, <2>1, <2>3 DEF Taps
    <2>5. QED
      BY <2>4, ToSetEmpty DEF Has, e
  <1>4. CASE ~t.paused /\ ~t.listening
    <2>1. d = e
      BY <1>1, <1>4 DEF DeliverEach
    <2>2. QED
      BY <1>1, <1>4, <2>1 DEF e
  <1>5. QED
    BY <1>2, <1>3, <1>4

LEMMA RelayInvInit == RelayInit => RelayInv
  <1> SUFFICES ASSUME RelayInit PROVE RelayInv
    OBVIOUS
  <1>1. NewTap \in Taps /\ ~NewTap.asked
    BY ToSetEmpty DEF NewTap, Taps, Payloads
  <1>2. tap \in [Replicas -> Taps] /\ \A p \in Replicas : ~tap[p].asked
    BY <1>1 DEF RelayInit
  <1>3. <<>> \in Seq(Entries)
    BY ToSetEmpty
  <1>4. RelayTyped
    BY <1>2, <1>3 DEF RelayInit, RelayTyped, RelayRooms, Profiles
  <1>5. relayRoom.peers = {}
    BY DEF RelayInit
  <1>6. QED
    BY <1>2, <1>4, <1>5 DEF RelayInv, NobodyMissesABatch

(* Only the transport of p changes, to n; the log stays.                     *)
LEMMA TapMoves ==
  ASSUME RelayInv, NEW p \in Replicas, NEW n \in Taps,
         tap' = [tap EXCEPT ![p] = n],
         relayRoom' \in RelayRooms,
         relayRoom'.peers \subseteq relayRoom.peers \cup {p}, relayRoom'.log = relayRoom.log,
         n.asked => n.listening,
         n.asked => (tap[p].asked /\ p \in relayRoom.peers /\ Has(tap[p]) \subseteq Has(n)) \/ Logged \subseteq Has(n)
  PROVE  RelayInv'
  <1>1. /\ tap' \in [Replicas -> Taps]
        /\ tap'[p] = n /\ \A q \in Replicas : q # p => tap'[q] = tap[q]
    BY DEF RelayInv, RelayTyped
  <1>2. RelayTyped'
    BY <1>1 DEF RelayTyped
  <1>3. \A q \in Replicas : tap'[q].asked => tap'[q].listening
    BY <1>1 DEF RelayInv
  <1>4. ASSUME NEW q \in relayRoom'.peers, tap'[q].asked,
               NEW packet \in ToSet(relayRoom.log), packet.from # q
        PROVE  packet.batches \subseteq Has(tap'[q])
    <2>1. CASE q = p
      <3>1. packet.batches \subseteq Logged
        BY DEF Logged
      <3>2. CASE Logged \subseteq Has(n)
        BY <1>1, <2>1, <3>1, <3>2
      <3>3. CASE tap[p].asked /\ p \in relayRoom.peers /\ Has(tap[p]) \subseteq Has(n)
        BY <1>1, <1>4, <2>1, <3>3 DEF RelayInv, NobodyMissesABatch, Has
      <3>4. QED
        BY <1>1, <1>4, <2>1, <3>2, <3>3
    <2>2. CASE q # p
      <3>1. q \in relayRoom.peers /\ q \in Replicas /\ tap'[q] = tap[q]
        BY <1>1, <2>2 DEF RelayInv, RelayTyped, RelayRooms
      <3>2. QED
        BY <1>4, <3>1 DEF RelayInv, NobodyMissesABatch, Has
    <2>3. QED
      BY <2>1, <2>2
  <1>5. NobodyMissesABatch'
    BY <1>4 DEF NobodyMissesABatch, Has
  <1>6. QED
    BY <1>2, <1>3, <1>5 DEF RelayInv

LEMMA SendKeepsInv ==
  ASSUME RelayInv, NEW p \in Replicas, NEW m \in Messages, Send(p, m)
  PROVE  RelayInv'
  <1>1. CASE UNCHANGED relayVars
    BY <1>1 DEF relayVars, RelayInv, RelayTyped, NobodyMissesABatch
  <1>2. CASE /\ relayRoom' = Remember(relayRoom, p, m)
             /\ tap' = [q \in Replicas |-> IF q \in relayRoom.peers \ {p}
                                             THEN Deliver(tap[q], ToSet(m.batches)) ELSE tap[q]]
    <2> DEFINE b == ToSet(m.batches)
               e == [from |-> p, batches |-> b]
               log == Append(relayRoom.log, e)
               k == IF Len(log) > MaxLog THEN MaxLog ELSE Len(log)
    <2>1. b \in Payloads /\ e \in Entries /\ e.from = p /\ e.batches = b
      BY DEF Payloads, Entries
    <2>2. relayRoom.log \in Seq(Entries) /\ relayRoom.peers \subseteq Replicas
      BY DEF RelayInv, RelayTyped, RelayRooms
    <2>3. log \in Seq(Entries) /\ ToSet(log) = ToSet(relayRoom.log) \cup {e}
      BY <2>1, <2>2, ToSetAppend
    <2>4. relayRoom' = [relayRoom EXCEPT !.seen = @ \cup {PacketKey(p, m)},
                                         !.log = SubSeq(log, 1 + Len(log) - k, Len(log))]
      BY <1>2 DEF Remember
    <2> HIDE DEF b, e, log
    <2>5. k \in 0..Len(log)
      BY <2>3, RelayAssumption
    <2> HIDE DEF k
    <2> DEFINE u == SubSeq(log, 1 + Len(log) - k, Len(log))
    <2>6. u \in Seq(Entries) /\ ToSet(u) \subseteq ToSet(log)
      BY <2>3, <2>5, ToSetSuffix
    <2> HIDE DEF u
    <2>7. relayRoom'.log = u /\ relayRoom'.peers = relayRoom.peers
          /\ relayRoom' \in RelayRooms
      <3>1. relayRoom' = [relayRoom EXCEPT !.seen = relayRoom.seen \cup {PacketKey(p, m)}, !.log = u]
        BY <2>4 DEF u
      <3>2. relayRoom.seen \cup {PacketKey(p, m)} \in SUBSET PacketKeys
        BY DEF RelayInv, RelayTyped, RelayRooms, PacketKeys
      <3>3. QED
        BY <2>6, <3>1, <3>2 DEF RelayInv, RelayTyped, RelayRooms
    <2>8. ASSUME NEW q \in Replicas
          PROVE  /\ tap'[q] \in Taps
                 /\ tap'[q].listening = tap[q].listening /\ tap'[q].asked = tap[q].asked
                 /\ Has(tap[q]) \subseteq Has(tap'[q])
                 /\ q \in relayRoom.peers /\ q # p /\ tap[q].listening => b \subseteq Has(tap'[q])
      <3>1. tap[q] \in Taps
        BY DEF RelayInv, RelayTyped
      <3>2. CASE q \in relayRoom.peers \ {p}
        <4>1. tap'[q] = Deliver(tap[q], b)
          BY <1>2, <3>2 DEF b
        <4>2. QED
          BY <2>1, <3>1, <4>1, DeliverGives
      <3>3. CASE q \notin relayRoom.peers \ {p}
        <4>1. tap'[q] = tap[q]
          BY <1>2, <3>3
        <4>2. QED
          BY <3>1, <3>3, <4>1
      <3>4. QED
        BY <3>2, <3>3
    <2>9. tap' \in [Replicas -> Taps]
      <3>1. tap' = [q \in Replicas |-> tap'[q]]
        BY <1>2
      <3>2. QED
        BY <2>8, <3>1
    <2>10. RelayTyped'
      BY <2>7, <2>9 DEF RelayTyped
    <2>11. \A q \in Replicas : tap'[q].asked => tap'[q].listening
      BY <2>8 DEF RelayInv
    <2>12. ASSUME NEW q \in relayRoom.peers, tap'[q].asked,
                  NEW packet \in ToSet(u), packet.from # q
           PROVE  packet.batches \subseteq Has(tap'[q])
      <3>1. q \in Replicas /\ tap[q].asked /\ tap[q].listening
        BY <2>2, <2>8, <2>12 DEF RelayInv
      <3>2. CASE packet = e
        BY <2>1, <2>8, <2>12, <3>1, <3>2
      <3>3. CASE packet \in ToSet(relayRoom.log)
        <4>1. packet.batches \subseteq Has(tap[q])
          BY <2>12, <3>1, <3>3 DEF RelayInv, NobodyMissesABatch, Has
        <4>2. QED
          BY <2>8, <3>1, <4>1
      <3>4. QED
        BY <2>3, <2>6, <3>2, <3>3
    <2>13. NobodyMissesABatch'
      BY <2>7, <2>12 DEF NobodyMissesABatch, Has
    <2>14. QED
      BY <2>10, <2>11, <2>13 DEF RelayInv
  <1>3. QED
    BY <1>1, <1>2 DEF Send

LEMMA RelayStepKeepsInv ==
  ASSUME RelayInv, RelayNext
  PROVE  RelayInv'
  <1>1. PICK p \in Replicas :
          \/ Join(p) \/ Close(p) \/ Subscribe(p) \/ Unsubscribe(p)
          \/ \E paused \in BOOLEAN : SetDeliveryPaused(p, paused)
          \/ FlushBufferedMessages(p)
          \/ \E m \in Messages : Send(p, m)
          \/ RequestSync(p)
    BY DEF RelayNext
  <1> DEFINE t == tap[p]
  <1>2. t \in Taps /\ relayRoom \in RelayRooms /\ (t.asked => t.listening)
    BY DEF RelayInv, RelayTyped
  <1>3. CASE Join(p)
    <2> DEFINE n == NewTap
    <2>1. n \in Taps /\ ~n.asked
      BY ToSetEmpty DEF NewTap, Taps, Payloads
    <2>2. relayRoom' \in RelayRooms /\ relayRoom'.peers = relayRoom.peers \cup {p} /\ relayRoom'.log = relayRoom.log
      <3>1. relayRoom' = [relayRoom EXCEPT !.profile = Profile[p], !.peers = relayRoom.peers \cup {p}]
        BY <1>3 DEF Join
      <3>2. Profile[p] \in Profiles
        BY DEF Profiles
      <3>3. QED
        BY <1>2, <3>1, <3>2 DEF RelayRooms
    <2>3. tap' = [tap EXCEPT ![p] = n]
      BY <1>3 DEF Join, RelayRooms
    <2> HIDE DEF n
    <2>4. QED
      BY <2>1, <2>2, <2>3, TapMoves
  <1>4. CASE Close(p)
    <2> DEFINE n == NewTap
    <2>1. n \in Taps /\ ~n.asked
      BY ToSetEmpty DEF NewTap, Taps, Payloads
    <2>2. relayRoom' \in RelayRooms /\ relayRoom'.peers \subseteq relayRoom.peers /\ relayRoom'.log = relayRoom.log
      BY <1>2, <1>4 DEF Close, RelayRooms
    <2>3. tap' = [tap EXCEPT ![p] = n]
      BY <1>4 DEF Close, RelayRooms
    <2> HIDE DEF n
    <2>4. QED
      BY <2>1, <2>2, <2>3, TapMoves
  <1>5. ASSUME NEW n \in Taps, tap' = [tap EXCEPT ![p] = n], UNCHANGED relayRoom,
               n.asked => n.listening,
               n.asked => t.asked /\ Has(t) \subseteq Has(n)
        PROVE  RelayInv'
    <2>1. CASE p \in relayRoom.peers
      BY <1>2, <1>5, <2>1, TapMoves
    <2>2. CASE p \notin relayRoom.peers
      <3>1. /\ tap' \in [Replicas -> Taps]
            /\ tap'[p] = n /\ \A q \in Replicas : q # p => tap'[q] = tap[q]
        BY <1>5 DEF RelayInv, RelayTyped
      <3>2. RelayTyped' /\ \A q \in Replicas : tap'[q].asked => tap'[q].listening
        BY <1>5, <3>1 DEF RelayInv, RelayTyped
      <3>3. \A q \in relayRoom.peers : tap'[q] = tap[q]
        BY <2>2, <3>1 DEF RelayInv, RelayTyped, RelayRooms
      <3>4. NobodyMissesABatch'
        BY <1>5, <3>3 DEF RelayInv, NobodyMissesABatch
      <3>5. QED
        BY <3>2, <3>4 DEF RelayInv
    <2>3. QED
      BY <2>1, <2>2
  <1>6. CASE Subscribe(p)
    <2> DEFINE n == [t EXCEPT !.listening = TRUE]
    <2>1. n \in Taps /\ n.listening /\ n.asked = t.asked /\ n.heard = t.heard /\ n.held = t.held
      BY <1>2 DEF Taps
    <2>2. tap' = [tap EXCEPT ![p] = n] /\ UNCHANGED relayRoom
      BY <1>6 DEF Subscribe
    <2> HIDE DEF n
    <2>3. QED
      BY <1>5, <2>1, <2>2 DEF Has
  <1>7. CASE Unsubscribe(p)
    <2> DEFINE n == [t EXCEPT !.listening = FALSE, !.asked = FALSE]
    <2>1. n \in Taps /\ ~n.asked
      BY <1>2 DEF Taps
    <2>2. tap' = [tap EXCEPT ![p] = n] /\ UNCHANGED relayRoom
      BY <1>7 DEF Unsubscribe, RelayInv, RelayTyped
    <2> HIDE DEF n
    <2>3. QED
      BY <1>5, <2>1, <2>2
  <1>8. ASSUME NEW paused \in BOOLEAN, SetDeliveryPaused(p, paused)
        PROVE  RelayInv'
    <2> DEFINE n == [t EXCEPT !.paused = paused]
    <2>1. n \in Taps /\ n.listening = t.listening /\ n.asked = t.asked /\ n.heard = t.heard /\ n.held = t.held
      BY <1>2 DEF Taps
    <2>2. tap' = [tap EXCEPT ![p] = n] /\ UNCHANGED relayRoom
      BY <1>8 DEF SetDeliveryPaused
    <2> HIDE DEF n
    <2>3. QED
      BY <1>2, <1>5, <2>1, <2>2 DEF Has
  <1>9. CASE FlushBufferedMessages(p)
    <2> DEFINE n == DeliverEach([t EXCEPT !.held = <<>>], t.held)
    <2>1. n \in Taps /\ n.listening = t.listening /\ n.asked = t.asked
          /\ (t.listening => Has(t) \subseteq Has(n))
      BY <1>2, FlushGives
    <2>2. tap' = [tap EXCEPT ![p] = n] /\ UNCHANGED relayRoom
      BY <1>9 DEF FlushBufferedMessages
    <2> HIDE DEF n
    <2>3. QED
      BY <1>2, <1>5, <2>1, <2>2
  <1>10. CASE RequestSync(p)
    <2> DEFINE d == Deliver(t, Logged)
               n == [d EXCEPT !.asked = d.asked \/ d.listening]
    <2>1. Logged \in Payloads
      <3>1. relayRoom.log \in Seq(Entries)
        BY <1>2 DEF RelayRooms
      <3>2. \A packet \in ToSet(relayRoom.log) : packet \in Entries
        BY <3>1 DEF ToSet
      <3>3. \A packet \in ToSet(relayRoom.log) : packet.batches \in Payloads
        BY <3>2 DEF Entries
      <3>4. QED
        BY <3>3 DEF Logged, Payloads
    <2>2. /\ d \in Taps /\ d.listening = t.listening /\ d.asked = t.asked
          /\ Has(t) \subseteq Has(d) /\ (t.listening => Logged \subseteq Has(d))
      BY <1>2, <2>1, DeliverGives
    <2>3. tap' = [tap EXCEPT ![p] = n] /\ UNCHANGED relayRoom
      BY <1>10 DEF RequestSync
    <2> HIDE DEF d
    <2>4. /\ n \in Taps /\ n.listening = d.listening /\ n.asked = (d.asked \/ d.listening)
          /\ n.heard = d.heard /\ n.held = d.held
      BY <1>2, <2>2 DEF Taps
    <2> HIDE DEF n
    <2>5. Has(n) = Has(d)
      BY <2>4 DEF Has
    <2>6. n.asked => n.listening /\ Logged \subseteq Has(n)
      BY <1>2, <2>2, <2>4, <2>5
    <2>7. QED
      BY <1>2, <2>3, <2>4, <2>6, TapMoves
  <1>11. QED
    BY <1>1, <1>3, <1>4, <1>6, <1>7, <1>8, <1>9, <1>10, SendKeepsInv

(* NobodyMissesABatch: however replicas come, go, pause and flush, one that   *)
(* listens and has asked for the log has, or holds, all that the relay has   *)
(* of the others.                                                           *)
THEOREM NobodyMisses == PeerWorkspaceSpec => []NobodyMissesABatch
  <1>1. PeerWorkspaceInit => RelayInv
    BY RelayInvInit DEF PeerWorkspaceInit
  <1>2. RelayInv /\ [PeerWorkspaceNext]_peerWorkspaceVars => RelayInv'
    <2> SUFFICES ASSUME RelayInv, [PeerWorkspaceNext]_peerWorkspaceVars PROVE RelayInv'
      OBVIOUS
    <2>1. CASE RelayNext
      BY <2>1, RelayStepKeepsInv
    <2>2. CASE UNCHANGED relayVars
      BY <2>2 DEF relayVars, RelayInv, RelayTyped, NobodyMissesABatch
    <2>3. QED
      BY <2>1, <2>2 DEF PeerWorkspaceNext, peerWorkspaceVars
  <1>3. RelayInv => NobodyMissesABatch
    BY DEF RelayInv
  <1>4. QED
    BY <1>1, <1>2, <1>3, PTL DEF PeerWorkspaceSpec

-----------------------------------------------------------------------------
(* Action traces: that a trace which the relay lets through was done.  The   *)
(* walk of a frame is a function that is defined by recursion; the least      *)
(* number at which it could not go on would be a contradiction.              *)
(* A set of numbers has a least one. *)
LEMMA LeastNatural ==
  ASSUME NEW T, T \subseteq Nat, T # {}
  PROVE  \E m \in T : \A n \in T : m <= n
  <1> DEFINE Down == {0..n : n \in T}
  <1>1. Down # {} /\ Down \subseteq FiniteSubsetsOf(Nat)
    <2>1. ASSUME NEW n \in T PROVE 0..n \in FiniteSubsetsOf(Nat)
      <3>1. n \in Int /\ 0 \in Int /\ 0..n \subseteq Nat
        OBVIOUS
      <3>2. IsFiniteSet(0..n)
        BY <3>1, FS_Interval
      <3>3. QED
        BY <3>1, <3>2 DEF FiniteSubsetsOf
    <2>2. QED
      BY <2>1
  <1>2. IsWellFoundedOn(StrictSubsetOrdering(Nat), FiniteSubsetsOf(Nat))
    BY FS_StrictSubsetOrderingWellFounded
  <1> HIDE DEF Down
  <1>3. PICK D \in Down : \A E \in Down : ~(<<E, D>> \in StrictSubsetOrdering(Nat))
    BY <1>1, <1>2, WFMin
  <1>4. PICK m \in T : D = 0..m
    BY DEF Down
  <1>5. ASSUME NEW n \in T, ~(m <= n) PROVE FALSE
    <2>1. 0..n \in Down
      BY DEF Down
    <2>2. m \in Nat /\ n \in Nat /\ n < m
      BY <1>5
    <2>3. 0..n \in SUBSET Nat /\ 0..m \in SUBSET Nat /\ 0..n \subseteq 0..m
      BY <2>2
    <2>4. m \in 0..m /\ m \notin 0..n
      BY <2>2
    <2>5. 0..n # 0..m
      BY <2>4
    <2> DEFINE e == <<0..n, 0..m>>
    <2>6. e \in (SUBSET Nat) \X (SUBSET Nat) /\ e[1] = 0..n /\ e[2] = 0..m
      BY <2>3
    <2>7. e \in StrictSubsetOrdering(Nat)
      BY <2>3, <2>5, <2>6 DEF StrictSubsetOrdering
    <2>8. QED
      BY <1>3, <1>4, <2>1, <2>7
  <1>6. QED
    BY <1>5

(* The walk of a frame, a step at a time: that there is such a function. *)
StepUp(trace, x) == IF x = None THEN None ELSE Parent(trace, x)

Goes(trace, id, g, k) == g = [n \in 0..k |-> IF n = 0 THEN id ELSE StepUp(trace, g[n - 1])]

LEMMA WalkExists ==
  ASSUME NEW trace, NEW id, NEW k \in Nat
  PROVE  \E g : Goes(trace, id, g, k)
  <1> DEFINE Stuck == {j \in Nat : ~ \E g : Goes(trace, id, g, j)}
  <1>1. SUFFICES ASSUME Stuck # {} PROVE FALSE
    OBVIOUS
  <1>2. PICK m \in Stuck : \A j \in Stuck : m <= j
    BY <1>1, LeastNatural
  <1>3. m \in Nat /\ ~ \E g : Goes(trace, id, g, m)
    OBVIOUS
  <1>4. CASE m = 0
    <2> DEFINE h == [n \in 0..0 |-> id]
    <2>1. h = [n \in 0..0 |-> IF n = 0 THEN id ELSE StepUp(trace, h[n - 1])]
      OBVIOUS
    <2>2. QED
      BY <1>3, <1>4, <2>1 DEF Goes
  <1>5. CASE m # 0
    <2>1. m - 1 \in Nat /\ ~(m <= m - 1)
      BY <1>3, <1>5
    <2>2. m - 1 \notin Stuck
      BY <1>2, <2>1
    <2>3. PICK g : Goes(trace, id, g, m - 1)
      BY <2>1, <2>2
    <2> HIDE DEF Stuck
    <2> DEFINE h == [n \in 0..m |-> IF n = m THEN StepUp(trace, g[m - 1]) ELSE g[n]]
    <2>4. ASSUME NEW n \in 0..m PROVE h[n] = IF n = 0 THEN id ELSE StepUp(trace, h[n - 1])
      <3>1. n \in Nat /\ n <= m /\ m \in 0..m
        BY <1>3, <2>4
      <3>2. CASE n = m
        <4>1. m - 1 \in 0..m /\ m - 1 # m /\ n # 0 /\ n - 1 = m - 1
          BY <1>3, <1>5, <3>2
        <4>2. h[m - 1] = g[m - 1] /\ h[m] = StepUp(trace, g[m - 1])
          BY <3>1, <4>1
        <4>3. QED
          BY <3>2, <4>1, <4>2
      <3>3. CASE n # m
        <4>1. n \in 0..(m - 1)
          BY <1>3, <3>1, <3>3
        <4>2. h[n] = g[n]
          BY <2>4, <3>3
        <4>3. g[n] = IF n = 0 THEN id ELSE StepUp(trace, g[n - 1])
          BY <2>3, <4>1 DEF Goes
        <4>4. n # 0 => n - 1 \in 0..m /\ n - 1 # m
          BY <1>3, <3>1, <3>3
        <4>5. n # 0 => h[n - 1] = g[n - 1]
          BY <4>4
        <4>6. QED
          BY <4>2, <4>3, <4>5
      <3>4. QED
        BY <3>2, <3>3
    <2>5. h = [n \in 0..m |-> h[n]]
      OBVIOUS
    <2> HIDE DEF h
    <2>6. Goes(trace, id, h, m)
      BY <2>4, <2>5 DEF Goes
    <2>7. QED
      BY <1>3, <2>6
  <1>6. QED
    BY <1>4, <1>5

LEMMA WalkGoes ==
  ASSUME NEW trace, Len(trace.frames) \in Nat, NEW id
  PROVE  /\ Walk(trace, id)[0] = id
         /\ \A n \in 1..Len(trace.frames) : Walk(trace, id)[n] = StepUp(trace, Walk(trace, id)[n - 1])
  <1> DEFINE k == Len(trace.frames)
             w == Walk(trace, id)
  <1>1. \E g : Goes(trace, id, g, k)
    BY WalkExists
  <1>2. w = CHOOSE g : Goes(trace, id, g, k)
    BY DEF Walk, Goes, StepUp
  <1>3. Goes(trace, id, w, k)
    BY <1>1, <1>2
  <1> HIDE DEF w
  <1>4. w = [n \in 0..k |-> IF n = 0 THEN id ELSE StepUp(trace, w[n - 1])]
    BY <1>3 DEF Goes
  <1>5. w[0] = id
    BY <1>4
  <1>6. ASSUME NEW n \in 1..k PROVE w[n] = StepUp(trace, w[n - 1])
    BY <1>4
  <1>7. QED
    BY <1>5, <1>6 DEF w

-----------------------------------------------------------------------------
(* The first n of an order of frames: each comes after its parent. *)
PlacedTo(trace, q, n) ==
  /\ q \in [1..n -> FrameIds(trace)]
  /\ \A i, j \in 1..n : i # j => q[i] # q[j]
  /\ \A j \in 1..n : Parent(trace, q[j]) # None => \E i \in 1..n : i < j /\ q[i] = Parent(trace, q[j])

Sorts(trace, q) == q \in SetToSeqs(FrameIds(trace)) /\ PlacedTo(trace, q, Cardinality(FrameIds(trace)))

LEMMA FramesAreFinite ==
  ASSUME NEW trace, trace.frames \in Seq(ToSet(trace.frames)), FramesHold(trace)
  PROVE  /\ IsFiniteSet(FrameIds(trace)) /\ Cardinality(FrameIds(trace)) = Len(trace.frames)
         /\ \A i, j \in DOMAIN trace.frames : trace.frames[i].id = trace.frames[j].id => i = j
         /\ \A i \in DOMAIN trace.frames : Parent(trace, trace.frames[i].id) = trace.frames[i].parent
         /\ \A id \in FrameIds(trace) : Parent(trace, id) \in FrameIds(trace) \cup {None}
  <1> DEFINE S == FrameIds(trace)
             L == Len(trace.frames)
             f == [i \in 1..L |-> trace.frames[i].id]
  <1>1. L \in Nat /\ DOMAIN trace.frames = 1..L
    OBVIOUS
  <1>2. f \in Surjection(1..L, S)
    BY <1>1 DEF FrameIds, Surjection
  <1>3. IsFiniteSet(1..L) /\ Cardinality(1..L) = L
    BY <1>1, FS_Interval
  <1>4. IsFiniteSet(S) /\ (Cardinality(S) = L <=> f \in Injection(1..L, S))
    BY <1>2, <1>3, FS_Surjection
  <1>5. Cardinality(S) = L
    BY DEF FramesHold
  <1>6. ASSUME NEW i \in DOMAIN trace.frames, NEW j \in DOMAIN trace.frames, trace.frames[i].id = trace.frames[j].id
        PROVE i = j
    <2>1. f[i] = f[j] /\ i \in 1..L /\ j \in 1..L
      BY <1>1, <1>6
    <2>2. QED
      BY <1>4, <1>5, <2>1 DEF Injection, IsInjective
  <1>7. ASSUME NEW i \in DOMAIN trace.frames PROVE Parent(trace, trace.frames[i].id) = trace.frames[i].parent
    <2> DEFINE c == CHOOSE j \in DOMAIN trace.frames : trace.frames[j].id = trace.frames[i].id
    <2>1. c \in DOMAIN trace.frames /\ trace.frames[c].id = trace.frames[i].id
      BY <1>7
    <2>2. c = i
      BY <1>6, <1>7, <2>1
    <2>3. QED
      BY <2>2 DEF Parent
  <1>8. ASSUME NEW id \in S PROVE Parent(trace, id) \in S \cup {None}
    <2>1. PICK i \in DOMAIN trace.frames : id = trace.frames[i].id
      BY DEF FrameIds
    <2>2. trace.frames[i].parent \in S \cup {None}
      BY DEF FramesHold
    <2>3. QED
      BY <1>7, <2>1, <2>2
  <1>9. QED
    BY <1>4, <1>5, <1>6, <1>7, <1>8

(* Among frames that are not placed one has a parent that is. *)
LEMMA OneIsNext ==
  ASSUME NEW trace, trace.frames \in Seq(ToSet(trace.frames)), None \notin FrameIds(trace), FramesHold(trace),
         NEW U, U \subseteq FrameIds(trace), U # {}
  PROVE  \E x \in U : Parent(trace, x) \notin U
  <1> DEFINE L == Len(trace.frames)
  <1>1. PICK id \in U : TRUE
    OBVIOUS
  <1> DEFINE w == Walk(trace, id)
             T == {n \in 0..L : w[n] \notin U}
  <1>2. L \in Nat
    OBVIOUS
  <1>3. w[0] = id /\ \A n \in 1..L : w[n] = StepUp(trace, w[n - 1])
    BY <1>2, WalkGoes
  <1>4. w[L] = None
    BY <1>1 DEF FramesHold, Ends
  <1> HIDE DEF w
  <1>5. L \in T /\ T \subseteq Nat
    BY <1>2, <1>4
  <1>6. PICK m \in T : \A n \in T : m <= n
    BY <1>5, LeastNatural
  <1>7. m \in Nat /\ m <= L /\ w[m] \notin U /\ m # 0
    BY <1>1, <1>2, <1>3
  <1>8. m - 1 \in 0..L /\ m \in 1..L /\ ~(m <= m - 1)
    BY <1>2, <1>7
  <1>9. w[m - 1] \in U
    BY <1>6, <1>8
  <1>10. w[m - 1] # None
    BY <1>9
  <1>11. Parent(trace, w[m - 1]) = w[m]
    BY <1>3, <1>8, <1>10 DEF StepUp
  <1>12. QED
    BY <1>7, <1>9, <1>11

(* Another frame is placed. *)
LEMMA PlaceNext ==
  ASSUME NEW trace, NEW n \in Nat, NEW q, PlacedTo(trace, q, n),
         NEW x \in FrameIds(trace), \A i \in 1..n : q[i] # x,
         Parent(trace, x) = None \/ \E i \in 1..n : q[i] = Parent(trace, x)
  PROVE  \E r : PlacedTo(trace, r, n + 1)
  <1> DEFINE r == [i \in 1..(n + 1) |-> IF i = n + 1 THEN x ELSE q[i]]
  <1>1. /\ \A i \in 1..n : i \in 1..(n + 1) /\ i # n + 1 /\ i < n + 1
        /\ n + 1 \in 1..(n + 1)
        /\ \A i \in 1..(n + 1) : i = n + 1 \/ i \in 1..n
    OBVIOUS
  <1>2. r[n + 1] = x /\ \A i \in 1..n : r[i] = q[i]
    BY <1>1
  <1>3. r \in [1..(n + 1) -> FrameIds(trace)]
    BY <1>1 DEF PlacedTo
  <1> HIDE DEF r
  <1>4. ASSUME NEW i \in 1..(n + 1), NEW j \in 1..(n + 1), i # j PROVE r[i] # r[j]
    <2>1. CASE i \in 1..n /\ j \in 1..n
      BY <1>2, <1>4, <2>1 DEF PlacedTo
    <2>2. CASE i = n + 1 /\ j \in 1..n
      BY <1>2, <2>2
    <2>3. CASE j = n + 1 /\ i \in 1..n
      BY <1>2, <2>3
    <2>4. QED
      BY <1>1, <1>4, <2>1, <2>2, <2>3
  <1>5. ASSUME NEW j \in 1..(n + 1), Parent(trace, r[j]) # None
        PROVE  \E i \in 1..(n + 1) : i < j /\ r[i] = Parent(trace, r[j])
    <2>1. CASE j \in 1..n
      <3>1. PICK i \in 1..n : i < j /\ q[i] = Parent(trace, q[j])
        BY <1>2, <1>5, <2>1 DEF PlacedTo
      <3>2. QED
        BY <1>1, <1>2, <2>1, <3>1
    <2>2. CASE j = n + 1
      <3>1. PICK i \in 1..n : q[i] = Parent(trace, x)
        BY <1>2, <1>5, <2>2
      <3>2. QED
        BY <1>1, <1>2, <2>2, <3>1
    <2>3. QED
      BY <1>1, <2>1, <2>2
  <1>6. QED
    BY <1>3, <1>4, <1>5 DEF PlacedTo

(* The frames of a trace that was let through can be put in an order. *)
LEMMA FramesSort ==
  ASSUME NEW trace, trace.frames \in Seq(ToSet(trace.frames)), None \notin FrameIds(trace), FramesHold(trace)
  PROVE  \E q : Sorts(trace, q)
  <1> DEFINE S == FrameIds(trace)
             N == Cardinality(S)
             Rest == {d \in Nat : \E n \in Nat : \E q : d + n = N /\ PlacedTo(trace, q, n)}
  <1>1. IsFiniteSet(S) /\ N = Len(trace.frames) /\ \A id \in S : Parent(trace, id) \in S \cup {None}
    BY FramesAreFinite
  <1>2. N \in Nat
    BY <1>1
  <1> HIDE DEF N
  <1>3. N \in Rest
    <2> DEFINE q == [i \in 1..0 |-> None]
    <2>1. \A i \in 1..0 : FALSE
      OBVIOUS
    <2>2. PlacedTo(trace, q, 0)
      BY <2>1 DEF PlacedTo
    <2>3. N + 0 = N
      BY <1>2
    <2>4. QED
      BY <1>2, <2>2, <2>3
  <1>4. PICK d \in Rest : \A e \in Rest : d <= e
    BY <1>3, LeastNatural
  <1>0. PICK n \in Nat : \E q : d + n = N /\ PlacedTo(trace, q, n)
    OBVIOUS
  <1>5. PICK q : d + n = N /\ PlacedTo(trace, q, n)
    BY <1>0
  <1>6. d \in Nat
    OBVIOUS
  <1>7. CASE d = 0
    <2>1. n = N
      BY <1>2, <1>5, <1>7
    <2>2. PlacedTo(trace, q, N)
      BY <1>5, <2>1
    <2>3. q \in SetToSeqs(S)
      BY <2>2 DEF SetToSeqs, PlacedTo, N
    <2>4. QED
      BY <2>2, <2>3 DEF Sorts, N
  <1>8. CASE d # 0
    <2> DEFINE U == S \ {q[i] : i \in 1..n}
    <2>1. n < N /\ d - 1 \in Nat /\ (d - 1) + (n + 1) = N /\ ~(d <= d - 1) /\ n + 1 \in Nat
      BY <1>2, <1>5, <1>6, <1>8
    <2>2. U # {}
      <3>1. SUFFICES ASSUME S = {q[i] : i \in 1..n} PROVE FALSE
        BY <1>5 DEF PlacedTo
      <3>2. q \in Surjection(1..n, S)
        BY <1>5, <3>1 DEF Surjection, PlacedTo
      <3>3. IsFiniteSet(1..n) /\ Cardinality(1..n) = n
        BY FS_Interval
      <3>4. Cardinality(S) <= n
        BY <3>2, <3>3, FS_Surjection
      <3>5. QED
        BY <1>2, <2>1, <3>4 DEF N
    <2>3. PICK x \in U : Parent(trace, x) \notin U
      BY <2>2, OneIsNext
    <2>4. Parent(trace, x) = None \/ \E i \in 1..n : q[i] = Parent(trace, x)
      BY <1>1, <2>3
    <2>5. PICK r : PlacedTo(trace, r, n + 1)
      BY <1>5, <2>3, <2>4, PlaceNext
    <2>6. d - 1 \in Rest
      BY <2>1, <2>5
    <2>7. QED
      BY <1>4, <2>1, <2>6
  <1>9. QED
    BY <1>7, <1>8

(* assertActionTraceV2 lets nothing through that was not done. *)
LEMMA WhatHoldsWasDone ==
  ASSUME NEW trace, trace.frames \in Seq(ToSet(trace.frames)), None \notin FrameIds(trace),
         \A made \in trace.produced : made = <<made[1], made[2]>>,
         FramesHold(trace), ProducedHold(trace)
  PROVE  WasDone(trace)
  <1> DEFINE S == FrameIds(trace)
             L == Len(trace.frames)
  <1>1. /\ IsFiniteSet(S) /\ Cardinality(S) = L /\ L \in Nat
        /\ \A i \in DOMAIN trace.frames : Parent(trace, trace.frames[i].id) = trace.frames[i].parent
    BY FramesAreFinite
  <1>2. PICK q : Sorts(trace, q)
    BY FramesSort
  <1>3. q \in SetToSeqs(S) /\ PlacedTo(trace, q, L)
    BY <1>1, <1>2 DEF Sorts
  <1>4. q \in [1..L -> S] /\ DOMAIN q = 1..L
    BY <1>3 DEF PlacedTo
  <1>5. Len(q) = L
    BY <1>1, <1>4
  <1>6. q \in Surjection(1..L, S)
    <2>1. q \in Injection(1..L, S)
      BY <1>3 DEF PlacedTo, Injection, IsInjective
    <2>2. IsFiniteSet(1..L) /\ Cardinality(1..L) = L
      <3> HIDE DEF S, L
      <3>1. L \in Int /\ 1 \in Int /\ (IF 1 > L THEN 0 ELSE L - 1 + 1) = L
        BY <1>1
      <3>2. QED
        BY <3>1, FS_Interval
    <2>3. QED
      BY <1>1, <2>1, <2>2, FS_Injection
  <1>7. ASSUME NEW i \in DOMAIN trace.frames, trace.frames[i].parent # None
        PROVE  \E j, k \in DOMAIN q : j < k /\ q[j] = trace.frames[i].parent /\ q[k] = trace.frames[i].id
    <2>1. trace.frames[i].id \in S
      BY <1>7 DEF FrameIds
    <2>2. PICK k \in 1..L : q[k] = trace.frames[i].id
      BY <1>6, <2>1 DEF Surjection
    <2>3. Parent(trace, q[k]) = trace.frames[i].parent
      BY <1>1, <1>7, <2>2
    <2>4. PICK j \in 1..L : j < k /\ q[j] = trace.frames[i].parent
      BY <1>3, <1>7, <2>3 DEF PlacedTo
    <2>5. QED
      BY <1>4, <2>2, <2>4
  <1>8. \A i \in DOMAIN trace.frames : trace.frames[i].by \in S \cup {None}
    BY DEF FramesHold
  <1>9. trace.produced \subseteq S \X trace.contents
    BY DEF ProducedHold
  <1>10. QED
    BY <1>3, <1>5, <1>7, <1>8, <1>9 DEF WasDone

Sound == {b \in UNION {ToSet(m.batches) : m \in Messages} : TraceHolds(b)}

SoundInv == (\A p \in Replicas : Has(tap[p]) \subseteq Sound) /\ Logged \subseteq Sound

LEMMA DeliverAdds ==
  ASSUME NEW t \in Taps, NEW batches \in Payloads
  PROVE  Has(Deliver(t, batches)) \subseteq Has(t) \cup batches
  <1> DEFINE d == Deliver(t, batches)
  <1>0. t.held \in Seq(Payloads) /\ t.heard \in Payloads
    BY DEF Taps
  <1>1. CASE t.paused
    <2>1. ToSet(Append(t.held, batches)) = ToSet(t.held) \cup {batches}
      BY <1>0, ToSetAppend
    <2>2. d = [t EXCEPT !.held = Append(t.held, batches)]
      BY <1>1 DEF Deliver
    <2>3. d.heard = t.heard /\ d.held = Append(t.held, batches)
      BY <2>2 DEF Taps
    <2>4. QED
      BY <2>1, <2>3 DEF Has
  <1>2. CASE ~t.paused /\ t.listening
    <2>1. d = [t EXCEPT !.heard = t.heard \cup batches]
      BY <1>2 DEF Deliver
    <2>2. d.held = t.held /\ d.heard = t.heard \cup batches
      BY <2>1 DEF Taps
    <2>3. QED
      BY <2>2 DEF Has
  <1>3. CASE ~t.paused /\ ~t.listening
    BY <1>3 DEF Deliver
  <1>4. QED
    BY <1>1, <1>2, <1>3

LEMMA FlushAdds ==
  ASSUME NEW t \in Taps
  PROVE  Has(DeliverEach([t EXCEPT !.held = <<>>], t.held)) \subseteq Has(t)
  <1> DEFINE e == [t EXCEPT !.held = <<>>]
             d == DeliverEach(e, t.held)
  <1>0. t.held \in Seq(Payloads) /\ ToSet(<<>>) = {}
    BY ToSetEmpty DEF Taps
  <1>1. /\ e.listening = t.listening /\ e.paused = t.paused /\ e.heard = t.heard /\ e.held = <<>>
        /\ \A h : [e EXCEPT !.held = h].heard = t.heard /\ [e EXCEPT !.held = h].held = h
        /\ \A h : [e EXCEPT !.heard = h].heard = h /\ [e EXCEPT !.heard = h].held = <<>>
    BY DEF Taps
  <1> HIDE DEF e
  <1>2. CASE t.paused
    <2>1. e.held \o t.held = t.held
      BY <1>0, <1>1, ConcatEmptySeq
    <2>2. d = [e EXCEPT !.held = t.held]
      BY <1>1, <1>2, <2>1 DEF DeliverEach
    <2>3. d.heard = t.heard /\ d.held = t.held
      BY <1>1, <2>2
    <2>4. QED
      BY <2>3 DEF Has, e
  <1>3. CASE ~t.paused /\ t.listening
    <2>1. d = [e EXCEPT !.heard = t.heard \cup UNION ToSet(t.held)]
      BY <1>1, <1>3 DEF DeliverEach
    <2>2. d.held = <<>> /\ d.heard = t.heard \cup UNION ToSet(t.held)
      BY <1>1, <2>1
    <2>3. QED
      BY <1>0, <2>2 DEF Has, e
  <1>4. CASE ~t.paused /\ ~t.listening
    <2>1. d = e
      BY <1>1, <1>4 DEF DeliverEach
    <2>2. QED
      BY <1>0, <1>1, <2>1 DEF Has, e
  <1>5. QED
    BY <1>2, <1>3, <1>4

(* Only the transport of p changes, to n, and to nothing new but what is sound. *)
LEMMA TapStaysSound ==
  ASSUME RelayInv, SoundInv, NEW p \in Replicas, NEW n, tap' = [tap EXCEPT ![p] = n],
         relayRoom'.log = relayRoom.log, Has(n) \subseteq Has(tap[p]) \cup Sound
  PROVE  SoundInv'
  <1>1. tap'[p] = n /\ \A q \in Replicas : q # p => tap'[q] = tap[q]
    BY DEF RelayInv, RelayTyped
  <1>2. \A q \in Replicas : Has(tap'[q]) \subseteq Sound
    BY <1>1 DEF SoundInv
  <1>3. Logged' = Logged
    BY DEF Logged
  <1>4. (\A q \in Replicas : Has(tap[q]) \subseteq Sound)'
    BY <1>2
  <1>5. QED
    BY <1>3, <1>4 DEF SoundInv

LEMMA SendStaysSound ==
  ASSUME RelayInv, SoundInv, NEW p \in Replicas, NEW m \in Messages, Send(p, m)
  PROVE  SoundInv'
  <1> DEFINE b == ToSet(m.batches)
             e == [from |-> p, batches |-> b]
             log == Append(relayRoom.log, e)
             k == IF Len(log) > MaxLog THEN MaxLog ELSE Len(log)
             u == SubSeq(log, 1 + Len(log) - k, Len(log))
  <1>1. CASE UNCHANGED relayVars
    BY <1>1 DEF relayVars, SoundInv, Logged
  <1>2. CASE /\ relayRoom' = Remember(relayRoom, p, m)
             /\ tap' = [q \in Replicas |-> IF q \in relayRoom.peers \ {p}
                                             THEN Deliver(tap[q], ToSet(m.batches)) ELSE tap[q]]
    <2>1. b \in Payloads /\ e \in Entries /\ e.batches = b
      BY DEF Payloads, Entries
    <2>2. b \subseteq Sound
      BY DEF Send, Sound
    <2>3. relayRoom.log \in Seq(Entries) /\ relayRoom \in RelayRooms
      BY DEF RelayInv, RelayTyped, RelayRooms
    <2>4. relayRoom'.log = u
      <3>1. relayRoom' = [relayRoom EXCEPT !.seen = @ \cup {PacketKey(p, m)}, !.log = u]
        BY <1>2 DEF Remember
      <3> HIDE DEF u
      <3>2. QED
        BY <2>3, <3>1 DEF RelayRooms
    <2> HIDE DEF b, e
    <2>5. log \in Seq(Entries) /\ ToSet(log) = ToSet(relayRoom.log) \cup {e}
      BY <2>1, <2>3, ToSetAppend
    <2> HIDE DEF log
    <2>6. k \in 0..Len(log)
      BY <2>5, RelayAssumption
    <2> HIDE DEF k
    <2>7. ToSet(u) \subseteq ToSet(relayRoom.log) \cup {e}
      BY <2>5, <2>6, ToSetSuffix
    <2> HIDE DEF u
    <2>8. Logged' \subseteq Logged \cup b
      BY <2>1, <2>4, <2>7 DEF Logged
    <2>9. ASSUME NEW q \in Replicas PROVE Has(tap'[q]) \subseteq Sound
      <3>1. tap[q] \in Taps /\ Has(tap[q]) \subseteq Sound
        BY DEF RelayInv, RelayTyped, SoundInv
      <3>2. tap'[q] = Deliver(tap[q], b) \/ tap'[q] = tap[q]
        BY <1>2 DEF b
      <3>3. Has(Deliver(tap[q], b)) \subseteq Has(tap[q]) \cup b
        BY <2>1, <3>1, DeliverAdds
      <3>4. QED
        BY <2>2, <3>1, <3>2, <3>3
    <2>10. (\A q \in Replicas : Has(tap[q]) \subseteq Sound)'
      BY <2>9
    <2>11. QED
      BY <2>2, <2>8, <2>10 DEF SoundInv
  <1>3. QED
    BY <1>1, <1>2 DEF Send

LEMMA RelayStaysSound ==
  ASSUME RelayInv, SoundInv, RelayNext
  PROVE  SoundInv'
  <1>1. PICK p \in Replicas :
          \/ Join(p) \/ Close(p) \/ Subscribe(p) \/ Unsubscribe(p)
          \/ \E paused \in BOOLEAN : SetDeliveryPaused(p, paused)
          \/ FlushBufferedMessages(p)
          \/ \E m \in Messages : Send(p, m)
          \/ RequestSync(p)
    BY DEF RelayNext
  <1> DEFINE t == tap[p]
  <1>2. /\ t \in Taps /\ relayRoom \in RelayRooms /\ tap = [tap EXCEPT ![p] = t]
        /\ \A x : [t EXCEPT !.listening = x].heard = t.heard /\ [t EXCEPT !.listening = x].held = t.held
        /\ \A x : [t EXCEPT !.paused = x].heard = t.heard /\ [t EXCEPT !.paused = x].held = t.held
        /\ \A x, y : LET n == [t EXCEPT !.listening = x, !.asked = y] IN n.heard = t.heard /\ n.held = t.held
    BY DEF RelayInv, RelayTyped, Taps
  <1>3. CASE Join(p) \/ Close(p)
    <2>1. tap' = [tap EXCEPT ![p] = NewTap] /\ relayRoom'.log = relayRoom.log
      BY <1>2, <1>3 DEF Join, Close, RelayRooms
    <2>2. Has(NewTap) = {}
      BY ToSetEmpty DEF NewTap, Has
    <2>3. QED
      BY <2>1, <2>2, TapStaysSound
  <1>4. CASE Subscribe(p)
    <2> DEFINE n == [t EXCEPT !.listening = TRUE]
    <2>1. n.heard = t.heard /\ n.held = t.held
      BY <1>2
    <2>2. tap' = [tap EXCEPT ![p] = n] /\ UNCHANGED relayRoom
      BY <1>4 DEF Subscribe
    <2> HIDE DEF n
    <2>3. Has(n) = Has(t)
      BY <2>1 DEF Has
    <2>4. QED
      BY <2>2, <2>3, TapStaysSound
  <1>5. CASE Unsubscribe(p)
    <2> DEFINE n == [t EXCEPT !.listening = FALSE, !.asked = FALSE]
    <2>1. n.heard = t.heard /\ n.held = t.held
      BY <1>2
    <2>2. tap' = [tap EXCEPT ![p] = n] /\ UNCHANGED relayRoom
      BY <1>2, <1>5 DEF Unsubscribe
    <2> HIDE DEF n
    <2>3. Has(n) = Has(t)
      BY <2>1 DEF Has
    <2>4. QED
      BY <2>2, <2>3, TapStaysSound
  <1>6. ASSUME NEW paused \in BOOLEAN, SetDeliveryPaused(p, paused)
        PROVE  SoundInv'
    <2> DEFINE n == [t EXCEPT !.paused = paused]
    <2>1. n.heard = t.heard /\ n.held = t.held
      BY <1>2
    <2>2. tap' = [tap EXCEPT ![p] = n] /\ UNCHANGED relayRoom
      BY <1>6 DEF SetDeliveryPaused
    <2> HIDE DEF n
    <2>3. Has(n) = Has(t)
      BY <2>1 DEF Has
    <2>4. QED
      BY <2>2, <2>3, TapStaysSound
  <1>7. CASE FlushBufferedMessages(p)
    <2> DEFINE n == DeliverEach([t EXCEPT !.held = <<>>], t.held)
    <2>1. Has(n) \subseteq Has(t)
      BY <1>2, FlushAdds
    <2>2. tap' = [tap EXCEPT ![p] = n] /\ UNCHANGED relayRoom
      BY <1>7 DEF FlushBufferedMessages
    <2> HIDE DEF n
    <2>3. QED
      BY <2>1, <2>2, TapStaysSound
  <1>8. CASE RequestSync(p)
    <2> DEFINE d == Deliver(t, Logged)
               n == [d EXCEPT !.asked = d.asked \/ d.listening]
    <2>1. Logged \in Payloads /\ Logged \subseteq Sound
      BY DEF SoundInv, Sound, Payloads
    <2>2. d \in Taps /\ Has(d) \subseteq Has(t) \cup Logged
      BY <1>2, <2>1, DeliverGives, DeliverAdds
    <2>3. tap' = [tap EXCEPT ![p] = n] /\ UNCHANGED relayRoom
      BY <1>8 DEF RequestSync
    <2> HIDE DEF d
    <2>4. n.heard = d.heard /\ n.held = d.held
      BY <2>2 DEF Taps
    <2> HIDE DEF n
    <2>5. Has(n) = Has(d)
      BY <2>4 DEF Has
    <2>6. QED
      BY <2>1, <2>2, <2>3, <2>5, TapStaysSound
  <1>9. QED
    BY <1>1, <1>3, <1>4, <1>5, <1>6, <1>7, <1>8, SendStaysSound

(* TracesWereDone: whatever a replica hears was done as its trace tells, for  *)
(* traces of any length (assertActionTraceV2).                              *)
THEOREM OnlyDoneTraces == PeerWorkspaceSpec => []TracesWereDone
  <1>1. PeerWorkspaceInit => RelayInv /\ SoundInv
    <2> SUFFICES ASSUME PeerWorkspaceInit PROVE RelayInv /\ SoundInv
      OBVIOUS
    <2>1. RelayInit /\ RelayInv
      BY RelayInvInit DEF PeerWorkspaceInit
    <2>2. \A p \in Replicas : Has(tap[p]) = {}
      BY <2>1, ToSetEmpty DEF RelayInit, NewTap, Has
    <2>3. Logged = {}
      BY <2>1, ToSetEmpty DEF RelayInit, Logged
    <2>4. QED
      BY <2>1, <2>2, <2>3 DEF SoundInv
  <1>2. RelayInv /\ SoundInv /\ [PeerWorkspaceNext]_peerWorkspaceVars => (RelayInv /\ SoundInv)'
    <2> SUFFICES ASSUME RelayInv, SoundInv, [PeerWorkspaceNext]_peerWorkspaceVars PROVE (RelayInv /\ SoundInv)'
      OBVIOUS
    <2>1. CASE RelayNext
      BY <2>1, RelayStepKeepsInv, RelayStaysSound
    <2>2. CASE UNCHANGED relayVars
      BY <2>2 DEF relayVars, RelayInv, RelayTyped, NobodyMissesABatch, SoundInv, Logged
    <2>3. QED
      BY <2>1, <2>2 DEF PeerWorkspaceNext, peerWorkspaceVars
  <1>3. SoundInv => TracesWereDone
    <2> SUFFICES ASSUME SoundInv, NEW p \in Replicas, NEW b \in tap[p].heard, Trace[b] # None
                 PROVE  WasDone(Trace[b])
      BY DEF TracesWereDone
    <2>1. b \in Sound
      BY DEF SoundInv, Has
    <2>2. PICK m \in Messages : b \in ToSet(m.batches)
      BY <2>1 DEF Sound
    <2>3. FramesHold(Trace[b]) /\ ProducedHold(Trace[b])
      BY <2>1 DEF Sound, TraceHolds
    <2>4. QED
      BY <2>2, <2>3, TraceAssumption, WhatHoldsWasDone
  <1>4. QED
    BY <1>1, <1>2, <1>3, PTL DEF PeerWorkspaceSpec

-----------------------------------------------------------------------------
(* The CRDT transports: every packet that has been accepted has been heard,  *)
(* is kept for a listener, or is on its way, as long as the connection lasts. *)
ChannelTyped ==
  /\ connected \in BOOLEAN
  /\ wire = [resource |-> wire.resource, crdt |-> wire.crdt] /\ wire.crdt \in Seq(Nat)
  /\ receiver = [alive |-> receiver.alive, parts |-> receiver.parts, got |-> receiver.got]
  /\ receiver.alive \in BOOLEAN
  /\ crdt \in [sent: Nat, pending: Seq(Nat), listened: BOOLEAN, got: Seq(Nat)]

ChannelInv ==
  /\ ChannelTyped
  /\ crdt.listened => crdt.pending = <<>>
  /\ connected /\ receiver.alive => crdt.sent = Len(crdt.got) + Len(crdt.pending) + Len(wire.crdt)

(* What the packets that are under way look like to the abstract queue.      *)
OnTheirWay == IF receiver.alive THEN crdt.pending \o wire.crdt ELSE <<>>

LEMMA FirstMoves ==
  ASSUME NEW S, NEW s \in Seq(S), NEW t \in Seq(S), t # <<>>
  PROVE  /\ Head(t) \in S /\ Tail(t) \in Seq(S) /\ Len(t) = Len(Tail(t)) + 1 /\ Len(t) >= 1
         /\ SubSeq(t, 1, 1) = <<Head(t)>> /\ SubSeq(t, 2, Len(t)) = Tail(t)
         /\ Append(s, Head(t)) = s \o <<Head(t)>>
         /\ Append(s, Head(t)) \o Tail(t) = s \o t
  <1>1. /\ Head(t) \in S /\ Tail(t) \in Seq(S) /\ Len(Tail(t)) = Len(t) - 1
        /\ Len(t) \in Nat /\ Len(t) >= 1 /\ Head(t) = t[1]
    BY HeadTailProperties, EmptySeq
  <1>2. Append(s, Head(t)) = s \o <<Head(t)>>
    BY <1>1, AppendIsConcat
  <1>3. SubSeq(t, 1, 1) = <<Head(t)>>
    <2>1. 1 \in 1..Len(t) /\ 1 \in 1..1
      BY <1>1
    <2>2. SubSeq(t, 1, 1) = SubSeq(t, 1, 0) \o <<t[1]>>
      BY <2>1, SubSeqRecursiveSecond
    <2>3. SubSeq(t, 1, 0) = <<>>
      BY SubSeqEmpty
    <2>4. <<t[1]>> \in Seq(S)
      BY <1>1
    <2>5. QED
      BY <1>1, <2>2, <2>3, <2>4, ConcatEmptySeq
  <1>4. SubSeq(t, 2, Len(t)) = Tail(t)
    BY TailIsSubSeq
  <1>5. <<Head(t)>> \o Tail(t) = t
    <2>1. SubSeq(t, 1, Len(t)) = <<t[1]>> \o SubSeq(t, 2, Len(t))
      <3>1. 1 \in 1..Len(t) /\ Len(t) \in 1..Len(t)
        BY <1>1
      <3>2. SubSeq(t, 1, Len(t)) = <<t[1]>> \o SubSeq(t, 1 + 1, Len(t))
        BY <3>1, SubSeqRecursiveFirst
      <3>3. QED
        BY <3>2
    <2>2. QED
      BY <1>1, <1>4, <2>1, SubSeqFull
  <1>6. (s \o <<Head(t)>>) \o Tail(t) = s \o (<<Head(t)>> \o Tail(t))
    <2>1. <<Head(t)>> \in Seq(S)
      BY <1>1
    <2>2. QED
      BY <1>1, <2>1, ConcatAssociative
  <1>7. QED
    BY <1>1, <1>2, <1>3, <1>4, <1>5, <1>6

LEMMA LastJoins ==
  ASSUME NEW S, NEW s \in Seq(S), NEW t \in Seq(S), NEW e \in S
  PROVE  s \o Append(t, e) = Append(s \o t, e)
  <1>1. Append(t, e) = t \o <<e>> /\ <<e>> \in Seq(S)
    BY AppendIsConcat
  <1>2. s \o t \in Seq(S)
    BY ConcatProperties
  <1>3. Append(s \o t, e) = (s \o t) \o <<e>>
    BY <1>2, AppendIsConcat
  <1>4. QED
    BY <1>1, <1>3, ConcatAssociative

LEMMA CutsAreSequences ==
  ASSUME NEW S, NEW t \in Seq(S), NEW k \in 0..Len(t)
  PROVE  SubSeq(t, 1, k) \in Seq(S) /\ Len(SubSeq(t, 1, k)) = k
  <1>1. Len(t) \in Nat /\ k \in Nat /\ k <= Len(t) /\ 1 \in Int /\ k \in Int
    OBVIOUS
  <1>2. \A i \in 1..k : t[i] \in S
    BY <1>1
  <1>3. /\ SubSeq(t, 1, k) \in Seq(S)
        /\ Len(SubSeq(t, 1, k)) = IF 1 <= k THEN k - 1 + 1 ELSE 0
    BY <1>1, <1>2, SubSeqProperties
  <1>4. QED
    BY <1>1, <1>3

(* What is left when the network drops the end of t follows s as before.      *)
LEMMA CutIsPrefix ==
  ASSUME NEW S, NEW s \in Seq(S), NEW t \in Seq(S), NEW k \in 0..Len(t)
  PROVE  IsPrefix(s \o SubSeq(t, 1, k), s \o t)
  <1> DEFINE u == SubSeq(t, 1, k)
             c == s \o u
             d == s \o t
  <1>1. u \in Seq(S) /\ Len(u) = k
    BY CutsAreSequences
  <1>2. c \in Seq(S) /\ d \in Seq(S) /\ Len(c) = Len(s) + k /\ Len(d) = Len(s) + Len(t)
    <2> HIDE DEF u
    <2>1. QED
      BY <1>1, ConcatProperties
  <1>3. SubSeq(c, 1, Len(c)) = c
    <2> HIDE DEF c
    <2>1. QED
      BY <1>2, SubSeqFull
  <1>4. SubSeq(d, 1, Len(s) + k) = c
    <2>1. Len(s) \in Nat /\ Len(t) \in Nat /\ k \in Nat /\ k <= Len(t)
      OBVIOUS
    <2>2. QED
      BY <1>2, <2>1
  <1>5. Len(c) <= Len(d)
    <2> HIDE DEF c, d
    <2>1. QED
      BY <1>2
  <1>6. IsPrefix(c, d)
    <2> HIDE DEF c, d
    <2>1. QED
      BY <1>2, <1>3, <1>4, <1>5 DEF IsPrefix
  <1>7. QED
    BY <1>6

LEMMA ChannelInvInit == ChannelInit => ChannelInv
  <1> SUFFICES ASSUME ChannelInit PROVE ChannelInv
    OBVIOUS
  <1>1. <<>> \in Seq(Nat) /\ Len(<<>>) = 0
    BY EmptySeq
  <1>2. /\ wire = [resource |-> <<>>, crdt |-> <<>>]
        /\ receiver = [alive |-> TRUE, parts |-> <<>>, got |-> <<>>]
        /\ crdt = [sent |-> 0, pending |-> <<>>, listened |-> FALSE, got |-> <<>>]
        /\ connected = TRUE
    BY DEF ChannelInit
  <1>3. ChannelTyped
    BY <1>1, <1>2 DEF ChannelTyped
  <1>4. QED
    BY <1>1, <1>2, <1>3 DEF ChannelInv

(* The steps of the resource channel leave the packets alone.                *)
LEMMA ResourceStepsLeavePackets ==
  ASSUME ChannelInv,
         SendResource \/ PutFrame \/ RefuseFrame \/ Transmit \/ ReceiveResource
  PROVE  /\ ChannelTyped' /\ UNCHANGED <<connected, crdt>>
         /\ wire'.crdt = wire.crdt /\ receiver'.alive = receiver.alive
  <1>1. CASE SendResource \/ PutFrame \/ RefuseFrame
    <2>1. UNCHANGED <<connected, crdt, wire, receiver>>
      BY <1>1 DEF SendResource, PutFrame, RefuseFrame
    <2>2. QED
      BY <2>1 DEF ChannelInv, ChannelTyped
  <1>2. CASE Transmit
    <2>1. UNCHANGED <<connected, crdt, receiver>>
          /\ wire' = [wire EXCEPT !.resource = Append(wire.resource, Head(buffer))]
      BY <1>2 DEF Transmit
    <2>2. wire'.crdt = wire.crdt /\ wire' = [resource |-> wire'.resource, crdt |-> wire'.crdt]
      BY <2>1 DEF ChannelInv, ChannelTyped
    <2>3. QED
      BY <2>1, <2>2 DEF ChannelInv, ChannelTyped
  <1>3. CASE ReceiveResource
    <2>1. PICK parts, out : receiver' = [receiver EXCEPT !.parts = parts, !.got = out]
      BY <1>3 DEF ReceiveResource
    <2>2. UNCHANGED <<connected, crdt>> /\ wire' = [wire EXCEPT !.resource = Tail(wire.resource)]
      BY <1>3 DEF ReceiveResource
    <2>3. wire'.crdt = wire.crdt /\ wire' = [resource |-> wire'.resource, crdt |-> wire'.crdt]
      BY <2>2 DEF ChannelInv, ChannelTyped
    <2>4. /\ receiver' = [alive |-> receiver'.alive, parts |-> receiver'.parts, got |-> receiver'.got]
          /\ receiver'.alive = receiver.alive
      BY <2>1 DEF ChannelInv, ChannelTyped
    <2>5. QED
      BY <2>2, <2>3, <2>4 DEF ChannelInv, ChannelTyped
  <1>4. QED
    BY <1>1, <1>2, <1>3

(* Every step keeps the invariant, and looks like a step of the queue.        *)
QueueStep == CrdtPackets!Next \/ UNCHANGED CrdtPackets!queueVars

(* The packets that the queue counts; for a step of the queue it is enough    *)
(* that none is missing.                                                     *)
LEMMA NoneMissing ==
  ASSUME ChannelInv'
  PROVE  CrdtPackets!NothingElseIsLost
  <1>1. ASSUME connected', receiver'.alive
        PROVE  crdt'.sent - Len(OnTheirWay') - Len(crdt'.got) <= 0
    <2>1. /\ crdt'.sent = Len(crdt'.got) + Len(crdt'.pending) + Len(wire'.crdt)
          /\ crdt'.pending \in Seq(Nat) /\ wire'.crdt \in Seq(Nat) /\ crdt'.got \in Seq(Nat)
      BY <1>1 DEF ChannelInv, ChannelTyped
    <2>2. OnTheirWay' = crdt'.pending \o wire'.crdt
      BY <1>1 DEF OnTheirWay
    <2>3. Len(OnTheirWay') = Len(crdt'.pending) + Len(wire'.crdt)
      BY <2>1, <2>2, ConcatProperties
    <2>4. Len(crdt'.got) \in Nat /\ Len(crdt'.pending) \in Nat /\ Len(wire'.crdt) \in Nat
      BY <2>1, LenProperties
    <2>5. \A a, b, c \in Nat : \A n, m : n = a + b + c /\ m = b + c => n - m - a <= 0
      OBVIOUS
    <2>6. QED
      BY <2>1, <2>3, <2>4, <2>5, ZenonT(30)
  <1>2. CrdtPackets!NothingElseIsLost
        <=> (connected' /\ receiver'.alive => crdt'.sent - Len(OnTheirWay') - Len(crdt'.got) <= 0 * 0)
    BY DEF CrdtPackets!NothingElseIsLost, OnTheirWay
  <1>3. QED
    BY <1>1, <1>2

Usable == connected /\ receiver.alive

LEMMA QueueStutters ==
  ASSUME UNCHANGED <<crdt.sent, OnTheirWay, crdt.got, Usable>>
  PROVE  QueueStep
  <1>1. UNCHANGED CrdtPackets!queueVars
    BY DEF CrdtPackets!queueVars, OnTheirWay, Usable
  <1>2. QED
    BY <1>1 DEF QueueStep

LEMMA QueueSends ==
  ASSUME ChannelInv', crdt'.sent = crdt.sent + 1,
         OnTheirWay' = IF Usable THEN Append(OnTheirWay, crdt'.sent) ELSE OnTheirWay,
         UNCHANGED <<crdt.got, Usable>>
  PROVE  QueueStep
  <1>1. CrdtPackets!Send
    BY DEF CrdtPackets!Send, OnTheirWay, Usable
  <1>2. 0 \in 0..0
    OBVIOUS
  <1>3. CrdtPackets!Next
    BY <1>1, <1>2, NoneMissing DEF CrdtPackets!Next
  <1>4. QED
    BY <1>3 DEF QueueStep

LEMMA QueueDelivers ==
  ASSUME ChannelInv', NEW n \in 1..Len(OnTheirWay),
         crdt'.got = crdt.got \o SubSeq(OnTheirWay, 1, n),
         OnTheirWay' = SubSeq(OnTheirWay, n + 1, Len(OnTheirWay)),
         UNCHANGED <<crdt.sent, Usable>>
  PROVE  QueueStep
  <1>1. CrdtPackets!Deliver
    BY DEF CrdtPackets!Deliver, OnTheirWay, Usable
  <1>2. 0 \in 0..0
    OBVIOUS
  <1>3. CrdtPackets!Next
    BY <1>1, <1>2, NoneMissing DEF CrdtPackets!Next
  <1>4. QED
    BY <1>3 DEF QueueStep

LEMMA QueueBreaks ==
  ASSUME ChannelInv', ~Usable', IsPrefix(OnTheirWay', OnTheirWay),
         UNCHANGED <<crdt.sent, crdt.got>>
  PROVE  QueueStep
  <1>1. CrdtPackets!Break
    <2>1. (connected /\ receiver.alive)' = FALSE
      BY DEF Usable
    <2>2. UNCHANGED <<crdt.sent, crdt.got, 0>>
      OBVIOUS
    <2>3. QED
      BY <2>1, <2>2 DEF CrdtPackets!Break, CrdtPackets!IsPrefix, IsPrefix, OnTheirWay
  <1>2. 0 \in 0..0
    OBVIOUS
  <1>3. CrdtPackets!Next
    BY <1>1, <1>2, NoneMissing DEF CrdtPackets!Next
  <1>4. QED
    BY <1>3 DEF QueueStep

LEMMA OneMore ==
  ASSUME NEW sent \in Nat, NEW g \in Nat, NEW p \in Nat, NEW w \in Nat, sent = g + p + w
  PROVE  /\ sent + 1 = g + p + (w + 1)
         /\ \A v \in Nat : w = v + 1 => sent = g + 1 + p + v /\ sent = g + (p + 1) + v
  OBVIOUS

LEMMA ChannelStep ==
  ASSUME ChannelInv, ChannelNext
  PROVE  ChannelInv' /\ QueueStep
  <1> DEFINE pending == crdt.pending
             flying == wire.crdt
             C == [sent: Nat, pending: Seq(Nat), listened: BOOLEAN, got: Seq(Nat)]
             P == OnTheirWay
  <1>1. /\ crdt \in C /\ crdt.sent \in Nat /\ crdt.got \in Seq(Nat) /\ pending \in Seq(Nat)
        /\ flying \in Seq(Nat) /\ connected \in BOOLEAN /\ receiver.alive \in BOOLEAN
        /\ wire = [resource |-> wire.resource, crdt |-> wire.crdt]
        /\ <<>> \in Seq(Nat) /\ Len(<<>>) = 0
    BY EmptySeq DEF ChannelInv, ChannelTyped
  <1>2. /\ Len(pending) \in Nat /\ Len(flying) \in Nat /\ Len(crdt.got) \in Nat
        /\ pending \o flying \in Seq(Nat) /\ Len(pending \o flying) = Len(pending) + Len(flying)
    BY <1>1, ConcatProperties, LenProperties
  <1>2a. ASSUME connected, receiver.alive
         PROVE  /\ crdt.sent + 1 = Len(crdt.got) + Len(pending) + (Len(flying) + 1)
                /\ \A v \in Nat : Len(flying) = v + 1 => /\ crdt.sent = Len(crdt.got) + 1 + Len(pending) + v
                                                        /\ crdt.sent = Len(crdt.got) + (Len(pending) + 1) + v
    <2> DEFINE g == Len(crdt.got)
               p == Len(pending)
               w == Len(flying)
               n == crdt.sent
    <2>1. g \in Nat /\ p \in Nat /\ w \in Nat /\ n \in Nat
      BY <1>1, <1>2
    <2>2. n = g + p + w
      BY <1>2a DEF ChannelInv
    <2> HIDE DEF g, p, w, n
    <2>3. /\ n + 1 = g + p + (w + 1)
          /\ \A v \in Nat : w = v + 1 => n = g + 1 + p + v /\ n = g + (p + 1) + v
      BY <2>1, <2>2, OneMore
    <2>4. QED
      BY <2>3 DEF g, p, w, n
  <1>3. CASE SendResource \/ PutFrame \/ RefuseFrame \/ Transmit \/ ReceiveResource
    <2>1. /\ ChannelTyped' /\ UNCHANGED <<connected, crdt>>
          /\ wire'.crdt = wire.crdt /\ receiver'.alive = receiver.alive
      BY <1>3, ResourceStepsLeavePackets
    <2>2. ChannelInv'
      BY <2>1 DEF ChannelInv
    <2>3. UNCHANGED <<crdt.sent, OnTheirWay, crdt.got, Usable>>
      BY <2>1 DEF OnTheirWay, Usable
    <2>4. QED
      BY <2>2, <2>3, QueueStutters
  <1>4. CASE SendPacket
    <2>1. /\ connected /\ UNCHANGED <<connected, receiver>>
          /\ crdt' = [crdt EXCEPT !.sent = crdt.sent + 1]
          /\ wire' = [wire EXCEPT !.crdt = Append(flying, crdt.sent + 1)]
      BY <1>4 DEF SendPacket
    <2>0. crdt.sent + 1 \in Nat
      BY <1>1
    <2>2. /\ crdt' \in C /\ crdt'.sent = crdt.sent + 1 /\ crdt'.pending = pending
          /\ crdt'.got = crdt.got /\ crdt'.listened = crdt.listened
      BY <1>1, <2>0, <2>1
    <2>3. /\ wire' = [resource |-> wire'.resource, crdt |-> wire'.crdt]
          /\ wire'.crdt = Append(flying, crdt.sent + 1)
      BY <1>1, <2>1
    <2>4. crdt.sent + 1 \in Nat
      BY <1>1
    <2>5. Append(flying, crdt.sent + 1) \in Seq(Nat) /\ Len(Append(flying, crdt.sent + 1)) = Len(flying) + 1
      BY <1>1, <2>4, AppendProperties
    <2>6. ChannelTyped'
      BY <2>1, <2>2, <2>3, <2>5 DEF ChannelInv, ChannelTyped
    <2>7. ChannelInv'
      <3>2. connected' /\ receiver'.alive => crdt'.sent = Len(crdt'.got) + Len(crdt'.pending) + Len(wire'.crdt)
        <4>1. /\ connected' = connected /\ receiver' = receiver /\ crdt'.sent = crdt.sent + 1
              /\ Len(crdt'.got) = Len(crdt.got) /\ Len(crdt'.pending) = Len(pending)
              /\ Len(wire'.crdt) = Len(flying) + 1
          BY <2>1, <2>2, <2>3, <2>5
        <4>2. SUFFICES ASSUME connected', receiver'.alive
                       PROVE  crdt'.sent = Len(crdt'.got) + Len(crdt'.pending) + Len(wire'.crdt)
          OBVIOUS
        <4>3. QED
          BY <1>2a, <4>1, <4>2, ZenonT(20)
      <3>3. crdt'.listened => crdt'.pending = <<>>
        BY <2>2 DEF ChannelInv
      <3>4. QED
        BY <2>6, <3>2, <3>3 DEF ChannelInv
    <2>8. pending \o Append(flying, crdt.sent + 1) = Append(pending \o flying, crdt.sent + 1)
      BY <1>1, <2>4, LastJoins
    <2>9. P' = IF Usable THEN Append(P, crdt'.sent) ELSE P
      BY <2>1, <2>2, <2>3, <2>8 DEF OnTheirWay, Usable
    <2>10. UNCHANGED <<crdt.got, Usable>>
      BY <2>1, <2>2 DEF Usable
    <2>11. QED
      BY <2>2, <2>7, <2>9, <2>10, QueueSends
  <1>5. CASE ReceivePacket
    <2> DEFINE e == Head(flying)
    <2>1. /\ receiver.alive /\ flying # <<>> /\ UNCHANGED <<connected, receiver>>
          /\ crdt' = IF crdt.listened THEN [crdt EXCEPT !.got = Append(crdt.got, e)]
                                      ELSE [crdt EXCEPT !.pending = Append(pending, e)]
          /\ wire' = [wire EXCEPT !.crdt = Tail(flying)]
      BY <1>5 DEF ReceivePacket
    <2>0. ASSUME NEW s \in Seq(Nat)
          PROVE  Append(s, e) = s \o <<e>> /\ Append(s, e) \o Tail(flying) = s \o flying
      <3>1. flying \in Seq(Nat) /\ flying # <<>> /\ s \in Seq(Nat)
        BY <1>1, <2>1
      <3> HIDE DEF flying
      <3>2. QED
        BY <3>1, FirstMoves
    <2>2. /\ e \in Nat /\ Tail(flying) \in Seq(Nat) /\ Len(flying) = Len(Tail(flying)) + 1 /\ Len(flying) >= 1
          /\ SubSeq(flying, 1, 1) = <<e>> /\ SubSeq(flying, 2, Len(flying)) = Tail(flying)
          /\ Append(crdt.got, e) = crdt.got \o <<e>>
          /\ Append(pending, e) \o Tail(flying) = pending \o flying
      <3>1. /\ e \in Nat /\ Tail(flying) \in Seq(Nat) /\ Len(flying) = Len(Tail(flying)) + 1 /\ Len(flying) >= 1
            /\ SubSeq(flying, 1, 1) = <<e>> /\ SubSeq(flying, 2, Len(flying)) = Tail(flying)
        <4>1. flying \in Seq(Nat) /\ flying # <<>>
          BY <1>1, <2>1
        <4> HIDE DEF flying
        <4>2. QED
          BY <4>1, FirstMoves
      <3>2. QED
        BY <1>1, <2>0, <3>1
    <2>3. /\ Append(crdt.got, e) \in Seq(Nat) /\ Len(Append(crdt.got, e)) = Len(crdt.got) + 1
          /\ Append(pending, e) \in Seq(Nat) /\ Len(Append(pending, e)) = Len(pending) + 1
      BY <1>1, <2>2, AppendProperties
    <2>4. /\ wire' = [resource |-> wire'.resource, crdt |-> wire'.crdt] /\ wire'.crdt = Tail(flying)
      BY <1>1, <2>1
    <2>5. Len(Tail(flying)) \in Nat
      BY <2>2, LenProperties
    <2> HIDE DEF e
    <2>6. CASE crdt.listened
      <3>1. /\ crdt' \in C /\ crdt'.sent = crdt.sent /\ crdt'.pending = pending
            /\ crdt'.got = Append(crdt.got, e) /\ crdt'.listened
        BY <1>1, <2>1, <2>3, <2>6
      <3>2. pending = <<>>
        BY <2>6 DEF ChannelInv
      <3>3. ChannelTyped'
        BY <2>1, <2>2, <2>4, <3>1 DEF ChannelInv, ChannelTyped
      <3>5. connected' /\ receiver'.alive => crdt'.sent = Len(crdt'.got) + Len(crdt'.pending) + Len(wire'.crdt)
        <4>1. /\ connected' = connected /\ receiver' = receiver /\ crdt'.sent = crdt.sent
              /\ Len(crdt'.got) = Len(crdt.got) + 1 /\ Len(crdt'.pending) = Len(pending)
              /\ Len(wire'.crdt) = Len(Tail(flying)) /\ Len(flying) = Len(Tail(flying)) + 1
          BY <2>1, <2>2, <2>3, <2>4, <3>1
        <4>2. SUFFICES ASSUME connected', receiver'.alive
                       PROVE  crdt'.sent = Len(crdt'.got) + Len(crdt'.pending) + Len(wire'.crdt)
          OBVIOUS
        <4>3. QED
          BY <1>2a, <2>5, <4>1, <4>2, ZenonT(20)
      <3>6. ChannelInv'
        BY <3>1, <3>2, <3>3, <3>5 DEF ChannelInv
      <3>7. P = flying /\ P' = Tail(flying)
        <4>1. <<>> \o flying = flying /\ <<>> \o Tail(flying) = Tail(flying)
          BY <1>1, <2>2, ConcatEmptySeq
        <4>2. QED
          BY <2>1, <2>4, <3>1, <3>2, <4>1 DEF OnTheirWay
      <3>8. /\ 1 \in 1..Len(P) /\ crdt'.got = crdt.got \o SubSeq(P, 1, 1)
            /\ P' = SubSeq(P, 1 + 1, Len(P))
        <4>1. 1 \in 1..Len(flying)
          BY <1>2, <2>2
        <4>2. 1 + 1 = 2
          OBVIOUS
        <4>3. QED
          BY <2>2, <3>1, <3>7, <4>1, <4>2
      <3>9. UNCHANGED <<crdt.sent, Usable>>
        BY <2>1, <3>1 DEF Usable
      <3>10. QED
        BY <3>6, <3>8, <3>9, QueueDelivers
    <2>7. CASE ~crdt.listened
      <3>1. /\ crdt' \in C /\ crdt'.sent = crdt.sent /\ crdt'.pending = Append(pending, e)
            /\ crdt'.got = crdt.got /\ ~crdt'.listened
        BY <1>1, <2>1, <2>3, <2>7
      <3>2. ChannelTyped'
        BY <2>1, <2>2, <2>4, <3>1 DEF ChannelInv, ChannelTyped
      <3>4. connected' /\ receiver'.alive => crdt'.sent = Len(crdt'.got) + Len(crdt'.pending) + Len(wire'.crdt)
        <4>1. /\ connected' = connected /\ receiver' = receiver /\ crdt'.sent = crdt.sent
              /\ Len(crdt'.got) = Len(crdt.got) /\ Len(crdt'.pending) = Len(pending) + 1
              /\ Len(wire'.crdt) = Len(Tail(flying)) /\ Len(flying) = Len(Tail(flying)) + 1
          BY <2>1, <2>2, <2>3, <2>4, <3>1
        <4>2. SUFFICES ASSUME connected', receiver'.alive
                       PROVE  crdt'.sent = Len(crdt'.got) + Len(crdt'.pending) + Len(wire'.crdt)
          OBVIOUS
        <4>3. QED
          BY <1>2a, <2>5, <4>1, <4>2, ZenonT(20)
      <3>5. ChannelInv'
        BY <3>1, <3>2, <3>4 DEF ChannelInv
      <3>6. UNCHANGED <<crdt.sent, OnTheirWay, crdt.got, Usable>>
        BY <2>1, <2>2, <2>4, <3>1 DEF OnTheirWay, Usable
      <3>7. QED
        BY <3>5, <3>6, QueueStutters
    <2>8. QED
      BY <2>6, <2>7
  <1>6. CASE Listen
    <2>1. /\ receiver.alive /\ ~crdt.listened /\ UNCHANGED <<connected, receiver, wire>>
          /\ crdt' = [crdt EXCEPT !.listened = TRUE, !.got = crdt.got \o pending, !.pending = <<>>]
      BY <1>6 DEF Listen
    <2>2. crdt.got \o pending \in Seq(Nat) /\ Len(crdt.got \o pending) = Len(crdt.got) + Len(pending)
      BY <1>1, ConcatProperties
    <2>3. /\ crdt' \in C /\ crdt'.sent = crdt.sent /\ crdt'.pending = <<>>
          /\ crdt'.got = crdt.got \o pending
      BY <1>1, <2>1, <2>2
    <2>4. ChannelTyped'
      BY <2>1, <2>3 DEF ChannelInv, ChannelTyped
    <2>5. connected /\ receiver.alive => crdt.sent = Len(crdt.got) + Len(pending) + Len(flying)
      BY DEF ChannelInv
    <2>6. connected' /\ receiver'.alive => crdt'.sent = Len(crdt'.got) + Len(crdt'.pending) + Len(wire'.crdt)
      BY <1>1, <1>2, <2>1, <2>2, <2>3, <2>5
    <2>7. ChannelInv'
      BY <2>3, <2>4, <2>6 DEF ChannelInv
    <2>8. P = pending \o flying /\ P' = flying
      <3>1. <<>> \o flying = flying
        BY <1>1, ConcatEmptySeq
      <3>2. QED
        BY <2>1, <2>3, <3>1 DEF OnTheirWay
    <2>9. UNCHANGED <<crdt.sent, Usable>>
      BY <2>1, <2>3 DEF Usable
    <2>10. CASE pending = <<>>
      <3>1. P = flying /\ crdt'.got = crdt.got
        BY <1>1, <2>3, <2>8, <2>10, ConcatEmptySeq
      <3>2. UNCHANGED <<crdt.sent, OnTheirWay, crdt.got, Usable>>
        BY <2>8, <2>9, <3>1
      <3>3. QED
        BY <2>7, <3>2, QueueStutters
    <2>11. CASE pending # <<>>
      <3> DEFINE n == Len(pending)
      <3>1. n \in 1..Len(P)
        <4>1. n >= 1
          BY <1>1, <1>2, <2>11, EmptySeq
        <4>2. Len(P) = n + Len(flying)
          BY <1>2, <2>8
        <4>3. QED
          <5>1. \A a, b \in Nat : a >= 1 => a \in 1..(a + b)
            OBVIOUS
          <5>2. QED
            BY <1>2, <4>1, <4>2, <5>1, ZenonT(20)
      <3>2. SubSeq(P, 1, n) = pending
        BY <1>1, <1>2, <2>8, <3>1
      <3>3. SubSeq(P, n + 1, Len(P)) = flying
        BY <1>1, <1>2, <2>8, <3>1
      <3> HIDE DEF n
      <3>4. QED
        BY <2>3, <2>7, <2>8, <2>9, <3>1, <3>2, <3>3, QueueDelivers
    <2>12. QED
      BY <2>10, <2>11
  <1>7. CASE Unlisten
    <2>1. /\ UNCHANGED <<connected, receiver, wire>>
          /\ crdt' = [crdt EXCEPT !.listened = FALSE]
      BY <1>7 DEF Unlisten
    <2>2. /\ crdt' \in C /\ crdt'.sent = crdt.sent /\ crdt'.pending = pending
          /\ crdt'.got = crdt.got /\ ~crdt'.listened
      BY <1>1, <2>1
    <2>3. ChannelInv'
      BY <2>1, <2>2 DEF ChannelInv, ChannelTyped
    <2>4. UNCHANGED <<crdt.sent, OnTheirWay, crdt.got, Usable>>
      BY <2>1, <2>2 DEF OnTheirWay, Usable
    <2>5. QED
      BY <2>3, <2>4, QueueStutters
  <1>8. CASE ReceiverLeaves
    <2>1. /\ UNCHANGED <<connected, wire>>
          /\ receiver' = [receiver EXCEPT !.alive = FALSE]
          /\ crdt' = [crdt EXCEPT !.listened = FALSE, !.pending = <<>>]
      BY <1>8 DEF ReceiverLeaves
    <2>2. /\ crdt' \in C /\ crdt'.sent = crdt.sent /\ crdt'.pending = <<>>
          /\ crdt'.got = crdt.got /\ ~crdt'.listened
      BY <1>1, <2>1
    <2>3. /\ receiver' = [alive |-> receiver'.alive, parts |-> receiver'.parts, got |-> receiver'.got]
          /\ receiver'.alive = FALSE
      BY <2>1 DEF ChannelInv, ChannelTyped
    <2>4. ChannelInv'
      BY <2>1, <2>2, <2>3 DEF ChannelInv, ChannelTyped
    <2>5. P' = <<>> /\ ~Usable'
      BY <2>3 DEF OnTheirWay, Usable
    <2>6. P \in Seq(Nat)
      BY <1>1, <1>2 DEF OnTheirWay
    <2>7. IsPrefix(<<>>, P)
      <3>1. SubSeq(<<>>, 1, 0) = <<>> /\ SubSeq(P, 1, 0) = <<>> /\ Len(P) \in Nat
        BY <2>6, SubSeqEmpty, LenProperties
      <3>2. QED
        BY <1>1, <3>1 DEF IsPrefix
    <2>8. QED
      BY <2>2, <2>4, <2>5, <2>7, QueueBreaks
  <1>9. CASE SenderCloses
    <2>1. PICK n \in 0..Len(wire.resource), k \in 0..Len(flying) :
            wire' = [resource |-> SubSeq(wire.resource, 1, n), crdt |-> SubSeq(flying, 1, k)]
      BY <1>9 DEF SenderCloses
    <2>2. connected' = FALSE /\ UNCHANGED <<receiver, crdt>>
      BY <1>9 DEF SenderCloses
    <2>3. SubSeq(flying, 1, k) \in Seq(Nat)
      BY <1>1, CutsAreSequences
    <2>4. /\ wire' = [resource |-> wire'.resource, crdt |-> wire'.crdt] /\ wire'.crdt = SubSeq(flying, 1, k)
      BY <2>1
    <2>5. ChannelInv'
      BY <2>2, <2>3, <2>4 DEF ChannelInv, ChannelTyped
    <2>6. ~Usable'
      BY <2>2 DEF Usable
    <2>7. IsPrefix(P', P)
      <3>1. CASE receiver.alive
        <4>1. P = pending \o flying /\ P' = pending \o SubSeq(flying, 1, k)
          BY <2>2, <2>4, <3>1 DEF OnTheirWay
        <4>2. QED
          BY <1>1, <4>1, CutIsPrefix
      <3>2. CASE ~receiver.alive
        <4>1. P = <<>> /\ P' = <<>>
          BY <2>2, <3>2 DEF OnTheirWay
        <4>2. QED
          BY <1>1, <4>1 DEF IsPrefix
      <3>3. QED
        BY <3>1, <3>2
    <2>8. QED
      BY <2>2, <2>5, <2>6, <2>7, QueueBreaks
  <1>10. QED
    BY <1>3, <1>4, <1>5, <1>6, <1>7, <1>8, <1>9 DEF ChannelNext

(* The safety part of CrdtPackets!Spec (ChannelsDeliver): packets come out    *)
(* once, in the order in which they were sent, and none is lost before the   *)
(* connection breaks, whenever the page listens (createCrdtDcTransport).     *)
THEOREM PacketsAreAQueue ==
  PeerWorkspaceSpec => CrdtPackets!Init /\ [][CrdtPackets!Next]_(CrdtPackets!queueVars)
  <1>1. ChannelInit => CrdtPackets!Init
    <2> SUFFICES ASSUME ChannelInit PROVE CrdtPackets!Init
      OBVIOUS
    <2>1. <<>> \o <<>> = <<>>
      BY EmptySeq, ConcatEmptySeq
    <2>2. QED
      BY <2>1 DEF ChannelInit, CrdtPackets!Init
  <1>2. PeerWorkspaceInit => ChannelInv /\ CrdtPackets!Init
    BY <1>1, ChannelInvInit DEF PeerWorkspaceInit
  <1>3. ChannelInv /\ [PeerWorkspaceNext]_peerWorkspaceVars
          => ChannelInv' /\ [CrdtPackets!Next]_(CrdtPackets!queueVars)
    <2> SUFFICES ASSUME ChannelInv, [PeerWorkspaceNext]_peerWorkspaceVars
                 PROVE  ChannelInv' /\ QueueStep
      BY DEF QueueStep
    <2>1. CASE ChannelNext
      BY <2>1, ChannelStep
    <2>2. CASE UNCHANGED channelVars
      <3>1. UNCHANGED <<connected, wire, receiver, crdt>>
        BY <2>2 DEF channelVars
      <3>2. ChannelInv'
        BY <3>1 DEF ChannelInv, ChannelTyped
      <3>3. UNCHANGED <<crdt.sent, OnTheirWay, crdt.got, Usable>>
        BY <3>1 DEF OnTheirWay, Usable
      <3>4. QED
        BY <3>2, <3>3, QueueStutters
    <2>3. QED
      BY <2>1, <2>2 DEF PeerWorkspaceNext, peerWorkspaceVars
  <1>4. QED
    BY <1>2, <1>3, PTL DEF PeerWorkspaceSpec
=============================================================================
