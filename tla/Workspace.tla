------------------------------- MODULE Workspace -------------------------------
(***************************************************************************)
(* The stored workspaces of one browser: the local identity and the open    *)
(* policy of src/video-editor/dkt/storage/minicutWorkspaceManifest.ts, the  *)
(* boot of a room's SharedWorker in dkt/runtime/createMiniCutDktRuntime.ts, *)
(* and the order in which runtime/workerModelRuntime.ts replays the stored  *)
(* log to a peer.                                                           *)
(*                                                                         *)
(* Every room has a worker and a database of its own; the identity is in a  *)
(* database that all workers share.  A worker may stop at any moment: what  *)
(* it has not committed is lost.  The store is external: inspecting it,     *)
(* adopting a store of the first version, and commits that are atomic.      *)
(* What a batch writes is left out, but for the nodes it creates and uses.  *)
(***************************************************************************)
EXTENDS Naturals, FiniteSets, SequencesExt

CONSTANTS
  Rooms,
  Nobody,      \* null value
  Batches,     \* the batches that the user may author in each room,
  Creates,     \* the nodes each creates and
  Uses,        \* those its operations refer to
  Found,       \* the manifests of the stores that a worker may find at first
  Identities   \* bound on the identities ever created

ASSUME WorkspaceAssumption ==
  /\ DOMAIN Batches = Rooms
  /\ \A r \in Rooms : \A b \in Batches[r] : Creates[b] \subseteq Nat /\ Uses[b] \subseteq Nat
  /\ Found \subseteq {"none", "legacy", "newer", "other"} \cup Rooms
  /\ Identities \in Nat /\ Nobody \notin Nat

VARIABLES
  identity,  \* the stored identity, a number
  minted,    \* how many identities have been created
  raced,     \* has an identity been written over another?
  store,     \* of each room: its manifest, its batches, and who has written
  worker,    \* of each room: where its boot is, its identity and its manifest
  replayed   \* the log that each worker has sent to a peer last

workspaceVars == <<identity, minted, raced, store, worker, replayed>>

Stopped == [phase |-> "stopped", me |-> Nobody, staged |-> FALSE]

WorkspaceInit ==
  /\ identity = Nobody /\ minted = 0 /\ raced = FALSE
  /\ \E manifest \in [Rooms -> Found] :
       store = [r \in Rooms |-> [manifest |-> manifest[r], log |-> {}, authors |-> {}]]
  /\ worker = [r \in Rooms |-> Stopped]
  /\ replayed = [r \in Rooms |-> <<>>]

InPhase(r, phase) == worker[r].phase = phase
Moves(r, phase) == worker' = [worker EXCEPT ![r].phase = phase]

-------------------------------------------------------------------------------
(* The boot of a worker. *)

(* The first BOOTSTRAP of the room reaches the worker. *)
Boot(r) ==
  /\ InPhase(r, "stopped")
  /\ Moves(r, "reading")
  /\ UNCHANGED <<identity, minted, raced, store, replayed>>

(* getOrCreateMiniCutLocalPeerIdentity: the first transaction reads, *)
ReadIdentity(r) ==
  /\ InPhase(r, "reading")
  /\ \/ /\ identity # Nobody
        /\ worker' = [worker EXCEPT ![r] = [@ EXCEPT !.phase = "opening", !.me = identity]]
        /\ UNCHANGED minted
     \/ /\ identity = Nobody /\ minted < Identities
        /\ minted' = minted + 1
        /\ worker' = [worker EXCEPT ![r] = [@ EXCEPT !.phase = "writing", !.me = minted']]
  /\ UNCHANGED <<identity, raced, store, replayed>>

(* Mutant of WriteIdentity: the second transaction is forgotten. *)
WriteIdentityNowhere(r) ==
  /\ InPhase(r, "writing")
  /\ Moves(r, "opening")
  /\ UNCHANGED <<identity, minted, raced, store, replayed>>

(* and the second writes, whatever has been written since. *)
WriteIdentity(r) ==
  /\ InPhase(r, "writing")
  /\ identity' = worker[r].me
  /\ raced' = (raced \/ identity # Nobody)
  /\ Moves(r, "opening")
  /\ UNCHANGED <<minted, store, replayed>>

(* inspectDktStorageForOpen: a store with a schema and no manifest is legacy. *)
Inspected(s) ==
  CASE s.manifest \in Rooms \cup {"adopted"} -> "ready"
    [] s.manifest = "none" -> IF s.log = {} THEN "empty" ELSE "legacy"
    [] OTHER -> s.manifest

(* Mutant of IsForeign: the workspace of the manifest is not compared. *)
IsForeignNever(s, r) == FALSE

(* A manifest of another workspace; an adopted one names none. *)
IsForeign(s, r) == s.manifest \notin {r, "adopted"}

(* openMiniCutWorkspaceStorage, and the manifest staged for an empty store. *)
OpenStore(r) ==
  /\ InPhase(r, "opening")
  /\ \/ /\ Inspected(store[r]) = "empty"
        /\ worker' = [worker EXCEPT ![r] = [@ EXCEPT !.phase = "open", !.staged = TRUE]]
     \/ /\ Inspected(store[r]) = "ready" /\ ~IsForeign(store[r], r)
        /\ Moves(r, "open")
     \/ /\ Inspected(store[r]) = "legacy"
        /\ Moves(r, "adopting")
     \/ /\ \/ Inspected(store[r]) \in {"newer", "other"}
           \/ Inspected(store[r]) = "ready" /\ IsForeign(store[r], r)
        /\ Moves(r, "failed")
  /\ UNCHANGED <<identity, minted, raced, store, replayed>>

AdoptStore(r) ==
  /\ InPhase(r, "adopting")
  /\ store' = [store EXCEPT ![r].manifest = "adopted"]
  /\ Moves(r, "open")
  /\ UNCHANGED <<identity, minted, raced, replayed>>

(* The storage fails while it is opened: the worker stays failed. *)
OpenFails(r) ==
  /\ worker[r].phase \in {"reading", "writing", "opening", "adopting"}
  /\ Moves(r, "failed")
  /\ UNCHANGED <<identity, minted, raced, store, replayed>>

(* The last tab of the room closes, or the browser does. *)
Stop(r) ==
  /\ ~InPhase(r, "stopped")
  /\ worker' = [worker EXCEPT ![r] = Stopped]
  /\ replayed' = [replayed EXCEPT ![r] = <<>>]
  /\ UNCHANGED <<identity, minted, raced, store>>

-------------------------------------------------------------------------------
(* The log. *)

Created(log) == UNION {Creates[b] : b \in log}

(* createMiniCutRoomPeerId *)
PeerId(r) == <<worker[r].me, r>>

(* A batch is stored, with the manifest if one is staged. *)
CommitBatch(r, b) ==
  /\ InPhase(r, "open")
  /\ b \notin store[r].log /\ Uses[b] \subseteq Created(store[r].log)
  /\ store' = [store EXCEPT ![r] =
                 [manifest |-> IF worker[r].staged THEN r ELSE @.manifest,
                  log |-> @.log \cup {b}, authors |-> @.authors \cup {PeerId(r)}]]
  /\ worker' = [worker EXCEPT ![r].staged = FALSE]
  /\ UNCHANGED <<identity, minted, raced, replayed>>

(* creatorByNodeId: the first batch that creates the node. *)
Creators(log, n) == {i \in DOMAIN log : n \in Creates[log[i]]}
CreatorOf(log, n) == CHOOSE i \in Creators(log, n) : \A j \in Creators(log, n) : i <= j

(* Mutant of BatchDeps: a creator that comes later in the log is not looked for. *)
BatchDepsBefore(log, i) ==
  SetToSeq({CreatorOf(log, n) : n \in {m \in Uses[log[i]] : Creators(log, m) # {}}} \cap 1..(i - 1))

(* batchDeps, in some order. *)
BatchDeps(log, i) ==
  SetToSeq({CreatorOf(log, n) : n \in {m \in Uses[log[i]] : Creators(log, m) # {}}} \ {i})

(* visit: the batches are done in depth first order. *)
Visit(log) ==
  LET visit[at \in [visiting: SUBSET DOMAIN log, done: Seq(DOMAIN log)], i \in DOMAIN log] ==
        IF i \in at.visiting \cup ToSet(at.done) THEN at
        ELSE LET deps == BatchDeps(log, i)
                 visited[k \in 0..Len(deps)] ==
                   IF k = 0 THEN [at EXCEPT !.visiting = @ \cup {i}]
                   ELSE visit[visited[k - 1], deps[k]]
                 after == visited[Len(deps)]
             IN [visiting |-> after.visiting \ {i}, done |-> Append(after.done, i)]
  IN visit

(* orderCrdtReplayBatchesForDelivery *)
OrderReplayBatches(log) ==
  LET order[i \in 0..Len(log)] ==
        IF i = 0 THEN [visiting |-> {}, done |-> <<>>] ELSE Visit(log)[order[i - 1], i]
      done == order[Len(log)].done
  IN [k \in DOMAIN done |-> log[done[k]]]

(* replayDurableLog: getBatchesAfter answers in an order of its own. *)
ReplayLog(r) ==
  /\ InPhase(r, "open") /\ store[r].log # {}
  /\ \E log \in SetToSeqs(store[r].log) :
       replayed' = [replayed EXCEPT ![r] = OrderReplayBatches(log)]
  /\ UNCHANGED <<identity, minted, raced, store, worker>>

RoomStep(r) ==
  \/ Boot(r) \/ ReadIdentity(r) \/ WriteIdentity(r)
  \/ OpenStore(r) \/ AdoptStore(r) \/ OpenFails(r) \/ Stop(r)
  \/ \E b \in Batches[r] : CommitBatch(r, b)
  \/ ReplayLog(r)

WorkspaceNext == \E r \in Rooms : RoomStep(r)

-------------------------------------------------------------------------------
(***************************************************************************)
(* Whatever a worker has stored in a database is under the manifest of its  *)
(* room or of an adopted store, wherever the worker stopped: the next open  *)
(* finds it ready and adopts nothing of this version, and a store of a      *)
(* newer version or of another workspace is never written to               *)
(* (openMiniCutWorkspaceStorage, stageMiniCutWorkspaceManifest).            *)
(***************************************************************************)
StoresHoldTheirRoom ==
  \A r \in Rooms : store[r].log # {} => store[r].manifest \in {r, "adopted"}

(***************************************************************************)
(* The batches of a workspace that were authored here all have one author,  *)
(* over any number of restarts and failures, unless two workers created the *)
(* identity at the same time (getOrCreateMiniCutLocalPeerIdentity).         *)
(***************************************************************************)
AuthorsKeepTheirName ==
  raced \/ \A r \in Rooms : Cardinality(store[r].authors) <= 1

(***************************************************************************)
(* A replay holds every stored batch once, and a peer that applies it never *)
(* meets a node before the batch that creates it                            *)
(* (orderCrdtReplayBatchesForDelivery).                                     *)
(***************************************************************************)
RespectsCreation(log) ==
  \A i \in DOMAIN log :
    Uses[log[i]] \cap Created(ToSet(log)) \subseteq Created(ToSet(SubSeq(log, 1, i)))

CreatorsFirst ==
  [][\A r \in Rooms : replayed'[r] \notin {replayed[r], <<>>} =>
       /\ ToSet(replayed'[r]) = store[r].log /\ Len(replayed'[r]) = Cardinality(store[r].log)
       /\ RespectsCreation(replayed'[r])]_workspaceVars
=============================================================================
