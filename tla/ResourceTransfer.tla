--------------------------- MODULE ResourceTransfer ---------------------------
(***************************************************************************)
(* Media between the pages of a room:                                      *)
(* src/video-editor/media/resourceTransferManager.ts with the range planner *)
(* media/resourceTransferScheduler.ts, one manager per page, over the       *)
(* resource data channels of src/video-editor/p2p/PageP2PManager.ts.        *)
(*                                                                         *)
(* The page that imported a file owns the resource and serves its chunks.   *)
(* Clients ask the server; the server mirrors what it has and asks the      *)
(* owner.  Byte ranges are sets of chunk numbers, as every planned range is *)
(* aligned to chunks; the bytes of chunk i of resource r are <<r, i>>.      *)
(* Sizes are known multiples of the chunk size and resources are no images. *)
(* Roles do not change here, and no page calls destroy.  Object URLs, views *)
(* and the event log are left out.                                         *)
(***************************************************************************)
EXTENDS Naturals, SequencesExt

CONSTANTS
  Server, Clients,  \* the pages
  Nobody,           \* null value
  Scenes,           \* the rooms and projects considered, see below
  HeadChunks,       \* headBytes and
  TailChunks,       \* tailBytes, in chunks
  MaxErrorRetries,
  Ids,              \* bound on the request numbers in use at once
  Lingers           \* may a serve outlast the next connection of its peer?

Peers == Clients \cup {Server}
Neighbours(p) == IF p = Server THEN Clients ELSE {Server}

(***************************************************************************)
(* A scene: the clients that connect, the resources in their order in the   *)
(* project, who imports each and its number of chunks, those that may be    *)
(* deleted, the pages whose playhead moves or whose preview fails,          *)
(* maxCachedBytes in chunks, and how many channels may break.               *)
(***************************************************************************)
ASSUME TransferAssumption ==
  /\ Server \notin Clients /\ Nobody \notin Peers
  /\ HeadChunks \in Nat \ {0} /\ TailChunks \in Nat \ {0} /\ MaxErrorRetries \in Nat
  /\ Ids \in Nat \ {0} /\ Lingers \in BOOLEAN
  /\ \A s \in Scenes :
       /\ s.guests \subseteq Clients /\ s.seekers \subseteq Peers
       /\ s.owner \in [ToSet(s.imports) -> s.guests \cup {Server}]
       /\ s.size \in [ToSet(s.imports) -> Nat \ {0}]
       /\ s.deletable \subseteq ToSet(s.imports) /\ s.cap \in Nat /\ s.breaks \in Nat

VARIABLES
  scene,   \* never changes
  node,    \* the manager of each page, with the FIFOs of what it has sent
  linked,  \* the clients that have a resource channel to the server
  breaks   \* how many channels have broken

Resources == ToSet(scene.imports)
Owner == scene.owner
Size == scene.size
ChunksOf(r) == 0..(Size[r] - 1)

transferVars == <<scene, node, linked, breaks>>

NoBytes == <<>>
NoId == Ids  \* an error without requestId
NoMeta == [res |-> Nobody, chunk |-> 0, id |-> NoId]

(***************************************************************************)
(* RemoteResourceState: what is loaded is the domain of what is stored.     *)
(***************************************************************************)
NewState(r) ==
  [store |-> [i \in ChunksOf(r) |-> NoBytes], requested |-> {}, pending |-> {}, status |-> "missing",
   tail |-> FALSE, window |-> {}, retries |-> 0, retry |-> FALSE,
   recheck |-> FALSE, shown |-> <<>>]

Loaded(x) == {i \in DOMAIN x.store : x.store[i] # NoBytes}
Held(x) == IF Loaded(x) = {} THEN "missing" ELSE "partial"
Complete(x) == Loaded(x) = DOMAIN x.store

NoTransport == [gen |-> 0, live |-> FALSE, meta |-> NoMeta]

NewNode(p) ==
  [snapshots |-> {}, deleted |-> {}, local |-> {}, remote |-> {},
   res |-> [r \in Resources |-> NewState(r)],
   transport |-> [q \in Neighbours(p) |-> NoTransport],
   serves |-> [q \in Neighbours(p) |-> << <<>> >>],
   owed |-> [r \in Resources |-> <<>>], early |-> [r \in Resources |-> <<>>],
   touched |-> <<>>, out |-> [q \in Neighbours(p) |-> <<>>]]

Init == scene \in Scenes /\ node = [p \in Peers |-> NewNode(p)] /\ linked = {} /\ breaks = 0

(* The planned ranges of the scheduler. *)
HeadRange(r) == {i \in ChunksOf(r) : i < HeadChunks}
TailRange(r) == {i \in ChunksOf(r) : i >= Size[r] - TailChunks}
WindowRange(r, i) == {j \in ChunksOf(r) : j <= i + 1 /\ i <= j + 1}
SequentialRange(x) ==
  IF 0 \in Loaded(x) /\ ~Complete(x) THEN {Min(DOMAIN x.store \ Loaded(x))} ELSE {}

(* send of a raw transport: what is sent on a channel that is not open is lost. *)
Post(a, q, m) == IF a.transport[q].live THEN [a EXCEPT !.out[q] = Append(@, m)] ELSE a

Attached(a) == {q \in DOMAIN a.transport : a.transport[q].gen > 0}

(* getRequestPeerKey *)
RequestPeer(p, a, r) ==
  IF p # Server THEN Server
  ELSE IF Owner[r] \in Attached(a) THEN Owner[r]
  ELSE IF \E q \in Attached(a) : Attached(a) = {q} THEN CHOOSE q \in Attached(a) : TRUE
  ELSE Nobody

(* nextRequestId counts; here a number no longer in use for p and r is taken again. *)
NextRequestId(p, a, r) ==
  LET Of(q) == {m.id : m \in {m \in ToSet(a.out[q]) : m.type = "request" /\ m.res = r}}
        \cup {m.id : m \in {m \in ToSet(node[q].out[p]) : m.type \in {"complete", "error"} /\ m.res = r}}
        \cup {m.meta.id : m \in {m \in ToSet(node[q].out[p]) : m.type = "meta" /\ m.meta.res = r}}
        \cup {t.id : t \in {t \in UNION {ToSet(s) : s \in ToSet(node[q].serves[p])} : t.res = r}}
        \cup {o.request.id : o \in {o \in ToSet(node[q].owed[r]) : o.peer = p}}
  IN Min(0..(Ids - 1) \ (a.res[r].pending \cup UNION {Of(q) : q \in Neighbours(p)}))

RequestRanges(p, a, r, chunks) ==
  LET q == RequestPeer(p, a, r)
      x == a.res[r]
      missing == chunks \ (Loaded(x) \cup x.requested)
      id == NextRequestId(p, a, r)
  IN IF r \notin a.remote \/ q \notin Attached(a) \/ missing = {} THEN a
     ELSE Post([a EXCEPT !.res[r].requested = @ \cup missing,
                         !.res[r].pending = @ \cup {id}],
               q, [type |-> "request", res |-> r, id |-> id, chunks |-> missing])

(* planNextRequest: the first of head, tail, window and next chunk that lacks something. *)
PlanNextRequest(p, a, r) ==
  LET x == a.res[r]
      ranges == <<HeadRange(r), IF x.tail THEN TailRange(r) ELSE {}, x.window, SequentialRange(x)>>
      lacking == {k \in DOMAIN ranges : ~(ranges[k] \subseteq Loaded(x))}
  IN IF r \notin a.remote \/ lacking = {} THEN a
     ELSE RequestRanges(p, a, r, ranges[Min(lacking)] \ Loaded(x))

PlanAll(p, a) ==
  FoldLeft(LAMBDA b, r : PlanNextRequest(p, b, r), a,
           SelectSeq(scene.imports, LAMBDA r : r \in a.snapshots))

(***************************************************************************)
(* Status of a resource.  READY_CONFIRM_DELAY_MS has passed since the last  *)
(* chunk when `settled'.                                                   *)
(***************************************************************************)
Recompute(x, settled) ==
  LET done == Complete(x) /\ x.pending = {}
  IN [x EXCEPT !.status = IF done /\ settled THEN "ready" ELSE Held(x),
               !.recheck = done /\ ~settled]

ResetRequests(x) ==
  [x EXCEPT !.retry = FALSE, !.recheck = FALSE, !.requested = {}, !.pending = {}, !.retries = 0,
            !.status = IF @ = "ready" THEN @ ELSE Held(x)]

ResetRequestsFor(p, a, q) ==
  [a EXCEPT !.res = [r \in Resources |->
     IF r \in a.remote /\ RequestPeer(p, a, r) = q /\ @[r].status # "ready"
     THEN ResetRequests(@[r]) ELSE @[r]]]

Evict(x) ==
  [x EXCEPT !.retry = FALSE, !.recheck = FALSE, !.shown = <<>>, !.requested = {},
            !.store = [i \in DOMAIN @ |-> NoBytes], !.status = "missing"]

(* Chunks in the cache. *)
Cached(a) == FoldFunction(+, 0, [r \in a.remote |-> Cardinality(Loaded(a.res[r]))])

(* enforceCacheCap: the least recently touched go first, the exempt one never. *)
EnforceCacheCap(a, exempt) ==
  FoldLeft(LAMBDA b, r : IF Cached(b) > scene.cap /\ r \in b.remote \ {exempt}
                         THEN [b EXCEPT !.res[r] = Evict(@)] ELSE b,
           a, SelectSeq(a.touched, LAMBDA r : Loaded(a.res[r]) # {}))

(* rebuildPreviewUrls: nothing is rebuilt when the same ranges are shown already. *)
RebuildPreview(x) ==
  LET now == <<Loaded(x), x.window, x.tail>>
  IN IF x.shown = now THEN x
     ELSE [x EXCEPT !.shown = now, !.status = IF Complete(x) THEN "ready" ELSE Held(x)]

(* applyChunkMeta *)
ApplyChunk(p, a, meta, bytes) ==
  LET r == meta.res
      i == meta.chunk
      b == IF r \in a.remote THEN a
           ELSE [a EXCEPT !.remote = @ \cup {r}, !.res[r] = NewState(r)]
      x == b.res[r]
      y == [x EXCEPT !.store[i] = IF @ = NoBytes THEN bytes ELSE @, !.requested = @ \ {i}]
      z == [Recompute(y, FALSE) EXCEPT !.retry = FALSE, !.retries = 0]
  IN IF r \in a.deleted THEN a
     ELSE IF r \notin a.snapshots
     THEN [a EXCEPT !.early[r] = Append(@, [meta |-> meta, bytes |-> bytes])]
     ELSE PlanNextRequest(p,
            EnforceCacheCap([b EXCEPT !.res[r] = RebuildPreview(z),
                                      !.touched = Append(Remove(@, r), r)], r), r)

FlushEarly(p, a, r) ==
  FoldLeft(LAMBDA b, e : ApplyChunk(p, b, e.meta, e.bytes), [a EXCEPT !.early[r] = <<>>], a.early[r])

(***************************************************************************)
(* Serving.  serves[q] holds the chains of promises that serve q: first the *)
(* one in peerServeQueues, then those that a detach has abandoned.          *)
(***************************************************************************)
Task(r, m, gen) == [res |-> r, id |-> m.id, left |-> m.chunks, buffer |-> NoBytes,
                    missed |-> FALSE, gen |-> gen]

(* Mutant of Enqueue: a request does not wait for the one before it. *)
EnqueueApart(a, q, t) == [a EXCEPT !.serves[q] = Append(@, <<t>>)]

Enqueue(a, q, t) == [a EXCEPT !.serves[q][1] = Append(@, t)]

(* Mutant of HandleRequest: the owner that has not registered the file yet drops the request. *)
HandleRequestAtOnce(p, a, q, m) ==
  LET r == m.res
      task == Task(r, m, a.transport[q].gen)
  IN IF r \in a.local THEN Enqueue(a, q, task)
     ELSE IF r \notin a.remote THEN Post(a, q, [type |-> "error", res |-> r, id |-> NoId])
     ELSE IF Owner[r] = p THEN a
     ELSE IF p = Server THEN RequestRanges(p, Enqueue(a, q, task), r, m.chunks)
     ELSE Enqueue(a, q, task)

(* handleRequest *)
HandleRequest(p, a, q, m) ==
  LET r == m.res
      task == Task(r, m, a.transport[q].gen)
  IN IF r \in a.local THEN Enqueue(a, q, task)
     ELSE IF r \notin a.remote THEN Post(a, q, [type |-> "error", res |-> r, id |-> NoId])
     ELSE IF Owner[r] = p THEN [a EXCEPT !.owed[r] = Append(@, [peer |-> q, request |-> m])]
     ELSE IF p = Server THEN RequestRanges(p, Enqueue(a, q, task), r, m.chunks)
     ELSE Enqueue(a, q, task)

Unpended(x, id) == [x EXCEPT !.pending = IF id = NoId THEN {} ELSE @ \ {id}]

(* resource-chunk-complete *)
HandleComplete(p, a, m, settled) ==
  IF m.res \notin a.remote THEN a
  ELSE PlanNextRequest(p,
         [a EXCEPT !.res[m.res] = Recompute([Unpended(@, m.id) EXCEPT !.requested = {}], settled)],
         m.res)

(* handleError *)
HandleError(p, a, m, settled) ==
  LET x == [Unpended(a.res[m.res], m.id) EXCEPT !.retry = FALSE]
      y == IF x.retries >= MaxErrorRetries THEN [x EXCEPT !.status = "error"]
           ELSE [Recompute(x, settled) EXCEPT !.retries = @ + 1, !.retry = TRUE]
  IN IF m.res \notin a.remote THEN a ELSE [a EXCEPT !.res[m.res] = y]

(* handleTransportData: a payload belongs to the meta message before it. *)
Handle(p, a, q, m, settled) ==
  LET meta == a.transport[q].meta
  IN CASE m.type = "request" -> HandleRequest(p, a, q, m)
       [] m.type = "meta" -> [a EXCEPT !.transport[q].meta = m.meta]
       [] m.type = "payload" /\ meta = NoMeta -> a
       [] m.type = "payload" -> ApplyChunk(p, [a EXCEPT !.transport[q].meta = NoMeta], meta, m.bytes)
       [] m.type = "complete" -> HandleComplete(p, a, m, settled)
       [] m.type = "error" -> HandleError(p, a, m, settled)

(* isCurrentTransportGeneration; 0 stands for no generation *)
IsCurrent(a, q, gen) == gen \in {0, a.transport[q].gen}

-----------------------------------------------------------------------------
Becomes(p, a) == node' = [node EXCEPT ![p] = a]

(* One message of q arrives at p. *)
Receive(p, q) ==
  /\ node[q].out[p] # <<>> /\ node[p].transport[q].live
  /\ \E settled \in BOOLEAN :
       node' = [node EXCEPT ![p] = Handle(p, @, q, Head(node[q].out[p]), settled),
                            ![q].out[p] = Tail(@)]
  /\ UNCHANGED <<scene, linked, breaks>>

(* The next step between two awaits of the k-th chain that serves q: the meta of the next
   chunk that can be read, its payload, or the end of the request. *)
Serve(p, q, k) ==
  LET a == node[p]
      chain == a.serves[q][k]
      t == Head(chain)
      bytes(i) == IF t.res \in a.local THEN <<t.res, i>> ELSE a.res[t.res].store[i]
      i == Min({j \in t.left : bytes(j) # NoBytes})
      readable == \E j \in t.left : bytes(j) # NoBytes
      more(u) == [a EXCEPT !.serves[q][k] = <<u>> \o Tail(chain)]
      rest == IF k > 1 /\ Len(chain) = 1 THEN [a EXCEPT !.serves[q] = RemoveAt(@, k)]
              ELSE [a EXCEPT !.serves[q][k] = Tail(chain)]
      missed == t.missed \/ \E j \in t.left : bytes(j) = NoBytes /\ (readable => j < i)
      end == IF t.missed \/ t.left # {} THEN "error" ELSE "complete"
  IN /\ k \in DOMAIN a.serves[q] /\ chain # <<>>
     /\ Becomes(p,
          IF ~IsCurrent(a, q, t.gen) THEN rest
          ELSE IF t.buffer # NoBytes
          THEN Post(more([t EXCEPT !.buffer = NoBytes]), q,
                    [type |-> "payload", bytes |-> t.buffer])
          ELSE IF readable
          THEN Post(more([t EXCEPT !.buffer = bytes(i), !.left = {j \in @ : j > i},
                                   !.missed = missed]), q,
                    [type |-> "meta", meta |-> [res |-> t.res, chunk |-> i, id |-> t.id]])
          ELSE Post(rest, q, [type |-> end, res |-> t.res, id |-> t.id]))
     /\ UNCHANGED <<scene, linked, breaks>>

(* syncResources with the resources of the project. *)
Sync(p, project) ==
  LET a == node[p]
      gone == a.snapshots \ (project \cup a.local)
      added(b, r) == IF r \in b.local THEN b
                     ELSE PlanNextRequest(p, FlushEarly(p,
                            IF r \in b.remote THEN b
                            ELSE [b EXCEPT !.remote = @ \cup {r}, !.res[r] = NewState(r)], r), r)
      synced == FoldLeft(LAMBDA b, r : added([b EXCEPT !.snapshots = @ \cup {r}], r), a,
                         SelectSeq(scene.imports, LAMBDA r : r \in project))
  IN /\ project \cap a.deleted = {} /\ a.snapshots \ project \subseteq scene.deletable
     /\ Becomes(p, [synced EXCEPT !.snapshots = @ \ gone, !.deleted = @ \cup gone,
                                  !.remote = @ \ gone,
                                  !.early = [r \in Resources |-> IF r \in gone THEN <<>> ELSE @[r]],
                                  !.touched = SelectSeq(@, LAMBDA r : r \notin gone)])
     /\ UNCHANGED <<scene, linked, breaks>>

(* registerLocalResource: what was asked of the owner before is served now, without a fence. *)
Register(r) ==
  LET p == Owner[r]
      a == node[p]
      registered == [a EXCEPT !.local = @ \cup {r}, !.remote = @ \ {r}, !.owed[r] = <<>>]
  IN /\ r \notin a.local
     /\ Becomes(p, FoldLeft(LAMBDA b, o : Enqueue(b, o.peer, Task(r, o.request, 0)),
                            registered, a.owed[r]))
     /\ UNCHANGED <<scene, linked, breaks>>

(* requestPlayheadWindow *)
Seek(p, r, i) ==
  /\ r \in node[p].remote /\ i \in ChunksOf(r)
  /\ WindowRange(r, i) # node[p].res[r].window
  /\ Becomes(p, PlanNextRequest(p, [node[p] EXCEPT !.res[r].window = WindowRange(r, i)], r))
  /\ UNCHANGED <<scene, linked, breaks>>

(* notePreviewError *)
PreviewFails(p, r) ==
  /\ r \in node[p].remote /\ ~node[p].res[r].tail
  /\ Becomes(p, PlanNextRequest(p, [node[p] EXCEPT !.res[r].tail = TRUE], r))
  /\ UNCHANGED <<scene, linked, breaks>>

(* The timer of handleError. *)
RetryTimer(p, r) ==
  /\ r \in node[p].remote /\ node[p].res[r].retry
  /\ Becomes(p, PlanNextRequest(p, [node[p] EXCEPT !.res[r] = ResetRequests(@)], r))
  /\ UNCHANGED <<scene, linked, breaks>>

(* The timer of recomputeRemoteStatus. *)
RecheckTimer(p, r) ==
  /\ r \in node[p].remote /\ node[p].res[r].recheck
  /\ Becomes(p, [node[p] EXCEPT !.res[r] = Recompute(@, TRUE)])
  /\ UNCHANGED <<scene, linked, breaks>>

-----------------------------------------------------------------------------
(* A new connection of c to the server. *)
Connect(c) ==
  /\ c \in scene.guests \ linked /\ c \notin Attached(node[Server])
  /\ Lingers \/ \A k \in DOMAIN node[Server].serves[c] : node[Server].serves[c][k] = <<>>
  /\ linked' = linked \cup {c}
  /\ UNCHANGED <<scene, node, breaks>>

(* attachClientTransport and attachServerTransport *)
Attach(p, q) ==
  LET a == [node[p] EXCEPT !.transport[q] = [gen |-> @.gen + 1, live |-> TRUE, meta |-> NoMeta]]
  IN /\ {p, q} \cap linked # {} /\ ~node[p].transport[q].live
     /\ Becomes(p, PlanAll(p, ResetRequestsFor(p, a, q)))
     /\ UNCHANGED <<scene, linked, breaks>>

(* The channel closes.  The client is told of a peer it has no transport of. *)
Break(c) ==
  /\ c \in linked /\ breaks < scene.breaks
  /\ linked' = linked \ {c} /\ breaks' = breaks + 1
  /\ node' = [node EXCEPT ![c].transport[Server].live = FALSE, ![c].out[Server] = <<>>,
                          ![Server].transport[c].live = FALSE, ![Server].out[c] = <<>>]
  /\ UNCHANGED scene

(* detachPeerTransport: the server has noticed, or is offered another connection. *)
Detach(c) ==
  LET a == node[Server]
      chains == SelectSeq(a.serves[c], LAMBDA s : s # <<>>)
  IN /\ c \notin linked /\ c \in Attached(a)
     /\ Becomes(Server, ResetRequestsFor(Server,
          [a EXCEPT !.transport[c] = NoTransport, !.serves[c] = << <<>> >> \o chains], c))
     /\ UNCHANGED <<scene, linked, breaks>>

Proceed ==
  \/ \E p \in Peers : \E q \in Neighbours(p) :
       Receive(p, q) \/ Attach(p, q) \/ \E k \in DOMAIN node[p].serves[q] : Serve(p, q, k)
  \/ \E p \in Peers, r \in Resources : RetryTimer(p, r) \/ RecheckTimer(p, r)
  \/ \E c \in Clients : Connect(c) \/ Detach(c)

Choose ==
  \/ \E p \in scene.guests \cup {Server}, project \in SUBSET Resources : Sync(p, project)
  \/ \E r \in Resources : Register(r)
  \/ \E p \in scene.seekers, r \in Resources :
       PreviewFails(p, r) \/ \E i \in ChunksOf(r) : Seek(p, r, i)
  \/ \E c \in Clients : Break(c)

Next == Proceed \/ Choose

Spec == Init /\ [][Next]_transferVars

-----------------------------------------------------------------------------
(* Nothing is requested of a resource but its parts, and nothing of a deleted resource comes
   back with chunks that arrive late. *)
TypeOK ==
  /\ scene \in Scenes /\ linked \subseteq scene.guests /\ breaks \in 0..scene.breaks
  /\ \A p \in Peers, r \in Resources :
       LET x == node[p].res[r]
       IN /\ x.requested \subseteq ChunksOf(r) /\ x.pending \subseteq 0..(Ids - 1)
          /\ x.retries \in 0..MaxErrorRetries
          /\ x.status \in {"missing", "partial", "ready", "error"}
          /\ r \in node[p].remote => r \in node[p].snapshots
          /\ r \in node[p].deleted => r \notin node[p].remote /\ node[p].early[r] = <<>>

About(m, r) == IF m.type = "meta" THEN m.meta.res = r
               ELSE m.type # "payload" /\ m.res = r

(* Something that p will hear of concerns r. *)
UnderWay(p, r) ==
  \E q \in Neighbours(p) :
    \/ \E m \in ToSet(node[p].out[q]) : m.type = "request" /\ m.res = r
    \/ \E s \in ToSet(node[q].serves[p]) : \E t \in ToSet(s) : t.res = r
    \/ \E o \in ToSet(node[q].owed[r]) : o.peer = p
    \/ \E m \in ToSet(node[q].out[p]) : About(m, r)

(* A transfer never stalls: while its connections stand, a page that lacks a part of a
   resource of the project awaits an answer about it or the timer of a retry, unless its
   retries are used up, or the resource was evicted. *)
TransfersNeverStall ==
  \A p \in Peers : \A r \in node[p].remote :
    LET x == node[p].res[r]
    IN \/ Complete(x) \/ x.retry \/ x.status = "error" \/ Owner[r] = p \/ UnderWay(p, r)
       \/ \E q \in Neighbours(p) : ~node[p].transport[q].live \/ ~node[q].transport[p].live
       \/ Loaded(x) = {} /\ \E s \in node[p].remote \ {r} : Loaded(node[p].res[s]) # {}

Distribution == INSTANCE MediaDistribution WITH
  Pages <- Peers,
  files <- UNION {{<<r, i, <<r, i>>>> : i \in ChunksOf(r)} :
                  r \in {r \in Resources : r \in node[Owner[r]].local}},
  held <- [p \in Peers |->
    UNION {{<<r, i, node[p].res[r].store[i]>> : i \in Loaded(node[p].res[r])} : r \in Resources}]

(* Whatever breaks and reconnects, what a page stores of a resource are the bytes of the file,
   each chunk at its place: the transfer implements MediaDistribution. *)
BytesAreTheFile == Distribution!Spec

=============================================================================
