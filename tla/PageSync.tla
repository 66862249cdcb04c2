------------------------------- MODULE PageSync -------------------------------
(***************************************************************************)
(* How a page comes to show the graph of a worker and keeps showing it      *)
(* (src/video-editor/dkt/runtime: createMiniCutDktRuntime and               *)
(* createMiniCutPageSyncRuntime; src/dkt-react-sync: ReactSyncReceiver and  *)
(* ShapeRegistry; ui/dkt/DktEditorRoot; the transport that                  *)
(* p2p/P2PAuthorityAdapter switches when the authority changes).            *)
(*                                                                         *)
(* A page bootstraps a session over its connection.  The worker opens its   *)
(* storage once, adds a sync stream for the connection and tells the page   *)
(* the root.  The page then mounts the editor's shape on the root: it       *)
(* publishes the shapes, requires them for the root and, through the        *)
(* relations it receives, for every node below; the stream sends the        *)
(* relations of the nodes shapes are required for.  When the authority      *)
(* changes the page forgets the graph and starts over on a new connection.  *)
(*                                                                         *)
(* The shape of the editor is cut down to two ways from the root to a clip, *)
(* the selected clip (one) and the clips (many), and two from a clip to its *)
(* leaves, its text (one) and its effects (many).  A node has one shape,    *)
(* that of its kind.  Attributes travel like relations and are left out.    *)
(* React commits what follows from a message before the next one arrives.   *)
(***************************************************************************)
EXTENDS Integers, SequencesExt, FiniteSetsExt

CONSTANTS
  Tabs, Workers, Clips, Texts, Effects,
  Sessions,    \* session ids
  Room,        \* the session key of the room, the id of a session without one of its own
  Local,       \* the session key of a bootstrap that names none
  Connections, \* 1..n: the connections there are over time
  Scenes       \* what happens to the tabs, and how often

RootRels == {"selectedClip", "clips"}
ClipRels == {"text", "effects"}
One == {"selectedClip", "text"}

None == "none"

ASSUME PageSyncAssumption ==
  /\ {Room, Local} \subseteq Sessions /\ Room # Local /\ Connections \subseteq Nat \ {0} /\ Texts # {}
  /\ None \notin Tabs \cup Sessions \cup Clips \cup Texts \cup Effects /\ IsFiniteSet(Clips \cup Texts \cup Effects)
  /\ \A s \in Scenes : /\ s.tabs \subseteq Tabs /\ s.workers \subseteq Workers /\ s.session \in Sessions /\ s.clips \subseteq Clips /\ s.clips # {}
                       /\ {s.connections, s.edits, s.switches} \subseteq Nat /\ s.filled \subseteq RootRels \cup ClipRels
                       /\ s.faults \subseteq {"failover", "leave", "storage"}

VARIABLES
  scene,  \* never changes
  boot,   \* of each worker: whether its storage and runtime are open, and for which key
  rel,    \* of each worker: the relations of its graph
  conn,   \* the connections, with the worker's end and what is on the way
  page,   \* the pages: snapshot, receiver, shape registry and what React has mounted
  left    \* edits and changes of session that may still come

pageVars == <<scene, boot, rel, conn, page, left>>

Leaves == Texts \cup Effects
Nodes == Sessions \cup Clips \cup Leaves

Links == (Sessions \X RootRels) \cup (Clips \X ClipRels)
Targets(r) == CASE r = "text" -> Texts [] r = "effects" -> Effects [] OTHER -> scene.clips
Values(r) == {v \in SUBSET Targets(r) : r \in One => Cardinality(v) <= 1}
Nothing == [l \in Links |-> {}]
Ways == RootRels \X Clips \X ClipRels  \* to a leaf, through a mounted clip

(***************************************************************************)
(* ShapeRegistry: how often a shape is mounted on a node, and whether the   *)
(* worker was last asked for it.                                           *)
(***************************************************************************)
SyncNodeShapes(p, n) == [p EXCEPT !.asked[n] = IF p.refs[n] > 0 THEN "yes" ELSE "no"]

Retain(p, n) ==
  LET q == [p EXCEPT !.refs[n] = @ + 1]
  IN IF p.refs[n] = 0 THEN SyncNodeShapes(q, n) ELSE q

Release(p, n) ==
  LET q == [p EXCEPT !.refs[n] = @ - 1]
  IN CASE p.refs[n] = 0 -> p
       [] p.refs[n] = 1 -> SyncNodeShapes(q, n)
       [] OTHER -> q

RetainAll(p, nodes) == FoldSet(LAMBDA n, q : Retain(q, n), p, nodes)
ReleaseAll(p, nodes) == FoldSet(LAMBDA n, q : Release(q, n), p, nodes)

(* The relations of a clip mounted by way of a relation of the root. *)
MountLeaves(p, via, c, r) ==
  RetainAll([p EXCEPT !.leaves[<<via, c, r>>] = p.held[<<c, r>>]], p.held[<<c, r>>])
UnmountLeaves(p, via, c, r) ==
  ReleaseAll([p EXCEPT !.leaves[<<via, c, r>>] = {}], p.leaves[<<via, c, r>>])

MountClip(p, via, c) ==
  LET q == Retain([p EXCEPT !.clips[via] = @ \cup {c}], c)
  IN MountLeaves(MountLeaves(q, via, c, "text"), via, c, "effects")

UnmountClip(p, via, c) ==
  LET q == UnmountLeaves(UnmountLeaves(p, via, c, "effects"), via, c, "text")
  IN Release([q EXCEPT !.clips[via] = @ \ {c}], c)

MountClips(p, via, clips) == FoldSet(LAMBDA c, q : MountClip(q, via, c), p, clips)
UnmountClips(p, via, clips) == FoldSet(LAMBDA c, q : UnmountClip(q, via, c), p, clips)

(***************************************************************************)
(* The listeners that follow a relation: mountOneRelation stops the old     *)
(* child before it mounts the new one, mountManyRelation mounts first.      *)
(***************************************************************************)
SyncClips(p, via) ==
  LET now == p.held[<<p.mounted, via>>]
      was == p.clips[via]
  IN IF via \in One THEN MountClips(UnmountClips(p, via, was \ now), via, now \ was)
     ELSE UnmountClips(MountClips(p, via, now \ was), via, was \ now)

(* A listener that was collected before its mount was cleaned up is called all the same: it mounts *)
(* what it reads, and nothing will ever unmount that.                                              *)
SyncLeaves(p, way) ==
  LET now == p.held[<<way[2], way[3]>>]
      was == p.leaves[way]
      q == [p EXCEPT !.leaves[way] = now]
  IN IF way[2] \notin p.clips[way[1]] THEN RetainAll(p, now)
     ELSE IF way[3] \in One THEN RetainAll(ReleaseAll(q, was \ now), now \ was)
     ELSE ReleaseAll(RetainAll(q, now \ was), was \ now)

SyncWays(p, ways) == FoldSet(LAMBDA way, q : SyncLeaves(q, way), p, ways)

(* flushDirtyNamed: the listeners are collected, then called in the order the update named them. *)
FlushDirty(p, dirty, outer, inner, outerFirst) ==
  LET ways == {way \in Ways : way[3] = inner /\ way[2] \in p.clips[way[1]] /\ <<way[2], inner>> \in dirty}
      Outer(q) == IF p.mounted # None /\ <<p.mounted, outer>> \in dirty THEN SyncClips(q, outer) ELSE q
      Inner(q) == SyncWays(q, ways)
  IN IF outerFirst THEN Inner(Outer(p)) ELSE Outer(Inner(p))

HandleUpdate(p, update, outerFirst) ==
  LET dirty == {l \in DOMAIN update : update[l] # p.held[l]}
      q == [p EXCEPT !.held = [l \in Links |-> IF l \in dirty THEN update[l] ELSE @[l]]]
  IN FlushDirty(FlushDirty(q, dirty, "selectedClip", "text", outerFirst), dirty, "clips", "effects", outerFirst)

(***************************************************************************)
(* The page.                                                               *)
(***************************************************************************)
Unmount(p) ==
  IF p.mounted = None THEN p
  ELSE LET q == UnmountClips(UnmountClips(p, "clips", p.clips["clips"]), "selectedClip", p.clips["selectedClip"])
       IN [Release(q, p.mounted) EXCEPT !.mounted = None]

Mount(p) ==
  IF p.root = None THEN p
  ELSE LET q == Retain([p EXCEPT !.mounted = p.root, !.published = TRUE], p.root)
       IN SyncClips(SyncClips(q, "selectedClip"), "clips")

(* The effect of DktEditorRoot on the root scope. *)
Commit(p) == IF p.mounted = p.root THEN p ELSE Mount(Unmount(p))

(* Mutant of Reset: the shape registry keeps what it published and asked for. *)
ResetGraphOnly(p) == [p EXCEPT !.booted = FALSE, !.ready = FALSE, !.root = None, !.error = FALSE, !.held = Nothing]

(* resetGraph of the receiver, destroy of the registry, and the snapshot *)
Reset(p) ==
  [p EXCEPT !.booted = FALSE, !.ready = FALSE, !.root = None, !.error = FALSE, !.held = Nothing,
            !.refs = [n \in Nodes |-> 0], !.asked = [n \in Nodes |-> "unset"], !.published = FALSE]

Handled(p, m, outerFirst) ==
  CASE m.type = "RUNTIME_READY" -> [p EXCEPT !.booted = TRUE, !.ready = TRUE, !.session = m.session,
                                             !.key = m.key, !.error = FALSE]
    [] m.type = "WORKSPACE_OPEN_STATE" -> [p EXCEPT !.opened = m.state, !.error = @ \/ m.state = "failed"]
    [] m.type = "RUNTIME_ERROR" -> [p EXCEPT !.error = TRUE]
    [] m.type = "TREE_ROOT" -> [p EXCEPT !.root = m.session, !.ready = p.booted]
    [] m.type = "UPDATE" -> HandleUpdate(p, m.values, outerFirst)

(* The shapes published and required since the page was p, as one message. *)
Shapes(p, q) ==
  LET asked(answer) == {n \in Nodes : q.asked[n] = answer /\ p.asked[n] # answer}
      m == [type |-> "SHAPES", publish |-> q.published /\ ~p.published, on |-> asked("yes"), off |-> asked("no")]
  IN IF m.publish \/ m.on \cup m.off # {} THEN <<m>> ELSE <<>>

Bootstrap(key, session) == [type |-> "BOOTSTRAP", key |-> key, session |-> session]

(***************************************************************************)
(* Connections.                                                            *)
(***************************************************************************)
Unused == [tab |-> None, worker |-> None, phase |-> "unused", step |-> "idle", key |-> Local, session |-> Local, stream |-> None,
           knows |-> FALSE, wants |-> {}, sent |-> <<>>, inbox |-> <<>>, outbox |-> <<>>]

Active(w) == {c \in Connections : conn[c].phase = "open" /\ conn[c].worker = w}
(* What the worker sends: lost once the page has left the connection or it is destroyed. *)
Sending(k, m) == IF k.tab # None /\ k.phase = "open" THEN [k EXCEPT !.outbox = @ \o m] ELSE k
To(c, m) == IF c = 0 \/ conn[c].phase # "open" THEN conn ELSE [conn EXCEPT ![c].inbox = @ \o m]

InitPage(t) ==
  [conn |-> 0, gone |-> FALSE, booted |-> FALSE, ready |-> FALSE, session |-> None, key |-> None, error |-> FALSE, opened |-> "unknown",
   root |-> None, held |-> Nothing, refs |-> [n \in Nodes |-> 0], asked |-> [n \in Nodes |-> "unset"], published |-> FALSE,
   mounted |-> None, clips |-> [r \in RootRels |-> {}], leaves |-> [way \in Ways |-> {}]]

Init ==
  /\ scene \in Scenes
  /\ boot = [w \in Workers |-> [state |-> "none", key |-> None]]
  /\ rel = [w \in Workers |-> [l \in Links |->
       IF l[2] \notin scene.filled THEN {}
       ELSE IF l[2] \in One THEN {CHOOSE n \in Targets(l[2]) : TRUE} ELSE Targets(l[2])]]
  /\ conn = [c \in Connections |-> Unused]
  /\ page = [t \in Tabs |-> InitPage(t)]
  /\ left = [edits |-> scene.edits, switches |-> scene.switches]

Free == {c \in Connections : conn[c].phase = "unused" /\ c <= scene.connections}
(* activateRealTransport: the cached bootstrap is sent first, then again as the pending message. *)
Connected(t, w, m) == [Unused EXCEPT !.tab = t, !.worker = w, !.phase = "open", !.inbox = <<m, m>>]
(* teardownRealTransport *)
Abandoned(k) == [k EXCEPT !.tab = None, !.outbox = <<>>]

(* The first client of a tab: the page bootstrapped before there was a transport. *)
Connect(t, w) ==
  /\ t \in scene.tabs /\ w \in scene.workers /\ page[t].conn = 0 /\ ~page[t].gone /\ Free # {}
  /\ conn' = [conn EXCEPT ![Min(Free)] = Connected(t, w, Bootstrap(Room, scene.session))]
  /\ page' = [page EXCEPT ![t].conn = Min(Free)]
  /\ UNCHANGED <<scene, boot, rel, left>>

(* P2P_SESSION_LOST: the page starts over with the key of its session alone, which it has from the worker. *)
Failover(t, w) ==
  /\ "failover" \in scene.faults /\ w \in scene.workers /\ page[t].conn # 0 /\ Free # {}
  /\ LET key == IF page[t].key = None THEN Local ELSE page[t].key
     IN conn' = [conn EXCEPT ![Min(Free)] = Connected(t, w, Bootstrap(key, key)), ![page[t].conn] = Abandoned(@)]
  /\ page' = [page EXCEPT ![t] = Commit([Reset(@) EXCEPT !.conn = Min(Free), !.session = None])]
  /\ UNCHANGED <<scene, boot, rel, left>>

(* bootstrap with another session id on a page that has booted *)
Switch(t, session) ==
  /\ left.switches > 0 /\ page[t].conn # 0 /\ page[t].booted /\ session # page[t].session
  /\ page' = [page EXCEPT ![t] = Commit([Reset(@) EXCEPT !.session = session, !.key = Room])]
  /\ conn' = To(page[t].conn, <<Bootstrap(Room, session)>>)
  /\ left' = [left EXCEPT !.switches = @ - 1]
  /\ UNCHANGED <<scene, boot, rel>>

(* destroy of the page runtime *)
Leave(t) ==
  /\ "leave" \in scene.faults /\ page[t].conn # 0
  /\ conn' = [To(page[t].conn, <<[type |-> "CLOSE_SESSION"]>>) EXCEPT ![page[t].conn] = Abandoned(@)]
  /\ page' = [page EXCEPT ![t] = [InitPage(t) EXCEPT !.gone = TRUE]]
  /\ UNCHANGED <<scene, boot, rel, left>>

Receive(t) ==
  LET c == page[t].conn
  IN /\ c # 0 /\ conn[c].outbox # <<>>
     /\ \E outerFirst \in BOOLEAN :
          LET q == Commit(Handled(page[t], Head(conn[c].outbox), outerFirst))
          IN /\ page' = [page EXCEPT ![t] = q]
             /\ conn' = [To(c, Shapes(page[t], q)) EXCEPT ![c].outbox = Tail(@)]
     /\ UNCHANGED <<scene, boot, rel, left>>

(***************************************************************************)
(* The worker: it handles the messages of a connection one after another    *)
(* and waits within a bootstrap, for the runtime, the session root and the  *)
(* sync stream.                                                            *)
(***************************************************************************)
Take(c, type) ==
  conn[c].phase = "open" /\ conn[c].step = "idle" /\ conn[c].inbox # <<>> /\ Head(conn[c].inbox).type = type

(* bootstrapApp: the first caller opens the storage *)
Opening(w, key) == boot' = [boot EXCEPT ![w] = IF @.state = "none" THEN [state |-> "opening", key |-> key] ELSE @]

StartBootstrap(c) ==
  /\ Take(c, "BOOTSTRAP")
  /\ LET m == Head(conn[c].inbox)
     IN /\ conn' = [conn EXCEPT ![c].inbox = Tail(@), ![c].step = "app", ![c].key = m.key, ![c].session = m.session]
        /\ Opening(conn[c].worker, m.key)
  /\ UNCHANGED <<scene, rel, page, left>>

(* The outcome of opening the storage is published to the connections there are, and kept for ever. *)
OpenStorage(w) ==
  /\ boot[w].state = "opening"
  /\ \E outcome \in {"ready"} \cup IF "storage" \in scene.faults THEN {"failed"} ELSE {} :
       LET m == [type |-> "WORKSPACE_OPEN_STATE", state |-> outcome]
       IN /\ boot' = [boot EXCEPT ![w].state = outcome]
          /\ conn' = [c \in Connections |-> IF c \in Active(w) THEN Sending(conn[c], <<m>>) ELSE conn[c]]
  /\ UNCHANGED <<scene, rel, page, left>>

AppOpened(c) ==
  /\ conn[c].step = "app" /\ boot[conn[c].worker].state \in {"ready", "failed"}
  /\ conn' = [conn EXCEPT ![c] =
       IF boot[@.worker].state = "ready" THEN [@ EXCEPT !.step = "root"]
       ELSE [Sending(@, <<[type |-> "RUNTIME_ERROR"]>>) EXCEPT !.step = "idle"]]
  /\ UNCHANGED <<scene, boot, rel, page, left>>

(* Mutant of Streaming: the stream is kept although it is for another session. *)
StreamKept(k, early) ==
  LET values == [l \in early |-> rel[k.worker][l]]
      fresh == [k EXCEPT !.stream = k.session, !.knows = FALSE, !.wants = {},
                         !.sent = values]
  IN IF k.stream # None THEN k
     ELSE Sending(fresh, <<[type |-> "TREE_ROOT", session |-> k.session], [type |-> "UPDATE", values |-> values]>>)

(* A stream for another session is replaced.  A new one sends its root and the important paths. *)
Streaming(k, early) ==
  LET values == [l \in early |-> rel[k.worker][l]]
      fresh == [k EXCEPT !.stream = k.session, !.knows = FALSE, !.wants = {},
                         !.sent = values]
  IN IF k.stream = k.session THEN k
     ELSE Sending(fresh, <<[type |-> "TREE_ROOT", session |-> k.session], [type |-> "UPDATE", values |-> values]>>)

RootReady(c) ==
  /\ conn[c].step = "root"
  /\ \E early \in {{}, {conn[c].session} \X RootRels} :
       conn' = [conn EXCEPT ![c] = [Streaming(@, early) EXCEPT !.step = "stream"]]
  /\ UNCHANGED <<scene, boot, rel, page, left>>

StreamAdded(c) ==
  /\ conn[c].step = "stream"
  /\ conn' = [conn EXCEPT ![c] = [Sending(@, <<[type |-> "RUNTIME_READY", session |-> @.session, key |-> @.key]>>) EXCEPT !.step = "idle"]]
  /\ UNCHANGED <<scene, boot, rel, page, left>>

(* SYNC_UPDATE_STRUCTURE_USAGE and SYNC_REQUIRE_SHAPE *)
RequireShapes(c) ==
  /\ Take(c, "SHAPES")
  /\ LET m == Head(conn[c].inbox)
     IN conn' = [conn EXCEPT ![c].inbox = Tail(@), ![c].knows = @ \/ m.publish, ![c].wants = (@ \ m.off) \cup m.on]
  /\ UNCHANGED <<scene, boot, rel, page, left>>

(* The port closes, or the tab asked for it: the stream is removed once the runtime is there. *)
Destroy(c) ==
  /\ conn[c].phase = "open"
  /\ \/ Take(c, "CLOSE_SESSION")
     \/ conn[c].tab = None /\ (conn[c].inbox = <<>> \/ conn[c].step # "idle")
  /\ conn' = [conn EXCEPT ![c].phase = "closing", ![c].inbox = <<>>]
  /\ Opening(conn[c].worker, conn[c].key)
  /\ UNCHANGED <<scene, rel, page, left>>

Destroyed(c) ==
  /\ conn[c].phase = "closing" /\ boot[conn[c].worker].state \in {"ready", "failed"}
  /\ conn' = [conn EXCEPT ![c] = [@ EXCEPT !.phase = "closed", !.stream = None, !.knows = FALSE, !.wants = {}, !.sent = <<>>]]
  /\ UNCHANGED <<scene, boot, rel, page, left>>

(***************************************************************************)
(* The graph changes, and the streams follow.                              *)
(***************************************************************************)
Visible(w) == {l \in Links : l[1] \in scene.clips \cup {conn[c].stream : c \in Active(w)}}

(* An action of a tab or a batch of another peer: several relations at once *)
Edit(w) ==
  /\ left.edits > 0 /\ boot[w].state = "ready"
  /\ \E k, l \in Visible(w) : \E u \in Values(k[2]) \ {rel[w][k]}, v \in Values(l[2]) :
       rel' = [rel EXCEPT ![w] = [@ EXCEPT ![l] = v, ![k] = u]]
  /\ left' = [left EXCEPT !.edits = @ - 1]
  /\ UNCHANGED <<scene, boot, conn, page>>

(* What the stream has not sent, or not as it now is, of the nodes that shapes are required for *)
Due(c) ==
  {l \in Links : /\ conn[c].knows /\ l[1] \in conn[c].wants
                 /\ l \in DOMAIN conn[c].sent => conn[c].sent[l] # rel[conn[c].worker][l]}

Overlaid(values, sent) == [l \in DOMAIN values \cup DOMAIN sent |-> IF l \in DOMAIN values THEN values[l] ELSE sent[l]]

Flush(c) ==
  /\ conn[c].stream # None /\ conn[c].phase = "open"
  /\ \E nodes \in SUBSET {l[1] : l \in Due(c)} \ {{}} :
       LET values == [l \in {k \in Due(c) : k[1] \in nodes} |-> rel[conn[c].worker][l]]
       IN conn' = [conn EXCEPT ![c] = [Sending(@, <<[type |-> "UPDATE", values |-> values]>>) EXCEPT !.sent = Overlaid(values, conn[c].sent)]]
  /\ UNCHANGED <<scene, boot, rel, page, left>>

Work(c) == StartBootstrap(c) \/ AppOpened(c) \/ RootReady(c) \/ StreamAdded(c) \/ RequireShapes(c) \/ Destroyed(c)

Next ==
  \/ \E t \in Tabs :
       \/ \E w \in Workers : Connect(t, w) \/ Failover(t, w)
       \/ \E s \in Sessions : Switch(t, s)
       \/ Leave(t) \/ Receive(t)
  \/ \E w \in Workers : OpenStorage(w) \/ Edit(w)
  \/ \E c \in Connections : Work(c) \/ Destroy(c) \/ Flush(c)

Spec == Init /\ [][Next]_pageVars

(***************************************************************************)
(* Properties.                                                             *)
(***************************************************************************)
TypeOK ==
  /\ scene \in Scenes /\ left.edits \in 0..scene.edits /\ left.switches \in 0..scene.switches
  /\ \A w \in Workers : /\ boot[w].state \in {"none", "opening", "ready", "failed"} /\ boot[w].key \in {None, Room, Local}
                        /\ DOMAIN rel[w] = Links /\ \A l \in Links : rel[w][l] \in Values(l[2])
  /\ \A c \in Connections : /\ conn[c].phase \in {"unused", "open", "closing", "closed"}
                            /\ conn[c].step \in {"idle", "app", "root", "stream"}
                            /\ conn[c].stream \in Sessions \cup {None} /\ conn[c].wants \subseteq Nodes
  /\ \A t \in Tabs : /\ page[t].conn \in Connections \cup {0} /\ page[t].refs \in [Nodes -> Nat]
                     /\ page[t].asked \in [Nodes -> {"unset", "yes", "no"}]
                     /\ {page[t].root, page[t].mounted, page[t].session} \subseteq Sessions \cup {None}
                     /\ page[t].clips \in [RootRels -> SUBSET Clips] /\ page[t].leaves \in [Ways -> SUBSET Leaves]

(* Nothing is on the way between a page and its worker, and the worker has nothing to do for it. *)
Quiet(t) ==
  LET c == page[t].conn
  IN c # 0 /\ conn[c].phase = "open" /\ conn[c].step = "idle" /\ conn[c].inbox = <<>> /\ conn[c].outbox = <<>>

(* The nodes a page shows: its root, and what it has received below it. *)
Shown(p) ==
  IF p.root = None THEN {}
  ELSE LET clips == UNION {p.held[<<p.root, r>>] : r \in RootRels}
       IN {p.root} \cup clips \cup UNION {p.held[<<c, r>>] : c \in clips, r \in ClipRels}

(* However clips are selected, replaced and shared between two relations, and however often the page *)
(* starts over: when nothing is on the way, the sync stream of a page has the shapes of exactly the  *)
(* nodes the registry counts, and of every node the page shows.                                     *)
ShapesInForce == \A t \in Tabs : Quiet(t) /\ page[t].root # None =>
  LET k == conn[page[t].conn]
  IN k.knows /\ k.wants = {n \in Nodes : page[t].refs[n] > 0} /\ Shown(page[t]) \subseteq k.wants

(* The page shows the graph of its worker, under the root of its session. *)
InStep(t) ==
  LET p == page[t] k == conn[p.conn]
  IN p.ready /\ p.root = k.session /\ \A l \in Links : l[1] \in Shown(p) => p.held[l] = rel[k.worker][l]

(* The worker has nothing to do for a page, and the page has received all there is. *)
AtRest(t) ==
  LET k == conn[page[t].conn]
  IN /\ page[t].conn # 0 /\ k.outbox = <<>> /\ boot[k.worker].state # "opening" /\ Due(page[t].conn) = {}
     /\ k.step \notin {"root", "stream"} /\ (k.step = "app" => boot[k.worker].state = "none")
     /\ k.step = "idle" => k.inbox = <<>>

(* A page that lost its authority, was handed to another worker or changed its session comes to rest *)
(* only with what its worker has, or with the error of a storage that did not open: it never waits    *)
(* for a message that will not come.                                                                 *)
Settles == \A t \in Tabs : AtRest(t) =>
  InStep(t) \/ (page[t].error /\ boot[conn[page[t].conn].worker].state = "failed")

=============================================================================
