# MiniCut collaboration in TLA+

MiniCut is a video editor that runs in browser tabs. Tabs of one browser share a
worker that holds the project; browsers share a room, in which one page is the
server of a WebRTC star and the worker's CRDT batches and media chunks travel over
data channels. This directory specifies the parts of MiniCut that make this work:
the room and its transport, the media transfer, the channels, the stored workspace
and its log, and the editor itself, from the graph of a project with its commands
and reviews to the tasks, the page that shows the graph, the preview and the export.
TLC model-checks them on small instances, and TLAPS proves the most important
properties of the room, its pages and transport, of the stored workspace and its log,
of the project graph, the tasks, the review of conflicts and rendering for all instances.

The code is quoted by its path in the repository (`src/video-editor/p2p/...`,
`backend/src/do/...`). `PROJECT.json` maps every definition to the lines it models.

## 1. Inventory of the system

### Components

| Component | Code | State it keeps | Operations |
|---|---|---|---|
| Signaling room | `backend/src/do/SignalingRoom.ts` | members with socket and join time, leader, epoch, room id; an attachment on every socket | accept, join, bye, relay of offer/answer/candidate/server-leaving, close and error of a socket, wake-up after hibernation |
| Signaling client | `p2p/BridgeSignaling.ts` | socket, retry count, known members, largest epoch seen | connect, retry, join, read announcements and signals, heartbeats, close |
| Page P2P manager | `p2p/PageP2PManager.ts` | role, server, epoch, peer connections, watchdogs | become server or client, offer, answer, session lost, watchdog, leave |
| Tab transport | `p2p/P2PAuthorityAdapter.ts`, `worker/dktSharedWorkerClient.ts` | the port of the present role, attached generation, CRDT channels, announced peers, packets that wait | switch of role, hello, attach, detach, send, flush, announce |
| Room transport owner | `worker/productRoomTransportOwner.ts` | tabs, the lease and its generation, disabled tabs, workspace state, queues of packets | register, unregister, status, heartbeat, expiry, workspace state, send |
| Worker rooms | `dkt/runtime/workerModelRuntime.ts`, `worker/dktSharedWorker.ts` | connections, their sessions and tabs; per room the owner, attached peers, retry timers, waiting packets | connect, messages of a tab, disconnect, replay of the log |
| DKT runtime | `dkt/runtime/createMiniCutDktRuntime.ts` | the booted application, CRDT runtime, session roots, streams | bootstrap, bootstrap of a session, actions, destroy |
| Page runtime | `dkt/runtime/createMiniCutPageSyncRuntime.ts` | boot state, receiver, session | bootstrap, re-bootstrap after a lost session, errors, destroy |
| React sync layer | `src/dkt-react-sync` | dictionary, attributes and relations of nodes, listeners, shapes counted per node | set dictionary, root, update, reset; mount, unmount, publish shapes |
| Workspace manifest | `dkt/storage/minicutWorkspaceManifest.ts` | stored manifest, identity of the browser | open by policy, adopt, stage with the first commit |
| CRDT transports and relay | `dkt/crdt/*` | the relay's log, seen ids and peers; packets held while paused | join, send, fan out, pause, flush, sync |
| Resource transfer | `media/resourceTransferManager.ts`, `resourceTransferScheduler.ts` | per resource the chunks, requests under way, peers and their generations, a cache | snapshot, request, serve, mirror, retry, evict |
| Application tasks | `app/*` | import and export tasks, their queue and progress | request, start, progress, finish, fail |
| Domain models | `models/*` | projects, tracks, clips, resources, texts, effects, sessions | the editor's commands |
| Conflict review | `dkt/review/*`, `models/AppRoot`, `models/Review*`, `components/review` | review items and sessions made from reports of conflicts; the page's selection and drafts | report, decide, acknowledge, suggest |
| Playback and preview | `models/SessionRoot`, `components/RendererStage.tsx`, `previewCanvasWorker.ts` | cursor, buffer of frames; media elements of the page; the canvas worker's queue | tick, seek, toggle, commit, paint |
| Export | `render/*` | plan, loaded media, encoder or recorder, mixer | render by WebCodecs, by recording or as a manifest |
| Colour, user interface, tools | `color`, `components`, `node`, `dev`, `scripts` | derived values and wiring | none that others depend on |

### How they interact

    page (tab) ---- WebSocket ----> SignalingRoom (one Durable Object per room)
      |  BridgeSignaling -> PageP2PManager : callbacks (leader, members, signals)
      |  PageP2PManager  -> P2PAuthorityAdapter : callbacks (role, channels, lost)
      |  ==== WebRTC data channels ====> pages of other browsers
      |
      +-- MessagePort --> shared worker: workerModelRuntime
                            -> ProductRoomTransportOwner (calls, one per room)
                            -> DKT runtime, CRDT log (calls, promises)
                            -> stored workspace (IndexedDB)

    page: commands -> worker -> sync stream -> receiver -> React components
          requests of the session -> every tab -> tasks -> actions back
          media elements, canvas worker, encoder: events of the browser

Everything inside one page, one worker and the Durable Object is single-threaded;
the components talk by messages on FIFO channels (sockets, ports, data channels)
or by callbacks of the same thread. Code after an `await` runs in a later step.

### Hard behaviours

* **Failover.** Leadership is announced to each page at another moment; offers and
  answers cross announcements; a page that leaves may announce it (`bye`,
  `server-leaving`) or just vanish.
* **Hibernation.** The Durable Object is dropped from memory between messages and
  rebuilt from socket attachments; a restart loses everything.
* **Fencing.** Epochs protect against messages of an earlier leadership,
  generations against tabs with an earlier lease. Both are compared with what a
  page, tab or worker remembers, which may be older or newer than the truth.
* **Ports of a tab.** Each change of role opens another port to the worker. Old
  ports are not closed by the page; the browser closes them when it collects them.
* **Queues in series.** A batch may wait in the worker for a lease and in the tab
  for a channel, while the log is being read for a peer that has just attached.
* **Timeouts and retries.** Connection retries, the WebRTC watchdog, the retry of a
  replay, expiry of a silent owner, retries of media requests.
* **Commands on what was seen.** A tab addresses nodes it saw earlier; a drag ends by
  writing back what the tab saw when it began; a review decides on a preview.
* **A page handed from worker to worker.** Streams, roots and shapes of the old
  worker meet those of the new one; components come and go below every change.
* **Tasks of several tabs.** A request reaches every tab; files are in one of them;
  tasks replace each other and fail half-way.
* **Several clocks.** The cursor, the commits of React, the seeks of media elements,
  the canvas worker and the timers of a recording each have a time of their own.

### What makes each component correct

* *Signaling room*: the senior member leads; every member has been told; the
  attachments hold the whole room at every handler boundary, so that hibernation
  loses nothing; while someone stays in the room, epochs only grow and every new
  leader has a larger one.
* *Pages of a room*: in the end the leader is the server and every other page its
  client with an open session; never two servers of one epoch; signals are used in
  the epoch they were sent in.
* *Room transport owner*: one owner at a time, capable and registered, whenever one
  is available; fresh generations; packets exactly once and in order.
* *Worker rooms and tab transport*: the owner keeps its properties although tabs
  re-register on new ports and old ports close late; no tab believes itself
  attached without the lease; the durable log reaches every peer; no packet
  overtakes another on the way to a peer.
* *Resource transfer*: what a page stores are the bytes of the file; an incomplete
  transfer always has something under way.
* *Channels between pages*: messages come out whole, once and in order, whatever the
  browser's buffer does, until the connection breaks.
* *Workspace*: a database belongs to one workspace; a browser keeps its author name; a
  replay sends what creates a node before what uses it.
* *DKT and page runtime, React layer*: a page at rest shows what its worker has, or
  the error; the worker streams exactly what the page shows; no component misses a
  change.
* *Domain models*: the two ends of every relation agree; a cut keeps what was shown;
  what is appended covers nothing.
* *Tasks*: the table tells the truth; every export and import ends, each file is
  imported once.
* *Review*: one item per conflict, in step with its status; what is offered can be
  applied.
* *Playback and export*: what is shown, drawn and heard agrees with the project; a
  render ends with nothing left behind.

## 2. Modules

| Module | Models | Checked in | Proofs |
|---|---|---|---|
| `SignalingRoom` | the Durable Object of one room | `MCSignalingRoom` | `RoomPeers_proofs` |
| `RoomPeers` (extends `SignalingRoom`) | the pages around it: signaling client and P2P manager, sockets, sessions, failures | `MCRoomPeers` | `RoomPeers_proofs` |
| `RoomTransportOwner` | the coordinator of one room in the worker | `MCWorkerRoom` | `WorkerRoom_proofs` |
| `WorkerRoom` (extends `RoomTransportOwner`) | worker connections and the tab transports around it: ports, roles, channels, log, replays | `MCWorkerRoom` | `WorkerRoom_proofs` |
| `ResourceTransfer` | the resource managers of a server and its clients | `MCResourceTransfer` | |
| `MediaDistribution` | what the transfer promises: abstract specification of `ResourceTransfer` | `MCResourceTransfer` | |
| `PeerChannel` | the resource and CRDT transports over one connection | `MCPeerWorkspace` | |
| `MessageQueue` | what a direction of a data channel promises: abstract specification of `PeerChannel`, twice | `MCPeerWorkspace` | |
| `Workspace` | identity, manifest, boot, order of the replay | `MCPeerWorkspace` | |
| `CrdtRelay` | the relay of the CRDT harness and the transport of a replica | `MCPeerWorkspace` | |
| `PeerWorkspace` (extends the last three) | the two ends of the life of a batch, and the relay that stands for both | `MCPeerWorkspace` | `PeerWorkspace_proofs` |
| `Timeline` | the project graph and the commands of the tabs | `MCTimeline` | `Timeline_proofs` |
| `PageSync` | pages, connections, streams and shapes | `MCPageSync` | `PageView_proofs` |
| `GraphView` | the receiver's graph, its listeners and the components | `MCPageSync` | `PageView_proofs` |
| `PageView` (extends the last two) | the two side by side | `MCPageSync` | `PageView_proofs` |
| `EditorTasks` | imports and exports between tabs and worker | `MCEditorTasks` | `EditorTasks_proofs` |
| `Review` | conflicts, review items, the page that decides | `MCReview` | `Review_proofs` |
| `ClipFrames` | what a clip shows at an instant, as functions | `MCRendering` | |
| `Preview` (extends `ClipFrames`) | playback, the stage and the canvas worker | `MCRendering` | |
| `ExportRender` (extends `ClipFrames`) | one export by each of three ways | `MCRendering` | |
| `Rendering` (extends the last two) | playback or an export of one project under edits | `MCRendering` | `Rendering_proofs` |

`SignalingRoom` and `RoomTransportOwner` are used twice: alone, with any input that
may reach them, as specifications of what these components promise; and inside a
composition that produces only the inputs the rest of the code produces. A step of the
composition is one of the component or leaves its state alone, by the way the composition
is written; two lemmas state it (`PeersImplementRoom`, `WorkerImplementsOwner`), so that
what is proved of the component holds in the composition. What could go wrong between the
component and its callers is the business of the compositions' own properties.

### SignalingRoom

A socket is `<<p, n>>`, the n-th connection of peer p, so that an old and a new
socket of a page may exist side by side. `sock` and `joinedAt` are the `peers` map,
`att` the serialized attachments, `told` what the announcements sent on a socket add
up to for the page behind it. One action per handler: `Accept`, `Join`, `Bye`,
`SocketGone`; `Hibernate` drops the memory and runs `ensureState`; `Restart` breaks
all sockets. `SyncAttachments` and the broadcasts are part of the handlers, as in the
code. `MayRelay` and the target operators state which signals `webSocketMessage`
relays; the relaying itself changes nothing in the room and happens in `RoomPeers`.

`AllowLinger` is an assumption about the runtime: may `getWebSockets` still list a
socket that was replaced or has said bye when the object wakes up? With FALSE
everything holds. With TRUE `ensureState` may restore a former leader or epoch, since
it takes the metadata from whichever socket is listed first. All theorems about the
room assume `~AllowLinger`, and the runs set it to FALSE.

`Date.now()` does not go back but may stand still, so ties occur. `ping` and joins
for a room other than the object's change nothing and are left out.

### RoomPeers

Adds a FIFO per socket and direction (`up`, `down`) and the state of each page
(`page[p]`): its link, retries, known members, largest epoch, role, server, session
and the connections it serves. `Read(p)` is the whole `onMessage` of the signaling
client with the callbacks of the manager it runs; `Connect`, `ConnectFails`,
`SocketFails` and `Reconnect` the life of the socket; `SendOffer`, `SendAnswer`,
`SessionOpens`, `SessionCloses`, `WatchdogFires` the steps after awaits and WebRTC
events; `Leave` the `destroy` of a page, `Crash` its end without. The room's side of a
message is the action of `SignalingRoom` plus what it pushes to the sockets.

The epochs that the bridge and the manager remember are updated under the same
condition and are one field. WebRTC is external: an answered offer leads to a
session, which may close. ICE candidates and heartbeats are left out. A socket's end
and the page's notice of it are separate on the two sides, but the close event of a
socket that was already replaced is not modelled. A bye on a replaced socket, and a
wake-up of a room with members (which by `AttachmentsFresh` changes nothing, as long as no
other socket is listed), do not occur in the composition.

### RoomTransportOwner

`tabs` is the registration order, `lease` the `ownerLease`, `generation` the
`transportGeneration`, `told` the generation a tab holds once it has read what it was
sent, `pending` and `carried` the packets that wait and that went to the leased tab.
The actions are the functions the coordinator returns. Incoming packets and peer
announcements pass the test `Accepts` and change nothing here. `HeartbeatOverdue` is
the passing of the timeout; expiry is an operation of the coordinator that, outside
the tests, nothing in the repository calls. Its invariants are proved for any use of
it, and the run of `WorkerRoom` checks it in the use the worker makes of it.

### WorkerRoom

Each tab (`tab[t]`) has the number of the port of its present role, the page that
serves it, its generation, its channels, announced peers, waiting packets and FIFO
queues to and from the worker. `conn[t][i]` is the worker's end of port i,
`helloPort[t]` the port whose `send` the coordinator has. `Say`, `Announce`, `Drop`,
`Send`, `Flush`, `Attach` and `Activated` are the functions of the adapter, as functions
of a tab's state; the actions use them. `Receive*` are the messages of a tab,
`Disconnect` the `destroy` of a tracked connection, which happens when the browser
closes the ports of a page that is gone (`PortCloses`) or collects a port that was
replaced or left (`PortCollected`): the tab is unregistered by its id, whichever port
it is registered with. `Commit`, `Replay`, `RetryReplay` and `RuntimeStarts` are the
sending side of the CRDT log; a packet is known by its number, and `content` says
which batches it holds and for whom.

Simplifications: what a tab posts on several ports is received in posting order;
BOOTSTRAP follows the hello at once, as the adapter's cache makes it do after the
first role; announcements made by one handler are one message; a channel opens at
most once per role; a server's channels to tabs of its own browser are left out, as
those have the same worker; of the incoming direction only the acceptance test is
modelled; the shutdown of the CRDT transport with the last connection is not (a tab
departs only while another keeps the worker in use); nor are the test switch for a
partition and DETACH_WEBRTC, which is only sent when opening the workspace fails,
before any tab holds a transport.

### ResourceTransfer, MediaDistribution

One manager per page, its transports with their generations, and the frames on the
resource channels. A page's actions are the functions the manager returns (`Register`,
`Sync`, `Attach`, `Detach`, `Seek`, `PreviewFails`), the messages it handles and its timers;
`PlanNextRequest`, `RequestRanges`, `Recompute` and `EnforceCacheCap` are functions of a
page's state, used by all of them as in the code. Ranges are sets of chunk numbers; a
byte carries its resource and place, so that a chunk in the wrong place would be seen.
`Spec` implements `MediaDistribution!Spec` (`BytesAreTheFile`): what any page holds are parts
of files their owners imported, each at its place, however channels break and requests
overlap. `Lingers` is an assumption about a serve that still reads when its peer is
detached and attached again: with TRUE it would pass the generation fence, since
generations start again at 1 (see "Known behaviours"); the run has FALSE. Images (whole
files), unknown sizes, changes of role and `destroy` are left out.

### PeerChannel, MessageQueue, Workspace, CrdtRelay, PeerWorkspace

`PeerChannel` has the sender's side with its backpressure (`waitForBufferedAmountLow`),
the browser's buffer, the wire and the receiver that puts fragments together, for the
resource transport and the CRDT transport of one connection. Each implements
`MessageQueue`, with a cost of one message per refused send; `ChannelsDeliver` is both
refinements, including the liveness of `MessageQueue`.

`Workspace` has the workers of two rooms, each with a database of its own, and the
database of the identity they share. Opening is several steps with a commit at the
end; a worker may stop or fail between any two. `OrderReplayBatches` is the order of
`orderCrdtReplayBatchesForDelivery`.

`CrdtRelay` has the relay of the harness: assertions on packets and action traces, the
log with its limit, ids seen, synchronous fan-out, and the transport of a replica that
pauses, holds and flushes. `PeerWorkspace` runs the three beside each other in one
model checking run; they share no state, so that their properties are those of each.

### Timeline

`graph` holds sequences of projects, tracks, clips, resources, texts and effects, with both
ends of every relation, as the declared relations of the models have them. Every
command of the models is an operator on the graph (`Split`, `MoveToTrack`, `AppendResource`,
`ParkIncoming`, ...) and an action that applies it; `session` is a tab's session root, which
tabs of one browser share unless they have a peer id of their own. A drag (`Grab`, `DragBy`,
`Drop`, `CommitDrag`, `CancelDrag`) is what `ClipItem` does across several commands. Times are
half tenths of a second, so that rounding to tenths shows; `strict` says whether the
store rejects a change that the clip timing aggregate finds invalid. A scene has a set of
commands and a number of them. `NodesExist`, `PrimaryTracks`, `TracksMirror`, `ClipsMirror`,
`MediaMirror`, `TextsMirror` and `EffectsMirror` are the relations of a graph, one by one; the
last two are claimed of the scenes that park no incoming timing, since the code gives a parked
clip the text and the effects of the one it is parked for (clipTimingActions.ts:217). One scene
parks the timing of a title, with the other five relations and cuts of the shared text.

### PageSync, GraphView, PageView

`PageSync` follows a page through bootstrap, the worker's answer, the mounting of the
editor on the root, the publication of shapes, and a change of authority to another
worker or another session, with the messages of both directions in FIFO queues.
`Reset` is `resetGraph` with what the page runtime forgets. The graph is cut down to
two ways from the root to a clip and two from a clip to its leaves, each once by a single
relation and once by a list.

`GraphView` follows one update through the receiver: dictionary (`SetDict`), numbers and
names (`ResolveName`), storing (`ApplyAttrs`, `ApplyRel`), dirty names, the listeners that are
called, and the components that look again or are mounted (`Below`, `Rendered`). The worker's
stream is external and may send its messages in any order; one key stands for a word
for the life of a stream. `PageView` puts the two side by side in one run; they share
no state.

### EditorTasks

Each tab has its copy of the graph, its table of tasks, its executors and FIFO queues to
and from the worker; the worker has sessions with requests and progress, and projects
with resources. Exports go from the session to every tab; imports are started by a tab
or asked of the session. Steps of an executor between two awaits are one action.

### Review

`kernel` is what the external replication layer knows of the conflicts, `feed` its reports
on their way; `items` and `sessions` are the root's; `page` what the user sees, with the
draft of the inspector. What a conflict is about is part of the scene. Decisions write
the graph and resolve, as the actions in `models/Project`, `Clip` and `Resource` do.

### ClipFrames, Preview, ExportRender, Rendering

`ClipFrames` has the pure functions that preview and export share, with fades and
keyframes as exact fractions. `Preview` has the session's cursor and buffer, the commit of a
page with its effects, each media element (loaded, playing, seeking) and the queue of the
canvas worker. `ExportRender` has the three ways of `exportRenderer.ts` with what may fail in
each, inside and outside of its try blocks. `held` is what is open: the encoders, the context
of the sound, the stream of the canvas, the recorder. Of each video `cache` keeps the picture
it shows (`at`, or `Blank` while it has none), its `currentTime` (`goal`) and whether it plays;
the two differ until a seek lands, or until the first picture has come after the metadata. A
frame is prepared layer by layer: `SeekVideo` sets the goal and awaits, `PrepareVideo` goes on
when the seek has landed or after 250 ms, and tells the video of a recorder to play.
From then on it runs: in `PlayOn` while a later layer of the frame awaits a load or a seek, and
in `Pace` between two frames. `Rendering` is one of the two parts under edits.

## 3. What the runs check

| Run | Instance | Shows |
|---|---|---|
| `signaling_room` | 3 peers, 4 sockets, 2 room ids, 3 ticks | `SeniorMemberLeads`, `AttachmentsFresh`, `AnnouncementsCurrent`, `LeadershipIsFenced` |
| `room_peers` | 2 pages, 3 sockets, up to 6 failures of all kinds | `RolesFollowRoom`, `OneServerPerEpoch`, `SignalsStayInTheirEpoch` |
| `room_failover` | 3 pages, up to 2 leave or crash, fair | `FailoverCompletes` |
| `worker_room` | 2 tabs with 2 ports each, 1 remote page, 2 upsets, a log of 1 to 2 batches, 2 packets | `PacketsInOrder`, `AttachedTabIsLeased`, `RoomKeepsTransport`, `LogReachesPeers`, `ChannelsInOrder` |
| `resource_transfer` | a server and 2 clients, files of 1 or 2 chunks, six scenes | `TransfersNeverStall`, `BytesAreTheFile` |
| `timeline` | 1 or 2 tabs, twelve scenes of 4 to 6 commands | `GraphMirrors`, `SplitKeepsMedia`, `AppendInStep` |
| `page_sync` | 1 or 2 tabs, 2 workers, six scenes; 2 dictionaries, 2 roots, 2 clips, 1 text, 6 messages | `ShapesInForce`, `Settles`, `ScreenShowsTheStream` |
| `editor_tasks` | 1 or 2 tabs, 1 or 2 sessions, 2 projects, nine scenes | `TableInStep`, `ExportsEnd`, `ImportsEnd` |
| `review` | 2 projects, 2 clips, 2 conflicts, seven scenes | `ItemsInStep`, `OrderOffersApply`, `ParkClosesGroup` |
| `rendering` | five structures of up to 3 layers over 8 units of time, fair | `MediaFollowsPlayback`, `CanvasAgreesWithStage`, `FramesAreThePreview`, `SoundWhereItBelongs`, `RenderEnds` |
| `peer_workspace` | messages of 2, 0, 3 and 1 frames, 2 packets; 2 rooms, 5 kinds of store; 3 replicas, 2 profiles | `ChannelsDeliver`, `StoresHoldTheirRoom`, `AuthorsKeepTheirName`, `CreatorsFirst`, `NobodyMissesABatch`, `TracesWereDone` |

What the new properties say, in the words of the code:

* `TransfersNeverStall`: while its connections stand, a page that lacks a part of a file
  has a request, a retry or a message about it under way, also after parts were lost with a
  channel or refused with an error; but for a transfer given up after its retries, and one
  evicted for another resource.
* `BytesAreTheFile`: the refinement of `MediaDistribution`.
* `GraphMirrors`: both ends of every relation agree after any interleaving of commands;
  `SplitKeepsMedia`: a cut shows what was shown before, but for half a tenth at the cut;
  `AppendInStep`: what is appended covers nothing, video and its audio start together.
* `ShapesInForce`: with nothing on the way, the worker streams exactly what the registry
  counts and all the page shows; `Settles`: a page at rest has what its worker has or shows
  the error; `ScreenShowsTheStream`: the screen is that of a page rendered anew.
* `TableInStep`: a task is active exactly while its executor runs unreplaced; `ExportsEnd` and
  `ImportsEnd`: at rest, requests and bars are gone and each file was imported once.
* `ItemsInStep`: one item per conflict with its status; `OrderOffersApply`: an offered order
  can be applied however old it is; `ParkClosesGroup`: parking settles the clip.
* `MediaFollowsPlayback`, `CanvasAgreesWithStage`: elements play and stand where the frame on
  the page says, and the canvas shows the same. `FramesAreThePreview`: a frame has the layers,
  source times and opacities that the preview shows at that instant. A video is drawn, once
  its seek has landed, with the picture of its source time, by WebCodecs exactly, by the
  recorder up to its tolerance and the time that the loads and seeks of the same frame were
  awaited, since it runs on meanwhile (frameRenderer.ts:323 against 285 and 321). Of a seek that
  was given up, WebCodecs draws nothing, the first picture or one asked for so far; of the
  recorder nothing is claimed then, nor of a layer that shares its video with a later one, nor
  of a video that runs out. `SoundWhereItBelongs`: a sample in the mix is that of the clip at
  that time. `RenderEnds`: a render ends; a failure inside the try blocks leaves nothing open
  and, but for a failing encoder, no video loaded; one outside of them leaves what the steps before it had
  opened, and no more: the encoder (configure, exportRenderer.ts:300), the encoder of the sound
  (audioExportMixer.ts:267), or the context, the stream and the recorder (555-597).
* `ChannelsDeliver`: the refinements of `MessageQueue`; `StoresHoldTheirRoom`,
  `AuthorsKeepTheirName`: a database belongs to one workspace, its batches to one author;
  `CreatorsFirst`: a replay meets no node before its creator; `NobodyMissesABatch`,
  `TracesWereDone`: the relay loses nothing it still has and passes only sound traces.

The type invariants (`TypeOK` and its like) stand in the modules; those of `SignalingRoom`
and `RoomTransportOwner` are part of the proved invariants.

Each property is also run against a changed definition (`mutants` in PROJECT.json, the
operators marked "Mutant of" in the modules) that breaks it, so that none holds by
the shape of the model.

One run shows that something the repository says does not hold of the code:

| Run | Statement | What the code does |
|---|---|---|
| `worker_split_owner` | E2E-01 "Both peers converge" | the leased tab need not be the tab that has the channels to the other browsers |

### Known behaviours

Reading the code for the models brought up behaviours that a maintainer may want to
know. Those in the models' reach were seen in counterexamples; the properties are stated
so that they do not depend on them, and the scenes of the runs leave out what only these
reach.

* *Room.* A wake-up that still lists replaced sockets may restore another leader
  (docs/p2p-protocol-edge-case-matrix.md:61). A client whose session closed never offers
  again to the same leader (docs/p2p-media-transfer-proof.md:222). A room that lost its
  memory starts at epoch 1 and is ignored by pages that remember a larger one
  (`RoomForgets`). A page whose retries are used up makes itself server
  (edge-case-matrix.md:49).
* *Worker.* CLOSE_SESSION leaves the tab registered with its lease.
* *Media.* A serve that still reads when its peer was detached and attached again passes
  the generation fence (resourceTransferManager.ts:1550). The retry timer resets the count
  of retries, so that MAX_ERROR_RETRIES seldom takes effect. A sender that waits for the
  buffer when its channel closes waits for ever.
* *Timeline.* Trimming a clip shorter than the smallest duration may give a negative
  start (Clip/actions.ts:248). Parking a clip with a text or effects breaks its relations
  (clipTimingActions.ts:217). "Add audio track" makes a video track (TimelineView.tsx:553).
  Ending a drag overwrites a move or cut another tab made meanwhile.
* *Page.* A listener collected before its mount was cleaned up retains shapes that are
  never released (ReactSyncReceiver.ts:809). A page whose authority changes before it is
  ready starts over without a session key (createMiniCutPageSyncRuntime.ts:380). The last
  connection's end detaches the CRDT transport and closes the storage while the booted
  runtime stays. A second change of session before the answer to the first has come may
  leave the page without a root: the RUNTIME_READY of a repeated bootstrap makes it take
  the old session for its own again, and when the user asks once more for the new one the
  worker keeps the stream it has for it and sends no root (createMiniCutDktRuntime.ts:799).
* *Tasks.* Every tab that gets an export request renders and downloads it. Replacing the
  last export drops its task while its executor goes on. Switching the project during an
  import puts its results in the wrong project.
* *Review.* The session of a report of several conflicts is linked to its first new item
  only, so its count is wrong (AppRoot/actions.ts:744). A preview's "current" and "incoming"
  age: deciding the start and then the duration of one resize reverts the first. Inspectors
  have no key, so a draft of one item may be applied to another of its kind.
* *Rendering.* Every tab of a session runs its own playback loop. A stale buffer hides
  edits for up to two seconds. A failed load is cached for the whole export. A recording
  in a hidden tab does not go on. When the recorder or the sound does not start, or an encoder
  cannot be configured, what was opened before stays open, since the try blocks begin later
  (exportRenderer.ts:300, 555-600; audioExportMixer.ts:267). An encoder that fails is closed
  twice, which throws before the videos are unloaded (342). A video may be drawn
  as nothing before its first picture has come. The recorder plays a video while other layers
  of the frame are awaited, and tells one that has ended to play, which starts it over. Two
  clips of one video in a frame are drawn with the picture of the later one.
* *Workspace.* Two workers that start for the first time at once may mint two identities.
  Storage that fails before the open is tried rejects the boot without a FAILED state.
* *Relay.* Unpausing without a flush delivers new packets before old ones; a listener that
  throws stops the fan-out, and the retry is taken for a duplicate.

### Bounds

* *Three peers, four sockets* are what seniority needs: a leader, its successor and a
  third that must not be chosen; the fourth socket is a second connection of one
  peer while the first is still there. Three ticks allow two different join times
  and a tie. Two rooms allow a join for another room.
* *Two pages with six failures* let the room lose and regain every page, and its own
  memory, with all interleavings of what is still under way. Leadership passes and
  comes back. With three pages and failures the state space is out of reach, so
  failover among three is checked with departures only.
* *Two tabs, two ports, two upsets*: one upset makes a tab change its role or lose its
  port, the second hits while the first is being handled. One batch is in the log
  before the room opens, so replay and fresh commits meet. Two packets of the room
  suffice for one to overtake the other. `Retried`: only the retry for the remote page
  comes due, not the one for the channel to a server; both take the same path.

* *Scenes*: the larger modules are checked over a set of scenes (`AllScenes` in their MC
  modules), each an instance that makes one kind of meeting happen: a mirror whose
  channel breaks, a file of another client, a cache of one; a clip cut while it is
  dragged; a tab handed from worker to worker; an export replaced while it renders; two
  conflicts of one edit. A scene has as many steps of its kind as it takes to begin, meet
  and undo, which the mutants confirm: every property is broken by a change of the code
  within these bounds.
* *Two chunks, six request ids*: one chunk in hand and one missing is what planning,
  mirroring and eviction tell apart; ids bound the requests of a channel.
* *Frames of 2, 0, 3 and 1*: a text between binaries, and binaries of one, two and more
  frames, over a buffer of one.
* *A unit of waiting for a frame*: `MaxLate` bounds how long the loads and seeks of one frame
  of the recorder are awaited. With one unit a video that plays leaves its tolerance, which is
  one, and comes back into it by the next seek; the theorem holds for every bound. While an
  export renders, the project is edited once.
* *One change of session*: a page, its worker and its stream then disagree about the
  session at most once. With two changes `Settles` is violated as told above, with three
  `ShapesInForce` too (demands of a session that was left arrive in the stream of the next);
  neither is claimed beyond the bound.
* *Six messages to the screen*: dictionary, root, and four updates, enough to show a
  clip's text, take it away and bring it back.

Deadlock is not an error in these runs: the systems come to rest when the bounds on
failures, packets, commands or messages are used up.

### Fairness

`room_failover` has `WF(Proceed)`, where `Proceed` is any step that happens by
itself (messages delivered and handled, offers and answers sent after their awaits,
ends of sockets noticed). Event loops and the network keep delivering as long as
something is under way; no fairness is assumed of failures, departures or user
actions, and none per page or per message. Since pages may leave only twice, weak
fairness of the whole lets the rest run until all is read.

`rendering` has `WF(Renders)`, the steps of an export: the browser answers a load, a seek or
an encoder, by success or failure, timers fire, and the tab stays visible. It is an
assumption about the browser on which the code relies; what waits for a user is not in
it. `peer_workspace` has weak fairness of the steps of a channel (`ChannelFairness`): the
browser empties its buffer and delivers, and the receiver listens in the end. All other
runs are without fairness: what must eventually happen is stated there about states at
rest, in which nothing is under way (`TransfersNeverStall`, `Settles`, `ExportsEnd`, `ImportsEnd`),
so that it does not depend on a scheduler.

## 4. What is proved

TLAPS checks the following for any sets of peers, sockets, rooms, tabs, remote pages,
replicas, sessions, files, structures, projects and scenes, and any bounds, from the assumptions named
in the modules (`SocketsAssumption`, `NullsAssumption`, `BoundsAssumption`, `PeersAssumption`,
`LeaseAssumption`, `WorkerAssumption`, `WorkspaceAssumption`, `ChannelAssumption`,
`RelayAssumption`, `TasksAssumption`, `PreviewAssumption`, `ExportAssumption`,
`StructuresAssumption`, `ReviewAssumption`, `TimelineAssumption`, `TraceAssumption`,
`PageSyncAssumption`, `GraphViewAssumption`, `StreamAssumption`): null values are not names (`Nobody` is no
identity), bounds are natural numbers, a clip starts, lasts and fades for no less than
nothing, a scene of the review is a project graph with conflicts about clips and tracks
that its projects have, a scene of the timeline opens on a graph whose relations agree, the
nodes a page may be sent are finitely many, and a dictionary gives different words different
numbers that are no words.
The theorems about `SignalingRoom` are in `RoomPeers_proofs`, those about
`RoomTransportOwner` in `WorkerRoom_proofs`, before those of the compositions that use them.

**SignalingRoom** (with `~AllowLinger`). `IInv` is the type, the three state invariants
and two strengthenings: nothing is remembered of a peer outside the room
(`OutsidersBlank`), and nobody joined in the future (`JoinedInThePast`) — without the
latter a newcomer could be senior to the leader. `AttachmentsFresh` carries hibernation:
since every member's socket holds the room as it is, `ensureState` restores exactly it.
From `RoomInvariant` follow `SeniorLeads`, `AttachmentsHoldRoom`, `EveryChangeAnnounced`
and `Fencing`.

**RoomPeers** (with `~AllowLinger`). `FencingWithPeers` carries the fence over to the
composition. `PeersInv` gives the three invariants about pages, for every behaviour in which
the room does not lose its memory, by a restart or by hibernating when it is empty, while a
page remembers an epoch of it or a message names one (`ForgetsNothingNamed`). In other
behaviours, which `RoomForgets` admits, the room counts its epochs from one again; pages
of the old count then ignore the new one, and two may be servers of one number. The theorems
say nothing of these; they are the known behaviour of section 3. That
no two pages are the server of one epoch is not inductive: a page becomes a server because
of an announcement that was made long ago. What is inductive is about *claims*: the room
claims that its leader leads its epoch, an announcement and an offer on their way claim it,
and so does a page for its server. No two claims of an epoch differ (`ClaimsAgree`), and none
is ahead of the room (`ClaimsArePast`), so that the leader the room picks next meets no older
claim. `PagesInStep` says that a page reads epochs in ascending order, each signal after an
announcement of its epoch, and that with all read it knows the room's; from it follow
`RolesFollow` and `SignalsStay`. The proof of the latter failed at first for a good reason: an
offer sent before its page joined again may outlive the memory of an empty room, which
starts over at an epoch already used (18 steps, four sockets, three failures, beyond the
bounds of the run). Where `RoomForgets` is FALSE the room now keeps its memory until all but
joins and byes has been received (`MayForget`).

**RoomTransportOwner.** `IInv` is the type with `LeaseIsLegitimate`, `NoRoomWithoutOwner` and
`SingleOwner`; none of the three is inductive alone, since an election must find the tabs
that the other two speak of. The proof goes through what an election does (`AttachOwnerFacts`,
`KeepLeaseFacts`, `ElectOwnerFacts`) and what remains registered when a tab is taken out of the
sequence of tabs. `PacketOrder` follows from it by the outcome of a step (`StepOutcome`: a
lease is new, ended, refreshed, attached or untouched) and facts about concatenation;
`FreshGenerations` by the same outcome.

**WorkerRoom.** `PacketOrderAmongPorts` needs only the owner's
invariant and that a lease has a generation. `AttachedTabsAreLeased` needs an inductive
invariant (`WorkerInv`) about ports: hellos are posted on ever larger ports and at most
one is under way; what was posted is not about ports not yet opened; a live tab has no
close under way; as long as the hello of the present port is under way the tab holds no
generation, has nothing to read and is not registered with that port; and, once it is
registered with it, the last generation under way to it, or the one it holds, is the one
the coordinator told it. No tab is ever disabled here, as nothing reports an owner lost.
`RoomIsKept` adds `KeepInv`: a lease that is not attached is *owed* something, the
coordinator's order under way to its tab or the tab's answer under way back; and a tab is
registered only with a port that is open or that it has closed itself. A step may take away
what is owed only by putting the next thing in its place (`Serves`).
`ChannelsKeepOrder` adds `LineInv`: what was sent over a channel, what waits for it in its
page and what comes down to that tab make one ascending line of packets, each behind all that
may still be sent before it. A page sends only from the head of the line (`SendInLine`,
`FlushInLine`), the coordinator adds only at its end (`PushedInLine`), and what is left out of
the line of one channel (`Only`) keeps its order (`Filtered`).
`LogIsSent` adds `LogInv`: for each open channel of the leased tab either the log has still to
be read (`Owing`: the tab has not attached under the present generation, its announcement of
the peer is under way, the runtime has not started, or the reading is) or each batch of it is in
a packet for that peer that has gone over the channel, is coming down to the tab or has not left
the coordinator (`Served`). That a peer the worker knows is not forgotten while its channel is
open needs that what a tab reports detached it has dropped (`Own`), also when the report of an
earlier role is received late, and that a tab attaches at most once in a role (`OneOrder`), since
a second order would announce nobody. What a page step does to its tab is stated once
(`Carries`), what the coordinator pushes once for all its steps (`OwnerStepKeepsLog`).

**PeerWorkspace**, one theorem for each of the systems it runs side by side.
`WorkspaceInv`: a worker whose store is open has staged its manifest or found one that
admits the room, and unless two workers created the identity at once (`raced`), whoever is
past reading it has the stored one; hence `StoresAreOfTheirRoom` and `AuthorsAreOne`, over any
number of stops and failures between two steps. `RelayInv` says of each replica that it has
heard, holds while paused, or is still owed what the log has; hence `NobodyMisses`, with what
the recursive delivery gives as a fact about its fold (`DeliverGives`, `FlushGives`).
`OnlyDoneTraces`: the relay lets a trace through when the walk from each frame to its parent
ends at a root; frames sorted by the length of that walk come each after its parent. The
walk is a recursive function, and what is shown of it is shown of the least length at which
it would fail (`LeastNatural`). `PacketsAreAQueue`: the CRDT transport implements the safety part of `MessageQueue`; in
`ChannelInv` the packets sent are those received, on the wire, in the buffer and in the
queue, in this order.

**EditorTasks.** `PageInv` says of one page what its table, its executors and its messages
have to do with each other. The operators that make up a step break it in a known way,
so `PageBut(p, X, Y)` excuses tasks without an executor and bars without an end; dispatch,
replacement and end of a task each have a lemma that says what they excuse or make good.
`Keeps` is what a step leaves of the exports a page owes: one that comes or runs still does,
or its end is on its way. The whole, `TasksInv`, says in whose hands a session's request
(`RequestsHeld`) and bar (`BarsHeld`) are; it needs that numbers are given once (`IdsGiven`,
`AsksOnce`) and that what is still asked for is known to nobody (`AsksForNew`). Hence
`TasksAreTyped`, `TablesAreKept` and `ExportsAreEnded`.

**Rendering.** First the functions: what is picked from a sequence keeps its order and its
members, what is sorted has an order, and the three evaluations of a clip (the preview's,
the export plan's and the canvas worker's, each written on its own in the code) agree.
`Only` and `Sorted` say what `filter` and `sort` return, since of `SelectSeq` and `SortSeq`, which are
recursive, nothing can be proved. `PreviewInv`: the elements of the stage were told the
committed state, and the canvas has painted the committed frame or has it in its queue.
`ExportInv`: every frame drawn is right (`RightFrame`), the frame being prepared has the layers
of its operations, the `currentTime` of the video of each is near the source time of its last
layer by the tolerance and what was awaited since the frame began (`Sought`), unless it
is being sought for another layer or runs out; WebCodecs has asked a video only for what a frame so far
needs (`WasAsked`); and every clip sounds where it belongs. Each wait adds the same to the bound and to the way a video can have gone
(`SoughtMoved`, `LayersMoved`). Hence `StageIsFollowed`, `CanvasIsTheStage`, `FramesArePreviewed` and
`SoundIsInPlace`.

**Review.** `ReviewInv` has two parts. The items: of a conflict that some report still to be
handled mentions, the last such report has the replication layer's status, and of every other
conflict the one item has it (`InStep`); hence `ItemsAreInStep`. The orders: whatever an item
filed under a project offers can be applied there. This is not inductive by itself, it needs
what no step on the graph does — lose a track, or move one to another project (`Sound`,
which each edit, each decision and the layer's own choice among conflicting writes is shown to
be) — and that the project of a report about an order is the project of that order
(`ProjectHintFacts`), for which a conflict's clip must be on the track it was on at first or
gone; hence `OrdersApply`. `ParkingCloses` follows from what a decision is allowed to be
(`DecisionOK`): only parking makes something for a timing conflict, and it resolves all
`ParkTargets`.

**Timeline.** `Mirrored` is inductive: the graph is one (`Graphs`), clips refer to nodes there
are, a project keeps its two primary tracks, both ends of the relations between project and
tracks, track and clips, and project and media agree (`Linked`), texts and effects belong to
the one clip that has them (`Owned`), and no session holds a node there is not (`Sessions`:
nodes are never destroyed, so that what a tab saw earlier stays a node). Each operator on graphs
has a lemma with what it needs of a graph and of its arguments and what it keeps
(`KeepsOwners`), relation by relation, and each command is a chain of operators
(`KeepsTransitive`), also when the store rejects it (`ChangeKeeps`). A clip of no track is the
delicate case: `MoveToTrack` and `RemoveClip` are sent to clips that another tab has deleted.
`ParkIncoming` shares the text and the effects of its clip, so it keeps `Linked` but not `Owned`,
and the invariant claims the latter for the scenes without it. Hence `RelationsAgree`.
`AppendsInStep` follows from what an append adds to the sequence of clips, and from the maximum
of the ends of a track. `CutsKeepMedia` is arithmetic of the two roundings of `splitSelfAt` and
`splitClipAt` (`RoundsUp`, `CutTimes`): the parts' moments are intervals of the clip's, and what
is lost is at most the one moment before the cut.

**GraphView.** An update is a fold over its chunks. That the fold exists and what each chunk
adds is again shown of the least chunk at which it would fail (`FoldExists`, `FoldRuns`); so
what is held under the number of a word is what was sent of the word (`Mirrors`), and what
a chunk changes is dirty in the end (`ChunkIsSeen`). Components that are not called read only what
no chunk changed (`RenderedReaders`), so what they show is what they would find
(`RenderedSame`). `ViewInv` is both: `Mirrors`, and a screen that is rendered anew from the
graph; hence `ScreenIsTheStream`.

**PageSync**, where no scene changes a session more than once (`OneChange`, see "Bounds").
What is mounted and released for a set of nodes is a fold in an order nobody knows;
induction over the set (`SetInduction`) shows what comes out in any order. A `GoodPage` has
mounted what its root and clips hold (`InPlace`), counts no node less often than there are places for
it on the page (`Counted`), and has last asked for a node just when it counts it
(`AsksWhatCounts`). The count may be larger, because of listeners that are called too late.
Every step of the registry keeps that (`Keeps`), as does a page that starts over with
counts of zero while React still holds the old mounts (`StartsOver`). Of the worker's end, `Asked`
says that what the stream is asked for, once it has taken the messages under way, is
what the page asks for now. That needs to know where a connection stands (`Link`): at home in the
session it was opened for (`HomeAt`), left by the page for another session (`SwitchedFrom`),
or with a stream for that one (`Moved`); a stream taken down and made anew forgets what was
asked, so in the first case no root may come twice and in the second nothing may have been
asked yet. Hence `SyncInv` and `ShapesAreInForce`.

Only model-checked, and why:

* Liveness, out of the prover's reach: `FailoverCompletes`, `RenderEnds` and the fair part of
  `ChannelsDeliver`.
* Recursion over data: the library's induction theorems cannot be instantiated, and each
  recursive function needs its own argument from the least number or set at which it would
  fail. That was done for folds and walks; not for `CreatorsFirst` (the replay is ordered
  depth first, as in the code), `ImportsEnd` (counts over a set) and the resource part of
  `ChannelsDeliver`.
* Not attempted: `TransfersNeverStall`, `BytesAreTheFile`, and `Settles`, which needs beside
  `Link` what has still to be sent and received of every relation.

## 5. What is not modelled

`components` in PROJECT.json lists every part with what of it is modelled. Left out:

* External, modelled by what the code relies on: WebRTC, shared workers, Durable Objects,
  IndexedDB, the CRDT library with its conflicts and merges, dkt's runtime, React,
  WebCodecs, MediaRecorder and media elements.
* Pure presentation and numbers without state: colour processing and scopes, layout, read
  models that project attributes, labels and summaries.
* Wiring and stateless glue: the application shell, the choice of an authority, the HTTP
  entry of the signaling worker, Node tools.
* Developer tools, tests, simulations, traces and dumps (`src/dev`, `scripts`, test harnesses,
  the debug bridge), although a large part of the repository's lines.
* Parts of modelled components: ICE candidates, heartbeats, the proxy of server messages,
  import of images as whole files, the worker's buffer of packets that come before it is
  ready (it never drains after the last connection was destroyed, as its listeners are
  not attached again), the manifest's test reset, filters of the review, the scene of
  several tabs that render side by side with imports (`EditorTasks` has each alone).

## 6. Plan

Done: the room, its pages and its transport, the stored workspace, the CRDT channel and
its relay, the project graph, the tasks, the review, rendering and the page with proofs; media
model-checked.

Next, theorems:

1. `MediaDistribution` refined by `ResourceTransfer`: needs that every chunk on the way and
   every open reassembly is a part of an imported file (with `~Lingers`).
2. `Settles` of `PageSync`: `SyncInv` with what the stream has sent of each relation, what of
   it is under way and what the page holds, as `Asked` has it for the other direction.
