------------------------------ MODULE WorkerRoom ------------------------------
(***************************************************************************)
(* One room in the shared worker of one browser, with the browser's tabs:  *)
(* RoomTransportOwner behind the connections of                            *)
(* src/video-editor/dkt/runtime/workerModelRuntime.ts, and in each tab the  *)
(* switching transport of src/video-editor/p2p/P2PAuthorityAdapter.ts, which *)
(* carries the worker's CRDT packets over the tab's data channels.         *)
(*                                                                         *)
(* Every change of a tab's role opens another port to the worker.  A port  *)
(* is a FIFO; what a tab posts on several ports is received in the order it *)
(* is posted.  The signaling room around the tabs is reduced to who leads,  *)
(* WebRTC to channels that open once per role and may break; remote pages  *)
(* are only known by what is sent to them.  Packets from remote pages pass  *)
(* the test Accepts and do not change what is modelled here.               *)
(***************************************************************************)
EXTENDS RoomTransportOwner, SequencesExt

CONSTANTS
  Remotes,    \* pages of the room in other browsers
  NoPage,     \* null value
  MaxPorts,   \* bound on the ports a tab opens
  MaxUpsets,  \* bound on changes of leader, losses, closures and departures
  Outcomes,   \* how opening the workspace may end
  Retried,    \* bound: the peers for whom the retry of a replay may come due
  StoredOps,  \* batches the durable log holds when the workspace is opened
  MaxOps      \* bound on the batches in the durable log

Pages == TabIds \cup Remotes
Keys == Remotes \cup {"server"}  \* the names an adapter has for its channels

ASSUME WorkerAssumption ==
  /\ Kinds = {"crdt"} /\ TabIds \cap Remotes = {} /\ NoPage \notin Pages /\ "server" \notin Pages
  /\ MaxPorts \in Nat /\ MaxUpsets \in Nat /\ MaxOps \in Nat /\ StoredOps \in 0..MaxOps
  /\ Outcomes \subseteq {"READY", "LOCAL_EMPTY_READY", "FAILED"}

VARIABLES
  leader,    \* the page that is the room's server
  upsets,    \* how many upsets there have been
  tab,       \* the state of each tab
  conn,      \* the worker's end of each port
  helloPort, \* the port that tabs.send of the coordinator uses, 0 for none
  boot,      \* how far the worker's runtime has started
  log,       \* how many batches the durable log holds
  content,   \* what the packet of each number holds and whom it is for
  peers,     \* attachedCrdtPeers
  replaying, \* the peers for whom the log is being read
  timers     \* replayRetryTimeouts

roomVars == <<boot, log, content, peers, replaying, timers>>
workerVars == <<vars, leader, upsets, tab, conn, helloPort, roomVars>>

(***************************************************************************)
(* A tab: the port of its present role (0 before it has one), the page that *)
(* serves it, whether its authority client is destroyed after the session  *)
(* was lost, attachedRoomGeneration, crdtTransports ("dropped" channels are *)
(* deleted from it), announcedCrdtPeers, pendingCrdtSends, the numbers of   *)
(* the packets sent over each channel, and the messages under way.         *)
(***************************************************************************)
Ports == 1..MaxPorts
ToWorker == [type: {"hello", "bootstrap", "attached", "peer-attached", "peer-detached", "close"},
             port: Ports, gen: Nat, peers: SUBSET Keys]
ToTab == [gen: Nat, packet: Nat]
Tabs ==
  [life: {"live", "left", "gone"}, port: 0..MaxPorts, server: Pages \cup {NoPage},
   lost: BOOLEAN, gen: Nat, channel: [Keys -> {"none", "open", "broken", "dropped"}],
   announced: SUBSET Keys, unsent: Seq(ToTab), sent: [Keys -> Seq(Nat)],
   up: Seq(ToWorker), down: Seq(ToTab)]

NoChannels == [p \in Keys |-> "none"]
NothingSent == [p \in Keys |-> <<>>]
NewTab ==
  [life |-> "live", port |-> 0, server |-> NoPage, lost |-> FALSE, gen |-> 0,
   channel |-> NoChannels, announced |-> {}, unsent |-> <<>>, sent |-> NothingSent,
   up |-> <<>>, down |-> <<>>]

WorkerInit ==
  /\ Init
  /\ leader \in Pages
  /\ upsets = 0
  /\ tab = [t \in TabIds |-> NewTab]
  /\ conn = [t \in TabIds |-> [i \in Ports |-> "none"]]
  /\ helloPort = [t \in TabIds |-> 0]
  /\ boot = "no"
  /\ log = StoredOps
  /\ content = <<>>
  /\ peers = {} /\ replaying = {} /\ timers = {}

-----------------------------------------------------------------------------
(* The adapter of a tab, as functions of the tab's state a.                 *)

(* sendProductRoomToWorker: a destroyed client drops what it is given.  The   *)
(* announcements of several peers by one handler are one message here.       *)
Say(a, type, about) ==
  IF a.lost THEN a
  ELSE [a EXCEPT !.up = Append(@, [type |-> type, port |-> a.port, gen |-> a.gen, peers |-> about])]
SayOf(a, type, about) == IF about = {} THEN a ELSE Say(a, type, about)

Known(a) == {p \in Keys : a.channel[p] \in {"open", "broken"}}

(* attachCrdtListener for every channel: peers not yet announced are.        *)
Announce(a) ==
  LET new == Known(a) \ a.announced IN
  IF a.gen = 0 THEN a
  ELSE SayOf([a EXCEPT !.announced = @ \cup new], "peer-attached", new)

(* dropCrdtTransport of the channels on which a send has failed. *)
Drop(a, failed) ==
  SayOf([a EXCEPT !.announced = @ \ failed,
                  !.channel = [p \in Keys |-> IF p \in failed THEN "dropped" ELSE @[p]]],
        "peer-detached", failed \cap a.announced)

(* The elements of a sequence at these indices, in their order: what filter returns. *)
Only(seq, indices) ==
  [k \in 1..Cardinality(indices) |-> seq[CHOOSE i \in indices : Cardinality({j \in indices : j <= i}) = k]]

(* The channels in some state that packet m is for; what goes over channel p   *)
(* when the packets ms are sent, the channels that fail, and what must wait.   *)
To(a, m, state) == {p \in content[m.packet].to : a.channel[p] = state}
Over(a, ms, p) ==
  LET taken == Only(ms, {i \in DOMAIN ms : p \in To(a, ms[i], "open")})
  IN [i \in DOMAIN taken |-> taken[i].packet]
Failed(a, ms) == UNION {To(a, ms[i], "broken") : i \in DOMAIN ms}
Waiting(a, ms) == Only(ms, {i \in DOMAIN ms : To(a, ms[i], "open") = {}})

(* Mutant of Send: a packet that waits is put ahead of those that wait longer. *)
SendLast(a, ms) ==
  [Drop(a, Failed(a, ms)) EXCEPT
     !.sent = [p \in Keys |-> @[p] \o Over(a, ms, p)],
     !.unsent = Waiting(a, ms) \o @]

(* sendCrdtPacket for one packet after the other: each goes over every open  *)
(* channel it is for, channels found broken are dropped, and a packet that    *)
(* no channel takes waits.                                                  *)
Send(a, ms) ==
  [Drop(a, Failed(a, ms)) EXCEPT
     !.sent = [p \in Keys |-> @[p] \o Over(a, ms, p)],
     !.unsent = @ \o Waiting(a, ms)]

(* flushPendingCrdtSends: what waits under an older generation is dropped.    *)
Current(a) == Only(a.unsent, {i \in DOMAIN a.unsent : a.unsent[i].gen = a.gen})
Flush(a) == IF a.gen = 0 THEN a ELSE Send([a EXCEPT !.unsent = <<>>], Current(a))

(* ATTACH_WEBRTC in handleProductRoomFromWorker *)
Attach(a, g) == Say(Flush(Announce([a EXCEPT !.gen = g])), "attached", {})

(* Mutant of Activated: attachedRoomGeneration outlives the role. *)
ActivatedAttached(a, server) ==
  Say(Say([NewTab EXCEPT !.port = a.port + 1, !.server = server, !.up = a.up, !.gen = a.gen],
          "hello", {}), "bootstrap", {})

(* activateClient and activateRealTransport: another port.  The old client is *)
(* destroyed first, so the peers that detachCrdtListeners reports detached    *)
(* are not heard of; the cached BOOTSTRAP follows the hello.                 *)
Activated(a, server) ==
  Say(Say([NewTab EXCEPT !.port = a.port + 1, !.server = server, !.up = a.up],
          "hello", {}), "bootstrap", {})

-----------------------------------------------------------------------------
(* What the coordinator sends to a tab in a step that takes the tabs to ts:  *)
(* ATTACH_WEBRTC under a new generation, then the packets it hands over.     *)
Pushed(t) ==
  IF lease' = NoLease \/ lease'.tab # t THEN <<>>
  ELSE (IF generation' > generation THEN <<[gen |-> generation', packet |-> 0]>> ELSE <<>>)
       \o [i \in 1..(Len(carried'["crdt"]) - Len(carried["crdt"])) |->
             [gen |-> lease'.generation, packet |-> carried'["crdt"][Len(carried["crdt"]) + i]]]

Listens(ts, t) ==
  /\ ts[t].life = "live" /\ ~ts[t].lost
  /\ ts[t].port # 0 /\ helloPort'[t] = ts[t].port
  /\ conn'[t][ts[t].port] \in {"open", "session"}

Deliver(ts) ==
  tab' = [t \in TabIds |->
            IF Listens(ts, t) THEN [ts[t] EXCEPT !.down = @ \o Pushed(t)] ELSE ts[t]]

-----------------------------------------------------------------------------
(* The page of tab t.                                                       *)

Upset == upsets < MaxUpsets /\ upsets' = upsets + 1

(* Another page leads the room: the former leader has left it, or has been   *)
(* out of it for a while.                                                   *)
LeaderChanges(p) ==
  /\ p # leader
  /\ p \in TabIds => tab[p].life = "live"
  /\ leader' = p /\ Upset
  /\ UNCHANGED <<vars, tab, conn, helloPort, roomVars>>

(* onBecomeServer, or onBecomeClient once the session with the leader opens. *)
Activate(t) ==
  /\ tab[t].life = "live" /\ tab[t].port < MaxPorts
  /\ tab[t].server # leader
  /\ leader \in TabIds \ {t} => tab[leader].server = leader /\ tab[leader].life = "live"
  /\ tab' = [tab EXCEPT ![t] = Activated(tab[t], leader)]
  /\ UNCHANGED <<vars, leader, upsets, conn, helloPort, roomVars>>

(* onSessionLost: the authority client is destroyed, its listeners cleared.  *)
SessionLost(t) ==
  /\ tab[t].life = "live" /\ tab[t].port # 0 /\ tab[t].server # t /\ ~tab[t].lost
  /\ tab' = [tab EXCEPT ![t] = [@ EXCEPT !.lost = TRUE, !.down = <<>>]]
  /\ Upset /\ UNCHANGED <<vars, leader, conn, helloPort, roomVars>>

(* The keys under which t may get channels in its role, while both ends have *)
(* the roles that the present leader gives them.  The channels of a server to *)
(* tabs of its own browser are left out: those have the same worker.          *)
Offered(t) ==
  IF tab[t].server # leader THEN {}
  ELSE IF leader = t THEN Remotes
  ELSE {"server"}

(* onClientCrdtTransport or onServerCrdtTransport, then attachCrdtListeners. *)
ChannelOpens(t, p) ==
  /\ tab[t].life = "live" /\ tab[t].port # 0
  /\ p \in Offered(t) /\ tab[t].channel[p] = "none"
  /\ tab' = [tab EXCEPT ![t] = Flush(Announce([@ EXCEPT !.channel[p] = "open"]))]
  /\ UNCHANGED <<vars, leader, upsets, conn, helloPort, roomVars>>

(* A channel closes; the adapter will notice when it sends.                  *)
ChannelBreaks(t, p) ==
  /\ tab[t].channel[p] = "open"
  /\ tab' = [tab EXCEPT ![t].channel[p] = "broken"]
  /\ Upset /\ UNCHANGED <<vars, leader, conn, helloPort, roomVars>>

(* handleProductRoomFromWorker: ATTACH_WEBRTC, and CRDT_SEND, which is       *)
(* ignored under another generation.                                        *)
Read(t) ==
  /\ tab[t].down # <<>>
  /\ LET m == Head(tab[t].down)
         a == [tab[t] EXCEPT !.down = Tail(@)]
     IN tab' = [tab EXCEPT ![t] = IF m.packet = 0 THEN Attach(a, m.gen)
                                  ELSE IF m.gen = a.gen THEN Send(a, <<m>>) ELSE a]
  /\ UNCHANGED <<vars, leader, upsets, conn, helloPort, roomVars>>

(* The worker lives as long as some other tab uses it. *)
WorkerOutlives(t) ==
  \E u \in TabIds \ {t} : \E i \in Ports : tab[u].life = "live" /\ conn[u][i] \in {"open", "session"}

Departed(a, life) ==
  [NewTab EXCEPT !.life = life, !.port = a.port, !.up = a.up]

(* The page is closed or crashes; what it has posted will be received.       *)
PageGone(t) ==
  /\ tab[t].life = "live" /\ WorkerOutlives(t)
  /\ tab' = [tab EXCEPT ![t] = Departed(@, "gone")]
  /\ Upset /\ UNCHANGED <<vars, leader, conn, helloPort, roomVars>>

(* destroy of the page runtime: the editor is left, the page stays open.     *)
CloseSession(t) ==
  /\ tab[t].life = "live" /\ tab[t].port # 0 /\ WorkerOutlives(t)
  /\ tab' = [tab EXCEPT ![t] = Departed(Say(@, "close", {}), "left")]
  /\ Upset /\ UNCHANGED <<vars, leader, conn, helloPort, roomVars>>

-----------------------------------------------------------------------------
(* The worker.                                                              *)

(* The first message that t has posted is received, and is of this type.  No   *)
(* tab posts on a port it has left behind, which is all the worker closes.    *)
Message(t) == Head(tab[t].up)
Rest(t) == [tab EXCEPT ![t].up = Tail(@)]
Takes(t, type) == tab[t].up # <<>> /\ Message(t).type = type

(* TAB_HELLO: the tab is registered with the port it comes from. *)
ReceiveHello(t) ==
  /\ Takes(t, "hello")
  /\ conn' = [conn EXCEPT ![t][Message(t).port] = "open"]
  /\ helloPort' = [helloPort EXCEPT ![t] = Message(t).port]
  /\ RegisterTab(t, TRUE)
  /\ Deliver(Rest(t))
  /\ UNCHANGED <<leader, upsets, roomVars>>

(* BOOTSTRAP: the connection has a session; the first one starts the runtime. *)
ReceiveBootstrap(t) ==
  /\ Takes(t, "bootstrap")
  /\ conn' = [conn EXCEPT ![t][Message(t).port] = "session"]
  /\ boot' = IF boot = "no" THEN "opening" ELSE boot
  /\ tab' = Rest(t)
  /\ UNCHANGED <<vars, leader, upsets, helloPort, log, content, peers, replaying, timers>>

(* WEBRTC_STATUS *)
ReceiveAttached(t) ==
  /\ Takes(t, "attached")
  /\ OwnerAttached(t, Message(t).gen) \/ (~Accepts(t, Message(t).gen) /\ UNCHANGED vars)
  /\ UNCHANGED <<leader, upsets, conn, helloPort, roomVars>>
  /\ Deliver(Rest(t))

(* The log is read for the peers ps, once the runtime has attached to the room. *)
ReplayTo(ps) == replaying' = IF boot = "running" THEN replaying \cup ps ELSE replaying

(* CRDT_PEER_ATTACHED *)
ReceivePeerAttached(t) ==
  /\ Takes(t, "peer-attached")
  /\ IF Accepts(t, Message(t).gen)
     THEN /\ peers' = peers \cup Message(t).peers
          /\ timers' = timers \cup Message(t).peers
          /\ ReplayTo(Message(t).peers)
     ELSE UNCHANGED <<peers, timers, replaying>>
  /\ tab' = Rest(t)
  /\ UNCHANGED <<vars, leader, upsets, conn, helloPort, boot, log, content>>

(* CRDT_PEER_DETACHED *)
ReceivePeerDetached(t) ==
  /\ Takes(t, "peer-detached")
  /\ LET gone == IF Accepts(t, Message(t).gen) THEN Message(t).peers ELSE {}
     IN peers' = peers \ gone /\ timers' = timers \ gone
  /\ tab' = Rest(t)
  /\ UNCHANGED <<vars, leader, upsets, conn, helloPort, boot, log, content, replaying>>

(* CLOSE_SESSION: the runtime's connection is destroyed and closes the port; *)
(* the tab stays registered.                                                *)
ReceiveClose(t) ==
  /\ Takes(t, "close")
  /\ conn' = [conn EXCEPT ![t][Message(t).port] = "closed"]
  /\ tab' = Rest(t)
  /\ UNCHANGED <<vars, leader, upsets, helloPort, roomVars>>

(* The storage is open, or cannot be opened: the coordinator hears of it      *)
(* through the connections that have a session at this moment.              *)
WorkspaceOpens(state) ==
  /\ boot = "opening"
  /\ boot' = IF state = "FAILED" THEN "failed" ELSE "ready"
  /\ IF \E t \in TabIds, i \in Ports : conn[t][i] = "session"
     THEN SetWorkspaceOpenState(state) ELSE UNCHANGED vars
  /\ UNCHANGED <<leader, upsets, conn, helloPort, log, content, peers, replaying, timers>>
  /\ Deliver(tab)

(* Mutant of RuntimeStarts: peers announced before are not served. *)
RuntimeStartsLate ==
  /\ boot = "ready"
  /\ boot' = "running"
  /\ UNCHANGED <<vars, leader, upsets, tab, conn, helloPort, log, content, peers, replaying, timers>>

(* attach of the room's CRDT transport at the end of bootstrapApp. *)
RuntimeStarts ==
  /\ boot = "ready"
  /\ boot' = "running"
  /\ replaying' = replaying \cup peers
  /\ UNCHANGED <<vars, leader, upsets, tab, conn, helloPort, log, content, peers, timers>>

(* sendCrdtPacket of the coordinator, with what the packet holds. *)
SendBatches(batches, to) ==
  /\ SendPacket("crdt")
  /\ content' = Append(content, [batches |-> batches, to |-> to])
  /\ UNCHANGED <<leader, upsets, conn, helloPort, boot, peers>>
  /\ Deliver(tab)

(* An action of some page is applied: its batch is stored and sent to all. *)
Commit ==
  /\ boot = "running" /\ log < MaxOps
  /\ log' = log + 1
  /\ SendBatches({log + 1}, Keys)
  /\ UNCHANGED <<replaying, timers>>

(* replayDurableLog, once the log has been read. *)
Replay(p) ==
  /\ p \in replaying
  /\ replaying' = replaying \ {p}
  /\ IF log = 0
     THEN UNCHANGED <<vars, leader, upsets, tab, conn, helloPort, boot, content, peers>>
     ELSE SendBatches(1..log, {p})
  /\ UNCHANGED <<log, timers>>

(* The retry of onCrdtPeerAttached. *)
RetryReplay(p) ==
  /\ p \in timers \cap Retried
  /\ timers' = timers \ {p}
  /\ ReplayTo({p} \cap peers)
  /\ UNCHANGED <<vars, leader, upsets, tab, conn, helloPort, boot, log, content, peers>>

(* Mutant of Disconnect: the tab stays registered. *)
DisconnectOnly(t, i) ==
  /\ conn[t][i] \in {"open", "session"}
  /\ conn' = [conn EXCEPT ![t][i] = "gone"]
  /\ UNCHANGED <<vars, helloPort, leader, tab, roomVars>>

(* destroy of the tracked connection of port i of t: the tab is unregistered, *)
(* whichever port it is registered with.                                    *)
Disconnect(t, i) ==
  /\ conn[t][i] \in {"open", "session"}
  /\ conn' = [conn EXCEPT ![t][i] = "gone"]
  /\ helloPort' = [helloPort EXCEPT ![t] = 0]
  /\ UnregisterTab(t) \/ (t \notin Registered /\ UNCHANGED vars)
  /\ UNCHANGED <<leader, roomVars>>
  /\ Deliver(tab)

(* The browser closes the ports of a page that is gone. *)
PortCloses(t, i) == tab[t].life = "gone" /\ tab[t].up = <<>> /\ Disconnect(t, i) /\ UNCHANGED upsets

(* A page does not close the ports it replaces or leaves; the browser closes  *)
(* them when it collects the garbage.                                       *)
PortCollected(t, i) ==
  /\ tab[t].life = "left" \/ (tab[t].life = "live" /\ i < tab[t].port)
  /\ \A j \in DOMAIN tab[t].up : tab[t].up[j].port # i
  /\ Disconnect(t, i) /\ Upset

-----------------------------------------------------------------------------
Receive(t) ==
  \/ ReceiveHello(t) \/ ReceiveBootstrap(t) \/ ReceiveAttached(t)
  \/ ReceivePeerAttached(t) \/ ReceivePeerDetached(t) \/ ReceiveClose(t)

WorkerNext ==
  \/ \E p \in Pages : LeaderChanges(p)
  \/ \E t \in TabIds :
       \/ Activate(t) \/ SessionLost(t) \/ Read(t) \/ PageGone(t) \/ CloseSession(t)
       \/ \E p \in Keys : ChannelOpens(t, p) \/ ChannelBreaks(t, p)
       \/ Receive(t)
       \/ \E i \in Ports : PortCloses(t, i) \/ PortCollected(t, i)
  \/ \E state \in Outcomes : WorkspaceOpens(state)
  \/ RuntimeStarts
  \/ Commit
  \/ \E p \in Keys : Replay(p) \/ RetryReplay(p)

WorkerSpec == WorkerInit /\ [][WorkerNext]_workerVars

-----------------------------------------------------------------------------
WorkerTypeOK ==
  /\ leader \in Pages /\ upsets \in 0..MaxUpsets
  /\ tab \in [TabIds -> Tabs]
  /\ conn \in [TabIds -> [Ports -> {"none", "open", "session", "closed", "gone"}]]
  /\ helloPort \in [TabIds -> 0..MaxPorts]
  /\ boot \in {"no", "opening", "ready", "running", "failed"}
  /\ log \in 0..MaxOps
  /\ content \in Seq([batches: SUBSET (1..MaxOps), to: SUBSET Keys])
  /\ Len(content) = issued["crdt"]
  /\ peers \subseteq Keys /\ replaying \subseteq Keys /\ timers \subseteq peers

(* The worker and a tab are in touch: the tab is registered with the port it  *)
(* listens to.                                                              *)
InTouch(t) ==
  /\ tab[t].life = "live" /\ ~tab[t].lost
  /\ tab[t].port # 0 /\ helloPort[t] = tab[t].port
  /\ conn[t][tab[t].port] \in {"open", "session"}

(* Everything posted is read, every replay sent, every dead port closed.     *)
Settled ==
  /\ replaying = {}
  /\ \A t \in TabIds :
       /\ tab[t].up = <<>> /\ tab[t].down = <<>>
       /\ tab[t].life = "gone" => \A i \in Ports : conn[t][i] \notin {"open", "session"}

(* A tab that is in touch with the worker and has read its messages holds a  *)
(* transport generation only if it is leased the transport under it.         *)
AttachedTabIsLeased ==
  \A t \in TabIds :
    InTouch(t) /\ tab[t].down = <<>> /\ tab[t].gen # 0 => Accepts(t, tab[t].gen)

(* The workspace is open and some tab in touch: then one of them has the      *)
(* transport, unless it is stuck with a tab that has left its session or     *)
(* waits for another role.                                                  *)
RoomKeepsTransport ==
  Settled /\ CanAttach(openState) /\ (\E t \in TabIds : InTouch(t)) =>
    /\ lease # NoLease
    /\ \/ InTouch(lease.tab) /\ lease.attached /\ tab[lease.tab].gen = lease.generation
       \/ tab[lease.tab].life = "left"
       \/ tab[lease.tab].lost

SentOver(t, p) == UNION {content[n].batches : n \in ToSet(tab[t].sent[p])}

(* Every batch of the log has gone out over every open channel of the leased  *)
(* tab, whether it was committed before the channel opened, before the tab   *)
(* was leased the transport, or while packets waited.                        *)
LogReachesPeers ==
  Settled /\ boot = "running" /\ lease # NoLease /\ InTouch(lease.tab) =>
    \A p \in Keys : tab[lease.tab].channel[p] = "open" => 1..log \subseteq SentOver(lease.tab, p)

(* Packets go over a channel in the order in which the room sent them, also   *)
(* those that waited in the worker or in the tab.                            *)
ChannelsInOrder ==
  \A t \in TabIds, p \in Keys :
    LET s == tab[t].sent[p] IN \A i \in 1..(Len(s) - 1) : s[i] < s[i + 1]

(* Where a channel of tab t leads: the remote page behind the key p. *)
Leads(t, p) == IF p = "server" THEN tab[t].server ELSE p
ReachedBy(t) ==
  {Leads(t, p) : p \in {q \in Keys : tab[t].channel[q] = "open"}} \cap Remotes

(* "Both peers converge project count after mutation"                         *)
(* (p2p-protocol-edge-case-matrix.md:65): a remote page with an open channel  *)
(* to a tab of this browser is sent the browser's batches.                   *)
RemotesAreSent ==
  Settled /\ boot = "running" /\ lease # NoLease /\ InTouch(lease.tab) =>
    \A t \in TabIds : InTouch(t) /\ tab[t].server = leader =>
      \A r \in ReachedBy(t) :
        \E u \in TabIds, p \in Keys : Leads(u, p) = r /\ 1..log \subseteq SentOver(u, p)
=============================================================================
