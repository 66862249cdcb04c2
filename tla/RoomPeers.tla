------------------------------- MODULE RoomPeers -------------------------------
(***************************************************************************)
(* The pages of a room around their signaling object: SignalingRoom with   *)
(* the client's half of the signaling connection,                          *)
(* src/video-editor/p2p/BridgeSignaling.ts (createDoSignalingFactory), and  *)
(* the roles and WebRTC sessions of src/video-editor/p2p/PageP2PManager.ts. *)
(*                                                                         *)
(* Each socket is a FIFO in both directions that either side may lose, with *)
(* what is still under way; the two sides notice separately.  The epochs    *)
(* that the bridge and the manager remember are updated together under the  *)
(* same test and are one field here.  WebRTC itself is external: a session  *)
(* opens once the offer is answered, and may break.  ICE candidates, which  *)
(* follow offers and answers, are left out.                                 *)
(***************************************************************************)
EXTENDS SignalingRoom

CONSTANTS
  MaxRetries,    \* MAX_CONNECT_RETRIES
  RoomForgets,   \* may the room lose its memory while a page remembers it?
  Faults,        \* what may go wrong: "socket", "session", "page", "room"
  MaxFaults      \* bound on how often something does

ASSUME PeersAssumption ==
  /\ MaxRetries \in Nat /\ RoomForgets \in BOOLEAN /\ MaxFaults \in Nat
  /\ Faults \subseteq {"socket", "session", "page", "room"}

VARIABLES
  up,    \* what the page has sent on a socket and the room has not received
  down,  \* what the room has sent on a socket and the page has not read
  page,  \* the state of each peer's page
  faults \* how many failures there have been

peerVars == <<vars, up, down, page, faults>>

NoEpoch == -1

(***************************************************************************)
(* A page: link is its WebSocket's state ("down": retries are exhausted),   *)
(* serving the state of the peer connections it has as server, session that *)
(* of the one it has as client, lost whether its end has been reported.     *)
(***************************************************************************)
Pages ==
  [alive: BOOLEAN, link: {"connecting", "up", "down"}, sock: Sockets \cup {NoSocket},
   retry: 0..MaxRetries, known: SUBSET Peers, epoch: Nat \cup {NoEpoch},
   role: {"undecided", "server", "client"}, server: Peers \cup {NoPeer},
   session: {"none", "starting", "offered", "answered", "open", "closed"}, lost: BOOLEAN,
   serving: [Peers -> {"none", "answering", "answered"}]]

NobodyServed == [p \in Peers |-> "none"]
NewPage ==
  [alive |-> TRUE, link |-> "connecting", sock |-> NoSocket, retry |-> 0, known |-> {},
   epoch |-> NoEpoch, role |-> "undecided", server |-> NoPeer, session |-> "none",
   lost |-> FALSE, serving |-> NobodyServed]

PeersInit ==
  /\ Init
  /\ up = [s \in Sockets |-> <<>>]
  /\ down = [s \in Sockets |-> <<>>]
  /\ page = [p \in Peers |-> NewPage]
  /\ faults = 0

-----------------------------------------------------------------------------
(* The manager's event handlers, as functions of the page's state.           *)
NotifySessionLost(pg) ==
  IF pg.role = "client" THEN [pg EXCEPT !.lost = TRUE] ELSE pg

BecomeServer(pg) ==
  IF pg.role = "server" THEN pg
  ELSE [pg EXCEPT !.role = "server", !.server = NoPeer, !.session = "none",
                  !.lost = FALSE]

BecomeClient(pg, p) ==
  [pg EXCEPT !.role = "client", !.server = p, !.session = "starting",
             !.lost = FALSE, !.serving = NobodyServed]

(* Mutant of OnLeaderAssigned: a server does not step down. *)
OnLeaderAssignedOnce(pg, me, lead, e) ==
  IF lead = NoPeer \/ e < pg.epoch THEN pg
  ELSE LET informed == [pg EXCEPT !.epoch = e] IN
       IF lead = me THEN BecomeServer(informed)
       ELSE IF pg.role = "server" \/ (pg.role = "client" /\ pg.server = lead) THEN informed
       ELSE BecomeClient(informed, lead)

(* Mutant of OnLeaderAssigned: the bridge forgets to remember the epoch.      *)
OnLeaderAssignedUnrecorded(pg, me, lead, e) ==
  IF lead = NoPeer \/ e < pg.epoch THEN pg
  ELSE IF lead = me THEN BecomeServer(pg)
  ELSE IF pg.role = "client" /\ pg.server = lead THEN pg
  ELSE BecomeClient(pg, lead)

(* notifyLeaderAssigned of the bridge, then onLeaderAssigned of the manager. *)
OnLeaderAssigned(pg, me, lead, e) ==
  IF lead = NoPeer \/ e < pg.epoch THEN pg
  ELSE LET informed == [pg EXCEPT !.epoch = e] IN
       IF lead = me THEN BecomeServer(informed)
       ELSE IF pg.role = "client" /\ pg.server = lead THEN informed
       ELSE BecomeClient(informed, lead)

(* onError of the manager: signaling is given up. *)
OnSignalingError(pg) == IF pg.role = "undecided" THEN BecomeServer(pg) ELSE pg

(* reconnect and scheduleRetry of the bridge. *)
Reconnect(pg) ==
  IF pg.retry >= MaxRetries
  THEN OnSignalingError([pg EXCEPT !.link = "down", !.sock = NoSocket])
  ELSE [pg EXCEPT !.link = "connecting", !.sock = NoSocket, !.retry = @ + 1]

(* onMemberLeft of the manager for all that are gone: the server of a client *)
(* is reported lost, the connection of another one closed (closePeer).       *)
OnMembersLeft(pg, gone) ==
  [(IF pg.server \in gone THEN NotifySessionLost(pg) ELSE pg)
     EXCEPT !.serving = [p \in Peers |-> IF p \in gone THEN "none" ELSE @[p]]]

(* A "room-state" as the bridge reads it: members that are gone, then the    *)
(* leader.                                                                   *)
OnRoomState(pg, me, m) ==
  LET others == m.peers \ {me}
      left == OnMembersLeft(pg, pg.known \ others)
  IN OnLeaderAssigned([left EXCEPT !.known = others, !.retry = 0], me, m.leader, m.epoch)

(* handleSignal.  An answer needs the peer connection it answers. *)
OnSignal(pg, m) ==
  IF m.type = "offer" /\ pg.role = "server"
  THEN [pg EXCEPT !.serving[m.from] = "answering"]
  ELSE IF m.type = "answer" /\ pg.role = "client" /\ pg.server = m.from /\ pg.session = "offered"
  THEN [pg EXCEPT !.session = "answered"]
  ELSE IF m.type = "server-leaving" /\ pg.role = "client" /\ pg.server = m.from
  THEN NotifySessionLost(pg)
  ELSE pg

(* onMessage *)
OnMessage(pg, me, m) ==
  IF m.type = "room-state" THEN OnRoomState(pg, me, m)
  ELSE IF m.type = "leader-changed" THEN OnLeaderAssigned(pg, me, m.leader, m.epoch)
  ELSE OnSignal(pg, m)

-----------------------------------------------------------------------------
Uses(p, s) == page[p].alive /\ page[p].sock = s
Sends(p, m) == IF page[p].link = "up" THEN [up EXCEPT ![page[p].sock] = Append(@, m)] ELSE up

(* What the room sends reaches a page as long as it uses the socket.         *)
Push(targets, m) ==
  down' = [s \in Sockets |-> IF s \in targets /\ Uses(Owner(s), s)
                             THEN Append(down[s], m) ELSE down[s]]
PushToMembers(m) == Push({sock'[p] : p \in {q \in Peers : sock'[q] # NoSocket}}, m)

(* connect: the next socket opens and the page joins. *)
Connect(s) ==
  LET p == Owner(s) IN
  /\ page[p].alive /\ page[p].link = "connecting"
  /\ Accept(s)
  /\ page' = [page EXCEPT ![p].link = "up", ![p].sock = s]
  /\ up' = [up EXCEPT ![s] = <<[type |-> "join"]>>]
  /\ UNCHANGED down

(* connect: the next socket does not open. *)
ConnectFails(s) ==
  LET p == Owner(s) IN
  /\ page[p].alive /\ page[p].link = "connecting"
  /\ Unreachable(s)
  /\ page' = [page EXCEPT ![p] = Reconnect(@)]
  /\ UNCHANGED <<up, down>>

(* onError and onClose: the page's socket fails, with what it has not read.  *)
SocketFails(p) ==
  /\ page[p].alive /\ page[p].link = "up"
  /\ page' = [page EXCEPT ![p] = Reconnect(@)]
  /\ down' = [down EXCEPT ![page[p].sock] = <<>>]
  /\ UNCHANGED <<vars, up>>

Read(p) ==
  LET s == page[p].sock IN
  /\ page[p].alive /\ page[p].link = "up"
  /\ down[s] # <<>>
  /\ page' = [page EXCEPT ![p] = OnMessage(@, p, Head(down[s]))]
  /\ down' = [down EXCEPT ![s] = Tail(@)]
  /\ UNCHANGED <<vars, up>>

(* becomeClient's promise chain: the offer exists and is sent, if the page   *)
(* is connected, under the epoch of this moment.                             *)
SendOffer(p) ==
  /\ page[p].alive /\ page[p].session = "starting"
  /\ page' = [page EXCEPT ![p].session = "offered"]
  /\ up' = Sends(p, [type |-> "offer", epoch |-> page[p].epoch, to |-> page[p].server])
  /\ UNCHANGED <<vars, down>>

(* handleSignal's promise chain: the answer exists and is sent likewise.     *)
SendAnswer(p, q) ==
  /\ page[p].alive /\ page[p].serving[q] = "answering"
  /\ page' = [page EXCEPT ![p].serving[q] = "answered"]
  /\ up' = Sends(p, [type |-> "answer", epoch |-> page[p].epoch, to |-> q])
  /\ UNCHANGED <<vars, down>>

(* The data channels of an answered session open, at both ends. *)
Serves(q, p) == q \in Peers /\ page[q].alive /\ page[q].serving[p] = "answered"
SessionOpens(p) ==
  /\ page[p].alive /\ page[p].session = "answered"
  /\ Serves(page[p].server, p)
  /\ page' = [page EXCEPT ![p].session = "open", ![p].lost = FALSE]
  /\ UNCHANGED <<vars, up, down>>

(* The connection fails or its channel closes, because the other end is gone *)
(* or the network is.                                                        *)
SessionCloses(p) ==
  /\ page[p].alive /\ page[p].session \in {"answered", "open"}
  /\ page' = [page EXCEPT ![p] = NotifySessionLost([@ EXCEPT !.session = "closed"])]
  /\ UNCHANGED <<vars, up, down>>

(* The watchdog of a session that does not open, or stays disconnected: it   *)
(* closes the connection.  Its error goes no further than the page.          *)
WatchdogFires(p) ==
  /\ page[p].alive
  /\ \/ page[p].session \in {"starting", "offered", "answered"} /\ ~page[p].lost
     \/ page[p].session = "open"
  /\ page' = [page EXCEPT ![p].session = "closed"]
  /\ UNCHANGED <<vars, up, down>>

(* destroy of the manager, and a page that is gone without a word. *)
Leave(p) ==
  LET leaving == IF page[p].role = "server"
                 THEN <<[type |-> "server-leaving",
                         epoch |-> IF page[p].epoch = NoEpoch THEN 0 ELSE page[p].epoch]>>
                 ELSE <<>>
  IN
  /\ page[p].alive
  /\ up' = IF page[p].link = "up"
           THEN [up EXCEPT ![page[p].sock] = @ \o leaving \o <<[type |-> "bye"]>>] ELSE up
  /\ page' = [page EXCEPT ![p].alive = FALSE]
  /\ down' = IF page[p].link = "up" THEN [down EXCEPT ![page[p].sock] = <<>>] ELSE down
  /\ UNCHANGED vars

Crash(p) ==
  /\ page[p].alive
  /\ page' = [page EXCEPT ![p].alive = FALSE]
  /\ down' = IF page[p].link = "up" THEN [down EXCEPT ![page[p].sock] = <<>>] ELSE down
  /\ UNCHANGED <<vars, up>>

-----------------------------------------------------------------------------
(* The room receives the next message of a socket. *)
Receives(s, type) ==
  /\ wsState[s] = "open"
  /\ up[s] # <<>> /\ Head(up[s]).type = type
  /\ up' = [up EXCEPT ![s] = Tail(@)]
  /\ UNCHANGED page

ReceiveJoin(s) ==
  /\ Receives(s, "join")
  /\ \E r \in Rooms : Join(s, r)
  /\ PushToMembers(RoomStateNow)

ReceiveBye(s) ==
  /\ Receives(s, "bye")
  /\ \/ Bye(s) /\ PushToMembers(Farewell(Owner(s)))
     \/ sock[Owner(s)] # s /\ UNCHANGED <<vars, down>>

ReceiveSignal(s) ==
  \E type \in {"offer", "answer", "server-leaving"} :
    /\ Receives(s, type)
    /\ LET m == Head(up[s])
           from == Owner(s)
           targets == IF ~MayRelay(s, m.epoch) THEN {}
                      ELSE IF type = "server-leaving" THEN LeavingTargets(from)
                      ELSE DirectTarget(m.to)
       IN Push(targets, [type |-> type, from |-> from, epoch |-> m.epoch])
    /\ UNCHANGED vars

(* The room notices that a socket is gone; what was under way is lost.       *)
NoticeGone(s) ==
  /\ SocketGone(s)
  /\ up' = [up EXCEPT ![s] = <<>>]
  /\ IF sock[Owner(s)] = s THEN PushToMembers(Farewell(Owner(s))) ELSE UNCHANGED down
  /\ UNCHANGED page

(* The room loses its memory: it is restarted, or hibernates when it is      *)
(* empty.  Unless RoomForgets, only when nothing names an epoch of it any     *)
(* more: no page remembers one, and no message of one is under way.          *)
Remembers(p) == page[p].alive /\ page[p].epoch # NoEpoch
EpochsForgotten ==
  /\ \A p \in Peers : ~Remembers(p)
  /\ \A s \in Sockets : down[s] = <<>>
  /\ \A s \in Sockets : \A i \in DOMAIN up[s] : up[s][i].type \in {"join", "bye"}
MayForget == RoomForgets \/ EpochsForgotten
RoomRestarts ==
  /\ MayForget
  /\ Restart
  /\ up' = [s \in Sockets |-> <<>>]
  /\ UNCHANGED <<page, down>>

EmptyRoomHibernates ==
  /\ MayForget
  /\ Members = {} /\ Hibernate
  /\ UNCHANGED <<page, up, down>>

(* What happens by itself.  A socket or a session whose other end is gone     *)
(* fails by itself.                                                          *)
Proceed ==
  /\ \/ \E s \in Sockets : \/ Connect(s)
                           \/ ReceiveJoin(s) \/ ReceiveBye(s) \/ ReceiveSignal(s)
                           \/ ~Uses(Owner(s), s) /\ NoticeGone(s)
     \/ \E p \in Peers : \/ Read(p)
                         \/ page[p].link = "up" /\ ~Connected(page[p].sock) /\ SocketFails(p)
                         \/ SendOffer(p) \/ \E q \in Peers : SendAnswer(p, q)
                         \/ SessionOpens(p)
                         \/ ~Serves(page[p].server, p) /\ SessionCloses(p)
     \/ EmptyRoomHibernates
  /\ UNCHANGED faults

(* What goes wrong, and pages that leave. *)
Fault(kind) == kind \in Faults /\ faults < MaxFaults /\ faults' = faults + 1

PeersNext ==
  \/ Proceed
  \/ Fault("socket") /\ \E s \in Sockets : ConnectFails(s)
  \/ Fault("socket") /\ \E s \in Sockets : Uses(Owner(s), s) /\ NoticeGone(s)
  \/ Fault("socket") /\ \E p \in Peers :
       page[p].link = "up" /\ Connected(page[p].sock) /\ SocketFails(p)
  \/ Fault("session") /\ \E p \in Peers : Serves(page[p].server, p) /\ SessionCloses(p)
  \/ Fault("session") /\ \E p \in Peers : WatchdogFires(p)
  \/ Fault("page") /\ \E p \in Peers : Leave(p)
  \/ Fault("page") /\ \E p \in Peers : Crash(p)
  \/ Fault("room") /\ RoomRestarts

PeersSpec == PeersInit /\ [][PeersNext]_peerVars

(* The event loops of the pages and of the room, and the network between     *)
(* them, do not stop.                                                        *)
FairPeersSpec == PeersSpec /\ WF_peerVars(Proceed)

-----------------------------------------------------------------------------
(* What a page sends, and what it is sent: announcements, and the signals of *)
(* another page under the epoch of their sender.                             *)
Requests ==
  [type: {"join", "bye"}]
  \cup [type: {"offer"}, epoch: Nat, to: Peers]
  \cup [type: {"answer"}, epoch: Nat \cup {NoEpoch}, to: Peers]
  \cup [type: {"server-leaving"}, epoch: Nat]
Announcements ==
  [type: {"room-state"}, epoch: Nat, leader: Peers \cup {NoPeer}, peers: SUBSET Peers]
  \cup [type: {"leader-changed"}, epoch: Nat, leader: Peers \cup {NoPeer}]
Signals ==
  [type: {"offer"}, from: Peers, epoch: Nat]
  \cup [type: {"answer", "server-leaving"}, from: Peers, epoch: Nat \cup {NoEpoch}]

PeersTypeOK ==
  /\ page \in [Peers -> Pages]
  /\ up \in [Sockets -> Seq(Requests)]
  /\ down \in [Sockets -> Seq(Announcements \cup Signals)]

(* Everything sent has been read and everybody is connected. *)
Settled ==
  /\ \A s \in Sockets : up[s] = <<>> /\ down[s] = <<>>
  /\ \A p \in Peers : IF page[p].alive THEN page[p].link = "up" /\ sock[p] = page[p].sock
                      ELSE p \notin Members

(* "Leader peer becomes server; other peers become client(leaderPeerId)"     *)
(* (docs/p2p-protocol-edge-case-matrix.md:21), whatever was lost before.     *)
LeaderServesTheOthers ==
  Settled => \A p \in Members :
    IF p = leader THEN page[p].role = "server"
    ELSE page[p].role = "client" /\ page[p].server = leader

(* The same, and every page knows the epoch the room will relay its signals in. *)
RolesFollowRoom ==
  LeaderServesTheOthers /\ (Settled => \A p \in Members : page[p].epoch = epoch)

(* No two pages act as server under the leadership of one epoch, also while  *)
(* announcements are still under way.                                        *)
OneServerPerEpoch ==
  \A p, q \in Peers :
    /\ Remembers(p) /\ page[p].role = "server"
    /\ Remembers(q) /\ page[q].role = "server"
    /\ page[p].epoch = page[q].epoch
    => p = q

(* A signal is read in the epoch it was sent in, and an offer by a server:   *)
(* the announcement it depends on has always been read before.              *)
SignalsStayInTheirEpoch ==
  [][\A p \in Peers : Read(p) =>
       LET m == Head(down[page[p].sock]) IN
       m.type \in {"offer", "answer", "server-leaving"} =>
         /\ m.epoch = page[p].epoch
         /\ m.type = "offer" => page[p].role = "server"]_peerVars

(* However pages come and go, those that stay are served in the end: one of   *)
(* them leads and acts as server, and each of the others has an open session  *)
(* with it, which survives all that is still under way.                      *)
Served ==
  \A p \in Peers : page[p].alive =>
    /\ leader \in Peers /\ page[leader].alive
    /\ IF p = leader THEN page[p].role = "server"
       ELSE page[p].role = "client" /\ page[p].server = leader /\ page[p].session = "open"
FailoverCompletes == <>[]Served

=============================================================================
