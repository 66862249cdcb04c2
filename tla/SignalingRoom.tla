---------------------------- MODULE SignalingRoom ----------------------------
(***************************************************************************)
(* The signaling Durable Object of one room: backend/src/do/SignalingRoom.ts. *)
(*                                                                         *)
(* Pages open WebSockets to it, join under their peer id, and are told by  *)
(* "room-state" and "leader-changed" announcements who the members are and *)
(* which of them leads in which epoch.  Between two messages the runtime   *)
(* may drop the object from memory (hibernation); the room is then rebuilt *)
(* from what each socket carries in its attachment.                        *)
(*                                                                         *)
(* A socket is named by the peer whose page opened it and by the number of *)
(* that peer's connection, so one peer may have an old socket the server   *)
(* still holds and a new one.  Handlers run one at a time (none awaits),   *)
(* so each handler is one action.                                          *)
(***************************************************************************)
EXTENDS Integers, Sequences, FiniteSets

CONSTANTS
  Peers,        \* peer ids of the pages that may enter the room
  Sockets,      \* <<p, n>>: the n-th connection of peer p's page
  Rooms,        \* room ids a page may put into its join message
  NoPeer, NoSocket, NoRoom, NoAttachment,   \* null values
  AllowLinger,  \* may getWebSockets list sockets that are closed or left?
  MaxTime       \* bound on Date.now()

ASSUME SocketsAssumption ==
  /\ Sockets \subseteq Peers \X Nat
  /\ NoSocket \notin Sockets
ASSUME NullsAssumption ==
  /\ NoPeer \notin Peers
  /\ NoRoom \notin Rooms
  /\ NoAttachment \notin
       [peer: Peers, joinedAt: Nat, epoch: Nat, leader: Peers \cup {NoPeer},
        room: Rooms \cup {NoRoom}]
ASSUME BoundsAssumption ==
  /\ AllowLinger \in BOOLEAN
  /\ MaxTime \in Nat

Attachments ==
  [peer: Peers, joinedAt: Nat, epoch: Nat, leader: Peers \cup {NoPeer},
   room: Rooms \cup {NoRoom}]

(***************************************************************************)
(* The room announces itself with "room-state" and "leader-changed".  A    *)
(* view is what the announcements sent on a socket so far add up to.       *)
(***************************************************************************)
Views == [epoch: Nat, leader: Peers \cup {NoPeer}, peers: SUBSET Peers]
NoView == [epoch |-> 0, leader |-> NoPeer, peers |-> {}]

Apply(v, m) ==
  IF m.type = "room-state"
  THEN [epoch |-> m.epoch, leader |-> m.leader, peers |-> m.peers]
  ELSE [v EXCEPT !.epoch = m.epoch, !.leader = m.leader]

VARIABLES
  sock,       \* peers map: the socket of each member, NoSocket for the others
  joinedAt,   \* peers map: the join time of each member (0 for the others)
  leader,     \* leaderPeerId
  epoch,      \* epoch
  roomId,     \* roomId
  now,        \* Date.now() of the runtime
  wsState,    \* a socket: "fresh" -> "open" [-> "closing"] -> "gone"
  att,        \* the attachment serialized on each socket
  told        \* the view of the page behind each socket once it has read all

memory == <<sock, joinedAt, leader, epoch, roomId>>
vars == <<memory, now, wsState, att, told>>

Init ==
  /\ sock = [p \in Peers |-> NoSocket]
  /\ joinedAt = [p \in Peers |-> 0]
  /\ leader = NoPeer
  /\ epoch = 1
  /\ roomId = NoRoom
  /\ now = 1
  /\ wsState = [s \in Sockets |-> "fresh"]
  /\ att = [s \in Sockets |-> NoAttachment]
  /\ told = [s \in Sockets |-> NoView]

-----------------------------------------------------------------------------
Owner(s) == s[1]
Members == {p \in Peers : sock[p] # NoSocket}
Connected(s) == wsState[s] \in {"open", "closing"}

AttachmentNow(p) == [peer |-> p, joinedAt |-> joinedAt'[p], epoch |-> epoch',
                     leader |-> leader', room |-> roomId']

(* Mutant of SyncAttachments: only the socket that joins is written. *)
SyncNewAttachments(ending) ==
  att' = [s \in Sockets |->
            IF s = sock'[Owner(s)] /\ sock[Owner(s)] # s THEN AttachmentNow(Owner(s))
            ELSE IF s \in ending THEN NoAttachment
            ELSE att[s]]

(* syncAttachments: every member's socket takes the room as it is after the  *)
(* step.  A socket that ends in this step takes its attachment along.        *)
SyncAttachments(ending) ==
  att' = [s \in Sockets |->
            IF s = sock'[Owner(s)] THEN AttachmentNow(Owner(s))
            ELSE IF s \in ending THEN NoAttachment
            ELSE att[s]]

(* broadcast: one message to the socket of every member after the step. *)
Broadcast(ending, m) ==
  told' = [s \in Sockets |->
             IF s = sock'[Owner(s)] THEN Apply(told[s], m)
             ELSE IF s \in ending THEN NoView
             ELSE told[s]]

RoomStateNow == [type |-> "room-state", epoch |-> epoch', leader |-> leader',
                 peers |-> {p \in Peers : sock'[p] # NoSocket}]

(* Mutant of LeaderChangedNow: the message is built before the increment. *)
LeaderChangedBefore == [type |-> "leader-changed", epoch |-> epoch, leader |-> leader']
LeaderChangedNow == [type |-> "leader-changed", epoch |-> epoch', leader |-> leader']

(* Mutant of NextLeaders: the sort is missing. *)
AnyNextLeaders(ps) == IF ps = {} THEN {NoPeer} ELSE ps

(* pickNextLeader: a member that joined earliest; NoPeer when none is left.  *)
(* Ties go to the order of the map, which is left open here.                 *)
NextLeaders(ps) ==
  IF ps = {} THEN {NoPeer}
  ELSE {p \in ps : \A q \in ps : joinedAt[p] <= joinedAt[q]}

(* removePeer for the socket of a current member.  (For another socket it    *)
(* does nothing.)  The departure of the leader is announced by leader-changed *)
(* only, that of another member by room-state.                               *)
Farewell(p) == IF leader = p THEN LeaderChangedNow ELSE RoomStateNow

(* Mutant of RemovePeer: the leader is replaced in the same epoch. *)
RemovePeerSameEpoch(p, ending) ==
  /\ sock' = [sock EXCEPT ![p] = NoSocket]
  /\ joinedAt' = [joinedAt EXCEPT ![p] = 0]
  /\ UNCHANGED <<roomId, epoch>>
  /\ leader' \in IF leader = p THEN NextLeaders(Members \ {p}) ELSE {leader}
  /\ SyncAttachments(ending)
  /\ Broadcast(ending, Farewell(p))

RemovePeer(p, ending) ==
  /\ sock' = [sock EXCEPT ![p] = NoSocket]
  /\ joinedAt' = [joinedAt EXCEPT ![p] = 0]
  /\ UNCHANGED roomId
  /\ \/ leader = p /\ leader' \in NextLeaders(Members \ {p}) /\ epoch' = epoch + 1
     \/ leader # p /\ UNCHANGED <<leader, epoch>>
  /\ SyncAttachments(ending)
  /\ Broadcast(ending, Farewell(p))

-----------------------------------------------------------------------------
(* A page opens its connections one after the other.                         *)
IsNext(s) ==
  /\ wsState[s] = "fresh"
  /\ <<s[1], s[2] - 1>> \in Sockets => wsState[<<s[1], s[2] - 1>>] # "fresh"

(* fetch: the upgrade request of a page is accepted. *)
Accept(s) ==
  /\ IsNext(s)
  /\ wsState' = [wsState EXCEPT ![s] = "open"]
  /\ UNCHANGED <<memory, now, att, told>>

(* The request of a page does not reach the room. *)
Unreachable(s) ==
  /\ IsNext(s)
  /\ wsState' = [wsState EXCEPT ![s] = "gone"]
  /\ UNCHANGED <<memory, now, att, told>>

(* webSocketMessage, "join": a page sends it once per socket, when the       *)
(* socket opens (BridgeSignaling.ts:260).  A join for another room is dropped. *)
Join(s, r) ==
  LET p == Owner(s) IN
  /\ wsState[s] = "open"
  /\ att[s] = NoAttachment
  /\ roomId \in {NoRoom, r}
  /\ roomId' = r
  /\ wsState' = IF sock[p] \in {NoSocket, s} THEN wsState
                ELSE [wsState EXCEPT ![sock[p]] = "closing"]
  /\ sock' = [sock EXCEPT ![p] = s]
  /\ \E t \in {now, now + 1} :
       /\ t <= MaxTime
       /\ now' = t
       /\ joinedAt' = IF p \in Members THEN joinedAt ELSE [joinedAt EXCEPT ![p] = t]
  /\ leader' = IF leader \in Members THEN leader ELSE p
  /\ UNCHANGED epoch
  /\ SyncAttachments({})
  /\ Broadcast({}, RoomStateNow)

(* webSocketMessage, "bye": the page leaves; its socket keeps its attachment. *)
Bye(s) ==
  /\ wsState[s] = "open"
  /\ sock[Owner(s)] = s
  /\ RemovePeer(Owner(s), {})
  /\ UNCHANGED <<now, wsState>>

(* webSocketClose and webSocketError: the socket ends.  A socket that is not *)
(* the current one of a member takes nobody out of the room.                 *)
SocketGone(s) ==
  /\ Connected(s)
  /\ wsState' = [wsState EXCEPT ![s] = "gone"]
  /\ \/ /\ sock[Owner(s)] = s
        /\ RemovePeer(Owner(s), {s})
     \/ /\ sock[Owner(s)] # s
        /\ att' = [att EXCEPT ![s] = NoAttachment]
        /\ told' = [told EXCEPT ![s] = NoView]
        /\ UNCHANGED memory
  /\ UNCHANGED now

(* Mutant of MayRelay: signals of a former epoch pass. *)
MayRelayAny(s, e) == Connected(s) /\ att[s] # NoAttachment /\ e <= epoch

(* webSocketMessage, the signals of a page that speaks in epoch e: they pass  *)
(* when e is the room's epoch and getPeerId knows the socket, which may be a  *)
(* replaced one that is still closing.  They change nothing of the room.     *)
MayRelay(s, e) == Connected(s) /\ att[s] # NoAttachment /\ e = epoch

(* "offer", "answer" and "ice-candidate" go to the target's socket, and      *)
(* "server-leaving" to the sockets of all members but the sender.            *)
DirectTarget(to) == {sock[p] : p \in {to} \cap Members}
LeavingTargets(from) == {sock[p] : p \in Members \ {from}}

(* Sockets that getWebSockets may list beside those of the members: closed   *)
(* by the room, or left with bye, and still carrying their attachment.       *)
CurrentSockets == {s \in Sockets : s = sock[Owner(s)]}
LingeringSockets ==
  {s \in Sockets : Connected(s) /\ att[s] # NoAttachment} \ CurrentSockets

(* Hibernation and the ensureState of the next handler in one step: the      *)
(* memory is lost and rebuilt from the listed sockets, in any order.  The    *)
(* first one gives the shared fields, the last one of a peer its socket.     *)
Hibernate ==
  \E lingering \in SUBSET (IF AllowLinger THEN LingeringSockets ELSE {}) :
    LET listed == CurrentSockets \cup lingering
        restored == {Owner(s) : s \in listed}
    IN
    /\ \E f \in [restored -> listed] :
         /\ \A p \in restored : Owner(f[p]) = p
         /\ sock' = [p \in Peers |-> IF p \in restored THEN f[p] ELSE NoSocket]
         /\ joinedAt' = [p \in Peers |-> IF p \in restored THEN att[f[p]].joinedAt ELSE 0]
    /\ IF listed = {}
       THEN epoch' = 1 /\ leader' = NoPeer /\ roomId' = NoRoom
       ELSE \E s \in listed : /\ epoch' = att[s].epoch
                              /\ leader' = att[s].leader
                              /\ roomId' = att[s].room
    /\ UNCHANGED <<now, wsState, att, told>>

(* The runtime restarts the object (deploy, crash): every socket breaks and  *)
(* the constructor's values are all that is left.                            *)
Restart ==
  /\ sock' = [p \in Peers |-> NoSocket]
  /\ joinedAt' = [p \in Peers |-> 0]
  /\ leader' = NoPeer
  /\ epoch' = 1
  /\ roomId' = NoRoom
  /\ wsState' = [s \in Sockets |-> IF Connected(s) THEN "gone" ELSE wsState[s]]
  /\ told' = [s \in Sockets |-> NoView]
  /\ att' = [s \in Sockets |-> NoAttachment]
  /\ UNCHANGED now

-----------------------------------------------------------------------------
Next ==
  \/ \E s \in Sockets :
       \/ Accept(s)
       \/ Unreachable(s)
       \/ \E r \in Rooms : Join(s, r)
       \/ Bye(s)
       \/ SocketGone(s)
  \/ Hibernate
  \/ Restart

Spec == Init /\ [][Next]_vars

-----------------------------------------------------------------------------
TypeOK ==
  /\ sock \in [Peers -> Sockets \cup {NoSocket}]
  /\ joinedAt \in [Peers -> Nat]
  /\ leader \in Peers \cup {NoPeer}
  /\ epoch \in Nat
  /\ roomId \in Rooms \cup {NoRoom}
  /\ now \in Nat
  /\ wsState \in [Sockets -> {"fresh", "open", "closing", "gone"}]
  /\ att \in [Sockets -> Attachments \cup {NoAttachment}]
  /\ told \in [Sockets -> Views]

(* A room with members is led by one of them, and nobody in it has been there *)
(* longer: joins, replaced sockets, departures, ties and wake-ups all keep    *)
(* the seniority that pickNextLeader goes by.                                 *)
SeniorMemberLeads ==
  Members # {} => /\ leader \in Members
                  /\ \A p \in Members : joinedAt[leader] <= joinedAt[p]

(* At every handler boundary each member's socket is open and carries the    *)
(* room as it is in memory: whenever hibernation strikes, nothing is lost.   *)
AttachmentsFresh ==
  \A p \in Members :
    /\ sock[p] \in Sockets
    /\ Owner(sock[p]) = p
    /\ wsState[sock[p]] = "open"
    /\ att[sock[p]] = [peer |-> p, joinedAt |-> joinedAt[p], epoch |-> epoch,
                       leader |-> leader, room |-> roomId]

(* No change of the room goes unannounced: what each member has been sent    *)
(* ends with the current epoch and leader, and no member is missing from its  *)
(* list, whatever came over the socket it has now.                           *)
AnnouncementsCurrent ==
  \A p \in Members :
    /\ told[sock[p]].epoch = epoch
    /\ told[sock[p]].leader = leader
    /\ Members \subseteq told[sock[p]].peers

(* While somebody stays in the room, its epoch never goes back and another   *)
(* leader always comes with a larger epoch, hibernation included: the fence  *)
(* pages rely on when they drop announcements of smaller epochs.             *)
LeadershipIsFenced ==
  [][(\E p \in Members : sock'[p] = sock[p]) =>
       /\ epoch' >= epoch
       /\ leader' # leader => epoch' > epoch]_vars

=============================================================================
