-------------------------- MODULE RoomTransportOwner --------------------------
(***************************************************************************)
(* The worker's coordinator of the tab that carries a room's WebRTC        *)
(* traffic: src/video-editor/worker/productRoomTransportOwner.ts.          *)
(*                                                                         *)
(* Tabs register; once the workspace is open one capable tab is leased the *)
(* transport under a new generation and told to attach.  Outgoing packets  *)
(* wait until the leased tab reports that it is attached.  Tabs answer     *)
(* through message ports, so their messages may be about older leases: the *)
(* inputs below carry any tab and any generation issued so far.            *)
(*                                                                         *)
(* One instance serves one room; messages for other rooms are rejected     *)
(* first thing and are left out.                                           *)
(***************************************************************************)
EXTENDS Integers, Sequences

CONSTANTS
  TabIds,         \* ids of the tabs that may connect to the worker
  Kinds,          \* kinds of outgoing packet: CRDT and media
  NoLease,        \* null value
  MaxGeneration,  \* bound on transportGeneration
  MaxPackets      \* bound on the packets of a kind that are sent

ASSUME LeaseAssumption ==
  NoLease \notin [tab: TabIds, generation: Nat, attached: BOOLEAN, overdue: BOOLEAN]
ASSUME BoundsAssumption == MaxGeneration \in Nat /\ MaxPackets \in Nat

OpenStates == {"none", "OPENING", "READY", "LOCAL_EMPTY_READY", "FAILED"}
Leases == [tab: TabIds, generation: Nat, attached: BOOLEAN, overdue: BOOLEAN]

VARIABLES
  tabs,         \* tabs: the registered tabs in the order of the map
  hosts,        \* the registered tabs whose hello says canHostWebRtc
  disabled,     \* disabledOwnerTabs
  generation,   \* transportGeneration
  openState,    \* workspaceOpenState
  lease,        \* ownerLease; overdue: the last heartbeat is too long ago
  pending,      \* pendingCrdtPackets and pendingMediaPackets: packet numbers
  issued,       \* how many packets of each kind the room has sent so far
  carried,      \* the packets of each kind handed to a tab, in order
  told          \* the generation each tab holds once it has read its messages

queues == <<pending, issued, carried>>
vars == <<tabs, hosts, disabled, generation, openState, lease, queues, told>>

Init ==
  /\ tabs = <<>>
  /\ hosts = {}
  /\ disabled = {}
  /\ generation = 0
  /\ openState = "none"
  /\ lease = NoLease
  /\ pending = [k \in Kinds |-> <<>>]
  /\ issued = [k \in Kinds |-> 0]
  /\ carried = [k \in Kinds |-> <<>>]
  /\ told = [t \in TabIds |-> 0]

-----------------------------------------------------------------------------
Registered == {tabs[i] : i \in DOMAIN tabs}
CanAttach(state) == state \in {"READY", "LOCAL_EMPTY_READY"}
Eligible == hosts \ disabled
Holds(t) == lease # NoLease /\ lease.tab = t
Accepts(t, g) == Holds(t) /\ lease.generation = g

NewLease(t) == [tab |-> t, generation |-> generation + 1, attached |-> FALSE,
                overdue |-> FALSE]

(* attachOwner: a new lease under a new generation, announced by ATTACH_WEBRTC. *)
(* forget is the tab that has been told to detach, or has itself let go, in   *)
(* the same handler.                                                         *)
AttachOwner(t, forget) ==
  /\ generation < MaxGeneration
  /\ generation' = generation + 1
  /\ lease' = NewLease(t)
  /\ told' = [u \in TabIds |-> IF u = t THEN generation + 1
                               ELSE IF u \in forget THEN 0 ELSE told[u]]

KeepLease(l, forget) ==
  /\ lease' = l
  /\ told' = [u \in TabIds |-> IF u \in forget THEN 0 ELSE told[u]]
  /\ UNCHANGED generation

(* electOwner after the handler's other changes, where l is the lease that is *)
(* left: the first capable tab that is not disabled gets the transport.      *)
ElectOwner(l, forget) ==
  IF l = NoLease /\ CanAttach(openState') /\ Eligible' # {}
  THEN \E i \in DOMAIN tabs' :
         /\ tabs'[i] \in Eligible'
         /\ \A j \in 1..(i-1) : tabs'[j] \notin Eligible'
         /\ AttachOwner(tabs'[i], forget)
  ELSE KeepLease(l, forget)

LeaseHolder == IF lease = NoLease THEN {} ELSE {lease.tab}

-----------------------------------------------------------------------------
(* setWorkspaceOpenState *)
SetWorkspaceOpenState(state) ==
  /\ openState' = state
  /\ UNCHANGED <<tabs, hosts, disabled, queues>>
  /\ IF state = "FAILED"
     THEN KeepLease(NoLease, LeaseHolder)
     ELSE ElectOwner(lease, {})

(* registerTab: a tab says hello, the first time or on another port.  A tab  *)
(* that says hello again holds nothing on the new port.                      *)
RegisterTab(t, canHost) ==
  /\ tabs' = IF t \in Registered THEN tabs ELSE Append(tabs, t)
  /\ hosts' = IF canHost THEN hosts \cup {t} ELSE hosts \ {t}
  /\ disabled' = IF canHost THEN disabled \ {t} ELSE disabled
  /\ UNCHANGED <<openState, queues>>
  /\ IF Holds(t) /\ canHost /\ CanAttach(openState)
     THEN AttachOwner(t, {})
     ELSE ElectOwner(IF Holds(t) THEN NoLease ELSE lease, {t})

(* unregisterTab: the connection of a tab is gone. *)
UnregisterTab(t) ==
  /\ \E i \in DOMAIN tabs :
       /\ tabs[i] = t
       /\ tabs' = SubSeq(tabs, 1, i - 1) \o SubSeq(tabs, i + 1, Len(tabs))
  /\ hosts' = hosts \ {t}
  /\ disabled' = disabled \ {t}
  /\ UNCHANGED <<openState, queues>>
  /\ IF Holds(t)
     THEN ElectOwner(NoLease, {t})
     ELSE KeepLease(lease, {t})

(* flushPendingPackets of an attached lease: everything that waits goes out. *)
FlushPendingPackets ==
  /\ carried' = [k \in Kinds |-> carried[k] \o pending[k]]
  /\ pending' = [k \in Kinds |-> <<>>]
  /\ UNCHANGED issued

(* handleOwnerStatus, ATTACHED *)
OwnerAttached(t, g) ==
  /\ Accepts(t, g)
  /\ lease' = [lease EXCEPT !.attached = TRUE, !.overdue = FALSE]
  /\ FlushPendingPackets
  /\ UNCHANGED <<tabs, hosts, disabled, generation, openState, told>>

(* handleOwnerStatus, REJECTED_ROOM_MISMATCH, CLOSED and FAILED: the lease    *)
(* ends, and any eligible tab, this one included unless it was rejected, is   *)
(* elected.  The tab has let go itself when it says CLOSED.                   *)
OwnerLost(t, g, status) ==
  /\ Accepts(t, g)
  /\ disabled' = IF status = "REJECTED_ROOM_MISMATCH" THEN disabled \cup {t} ELSE disabled
  /\ UNCHANGED <<tabs, hosts, openState, queues>>
  /\ ElectOwner(NoLease, {t})

(* handleOwnerHeartbeat *)
OwnerHeartbeat(t, g) ==
  /\ Accepts(t, g)
  /\ lease' = [lease EXCEPT !.overdue = FALSE]
  /\ UNCHANGED <<tabs, hosts, disabled, generation, openState, queues, told>>

(* The heartbeat timeout passes. *)
HeartbeatOverdue ==
  /\ lease # NoLease
  /\ ~lease.overdue
  /\ lease' = [lease EXCEPT !.overdue = TRUE]
  /\ UNCHANGED <<tabs, hosts, disabled, generation, openState, queues, told>>

(* expireOwnerLease: the silent tab is disabled; nobody tells it. *)
ExpireOwnerLease ==
  /\ lease # NoLease
  /\ lease.overdue
  /\ disabled' = disabled \cup {lease.tab}
  /\ UNCHANGED <<tabs, hosts, openState, queues>>
  /\ ElectOwner(NoLease, {})

(* Mutant of SendPacket: an elected owner is taken for an attached one. *)
SendPacketEarly(k) ==
  /\ issued[k] < MaxPackets
  /\ issued' = [issued EXCEPT ![k] = @ + 1]
  /\ IF lease # NoLease
     THEN /\ carried' = [carried EXCEPT ![k] = Append(@, issued[k] + 1)]
          /\ UNCHANGED pending
     ELSE /\ pending' = [pending EXCEPT ![k] = Append(@, issued[k] + 1)]
          /\ UNCHANGED carried
  /\ UNCHANGED <<tabs, hosts, disabled, generation, openState, lease, told>>

(* sendCrdtPacket and sendMediaPacket *)
SendPacket(k) ==
  /\ issued[k] < MaxPackets
  /\ issued' = [issued EXCEPT ![k] = @ + 1]
  /\ IF lease # NoLease /\ lease.attached
     THEN /\ carried' = [carried EXCEPT ![k] = Append(@, issued[k] + 1)]
          /\ UNCHANGED pending
     ELSE /\ pending' = [pending EXCEPT ![k] = Append(@, issued[k] + 1)]
          /\ UNCHANGED carried
  /\ UNCHANGED <<tabs, hosts, disabled, generation, openState, lease, told>>

LostStatuses == {"REJECTED_ROOM_MISMATCH", "CLOSED", "FAILED"}

Next ==
  \/ \E state \in OpenStates \ {"none"} : SetWorkspaceOpenState(state)
  \/ \E t \in TabIds :
       \/ \E canHost \in BOOLEAN : RegisterTab(t, canHost)
       \/ UnregisterTab(t)
       \/ \E g \in 1..generation :
            \/ OwnerAttached(t, g)
            \/ \E status \in LostStatuses : OwnerLost(t, g, status)
            \/ OwnerHeartbeat(t, g)
  \/ HeartbeatOverdue
  \/ ExpireOwnerLease
  \/ \E k \in Kinds : SendPacket(k)

Spec == Init /\ [][Next]_vars

-----------------------------------------------------------------------------
TypeOK ==
  /\ tabs \in Seq(TabIds)
  /\ hosts \subseteq TabIds
  /\ disabled \subseteq TabIds
  /\ generation \in Nat
  /\ openState \in OpenStates
  /\ lease \in Leases \cup {NoLease}
  /\ pending \in [Kinds -> Seq(Nat)]
  /\ issued \in [Kinds -> Nat]
  /\ carried \in [Kinds -> Seq(Nat)]
  /\ told \in [TabIds -> Nat]

(* The transport is only ever leased to a registered, capable tab that is not *)
(* disabled, under the latest generation, and never while the workspace has   *)
(* failed to open.                                                           *)
LeaseIsLegitimate ==
  lease # NoLease =>
    /\ lease.tab \in Registered \cap Eligible
    /\ lease.generation = generation
    /\ openState \notin {"none", "FAILED"}

(* The room is never left without an owner while one could be elected: every *)
(* handler that ends a lease, adds a tab or opens the workspace elects.      *)
NoRoomWithoutOwner ==
  CanAttach(openState) /\ Registered \cap Eligible # {} => lease # NoLease

(* A packet handed to the room is carried exactly once and in order, however *)
(* often the owner changes before it goes out; once an owner is attached     *)
(* nothing waits, so no later packet can overtake.                           *)
PacketsInOrder ==
  \A k \in Kinds :
    /\ carried[k] \o pending[k] = [i \in 1..issued[k] |-> i]
    /\ lease # NoLease /\ lease.attached => pending[k] = <<>>

(* "keeps a single WebRTC owner for one room while other tabs are replicas"  *)
(* (productRoomTransportOwner.test.ts:353).  A tab that holds a transport     *)
(* once it has read its messages is the leaseholder under the lease's        *)
(* generation; only a tab whose lease expired was not told.  And the tab that *)
(* packets go to is the one that holds the transport.                        *)
SingleOwner ==
  /\ \A t \in Registered : told[t] # 0 => Accepts(t, told[t]) \/ t \in disabled
  /\ lease # NoLease => told[lease.tab] = lease.generation

(* Fencing: generations only grow, and a lease that is not the old one has a *)
(* generation no earlier lease had, also when the same tab is leased again.  *)
GenerationsAreFresh ==
  [][/\ generation' >= generation
     /\ lease' # NoLease /\ (lease = NoLease \/ lease'.tab # lease.tab
                             \/ (lease.attached /\ ~lease'.attached))
          => lease'.generation > generation]_vars
=============================================================================
