-------------------------- MODULE RoomPeers_proofs --------------------------
(***************************************************************************)
(* What is proved of the signaling room and of the pages around it.  First  *)
(* the room alone, for any peers, sockets and rooms, as long as the runtime *)
(* lists only the sockets of members when the object wakes (IInv).          *)
(*                                                                         *)
(* The pages add nothing to what the room does: with them it still          *)
(* implements its own specification, so all that is proved of SignalingRoom *)
(* holds in the company of any pages and failures.  Then what holds between *)
(* the room and its pages (PeersInv): whoever claims to lead an epoch is    *)
(* the one that does, no claim is ahead of the room, and what a page has    *)
(* read with what it has yet to read amounts to what the room holds.        *)
(***************************************************************************)
EXTENDS RoomPeers, TLAPS

-----------------------------------------------------------------------------
(* The room. *)

(* Peers outside the room leave no trace in the map of join times. *)
OutsidersBlank == \A p \in Peers : sock[p] = NoSocket => joinedAt[p] = 0

(* Nobody has joined in the future, so a newcomer is never senior. *)
JoinedInThePast == \A p \in Peers : joinedAt[p] <= now

IInv ==
  /\ TypeOK
  /\ OutsidersBlank
  /\ JoinedInThePast
  /\ SeniorMemberLeads
  /\ AttachmentsFresh
  /\ AnnouncementsCurrent

LEMMA OwnerIsPeer == \A s \in Sockets : Owner(s) \in Peers
  BY SocketsAssumption DEF Owner

LEMMA InitIInv == Init => IInv
  BY SocketsAssumption, NullsAssumption
  DEF Init, IInv, TypeOK, OutsidersBlank, JoinedInThePast, SeniorMemberLeads,
      AttachmentsFresh, AnnouncementsCurrent, Members, NoView, Views

LEMMA ConnectionIInv ==
  ASSUME IInv, NEW s \in Sockets, Accept(s) \/ Unreachable(s)
  PROVE  IInv'
  <1>1. TypeOK'
    BY DEF IInv, TypeOK, Accept, Unreachable, IsNext, memory
  <1>2. OutsidersBlank' /\ JoinedInThePast' /\ SeniorMemberLeads'
    BY DEF IInv, OutsidersBlank, JoinedInThePast, SeniorMemberLeads, Members, Accept, Unreachable, IsNext, memory
  <1>3. AttachmentsFresh'
    BY DEF IInv, TypeOK, AttachmentsFresh, Members, Accept, Unreachable, IsNext, memory
  <1>4. AnnouncementsCurrent'
    BY DEF IInv, AnnouncementsCurrent, Members, Accept, Unreachable, IsNext, memory
  <1>5. QED
    BY <1>1, <1>2, <1>3, <1>4 DEF IInv

(* What the two writers of sockets leave behind, whatever the step did to the *)
(* memory: the facts every handler's proof needs of them.                    *)
LEMMA SyncAttachmentsResult ==
  ASSUME TypeOK, NEW ending \in SUBSET Sockets, SyncAttachments(ending),
         sock' \in [Peers -> Sockets \cup {NoSocket}],
         joinedAt' \in [Peers -> Nat], leader' \in Peers \cup {NoPeer},
         epoch' \in Nat, roomId' \in Rooms \cup {NoRoom}
  PROVE  /\ att' \in [Sockets -> Attachments \cup {NoAttachment}]
         /\ \A s \in Sockets : s = sock'[Owner(s)] =>
              att'[s] = [peer |-> Owner(s), joinedAt |-> joinedAt'[Owner(s)],
                         epoch |-> epoch', leader |-> leader', room |-> roomId']
  BY OwnerIsPeer DEF SyncAttachments, AttachmentNow, TypeOK, Attachments

LEMMA BroadcastResult ==
  ASSUME TypeOK, NEW ending \in SUBSET Sockets, NEW m, Broadcast(ending, m),
         sock' \in [Peers -> Sockets \cup {NoSocket}],
         m.epoch \in Nat, m.leader \in Peers \cup {NoPeer},
         m.type = "room-state" => m.peers \in SUBSET Peers
  PROVE  /\ told' \in [Sockets -> Views]
         /\ \A s \in Sockets : s = sock'[Owner(s)] =>
              /\ told'[s].epoch = m.epoch
              /\ told'[s].leader = m.leader
              /\ told'[s].peers = IF m.type = "room-state" THEN m.peers ELSE told[s].peers
  BY OwnerIsPeer DEF Broadcast, Apply, TypeOK, Views, NoView

LEMMA JoinIInv ==
  ASSUME IInv, NEW s \in Sockets, NEW r \in Rooms, Join(s, r)
  PROVE  IInv'
  <1> DEFINE p == Owner(s)
  <1>a. p \in Peers
    BY OwnerIsPeer
  <1>b. TypeOK
    BY DEF IInv
  <1>1. PICK t \in {now, now + 1} :
          /\ now' = t
          /\ joinedAt' = IF p \in Members THEN joinedAt ELSE [joinedAt EXCEPT ![p] = t]
    BY DEF Join
  <1>2. /\ sock' = [sock EXCEPT ![p] = s]
        /\ roomId' = r
        /\ epoch' = epoch
        /\ leader' = IF leader \in Members THEN leader ELSE p
        /\ wsState' = IF sock[p] \in {NoSocket, s} THEN wsState
                      ELSE [wsState EXCEPT ![sock[p]] = "closing"]
        /\ wsState[s] = "open"
        /\ SyncAttachments({})
        /\ Broadcast({}, RoomStateNow)
    BY DEF Join
  <1>3. /\ sock' \in [Peers -> Sockets \cup {NoSocket}]
        /\ joinedAt' \in [Peers -> Nat]
        /\ leader' \in Peers \cup {NoPeer}
        /\ epoch' \in Nat
        /\ roomId' \in Rooms \cup {NoRoom}
        /\ now' \in Nat
        /\ wsState' \in [Sockets -> {"fresh", "open", "closing", "gone"}]
    BY <1>a, <1>b, <1>1, <1>2 DEF TypeOK
  <1>4. Members' = Members \cup {p}
    BY <1>a, <1>b, <1>2, SocketsAssumption DEF Members, TypeOK
  <1>5. /\ att' \in [Sockets -> Attachments \cup {NoAttachment}]
        /\ \A x \in Sockets : x = sock'[Owner(x)] =>
             att'[x] = [peer |-> Owner(x), joinedAt |-> joinedAt'[Owner(x)],
                        epoch |-> epoch', leader |-> leader', room |-> roomId']
    BY <1>b, <1>2, <1>3, SyncAttachmentsResult
  <1>6. /\ told' \in [Sockets -> Views]
        /\ \A x \in Sockets : x = sock'[Owner(x)] =>
             /\ told'[x].epoch = epoch'
             /\ told'[x].leader = leader'
             /\ told'[x].peers = Members'
    <2>1. /\ RoomStateNow.epoch = epoch'
          /\ RoomStateNow.leader = leader'
          /\ RoomStateNow.type = "room-state"
          /\ RoomStateNow.peers = Members'
      BY DEF RoomStateNow, Members
    <2>2. RoomStateNow.peers \in SUBSET Peers
      BY <2>1 DEF Members
    <2>3. QED
      BY <1>b, <1>2, <1>3, <2>1, <2>2, BroadcastResult
  <1>7. TypeOK'
    BY <1>3, <1>5, <1>6 DEF TypeOK
  <1>8. OutsidersBlank' /\ JoinedInThePast'
    BY <1>a, <1>b, <1>1, <1>2, SocketsAssumption
    DEF IInv, OutsidersBlank, JoinedInThePast, Members, TypeOK
  <1>9. SeniorMemberLeads'
    <2>1. leader \in Members => \A q \in Members : joinedAt[leader] <= joinedAt[q]
      BY DEF IInv, SeniorMemberLeads
    <2>2. leader \notin Members => Members = {}
      BY DEF IInv, SeniorMemberLeads
    <2>3. \A q \in Peers : joinedAt[q] <= now /\ joinedAt[q] \in Nat
      BY <1>b DEF IInv, JoinedInThePast, TypeOK
    <2>4. CASE leader \in Members
      BY <2>1, <2>3, <2>4, <1>a, <1>b, <1>1, <1>2, <1>4 DEF SeniorMemberLeads, Members, TypeOK
    <2>5. CASE leader \notin Members
      BY <2>2, <2>5, <1>3, <1>2, <1>4 DEF SeniorMemberLeads, Members
    <2>6. QED
      BY <2>4, <2>5
  <1>10. \A q \in Members' : /\ sock'[q] \in Sockets
                             /\ Owner(sock'[q]) = q
                             /\ wsState'[sock'[q]] = "open"
    BY <1>a, <1>b, <1>2, <1>4 DEF IInv, AttachmentsFresh, Members, TypeOK
  <1>11. AttachmentsFresh'
    BY <1>5, <1>10 DEF AttachmentsFresh
  <1>12. AnnouncementsCurrent'
    BY <1>6, <1>10 DEF AnnouncementsCurrent
  <1>13. QED
    BY <1>7, <1>8, <1>9, <1>11, <1>12 DEF IInv

(* The departure of a member, shared by bye and by the end of its socket. *)
LEMMA RemovePeerIInv ==
  ASSUME IInv, NEW p \in Members, NEW ending \in SUBSET Sockets, RemovePeer(p, ending),
         \A s \in ending : Owner(s) = p,
         wsState' \in [Sockets -> {"fresh", "open", "closing", "gone"}],
         \A s \in Sockets : Owner(s) # p => wsState'[s] = wsState[s],
         UNCHANGED now
  PROVE  IInv'
  <1>a. p \in Peers
    BY DEF Members
  <1>b. TypeOK
    BY DEF IInv
  <1>1. /\ sock' = [sock EXCEPT ![p] = NoSocket]
        /\ joinedAt' = [joinedAt EXCEPT ![p] = 0]
        /\ roomId' = roomId
        /\ SyncAttachments(ending)
        /\ Broadcast(ending, Farewell(p))
    BY DEF RemovePeer
  <1>2. \/ leader = p /\ leader' \in NextLeaders(Members \ {p}) /\ epoch' = epoch + 1
        \/ leader # p /\ leader' = leader /\ epoch' = epoch
    BY DEF RemovePeer
  <1>3. Members' = Members \ {p}
    BY <1>a, <1>b, <1>1 DEF Members, TypeOK
  <1>4. leader' \in Peers \cup {NoPeer} /\ epoch' \in Nat
    BY <1>b, <1>2 DEF NextLeaders, Members, TypeOK
  <1>5. /\ sock' \in [Peers -> Sockets \cup {NoSocket}]
        /\ joinedAt' \in [Peers -> Nat]
        /\ roomId' \in Rooms \cup {NoRoom}
    BY <1>b, <1>1 DEF TypeOK
  <1>6. /\ att' \in [Sockets -> Attachments \cup {NoAttachment}]
        /\ \A x \in Sockets : x = sock'[Owner(x)] =>
             att'[x] = [peer |-> Owner(x), joinedAt |-> joinedAt'[Owner(x)],
                        epoch |-> epoch', leader |-> leader', room |-> roomId']
    BY <1>b, <1>1, <1>4, <1>5, SyncAttachmentsResult
  <1>7. \A q \in Members' : /\ sock'[q] = sock[q]
                            /\ sock'[q] \in Sockets
                            /\ Owner(sock'[q]) = q
                            /\ wsState'[sock'[q]] = "open"
    BY <1>a, <1>b, <1>1, <1>3 DEF IInv, AttachmentsFresh, Members, TypeOK
  <1>8. /\ told' \in [Sockets -> Views]
        /\ \A q \in Members' : /\ told'[sock'[q]].epoch = epoch'
                               /\ told'[sock'[q]].leader = leader'
                               /\ Members' \subseteq told'[sock'[q]].peers
    <2>1. CASE leader = p
      <3>1. /\ Farewell(p).epoch = epoch'
            /\ Farewell(p).leader = leader'
            /\ Farewell(p).type = "leader-changed"
        BY <2>1 DEF Farewell, LeaderChangedNow
      <3>2. /\ told' \in [Sockets -> Views]
            /\ \A x \in Sockets : x = sock'[Owner(x)] =>
                 /\ told'[x].epoch = epoch'
                 /\ told'[x].leader = leader'
                 /\ told'[x].peers = told[x].peers
        BY <1>b, <1>1, <1>4, <1>5, <3>1, BroadcastResult
      <3>3. QED
        BY <1>3, <1>7, <3>2 DEF IInv, AnnouncementsCurrent
    <2>2. CASE leader # p
      <3>1. /\ Farewell(p).epoch = epoch'
            /\ Farewell(p).leader = leader'
            /\ Farewell(p).type = "room-state"
            /\ Farewell(p).peers = Members'
        BY <2>2 DEF Farewell, RoomStateNow, Members
      <3>2. Farewell(p).peers \in SUBSET Peers
        BY <3>1 DEF Members
      <3>3. /\ told' \in [Sockets -> Views]
            /\ \A x \in Sockets : x = sock'[Owner(x)] =>
                 /\ told'[x].epoch = epoch'
                 /\ told'[x].leader = leader'
                 /\ told'[x].peers = Members'
        BY <1>b, <1>1, <1>4, <1>5, <3>1, <3>2, BroadcastResult
      <3>4. QED
        BY <1>7, <3>3
    <2>3. QED
      BY <2>1, <2>2
  <1>9. TypeOK'
    BY <1>b, <1>4, <1>5, <1>6, <1>8 DEF TypeOK
  <1>10. OutsidersBlank' /\ JoinedInThePast'
    BY <1>a, <1>b, <1>1 DEF IInv, OutsidersBlank, JoinedInThePast, TypeOK
  <1>11. SeniorMemberLeads'
    <2>1. \A q \in Members' : joinedAt'[q] = joinedAt[q]
      BY <1>a, <1>b, <1>1, <1>3 DEF Members, TypeOK
    <2>2. CASE leader = p
      BY <1>2, <1>3, <2>1, <2>2 DEF SeniorMemberLeads, NextLeaders
    <2>3. CASE leader # p
      BY <1>2, <1>3, <2>1, <2>3 DEF IInv, SeniorMemberLeads
    <2>4. QED
      BY <2>2, <2>3
  <1>12. AttachmentsFresh'
    BY <1>6, <1>7 DEF AttachmentsFresh
  <1>13. AnnouncementsCurrent'
    BY <1>8 DEF AnnouncementsCurrent
  <1>14. QED
    BY <1>9, <1>10, <1>11, <1>12, <1>13 DEF IInv

LEMMA ByeIInv ==
  ASSUME IInv, NEW s \in Sockets, Bye(s)
  PROVE  IInv'
  <1>1. Owner(s) \in Members
    BY OwnerIsPeer, SocketsAssumption DEF Bye, Members
  <1>2. RemovePeer(Owner(s), {}) /\ UNCHANGED <<now, wsState>>
    BY DEF Bye
  <1>3. wsState \in [Sockets -> {"fresh", "open", "closing", "gone"}]
    BY DEF IInv, TypeOK
  <1>4. QED
    BY <1>1, <1>2, <1>3, RemovePeerIInv

LEMMA SocketGoneIInv ==
  ASSUME IInv, NEW s \in Sockets, SocketGone(s)
  PROVE  IInv'
  <1>1. /\ wsState' = [wsState EXCEPT ![s] = "gone"]
        /\ UNCHANGED now
    BY DEF SocketGone
  <1>2. wsState' \in [Sockets -> {"fresh", "open", "closing", "gone"}]
    BY <1>1 DEF IInv, TypeOK
  <1>3. CASE sock[Owner(s)] = s
    <2>1. RemovePeer(Owner(s), {s})
      BY <1>3 DEF SocketGone
    <2>2. Owner(s) \in Members
      BY <1>3, OwnerIsPeer, SocketsAssumption DEF Members
    <2>3. \A x \in Sockets : Owner(x) # Owner(s) => wsState'[x] = wsState[x]
      BY <1>1 DEF IInv, TypeOK
    <2>4. QED
      BY <1>1, <1>2, <2>1, <2>2, <2>3, RemovePeerIInv
  <1>4. CASE sock[Owner(s)] # s
    <2>1. /\ att' = [att EXCEPT ![s] = NoAttachment]
          /\ told' = [told EXCEPT ![s] = NoView]
          /\ UNCHANGED memory
      BY <1>4 DEF SocketGone
    <2>2. Members' = Members /\ \A p \in Members : sock[p] # s
      BY <1>4, <2>1 DEF Members, memory, IInv, AttachmentsFresh
    <2>3. TypeOK'
      BY <1>1, <1>2, <2>1 DEF IInv, TypeOK, memory, Views, NoView
    <2>4. OutsidersBlank' /\ JoinedInThePast' /\ SeniorMemberLeads'
      BY <1>1, <2>1, <2>2
      DEF IInv, OutsidersBlank, JoinedInThePast, SeniorMemberLeads, memory
    <2>5. AttachmentsFresh'
      BY <1>1, <2>1, <2>2 DEF IInv, TypeOK, AttachmentsFresh, memory
    <2>6. AnnouncementsCurrent'
      BY <2>1, <2>2 DEF IInv, TypeOK, AnnouncementsCurrent, AttachmentsFresh, memory
    <2>7. QED
      BY <2>3, <2>4, <2>5, <2>6 DEF IInv
  <1>5. QED
    BY <1>3, <1>4

(* Hibernation rebuilds the memory of a room with members exactly. *)
LEMMA HibernateRestores ==
  ASSUME IInv, ~AllowLinger, Hibernate, Members # {}
  PROVE  UNCHANGED memory
  <1>b. TypeOK
    BY DEF IInv
  <1> DEFINE restored == {Owner(s) : s \in CurrentSockets}
  <1>1. \A p \in Members : /\ sock[p] \in CurrentSockets
                           /\ Owner(sock[p]) = p
                           /\ att[sock[p]].joinedAt = joinedAt[p]
                           /\ att[sock[p]].epoch = epoch
                           /\ att[sock[p]].leader = leader
                           /\ att[sock[p]].room = roomId
    <2>1. \A p \in Members : sock[p] \in Sockets /\ Owner(sock[p]) = p
      BY DEF IInv, AttachmentsFresh
    <2>2. \A p \in Members :
            att[sock[p]] = [peer |-> p, joinedAt |-> joinedAt[p], epoch |-> epoch,
                            leader |-> leader, room |-> roomId]
      BY DEF IInv, AttachmentsFresh
    <2>3. \A p \in Members : sock[p] \in CurrentSockets
      BY <2>1 DEF CurrentSockets
    <2>4. ASSUME NEW p \in Members
          PROVE  /\ att[sock[p]].joinedAt = joinedAt[p]
                 /\ att[sock[p]].epoch = epoch
                 /\ att[sock[p]].leader = leader
                 /\ att[sock[p]].room = roomId
      <3>1. att[sock[p]] = [peer |-> p, joinedAt |-> joinedAt[p], epoch |-> epoch,
                            leader |-> leader, room |-> roomId]
        BY <2>2
      <3>2. QED
        BY <3>1
    <2>5. QED
      BY <2>1, <2>3, <2>4
  <1>2. \A s \in CurrentSockets : Owner(s) \in Members /\ sock[Owner(s)] = s
    BY OwnerIsPeer, SocketsAssumption DEF CurrentSockets, Members
  <1>3. restored = Members /\ CurrentSockets # {}
    BY <1>1, <1>2
  <1>4. PICK f \in [restored -> CurrentSockets] :
          /\ \A p \in restored : Owner(f[p]) = p
          /\ sock' = [p \in Peers |-> IF p \in restored THEN f[p] ELSE NoSocket]
          /\ joinedAt' = [p \in Peers |-> IF p \in restored THEN att[f[p]].joinedAt ELSE 0]
    BY DEF Hibernate
  <1>5. \E s \in CurrentSockets : /\ epoch' = att[s].epoch
                                  /\ leader' = att[s].leader
                                  /\ roomId' = att[s].room
    BY <1>3 DEF Hibernate
  <1>6. \A p \in Members : f[p] = sock[p]
    BY <1>2, <1>3, <1>4
  <1>7. sock' = sock
    BY <1>b, <1>3, <1>4, <1>6 DEF Members, TypeOK
  <1>8. joinedAt' = joinedAt
    BY <1>b, <1>1, <1>3, <1>4, <1>6 DEF IInv, OutsidersBlank, Members, TypeOK
  <1>9. epoch' = epoch /\ leader' = leader /\ roomId' = roomId
    BY <1>1, <1>2, <1>5
  <1>10. QED
    BY <1>7, <1>8, <1>9 DEF memory

LEMMA HibernateIInv ==
  ASSUME IInv, ~AllowLinger, Hibernate
  PROVE  IInv'
  <1>1. UNCHANGED <<now, wsState, att, told>>
    BY DEF Hibernate
  <1>2. CASE Members # {}
    <2>1. UNCHANGED vars
      BY <1>1, <1>2, HibernateRestores DEF vars
    <2>2. QED
      BY <2>1 DEF vars, memory, IInv, TypeOK, OutsidersBlank, JoinedInThePast,
                  SeniorMemberLeads, AttachmentsFresh, AnnouncementsCurrent, Members
  <1>3. CASE Members = {}
    <2>1. CurrentSockets = {}
      BY <1>3, OwnerIsPeer, SocketsAssumption DEF CurrentSockets, Members
    <2>2. /\ sock' = [p \in Peers |-> NoSocket]
          /\ joinedAt' = [p \in Peers |-> 0]
          /\ epoch' = 1 /\ leader' = NoPeer /\ roomId' = NoRoom
      BY <2>1 DEF Hibernate
    <2>3. Members' = {}
      BY <2>2 DEF Members
    <2>4. QED
      BY <1>1, <2>2, <2>3
      DEF IInv, TypeOK, OutsidersBlank, JoinedInThePast, SeniorMemberLeads,
          AttachmentsFresh, AnnouncementsCurrent
  <1>4. QED
    BY <1>2, <1>3

LEMMA RestartIInv ==
  ASSUME IInv, Restart
  PROVE  IInv'
  <1>1. Members' = {}
    BY DEF Restart, Members
  <1>2. TypeOK'
    BY DEF Restart, IInv, TypeOK, Views, NoView
  <1>3. OutsidersBlank' /\ JoinedInThePast'
    BY DEF Restart, IInv, TypeOK, OutsidersBlank, JoinedInThePast
  <1>4. QED
    BY <1>1, <1>2, <1>3 DEF IInv, SeniorMemberLeads, AttachmentsFresh, AnnouncementsCurrent

LEMMA StepIInv ==
  ASSUME IInv, ~AllowLinger, [Next]_vars
  PROVE  IInv'
  <1>1. ASSUME NEW s \in Sockets, Accept(s) \/ Unreachable(s) PROVE IInv'
    BY <1>1, ConnectionIInv
  <1>2. ASSUME NEW s \in Sockets, NEW r \in Rooms, Join(s, r) PROVE IInv'
    BY <1>2, JoinIInv
  <1>3. ASSUME NEW s \in Sockets, Bye(s) PROVE IInv'
    BY <1>3, ByeIInv
  <1>4. ASSUME NEW s \in Sockets, SocketGone(s) PROVE IInv'
    BY <1>4, SocketGoneIInv
  <1>5. CASE Hibernate
    BY <1>5, HibernateIInv
  <1>6. CASE Restart
    BY <1>6, RestartIInv
  <1>7. CASE UNCHANGED vars
    BY <1>7 DEF vars, memory, IInv, TypeOK, OutsidersBlank, JoinedInThePast,
                SeniorMemberLeads, AttachmentsFresh, AnnouncementsCurrent, Members
  <1>8. QED
    BY <1>1, <1>2, <1>3, <1>4, <1>5, <1>6, <1>7 DEF Next

(* In every reachable state of the room the inductive invariant holds. *)
THEOREM RoomInvariant == ~AllowLinger => (Spec => []IInv)
  <1> SUFFICES ASSUME ~AllowLinger PROVE Spec => []IInv
    OBVIOUS
  <1>1. IInv /\ [Next]_vars => IInv'
    BY StepIInv
  <1>2. QED
    BY <1>1, InitIInv, PTL DEF Spec

(* A room with members is led by its senior member. *)
THEOREM SeniorLeads == ~AllowLinger => (Spec => []SeniorMemberLeads)
  <1>1. IInv => SeniorMemberLeads
    BY DEF IInv
  <1>2. QED
    BY <1>1, RoomInvariant, PTL

(* At every handler boundary the attachments hold the room. *)
THEOREM AttachmentsHoldRoom == ~AllowLinger => (Spec => []AttachmentsFresh)
  <1>1. IInv => AttachmentsFresh
    BY DEF IInv
  <1>2. QED
    BY <1>1, RoomInvariant, PTL

(* Every member has been sent the current leader, epoch and membership. *)
THEOREM EveryChangeAnnounced == ~AllowLinger => (Spec => []AnnouncementsCurrent)
  <1>1. IInv => AnnouncementsCurrent
    BY DEF IInv
  <1>2. QED
    BY <1>1, RoomInvariant, PTL

(* While somebody stays connected, another leader means a larger epoch. *)
THEOREM Fencing == ~AllowLinger => (Spec => LeadershipIsFenced)
  <1> DEFINE Fenced == (\E p \in Members : sock'[p] = sock[p]) =>
                          /\ epoch' >= epoch
                          /\ leader' # leader => epoch' > epoch
  <1> SUFFICES ASSUME ~AllowLinger PROVE Spec => LeadershipIsFenced
    OBVIOUS
  <1>1. ASSUME IInv, [Next]_vars
        PROVE  Fenced
    <2> SUFFICES ASSUME \E p \in Members : sock'[p] = sock[p]
                 PROVE  epoch' >= epoch /\ (leader' # leader => epoch' > epoch)
      OBVIOUS
    <2>a. epoch \in Nat /\ Members # {} /\ leader \in Members
      BY <1>1 DEF IInv, TypeOK, SeniorMemberLeads
    <2>1. ASSUME NEW s \in Sockets, NEW r \in Rooms, Join(s, r)
          PROVE  epoch' = epoch /\ leader' = leader
      BY <2>1, <2>a DEF Join
    <2>2. ASSUME NEW s \in Sockets, Bye(s) \/ SocketGone(s)
          PROVE  epoch' >= epoch /\ (leader' # leader => epoch' > epoch)
      BY <2>2, <2>a DEF Bye, SocketGone, RemovePeer, memory
    <2>3. CASE Hibernate
      <3>1. UNCHANGED memory
        BY <1>1, <2>3, <2>a, HibernateRestores
      <3>2. QED
        BY <3>1, <2>a DEF memory
    <2>4. ~Restart
      BY DEF Restart, Members
    <2>5. CASE (\E s \in Sockets : Accept(s) \/ Unreachable(s)) \/ UNCHANGED vars
      <3>1. UNCHANGED memory
        BY <2>5 DEF Accept, Unreachable, vars
      <3>2. QED
        BY <3>1, <2>a DEF memory
    <2>6. QED
      BY <1>1, <2>a, <2>1, <2>2, <2>3, <2>4, <2>5 DEF Next
  <1>2. IInv /\ [Next]_vars => [Fenced]_vars
    BY <1>1
  <1>3. Spec => []IInv
    BY RoomInvariant
  <1>4. QED
    BY <1>2, <1>3, PTL DEF LeadershipIsFenced, Spec

-----------------------------------------------------------------------------
(* The room among its pages. *)

LEMMA ReceiveIsRoomStep ==
  ASSUME NEW s \in Sockets,
         ReceiveJoin(s) \/ ReceiveBye(s) \/ ReceiveSignal(s) \/ NoticeGone(s)
  PROVE  [Next]_vars
  <1>1. CASE ReceiveJoin(s)
    BY <1>1 DEF ReceiveJoin, Next
  <1>2. CASE ReceiveBye(s)
    BY <1>2 DEF ReceiveBye, Next
  <1>3. CASE ReceiveSignal(s)
    BY <1>3 DEF ReceiveSignal
  <1>4. CASE NoticeGone(s)
    BY <1>4 DEF NoticeGone, Next
  <1>5. QED
    BY <1>1, <1>2, <1>3, <1>4

LEMMA ConnectIsRoomStep ==
  ASSUME NEW s \in Sockets, Connect(s) \/ ConnectFails(s)
  PROVE  Next
  BY DEF Connect, ConnectFails, Next

LEMMA PageStepsLeaveRoom ==
  ASSUME NEW p \in Peers,
         \/ Read(p) \/ SocketFails(p) \/ SendOffer(p) \/ SessionOpens(p) \/ SessionCloses(p)
         \/ WatchdogFires(p) \/ Leave(p) \/ Crash(p)
         \/ \E q \in Peers : SendAnswer(p, q)
  PROVE  UNCHANGED vars
  BY DEF Read, SocketFails, SendOffer, SessionOpens, SessionCloses, WatchdogFires, Leave,
         Crash, SendAnswer

LEMMA ForgettingIsRoomStep ==
  ASSUME RoomRestarts \/ EmptyRoomHibernates
  PROVE  Next
  BY DEF RoomRestarts, EmptyRoomHibernates, Next

LEMMA PeersStepIsRoomStep ==
  ASSUME [PeersNext]_peerVars
  PROVE  [Next]_vars
  <1>1. CASE Proceed
    <2>1. CASE \E s \in Sockets : Connect(s)
      BY <2>1, ConnectIsRoomStep
    <2>2. CASE \E s \in Sockets :
                 ReceiveJoin(s) \/ ReceiveBye(s) \/ ReceiveSignal(s) \/ NoticeGone(s)
      BY <2>2, ReceiveIsRoomStep
    <2>3. CASE \E p \in Peers :
                 \/ Read(p) \/ SocketFails(p) \/ SendOffer(p) \/ SessionOpens(p)
                 \/ SessionCloses(p) \/ \E q \in Peers : SendAnswer(p, q)
      BY <2>3, PageStepsLeaveRoom
    <2>4. CASE EmptyRoomHibernates
      BY <2>4, ForgettingIsRoomStep
    <2>5. QED
      BY <1>1, <2>1, <2>2, <2>3, <2>4 DEF Proceed
  <1>2. CASE \E s \in Sockets : ConnectFails(s) \/ NoticeGone(s)
    BY <1>2, ConnectIsRoomStep, ReceiveIsRoomStep
  <1>3. CASE \E p \in Peers : SocketFails(p) \/ SessionCloses(p) \/ WatchdogFires(p)
                              \/ Leave(p) \/ Crash(p)
    BY <1>3, PageStepsLeaveRoom
  <1>4. CASE RoomRestarts
    BY <1>4, ForgettingIsRoomStep
  <1>5. CASE UNCHANGED peerVars
    BY <1>5 DEF peerVars
  <1>6. QED
    BY <1>1, <1>2, <1>3, <1>4, <1>5 DEF PeersNext

(* Whatever the pages do and whatever fails, the room takes its own steps only. *)
LEMMA PeersImplementRoom == PeersSpec => Spec
  <1>1. PeersInit => Init
    BY DEF PeersInit
  <1>2. [PeersNext]_peerVars => [Next]_vars
    BY PeersStepIsRoomStep
  <1>3. QED
    BY <1>1, <1>2, PTL DEF PeersSpec, Spec

(* So the guarantees of the room reach the pages: the leader is a member and *)
(* the senior one, the attachments hold the room, changes are announced.     *)
THEOREM RoomWithPeersInvariant == ~AllowLinger => (PeersSpec => []IInv)
  BY PeersImplementRoom, RoomInvariant, PTL

(* While a page stays connected, another leader comes with a larger epoch,   *)
(* the ground on which pages drop smaller ones.                              *)
THEOREM FencingWithPeers == ~AllowLinger => (PeersSpec => LeadershipIsFenced)
  BY PeersImplementRoom, Fencing, PTL

-----------------------------------------------------------------------------
(***************************************************************************)
(* What every page comes to believe of an epoch rests on a claim that some *)
(* peer leads in it: the room makes one, announcements and offers carry     *)
(* them, and pages remember them.  No two claims of an epoch differ, which  *)
(* is inductive where the uniqueness of servers is not.                     *)
(***************************************************************************)
IsAnnouncement(m) == m.type \in {"room-state", "leader-changed"}

Believed(p) == IF page[p].role = "server" THEN p ELSE page[p].server

Claimed(e, p) ==
  \/ leader # NoPeer /\ e = epoch /\ p = leader
  \/ \E q \in Peers : Remembers(q) /\ e = page[q].epoch /\ p = Believed(q)
  \/ \E s \in Sockets : \E i \in 1..Len(down[s]) :
       /\ e = down[s][i].epoch
       /\ \/ IsAnnouncement(down[s][i]) /\ p = down[s][i].leader
          \/ down[s][i].type = "offer" /\ p = Owner(s)
  \/ \E s \in Sockets : \E i \in 1..Len(up[s]) :
       up[s][i].type = "offer" /\ e = up[s][i].epoch /\ p = up[s][i].to

ClaimsAgree ==
  \A e \in Nat : \A p, q \in Peers : Claimed(e, p) /\ Claimed(e, q) => p = q

(* The room has made every claim itself, so a leader it picks next is new.   *)
ClaimsArePast ==
  \A e \in Nat : \A p \in Peers :
    Claimed(e, p) => e <= epoch /\ (e = epoch => leader # NoPeer)

EmptyRoomLeaderless == Members = {} => leader = NoPeer

(* What a page's fields say of each other.                                   *)
PagesSound ==
  \A p \in Peers :
    /\ IF page[p].link = "up" THEN page[p].sock \in Sockets /\ Owner(page[p].sock) = p
       ELSE page[p].sock = NoSocket
    /\ page[p].role = "undecided" => page[p].epoch = NoEpoch
    /\ page[p].role = "client" =>
         page[p].epoch # NoEpoch /\ page[p].server \in Peers \ {p}
    /\ page[p].session = "starting" => page[p].role = "client"

OnlyUsedSockets == \A s \in Sockets : down[s] # <<>> => Uses(Owner(s), s)

(* A page reads epochs in ascending order, each signal after an announcement *)
(* of its epoch, and once it has read all that is under way it knows the     *)
(* room's epoch, if it is a member on the socket it uses.                     *)
Introduced(known, q, e, n) ==
  known = e \/ \E i \in 1..(n - 1) : IsAnnouncement(q[i]) /\ q[i].epoch = e

PagesInStep ==
  \A p \in Peers : page[p].alive /\ page[p].link = "up" =>
    LET q == down[page[p].sock] IN
    /\ \A i \in 1..Len(q) :
         /\ page[p].epoch <= q[i].epoch /\ q[i].epoch <= epoch
         /\ IsAnnouncement(q[i]) => q[i].leader # NoPeer
         /\ ~IsAnnouncement(q[i]) => Introduced(page[p].epoch, q, q[i].epoch, i)
         /\ \A j \in 1..i : q[j].epoch <= q[i].epoch
    /\ sock[p] = page[p].sock => Introduced(page[p].epoch, q, epoch, Len(q) + 1)

PeersInv ==
  /\ PeersTypeOK
  /\ ClaimsAgree
  /\ ClaimsArePast
  /\ EmptyRoomLeaderless
  /\ PagesSound
  /\ OnlyUsedSockets
  /\ PagesInStep

-----------------------------------------------------------------------------
(* Reading and extending a queue. *)
LEMMA AppendAt ==
  ASSUME NEW S, NEW q \in Seq(S), NEW m \in S
  PROVE  /\ Append(q, m) \in Seq(S)
         /\ Len(Append(q, m)) = Len(q) + 1 /\ Len(q) \in Nat
         /\ \A i \in 1..Len(q) : Append(q, m)[i] = q[i]
         /\ Append(q, m)[Len(q) + 1] = m
  OBVIOUS

LEMMA TailAt ==
  ASSUME NEW S, NEW q \in Seq(S), q # <<>>
  PROVE  /\ Tail(q) \in Seq(S) /\ Head(q) \in S /\ Head(q) = q[1]
         /\ Len(Tail(q)) = Len(q) - 1 /\ Len(q) \in Nat \ {0}
         /\ \A i \in 1..Len(Tail(q)) : Tail(q)[i] = q[i + 1]
  OBVIOUS

(* The manager's handlers, on any page. *)
LEMMA MembersLeftKeeps ==
  ASSUME NEW pg \in Pages, NEW gone
  PROVE  /\ OnMembersLeft(pg, gone) \in Pages
         /\ OnMembersLeft(pg, gone).alive = pg.alive
         /\ OnMembersLeft(pg, gone).link = pg.link
         /\ OnMembersLeft(pg, gone).sock = pg.sock
         /\ OnMembersLeft(pg, gone).epoch = pg.epoch
         /\ OnMembersLeft(pg, gone).role = pg.role
         /\ OnMembersLeft(pg, gone).server = pg.server
         /\ OnMembersLeft(pg, gone).session = pg.session
  BY DEF OnMembersLeft, NotifySessionLost, Pages

(* A signal changes neither what a page is nor the epoch it knows.           *)
LEMMA OnSignalKeeps ==
  ASSUME NEW pg \in Pages, NEW me \in Peers, NEW m \in Signals
  PROVE  LET new == OnMessage(pg, me, m) IN
         /\ new \in Pages
         /\ new.alive = pg.alive /\ new.link = pg.link /\ new.sock = pg.sock
         /\ new.epoch = pg.epoch /\ new.role = pg.role /\ new.server = pg.server
         /\ new.session = "starting" => pg.session = "starting"
  <1>1. OnMessage(pg, me, m) = OnSignal(pg, m)
    BY DEF OnMessage, Signals
  <1>2. CASE m.type = "offer" /\ pg.role = "server"
    <2>1. OnSignal(pg, m) = [pg EXCEPT !.serving[m.from] = "answering"] /\ m.from \in Peers
      BY <1>2 DEF OnSignal, Signals
    <2>2. QED
      BY <1>1, <2>1 DEF Pages
  <1>3. CASE /\ ~(m.type = "offer" /\ pg.role = "server")
             /\ m.type = "answer" /\ pg.role = "client" /\ pg.server = m.from
             /\ pg.session = "offered"
    <2>1. OnSignal(pg, m) = [pg EXCEPT !.session = "answered"]
      BY <1>3 DEF OnSignal
    <2>2. QED
      BY <1>1, <2>1 DEF Pages
  <1>4. CASE OnSignal(pg, m) = [pg EXCEPT !.lost = TRUE]
    <2>1. [pg EXCEPT !.lost = TRUE] \in Pages
      BY DEF Pages
    <2>2. QED
      BY <1>1, <1>4, <2>1 DEF Pages
  <1>5. CASE OnSignal(pg, m) = pg
    BY <1>1, <1>5
  <1>6. QED
    BY <1>2, <1>3, <1>4, <1>5 DEF OnSignal, NotifySessionLost

LEMMA BecomeServerKeeps ==
  ASSUME NEW pg \in Pages
  PROVE  LET new == BecomeServer(pg) IN
         /\ new \in Pages
         /\ new.alive = pg.alive /\ new.link = pg.link /\ new.sock = pg.sock
         /\ new.epoch = pg.epoch /\ new.role = "server"
         /\ new.session = "starting" => pg.role = "server" /\ pg.session = "starting"
  <1>1. CASE pg.role = "server"
    BY <1>1 DEF BecomeServer
  <1>2. CASE pg.role # "server"
    <2>1. BecomeServer(pg) =
            [pg EXCEPT !.role = "server", !.server = NoPeer, !.session = "none", !.lost = FALSE]
      BY <1>2 DEF BecomeServer
    <2>2. BecomeServer(pg) \in Pages
      BY <2>1 DEF Pages
    <2>3. QED
      BY <2>1, <2>2 DEF Pages
  <1>3. QED
    BY <1>1, <1>2

LEMMA AssignedPage ==
  ASSUME NEW pg \in Pages, NEW me \in Peers, NEW lead \in Peers, NEW e \in Nat,
         pg.epoch <= e, pg.session = "starting" => pg.role = "client"
  PROVE  LET new == OnLeaderAssigned(pg, me, lead, e) IN
         /\ new \in Pages
         /\ new.alive = pg.alive /\ new.link = pg.link /\ new.sock = pg.sock
         /\ new.epoch = e
         /\ lead = me => new.role = "server"
         /\ lead # me => new.role = "client" /\ new.server = lead
         /\ new.session = "starting" => new.role = "client"
  <1>a. lead # NoPeer /\ ~(e < pg.epoch)
    BY NullsAssumption DEF Pages, NoEpoch
  <1> DEFINE informed == [pg EXCEPT !.epoch = e]
  <1>1. informed \in Pages /\ informed.epoch = e /\ informed.alive = pg.alive
        /\ informed.link = pg.link /\ informed.sock = pg.sock /\ informed.role = pg.role
        /\ informed.session = pg.session /\ informed.server = pg.server
    BY DEF Pages
  <1>2. CASE lead = me
    <2>1. OnLeaderAssigned(pg, me, lead, e) = BecomeServer(informed)
      BY <1>a, <1>2 DEF OnLeaderAssigned
    <2> HIDE DEF informed
    <2>2. QED
      BY <1>1, <1>2, <2>1, BecomeServerKeeps
  <1>3. CASE lead # me /\ pg.role = "client" /\ pg.server = lead
    BY <1>a, <1>1, <1>3 DEF OnLeaderAssigned
  <1>4. CASE lead # me /\ ~(pg.role = "client" /\ pg.server = lead)
    <2>1. OnLeaderAssigned(pg, me, lead, e) = BecomeClient(informed, lead)
      BY <1>a, <1>4 DEF OnLeaderAssigned
    <2> HIDE DEF informed
    <2> DEFINE new == BecomeClient(informed, lead)
    <2>2. /\ new.alive = pg.alive /\ new.link = pg.link /\ new.sock = pg.sock
          /\ new.epoch = e /\ new.role = "client" /\ new.server = lead
      BY <1>1 DEF BecomeClient, Pages
    <2>3. new \in Pages
      <3>1. NobodyServed \in [Peers -> {"none", "answering", "answered"}]
        BY DEF NobodyServed
      <3>2. QED
        BY <1>1, <3>1 DEF BecomeClient, Pages
    <2>4. QED
      BY <1>4, <2>1, <2>2, <2>3
  <1>5. QED
    BY <1>2, <1>3, <1>4

(* An announcement that is not older than what a page knows decides both.    *)
LEMMA OnAnnouncementAssigns ==
  ASSUME NEW pg \in Pages, NEW me \in Peers, NEW m \in Announcements, m.leader # NoPeer,
         pg.epoch <= m.epoch, pg.session = "starting" => pg.role = "client"
  PROVE  LET new == OnMessage(pg, me, m) IN
         /\ new \in Pages
         /\ new.alive = pg.alive /\ new.link = pg.link /\ new.sock = pg.sock
         /\ new.epoch = m.epoch
         /\ m.leader = me => new.role = "server"
         /\ m.leader # me => new.role = "client" /\ new.server = m.leader
         /\ new.session = "starting" => new.role = "client"
  <1>a. m.leader \in Peers /\ m.epoch \in Nat
    BY DEF Announcements
  <1>1. CASE m.type = "room-state"
    <2>1. m.peers \in SUBSET Peers
      BY <1>1 DEF Announcements
    <2> DEFINE others == m.peers \ {me}
               left == OnMembersLeft(pg, pg.known \ others)
               seen == [left EXCEPT !.known = others, !.retry = 0]
    <2>2. OnMessage(pg, me, m) = OnLeaderAssigned(seen, me, m.leader, m.epoch)
      BY <1>1 DEF OnMessage, OnRoomState
    <2>3. /\ left \in Pages /\ left.alive = pg.alive /\ left.link = pg.link
          /\ left.sock = pg.sock /\ left.epoch = pg.epoch /\ left.role = pg.role
          /\ left.session = pg.session
      BY MembersLeftKeeps
    <2> HIDE DEF left
    <2>4. seen \in Pages
      <3>1. others \in SUBSET Peers /\ 0 \in 0..MaxRetries
        BY <2>1, PeersAssumption
      <3> HIDE DEF others
      <3>2. QED
        BY <2>3, <3>1 DEF Pages
    <2>5. /\ seen.alive = pg.alive /\ seen.link = pg.link
          /\ seen.sock = pg.sock /\ seen.epoch = pg.epoch /\ seen.role = pg.role
          /\ seen.session = pg.session
      BY <2>3 DEF Pages
    <2> HIDE DEF seen
    <2>6. QED
      BY <1>a, <2>2, <2>4, <2>5, AssignedPage
  <1>2. CASE m.type = "leader-changed"
    <2>1. OnMessage(pg, me, m) = OnLeaderAssigned(pg, me, m.leader, m.epoch)
      BY <1>2 DEF OnMessage
    <2>2. QED
      BY <1>a, <2>1, AssignedPage
  <1>3. QED
    BY <1>1, <1>2 DEF Announcements

(* Giving up makes an undecided page serve itself, under no epoch.           *)
LEMMA ReconnectKeeps ==
  ASSUME NEW pg \in Pages
  PROVE  LET new == Reconnect(pg) IN
         /\ new \in Pages
         /\ new.alive = pg.alive /\ new.link # "up" /\ new.sock = NoSocket
         /\ new.epoch = pg.epoch
         /\ \/ new.role = pg.role /\ new.server = pg.server
            \/ pg.role = "undecided" /\ new.role = "server"
         /\ new.session = "starting" => pg.session = "starting" /\ new.role = pg.role
  <1>1. CASE pg.retry >= MaxRetries
    <2> DEFINE cut == [pg EXCEPT !.link = "down", !.sock = NoSocket]
    <2>1. Reconnect(pg) = OnSignalingError(cut)
      BY <1>1 DEF Reconnect
    <2>2. /\ cut \in Pages /\ cut.alive = pg.alive /\ cut.link = "down" /\ cut.sock = NoSocket
          /\ cut.epoch = pg.epoch /\ cut.role = pg.role /\ cut.server = pg.server
          /\ cut.session = pg.session
      BY DEF Pages
    <2> HIDE DEF cut
    <2>3. CASE pg.role # "undecided"
      BY <2>1, <2>2, <2>3 DEF OnSignalingError
    <2>4. CASE pg.role = "undecided"
      <3>1. OnSignalingError(cut) =
              [cut EXCEPT !.role = "server", !.server = NoPeer, !.session = "none", !.lost = FALSE]
        BY <2>2, <2>4 DEF OnSignalingError, BecomeServer
      <3>2. OnSignalingError(cut) \in Pages
        BY <2>2, <3>1 DEF Pages
      <3>3. QED
        BY <2>1, <2>2, <2>4, <3>1, <3>2 DEF Pages
    <2>5. QED
      BY <2>3, <2>4
  <1>2. CASE ~(pg.retry >= MaxRetries)
    <2>1. Reconnect(pg) =
            [pg EXCEPT !.link = "connecting", !.sock = NoSocket, !.retry = @ + 1]
      BY <1>2 DEF Reconnect
    <2>2. pg.retry + 1 \in 0..MaxRetries
      BY <1>2, PeersAssumption DEF Pages
    <2>3. Reconnect(pg) \in Pages
      BY <2>1, <2>2 DEF Pages
    <2>4. QED
      BY <2>1, <2>3 DEF Pages
  <1>3. QED
    BY <1>1, <1>2

-----------------------------------------------------------------------------
(* How a handler of the room moves the leadership: not at all, into a new    *)
(* epoch, or from nobody to the first member.                                *)
LeadershipMoves ==
  \/ leader' = leader /\ epoch' = epoch
  \/ epoch' > epoch
  \/ leader = NoPeer /\ epoch' = epoch

LEMMA RemovePeerMoves ==
  ASSUME IInv, EmptyRoomLeaderless, NEW p \in Members, NEW ending, RemovePeer(p, ending)
  PROVE  LeadershipMoves /\ EmptyRoomLeaderless'
  <1>1. Members' = Members \ {p}
    BY DEF RemovePeer, Members, IInv, TypeOK
  <1>2. CASE leader = p
    BY <1>1, <1>2 DEF RemovePeer, NextLeaders, LeadershipMoves, EmptyRoomLeaderless, IInv, TypeOK
  <1>3. CASE leader # p
    BY <1>1, <1>3 DEF RemovePeer, LeadershipMoves, EmptyRoomLeaderless, IInv, SeniorMemberLeads
  <1>4. QED
    BY <1>2, <1>3

LEMMA RoomMoves ==
  ASSUME IInv, EmptyRoomLeaderless, NEW s \in Sockets,
         Accept(s) \/ Unreachable(s) \/ (\E r \in Rooms : Join(s, r)) \/ Bye(s) \/ SocketGone(s)
  PROVE  LeadershipMoves /\ EmptyRoomLeaderless'
  <1>a. Owner(s) \in Peers /\ s # NoSocket
    BY OwnerIsPeer, SocketsAssumption
  <1>1. CASE Accept(s) \/ Unreachable(s)
    BY <1>1 DEF Accept, Unreachable, memory, LeadershipMoves, EmptyRoomLeaderless, Members
  <1>2. CASE \E r \in Rooms : Join(s, r)
    <2>1. /\ sock' = [sock EXCEPT ![Owner(s)] = s]
          /\ leader' = IF leader \in Members THEN leader ELSE Owner(s)
          /\ epoch' = epoch
      BY <1>2 DEF Join
    <2>2. Owner(s) \in Members'
      BY <1>a, <2>1 DEF Members, IInv, TypeOK
    <2>3. leader \in Members \/ leader = NoPeer
      BY DEF IInv, SeniorMemberLeads, EmptyRoomLeaderless
    <2>4. QED
      BY <2>1, <2>2, <2>3 DEF LeadershipMoves, EmptyRoomLeaderless
  <1>3. CASE Bye(s)
    BY <1>a, <1>3, RemovePeerMoves DEF Bye, Members
  <1>4. CASE SocketGone(s)
    <2>1. CASE sock[Owner(s)] = s
      BY <1>a, <1>4, <2>1, RemovePeerMoves DEF SocketGone, Members
    <2>2. CASE sock[Owner(s)] # s
      BY <1>4, <2>2 DEF SocketGone, memory, LeadershipMoves, EmptyRoomLeaderless, Members
    <2>3. QED
      BY <2>1, <2>2
  <1>5. QED
    BY <1>1, <1>2, <1>3, <1>4

(* The heart of the argument: a step that makes no claim but the room's own  *)
(* keeps all claims in agreement.                                            *)
LEMMA ClaimsStep ==
  ASSUME IInv, IInv', ClaimsAgree, ClaimsArePast, LeadershipMoves,
         \A e \in Nat : \A p \in Peers :
           Claimed(e, p)' => \/ Claimed(e, p)
                             \/ leader' # NoPeer /\ e = epoch' /\ p = leader'
  PROVE  ClaimsAgree' /\ ClaimsArePast'
  <1>a. epoch \in Nat /\ epoch' \in Nat
    BY DEF IInv, TypeOK
  <1>b. leader # NoPeer => leader \in Peers /\ Claimed(epoch, leader)
    BY DEF IInv, TypeOK, Claimed
  <1>1. ASSUME NEW e \in Nat, NEW p \in Peers, Claimed(e, p)
        PROVE  /\ e <= epoch'
               /\ e = epoch' => leader' # NoPeer /\ p = leader'
    <2>1. e <= epoch /\ (e = epoch => leader # NoPeer /\ p = leader)
      BY <1>a, <1>b, <1>1 DEF ClaimsAgree, ClaimsArePast
    <2>2. QED
      BY <1>a, <2>1 DEF LeadershipMoves
  <1> HIDE DEF Claimed
  <1>2. \A e \in Nat : \A p \in Peers : Claimed(e, p)' => e <= epoch' /\ (e = epoch' => leader' # NoPeer)
    BY <1>a, <1>1
  <1>3. \A e \in Nat : \A p, q \in Peers : Claimed(e, p)' /\ Claimed(e, q)' => p = q
    BY <1>1 DEF ClaimsAgree
  <1>4. QED
    BY <1>2, <1>3 DEF ClaimsAgree, ClaimsArePast

LEMMA IntroducedKept ==
  ASSUME NEW known, NEW q, NEW longer, Len(q) \in Nat,
         \A i \in 1..Len(q) : longer[i] = q[i],
         NEW e, NEW n \in 1..(Len(q) + 1), Introduced(known, q, e, n)
  PROVE  Introduced(known, longer, e, n)
  <1>1. \A i \in 1..(n - 1) : i \in 1..Len(q)
    OBVIOUS
  <1>2. QED
    BY <1>1 DEF Introduced

(* A page in step, from its socket s and what is under way to it: PagesInStep *)
(* of one page, with its conjuncts apart.                                    *)
LEMMA StepOfOnePage ==
  ASSUME NEW p \in Peers, PagesInStep, page[p].alive, page[p].link = "up",
         NEW q, q = down[page[p].sock]
  PROVE  /\ \A i \in 1..Len(q) :
              /\ page[p].epoch <= q[i].epoch /\ q[i].epoch <= epoch
              /\ IsAnnouncement(q[i]) => q[i].leader # NoPeer
              /\ ~IsAnnouncement(q[i]) => Introduced(page[p].epoch, q, q[i].epoch, i)
              /\ \A j \in 1..i : q[j].epoch <= q[i].epoch
         /\ sock[p] = page[p].sock => Introduced(page[p].epoch, q, epoch, Len(q) + 1)
  BY DEF PagesInStep

(* What the room pushes keeps everything in step, when it is an announcement *)
(* of the new leadership to all members, or a signal of the epoch to members  *)
(* that have been told of it, an offer to the leader.                         *)
LEMMA PushStep ==
  ASSUME IInv, IInv', PeersInv, LeadershipMoves,
         NEW m \in Announcements \cup Signals, NEW targets, Push(targets, m), page' = page,
         \A s \in targets :
           /\ m.epoch = epoch'
           /\ IsAnnouncement(m) => leader' # NoPeer /\ m.leader = leader'
           /\ ~IsAnnouncement(m) => sock[Owner(s)] = s /\ epoch' = epoch
           /\ m.type = "offer" => leader' # NoPeer /\ Owner(s) = leader',
         \A p \in Peers : sock'[p] # NoSocket =>
           \/ sock'[p] \in targets /\ IsAnnouncement(m)
           \/ sock'[p] = sock[p] /\ epoch' = epoch,
         \A s \in Sockets : \A i \in 1..Len(up'[s]) :
           \E j \in 1..Len(up[s]) : up'[s][i] = up[s][j]
  PROVE  /\ down' \in [Sockets -> Seq(Announcements \cup Signals)]
         /\ ClaimsAgree' /\ ClaimsArePast' /\ OnlyUsedSockets' /\ PagesInStep'
  <1>a. /\ epoch \in Nat /\ epoch' \in Nat /\ epoch <= epoch'
        /\ leader' \in Peers \cup {NoPeer}
    BY DEF IInv, TypeOK, LeadershipMoves
  <1>b. /\ page \in [Peers -> Pages] /\ down \in [Sockets -> Seq(Announcements \cup Signals)]
        /\ \A s \in Sockets : Owner(s) \in Peers
    BY OwnerIsPeer DEF PeersInv, PeersTypeOK
  <1>1. \A s \in Sockets :
          \/ s \in targets /\ Uses(Owner(s), s) /\ down'[s] = Append(down[s], m)
          \/ ~(s \in targets /\ Uses(Owner(s), s)) /\ down'[s] = down[s]
    BY DEF Push
  <1>2. down' \in [Sockets -> Seq(Announcements \cup Signals)]
    BY <1>b DEF Push
  <1>3. ASSUME NEW s \in Sockets, s \in targets, Uses(Owner(s), s)
        PROVE  /\ Len(down'[s]) = Len(down[s]) + 1 /\ Len(down[s]) \in Nat
               /\ \A i \in 1..Len(down[s]) : down'[s][i] = down[s][i]
               /\ down'[s][Len(down[s]) + 1] = m
    <2>1. down'[s] = Append(down[s], m)
      BY <1>1, <1>3
    <2>2. down[s] \in Seq(Announcements \cup Signals)
      BY <1>b
    <2>3. QED
      BY <2>1, <2>2, AppendAt
  <1>4. \A s \in Sockets : \A i \in 1..Len(down'[s]) :
          \/ i \in 1..Len(down[s]) /\ down'[s][i] = down[s][i]
          \/ down'[s][i] = m /\ s \in targets
    <2> SUFFICES ASSUME NEW s \in Sockets, NEW i \in 1..Len(down'[s])
                 PROVE  \/ i \in 1..Len(down[s]) /\ down'[s][i] = down[s][i]
                        \/ down'[s][i] = m /\ s \in targets
      OBVIOUS
    <2>1. CASE s \in targets /\ Uses(Owner(s), s)
      BY <1>3, <2>1
    <2>2. CASE ~(s \in targets /\ Uses(Owner(s), s))
      BY <1>1, <2>2
    <2>3. QED
      BY <2>1, <2>2
  <1>5. ASSUME NEW e \in Nat, NEW p \in Peers, Claimed(e, p)'
        PROVE  Claimed(e, p) \/ (leader' # NoPeer /\ e = epoch' /\ p = leader')
    <2>1. CASE leader' # NoPeer /\ e = epoch' /\ p = leader'
      BY <2>1
    <2>2. CASE \E q \in Peers : Remembers(q)' /\ e = page'[q].epoch /\ p = Believed(q)'
      BY <2>2 DEF Claimed, Remembers, Believed
    <2>3. CASE \E s \in Sockets : \E i \in 1..Len(down'[s]) :
                 /\ e = down'[s][i].epoch
                 /\ \/ IsAnnouncement(down'[s][i]) /\ p = down'[s][i].leader
                    \/ down'[s][i].type = "offer" /\ p = Owner(s)
      BY <1>4, <2>3 DEF Claimed
    <2>4. CASE \E s \in Sockets : \E i \in 1..Len(up'[s]) :
                 up'[s][i].type = "offer" /\ e = up'[s][i].epoch /\ p = up'[s][i].to
      BY <2>4 DEF Claimed
    <2>5. QED
      BY <1>5, <2>1, <2>2, <2>3, <2>4 DEF Claimed
  <1>6. ClaimsAgree' /\ ClaimsArePast'
    BY <1>5, ClaimsStep DEF PeersInv
  <1>7. OnlyUsedSockets'
    BY <1>1 DEF PeersInv, OnlyUsedSockets, Uses
  <1>8. PagesInStep'
    <2> SUFFICES ASSUME NEW p \in Peers, page[p].alive, page[p].link = "up",
                        NEW s, s = page[p].sock, NEW q, q = down'[s],
                        NEW old, old = down[s]
                 PROVE  /\ \A i \in 1..Len(q) :
                             /\ page[p].epoch <= q[i].epoch /\ q[i].epoch <= epoch'
                             /\ IsAnnouncement(q[i]) => q[i].leader # NoPeer
                             /\ ~IsAnnouncement(q[i]) => Introduced(page[p].epoch, q, q[i].epoch, i)
                             /\ \A j \in 1..i : q[j].epoch <= q[i].epoch
                        /\ sock'[p] = s => Introduced(page[p].epoch, q, epoch', Len(q) + 1)
      BY DEF PagesInStep, Introduced
    <2>1. s \in Sockets /\ Owner(s) = p /\ Uses(p, s)
      BY DEF PeersInv, PagesSound, Uses
    <2>2. page[p].epoch \in Nat \cup {NoEpoch} /\ page[p].epoch <= epoch
      <3>1. CASE page[p].epoch = NoEpoch
        BY <1>a, <3>1 DEF NoEpoch
      <3>2. CASE page[p].epoch # NoEpoch
        <4>1. page[p].epoch \in Nat /\ Remembers(p)
          BY <1>b, <3>2 DEF Pages, Remembers
        <4>2. Believed(p) \in Peers
          BY <1>b, <3>2 DEF PeersInv, PagesSound, Believed, Pages
        <4>3. Claimed(page[p].epoch, Believed(p))
          BY <4>1 DEF Claimed
        <4>4. QED
          BY <4>1, <4>2, <4>3 DEF PeersInv, ClaimsArePast
      <3>3. QED
        BY <1>b, <3>1, <3>2 DEF Pages
    <2>3. old \in Seq(Announcements \cup Signals) /\ Len(old) \in Nat
      BY <1>b, <2>1
    <2>4. \A i \in 1..Len(old) : old[i].epoch \in Nat \cup {NoEpoch}
      BY <2>3 DEF Announcements, Signals
    <2>5. /\ \A i \in 1..Len(old) :
               /\ page[p].epoch <= old[i].epoch /\ old[i].epoch <= epoch
               /\ IsAnnouncement(old[i]) => old[i].leader # NoPeer
               /\ ~IsAnnouncement(old[i]) => Introduced(page[p].epoch, old, old[i].epoch, i)
               /\ \A j \in 1..i : old[j].epoch <= old[i].epoch
          /\ sock[p] = s => Introduced(page[p].epoch, old, epoch, Len(old) + 1)
      BY StepOfOnePage DEF PeersInv
    <2>6. \A i \in 1..Len(old) : old[i].epoch <= epoch'
      BY <1>a, <2>4, <2>5 DEF NoEpoch
    <2>7. CASE s \in targets
      <3>1. /\ Len(q) = Len(old) + 1 /\ Len(old) \in Nat
            /\ \A i \in 1..Len(old) : q[i] = old[i]
            /\ q[Len(old) + 1] = m
        BY <1>3, <2>1, <2>7
      <3>2. /\ m.epoch = epoch'
            /\ IsAnnouncement(m) => m.leader # NoPeer
            /\ ~IsAnnouncement(m) => sock[p] = s /\ epoch' = epoch
        BY <2>1, <2>7
      <3>3. ASSUME NEW i \in 1..Len(q)
            PROVE  /\ page[p].epoch <= q[i].epoch /\ q[i].epoch <= epoch'
                   /\ IsAnnouncement(q[i]) => q[i].leader # NoPeer
                   /\ ~IsAnnouncement(q[i]) => Introduced(page[p].epoch, q, q[i].epoch, i)
                   /\ \A j \in 1..i : q[j].epoch <= q[i].epoch
        <4>1. CASE i \in 1..Len(old)
          <5>1. q[i] = old[i] /\ (\A j \in 1..i : j \in 1..Len(old) /\ q[j] = old[j])
            <6>1. i \in Nat /\ Len(old) \in Nat /\ i <= Len(old)
              BY <3>1, <4>1
            <6>2. \A j \in 1..i : j \in 1..Len(old)
              BY <6>1
            <6>3. QED
              BY <3>1, <4>1, <6>2
          <5>2. old[i].epoch <= epoch'
            BY <2>6, <4>1
          <5>3. ~IsAnnouncement(old[i]) => Introduced(page[p].epoch, q, old[i].epoch, i)
            <6>1. \A j \in 1..(i - 1) : j \in 1..i
              BY <3>1, <4>1
            <6>2. ~IsAnnouncement(old[i]) => Introduced(page[p].epoch, old, old[i].epoch, i)
              BY <2>5, <4>1
            <6>3. QED
              BY <5>1, <6>1, <6>2 DEF Introduced
          <5>4. /\ page[p].epoch <= old[i].epoch
                /\ IsAnnouncement(old[i]) => old[i].leader # NoPeer
                /\ \A j \in 1..i : old[j].epoch <= old[i].epoch
            BY <2>5, <4>1
          <5>5. QED
            BY <5>1, <5>2, <5>3, <5>4
        <4>2. CASE i = Len(old) + 1
          <5>1. q[i].epoch = epoch' /\ page[p].epoch <= epoch'
            BY <1>a, <2>2, <3>1, <3>2, <4>2 DEF NoEpoch
          <5>2. ASSUME NEW j \in 1..i
                PROVE  q[j].epoch <= epoch'
            <6>1. CASE j = i
              BY <1>a, <5>1, <6>1
            <6>2. CASE j \in 1..Len(old)
              BY <2>6, <3>1, <6>2
            <6>3. QED
              BY <3>1, <4>2, <6>1, <6>2
          <5>3. ~IsAnnouncement(m) => Introduced(page[p].epoch, q, epoch', i)
            <6>1. ~IsAnnouncement(m) => Introduced(page[p].epoch, old, epoch, Len(old) + 1)
              BY <2>5, <3>2
            <6>2. Introduced(page[p].epoch, old, epoch, Len(old) + 1) => Introduced(page[p].epoch, q, epoch, Len(old) + 1)
              <7>1. Len(old) + 1 \in 1..(Len(old) + 1)
                BY <3>1
              <7>2. QED
                BY <3>1, <7>1, IntroducedKept
            <6>3. ASSUME ~IsAnnouncement(m)
                  PROVE  Introduced(page[p].epoch, q, epoch', i)
              <7>1. epoch' = epoch /\ Introduced(page[p].epoch, q, epoch, i)
                BY <3>2, <4>2, <6>1, <6>2, <6>3
              <7>2. QED
                BY <7>1 DEF Introduced
            <6>4. QED
              BY <6>3
          <5>4. q[i] = m /\ m.epoch = epoch' /\ epoch' <= epoch'
            BY <1>a, <3>1, <3>2, <4>2
          <5>5. /\ IsAnnouncement(q[i]) => q[i].leader # NoPeer
                /\ ~IsAnnouncement(q[i]) => Introduced(page[p].epoch, q, q[i].epoch, i)
            <6>1. IsAnnouncement(q[i]) => q[i].leader # NoPeer
              BY <3>2, <5>4
            <6>2. ~IsAnnouncement(q[i]) => Introduced(page[p].epoch, q, q[i].epoch, i)
              BY <5>3, <5>4
            <6>3. QED
              BY <6>1, <6>2
          <5>6. QED
            BY <5>1, <5>2, <5>4, <5>5
        <4>3. i \in 1..Len(old) \/ i = Len(old) + 1
          BY <3>1
        <4>4. QED
          BY <4>1, <4>2, <4>3
      <3>4. sock'[p] = s => Introduced(page[p].epoch, q, epoch', Len(q) + 1)
        <4>1. CASE IsAnnouncement(m)
          BY <3>1, <3>2, <4>1 DEF Introduced
        <4>2. CASE ~IsAnnouncement(m)
          <5>1. Introduced(page[p].epoch, old, epoch', Len(old) + 1)
            BY <2>5, <3>2, <4>2
          <5>2. \A j \in 1..Len(old) : j \in 1..(Len(q) + 1 - 1) /\ q[j] = old[j]
            BY <3>1
          <5>3. QED
            BY <3>1, <5>1, <5>2 DEF Introduced
        <4>3. QED
          BY <4>1, <4>2
      <3>5. QED
        BY <3>3, <3>4
    <2>8. CASE s \notin targets
      <3>1. q = old
        BY <1>1, <2>1, <2>8
      <3>2. sock'[p] = s => sock[p] = s /\ epoch' = epoch
        BY <2>1, <2>8, SocketsAssumption
      <3>3. QED
        BY <2>5, <2>6, <3>1, <3>2
    <2>9. QED
      BY <2>7, <2>8
  <1>9. QED
    BY <1>2, <1>6, <1>7, <1>8

(* Steps of the pages that read nothing: no page learns of another epoch, and *)
(* a page that stays on its socket still has the same to read.               *)
LEMMA QuietStep ==
  ASSUME IInv, IInv', PeersInv, UNCHANGED <<leader, epoch, sock>>,
         page' \in [Peers -> Pages],
         \A s \in Sockets : down'[s] \in {down[s], <<>>},
         \A p \in Peers :
           /\ page'[p].epoch = page[p].epoch /\ (page'[p].alive => page[p].alive)
           /\ \/ page'[p].role = page[p].role /\ page'[p].server = page[p].server
              \/ page[p].epoch = NoEpoch
           /\ page'[p].alive /\ page'[p].link = "up" =>
                \/ /\ page[p].link = "up" /\ page'[p].sock = page[p].sock
                   /\ down'[page[p].sock] = down[page[p].sock]
                \/ down'[page'[p].sock] = <<>> /\ sock[p] # page'[p].sock,
         \A s \in Sockets : \A i \in 1..Len(up'[s]) :
           up'[s][i].type = "offer" => Claimed(up'[s][i].epoch, up'[s][i].to)
  PROVE  ClaimsAgree' /\ ClaimsArePast' /\ PagesInStep'
  <1>1. ASSUME NEW e \in Nat, NEW p \in Peers, Claimed(e, p)'
        PROVE  Claimed(e, p)
    <2>1. CASE leader' # NoPeer /\ e = epoch' /\ p = leader'
      BY <2>1 DEF Claimed
    <2>2. CASE \E q \in Peers : Remembers(q)' /\ e = page'[q].epoch /\ p = Believed(q)'
      BY <2>2 DEF Claimed, Remembers, Believed
    <2>3. CASE \E s \in Sockets : \E i \in 1..Len(down'[s]) :
                 /\ e = down'[s][i].epoch
                 /\ \/ IsAnnouncement(down'[s][i]) /\ p = down'[s][i].leader
                    \/ down'[s][i].type = "offer" /\ p = Owner(s)
      <3>1. \A s \in Sockets : \A i \in 1..Len(down'[s]) : down'[s] = down[s]
        BY <2>3
      <3>2. QED
        BY <2>3, <3>1 DEF Claimed
    <2>4. CASE \E s \in Sockets : \E i \in 1..Len(up'[s]) :
                 up'[s][i].type = "offer" /\ e = up'[s][i].epoch /\ p = up'[s][i].to
      BY <2>4
    <2>5. QED
      BY <1>1, <2>1, <2>2, <2>3, <2>4 DEF Claimed
  <1>2. ClaimsAgree' /\ ClaimsArePast'
    BY <1>1, ClaimsStep DEF PeersInv, LeadershipMoves
  <1>3. PagesInStep'
    <2> SUFFICES ASSUME NEW p \in Peers, page'[p].alive, page'[p].link = "up",
                        NEW q, q = down'[page'[p].sock]
                 PROVE  /\ \A i \in 1..Len(q) :
                             /\ page[p].epoch <= q[i].epoch /\ q[i].epoch <= epoch
                             /\ IsAnnouncement(q[i]) => q[i].leader # NoPeer
                             /\ ~IsAnnouncement(q[i]) => Introduced(page[p].epoch, q, q[i].epoch, i)
                             /\ \A j \in 1..i : q[j].epoch <= q[i].epoch
                        /\ sock[p] = page'[p].sock => Introduced(page[p].epoch, q, epoch, Len(q) + 1)
      BY DEF PagesInStep, Introduced
    <2>1. CASE /\ page[p].link = "up" /\ page'[p].sock = page[p].sock
               /\ down'[page[p].sock] = down[page[p].sock]
      <3>1. q = down[page[p].sock] /\ page[p].alive /\ page[p].link = "up"
        BY <2>1
      <3>2. PagesInStep
        BY DEF PeersInv
      <3>3. QED
        BY <2>1, <3>1, <3>2, StepOfOnePage
    <2>2. CASE q = <<>> /\ sock[p] # page'[p].sock
      BY <2>2
    <2>3. QED
      BY <2>1, <2>2
  <1>4. QED
    BY <1>2, <1>3

(* Reading: the page learns what its socket has carried to it. *)
LEMMA ReadStep ==
  ASSUME IInv, IInv', PeersInv, NEW p \in Peers, Read(p)
  PROVE  PeersInv'
  <1> DEFINE s == page[p].sock
             old == down[s]
             m == Head(old)
             new == OnMessage(page[p], p, m)
  <1>a. /\ page \in [Peers -> Pages] /\ up \in [Sockets -> Seq(Requests)]
        /\ down \in [Sockets -> Seq(Announcements \cup Signals)]
        /\ \A x \in Sockets : Owner(x) \in Peers
    BY OwnerIsPeer DEF PeersInv, PeersTypeOK
  <1>b. /\ page[p].alive /\ page[p].link = "up" /\ s \in Sockets /\ Owner(s) = p /\ old # <<>>
        /\ page[p].session = "starting" => page[p].role = "client"
    BY DEF Read, PeersInv, PagesSound
  <1>c. /\ page' = [page EXCEPT ![p] = new] /\ down' = [down EXCEPT ![s] = Tail(old)]
        /\ UNCHANGED <<sock, leader, epoch, up>>
    BY DEF Read, vars, memory
  <1>d. /\ Tail(old) \in Seq(Announcements \cup Signals)
        /\ m \in Announcements \cup Signals /\ m = old[1]
        /\ Len(Tail(old)) = Len(old) - 1 /\ Len(old) \in Nat \ {0}
        /\ \A i \in 1..Len(Tail(old)) : Tail(old)[i] = old[i + 1]
    BY <1>a, <1>b, TailAt
  <1>e. /\ \A i \in 1..Len(old) :
             /\ page[p].epoch <= old[i].epoch /\ old[i].epoch <= epoch
             /\ IsAnnouncement(old[i]) => old[i].leader # NoPeer
             /\ ~IsAnnouncement(old[i]) => Introduced(page[p].epoch, old, old[i].epoch, i)
             /\ \A j \in 1..i : old[j].epoch <= old[i].epoch
        /\ sock[p] = s => Introduced(page[p].epoch, old, epoch, Len(old) + 1)
    BY <1>b, StepOfOnePage DEF PeersInv
  <1>f. epoch \in Nat /\ m.epoch \in Nat \cup {NoEpoch} /\ page[p].epoch \in Nat \cup {NoEpoch}
    BY <1>a, <1>d DEF IInv, TypeOK, Announcements, Signals, Pages
  <1>g. /\ IsAnnouncement(m) <=> m \in Announcements
        /\ ~IsAnnouncement(m) <=> m \in Signals
        /\ m \in Announcements => m.epoch \in Nat /\ m.leader \in Peers \cup {NoPeer}
    BY <1>d DEF IsAnnouncement, Announcements, Signals
  <1>h. 1 \in 1..Len(old)
    BY <1>d
  <1>i. /\ page[p].epoch <= m.epoch /\ m.epoch <= epoch
        /\ IsAnnouncement(m) => m.leader # NoPeer
        /\ ~IsAnnouncement(m) => m.epoch = page[p].epoch
    <2>1. ~IsAnnouncement(m) => Introduced(page[p].epoch, old, m.epoch, 1)
      BY <1>d, <1>e, <1>h
    <2>2. QED
      BY <1>d, <1>e, <1>h, <2>1 DEF Introduced
  <1> HIDE DEF m, old, s
  <1>1. /\ new \in Pages
        /\ new.alive = page[p].alive /\ new.link = page[p].link /\ new.sock = page[p].sock
        /\ new.epoch = m.epoch
        /\ new.session = "starting" => new.role = "client"
        /\ \/ /\ ~IsAnnouncement(m)
              /\ new.role = page[p].role /\ new.server = page[p].server
           \/ /\ IsAnnouncement(m) /\ m.epoch \in Nat /\ m.leader \in Peers
              /\ IF m.leader = p THEN new.role = "server"
                 ELSE new.role = "client" /\ new.server = m.leader
    <2>a. page[p] \in Pages
      BY <1>a
    <2>1. CASE IsAnnouncement(m)
      <3>1. m \in Announcements /\ m.leader # NoPeer /\ page[p].epoch <= m.epoch
        BY <1>g, <1>i, <2>1
      <3>2. /\ new \in Pages
            /\ new.alive = page[p].alive /\ new.link = page[p].link /\ new.sock = page[p].sock
            /\ new.epoch = m.epoch
            /\ m.leader = p => new.role = "server"
            /\ m.leader # p => new.role = "client" /\ new.server = m.leader
            /\ new.session = "starting" => new.role = "client"
        BY <1>b, <2>a, <3>1, OnAnnouncementAssigns
      <3> HIDE DEF new
      <3>3. QED
        BY <1>g, <2>1, <3>1, <3>2
    <2>2. CASE ~IsAnnouncement(m)
      <3>1. m \in Signals /\ page[p].epoch = m.epoch
        BY <1>g, <1>i, <2>2
      <3>2. /\ new \in Pages
            /\ new.alive = page[p].alive /\ new.link = page[p].link /\ new.sock = page[p].sock
            /\ new.epoch = page[p].epoch /\ new.role = page[p].role
            /\ new.server = page[p].server
            /\ new.session = "starting" => page[p].session = "starting"
        BY <2>a, <3>1, OnSignalKeeps
      <3> HIDE DEF new
      <3>3. QED
        BY <1>b, <2>2, <3>1, <3>2
    <2>3. QED
      BY <2>1, <2>2
  <1> HIDE DEF new
  <1>2. PeersTypeOK'
    BY <1>a, <1>b, <1>c, <1>d, <1>1 DEF PeersTypeOK
  <1>3. PagesSound'
    BY <1>a, <1>c, <1>g, <1>i, <1>1 DEF PeersInv, PagesSound, NoEpoch
  <1>4. OnlyUsedSockets'
    BY <1>a, <1>b, <1>c, <1>1 DEF PeersInv, OnlyUsedSockets, Uses, s
  <1>5. EmptyRoomLeaderless'
    BY <1>c DEF PeersInv, EmptyRoomLeaderless, Members
  <1>6. ASSUME NEW e \in Nat, NEW r \in Peers, Claimed(e, r)'
        PROVE  Claimed(e, r)
    <2>1. CASE leader' # NoPeer /\ e = epoch' /\ r = leader'
      BY <1>c, <2>1 DEF Claimed
    <2>2. CASE \E q \in Peers : Remembers(q)' /\ e = page'[q].epoch /\ r = Believed(q)'
      <3>1. PICK q \in Peers : Remembers(q)' /\ e = page'[q].epoch /\ r = Believed(q)'
        BY <2>2
      <3>2. CASE q # p
        BY <1>a, <1>c, <3>1, <3>2 DEF Claimed, Remembers, Believed
      <3>3. CASE q = p /\ ~IsAnnouncement(m)
        BY <1>a, <1>c, <1>i, <1>1, <3>1, <3>3 DEF Claimed, Remembers, Believed
      <3>4. CASE q = p /\ IsAnnouncement(m)
        <4>1. e = m.epoch /\ r = m.leader
          BY <1>a, <1>c, <1>1, <3>1, <3>4 DEF Believed
        <4>2. QED
          BY <1>b, <1>d, <1>h, <3>4, <4>1 DEF Claimed, old
      <3>5. QED
        BY <3>2, <3>3, <3>4
    <2>3. CASE \E x \in Sockets : \E i \in 1..Len(down'[x]) :
                 /\ e = down'[x][i].epoch
                 /\ \/ IsAnnouncement(down'[x][i]) /\ r = down'[x][i].leader
                    \/ down'[x][i].type = "offer" /\ r = Owner(x)
      <3>1. \A x \in Sockets : \A i \in 1..Len(down'[x]) :
              \E j \in 1..Len(down[x]) : down'[x][i] = down[x][j]
        <4> TAKE x \in Sockets
        <4> TAKE i \in 1..Len(down'[x])
        <4>1. CASE x # s
          BY <1>a, <1>b, <1>c, <4>1
        <4>2. CASE x = s
          <5>1. down'[x] = Tail(old)
            BY <1>a, <1>b, <1>c, <4>2
          <5>2. i + 1 \in 1..Len(old) /\ down'[x][i] = old[i + 1]
            BY <1>d, <5>1
          <5>3. QED
            BY <4>2, <5>2 DEF old
        <4>3. QED
          BY <4>1, <4>2
      <3>2. QED
        BY <2>3, <3>1 DEF Claimed
    <2>4. CASE \E x \in Sockets : \E i \in 1..Len(up'[x]) :
                 up'[x][i].type = "offer" /\ e = up'[x][i].epoch /\ r = up'[x][i].to
      BY <1>c, <2>4 DEF Claimed
    <2>5. QED
      BY <1>6, <2>1, <2>2, <2>3, <2>4 DEF Claimed
  <1>7. ClaimsAgree' /\ ClaimsArePast'
    BY <1>c, <1>6, ClaimsStep DEF PeersInv, LeadershipMoves
  <1>8. PagesInStep'
    <2> SUFFICES ASSUME NEW r \in Peers, page'[r].alive, page'[r].link = "up",
                        NEW q, q = down'[page'[r].sock]
                 PROVE  /\ \A i \in 1..Len(q) :
                             /\ page'[r].epoch <= q[i].epoch /\ q[i].epoch <= epoch
                             /\ IsAnnouncement(q[i]) => q[i].leader # NoPeer
                             /\ ~IsAnnouncement(q[i]) => Introduced(page'[r].epoch, q, q[i].epoch, i)
                             /\ \A j \in 1..i : q[j].epoch <= q[i].epoch
                        /\ sock[r] = page'[r].sock => Introduced(page'[r].epoch, q, epoch, Len(q) + 1)
      <3>1. sock' = sock /\ epoch' = epoch
        BY <1>c
      <3>2. QED
        BY <3>1 DEF PagesInStep, Introduced
    <2>1. CASE r # p
      <3>1. page'[r] = page[r] /\ page[r].sock \in Sockets /\ Owner(page[r].sock) = r
        BY <1>a, <1>c, <2>1 DEF PeersInv, PagesSound
      <3>2. q = down[page[r].sock]
        BY <1>a, <1>b, <1>c, <2>1, <3>1
      <3>3. /\ \A i \in 1..Len(q) :
                 /\ page[r].epoch <= q[i].epoch /\ q[i].epoch <= epoch
                 /\ IsAnnouncement(q[i]) => q[i].leader # NoPeer
                 /\ ~IsAnnouncement(q[i]) => Introduced(page[r].epoch, q, q[i].epoch, i)
                 /\ \A j \in 1..i : q[j].epoch <= q[i].epoch
            /\ sock[r] = page[r].sock => Introduced(page[r].epoch, q, epoch, Len(q) + 1)
        BY <3>1, <3>2, StepOfOnePage DEF PeersInv
      <3>4. QED
        BY <3>1, <3>3 DEF Introduced
    <2>2. CASE r = p
      <3>1. page'[p] = new /\ q = Tail(old)
        BY <1>a, <1>b, <1>c, <1>1, <2>2 DEF s
      <3>2. \A i \in 1..Len(q) : i \in Nat \ {0} /\ i + 1 \in 2..Len(old) /\ q[i] = old[i + 1]
        BY <1>d, <3>1
      <3>3. ASSUME NEW n \in 1..Len(old), NEW e, Introduced(page[p].epoch, old, e, n + 1),
                   m.epoch <= e, e \in Int, \A j \in 1..n : old[j].epoch <= e
            PROVE  Introduced(page'[p].epoch, q, e, n)
        <4>1. CASE m.epoch = e
          BY <1>1, <3>1, <4>1 DEF Introduced
        <4>2. CASE m.epoch # e
          <5>1. page[p].epoch # e
            BY <1>f, <1>i, <3>3, <4>2 DEF NoEpoch
          <5>2. PICK j \in 1..n : IsAnnouncement(old[j]) /\ old[j].epoch = e
            BY <3>3, <5>1 DEF Introduced
          <5>3. j # 1
            BY <1>d, <4>2, <5>2
          <5>4. j - 1 \in 1..(n - 1) /\ j - 1 \in 1..Len(q) /\ old[j] = q[j - 1]
            BY <1>d, <3>1, <3>2, <5>3
          <5>5. QED
            BY <5>2, <5>4 DEF Introduced
        <4>3. QED
          BY <4>1, <4>2
      <3>4. \A i \in 1..Len(old) : old[i].epoch \in Int /\ m.epoch <= old[i].epoch
        <4>1. \A i \in 1..Len(old) : 1 \in 1..i
          BY <1>d
        <4>2. old \in Seq(Announcements \cup Signals)
          BY <1>a, <1>b DEF old
        <4>3. QED
          BY <1>d, <1>e, <4>1, <4>2 DEF Announcements, Signals, NoEpoch
      <3>5. ASSUME NEW i \in 1..Len(q)
            PROVE  /\ page'[r].epoch <= q[i].epoch /\ q[i].epoch <= epoch
                   /\ IsAnnouncement(q[i]) => q[i].leader # NoPeer
                   /\ ~IsAnnouncement(q[i]) => Introduced(page'[r].epoch, q, q[i].epoch, i)
                   /\ \A j \in 1..i : q[j].epoch <= q[i].epoch
        <4>1. i \in 1..Len(old) /\ i + 1 \in 1..Len(old) /\ q[i] = old[i + 1]
          BY <1>d, <3>1, <3>2
        <4>2. \A j \in 1..i : j \in 1..Len(q) /\ j + 1 \in 1..(i + 1) /\ j \in 1..(i + 1)
          BY <1>d, <3>1
        <4>3. \A j \in 1..i : q[j].epoch <= q[i].epoch /\ old[j].epoch <= q[i].epoch
          BY <1>e, <3>2, <4>1, <4>2
        <4>4. page'[r].epoch <= q[i].epoch /\ q[i].epoch <= epoch
          BY <1>e, <1>1, <2>2, <3>1, <3>4, <4>1
        <4>5. IsAnnouncement(q[i]) => q[i].leader # NoPeer
          BY <1>e, <4>1
        <4>6. ~IsAnnouncement(q[i]) => Introduced(page'[p].epoch, q, q[i].epoch, i)
          <5>1. ~IsAnnouncement(q[i]) => Introduced(page[p].epoch, old, q[i].epoch, i + 1)
            BY <1>e, <4>1
          <5>2. QED
            BY <3>3, <3>4, <4>1, <4>3, <5>1
        <4>7. QED
          BY <2>2, <4>3, <4>4, <4>5, <4>6
      <3>6. sock[p] = s => Introduced(page'[p].epoch, q, epoch, Len(q) + 1)
        <4>1. Len(q) + 1 = Len(old) /\ Len(old) \in 1..Len(old)
          BY <1>d, <3>1
        <4>2. m.epoch <= epoch /\ \A j \in 1..Len(old) : old[j].epoch <= epoch
          BY <1>e, <1>i
        <4>3. sock[p] = s => Introduced(page[p].epoch, old, epoch, Len(old) + 1)
          BY <1>e
        <4>4. epoch \in Int
          BY <1>f
        <4>5. sock[p] = s => Introduced(page'[p].epoch, q, epoch, Len(old))
          BY <3>3, <4>1, <4>2, <4>3, <4>4
        <4>6. QED
          BY <4>1, <4>5
      <3>7. QED
        BY <1>1, <2>2, <3>1, <3>5, <3>6 DEF s
    <2>3. QED
      BY <2>1, <2>2
  <1>9. QED
    BY <1>2, <1>3, <1>4, <1>5, <1>7, <1>8 DEF PeersInv

-----------------------------------------------------------------------------
(* Offers that were under way were claimed before.                           *)
LEMMA OldOffersClaimed ==
  \A s \in Sockets : \A i \in 1..Len(up[s]) :
    up[s][i].type = "offer" => Claimed(up[s][i].epoch, up[s][i].to)
  BY DEF Claimed

(* A request at the end of a page's socket.                                  *)
LEMMA SendsResult ==
  ASSUME PeersInv, NEW p \in Peers, NEW m \in Requests, up' = Sends(p, m),
         m.type = "offer" => Claimed(m.epoch, m.to)
  PROVE  /\ up' \in [Sockets -> Seq(Requests)]
         /\ \A s \in Sockets : \A i \in 1..Len(up'[s]) :
              up'[s][i].type = "offer" => Claimed(up'[s][i].epoch, up'[s][i].to)
  <1>a. up \in [Sockets -> Seq(Requests)]
    BY DEF PeersInv, PeersTypeOK
  <1>1. CASE page[p].link # "up"
    BY <1>a, <1>1, OldOffersClaimed DEF Sends
  <1>2. CASE page[p].link = "up"
    <2>1. page[p].sock \in Sockets
      BY <1>2 DEF PeersInv, PagesSound
    <2>2. up' = [up EXCEPT ![page[p].sock] = Append(up[page[p].sock], m)]
      BY <1>2 DEF Sends
    <2>3. up' \in [Sockets -> Seq(Requests)]
      BY <1>a, <2>1, <2>2
    <2>4. ASSUME NEW s \in Sockets, NEW i \in 1..Len(up'[s]), up'[s][i].type = "offer"
          PROVE  Claimed(up'[s][i].epoch, up'[s][i].to)
      <3>1. CASE s # page[p].sock
        <4>1. up'[s] = up[s]
          BY <1>a, <2>1, <2>2, <3>1
        <4>2. QED
          BY <2>4, <4>1, OldOffersClaimed
      <3>2. CASE s = page[p].sock
        <4>1. up'[s] = Append(up[s], m) /\ up[s] \in Seq(Requests)
          BY <1>a, <2>1, <2>2, <3>2
        <4>2. /\ Len(up'[s]) = Len(up[s]) + 1 /\ Len(up[s]) \in Nat
              /\ \A j \in 1..Len(up[s]) : up'[s][j] = up[s][j]
              /\ up'[s][Len(up[s]) + 1] = m
          BY <4>1, AppendAt
        <4>3. CASE i \in 1..Len(up[s])
          <5>1. up'[s][i] = up[s][i]
            BY <4>2, <4>3
          <5>2. QED
            BY <2>4, <4>3, <5>1, OldOffersClaimed
        <4>4. CASE i = Len(up[s]) + 1
          <5>1. up'[s][i] = m
            BY <4>2, <4>4
          <5>2. QED
            BY <2>4, <5>1
        <4>5. QED
          BY <4>2, <4>3, <4>4
      <3>3. QED
        BY <3>1, <3>2
    <2>5. QED
      BY <2>3, <2>4
  <1>3. QED
    BY <1>1, <1>2

(* A page that changes only its session, in step with what it sends.         *)
LEMMA SessionStep ==
  ASSUME IInv, IInv', PeersInv, UNCHANGED <<leader, epoch, sock, down>>, NEW p \in Peers,
         NEW new \in Pages, page' = [page EXCEPT ![p] = new],
         /\ new.alive = page[p].alive /\ new.link = page[p].link /\ new.sock = page[p].sock
         /\ new.epoch = page[p].epoch /\ new.role = page[p].role /\ new.server = page[p].server
         /\ new.session = "starting" => page[p].session = "starting",
         up' \in [Sockets -> Seq(Requests)],
         \A s \in Sockets : \A i \in 1..Len(up'[s]) :
           up'[s][i].type = "offer" => Claimed(up'[s][i].epoch, up'[s][i].to)
  PROVE  PeersInv'
  <1>a. page \in [Peers -> Pages] /\ down \in [Sockets -> Seq(Announcements \cup Signals)]
    BY DEF PeersInv, PeersTypeOK
  <1>1. PeersTypeOK'
    BY <1>a DEF PeersTypeOK
  <1>2. \A q \in Peers :
          /\ page'[q].epoch = page[q].epoch /\ page'[q].alive = page[q].alive
          /\ page'[q].role = page[q].role /\ page'[q].server = page[q].server
          /\ page'[q].link = page[q].link /\ page'[q].sock = page[q].sock
          /\ page'[q].session = "starting" => page[q].session = "starting"
    BY <1>a
  <1>3. PagesSound'
    BY <1>2 DEF PeersInv, PagesSound
  <1>4. OnlyUsedSockets'
    BY <1>2, OwnerIsPeer DEF PeersInv, OnlyUsedSockets, Uses
  <1>5. EmptyRoomLeaderless'
    BY DEF PeersInv, EmptyRoomLeaderless, Members
  <1>6. page' \in [Peers -> Pages]
    BY <1>1 DEF PeersTypeOK
  <1>7. ClaimsAgree' /\ ClaimsArePast' /\ PagesInStep'
    BY <1>2, <1>6, QuietStep
  <1>8. QED
    BY <1>1, <1>3, <1>4, <1>5, <1>7 DEF PeersInv

LEMMA SessionStepsKeepInv ==
  ASSUME IInv, IInv', PeersInv, NEW p \in Peers,
         \/ SendOffer(p) \/ SessionOpens(p) \/ SessionCloses(p) \/ WatchdogFires(p)
         \/ \E q \in Peers : SendAnswer(p, q)
  PROVE  PeersInv'
  <1>a. /\ page \in [Peers -> Pages] /\ up \in [Sockets -> Seq(Requests)]
        /\ page[p] \in Pages
    BY DEF PeersInv, PeersTypeOK
  <1>b. UNCHANGED <<leader, epoch, sock, down>>
    BY DEF SendOffer, SessionOpens, SessionCloses, WatchdogFires, SendAnswer, vars, memory
  <1>1. CASE SendOffer(p)
    <2> DEFINE m == [type |-> "offer", epoch |-> page[p].epoch, to |-> page[p].server]
               new == [page[p] EXCEPT !.session = "offered"]
    <2>1. /\ page[p].role = "client" /\ page[p].alive
          /\ page[p].epoch \in Nat /\ page[p].epoch # NoEpoch /\ page[p].server \in Peers
      BY <1>a, <1>1 DEF SendOffer, PeersInv, PagesSound, Pages
    <2>2. m \in Requests
      BY <2>1 DEF Requests
    <2>3. Claimed(page[p].epoch, page[p].server)
      BY <2>1 DEF Claimed, Remembers, Believed
    <2>4. up' = Sends(p, m) /\ page' = [page EXCEPT ![p] = new]
      BY <1>1 DEF SendOffer
    <2>5. /\ up' \in [Sockets -> Seq(Requests)]
          /\ \A s \in Sockets : \A i \in 1..Len(up'[s]) :
               up'[s][i].type = "offer" => Claimed(up'[s][i].epoch, up'[s][i].to)
      <3>1. m.type = "offer" => Claimed(m.epoch, m.to)
        BY <2>3
      <3> HIDE DEF m
      <3>2. QED
        BY <2>2, <2>4, <3>1, SendsResult
    <2>6. /\ new \in Pages
          /\ new.alive = page[p].alive /\ new.link = page[p].link /\ new.sock = page[p].sock
          /\ new.epoch = page[p].epoch /\ new.role = page[p].role /\ new.server = page[p].server
          /\ new.session = "starting" => page[p].session = "starting"
      BY <1>a DEF Pages
    <2> HIDE DEF new, m
    <2>7. QED
      BY <1>b, <2>4, <2>5, <2>6, SessionStep
  <1>2. CASE \E q \in Peers : SendAnswer(p, q)
    <2>1. PICK q \in Peers : SendAnswer(p, q)
      BY <1>2
    <2> DEFINE m == [type |-> "answer", epoch |-> page[p].epoch, to |-> q]
               new == [page[p] EXCEPT !.serving[q] = "answered"]
    <2>2. m \in Requests /\ m.type # "offer"
      BY <1>a DEF Requests, Pages
    <2>3. up' = Sends(p, m) /\ page' = [page EXCEPT ![p] = new]
      BY <2>1 DEF SendAnswer
    <2>4. /\ new \in Pages
          /\ new.alive = page[p].alive /\ new.link = page[p].link /\ new.sock = page[p].sock
          /\ new.epoch = page[p].epoch /\ new.role = page[p].role /\ new.server = page[p].server
          /\ new.session = "starting" => page[p].session = "starting"
      BY <1>a DEF Pages
    <2> HIDE DEF new, m
    <2>5. /\ up' \in [Sockets -> Seq(Requests)]
          /\ \A s \in Sockets : \A i \in 1..Len(up'[s]) :
               up'[s][i].type = "offer" => Claimed(up'[s][i].epoch, up'[s][i].to)
      BY <2>2, <2>3, SendsResult
    <2>6. QED
      BY <1>b, <2>3, <2>4, <2>5, SessionStep
  <1>3. CASE SessionOpens(p) \/ SessionCloses(p) \/ WatchdogFires(p)
    <2>1. up' = up
      BY <1>3 DEF SessionOpens, SessionCloses, WatchdogFires
    <2>2. PICK new \in Pages :
            /\ page' = [page EXCEPT ![p] = new]
            /\ new.alive = page[p].alive /\ new.link = page[p].link /\ new.sock = page[p].sock
            /\ new.epoch = page[p].epoch /\ new.role = page[p].role
            /\ new.server = page[p].server
            /\ new.session = "starting" => page[p].session = "starting"
      <3>1. CASE SessionOpens(p)
        <4> DEFINE new == [page[p] EXCEPT !.session = "open", !.lost = FALSE]
        <4>1. page' = [page EXCEPT ![p] = new]
          BY <1>a, <3>1 DEF SessionOpens
        <4>2. new \in Pages
          BY <1>a DEF Pages
        <4>3. /\ new.alive = page[p].alive /\ new.link = page[p].link
              /\ new.sock = page[p].sock /\ new.epoch = page[p].epoch
              /\ new.role = page[p].role /\ new.server = page[p].server
              /\ new.session # "starting"
          BY <1>a DEF Pages
        <4> HIDE DEF new
        <4>4. QED
          BY <4>1, <4>2, <4>3
      <3>2. CASE SessionCloses(p)
        <4> DEFINE closed == [page[p] EXCEPT !.session = "closed"]
                   new == NotifySessionLost(closed)
        <4>1. page' = [page EXCEPT ![p] = new]
          BY <3>2 DEF SessionCloses
        <4>2. /\ closed \in Pages /\ closed.session = "closed"
              /\ closed.alive = page[p].alive /\ closed.link = page[p].link
              /\ closed.sock = page[p].sock /\ closed.epoch = page[p].epoch
              /\ closed.role = page[p].role /\ closed.server = page[p].server
          BY <1>a DEF Pages
        <4> HIDE DEF closed
        <4>3. CASE new = closed
          BY <4>1, <4>2, <4>3
        <4>4. CASE new = [closed EXCEPT !.lost = TRUE]
          <5>1. new \in Pages
            BY <4>2, <4>4 DEF Pages
          <5>2. /\ new.alive = page[p].alive /\ new.link = page[p].link
                /\ new.sock = page[p].sock /\ new.epoch = page[p].epoch
                /\ new.role = page[p].role /\ new.server = page[p].server
                /\ new.session # "starting"
            BY <4>2, <4>4 DEF Pages
          <5> HIDE DEF new
          <5>3. QED
            BY <4>1, <5>1, <5>2
        <4>5. QED
          BY <4>3, <4>4 DEF NotifySessionLost
      <3>3. CASE WatchdogFires(p)
        <4> DEFINE new == [page[p] EXCEPT !.session = "closed"]
        <4>1. page' = [page EXCEPT ![p] = new]
          BY <3>3 DEF WatchdogFires
        <4>2. new \in Pages
          BY <1>a DEF Pages
        <4>3. /\ new.alive = page[p].alive /\ new.link = page[p].link
              /\ new.sock = page[p].sock /\ new.epoch = page[p].epoch
              /\ new.role = page[p].role /\ new.server = page[p].server
              /\ new.session # "starting"
          BY <1>a DEF Pages
        <4> HIDE DEF new
        <4>4. QED
          BY <4>1, <4>2, <4>3
      <3>4. QED
        BY <1>3, <3>1, <3>2, <3>3
    <2>3. \A s \in Sockets : \A i \in 1..Len(up'[s]) :
            up'[s][i].type = "offer" => Claimed(up'[s][i].epoch, up'[s][i].to)
      BY <2>1, OldOffersClaimed
    <2>4. QED
      BY <1>a, <1>b, <2>1, <2>2, <2>3, SessionStep
  <1>4. QED
    BY <1>1, <1>2, <1>3

LEMMA ConcatAt ==
  ASSUME NEW S, NEW q \in Seq(S), NEW t \in Seq(S)
  PROVE  /\ q \o t \in Seq(S)
         /\ \A i \in 1..Len(q \o t) : \/ i \in 1..Len(q) /\ (q \o t)[i] = q[i]
                                     \/ \E j \in 1..Len(t) : (q \o t)[i] = t[j]
  <1>1. /\ q \o t \in Seq(S) /\ Len(q \o t) = Len(q) + Len(t)
        /\ Len(q) \in Nat /\ Len(t) \in Nat
    OBVIOUS
  <1>2. ASSUME NEW i \in 1..Len(q \o t), ~(i \in 1..Len(q))
        PROVE  i - Len(q) \in 1..Len(t) /\ (q \o t)[i] = t[i - Len(q)]
    BY <1>1, <1>2
  <1>3. \A i \in 1..Len(q) : (q \o t)[i] = q[i]
    BY <1>1
  <1>4. QED
    BY <1>1, <1>2, <1>3

(* A page whose link changes, or that is gone: what is under way to it goes   *)
(* with the socket.                                                          *)
LEMMA LinkStep ==
  ASSUME IInv, IInv', PeersInv, UNCHANGED <<leader, epoch, sock>>, NEW p \in Peers,
         NEW new \in Pages, page' = [page EXCEPT ![p] = new],
         new.epoch = page[p].epoch, new.alive => page[p].alive,
         \/ new.role = page[p].role /\ new.server = page[p].server
         \/ page[p].role = "undecided" /\ new.role = "server",
         new.session = "starting" => page[p].session = "starting" /\ new.role = page[p].role,
         new.link = "up" => new.sock \in Sockets /\ Owner(new.sock) = p,
         new.link # "up" => new.sock = NoSocket,
         down' \in [Sockets -> Seq(Announcements \cup Signals)],
         \A s \in Sockets : down'[s] = down[s] \/ (Owner(s) = p /\ down'[s] = <<>>),
         \A s \in Sockets : Owner(s) = p /\ down'[s] # <<>> => new.alive /\ new.sock = s,
         new.alive /\ new.link = "up" =>
           \/ /\ page[p].link = "up" /\ new.sock = page[p].sock
              /\ down'[page[p].sock] = down[page[p].sock]
           \/ down'[new.sock] = <<>> /\ sock[p] # new.sock,
         up' \in [Sockets -> Seq(Requests)],
         \A s \in Sockets : \A i \in 1..Len(up'[s]) :
           up'[s][i].type = "offer" => Claimed(up'[s][i].epoch, up'[s][i].to)
  PROVE  PeersInv'
  <1>a. page \in [Peers -> Pages] /\ down \in [Sockets -> Seq(Announcements \cup Signals)]
    BY DEF PeersInv, PeersTypeOK
  <1>b. page'[p] = new /\ \A q \in Peers : q # p => page'[q] = page[q]
    BY <1>a
  <1>c. page[p].role = "undecided" => page[p].epoch = NoEpoch
    BY DEF PeersInv, PagesSound
  <1>1. PeersTypeOK'
    BY <1>a DEF PeersTypeOK
  <1>2. PagesSound'
    <2>1. /\ new.role = "undecided" => new.epoch = NoEpoch
          /\ new.role = "client" => new.epoch # NoEpoch /\ new.server \in Peers \ {p}
          /\ new.session = "starting" => new.role = "client"
      BY DEF PeersInv, PagesSound
    <2>2. QED
      BY <1>b, <2>1 DEF PeersInv, PagesSound
  <1>3. OnlyUsedSockets'
    <2> SUFFICES ASSUME NEW s \in Sockets, down'[s] # <<>>
                 PROVE  page'[Owner(s)].alive /\ page'[Owner(s)].sock = s
      BY DEF OnlyUsedSockets, Uses
    <2>1. CASE Owner(s) = p
      BY <1>b, <2>1
    <2>2. CASE Owner(s) # p
      BY <1>b, <2>2, OwnerIsPeer DEF PeersInv, OnlyUsedSockets, Uses
    <2>3. QED
      BY <2>1, <2>2
  <1>4. EmptyRoomLeaderless'
    BY DEF PeersInv, EmptyRoomLeaderless, Members
  <1>5. \A q \in Peers :
          /\ page'[q].epoch = page[q].epoch /\ (page'[q].alive => page[q].alive)
          /\ \/ page'[q].role = page[q].role /\ page'[q].server = page[q].server
             \/ page[q].epoch = NoEpoch
          /\ page'[q].alive /\ page'[q].link = "up" =>
               \/ /\ page[q].link = "up" /\ page'[q].sock = page[q].sock
                  /\ down'[page[q].sock] = down[page[q].sock]
               \/ down'[page'[q].sock] = <<>> /\ sock[q] # page'[q].sock
    <2> TAKE q \in Peers
    <2>1. CASE q = p
      BY <1>b, <1>c, <2>1
    <2>2. CASE q # p
      <3>1. page'[q] = page[q]
        BY <1>b, <2>2
      <3>2. page[q].link = "up" => page[q].sock \in Sockets /\ Owner(page[q].sock) # p
        BY <2>2 DEF PeersInv, PagesSound
      <3>3. QED
        BY <3>1, <3>2
    <2>3. QED
      BY <2>1, <2>2
  <1>6. page' \in [Peers -> Pages] /\ \A s \in Sockets : down'[s] \in {down[s], <<>>}
    BY <1>1 DEF PeersTypeOK
  <1>7. ClaimsAgree' /\ ClaimsArePast' /\ PagesInStep'
    BY <1>5, <1>6, QuietStep
  <1>8. QED
    BY <1>1, <1>2, <1>3, <1>4, <1>7 DEF PeersInv

LEMMA ConnectKeepsInv ==
  ASSUME IInv, IInv', PeersInv, NEW s \in Sockets, Connect(s) \/ ConnectFails(s)
  PROVE  PeersInv'
  <1> DEFINE p == Owner(s)
  <1>a. /\ page \in [Peers -> Pages] /\ up \in [Sockets -> Seq(Requests)]
        /\ down \in [Sockets -> Seq(Announcements \cup Signals)]
        /\ p \in Peers /\ page[p] \in Pages /\ page[p].link = "connecting"
        /\ page[p].alive /\ page[p].sock = NoSocket
    BY OwnerIsPeer DEF PeersInv, PeersTypeOK, Connect, ConnectFails, PagesSound
  <1>b. UNCHANGED <<leader, epoch, sock, down>> /\ wsState[s] = "fresh"
    BY DEF Connect, ConnectFails, Accept, Unreachable, IsNext, memory
  <1>c. \A x \in Sockets : Owner(x) = p => down[x] = <<>>
    BY <1>a, SocketsAssumption DEF PeersInv, OnlyUsedSockets, Uses
  <1>d. sock[p] # s
    BY <1>a, <1>b, SocketsAssumption DEF IInv, AttachmentsFresh, Members
  <1>e. page[p].session = "starting" => page[p].role = "client"
    BY <1>a DEF PeersInv, PagesSound
  <1>1. CASE Connect(s)
    <2> DEFINE new == [page[p] EXCEPT !.link = "up", !.sock = s]
    <2>1. page' = [page EXCEPT ![p] = new]
      BY <1>1 DEF Connect
    <2>2. new \in Pages
      BY <1>a DEF Pages
    <2>3. /\ new.epoch = page[p].epoch /\ new.alive = page[p].alive /\ new.role = page[p].role
          /\ new.server = page[p].server /\ new.session = page[p].session
          /\ new.link = "up" /\ new.sock = s
      BY <1>a DEF Pages
    <2> HIDE DEF new
    <2>4. /\ up' \in [Sockets -> Seq(Requests)]
          /\ \A x \in Sockets : \A i \in 1..Len(up'[x]) :
               up'[x][i].type = "offer" => Claimed(up'[x][i].epoch, up'[x][i].to)
      <3>1. [type |-> "join"] \in Requests
        BY DEF Requests
      <3>2. up' = [up EXCEPT ![s] = <<[type |-> "join"]>>]
        BY <1>1 DEF Connect
      <3>3. up' \in [Sockets -> Seq(Requests)]
        BY <1>a, <3>1, <3>2
      <3>4. \A x \in Sockets : x # s => up'[x] = up[x]
        BY <1>a, <3>2
      <3>5. \A i \in 1..Len(up'[s]) : up'[s][i].type = "join"
        BY <1>a, <3>2
      <3>6. QED
        BY <3>3, <3>4, <3>5, OldOffersClaimed
    <2>5. down'[new.sock] = <<>>
      BY <1>b, <1>c, <2>3
    <2>6. QED
      BY <1>a, <1>b, <1>c, <1>d, <2>1, <2>2, <2>3, <2>4, <2>5, LinkStep
  <1>2. CASE ConnectFails(s)
    <2> DEFINE new == Reconnect(page[p])
    <2>1. page' = [page EXCEPT ![p] = new] /\ up' = up
      BY <1>2 DEF ConnectFails
    <2>2. /\ new \in Pages
          /\ new.alive = page[p].alive /\ new.link # "up" /\ new.sock = NoSocket
          /\ new.epoch = page[p].epoch
          /\ \/ new.role = page[p].role /\ new.server = page[p].server
             \/ page[p].role = "undecided" /\ new.role = "server"
          /\ new.session = "starting" => page[p].session = "starting" /\ new.role = page[p].role
      BY <1>a, ReconnectKeeps
    <2> HIDE DEF new
    <2>3. QED
      BY <1>a, <1>b, <1>c, <2>1, <2>2, OldOffersClaimed, LinkStep
  <1>3. QED
    BY <1>1, <1>2

LEMMA FailingKeepsInv ==
  ASSUME IInv, IInv', PeersInv, NEW p \in Peers, SocketFails(p) \/ Leave(p) \/ Crash(p)
  PROVE  PeersInv'
  <1> DEFINE s == page[p].sock
  <1>a. /\ page \in [Peers -> Pages] /\ up \in [Sockets -> Seq(Requests)]
        /\ down \in [Sockets -> Seq(Announcements \cup Signals)]
        /\ page[p] \in Pages /\ page[p].alive
        /\ page[p].link = "up" => s \in Sockets /\ Owner(s) = p
        /\ page[p].link # "up" => s = NoSocket
    BY DEF PeersInv, PeersTypeOK, SocketFails, Leave, Crash, PagesSound
  <1>b. UNCHANGED <<leader, epoch, sock>>
    BY DEF SocketFails, Leave, Crash, vars, memory
  <1>c. down' = IF page[p].link = "up" THEN [down EXCEPT ![s] = <<>>] ELSE down
    BY DEF SocketFails, Leave, Crash
  <1>d. \A x \in Sockets : Owner(x) = p /\ down[x] # <<>> => page[p].link = "up" /\ x = s
    BY <1>a, SocketsAssumption DEF PeersInv, OnlyUsedSockets, Uses
  <1>e. /\ down' \in [Sockets -> Seq(Announcements \cup Signals)]
        /\ \A x \in Sockets : down'[x] = down[x] \/ (Owner(x) = p /\ down'[x] = <<>>)
        /\ \A x \in Sockets : Owner(x) = p => down'[x] = <<>>
    BY <1>a, <1>c, <1>d
  <1>1. CASE SocketFails(p)
    <2> DEFINE new == Reconnect(page[p])
    <2>1. page' = [page EXCEPT ![p] = new] /\ up' = up
      BY <1>1 DEF SocketFails
    <2>2. /\ new \in Pages
          /\ new.alive = page[p].alive /\ new.link # "up" /\ new.sock = NoSocket
          /\ new.epoch = page[p].epoch
          /\ \/ new.role = page[p].role /\ new.server = page[p].server
             \/ page[p].role = "undecided" /\ new.role = "server"
          /\ new.session = "starting" => page[p].session = "starting" /\ new.role = page[p].role
      BY <1>a, ReconnectKeeps
    <2> HIDE DEF new
    <2>3. QED
      BY <1>a, <1>b, <1>e, <2>1, <2>2, OldOffersClaimed, LinkStep
  <1>2. CASE Leave(p) \/ Crash(p)
    <2> DEFINE new == [page[p] EXCEPT !.alive = FALSE]
    <2>1. page' = [page EXCEPT ![p] = new]
      BY <1>2 DEF Leave, Crash
    <2>2. new \in Pages
      BY <1>a DEF Pages
    <2>3. /\ new.epoch = page[p].epoch /\ ~new.alive /\ new.role = page[p].role
          /\ new.server = page[p].server /\ new.session = page[p].session
          /\ new.link = page[p].link /\ new.sock = s
      BY <1>a DEF Pages
    <2> HIDE DEF new
    <2>4. /\ up' \in [Sockets -> Seq(Requests)]
          /\ \A x \in Sockets : \A i \in 1..Len(up'[x]) :
               up'[x][i].type = "offer" => Claimed(up'[x][i].epoch, up'[x][i].to)
      <3>1. CASE up' = up
        BY <1>a, <3>1, OldOffersClaimed
      <3>2. CASE page[p].link = "up" /\ Leave(p)
        <4> DEFINE bye == [type |-> "bye"]
                   e == IF page[p].epoch = NoEpoch THEN 0 ELSE page[p].epoch
                   word == [type |-> "server-leaving", epoch |-> e]
        <4>1. bye \in Requests /\ word \in Requests
          <5>1. e \in Nat
            BY <1>a DEF Pages
          <5>2. QED
            BY <5>1 DEF Requests
        <4>2. bye.type # "offer" /\ word.type # "offer"
          OBVIOUS
        <4> HIDE DEF bye, word
        <4>3. PICK leaving \in {<<>>, <<word>>} : up' = [up EXCEPT ![s] = (up[s] \o leaving) \o <<bye>>]
          BY <3>2 DEF Leave, word, bye
        <4> DEFINE last == <<bye>>
        <4>4. /\ leaving \in Seq(Requests) /\ last \in Seq(Requests) /\ up[s] \in Seq(Requests)
              /\ \A j \in 1..Len(leaving) : leaving[j].type # "offer"
              /\ \A j \in 1..Len(last) : last[j].type # "offer"
          <5>1. /\ <<word>> \in Seq(Requests) /\ last \in Seq(Requests) /\ <<>> \in Seq(Requests)
                /\ \A j \in 1..Len(<<word>>) : <<word>>[j].type # "offer"
                /\ \A j \in 1..Len(last) : last[j].type # "offer"
            BY <4>1, <4>2
          <5>2. CASE leaving = <<>>
            BY <1>a, <3>2, <5>1, <5>2
          <5>3. CASE leaving = <<word>>
            BY <1>a, <3>2, <5>1, <5>3
          <5>4. QED
            BY <4>3, <5>2, <5>3
        <4> DEFINE first == up[s] \o leaving
                   all == first \o last
        <4>a. /\ first \in Seq(Requests)
              /\ \A i \in 1..Len(first) : \/ i \in 1..Len(up[s]) /\ first[i] = up[s][i]
                                         \/ \E j \in 1..Len(leaving) : first[i] = leaving[j]
          BY <4>4, ConcatAt
        <4> HIDE DEF first, last
        <4>b. /\ all \in Seq(Requests)
              /\ \A i \in 1..Len(all) : \/ i \in 1..Len(first) /\ all[i] = first[i]
                                       \/ \E j \in 1..Len(last) : all[i] = last[j]
          BY <4>4, <4>a, ConcatAt
        <4> HIDE DEF all
        <4>5. ASSUME NEW i \in 1..Len(all), all[i].type = "offer"
              PROVE  i \in 1..Len(up[s]) /\ all[i] = up[s][i]
          <5>1. CASE i \in 1..Len(first) /\ all[i] = first[i]
            <6>1. CASE \E j \in 1..Len(leaving) : first[i] = leaving[j]
              BY <4>4, <4>5, <5>1, <6>1
            <6>2. CASE i \in 1..Len(up[s]) /\ first[i] = up[s][i]
              BY <5>1, <6>2
            <6>3. QED
              BY <4>a, <5>1, <6>1, <6>2
          <5>2. CASE \E j \in 1..Len(last) : all[i] = last[j]
            BY <4>4, <4>5, <5>2
          <5>3. QED
            BY <4>b, <4>5, <5>1, <5>2
        <4>c. up' = [up EXCEPT ![s] = all]
          BY <4>3 DEF first, all, last
        <4>6. up' \in [Sockets -> Seq(Requests)]
          BY <1>a, <4>b, <4>c
        <4>7. ASSUME NEW x \in Sockets, NEW i \in 1..Len(up'[x]), up'[x][i].type = "offer"
              PROVE  Claimed(up'[x][i].epoch, up'[x][i].to)
          <5>1. CASE x # s
            <6>1. up'[x] = up[x]
              BY <1>a, <4>c, <5>1
            <6>2. QED
              BY <4>7, <6>1, OldOffersClaimed
          <5>2. CASE x = s
            <6>1. up'[x] = all
              BY <1>a, <4>c, <5>2
            <6>2. i \in 1..Len(up[s]) /\ up'[x][i] = up[s][i]
              BY <4>5, <4>7, <6>1
            <6>3. QED
              BY <4>7, <5>2, <6>2, OldOffersClaimed
          <5>3. QED
            BY <5>1, <5>2
        <4>8. QED
          BY <4>6, <4>7
      <3>3. QED
        BY <1>2, <3>1, <3>2 DEF Leave, Crash
    <2>5. new.session = "starting" => page[p].session = "starting" /\ new.role = page[p].role
      BY <2>3
    <2>6. QED
      BY <1>a, <1>b, <1>e, <2>1, <2>2, <2>3, <2>4, <2>5, LinkStep
  <1>3. QED
    BY <1>1, <1>2

-----------------------------------------------------------------------------
(* What the room takes off a socket was under way before, and is a request.  *)
LEMMA ReceivesResult ==
  ASSUME PeersInv, NEW s \in Sockets, NEW type, Receives(s, type)
  PROVE  /\ up' \in [Sockets -> Seq(Requests)] /\ page' = page
         /\ Head(up[s]) \in Requests /\ Head(up[s]).type = type
         /\ Head(up[s]) = up[s][1] /\ 1 \in 1..Len(up[s])
         /\ \A x \in Sockets : \A i \in 1..Len(up'[x]) :
              \E j \in 1..Len(up[x]) : up'[x][i] = up[x][j]
  <1>a. up \in [Sockets -> Seq(Requests)]
    BY DEF PeersInv, PeersTypeOK
  <1>b. up[s] # <<>> /\ up' = [up EXCEPT ![s] = Tail(up[s])] /\ page' = page
        /\ Head(up[s]).type = type
    BY DEF Receives
  <1>1. /\ Tail(up[s]) \in Seq(Requests) /\ Head(up[s]) \in Requests /\ Head(up[s]) = up[s][1]
        /\ Len(Tail(up[s])) = Len(up[s]) - 1 /\ Len(up[s]) \in Nat \ {0}
        /\ \A i \in 1..Len(Tail(up[s])) : Tail(up[s])[i] = up[s][i + 1]
    BY <1>a, <1>b, TailAt
  <1>2. \A i \in 1..Len(Tail(up[s])) : i + 1 \in 1..Len(up[s])
    BY <1>1
  <1>3. \A x \in Sockets : \A i \in 1..Len(up'[x]) :
          \E j \in 1..Len(up[x]) : up'[x][i] = up[x][j]
    <2> TAKE x \in Sockets
    <2>1. CASE x = s
      <3>1. up'[x] = Tail(up[s])
        BY <1>a, <1>b, <2>1
      <3>2. QED
        BY <1>1, <1>2, <2>1, <3>1
    <2>2. CASE x # s
      BY <1>a, <1>b, <2>2
    <2>3. QED
      BY <2>1, <2>2
  <1>4. QED
    BY <1>a, <1>b, <1>1, <1>3

(* A handler of the room that announces the leadership it leaves behind.     *)
LEMMA AnnounceStep ==
  ASSUME IInv, IInv', PeersInv, LeadershipMoves, EmptyRoomLeaderless',
         NEW m \in Announcements, m.epoch = epoch', m.leader = leader', PushToMembers(m),
         page' = page, up' \in [Sockets -> Seq(Requests)],
         \A s \in Sockets : \A i \in 1..Len(up'[s]) :
           \E j \in 1..Len(up[s]) : up'[s][i] = up[s][j]
  PROVE  PeersInv'
  <1> DEFINE targets == {sock'[p] : p \in {q \in Peers : sock'[q] # NoSocket}}
  <1>1. Push(targets, m)
    BY DEF PushToMembers
  <1>2. IsAnnouncement(m) /\ m \in Announcements \cup Signals /\ m.type # "offer"
    BY DEF IsAnnouncement, Announcements
  <1>3. targets # {} => leader' # NoPeer
    BY NullsAssumption DEF IInv, SeniorMemberLeads, Members
  <1>4. \A s \in targets : leader' # NoPeer
    BY <1>3
  <1>5. \A p \in Peers : sock'[p] # NoSocket => sock'[p] \in targets
    OBVIOUS
  <1> HIDE DEF targets
  <1>6. /\ down' \in [Sockets -> Seq(Announcements \cup Signals)]
        /\ ClaimsAgree' /\ ClaimsArePast' /\ OnlyUsedSockets' /\ PagesInStep'
    BY <1>1, <1>2, <1>4, <1>5, PushStep
  <1>7. PagesSound' /\ PeersTypeOK'
    BY <1>6 DEF PeersInv, PagesSound, PeersTypeOK
  <1>8. QED
    BY <1>6, <1>7 DEF PeersInv

LEMMA AnnouncementsNow ==
  ASSUME IInv', NEW p
  PROVE  /\ RoomStateNow \in Announcements /\ Farewell(p) \in Announcements
         /\ RoomStateNow.epoch = epoch' /\ RoomStateNow.leader = leader'
         /\ Farewell(p).epoch = epoch' /\ Farewell(p).leader = leader'
  BY DEF IInv, TypeOK, RoomStateNow, Farewell, LeaderChangedNow, Announcements

(* A step of the room that touches no member and announces nothing.          *)
LEMMA SilentRoomStep ==
  ASSUME IInv, IInv', PeersInv, UNCHANGED <<leader, epoch, sock, down, page>>,
         up' \in [Sockets -> Seq(Requests)],
         \A s \in Sockets : \A i \in 1..Len(up'[s]) :
           \E j \in 1..Len(up[s]) : up'[s][i] = up[s][j]
  PROVE  PeersInv'
  <1>1. \A s \in Sockets : \A i \in 1..Len(up'[s]) :
          up'[s][i].type = "offer" => Claimed(up'[s][i].epoch, up'[s][i].to)
    BY OldOffersClaimed
  <1>2. page' \in [Peers -> Pages] /\ PeersTypeOK'
    BY DEF PeersInv, PeersTypeOK
  <1>3. ClaimsAgree' /\ ClaimsArePast' /\ PagesInStep'
    <2>1. \A p \in Peers :
            page[p].alive /\ page[p].link = "up" =>
              page'[p].sock = page[p].sock /\ down'[page[p].sock] = down[page[p].sock]
      OBVIOUS
    <2>2. QED
      BY <1>1, <1>2, <2>1, QuietStep
  <1>4. PagesSound' /\ OnlyUsedSockets' /\ EmptyRoomLeaderless'
    BY DEF PeersInv, PagesSound, OnlyUsedSockets, Uses, EmptyRoomLeaderless, Members
  <1>5. QED
    BY <1>2, <1>3, <1>4 DEF PeersInv

LEMMA ReceiveKeepsInv ==
  ASSUME IInv, IInv', PeersInv, NEW s \in Sockets, ReceiveJoin(s) \/ ReceiveBye(s) \/ ReceiveSignal(s)
  PROVE  PeersInv'
  <1>e. EmptyRoomLeaderless
    BY DEF PeersInv
  <1>1. CASE ReceiveJoin(s)
    <2>1. /\ Receives(s, "join") /\ PushToMembers(RoomStateNow)
          /\ \E r \in Rooms : Join(s, r)
      BY <1>1 DEF ReceiveJoin
    <2>2. LeadershipMoves /\ EmptyRoomLeaderless'
      BY <1>e, <2>1, RoomMoves
    <2>3. QED
      BY <2>1, <2>2, ReceivesResult, AnnouncementsNow, AnnounceStep
  <1>2. CASE ReceiveBye(s)
    <2>1. Receives(s, "bye")
      BY <1>2 DEF ReceiveBye
    <2>2. CASE Bye(s) /\ PushToMembers(Farewell(Owner(s)))
      <3>1. LeadershipMoves /\ EmptyRoomLeaderless'
        BY <1>e, <2>2, RoomMoves
      <3>2. QED
        BY <2>1, <2>2, <3>1, ReceivesResult, AnnouncementsNow, AnnounceStep
    <2>3. CASE UNCHANGED <<vars, down>>
      BY <2>1, <2>3, ReceivesResult, SilentRoomStep DEF vars, memory
    <2>4. QED
      BY <1>2, <2>2, <2>3 DEF ReceiveBye
  <1>3. CASE ReceiveSignal(s)
    <2> DEFINE m == Head(up[s])
               from == Owner(s)
    <2>1. PICK type \in {"offer", "answer", "server-leaving"} :
            /\ Receives(s, type)
            /\ Push(IF ~MayRelay(s, m.epoch) THEN {}
                    ELSE IF type = "server-leaving" THEN LeavingTargets(from)
                    ELSE DirectTarget(m.to),
                    [type |-> type, from |-> from, epoch |-> m.epoch])
            /\ UNCHANGED vars
      BY <1>3 DEF ReceiveSignal
    <2> DEFINE targets == IF ~MayRelay(s, m.epoch) THEN {}
                          ELSE IF type = "server-leaving" THEN LeavingTargets(from)
                          ELSE DirectTarget(m.to)
               relayed == [type |-> type, from |-> from, epoch |-> m.epoch]
    <2>2. /\ up' \in [Sockets -> Seq(Requests)] /\ page' = page
          /\ m \in Requests /\ m.type = type /\ m = up[s][1] /\ 1 \in 1..Len(up[s])
          /\ \A x \in Sockets : \A i \in 1..Len(up'[x]) :
               \E j \in 1..Len(up[x]) : up'[x][i] = up[x][j]
      BY <2>1, ReceivesResult
    <2>3. Push(targets, relayed) /\ UNCHANGED <<sock, leader, epoch>>
      BY <2>1 DEF vars, memory
    <2> HIDE DEF m
    <2>4. relayed \in Signals /\ relayed.epoch = m.epoch /\ relayed.type = type
      BY <2>2, OwnerIsPeer DEF Requests, Signals
    <2>5. relayed \in Announcements \cup Signals /\ ~IsAnnouncement(relayed)
      BY <2>4 DEF IsAnnouncement
    <2>6. ASSUME NEW x \in targets
          PROVE  /\ m.epoch = epoch /\ sock[Owner(x)] = x
                 /\ type = "offer" => leader # NoPeer /\ Owner(x) = leader
      <3>1. m.epoch = epoch
        BY DEF MayRelay
      <3>2. PICK q \in Members : x = sock[q] /\ (type = "offer" => q = m.to)
        BY DEF LeavingTargets, DirectTarget
      <3>3. q \in Peers /\ Owner(x) = q
        BY <3>2 DEF IInv, AttachmentsFresh, Members
      <3>4. leader \in Members
        BY <3>2 DEF IInv, SeniorMemberLeads
      <3>5. type = "offer" => Claimed(epoch, q) /\ Claimed(epoch, leader)
        BY <2>2, <3>1, <3>2, <3>4, NullsAssumption DEF Claimed, Members
      <3>6. QED
        BY <3>1, <3>2, <3>3, <3>4, <3>5, NullsAssumption
        DEF PeersInv, ClaimsAgree, Members, IInv, TypeOK
    <2> HIDE DEF targets, relayed
    <2>7. \A x \in targets :
            /\ relayed.epoch = epoch'
            /\ IsAnnouncement(relayed) => leader' # NoPeer /\ relayed.leader = leader'
            /\ ~IsAnnouncement(relayed) => sock[Owner(x)] = x /\ epoch' = epoch
            /\ relayed.type = "offer" => leader' # NoPeer /\ Owner(x) = leader'
      BY <2>3, <2>4, <2>5, <2>6
    <2>8. LeadershipMoves
      BY <2>3 DEF LeadershipMoves
    <2>9. /\ down' \in [Sockets -> Seq(Announcements \cup Signals)]
          /\ ClaimsAgree' /\ ClaimsArePast' /\ OnlyUsedSockets' /\ PagesInStep'
      BY <2>2, <2>3, <2>5, <2>7, <2>8, PushStep
    <2>10. PagesSound' /\ PeersTypeOK' /\ EmptyRoomLeaderless'
      BY <2>2, <2>3, <2>9 DEF PeersInv, PagesSound, PeersTypeOK, EmptyRoomLeaderless, Members
    <2>11. QED
      BY <2>9, <2>10 DEF PeersInv
  <1>4. QED
    BY <1>1, <1>2, <1>3

LEMMA NoticeKeepsInv ==
  ASSUME IInv, IInv', PeersInv, NEW s \in Sockets, NoticeGone(s)
  PROVE  PeersInv'
  <1>a. up \in [Sockets -> Seq(Requests)] /\ EmptyRoomLeaderless
    BY DEF PeersInv, PeersTypeOK
  <1>b. SocketGone(s) /\ up' = [up EXCEPT ![s] = <<>>] /\ page' = page
    BY DEF NoticeGone
  <1>c. /\ up' \in [Sockets -> Seq(Requests)]
        /\ \A x \in Sockets : \A i \in 1..Len(up'[x]) :
             \E j \in 1..Len(up[x]) : up'[x][i] = up[x][j]
    <2>1. up' \in [Sockets -> Seq(Requests)]
      BY <1>a, <1>b
    <2>2. \A x \in Sockets : up'[x] = up[x] \/ up'[x] = <<>>
      BY <1>a, <1>b
    <2>3. ASSUME NEW x \in Sockets, NEW i \in 1..Len(up'[x])
          PROVE  \E j \in 1..Len(up[x]) : up'[x][i] = up[x][j]
      <3>1. CASE up'[x] = up[x]
        BY <3>1
      <3>2. CASE up'[x] = <<>>
        BY <3>2
      <3>3. QED
        BY <2>2, <3>1, <3>2
    <2>4. QED
      BY <2>1, <2>3
  <1>d. LeadershipMoves /\ EmptyRoomLeaderless'
    BY <1>a, <1>b, RoomMoves
  <1>1. CASE sock[Owner(s)] = s
    <2>1. PushToMembers(Farewell(Owner(s)))
      BY <1>1 DEF NoticeGone
    <2>2. QED
      BY <1>b, <1>c, <1>d, <2>1, AnnouncementsNow, AnnounceStep
  <1>2. CASE sock[Owner(s)] # s
    <2>1. UNCHANGED <<memory, down>>
      BY <1>2 DEF NoticeGone, SocketGone
    <2>2. QED
      BY <1>b, <1>c, <2>1, SilentRoomStep DEF memory
  <1>3. QED
    BY <1>1, <1>2

(* The room loses its memory only when nothing names an epoch of it any more. *)
KeepsNamedEpochs == RoomRestarts \/ EmptyRoomHibernates => EpochsForgotten
ForgetsNothingNamed == [][KeepsNamedEpochs]_peerVars

(* When it loses its memory like that, nothing is left that it could contradict. *)
LEMMA ForgettingKeepsInv ==
  ASSUME IInv, IInv', PeersInv, ~AllowLinger, RoomRestarts \/ EmptyRoomHibernates, EpochsForgotten
  PROVE  PeersInv'
  <1>a. /\ \A p \in Peers : ~Remembers(p)
        /\ \A s \in Sockets : down[s] = <<>>
        /\ \A s \in Sockets : \A i \in 1..Len(up[s]) : up[s][i].type # "offer"
    <2>1. up \in [Sockets -> Seq(Requests)]
      BY DEF PeersInv, PeersTypeOK
    <2>2. QED
      BY <2>1 DEF EpochsForgotten
  <1>b. /\ sock' = [p \in Peers |-> NoSocket] /\ leader' = NoPeer /\ epoch' = 1
        /\ page' = page /\ down' = down
        /\ up' = up \/ up' = [s \in Sockets |-> <<>>]
    <2>1. CASE RoomRestarts
      BY <2>1 DEF RoomRestarts, Restart
    <2>2. CASE EmptyRoomHibernates
      <3>1. CurrentSockets = {}
        BY <2>2, OwnerIsPeer, SocketsAssumption DEF EmptyRoomHibernates, CurrentSockets, Members
      <3>2. QED
        BY <2>2, <3>1 DEF EmptyRoomHibernates, Hibernate
    <2>3. QED
      BY <2>1, <2>2
  <1>1. \A e \in Nat : \A p \in Peers : ~Claimed(e, p)'
    BY <1>a, <1>b DEF Claimed, Remembers
  <1>2. ClaimsAgree' /\ ClaimsArePast'
    BY <1>1 DEF ClaimsAgree, ClaimsArePast
  <1>3. PeersTypeOK'
    <2>1. up \in [Sockets -> Seq(Requests)] /\ <<>> \in Seq(Requests)
      BY DEF PeersInv, PeersTypeOK
    <2>2. [s \in Sockets |-> <<>>] \in [Sockets -> Seq(Requests)]
      BY <2>1
    <2>3. up' \in [Sockets -> Seq(Requests)]
      BY <1>b, <2>1, <2>2
    <2>4. /\ page' \in [Peers -> Pages]
          /\ down' \in [Sockets -> Seq(Announcements \cup Signals)]
      BY <1>b DEF PeersInv, PeersTypeOK
    <2>5. QED
      BY <2>3, <2>4 DEF PeersTypeOK
  <1>4. EmptyRoomLeaderless'
    BY <1>b DEF EmptyRoomLeaderless
  <1>5. PagesSound' /\ OnlyUsedSockets'
    BY <1>b DEF PeersInv, PagesSound, OnlyUsedSockets, Uses
  <1>6. PagesInStep'
    <2>1. \A p \in Peers : page[p].link = "up" =>
            page[p].sock \in Sockets /\ down[page[p].sock] = <<>> /\ sock'[p] # page[p].sock
      BY <1>a, <1>b, SocketsAssumption DEF PeersInv, PagesSound
    <2> SUFFICES ASSUME NEW p \in Peers, page[p].link = "up"
                 PROVE  down'[page[p].sock] = <<>> /\ sock'[p] # page[p].sock
      BY <1>b DEF PagesInStep
    <2>2. QED
      BY <1>b, <2>1
  <1>7. QED
    BY <1>2, <1>3, <1>4, <1>5, <1>6 DEF PeersInv

LEMMA InitPeersInv ==
  ASSUME PeersInit
  PROVE  PeersInv
  <1>1. /\ leader = NoPeer /\ sock = [p \in Peers |-> NoSocket]
        /\ up = [s \in Sockets |-> <<>>] /\ down = [s \in Sockets |-> <<>>]
        /\ page = [p \in Peers |-> NewPage]
    BY DEF PeersInit, Init
  <1>2. NewPage \in Pages
    BY PeersAssumption DEF NewPage, Pages, NobodyServed
  <1>3. /\ NewPage.link = "connecting" /\ NewPage.sock = NoSocket /\ NewPage.epoch = NoEpoch
        /\ NewPage.role = "undecided" /\ NewPage.session = "none"
    BY DEF NewPage
  <1>4. PeersTypeOK
    BY <1>1, <1>2 DEF PeersTypeOK
  <1>5. PagesSound /\ OnlyUsedSockets /\ EmptyRoomLeaderless /\ PagesInStep
    BY <1>1, <1>3 DEF PagesSound, OnlyUsedSockets, EmptyRoomLeaderless, PagesInStep
  <1>6. \A e \in Nat : \A p \in Peers : ~Claimed(e, p)
    BY <1>1, <1>3 DEF Claimed, Remembers
  <1>7. ClaimsAgree /\ ClaimsArePast
    BY <1>6 DEF ClaimsAgree, ClaimsArePast
  <1>8. QED
    BY <1>4, <1>5, <1>7 DEF PeersInv

LEMMA StutteringKeepsInv ==
  ASSUME IInv, IInv', PeersInv, UNCHANGED peerVars
  PROVE  PeersInv'
  <1>1. UNCHANGED <<leader, epoch, sock, down, page, up>>
    BY DEF peerVars, vars, memory
  <1>2. up' \in [Sockets -> Seq(Requests)]
    BY <1>1 DEF PeersInv, PeersTypeOK
  <1>3. QED
    BY <1>1, <1>2, SilentRoomStep

LEMMA StepPeersInv ==
  ASSUME IInv, IInv', PeersInv, ~AllowLinger, [PeersNext]_peerVars, [KeepsNamedEpochs]_peerVars
  PROVE  PeersInv'
  <1>1. ASSUME NEW s \in Sockets, Connect(s) \/ ConnectFails(s) PROVE PeersInv'
    BY <1>1, ConnectKeepsInv
  <1>2. ASSUME NEW s \in Sockets, ReceiveJoin(s) \/ ReceiveBye(s) \/ ReceiveSignal(s)
        PROVE  PeersInv'
    BY <1>2, ReceiveKeepsInv
  <1>3. ASSUME NEW s \in Sockets, NoticeGone(s) PROVE PeersInv'
    BY <1>3, NoticeKeepsInv
  <1>4. ASSUME NEW p \in Peers, Read(p) PROVE PeersInv'
    BY <1>4, ReadStep
  <1>5. ASSUME NEW p \in Peers,
               \/ SendOffer(p) \/ SessionOpens(p) \/ SessionCloses(p) \/ WatchdogFires(p)
               \/ \E q \in Peers : SendAnswer(p, q)
        PROVE  PeersInv'
    BY <1>5, SessionStepsKeepInv
  <1>6. ASSUME NEW p \in Peers, SocketFails(p) \/ Leave(p) \/ Crash(p) PROVE PeersInv'
    BY <1>6, FailingKeepsInv
  <1>7. CASE RoomRestarts \/ EmptyRoomHibernates
    <2>1. CASE EpochsForgotten
      BY <1>7, <2>1, ForgettingKeepsInv
    <2>2. CASE UNCHANGED peerVars
      BY <2>2, StutteringKeepsInv
    <2>3. QED
      BY <1>7, <2>1, <2>2 DEF KeepsNamedEpochs
  <1>8. CASE UNCHANGED peerVars
    BY <1>8, StutteringKeepsInv
  <1>9. CASE Proceed
    BY <1>1, <1>2, <1>3, <1>4, <1>5, <1>6, <1>7, <1>9 DEF Proceed
  <1>10. QED
    BY <1>1, <1>3, <1>5, <1>6, <1>7, <1>8, <1>9 DEF PeersNext

(* As long as the room keeps its memory while a page or a message names an    *)
(* epoch of it: no two claims of an epoch differ, and every page is in step   *)
(* with what the room announced.  A room that forgets earlier counts its      *)
(* epochs from one again, and the claims of the old ones contradict it.       *)
THEOREM PeersInvariant ==
  ~AllowLinger => (PeersSpec /\ ForgetsNothingNamed => [](IInv /\ PeersInv))
  <1> SUFFICES ASSUME ~AllowLinger PROVE PeersSpec /\ ForgetsNothingNamed => [](IInv /\ PeersInv)
    OBVIOUS
  <1>1. PeersInit => IInv /\ PeersInv
    BY InitIInv, InitPeersInv DEF PeersInit
  <1>2. IInv /\ PeersInv /\ [PeersNext]_peerVars /\ [KeepsNamedEpochs]_peerVars
        => (IInv /\ PeersInv)'
    BY PeersStepIsRoomStep, StepIInv, StepPeersInv
  <1>3. QED
    BY <1>1, <1>2, PTL DEF PeersSpec, ForgetsNothingNamed

(* What the pages and the queues hold is of its kind, as long as the room     *)
(* forgets no epoch that is still named.                                     *)
THEOREM PeersTypeCorrect ==
  ~AllowLinger => (PeersSpec /\ ForgetsNothingNamed => []PeersTypeOK)
  <1>1. PeersInv => PeersTypeOK
    BY DEF PeersInv
  <1>2. QED
    BY <1>1, PeersInvariant, PTL

(* No two pages act as server under the leadership of one epoch, whatever    *)
(* announcements are still under way or lost: both would have claimed it.    *)
(* That needs the room to keep its memory, through hibernation, while a page  *)
(* remembers an epoch or a message names one; after any other restart two     *)
(* pages may be servers of one number.                                       *)
THEOREM ServersAreUnique ==
  ~AllowLinger => (PeersSpec /\ ForgetsNothingNamed => []OneServerPerEpoch)
  <1>1. PeersInv => OneServerPerEpoch
    <2> SUFFICES ASSUME PeersInv, NEW p \in Peers, NEW q \in Peers,
                        Remembers(p), page[p].role = "server",
                        Remembers(q), page[q].role = "server", page[p].epoch = page[q].epoch
                 PROVE  p = q
      BY DEF OneServerPerEpoch
    <2>1. page[p].epoch \in Nat
      BY DEF PeersInv, PeersTypeOK, Pages, Remembers
    <2>2. Claimed(page[p].epoch, p) /\ Claimed(page[p].epoch, q)
      BY DEF Claimed, Believed
    <2>3. QED
      BY <2>1, <2>2 DEF PeersInv, ClaimsAgree
  <1>2. QED
    BY <1>1, PeersInvariant, PTL

(* What a member that has read everything believes: the room's epoch, and    *)
(* the room's leader in it.                                                  *)
LEMMA SettledMember ==
  ASSUME IInv, PeersInv, Settled, NEW p \in Members
  PROVE  /\ page[p].epoch = epoch
         /\ p = leader => page[p].role = "server"
         /\ p # leader => page[p].role = "client" /\ page[p].server = leader
  <1>1. /\ p \in Peers /\ page[p].alive /\ page[p].link = "up" /\ sock[p] = page[p].sock
        /\ page[p].sock \in Sockets /\ down[page[p].sock] = <<>>
    BY DEF Settled, PeersInv, PagesSound, Members
  <1>2. page[p].epoch = epoch
    <2>1. Introduced(page[p].epoch, <<>>, epoch, 1)
      BY <1>1 DEF PeersInv, PagesInStep
    <2>2. QED
      BY <2>1 DEF Introduced
  <1>3. epoch \in Nat /\ epoch # NoEpoch /\ leader \in Peers /\ leader # NoPeer
    BY NullsAssumption DEF IInv, TypeOK, SeniorMemberLeads, Members, NoEpoch
  <1>4. Claimed(epoch, leader) /\ Claimed(epoch, Believed(p))
    BY <1>1, <1>2, <1>3 DEF Claimed, Remembers
  <1>5. page[p].role \in {"server", "client"}
    BY <1>1, <1>2, <1>3 DEF PeersInv, PeersTypeOK, Pages, PagesSound
  <1>6. Believed(p) \in Peers
    BY <1>1, <1>5 DEF Believed, PeersInv, PagesSound
  <1>7. Believed(p) = leader
    BY <1>3, <1>4, <1>6 DEF PeersInv, ClaimsAgree
  <1>8. page[p].role = "client" => page[p].server # p
    BY <1>1 DEF PeersInv, PagesSound
  <1>9. QED
    BY <1>2, <1>5, <1>7, <1>8 DEF Believed

(* Once everything sent has been read, whatever was lost before, the leader  *)
(* acts as server, each other member as its client, all in the room's epoch,  *)
(* as long as the room forgets no epoch that is still named.                 *)
THEOREM RolesFollow ==
  ~AllowLinger => (PeersSpec /\ ForgetsNothingNamed => []RolesFollowRoom)
  <1>1. IInv /\ PeersInv => RolesFollowRoom
    BY SettledMember DEF RolesFollowRoom, LeaderServesTheOthers
  <1>2. QED
    BY <1>1, PeersInvariant, PTL

(* A signal is read in the epoch it was sent in, an offer by the server of it: *)
(* the announcement it depends on has been read before, as long as the room   *)
(* forgets no epoch that is still named.                                     *)
THEOREM SignalsStay ==
  ~AllowLinger => (PeersSpec /\ ForgetsNothingNamed => SignalsStayInTheirEpoch)
  <1> DEFINE InStep ==
        \A p \in Peers : Read(p) =>
          LET m == Head(down[page[p].sock]) IN
          m.type \in {"offer", "answer", "server-leaving"} =>
            /\ m.epoch = page[p].epoch
            /\ m.type = "offer" => page[p].role = "server"
  <1>1. ASSUME PeersInv PROVE InStep
    <2> SUFFICES ASSUME NEW p \in Peers, Read(p), NEW m, m = Head(down[page[p].sock]),
                        m.type \in {"offer", "answer", "server-leaving"}
                 PROVE  m.epoch = page[p].epoch /\ (m.type = "offer" => page[p].role = "server")
      OBVIOUS
    <2> DEFINE s == page[p].sock
               q == down[s]
    <2>1. page[p].alive /\ page[p].link = "up" /\ s \in Sockets /\ Owner(s) = p /\ q # <<>>
      BY <1>1 DEF Read, PeersInv, PagesSound
    <2>2. q \in Seq(Announcements \cup Signals) /\ page[p] \in Pages
      BY <1>1, <2>1 DEF PeersInv, PeersTypeOK
    <2>3. m = q[1] /\ 1 \in 1..Len(q) /\ m \in Announcements \cup Signals
      BY <2>1, <2>2, TailAt
    <2>4. ~IsAnnouncement(m)
      BY DEF IsAnnouncement
    <2>5. Introduced(page[p].epoch, q, m.epoch, 1)
      BY <1>1, <2>1, <2>3, <2>4, StepOfOnePage DEF PeersInv
    <2>6. m.epoch = page[p].epoch
      BY <2>5 DEF Introduced
    <2>7. ASSUME m.type = "offer" PROVE page[p].role = "server"
      <3>1. Claimed(m.epoch, p)
        BY <2>1, <2>3, <2>7 DEF Claimed
      <3>2. m.epoch \in Nat
        BY <2>3, <2>7 DEF Announcements, Signals
      <3>3. m.epoch # NoEpoch
        BY <3>2 DEF NoEpoch
      <3>4. Remembers(p) /\ page[p].role # "undecided"
        BY <1>1, <2>1, <2>6, <3>3 DEF Remembers, PeersInv, PagesSound
      <3>5. Claimed(m.epoch, Believed(p))
        BY <2>6, <3>4 DEF Claimed
      <3>6. page[p].role = "client" => Believed(p) \in Peers \ {p}
        BY <1>1 DEF Believed, PeersInv, PagesSound
      <3>7. QED
        BY <1>1, <2>2, <3>1, <3>2, <3>4, <3>5, <3>6 DEF PeersInv, ClaimsAgree, Pages
    <2>8. QED
      BY <2>6, <2>7
  <1>2. PeersInv => [InStep]_peerVars
    BY <1>1
  <1>3. QED
    BY <1>2, PeersInvariant, PTL DEF SignalsStayInTheirEpoch
=============================================================================
