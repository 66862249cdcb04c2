------------------------------- MODULE CrdtRelay -------------------------------
(***************************************************************************)
(* The relay between the replicas of one room in the CRDT harness:          *)
(* src/video-editor/dkt/crdt/createInMemoryCrdtRelay.ts, and the transport  *)
(* by which a replica takes part in it (createMiniCutRoomCrdtTransport.ts). *)
(*                                                                         *)
(* The relay calls its peers synchronously, so an operation is one step for *)
(* all of them.  A replica may pause what it is delivered, stop listening,  *)
(* leave, and join again with nothing.  Replicas are external: they listen  *)
(* without throwing, and their batches have ids.                            *)
(***************************************************************************)
EXTENDS Naturals, FiniteSets, SequencesExt

CONSTANTS
  Replicas,
  None,        \* null value
  Profile,     \* the profile and version of each replica
  Messages,    \* what replicas try to send: the sender and the profile (or
               \* None) it claims, and its sequence of batches
  Trace,       \* the action trace of each batch, or None
  MaxLog,      \* maxLogPackets
  MaxHeld      \* bound on what a paused transport holds

ASSUME RelayAssumption == MaxLog \in Nat /\ MaxHeld \in Nat

VARIABLES
  relayRoom,  \* [profile, peers, log, seen]
  tap         \* of each replica: its transport, and what its listener has heard

relayVars == <<relayRoom, tap>>

(* asked: has the replica requested a sync since it began to listen? *)
NewTap == [listening |-> FALSE, paused |-> FALSE, held |-> <<>>, heard |-> {}, asked |-> FALSE]

RelayInit ==
  /\ relayRoom = [profile |-> None, peers |-> {}, log |-> <<>>, seen |-> {}]
  /\ tap = [p \in Replicas |-> NewTap]

-------------------------------------------------------------------------------
(* What may be sent: assertWireMessage and, in the relay, assertPacketPayload. *)

FrameIds(trace) == {trace.frames[i].id : i \in DOMAIN trace.frames}

(* A trace is a sequence of frames that have ids, with pairs of a frame and what it produced: *)
(* assertActionTraceV2 refuses a value of any other kind.                                   *)
ASSUME TraceAssumption ==
  \A m \in Messages : \A b \in ToSet(m.batches) : Trace[b] # None =>
    /\ Trace[b].frames \in Seq(ToSet(Trace[b].frames)) /\ None \notin FrameIds(Trace[b])
    /\ \A made \in Trace[b].produced : made = <<made[1], made[2]>>

(* parentEdges: where a frame has been found once, its parent or None. *)
Parent(trace, id) == LET i == CHOOSE i \in DOMAIN trace.frames : trace.frames[i].id = id
                     IN trace.frames[i].parent

(* Mutant of Ends: only a frame that is its own parent is found out. *)
EndsOrMovesOn(trace, id) == Parent(trace, id) # id

(* From a frame to its ancestors, a step for every frame there is. *)
Walk(trace, id) ==
  LET at[n \in 0..Len(trace.frames)] ==
        IF n = 0 THEN id
        ELSE IF at[n - 1] = None THEN None ELSE Parent(trace, at[n - 1])
  IN at

(* The walk from a frame meets no frame twice. *)
Ends(trace, id) == Walk(trace, id)[Len(trace.frames)] = None

FramesHold(trace) ==
  /\ Cardinality(FrameIds(trace)) = Len(trace.frames)
  /\ \A i \in DOMAIN trace.frames : {trace.frames[i].parent, trace.frames[i].by} \subseteq FrameIds(trace) \cup {None}
  /\ \A id \in FrameIds(trace) : Ends(trace, id)

(* produced_ops and produced_creates: <<frame, op or node>> *)
ProducedHold(trace) ==
  \A made \in trace.produced : made[1] \in FrameIds(trace) /\ made[2] \in trace.contents

TraceHolds(batch) ==
  Trace[batch] # None => FramesHold(Trace[batch]) /\ ProducedHold(Trace[batch])

WireHolds(p, m) == m.from = p /\ m.profile \in {None, Profile[p]}

-------------------------------------------------------------------------------
(* The transport of a replica. *)

(* deliver: nobody hears it if nobody listens. *)
Deliver(t, batches) ==
  IF t.paused THEN [t EXCEPT !.held = Append(@, batches)]
  ELSE IF t.listening THEN [t EXCEPT !.heard = @ \cup batches]
  ELSE t

(* A room has the profile of whoever joined it first. *)
Join(p) ==
  /\ p \notin relayRoom.peers /\ relayRoom.profile \in {None, Profile[p]}
  /\ relayRoom' = [relayRoom EXCEPT !.profile = Profile[p], !.peers = @ \cup {p}]
  /\ tap' = [tap EXCEPT ![p] = NewTap]

Close(p) ==
  /\ p \in relayRoom.peers
  /\ relayRoom' = [relayRoom EXCEPT !.peers = @ \ {p}]
  /\ tap' = [tap EXCEPT ![p] = NewTap]

Subscribe(p) ==
  /\ p \in relayRoom.peers /\ ~tap[p].listening
  /\ tap' = [tap EXCEPT ![p].listening = TRUE]
  /\ UNCHANGED relayRoom

Unsubscribe(p) ==
  /\ tap[p].listening
  /\ tap' = [tap EXCEPT ![p].listening = FALSE, ![p].asked = FALSE]
  /\ UNCHANGED relayRoom

SetDeliveryPaused(p, paused) ==
  /\ p \in relayRoom.peers /\ tap[p].paused # paused
  /\ tap' = [tap EXCEPT ![p].paused = paused]
  /\ UNCHANGED relayRoom

(* deliver for one packet after the other. *)
DeliverEach(t, held) ==
  IF t.paused THEN [t EXCEPT !.held = @ \o held]
  ELSE IF t.listening THEN [t EXCEPT !.heard = @ \cup UNION ToSet(held)]
  ELSE t

(* Mutant of FlushBufferedMessages: the buffer is emptied after the loop. *)
FlushAndForget(p) ==
  /\ tap[p].held # <<>>
  /\ tap' = [tap EXCEPT ![p] = [DeliverEach(@, @.held) EXCEPT !.held = <<>>]]
  /\ UNCHANGED relayRoom

(* While delivery is paused all of it comes back into the buffer. *)
FlushBufferedMessages(p) ==
  /\ tap[p].held # <<>>
  /\ tap' = [tap EXCEPT ![p] = DeliverEach([@ EXCEPT !.held = <<>>], @.held)]
  /\ UNCHANGED relayRoom

-------------------------------------------------------------------------------
(* The relay. *)

(* packetKey: the sender, its profile and the ids of the batches. *)
PacketKey(p, m) == <<p, Profile[p], m.batches>>

(* rememberPacket *)
Remember(room, p, m) ==
  LET log == Append(room.log, [from |-> p, batches |-> ToSet(m.batches)])
  IN [room EXCEPT !.seen = @ \cup {PacketKey(p, m)},
                  !.log = SubSeq(log, 1 + Len(log) - (IF Len(log) > MaxLog THEN MaxLog ELSE Len(log)), Len(log))]

(* A packet that is sent again goes nowhere. *)
Send(p, m) ==
  /\ p \in relayRoom.peers /\ WireHolds(p, m)
  /\ \A b \in ToSet(m.batches) : TraceHolds(b)
  /\ \A q \in relayRoom.peers : Len(tap[q].held) < MaxHeld
  /\ IF PacketKey(p, m) \in relayRoom.seen THEN UNCHANGED relayVars
     ELSE /\ relayRoom' = Remember(relayRoom, p, m)
          /\ tap' = [q \in Replicas |-> IF q \in relayRoom.peers \ {p}
                                          THEN Deliver(tap[q], ToSet(m.batches)) ELSE tap[q]]

Logged == UNION {packet.batches : packet \in ToSet(relayRoom.log)}

(* crdt-sync-request: the answer is the whole log in one packet. *)
RequestSync(p) ==
  /\ p \in relayRoom.peers /\ Len(tap[p].held) < MaxHeld
  /\ LET told == Deliver(tap[p], Logged)
     IN tap' = [tap EXCEPT ![p] = [told EXCEPT !.asked = @ \/ told.listening]]
  /\ UNCHANGED relayRoom

RelayNext ==
  \E p \in Replicas :
    \/ Join(p) \/ Close(p) \/ Subscribe(p) \/ Unsubscribe(p)
    \/ \E paused \in BOOLEAN : SetDeliveryPaused(p, paused)
    \/ FlushBufferedMessages(p)
    \/ \E m \in Messages : Send(p, m)
    \/ RequestSync(p)

-------------------------------------------------------------------------------
(***************************************************************************)
(* A replica that listens and has asked for the log once misses nothing     *)
(* that the relay still has of the others, although a packet is sent only   *)
(* once and never again: it has heard it, or its transport holds it,        *)
(* however it pauses and flushes (rememberPacket, deliver).                 *)
(***************************************************************************)
NobodyMissesABatch ==
  \A p \in relayRoom.peers : tap[p].asked =>
    \A packet \in ToSet(relayRoom.log) :
      packet.from # p => packet.batches \subseteq tap[p].heard \cup UNION ToSet(tap[p].held)

(***************************************************************************)
(* What a replica hears was really done: the frames of its action trace can  *)
(* be put in an order in which each comes after its parent, its schedulers  *)
(* are frames of it, and whatever they produced is in the batch             *)
(* (assertActionTraceV2).                                                   *)
(***************************************************************************)
WasDone(trace) ==
  /\ \E order \in SetToSeqs(FrameIds(trace)) :
       /\ Len(order) = Len(trace.frames)
       /\ \A i \in DOMAIN trace.frames :
            trace.frames[i].parent # None =>
              \E j, k \in DOMAIN order : j < k /\ order[j] = trace.frames[i].parent /\ order[k] = trace.frames[i].id
  /\ \A i \in DOMAIN trace.frames : trace.frames[i].by \in FrameIds(trace) \cup {None}
  /\ trace.produced \subseteq FrameIds(trace) \X trace.contents

TracesWereDone ==
  \A p \in Replicas : \A b \in tap[p].heard : Trace[b] # None => WasDone(Trace[b])
=============================================================================
