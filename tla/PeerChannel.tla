------------------------------ MODULE PeerChannel ------------------------------
(***************************************************************************)
(* The transports over the resource channel and the CRDT channel of one     *)
(* connection between two pages, in one direction:                          *)
(* createRawDcTransport and createCrdtDcTransport of                        *)
(* src/video-editor/p2p/PageP2PManager.ts.                                  *)
(*                                                                         *)
(* Resource messages are numbered; message m is a text if Fragments[m] = 0  *)
(* and a binary cut in Fragments[m] frames otherwise.  A frame carries its  *)
(* index and the number of frames of its message, which stands for isLast   *)
(* and the total size; amounts of bytes are counted in frames.  The sender  *)
(* may be refused by the browser (dc.send throws).  A connection breaks     *)
(* when either page closes its RTCPeerConnection: what has not left is      *)
(* lost, a part of what has left may still arrive.                          *)
(***************************************************************************)
EXTENDS Integers, SequencesExt

CONSTANTS
  Fragments,   \* the messages that the page sends over the resource channel
  Packets,     \* how many packets it sends over the CRDT channel
  High, Low,   \* DC_BUFFERED_AMOUNT_HIGH_WATERMARK_BYTES and _LOW_, in frames
  MaxRefusals  \* bound on the sends that the browser refuses

ASSUME ChannelAssumption ==
  /\ Fragments \in Seq(Nat) /\ Packets \in Nat /\ MaxRefusals \in Nat
  /\ High \in Nat /\ Low \in 0..High

VARIABLES
  connected,   \* the sender's channels are open
  resource,    \* the resource transport of the sender: how many messages it
               \* has accepted, sendQueue, the next fragment of its head, is it
               \* waiting for the buffer, how many sends have been refused
  buffer,      \* what the browser has yet to send on the resource channel
  wire,        \* and what is on its way, for each channel
  receiver,    \* fragParts and what the listeners have had
  crdt         \* the CRDT transports: packets accepted, pendingPackets,
               \* is there a listener, what it has had

channelVars == <<connected, resource, buffer, wire, receiver, crdt>>

ChannelInit ==
  /\ connected = TRUE
  /\ resource = [sent |-> 0, queue |-> <<>>, next |-> 0, waits |-> FALSE, refused |-> 0]
  /\ buffer = <<>>
  /\ wire = [resource |-> <<>>, crdt |-> <<>>]
  /\ receiver = [alive |-> TRUE, parts |-> <<>>, got |-> <<>>]
  /\ crdt = [sent |-> 0, pending |-> <<>>, listened |-> FALSE, got |-> <<>>]

-------------------------------------------------------------------------------
(* The sender of resources. *)

Frame(m, i) == [message |-> m, index |-> i, of |-> Fragments[m]]
IsText(f) == f.of = 0
IsLast(f) == f.index + 1 >= f.of

(* Before each frame the loop of sendQueue waits when too much is buffered. *)
WaitsFor(queue, buffered) == queue # <<>> /\ Len(buffered) > High

(* send; it is ignored once the channel is not open.  A message behind others leaves their wait alone. *)
SendResource ==
  /\ connected /\ resource.sent < Len(Fragments)
  /\ LET m == resource.sent + 1
         queue == Append(resource.queue, m)
     IN resource' = [resource EXCEPT !.sent = m, !.queue = queue,
                                     !.waits = IF resource.queue = <<>> THEN WaitsFor(queue, buffer) ELSE @]
  /\ UNCHANGED <<connected, buffer, wire, receiver, crdt>>

CanPut == connected /\ resource.queue # <<>> /\ ~resource.waits

(* dc.send of a text, or of the next frame of sendFragmentedBinary. *)
PutFrame ==
  /\ CanPut
  /\ LET f == Frame(Head(resource.queue), resource.next)
         queue == IF IsLast(f) THEN Tail(resource.queue) ELSE resource.queue
     IN /\ buffer' = Append(buffer, f)
        /\ resource' = [resource EXCEPT !.queue = queue,
                                        !.next = IF IsLast(f) THEN 0 ELSE @ + 1,
                                        !.waits = WaitsFor(queue, buffer')]
  /\ UNCHANGED <<connected, wire, receiver, crdt>>

(* dc.send throws: enqueueSend goes on with the next message. *)
RefuseFrame ==
  /\ CanPut /\ resource.refused < MaxRefusals
  /\ resource' = [resource EXCEPT !.queue = Tail(@), !.next = 0, !.refused = @ + 1,
                                  !.waits = WaitsFor(Tail(resource.queue), buffer)]
  /\ UNCHANGED <<connected, buffer, wire, receiver, crdt>>

(* The browser sends a frame; onbufferedamountlow resumes the sender. *)
Transmit ==
  /\ connected /\ receiver.alive /\ buffer # <<>>
  /\ buffer' = Tail(buffer)
  /\ wire' = [wire EXCEPT !.resource = Append(@, Head(buffer))]
  /\ resource' = [resource EXCEPT !.waits = @ /\ Len(buffer') > Low]
  /\ UNCHANGED <<connected, receiver, crdt>>

-------------------------------------------------------------------------------
(* The receiver of resources. *)

Whole(parts) == Len(parts) = Last(parts).of

(* Mutant of Consume: a frame out of turn leaves the parts as they are. *)
ConsumeKeepingParts(f, kept) ==
  LET parts == Append(kept.parts, f) IN
  CASE IsText(f) -> [kept EXCEPT !.out = Append(@, f.message)]
    [] ~IsText(f) /\ f.index # Len(kept.parts) -> kept
    [] ~IsText(f) /\ f.index = Len(kept.parts) /\ ~IsLast(f) -> [kept EXCEPT !.parts = parts]
    [] OTHER -> [parts |-> <<>>,
                 out |-> Append(kept.out, IF \A p \in ToSet(parts) : p.message = f.message
                                          THEN f.message ELSE 0)]

(* consumeBinaryFrame and the delivery: the parts kept and what comes out. *)
Consume(f, kept) ==
  LET parts == Append(kept.parts, f) IN
  CASE IsText(f) -> [kept EXCEPT !.out = Append(@, f.message)]
    [] ~IsText(f) /\ f.index # Len(kept.parts) -> [kept EXCEPT !.parts = <<>>]
    [] ~IsText(f) /\ f.index = Len(kept.parts) /\ ~IsLast(f) -> [kept EXCEPT !.parts = parts]
    [] OTHER -> [parts |-> <<>>,
                 out |-> IF Whole(parts)
                         THEN Append(kept.out, IF \A p \in ToSet(parts) : p.message = f.message
                                               THEN f.message ELSE 0)
                         ELSE kept.out]

ReceiveResource ==
  /\ receiver.alive /\ wire.resource # <<>>
  /\ LET kept == Consume(Head(wire.resource), [parts |-> receiver.parts, out |-> receiver.got])
     IN receiver' = [receiver EXCEPT !.parts = kept.parts, !.got = kept.out]
  /\ wire' = [wire EXCEPT !.resource = Tail(@)]
  /\ UNCHANGED <<connected, resource, buffer, crdt>>

-------------------------------------------------------------------------------
(* The CRDT transports. *)

(* send; it throws when the channel is not open, and the caller keeps the packet. *)
SendPacket ==
  /\ connected /\ crdt.sent < Packets
  /\ crdt' = [crdt EXCEPT !.sent = @ + 1]
  /\ wire' = [wire EXCEPT !.crdt = Append(@, crdt.sent + 1)]
  /\ UNCHANGED <<connected, resource, buffer, receiver>>

(* onmessage: without a listener the packet is kept. *)
ReceivePacket ==
  /\ receiver.alive /\ wire.crdt # <<>>
  /\ crdt' = IF crdt.listened THEN [crdt EXCEPT !.got = Append(@, Head(wire.crdt))]
                              ELSE [crdt EXCEPT !.pending = Append(@, Head(wire.crdt))]
  /\ wire' = [wire EXCEPT !.crdt = Tail(@)]
  /\ UNCHANGED <<connected, resource, buffer, receiver>>

(* listen flushes what was kept. *)
Listen ==
  /\ receiver.alive /\ ~crdt.listened
  /\ crdt' = [crdt EXCEPT !.listened = TRUE, !.got = @ \o crdt.pending, !.pending = <<>>]
  /\ UNCHANGED <<connected, resource, buffer, wire, receiver>>

Unlisten ==
  /\ receiver.alive /\ crdt.listened
  /\ crdt' = [crdt EXCEPT !.listened = FALSE]
  /\ UNCHANGED <<connected, resource, buffer, wire, receiver>>

-------------------------------------------------------------------------------
(* The end of the connection. *)

(* closePeer on the receiver: both transports are destroyed. *)
ReceiverLeaves ==
  /\ receiver.alive
  /\ receiver' = [receiver EXCEPT !.alive = FALSE]
  /\ crdt' = [crdt EXCEPT !.listened = FALSE, !.pending = <<>>]
  /\ UNCHANGED <<connected, resource, buffer, wire>>

(* closePeer on the sender, or the sender learns that the receiver has left.    *)
(* The work at the head of sendQueue ends, or waits for ever for the buffer.    *)
SenderCloses ==
  /\ connected
  /\ connected' = FALSE
  /\ resource' = [resource EXCEPT !.queue = <<>>, !.next = 0]
  /\ buffer' = <<>>
  /\ \E n \in 0..Len(wire.resource), k \in 0..Len(wire.crdt) :
       wire' = [resource |-> SubSeq(wire.resource, 1, n), crdt |-> SubSeq(wire.crdt, 1, k)]
  /\ UNCHANGED <<receiver, crdt>>

ChannelNext ==
  \/ SendResource \/ PutFrame \/ RefuseFrame \/ Transmit \/ ReceiveResource
  \/ SendPacket \/ ReceivePacket \/ Listen \/ Unlisten
  \/ ReceiverLeaves \/ SenderCloses

(* The tasks and microtasks of the pages run, the network works while the  *)
(* connection lasts, and the adapter listens to the channels it is given.   *)
ChannelFairness ==
  /\ WF_channelVars(PutFrame) /\ WF_channelVars(Transmit) /\ WF_channelVars(ReceiveResource)
  /\ WF_channelVars(ReceivePacket) /\ WF_channelVars(Listen)

-------------------------------------------------------------------------------
(* The messages whose last frame has yet to be received. *)
Underway ==
  LET ends == SelectSeq(wire.resource \o buffer, IsLast)
  IN [i \in DOMAIN ends |-> ends[i].message] \o resource.queue

Resources == INSTANCE MessageQueue WITH
  Messages <- 1..Len(Fragments), Cost <- 2, Capacity <- High + 1,
  sent <- resource.sent, pending <- IF receiver.alive THEN Underway ELSE <<>>, got <- receiver.got,
  refused <- resource.refused, usable <- connected /\ receiver.alive, buffered <- Len(buffer)

CrdtPackets == INSTANCE MessageQueue WITH
  Messages <- 1..Packets, Cost <- 0, Capacity <- 0,
  sent <- crdt.sent,
  pending <- IF receiver.alive THEN crdt.pending \o wire.crdt ELSE <<>>,
  got <- crdt.got, refused <- 0, usable <- connected /\ receiver.alive, buffered <- 0

(***************************************************************************)
(* Both transports are message queues (their listeners rely on it: an       *)
(* announced chunk is followed by its bytes, and the batches of a log are   *)
(* applied in order): nothing is lost, repeated, mixed up or reordered,     *)
(* whatever the fragmentation, the waits for the buffer, the listeners that *)
(* come late and the sends that fail; and the buffer stays bounded.         *)
(***************************************************************************)
ChannelsDeliver == Resources!Spec /\ CrdtPackets!Spec
=============================================================================
