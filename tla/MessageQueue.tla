----------------------------- MODULE MessageQueue -----------------------------
(***************************************************************************)
(* What one direction of a data channel between two pages promises its      *)
(* users: messages come out whole, once and in the order in which they went *)
(* in.  A message that the browser refuses costs at most Cost of them, and  *)
(* nothing else is lost until the channel breaks; and no more than Capacity *)
(* is ever put into the browser's buffer.                                   *)
(***************************************************************************)
EXTENDS Naturals, SequencesExt

CONSTANTS Messages, Cost, Capacity

VARIABLES
  sent,     \* how many messages have been accepted; they are numbered from 1
  pending,  \* those that are on their way
  got,      \* those that have arrived
  refused,  \* how many the browser has refused
  usable,   \* the channel has not broken
  buffered  \* what waits in the browser's buffer

queueVars == <<sent, pending, got, refused, usable, buffered>>

Init ==
  /\ sent = 0 /\ pending = <<>> /\ got = <<>>
  /\ refused = 0 /\ usable = TRUE /\ buffered = 0

Send ==
  /\ sent' = sent + 1
  /\ pending' = IF usable THEN Append(pending, sent') ELSE pending
  /\ UNCHANGED <<got, refused, usable>>

(* The browser refuses a message, or a refusal has spoilt others. *)
Lose ==
  /\ refused' \in {refused, refused + 1}
  /\ pending' = SelectSeq(pending, LAMBDA m : m \in ToSet(pending'))
  /\ UNCHANGED <<sent, got, usable>>

Deliver ==
  /\ \E n \in 1..Len(pending) :
       /\ got' = got \o SubSeq(pending, 1, n)
       /\ pending' = SubSeq(pending, n + 1, Len(pending))
  /\ UNCHANGED <<sent, refused, usable>>

Break ==
  /\ usable' = FALSE
  /\ IsPrefix(pending', pending)
  /\ UNCHANGED <<sent, got, refused>>

NothingElseIsLost ==
  usable' => sent' - Len(pending') - Len(got') <= Cost * refused'

Next ==
  /\ Send \/ Lose \/ Deliver \/ Break
  /\ NothingElseIsLost
  /\ buffered' \in 0..Capacity

Arrival == \A m \in Messages : m \in ToSet(pending) ~> m \notin ToSet(pending)

Spec == Init /\ [][Next]_queueVars /\ Arrival
=============================================================================
