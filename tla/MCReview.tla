------------------------------ MODULE MCReview ------------------------------
(* A clip with two timing conflicts of one edit, conflicts of clips in two projects, orders of tracks  *)
(* with and without a current move, a deleted clip and a missing resource.                            *)
EXTENDS Review

About0(kind, project) == [kind |-> kind, project |-> project, clip |-> None, track |-> 0, resource |-> None, field |-> "start", alts |-> <<>>]
Timed(project, clip, field, alts) == [About0("clip_timing", project) EXCEPT !.clip = clip, !.field = field, !.alts = alts]
Ordered(project, track, alts) == [About0("track_order", project) EXCEPT !.track = track, !.alts = alts]
Deleted(project, clip, track) == [About0("delete_vs_edit", project) EXCEPT !.clip = clip, !.track = track]
Missing(project, clip, resource) == [About0("dangling_resource", project) EXCEPT !.clip = clip, !.resource = resource]

Amounts(edits, switches, remote, repeats, drafts, decisions) ==
  [syncs |-> 0, edits |-> edits, switches |-> switches, remote |-> remote, repeats |-> repeats, drafts |-> drafts, decisions |-> decisions]
Scene(projects, conflict, groups, amounts) ==
  [projects |-> projects, conflict |-> conflict, groups |-> groups, left |-> amounts,
   clips |-> [a |-> [track |-> 1, start |-> 1, duration |-> 2], b |-> [track |-> 3, start |-> 1, duration |-> 2]],
   tracks |-> [p |-> <<1, 2>>, q |-> <<3, 4>>]]

Start == Timed("p", "a", "start", <<1, 2>>)
Duration == Timed("p", "a", "duration", <<2, 1>>)
StartB == Timed("q", "b", "start", <<1, 2>>)
Order == Ordered("q", 4, <<0, 3>>)
OrderNew == Ordered("p", 2, <<NoMove, 0>>)

Resized == Scene(<<"p">>, [c |-> Start, d |-> Duration], {<<"c", "d">>}, Amounts(0, 0, 0, 1, 1, 2))
Apart == Scene(<<"p">>, [c |-> Start, d |-> Duration], {<<"c">>, <<"d">>}, Amounts(1, 0, 1, 0, 0, 1))
TwoClips == Scene(<<"p", "q">>, [c |-> Start, d |-> StartB], {<<"c">>, <<"d">>}, Amounts(0, 1, 0, 0, 1, 2))
Orders2 == Scene(<<"p", "q">>, [c |-> Order, d |-> OrderNew], {<<"c">>, <<"d">>}, Amounts(1, 1, 1, 0, 1, 1))
OrderTwice == Scene(<<"p", "q">>, [c |-> Order, d |-> Ordered("q", 3, <<4, 0>>)], {<<"c">>, <<"d">>}, Amounts(0, 1, 0, 1, 0, 2))
Gone == Scene(<<"p", "q">>, [c |-> Deleted("q", "b", 3), d |-> Missing("p", "a", "r")], {<<"c">>, <<"d">>}, Amounts(0, 1, 1, 0, 0, 2))
GoneTimed == Scene(<<"p", "q">>, [c |-> Deleted("q", "b", 3), d |-> StartB], {<<"c">>, <<"d">>}, Amounts(0, 1, 0, 1, 0, 2))
Synced == [TwoClips EXCEPT !.left.syncs = 1]
AllScenes == {Resized, Apart, Synced, Orders2, OrderTwice, Gone, GoneTimed}
=============================================================================
