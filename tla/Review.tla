------------------------------- MODULE Review -------------------------------
(***************************************************************************)
(* Review of conflicts: one peer's root and the page that shows it          *)
(* (src/video-editor/models: AppRoot, ReviewItem, ReviewSession, the review *)
(* actions of Project, Clip and Resource; dkt/review; components/review).    *)
(*                                                                         *)
(* The replication layer, which is not under src/, finds the conflicts, and *)
(* tells the root of every change of their status.  The root keeps a review *)
(* item per conflict, with a preview made from the graph of that moment, and *)
(* files it under a project.  The page shows one item of the active project  *)
(* and offers decisions; a decision writes the preview's data to the graph   *)
(* and has the conflict resolved, which comes back as a change of status.    *)
(*                                                                         *)
(* What every conflict is about is part of the scene.  A clip's start and    *)
(* duration stand for its five timing fields.  That the replication layer    *)
(* may refuse a decision, with all its writes, is a step that changes        *)
(* nothing.  Titles, labels and what an activity summary says are left out.    *)
(***************************************************************************)
EXTENDS Integers, SequencesExt, FiniteSetsExt

CONSTANTS
  Projects, Clips, Resources, Conflicts,
  MaxTracks,   \* bounds the tracks that are ever made
  MaxTime,     \* bounds the times a user types
  Scenes       \* the graph, the conflicts and their groups, and how much may happen

Kinds == {"clip_timing", "track_order", "delete_vs_edit", "dangling_resource"}
Fields == {"start", "duration"}

(* No track is in two places. *)
GraphAssumed(s) ==
  /\ s.clips \in [Clips -> [track : 0..MaxTracks, start : Int, duration : Int]]
  /\ s.tracks \in [Projects -> Seq(1..MaxTracks)] /\ \A p \in Projects : IsInjective(s.tracks[p])
  /\ \A p, q \in Projects : p # q => Range(s.tracks[p]) \cap Range(s.tracks[q]) = {}

(* A conflict is about a clip, or the order of the tracks, of its project. *)
ConflictAssumed(s, a) ==
  /\ a.kind \in Kinds /\ a.project \in Range(s.projects) /\ a.alts \in Seq(Int)
  /\ a.kind \in {"clip_timing", "track_order"} => Len(a.alts) = 2
  /\ a.kind = "clip_timing" => a.field \in Fields
  /\ a.kind # "track_order" => a.clip \in Clips /\ s.clips[a.clip].track \in Range(s.tracks[a.project])

(* What is reported at once is of one project, and each of another value. *)
GroupAssumed(s, g) ==
  /\ IsInjective(g)
  /\ \A i, j \in DOMAIN g :
       LET a == s.conflict[g[i]]  b == s.conflict[g[j]]
       IN /\ a.project = b.project
          /\ i # j => <<a.kind, a.clip, a.field>> # <<b.kind, b.clip, b.field>>

ASSUME ReviewAssumption ==
  /\ MaxTracks \in Nat /\ MaxTime \in Nat \ {0} /\ IsFiniteSet(Conflicts) /\ Projects \cap Clips = {}
  /\ \A s \in Scenes :
       /\ s.projects \in Seq(Projects) /\ s.projects # <<>> /\ IsInjective(s.projects)
       /\ \A x \in DOMAIN s.left : s.left[x] \in Nat
       /\ GraphAssumed(s) /\ \A c \in DOMAIN s.conflict : ConflictAssumed(s, s.conflict[c])
       /\ DOMAIN s.conflict \subseteq Conflicts /\ s.groups \subseteq Seq(DOMAIN s.conflict)
       /\ UNION {Range(g) : g \in s.groups} = DOMAIN s.conflict /\ \A g \in s.groups : GroupAssumed(s, g)

VARIABLES
  scene,     \* never changes
  graph,     \* clips, tracks, resources, and what decisions made
  kernel,    \* the status of each conflict, as the replication layer has it
  feed,      \* its reports that the root has not handled
  items,     \* the review items, in the order they were made
  sessions,  \* the review sessions, likewise
  page,      \* what the page shows
  left       \* edits, switches, remote decisions, repeated reports, syncs, drafts and decisions that may still come

reviewVars == <<scene, graph, kernel, feed, items, sessions, page, left>>

None == "none"
First == 0      \* the place of a track that comes after no other
NoMove == -1    \* a conflict of moves that has no current one
Known == DOMAIN scene.conflict
About(c) == scene.conflict[c]
Timing(clip) == [start |-> clip.start, duration |-> clip.duration]
NoTiming == [start |-> 0, duration |-> 0]

(* The elements of a sequence at these indices, in their order: what filter returns. *)
Only(seq, indices) ==
  [k \in 1..Cardinality(indices) |-> seq[CHOOSE i \in indices : Cardinality({j \in indices : j <= i}) = k]]

(***************************************************************************)
(* From a conflict to a review item: augmentReviewConflict, the registry of  *)
(* features and their materializers.                                        *)
(***************************************************************************)
Kind(c) == IF About(c).kind = "track_order" /\ About(c).alts[1] = NoMove THEN "unknown" ELSE About(c).kind

(* The first alternative the clip does not have now, else the second *)
Incoming(g, c) ==
  LET now == Timing(g.clips[About(c).clip])
      alts == About(c).alts
      other == Only(alts, {i \in DOMAIN alts : alts[i] # now[About(c).field]})
  IN [now EXCEPT ![About(c).field] = IF other # <<>> THEN other[1] ELSE alts[2]]

Moved(order, track, after) ==
  LET rest == Only(order, {i \in DOMAIN order : order[i] # track})
      at == IF after = First THEN 0
            ELSE IF Contains(rest, after) THEN CHOOSE i \in DOMAIN rest : rest[i] = after ELSE Len(rest)
  IN IF Contains(order, track) THEN InsertAt(rest, at + 1, track) ELSE order

NoPreview == [current |-> NoTiming, incoming |-> NoTiming, currentOrder |-> <<>>, incomingOrder |-> <<>>, manualOrder |-> <<>>]
TimingPreview(g, c) == [NoPreview EXCEPT !.current = Timing(g.clips[About(c).clip]), !.incoming = Incoming(g, c)]

(* The two orders of a conflict of moves: each move is applied to the order the project has now. *)
Orders(g, c) ==
  LET a == About(c)
  IN [i \in {1, 2} |-> Moved(g.tracks[a.project], a.track, a.alts[i])]
OrderPreview(g, c) == [NoPreview EXCEPT !.currentOrder = Orders(g, c)[1], !.incomingOrder = Orders(g, c)[2]]

Augmented(g, c) ==
  CASE Kind(c) = "clip_timing" -> TimingPreview(g, c)
    [] Kind(c) = "track_order" -> OrderPreview(g, c)
    [] OTHER -> NoPreview

Item(g, c, status, project) ==
  [conflict |-> c, project |-> project, kind |-> Kind(c), status |-> status, preview |-> Augmented(g, c)]

(* The project of a report: the first that has one of the conflicts' objects, else the first of all.  *)
(* A clip that is on no track is in no project.                                                     *)
(* That the code also looks for the lost resource of a clip among each project's resources is left   *)
(* out: the scenes keep no such list, and a clip uses resources of its own project.                  *)
Nodes(c) == IF About(c).kind = "track_order" THEN {About(c).project} ELSE {About(c).clip}
Holds(g, p, node) == node = p \/ (node \in DOMAIN g.clips /\ Contains(g.tracks[p], g.clips[node].track))

(* Mutant of ProjectHint: the root's first project, whatever the conflict is about. *)
ProjectHintRoot(g, cs) == scene.projects[1]

ProjectHint(g, cs) ==
  LET holding == {i \in DOMAIN scene.projects : \E c \in cs : \E n \in Nodes(c) : Holds(g, scene.projects[i], n)}
  IN scene.projects[IF holding # {} THEN Min(holding) ELSE 1]

(***************************************************************************)
(* handleCRDTConflict: the items there are take the new status and preview,  *)
(* others are made; a report that makes items makes a session for them, which *)
(* is linked to the first.                                                   *)
(***************************************************************************)
Has(its, c) == \E i \in DOMAIN its : its[i].conflict = c
ItemOf(its, c) == its[CHOOSE i \in DOMAIN its : its[i].conflict = c]

(* Mutant of Updated: the items there are keep the status they have. *)
UpdatedPreviewOnly(its, new) ==
  [i \in DOMAIN its |-> IF Has(new, its[i].conflict) THEN [ItemOf(new, its[i].conflict) EXCEPT !.status = its[i].status] ELSE its[i]]

Updated(its, new) == [i \in DOMAIN its |-> IF Has(new, its[i].conflict) THEN ItemOf(new, its[i].conflict) ELSE its[i]]

Created(its, new) == Only(new, {i \in DOMAIN new : ~Has(its, new[i].conflict)})

(* Every conflict of a report gets its preview from the one graph of that moment. *)
Reported(g, report, project) ==
  [i \in DOMAIN report |-> Item(g, report[i].conflict, report[i].status, project)]

SessionFor(new) == [project |-> new[1].project, selected |-> new[1].conflict, linked |-> None]
Linked(session, created) == [session EXCEPT !.linked = created[1].conflict]

(* A summary of what was synced has a session too, without items. *)
SummarySession(project) == [project |-> project, selected |-> None, linked |-> None]

OpenItems(its) == {c \in Known : Has(its, c) /\ ItemOf(its, c).status = "open"}
OpenItemCount(s, its) == IF s.linked \in OpenItems(its) THEN 1 ELSE 0

(***************************************************************************)
(* The page: ProjectReviewMode with its two effects, ReviewPanel, and the    *)
(* inspector, whose draft lives as long as an item of the same kind is shown. *)
(***************************************************************************)
NoPane == [kind |-> None, draft |-> NoTiming, order |-> <<>>]
Shown(its, project) == Only(its, {i \in DOMAIN its : its[i].project = project})
Selected(p, its) ==
  LET shown == Shown(its, p.project)
      found == Only(shown, {i \in DOMAIN shown : shown[i].conflict = p.selected})
  IN IF found # <<>> THEN found ELSE shown

Mounted(p, its) ==
  LET sel == Selected(p, its)
  IN IF ~p.open \/ sel = <<>> THEN [p EXCEPT !.pane = NoPane]
     ELSE IF p.pane.kind = sel[1].kind THEN p
     ELSE LET now == sel[1].preview
          IN [p EXCEPT !.pane = [kind |-> sel[1].kind, draft |-> now.current,
                                 order |-> IF now.manualOrder # <<>> THEN now.manualOrder ELSE now.currentOrder]]

Session(its, ses, project) ==
  LET own == Only(ses, {i \in DOMAIN ses : ses[i].project = project})
      busy == Only(own, {i \in DOMAIN own : OpenItemCount(own[i], its) > 0})
  IN IF busy # <<>> THEN <<busy[1]>> ELSE IF own # <<>> THEN <<own[1]>> ELSE <<>>

OpenCount(its, project) == Cardinality({i \in DOMAIN its : its[i].project = project /\ its[i].status = "open"})

(* What the effects depend on *)
Seen(p, its, ses) ==
  LET s == Session(its, ses, p.project)
  IN [count |-> OpenCount(its, p.project), items |-> Shown(its, p.project), selected |-> IF s = <<>> THEN None ELSE s[1].selected]

Reselected(p, now) ==
  [p EXCEPT !.selected = IF now.selected # None THEN now.selected ELSE IF now.items # <<>> THEN now.items[1].conflict ELSE None]

(* The page is first drawn with the selection it has; then the effects run whose inputs have changed. *)
Rendered(p, its, ses, was) ==
  LET now == Seen(p, its, ses)
      drawn == Mounted(p, its)
      opened == [drawn EXCEPT !.open = @ \/ (now.count > 0 /\ now.count # was.count)]
  IN Mounted(IF <<now.items, now.selected>> # <<was.items, was.selected>> THEN Reselected(opened, now) ELSE opened, its)

(***************************************************************************)
(* What a decision writes, and the conflicts it has resolved.               *)
(***************************************************************************)
ValidTiming(t) == t.start >= 0 /\ t.duration > 0

LastTrack(g) == Max({0} \cup UNION {Range(g.tracks[p]) : p \in DOMAIN g.tracks})
WithTrack(g, project) == [g EXCEPT !.tracks[project] = Append(@, 1 + LastTrack(g))]

(* Mutant of ParkTargets: only the item's own conflict is resolved. *)
ParkTargetsOwn(its, it) == {it.conflict}

(* matchingReviewDecisionInputs.  The group's id, which the page sends, is lost on the way. *)
ParkTargets(its, it) ==
  LET own == {c \in OpenItems(its) : /\ ItemOf(its, c).project = it.project /\ ItemOf(its, c).kind = "clip_timing"
                                     /\ About(c).clip = About(it.conflict).clip}
  IN IF own = {} THEN {it.conflict} ELSE own

(* Tracks made since the preview come last; an order that names a track the project does not have is refused. *)
CanOrder(g, project, order) == order # <<>> /\ IsInjective(order) /\ Range(order) \subseteq Range(g.tracks[project])
ApplyOrder(g, project, order) ==
  [g EXCEPT !.tracks[project] = order \o Only(@, {i \in DOMAIN @ : ~Contains(order, @[i])})]

(* A decision: the new graph and the conflicts to resolve, none when it does nothing *)
Nothing(g) == [graph |-> g, resolves |-> {}]
Resolving(g, it) == [graph |-> g, resolves |-> {it.conflict}]
WithTiming(g, clip, t) == [g EXCEPT !.clips[clip].start = t.start, !.clips[clip].duration = t.duration]

ResolveClipTiming(g, it, t) ==
  IF ValidTiming(t) THEN Resolving(WithTiming(g, About(it.conflict).clip, t), it) ELSE Nothing(g)

(* The clip takes the whole timing that was current when the preview was made. *)
ParkIncomingVariant(g, its, it) ==
  IF ValidTiming(it.preview.current) /\ ValidTiming(it.preview.incoming)
  THEN [graph |-> [WithTiming(WithTrack(g, it.project), About(it.conflict).clip, it.preview.current)
                   EXCEPT !.made[it.conflict] = @ + 1, !.reviewTrack[it.project] = TRUE],
        resolves |-> ParkTargets(its, it)]
  ELSE Nothing(g)

ResolveTrackOrder(g, it, order) ==
  IF CanOrder(g, it.project, order) THEN Resolving(ApplyOrder(g, it.project, order), it) ELSE Nothing(g)

RestoreVariant(g, it) == Resolving([g EXCEPT !.made[it.conflict] = @ + 1], it)

ParkEditedVariant(g, it) ==
  Resolving([IF g.reviewTrack[it.project] THEN g ELSE WithTrack(g, it.project)
             EXCEPT !.made[it.conflict] = @ + 1, !.reviewTrack[it.project] = TRUE], it)

ArchiveIncomingEdit(g, it) == Resolving([g EXCEPT !.archived[it.conflict] = @ + 1], it)
RelinkResource(g, it) == Resolving([g EXCEPT !.media[About(it.conflict).resource] = "ready"], it)
KeepOfflinePlaceholder(g, it) == Resolving([g EXCEPT !.media[About(it.conflict).resource] = "offline"], it)

(***************************************************************************)
(* The behaviour.                                                          *)
(***************************************************************************)
Init ==
  /\ scene \in Scenes
  /\ graph = [clips |-> scene.clips, tracks |-> scene.tracks, media |-> [r \in Resources |-> "ready"],
              reviewTrack |-> [p \in Projects |-> FALSE],
              made |-> [c \in Conflicts |-> 0], archived |-> [c \in Conflicts |-> 0]]
  /\ kernel = [c \in Conflicts |-> None]
  /\ feed = <<>> /\ items = <<>> /\ sessions = <<>>
  /\ page = [project |-> scene.projects[1], open |-> FALSE, selected |-> None, pane |-> NoPane]
  /\ left = scene.left

Spend(what) == left[what] > 0 /\ left' = [left EXCEPT ![what] = @ - 1]
Report(cs, status) == Append(feed, [i \in DOMAIN cs |-> [conflict |-> cs[i], status |-> status]])

(* What the replication layer keeps of the writes that conflict: one value, one move, the deletion. *)
Won(group, kind) == {c \in Range(group) : About(c).kind = kind}
WonValue(group, clip, field, now) ==
  LET won == {c \in Won(group, "clip_timing") : About(c).clip = clip /\ About(c).field = field}
  IN IF won = {} THEN now ELSE About(CHOOSE c \in won : TRUE).alts[1]
WonOrder(group, p, now) ==
  LET won == {c \in Won(group, "track_order") : About(c).project = p /\ About(c).alts[1] # NoMove}
      a == About(CHOOSE c \in won : TRUE)
  IN IF won = {} THEN now ELSE Moved(now, a.track, a.alts[1])

Winning(g, group) ==
  [g EXCEPT
    !.clips = [x \in DOMAIN @ |->
      [track |-> IF \E c \in Won(group, "delete_vs_edit") : About(c).clip = x THEN 0 ELSE @[x].track,
       start |-> WonValue(group, x, "start", @[x].start), duration |-> WonValue(group, x, "duration", @[x].duration)]],
    !.tracks = [p \in DOMAIN @ |-> WonOrder(group, p, @[p])],
    !.media = [r \in DOMAIN @ |->
      IF \E c \in Won(group, "dangling_resource") : About(c).resource = r THEN "removed" ELSE @[r]]]

Open(group) ==
  /\ \A i \in DOMAIN group : kernel[group[i]] = None
  /\ kernel' = [c \in Conflicts |-> IF Contains(group, c) THEN "open" ELSE kernel[c]]
  /\ graph' = Winning(graph, group)
  /\ feed' = Report(group, "open")
  /\ UNCHANGED <<scene, items, sessions, page, left>>

(* More of the same conflict: it is reported again. *)
Repeat(c) ==
  /\ kernel[c] \in {"open", "acknowledged"} /\ Spend("repeats")
  /\ feed' = Report(<<c>>, kernel[c])
  /\ UNCHANGED <<scene, graph, kernel, items, sessions, page>>

Handle ==
  /\ feed # <<>>
  /\ LET report == feed[1]
         project == ProjectHint(graph, {report[i].conflict : i \in DOMAIN report})
         new == Reported(graph, report, project)
         created == Created(items, new)
         its == Updated(items, new) \o created
         ses == IF created = <<>> THEN sessions ELSE Append(sessions, Linked(SessionFor(new), created))
     IN /\ items' = its /\ sessions' = ses
        /\ page' = Rendered(page, its, ses, Seen(page, items, sessions))
  /\ feed' = Tail(feed)
  /\ UNCHANGED <<scene, graph, kernel, left>>

(* handleCRDTSync: a session for the summary, of the root's first project *)
Sync ==
  /\ Spend("syncs")
  /\ LET ses == Append(sessions, SummarySession(scene.projects[1]))
     IN sessions' = ses /\ page' = Rendered(page, items, ses, Seen(page, items, sessions))
  /\ UNCHANGED <<scene, graph, kernel, feed, items>>

(* Edits of any peer, and of this one outside the review *)
Edit ==
  /\ Spend("edits")
  /\ \/ \E c \in DOMAIN graph.clips, field \in Fields, v \in 1..MaxTime :
          graph.clips[c].track # 0 /\ graph' = [graph EXCEPT !.clips[c][field] = v]
     \/ \E c \in DOMAIN graph.clips : graph' = [graph EXCEPT !.clips[c].track = 0]
     \/ \E p \in Range(scene.projects) : \E t \in Range(graph.tracks[p]) : graph' = [graph EXCEPT !.tracks[p] = Moved(@, t, First)]
     \/ \E p \in Range(scene.projects) :
          LastTrack(graph) < MaxTracks /\ graph' = WithTrack(graph, p)
  /\ UNCHANGED <<scene, kernel, feed, items, sessions, page>>

Decided(d) ==
  LET closing == {c \in d.resolves : kernel[c] # "resolved"}
  IN /\ d.resolves # {}
     /\ graph' = d.graph
     /\ UNION {Range(d.graph.tracks[p]) : p \in DOMAIN d.graph.tracks} \subseteq 1..MaxTracks
     /\ kernel' = [c \in Conflicts |-> IF c \in closing THEN "resolved" ELSE kernel[c]]
     /\ feed' = IF closing = {} THEN feed ELSE Report(SetToSeq(closing), "resolved")

(* The inspectors, with the drafts there are *)
TimingInspector(its, it, drafts) ==
  /\ it.status # "resolved"
  /\ \/ \E t \in {it.preview.current, it.preview.incoming} \cup drafts : Decided(ResolveClipTiming(graph, it, t))
     \/ its # <<>> /\ Decided(ParkIncomingVariant(graph, its, it))

OrderInspector(it, drafts) ==
  \E o \in {it.preview.currentOrder, it.preview.incomingOrder} \cup drafts : Decided(ResolveTrackOrder(graph, it, o))

DeleteInspector(it) ==
  \E d \in {RestoreVariant(graph, it), ParkEditedVariant(graph, it), ArchiveIncomingEdit(graph, it)} : Decided(d)

DanglingInspector(it) == \E d \in {RelinkResource(graph, it), KeepOfflinePlaceholder(graph, it)} : Decided(d)

DecisionOn(its, it, drafts, orders) ==
  \/ it.kind = "clip_timing" /\ TimingInspector(its, it, drafts)
  \/ it.kind = "track_order" /\ OrderInspector(it, orders)
  \/ it.kind = "delete_vs_edit" /\ DeleteInspector(it)
  \/ it.kind = "dangling_resource" /\ DanglingInspector(it)

(* The inspector's buttons; only for a timing conflict are they hidden once it is resolved. *)
Decide ==
  /\ page.pane.kind # None /\ Spend("decisions")
  /\ DecisionOn(items, Selected(page, items)[1], {page.pane.draft}, {page.pane.order})
  /\ UNCHANGED <<scene, items, sessions, page>>

(* Another peer decides, by a preview of its own. *)
RemoteDecide(c) ==
  /\ kernel[c] \in {"open", "acknowledged"} /\ Spend("remote")
  /\ DecisionOn(<<>>, Item(graph, c, kernel[c], ProjectHint(graph, {c})), {}, {})
  /\ UNCHANGED <<scene, items, sessions, page>>

Acknowledge ==
  /\ page.pane.kind # None
  /\ LET it == Selected(page, items)[1]
     IN /\ it.status = "open" /\ kernel[it.conflict] = "open"
        /\ kernel' = [kernel EXCEPT ![it.conflict] = "acknowledged"]
        /\ feed' = Report(<<it.conflict>>, "acknowledged")
  /\ UNCHANGED <<scene, graph, items, sessions, page, left>>

(* createManualTrackOrderSuggestion: kept with the item, whose preview the page sent along *)
SuggestOrder ==
  /\ page.pane.kind = "track_order"
  /\ LET it == Selected(page, items)[1]
         its == [i \in DOMAIN items |-> IF items[i].conflict = it.conflict THEN [it EXCEPT !.preview.manualOrder = page.pane.order] ELSE items[i]]
     IN /\ Range(page.pane.order) = Range(it.preview.currentOrder)
        /\ Len(page.pane.order) = Len(it.preview.currentOrder)
        /\ items' = its
        /\ page' = Rendered(page, its, sessions, Seen(page, items, sessions))
  /\ UNCHANGED <<scene, graph, kernel, feed, sessions, left>>

EditDraft ==
  /\ page.pane.kind \in {"clip_timing", "track_order"} /\ Spend("drafts")
  /\ \/ \E field \in Fields, v \in 0..MaxTime :
          /\ page.pane.kind = "clip_timing" /\ Selected(page, items)[1].status # "resolved"
          /\ page' = [page EXCEPT !.pane.draft[field] = v]
     \/ \E i \in 1..(Len(page.pane.order) - 1) :
          page.pane.kind = "track_order" /\ page' = [page EXCEPT !.pane.order[i] = page.pane.order[i + 1], !.pane.order[i + 1] = page.pane.order[i]]
  /\ UNCHANGED <<scene, graph, kernel, feed, items, sessions>>

(* A click on an item, the button that opens the drawer, and the one that closes it *)
Select(c) ==
  /\ page.open /\ Has(Shown(items, page.project), c)
  /\ page' = Mounted([page EXCEPT !.selected = c], items)
  /\ UNCHANGED <<scene, graph, kernel, feed, items, sessions, left>>

Toggle ==
  /\ Shown(items, page.project) # <<>>
  /\ page' = Mounted([page EXCEPT !.open = ~@], items)
  /\ UNCHANGED <<scene, graph, kernel, feed, items, sessions, left>>

SwitchProject(p) ==
  /\ p # page.project /\ Spend("switches")
  /\ page' = Rendered([page EXCEPT !.project = p], items, sessions, Seen(page, items, sessions))
  /\ UNCHANGED <<scene, graph, kernel, feed, items, sessions>>

Next ==
  \/ \E group \in scene.groups : Open(group)
  \/ \E c \in Known : Repeat(c) \/ RemoteDecide(c) \/ Select(c)
  \/ Handle \/ Sync \/ Edit \/ Decide \/ Acknowledge \/ SuggestOrder \/ EditDraft \/ Toggle
  \/ \E p \in Range(scene.projects) : SwitchProject(p)

Spec == Init /\ [][Next]_reviewVars

(***************************************************************************)
(* Properties.                                                             *)
(***************************************************************************)
(* When every report has been handled, each conflict has one review item, with the status the     *)
(* replication layer has for it, whoever decided and however often it was reported.               *)
ItemsInStep ==
  feed = <<>> => \A c \in Known : LET of == {i \in DOMAIN items : items[i].conflict = c}
                                 IN /\ Cardinality(of) = (IF kernel[c] = None THEN 0 ELSE 1)
                                    /\ \A i \in of : items[i].status = kernel[c]

(* An order that an item offers can be applied, however old the offer: it names only tracks of the *)
(* project the decision is sent to.                                                               *)
OrderOffersApply ==
  \A i \in DOMAIN items : LET it == items[i]
                          IN \A o \in {it.preview.currentOrder, it.preview.incomingOrder, it.preview.manualOrder} :
                               it.kind = "track_order" /\ o # <<>> => CanOrder(graph, it.project, o)

(* Parking the incoming variant settles the clip: no other timing conflict of it, which the same   *)
(* project still shows as open, is left for a second decision.                                    *)
ParkClosesGroup ==
  [][\A c \in Known : About(c).kind = "clip_timing" /\ graph'.made[c] > graph.made[c]
       => \A d \in OpenItems(items) :
            /\ About(d).kind = "clip_timing" /\ About(d).clip = About(c).clip
            /\ ItemOf(items, d).project = ItemOf(items, c).project
            => kernel'[d] = "resolved"]_reviewVars

=============================================================================
