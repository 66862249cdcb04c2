------------------------------- MODULE Timeline -------------------------------
(***************************************************************************)
(* The project graph of a worker and the commands by which the tabs edit it *)
(* (src/video-editor/models: Project, Track, Clip, Text, Effect, Resource   *)
(* and SessionRoot; components/ClipItem.tsx for the drag of a clip;         *)
(* dkt/review/features/clipTiming for a clip parked by a review).           *)
(*                                                                         *)
(* The worker runs one command at a time, but a tab addresses nodes it saw  *)
(* earlier: a command may name a clip that has meanwhile been deleted, cut  *)
(* or moved by another tab, and a drag is a sequence of commands that ends  *)
(* by writing back what the tab saw when it began.                          *)
(*                                                                         *)
(* A node is its index in its kind's sequence; nodes are never destroyed.   *)
(* Times are counted in half tenths of a second, so that the code's         *)
(* rounding to tenths is visible; cuts less than half a tenth from the      *)
(* start of a clip are left out.  A clip's name, colour, audio, opacity and *)
(* transform, which are only ever written together or alone, are one look.  *)
(***************************************************************************)
EXTENDS Integers, FiniteSets, SequencesExt

CONSTANTS
  Tabs,         \* the tabs
  Files,        \* what can be imported: kind and duration
  Moments,      \* the times a cursor or pointer may be at
  Deltas,       \* the distances clips are moved and trimmed by
  MinDuration,  \* 0.5 s in the code
  MaxDuration,  \* 120 s in the code
  TextDuration, \* 3 s in the code
  Looks,
  Scenes        \* the projects considered and what is done to them

(***************************************************************************)
(* The nodes of a graph.                                                   *)
(***************************************************************************)
None == 0  \* no node

ProjectNodes == [tracks : Seq(Nat), resources : Seq(Nat), video : Nat, audio : Nat]
TrackNodes == [project : Nat, kind : {"video", "audio"}, role : {"normal", "incomingReview", "currentReview"},
               enabled : BOOLEAN, clips : Seq(Nat)]
ClipNodes == [track : Nat, resource : Nat, text : Nat, kind : {"video", "audio", "image", "text"}, start : Int, in : Int,
              duration : Int, fadeIn : Int, fadeOut : Int, effects : Seq(Nat), look : Looks]
TextNodes == [clip : Nat, content : Looks]
ResourceNodes == [project : Nat, kind : {"video", "audio", "image"}, duration : Nat \ {0}]

Graphs == [projects : Seq(ProjectNodes), tracks : Seq(TrackNodes), clips : Seq(ClipNodes),
           texts : Seq(TextNodes), effects : Seq(Nat), resources : Seq(ResourceNodes)]

EmptyGraph == [projects |-> <<>>, tracks |-> <<>>, clips |-> <<>>, texts |-> <<>>, effects |-> <<>>, resources |-> <<>>]

TracksOf(g, p) == ToSet(g.projects[p].tracks)
ClipsOn(g, t) == ToSet(g.tracks[t].clips)
ClipsIn(g, p) == UNION {ClipsOn(g, t) : t \in TracksOf(g, p)}
MediaOf(g, p) == ToSet(g.projects[p].resources)
Refs(nodes) == DOMAIN nodes \cup {None}

(***************************************************************************)
(* The relations of a graph.  A clip refers to nodes there are.  A project  *)
(* has two primary tracks; a track is in the list of its project once and   *)
(* in no other, a clip in that of its track; a clip on a track shows a      *)
(* resource of the same project; a text and an effect belong to the one     *)
(* clip that has them.                                                     *)
(***************************************************************************)
NodesExist(g) ==
  \A c \in DOMAIN g.clips : g.clips[c].resource \in Refs(g.resources) /\ g.clips[c].text \in Refs(g.texts)

PrimaryTracks(g) == \A p \in DOMAIN g.projects : {g.projects[p].video, g.projects[p].audio} \subseteq TracksOf(g, p)

TracksMirror(g) ==
  /\ \A t \in DOMAIN g.tracks : g.tracks[t].project \in DOMAIN g.projects
  /\ \A p \in DOMAIN g.projects :
       IsInjective(g.projects[p].tracks) /\ TracksOf(g, p) = {t \in DOMAIN g.tracks : g.tracks[t].project = p}

ClipsMirror(g) ==
  /\ \A c \in DOMAIN g.clips : g.clips[c].track \in Refs(g.tracks)
  /\ \A t \in DOMAIN g.tracks :
       IsInjective(g.tracks[t].clips) /\ ClipsOn(g, t) = {c \in DOMAIN g.clips : g.clips[c].track = t}

MediaMirror(g) ==
  /\ \A p \in DOMAIN g.projects : MediaOf(g, p) \subseteq DOMAIN g.resources
  /\ \A c \in DOMAIN g.clips : g.clips[c].track # None =>
       g.clips[c].resource \in MediaOf(g, g.tracks[g.clips[c].track].project) \cup {None}

TextsMirror(g) == \A x \in DOMAIN g.texts : {c \in DOMAIN g.clips : g.clips[c].text = x} = {g.texts[x].clip}

EffectsMirror(g) ==
  \A c \in DOMAIN g.clips : \A e \in ToSet(g.clips[c].effects) : e \in DOMAIN g.effects /\ g.effects[e] = c

(***************************************************************************)
(* A scene: the graph it opens on, the commands used and a bound on their   *)
(* number, the tabs, whether they share the session root of their room (as  *)
(* they do unless each is given a crdtPeerId), and whether the store        *)
(* rejects changes that the clip timing aggregate finds invalid.            *)
(***************************************************************************)
ASSUME TimelineAssumption ==
  /\ \A f \in Files : f.kind \in {"video", "audio", "image"} /\ f.duration \in Nat \ {0}
  /\ Moments \subseteq Int /\ Deltas \subseteq Int \ {0} /\ "plain" \in Looks
  /\ {MinDuration, MaxDuration, TextDuration} \subseteq Nat \ {0}
  /\ \A s \in Scenes : s.tabs \subseteq Tabs /\ {s.shared, s.strict} \subseteq BOOLEAN /\ s.limit \in Nat
  /\ \A s \in Scenes : LET g == s.graph IN
       /\ g \in Graphs /\ (g # EmptyGraph => g.projects # <<>>)
       /\ NodesExist(g) /\ PrimaryTracks(g) /\ TracksMirror(g) /\ ClipsMirror(g) /\ MediaMirror(g) /\ TextsMirror(g) /\ EffectsMirror(g)

VARIABLES
  scene,    \* never changes
  graph,    \* projects, tracks, clips, texts, effects and resources
  session,  \* the session root each tab has, and the drag in progress there
  done      \* the number of commands so far

timelineVars == <<scene, graph, session, done>>

(* Math.round(value * 10) / 10 *)
Round(x) == 2 * ((x + 1) \div 2)
Clamp(v, low, high) == Min({high, Max({low, v})})

(***************************************************************************)
(* Nodes.                                                                  *)
(***************************************************************************)
NewTrack(kind, role) == [project |-> None, kind |-> kind, role |-> role, enabled |-> role = "normal", clips |-> <<>>]

NewClip(track, resource, kind, start, duration) ==
  [track |-> track, resource |-> resource, text |-> None, kind |-> kind, start |-> start,
   in |-> 0, duration |-> duration, fadeIn |-> 0, fadeOut |-> 0, effects |-> <<>>, look |-> "plain"]

InitSession == [project |-> None, selected |-> None, cursor |-> 0, playing |-> FALSE, drag |-> <<>>]

(* The elements of a sequence at these indices, in their order: what filter returns. *)
Only(seq, indices) ==
  [k \in 1..Cardinality(indices) |-> seq[CHOOSE i \in indices : Cardinality({j \in indices : j <= i}) = k]]
Except(seq, x) == Only(seq, {i \in DOMAIN seq : seq[i] # x})

End(x) == x.start + x.duration
(* appendStart of a track *)
AppendStart(g, t) == Max({0} \cup {End(g.clips[c]) : c \in ClipsOn(g, t)})

(***************************************************************************)
(* What the actions of the models do to a graph.                           *)
(***************************************************************************)
(* addTrack and its second step, which gives every track of the project the project. *)
AddTrackTo(g, p, kind, role) ==
  LET t == Len(g.tracks) + 1
      tracks == Append(g.projects[p].tracks, t)
      Node(u) == IF u = t THEN NewTrack(kind, role) ELSE g.tracks[u]
  IN [g EXCEPT !.tracks = [u \in 1..t |-> IF u \in ToSet(tracks) THEN [Node(u) EXCEPT !.project = p] ELSE Node(u)],
               !.projects[p].tracks = tracks]

(* createProject, then handleInit of the new project: its two primary tracks. *)
CreateProjectIn(g) ==
  LET p == Len(g.projects) + 1
      t == Len(g.tracks) + 1
      empty == [g EXCEPT !.projects = Append(@, [tracks |-> <<>>, resources |-> <<>>, video |-> t, audio |-> t + 1])]
  IN AddTrackTo(AddTrackTo(empty, p, "video", "normal"), p, "audio", "normal")

ImportInto(g, p, f) ==
  [g EXCEPT !.resources = Append(@, [project |-> p, kind |-> f.kind, duration |-> f.duration]),
            !.projects[p].resources = Append(@, Len(g.resources) + 1)]

AddClip(g, x) ==
  [g EXCEPT !.clips = Append(@, x), !.tracks[x.track].clips = Append(@, Len(g.clips) + 1)]

(* A new text node and the newest clip refer to each other. *)
LinkText(g, content) ==
  [g EXCEPT !.texts = Append(@, [clip |-> Len(g.clips), content |-> content]),
            !.clips[Len(g.clips)].text = Len(g.texts) + 1]

AddTextClip(g, p) ==
  LET track == g.projects[p].video
  IN LinkText(AddClip(g, NewClip(track, None, "text", 0, TextDuration)), "plain")

(* Mutant of AppendResource: only the video track is asked where it ends. *)
AppendResourceAfterVideo(g, p, r) ==
  LET file == g.resources[r]
      video == g.projects[p].video
      audio == g.projects[p].audio
      Clip(track, kind) == NewClip(track, r, kind, AppendStart(g, track), file.duration)
  IN CASE file.kind = "audio" -> AddClip(g, Clip(audio, "audio"))
       [] file.kind = "image" -> AddClip(g, Clip(video, "image"))
       [] file.kind = "video" -> AddClip(AddClip(g, Clip(video, "video")), Clip(audio, "audio"))

(* reduceAddResourceToTimeline: a video brings its embedded audio. *)
AppendResource(g, p, r) ==
  LET file == g.resources[r]
      video == g.projects[p].video
      audio == g.projects[p].audio
      both == Max({AppendStart(g, video), AppendStart(g, audio)})
      Clip(track, kind, start) == NewClip(track, r, kind, start, file.duration)
  IN CASE file.kind = "audio" -> AddClip(g, Clip(audio, "audio", AppendStart(g, audio)))
       [] file.kind = "image" -> AddClip(g, Clip(video, "image", both))
       [] file.kind = "video" -> AddClip(AddClip(g, Clip(video, "video", both)), Clip(audio, "audio", both))

(* reduceAddEmbeddedAudio: once per resource on the primary audio track. *)
EmbedAudio(g, p, r) ==
  LET audio == g.projects[p].audio
  IN IF g.resources[r].kind # "video" \/ \E c \in ClipsOn(g, audio) : g.clips[c].resource = r THEN g
     ELSE AddClip(g, NewClip(audio, r, "audio", AppendStart(g, audio), g.resources[r].duration))

Without(g, tracks, c) ==
  [g EXCEPT !.tracks = [t \in DOMAIN g.tracks |-> IF t \in tracks THEN [g.tracks[t] EXCEPT !.clips = Except(@, c)]
                                                 ELSE g.tracks[t]]]

(* acceptClipIfTarget *)
Accept(g, t, c) ==
  IF c \in ClipsOn(g, t) THEN g ELSE [g EXCEPT !.clips[c].track = t, !.tracks[t].clips = Append(@, c)]

(* Mutant of MoveToTrack: the clip stays in its old list. *)
MoveToTrackKeepingList(g, p, c, t) == Accept([g EXCEPT !.clips[c].track = t], t, c)

(* moveClipToTrack: the reference, the old list, the new list. *)
MoveToTrack(g, p, c, t) ==
  LET aimed == Without([g EXCEPT !.clips[c].track = t], TracksOf(g, p), c)
  IN IF t \in TracksOf(g, p) THEN Accept(aimed, t, c) ELSE aimed

(* removeSelf *)
RemoveClip(g, c) ==
  LET t == g.clips[c].track
  IN [(IF t = None THEN g ELSE Without(g, {t}, c)) EXCEPT !.clips[c].track = None]

(* Mutant of Split: the right part starts at the beginning of the media again. *)
SplitUnshifted(g, c, time) ==
  LET x == g.clips[c]
      left == Round(time - x.start)
      cut == Round(x.start + left)
      right == [x EXCEPT !.start = cut, !.duration = End(x) - cut, !.text = None]
  IN IF ~(x.start < time /\ time < cut /\ cut < End(x)) THEN g
     ELSE AddClip([g EXCEPT !.clips[c].duration = left], right)

(* The right part of a clip that is cut: normalizeRightSplitClipAttrs takes *)
(* neither the effects nor the fade-in along.                               *)
RightPart(x, cut) ==
  [x EXCEPT !.start = cut, !.in = @ + (cut - x.start), !.duration = End(x) - cut,
            !.fadeIn = 0, !.effects = <<>>, !.text = None]

(* reduceSplitClipAt: a new clip on the track, with a copy of the text *)
CutTo(g, part, text) ==
  LET cut == AddClip(g, part)
  IN IF text = None THEN cut ELSE LinkText(cut, g.texts[text].content)

(***************************************************************************)
(* splitSelfAt: the clip is shortened to the left part, then splitClipAt of *)
(* its track makes the right part.  A clip of no track, or a cut that falls *)
(* on the end after rounding, leaves the left part only.                    *)
(***************************************************************************)
Split(g, c, time) ==
  LET x == g.clips[c]
      left == Round(time - x.start)
      cut == Round(x.start + left)
      shortened == [g EXCEPT !.clips[c].duration = left]
  IN IF ~(x.start < time /\ time < End(x)) THEN g
     ELSE IF x.track = None \/ ~(0 < left /\ left < x.duration) \/ ~(x.start < cut /\ cut < End(x)) THEN shortened
     ELSE CutTo(shortened, RightPart(x, cut), x.text)

(* reduceTimelineMoveByAction and getDktResizedClipAttrs *)
Moved(x, d) == [x EXCEPT !.start = Max({0, Round(@ + d)})]
Resized(x, edge, d) ==
  IF edge = "end" THEN [x EXCEPT !.duration = Clamp(Round(@ + d), MinDuration, MaxDuration)]
  ELSE LET start == Clamp(Round(x.start + d), Max({0, x.start - x.in}), End(x) - MinDuration)
       IN [x EXCEPT !.start = start, !.in = Round(@ + (start - x.start)), !.duration = Round(End(x) - start)]

Timing(x) == [start |-> x.start, in |-> x.in, duration |-> x.duration]
Retimed(x, t) == [x EXCEPT !.start = t.start, !.in = t.in, !.duration = t.duration]
FitsFades(t, fadeIn, fadeOut) == t.duration > 0 /\ fadeIn + fadeOut <= t.duration

(***************************************************************************)
(* Clips made by the resolution of a conflict: the edited variant of a      *)
(* deleted clip (its attributes and resource, as the review item has them), *)
(* restored on a track or parked on the review track, and the incoming      *)
(* timing of a clip, parked on a new review track with the clip's text and  *)
(* effects.                                                                *)
(***************************************************************************)
Variant(x, track) == [x EXCEPT !.track = track, !.text = None, !.effects = <<>>]

ReviewTracks(g, p, role) ==
  LET tracks == g.projects[p].tracks IN Only(tracks, {i \in DOMAIN tracks : g.tracks[tracks[i]].role = role})
ReviewKind(x) == IF x.kind = "audio" THEN "audio" ELSE "video"

ParkEdited(g, p, c) ==
  LET present == ReviewTracks(g, p, "incomingReview")
      g1 == IF present # <<>> THEN g ELSE AddTrackTo(g, p, ReviewKind(g.clips[c]), "incomingReview")
  IN AddClip(g1, Variant(g.clips[c], Head(ReviewTracks(g1, p, "incomingReview"))))

ParkIncoming(g, p, c, source, parked) ==
  LET g1 == AddTrackTo([g EXCEPT !.clips[c] = Retimed(@, source)], p, ReviewKind(g.clips[c]), "incomingReview")
  IN AddClip(g1, [Retimed(g.clips[c], parked) EXCEPT !.track = Len(g1.tracks)])

(***************************************************************************)
(* Commands.                                                               *)
(***************************************************************************)
(* validate of the clip timing aggregate *)
ValidTiming(g, x) ==
  x.start >= 0 /\ x.in >= 0 /\ x.duration > 0
  /\ (x.resource # None => x.in + x.duration <= g.resources[x.resource].duration)

Acceptable(g) ==
  \A c \in DOMAIN g.clips :
    (c \in DOMAIN graph.clips /\ Timing(graph.clips[c]) = Timing(g.clips[c])) \/ ValidTiming(g, g.clips[c])

Becomes(g) == graph' = IF scene.strict /\ ~Acceptable(g) THEN graph ELSE g

Run(command) ==
  /\ command \in scene.commands /\ done < scene.limit
  /\ done' = done + 1 /\ scene' = scene

(* A command addressed to a node of the graph. *)
Edit(command, g) == Run(command) /\ Becomes(g) /\ UNCHANGED session
(* A command to the session root of a tab. *)
Set(command, tab, s) ==
  /\ Run(command)
  /\ session' = [u \in Tabs |-> CASE u = tab -> s
                                 [] u # tab /\ scene.shared -> [s EXCEPT !.drag = session[u].drag]
                                 [] OTHER -> session[u]]

Clips == DOMAIN graph.clips
Projects == DOMAIN graph.projects
Removed == {c \in Clips : graph.clips[c].track = None}
(* What a tab or a review item knows of as deleted from a project *)
RemovedFrom(p) == {c \in Removed : graph.clips[c].resource \in MediaOf(graph, p) \cup {None}}
Active(tab) == session[tab].project
ResourcesOf(p) == IF p = None THEN {} ELSE MediaOf(graph, p)
Opened(s, p) == [s EXCEPT !.project = p, !.selected = None, !.cursor = 0]

(* selectedClip: the selected entity, while it is a clip of the active project *)
Selected(tab) ==
  IF Active(tab) # None /\ session[tab].selected \in ClipsIn(graph, Active(tab))
  THEN session[tab].selected ELSE None

(***************************************************************************)
(* SessionRoot.                                                            *)
(***************************************************************************)
HandleInit(tab) == \E ready \in BOOLEAN :
  LET create == Active(tab) = None /\ graph.projects = <<>> /\ ready
      s == session[tab]
      next == IF Active(tab) # None THEN s ELSE Opened(s, IF graph.projects # <<>> \/ create THEN 1 ELSE None)
  IN Set("handleInit", tab, next) /\ graph' = IF create THEN CreateProjectIn(graph) ELSE graph

CreateProject(tab) ==
  /\ Set("createProject", tab, Opened(session[tab], Len(graph.projects) + 1))
  /\ graph' = CreateProjectIn(graph)

SetActiveProject(tab, p) ==
  Set("setActiveProject", tab, Opened(session[tab], p)) /\ UNCHANGED graph

SelectEntity(tab, c) == Set("selectEntity", tab, [session[tab] EXCEPT !.selected = c]) /\ UNCHANGED graph

CursorAt(m) == Max({0, m})

SetCursor(tab, m) ==
  Set("setCursor", tab, [session[tab] EXCEPT !.cursor = CursorAt(m)]) /\ UNCHANGED graph

TogglePlayback(tab) ==
  Set("togglePlayback", tab, [session[tab] EXCEPT !.playing = ~@]) /\ UNCHANGED graph

TickPlayback(tab, m) ==
  /\ session[tab].playing /\ m > 0
  /\ Set("tickPlayback", tab, [session[tab] EXCEPT !.cursor = @ + m]) /\ UNCHANGED graph

DeleteSelected(tab) ==
  /\ Set("deleteSelectedClip", tab, [session[tab] EXCEPT !.selected = None])
  /\ Becomes(IF Selected(tab) = None THEN graph ELSE RemoveClip(graph, Selected(tab)))

NudgeSelected(tab, d) ==
  /\ Selected(tab) # None
  /\ Edit("nudgeSelectedClip", [graph EXCEPT !.clips[Selected(tab)] = Moved(@, d)])

SplitSelected(tab) ==
  /\ Selected(tab) # None
  /\ Edit("splitSelectedClip", Split(graph, Selected(tab), session[tab].cursor))

AddText(tab) ==
  /\ Active(tab) # None
  /\ Set("addTextClipToTimeline", tab, [session[tab] EXCEPT !.selected = None])
  /\ Becomes(AddTextClip(graph, Active(tab)))

ImportResource(tab, f) ==
  Active(tab) # None /\ Edit("importResource", ImportInto(graph, Active(tab), f))

AddToTimeline(tab, r) ==
  Edit("addResourceToTimeline", AppendResource(graph, Active(tab), r))

AddEmbeddedAudio(tab, r) ==
  Edit("addEmbeddedAudioToTimeline", EmbedAudio(graph, Active(tab), r))

(***************************************************************************)
(* Project and Track.                                                      *)
(***************************************************************************)
AddTrack(p, kind) == Edit("addTrack", AddTrackTo(graph, p, kind, "normal"))

CreateReviewTrack(p, role, kind) == Edit("createReviewTrack", AddTrackTo(graph, p, kind, role))

EnsureReviewTrack(p, role) ==
  ReviewTracks(graph, p, role) = <<>> /\ Edit("ensureReviewTrack", AddTrackTo(graph, p, "video", role))

SetTrackPreviewEnabled(t, on) ==
  Edit("setTrackPreviewEnabled", [graph EXCEPT !.tracks[t].enabled = on])

(* After an anchor, first without one, last if the anchor is not there. *)
Placed(seq, x, after) ==
  LET rest == Except(seq, x)
      at == IF after = None THEN 0
            ELSE IF after \in ToSet(rest) THEN CHOOSE i \in DOMAIN rest : rest[i] = after ELSE Len(rest)
  IN InsertAt(rest, at + 1, x)

MoveTrack(p, t, after) ==
  /\ t \in TracksOf(graph, p)
  /\ Edit("moveTrackWithinProject", [graph EXCEPT !.projects[p].tracks = Placed(@, t, after)])

(* expandTrackOrderIds: the tracks the review did not know follow in their order. *)
Expanded(order, tracks) == order \o Only(tracks, {i \in DOMAIN tracks : tracks[i] \notin ToSet(order)})

ResolveTrackOrder(p, order) ==
  /\ order # <<>> /\ ToSet(order) \subseteq TracksOf(graph, p) /\ IsInjective(order)
  /\ Edit("resolveTrackOrderConflict", [graph EXCEPT !.projects[p].tracks = Expanded(order, @)])

MoveClipToTrack(p, c, t) == Edit("moveClipToTrack", MoveToTrack(graph, p, c, t))

MoveClipWithinTrack(t, c, after) ==
  /\ c \in ClipsOn(graph, t)
  /\ Edit("moveClipWithinTrack", [graph EXCEPT !.tracks[t].clips = Placed(@, c, after)])

RestoreVariant(c, t) ==
  Edit("resolveDeleteVsEditByRestoreVariant", AddClip(graph, Variant(graph.clips[c], t)))

ParkEditedVariant(p, c) == Edit("parkEditedVariantOnReviewTrack", ParkEdited(graph, p, c))

ParkIncomingVariant(p, c, start) ==
  LET parked == [Timing(graph.clips[c]) EXCEPT !.start = start]
  IN start >= 0 /\ Edit("parkIncomingVariantOnReviewTrack", ParkIncoming(graph, p, c, Timing(graph.clips[c]), parked))

(***************************************************************************)
(* Clip, Text and Effect.                                                  *)
(***************************************************************************)
RemoveSelf(c) == Edit("removeSelf", RemoveClip(graph, c))
SplitSelfAt(c, m) == Edit("splitSelfAt", Split(graph, c, m))
MoveBy(c, d) == Edit("moveBy", [graph EXCEPT !.clips[c] = Moved(@, d)])
Trim(c, edge, d) == Edit("trim", [graph EXCEPT !.clips[c] = Resized(@, edge, d)])
Paint(c, l) == Edit("setClipAttrs", [graph EXCEPT !.clips[c].look = l])
EditText(x, l) == Edit("setTextContent", [graph EXCEPT !.texts[x].content = l])

SetFade(c, edge, d) ==
  LET Faded(f) == Clamp(Round(f + d), 0, graph.clips[c].duration)
  IN Edit("setFade", IF edge = "start" THEN [graph EXCEPT !.clips[c].fadeIn = Faded(@)]
                                       ELSE [graph EXCEPT !.clips[c].fadeOut = Faded(@)])

ResolveClipTiming(c, start, duration, fade) ==
  LET t == [Timing(graph.clips[c]) EXCEPT !.start = start, !.duration = duration]
  IN /\ start >= 0 /\ t.in >= 0 /\ fade >= 0 /\ FitsFades(t, fade, 0)
     /\ Edit("resolveClipTimingConflict",
             [graph EXCEPT !.clips[c] = [Retimed(@, t) EXCEPT !.fadeIn = fade, !.fadeOut = 0]])

AddEffect(c) ==
  Edit("addEffect", [graph EXCEPT !.effects = Append(@, c), !.clips[c].effects = Append(@, Len(graph.effects) + 1)])

RemoveEffect(c, e) == Edit("removeEffect", [graph EXCEPT !.clips[c].effects = Except(@, e)])

ReorderEffect(c, e, i) ==
  /\ e \in ToSet(graph.clips[c].effects)
  /\ LET rest == Except(graph.clips[c].effects, e)
     IN Edit("reorderEffect", [graph EXCEPT !.clips[c].effects = InsertAt(rest, Clamp(i, 1, Len(rest) + 1), e)])

(***************************************************************************)
(* The drag of a clip or of one of its edges (ClipItem.tsx).  The tab keeps *)
(* the timing it saw when the drag began and the one it has reached, sends  *)
(* every move to the clip, and at the end writes the first back and then    *)
(* the last, in two messages that another tab's commands may come between.  *)
(***************************************************************************)
Dragging(tab) == session[tab].drag # <<>>

Grab(tab, c, kind) ==
  /\ Active(tab) # None /\ c \in ClipsIn(graph, Active(tab))
  /\ Dragging(tab) => session[tab].drag.clip \in Removed
  /\ LET seen == Timing(graph.clips[c])
     IN Set("drag", tab, [session[tab] EXCEPT
          !.drag = [clip |-> c, kind |-> kind, original |-> seen, current |-> seen, final |-> <<>>],
          !.selected = IF kind = "move" THEN @ ELSE c])
  /\ UNCHANGED graph

(* getClipResizeDeltaSecondsForUi *)
UiDelta(x, base, edge, d) ==
  LET room == IF x.resource = None THEN MaxDuration
              ELSE Max({MinDuration, graph.resources[x.resource].duration - base.in})
  IN IF edge = "end" THEN Clamp(End(base) + d, base.start + MinDuration, base.start + room) - End(base)
     ELSE Clamp(base.start + d, Max({0, base.start - base.in}), End(base) - MinDuration) - base.start

DragBy(tab, d) ==
  /\ Dragging(tab) /\ session[tab].drag.final = <<>>
  /\ LET drag == session[tab].drag
         by == IF drag.kind = "move" THEN d ELSE UiDelta(graph.clips[drag.clip], drag.current, drag.kind, d)
         reached == CASE drag.kind = "move" -> [drag.current EXCEPT !.start = Max({0, Round(@ + by)})]
                      [] drag.kind = "end" -> [drag.current EXCEPT !.duration = Round(@ + by)]
                      [] drag.kind = "start" -> [start |-> Round(drag.current.start + by), in |-> Round(drag.current.in + by),
                                                 duration |-> Round(drag.current.duration - by)]
     IN /\ by # 0
        /\ Set("drag", tab, [session[tab] EXCEPT !.drag.current = reached, !.selected = drag.clip])
        /\ Becomes([graph EXCEPT !.clips[drag.clip] =
                      IF drag.kind = "move" THEN Moved(@, by) ELSE Resized(@, drag.kind, by)])

Restored(drag) == [graph EXCEPT !.clips[drag.clip] = Retimed(@, drag.original)]

(* Without a last move the drag of a whole clip ends where the clip is shown. *)
Drop(tab) ==
  /\ Dragging(tab) /\ session[tab].drag.final = <<>>
  /\ LET drag == session[tab].drag
     IN \E final \in {drag.current} \cup (IF drag.kind = "move" THEN {Timing(graph.clips[drag.clip])} ELSE {}) :
          Set("drag", tab, [session[tab] EXCEPT !.drag.final = final]) /\ Becomes(Restored(drag))

CommitDrag(tab) ==
  /\ Dragging(tab) /\ session[tab].drag.final # <<>>
  /\ LET drag == session[tab].drag
     IN /\ Set("drag", tab, [session[tab] EXCEPT !.drag = <<>>])
        /\ Becomes([graph EXCEPT !.clips[drag.clip] = Retimed(@, drag.final)])

CancelDrag(tab) ==
  /\ Dragging(tab) /\ session[tab].drag.final = <<>>
  /\ Set("drag", tab, [session[tab] EXCEPT !.drag = <<>>])
  /\ Becomes(Restored(session[tab].drag))

(***************************************************************************)
(* The specification.                                                      *)
(***************************************************************************)
Init ==
  /\ scene \in Scenes /\ graph = scene.graph /\ done = 0
  /\ session = [tab \in Tabs |-> [InitSession EXCEPT !.project = IF scene.graph = EmptyGraph THEN None ELSE 1]]

EditProject(p) ==
  LET tracks == graph.projects[p].tracks
  IN \/ \E kind \in {"video", "audio"} : AddTrack(p, kind)
     \/ \E role \in {"incomingReview", "currentReview"} :
          EnsureReviewTrack(p, role) \/ \E kind \in {"video", "audio"} : CreateReviewTrack(p, role, kind)
     \/ \E t \in ToSet(tracks), after \in ToSet(tracks) \cup {None} : after # t /\ MoveTrack(p, t, after)
     \/ \E t, u \in ToSet(tracks) : t # u /\ ResolveTrackOrder(p, <<t, u>>)
     \/ \E c \in RemovedFrom(p) : ParkEditedVariant(p, c)
     \/ \E c \in RemovedFrom(p) \cup ClipsIn(graph, p), t \in ToSet(tracks) : MoveClipToTrack(p, c, t)
     \/ \E c \in ClipsIn(graph, p), m \in Moments : ParkIncomingVariant(p, c, m)

EditTrack(t) ==
  \/ \E on \in BOOLEAN : SetTrackPreviewEnabled(t, on)
  \/ \E c \in ClipsOn(graph, t), after \in ClipsOn(graph, t) \cup {None} : after # c /\ MoveClipWithinTrack(t, c, after)
  \/ \E c \in RemovedFrom(graph.tracks[t].project) : RestoreVariant(c, t)

EditClip(c) ==
  \/ RemoveSelf(c) \/ AddEffect(c)
  \/ \E m \in Moments : SplitSelfAt(c, m) \/ \E n \in Moments : ResolveClipTiming(c, m, n, 0)
  \/ \E d \in Deltas : MoveBy(c, d) \/ \E edge \in {"start", "end"} : Trim(c, edge, d) \/ SetFade(c, edge, d)
  \/ \E l \in Looks : Paint(c, l)
  \/ \E e \in ToSet(graph.clips[c].effects) : RemoveEffect(c, e) \/ \E i \in 1..2 : ReorderEffect(c, e, i)

Session(tab) ==
  \/ HandleInit(tab) \/ CreateProject(tab) \/ TogglePlayback(tab)
  \/ DeleteSelected(tab) \/ SplitSelected(tab) \/ AddText(tab)
  \/ \E p \in Projects : SetActiveProject(tab, p)
  \/ \E c \in Clips : SelectEntity(tab, c) \/ \E kind \in {"move", "start", "end"} : Grab(tab, c, kind)
  \/ \E m \in Moments : SetCursor(tab, m) \/ TickPlayback(tab, m)
  \/ \E d \in Deltas : NudgeSelected(tab, d) \/ DragBy(tab, d)
  \/ \E f \in Files : ImportResource(tab, f)
  \/ \E r \in ResourcesOf(Active(tab)) : AddToTimeline(tab, r) \/ AddEmbeddedAudio(tab, r)
  \/ Drop(tab) \/ CommitDrag(tab) \/ CancelDrag(tab)

Next ==
  \/ \E tab \in scene.tabs : Session(tab)
  \/ \E p \in Projects : EditProject(p)
  \/ \E t \in DOMAIN graph.tracks : EditTrack(t)
  \/ \E c \in Clips : EditClip(c)
  \/ \E x \in DOMAIN graph.texts, l \in Looks : EditText(x, l)

Spec == Init /\ [][Next]_timelineVars

(***************************************************************************)
(* Properties.                                                             *)
(***************************************************************************)
TypeOK ==
  /\ scene \in Scenes /\ done \in 0..scene.limit
  /\ \A tab \in Tabs :
       /\ session[tab].project \in Refs(graph.projects) /\ session[tab].selected \in Refs(graph.clips)
       /\ session[tab].cursor \in Nat /\ session[tab].playing \in BOOLEAN
       /\ Dragging(tab) => session[tab].drag.clip \in Clips /\ session[tab].drag.kind \in {"move", "start", "end"}
  /\ \A p \in Projects : TracksOf(graph, p) \subseteq DOMAIN graph.tracks /\ ResourcesOf(p) \subseteq DOMAIN graph.resources
  /\ \A t \in DOMAIN graph.tracks :
       graph.tracks[t].kind \in {"video", "audio"} /\ graph.tracks[t].role \in {"normal", "incomingReview", "currentReview"}
  /\ \A c \in Clips : LET x == graph.clips[c]
                      IN /\ x.track \in Refs(graph.tracks) /\ x.resource \in Refs(graph.resources) /\ x.text \in Refs(graph.texts)
                         /\ {x.start, x.in, x.duration} \subseteq Int /\ {x.fadeIn, x.fadeOut} \subseteq Nat
                         /\ x.look \in Looks /\ x.kind \in {"video", "audio", "image", "text"}

(***************************************************************************)
(* The two ends of every relation agree (expectProjectGraphInvariants in    *)
(* dkt/test/projectGraphAssertions.ts).  It takes every command that moves, *)
(* cuts, restores or reorders to keep both ends, whatever came in between.  *)
(* Only a parked incoming timing shares the text and the effects of its     *)
(* clip (clipTimingActions.ts), so those two relations are for the scenes   *)
(* that do not park one.                                                   *)
(***************************************************************************)
GraphMirrors ==
  /\ NodesExist(graph) /\ PrimaryTracks(graph) /\ TracksMirror(graph) /\ ClipsMirror(graph) /\ MediaMirror(graph)
  /\ "parkIncomingVariantOnReviewTrack" \notin scene.commands => TextsMirror(graph) /\ EffectsMirror(graph)

(* What a clip shows: the moment of its media at each moment of the timeline. *)
Shown(x) == {<<k, k - x.start + x.in>> : k \in x.start..(End(x) - 1)}

(***************************************************************************)
(* A cut leaves on the track what was shown there before: the two parts     *)
(* show nothing else, and together all of it but for half a tenth at the    *)
(* cut, lost to rounding (Clip.splitSelfAt, Track.splitClipAt).  The parts   *)
(* of a text clip have the same text, in nodes of their own.                *)
(***************************************************************************)
CutKeepsMedia(g, h, c) ==
  LET parts == {c} \cup (DOMAIN h.clips \ DOMAIN g.clips)
      before == Shown(g.clips[c])
      after == UNION {Shown(h.clips[d]) : d \in parts}
  IN /\ after \subseteq before /\ Cardinality(before \ after) <= 1
     /\ g.clips[c].text # None =>
          \A d \in parts : /\ h.texts[h.clips[d].text].content = g.texts[g.clips[c].text].content
                           /\ \A e \in parts : h.clips[d].text = h.clips[e].text => d = e

SplitKeepsMedia ==
  [][\A c \in Clips \ Removed :
       (\E m \in Moments : SplitSelfAt(c, m)) \/ (\E tab \in Tabs : Selected(tab) = c /\ SplitSelected(tab))
         => CutKeepsMedia(graph, graph', c)
    ]_timelineVars

(***************************************************************************)
(* What is appended to the timeline covers nothing that is there, also      *)
(* after clips were moved or cut by any tab, and a video and its embedded   *)
(* audio start together, although their two tracks may end at different     *)
(* moments (reduceAddResourceToTimeline, appendStart).                      *)
(***************************************************************************)
AppendInStep ==
  [][\A tab \in Tabs : (\E r \in ResourcesOf(Active(tab)) : AddToTimeline(tab, r)) =>
       LET new == DOMAIN graph'.clips \ Clips
       IN \A c \in new :
            /\ \A d \in new : graph'.clips[d].start = graph'.clips[c].start
            /\ \A d \in ClipsOn(graph, graph'.clips[c].track) : End(graph.clips[d]) <= graph'.clips[c].start
    ]_timelineVars

=============================================================================
