------------------------------- MODULE Preview -------------------------------
(***************************************************************************)
(* Playback: the cursor, the playback state and the buffer of frames of the *)
(* session in the worker (src/video-editor/models/SessionRoot), and one     *)
(* page that shows them: the loop that sends the ticks                      *)
(* (components/VideoEditorApp.tsx), the stage with its media elements       *)
(* (components/RendererStage.tsx, mediaElementRegistry.ts) and the worker   *)
(* that paints the canvas behind it (components/previewCanvasWorker.ts).    *)
(*                                                                         *)
(* The page commits the session's state of some moment, skipping what came  *)
(* in between; its effects run with the commit.  Edits of the project, moves *)
(* of the cursor and presses of the button may come from this page or from  *)
(* another tab.  Left out: where in its media an element is, volume, the    *)
(* requests for windows of resources, split compare, the colour scopes.     *)
(***************************************************************************)
EXTENDS ClipFrames, Functions

CONSTANTS
  Structures,  \* the sequences of clips that a project may have
  Resources,
  FrameStep,   \* 1 / PREVIEW_BUFFER_FPS
  Lookahead,   \* PREVIEW_BUFFER_LOOKAHEAD_SECONDS
  Refill,      \* PREVIEW_BUFFER_REFILL_THRESHOLD_SECONDS
  Ticks,       \* the times between two ticks
  Cursors,     \* where the user puts the cursor
  MaxCursor,   \* bound on the cursor
  MaxInbox,    \* bound on the actions under way
  MaxPresses,  \* bound on the presses of the play button
  MaxEdits     \* bound on edits, moves of the cursor and changes of URLs

ASSUME PreviewAssumption ==
  /\ {FrameStep, Lookahead, Refill, MaxCursor, MaxInbox, MaxPresses, MaxEdits} \subseteq Nat
  /\ FrameStep > 0 /\ Lookahead % FrameStep = 0 /\ Ticks \subseteq Nat /\ Cursors \subseteq Nat

VARIABLES
  session,  \* previewStructure, cursor, isPlaying, previewBuffer
  url,      \* what resolveResourceUrl answers for each resource, 0 for no URL
  inbox,    \* actions the page has dispatched and the worker has not handled
  page,     \* the committed props, the media elements, their registry and seek states
  canvas,   \* the canvas worker: the messages posted to it, its scene, what is painted
  presses, edits

previewVars == <<session, url, inbox, page, canvas, presses, edits>>

NoBuffer == [structure |-> <<>>, startCursor |-> -1, endCursor |-> -1]

-----------------------------------------------------------------------------
(* The session. *)

(* buildPreviewBuffer: its frames are a function of the structure they are    *)
(* built from.                                                              *)
BuildPreviewBuffer(structure, startCursor) ==
  [structure |-> structure, startCursor |-> startCursor, endCursor |-> startCursor + Lookahead]

(* lookupPreviewBufferFrame rounds to the nearest frame, halves up; there may *)
(* be no frame of that number.                                              *)
FrameIndex(buffer, cursor) ==
  (2 * (cursor - buffer.startCursor) + FrameStep) \div (2 * FrameStep)
InBuffer(buffer, cursor) ==
  /\ buffer # NoBuffer /\ cursor >= buffer.startCursor /\ cursor < buffer.endCursor
  /\ FrameIndex(buffer, cursor) < Lookahead \div FrameStep
LookupPreviewBufferFrame(buffer, cursor) ==
  CreatePreviewFrame(buffer.structure, buffer.startCursor + FrameIndex(buffer, cursor) * FrameStep)

(* reducePreviewFrame: the comp previewFrame. *)
PreviewFrame ==
  IF session.playing /\ InBuffer(session.buffer, session.cursor)
  THEN LookupPreviewBufferFrame(session.buffer, session.cursor)
  ELSE CreatePreviewFrame(session.structure, session.cursor)

(* reduceSessionTickPlaybackAction. *)
TickPlayback(delta) ==
  LET cursor == session.cursor + delta
      buffer == IF \/ session.buffer = NoBuffer
                   \/ cursor + Refill >= session.buffer.endCursor
                THEN BuildPreviewBuffer(session.structure, cursor) ELSE session.buffer
  IN IF session.playing THEN [session EXCEPT !.cursor = cursor, !.buffer = buffer] ELSE session

StartPreviewBuffer ==
  [session EXCEPT !.buffer = BuildPreviewBuffer(session.structure, session.cursor)]

TogglePlayback == [session EXCEPT !.playing = ~@]

(* The worker handles the actions in the order they were dispatched. *)
Handle ==
  /\ inbox # <<>>
  /\ LET action == Head(inbox) IN
       session' = CASE action.type = "tickPlayback" -> TickPlayback(action.delta)
                    [] action.type = "startPreviewBuffer" -> StartPreviewBuffer
                    [] action.type = "togglePlayback" -> TogglePlayback
  /\ inbox' = Tail(inbox)
  /\ session'.cursor <= MaxCursor
  /\ UNCHANGED <<url, page, canvas, presses, edits>>

Edited == edits < MaxEdits /\ edits' = edits + 1 /\ UNCHANGED <<inbox, page, canvas, presses>>

(* The project changes, by anybody's action. *)
Edit(structure) ==
  /\ structure # session.structure
  /\ session' = [session EXCEPT !.structure = structure]
  /\ Edited /\ UNCHANGED url

(* setCursor. *)
SetCursor(cursor) ==
  /\ cursor # session.cursor
  /\ session' = [session EXCEPT !.cursor = cursor]
  /\ Edited /\ UNCHANGED url

(* setActiveProject: neither playback nor the buffer ends. *)
SetActiveProject(structure) ==
  /\ structure # session.structure
  /\ session' = [session EXCEPT !.structure = structure, !.cursor = 0]
  /\ Edited /\ UNCHANGED url

(* The preview or playback URL of a resource changes: more of it has come, it *)
(* is complete, or its blob was evicted.                                     *)
UrlChanges(r, u) ==
  /\ u # url[r]
  /\ url' = [url EXCEPT ![r] = u]
  /\ Edited /\ UNCHANGED session

-----------------------------------------------------------------------------
(* The page. *)

(* The media elements a frame puts on the stage: what their ref callbacks     *)
(* depend on, the URL and for a video the layer, under the clip's id.        *)
Layer(frame, c) ==
  LET visual == {i \in DOMAIN frame.rendered : frame.rendered[i].kind # "audio"}
  IN CHOOSE n \in 1..Cardinality(visual) : Only(frame.rendered, visual)[n].id = c.id
MediaRefs(frame) ==
  LET media == {c \in ToSet(frame.rendered) : c.kind \in {"video", "audio"} /\ url[c.resource] # 0}
  IN [id \in {c.id : c \in media} |->
        LET c == CHOOSE x \in media : x.id = id
        IN [kind |-> c.kind, url |-> url[c.resource],
             layer |-> IF c.kind = "audio" THEN 0 ELSE Layer(frame, c)]]

(* The refs of elements that are unmounted, or whose callback is another one  *)
(* now, are called with null, then the new callbacks with the element.       *)
Released(refs) ==
  {id \in DOMAIN page.registry : id \notin DOMAIN refs \/ refs[id] # page.registry[id]}

Registry(refs) ==
  LET kept == DOMAIN page.registry \ Released(refs)
  IN [id \in kept \cup DOMAIN refs |-> IF id \in kept THEN page.registry[id] ELSE refs[id]]
(* Mutant of SeekStates: the remembered state outlives the callback. *)
SeekStatesKept(refs) == Restrict(page.was, DOMAIN page.was \cap DOMAIN refs)
SeekStates(refs) == Restrict(page.was, DOMAIN page.was \ Released(refs))

(* The elements themselves: one whose source changes is loaded anew, paused,  *)
(* one that leaves the document is paused by the browser, and a <video> that   *)
(* takes the place of an <audio> is another element.                         *)
Elements(refs) ==
  [id \in DOMAIN refs |->
     /\ id \in DOMAIN page.elements /\ page.elements[id]
     /\ page.registry[id].url = refs[id].url /\ page.registry[id].kind = refs[id].kind]

(* useMediaElementSync: an element is told to play or to pause when the state *)
(* of playback is not the one remembered for it.                             *)
WasPlaying(was, id) == id \in DOMAIN was /\ was[id]
SyncPlayback(elements, was, playing) ==
  [id \in DOMAIN elements |-> IF WasPlaying(was, id) # playing THEN playing ELSE elements[id]]

(* The messages to the canvas worker: the clips of the structure, which is    *)
(* always the present one, or of the frame when there are none; the cursor.  *)
Still(clip) ==
  [id |-> clip.id, start |-> 0, duration |-> MaxCursor + 1, fadeIn |-> 0, fadeOut |-> 0,
   opacity |-> [value |-> clip.opacity \div Full, keyframes |-> <<>>]]
CanvasClips(frame) ==
  IF session.structure # <<>> THEN session.structure
  ELSE [i \in DOMAIN frame.rendered |-> Still(frame.rendered[i])]
(* Mutant of Paint: the cursor is sent before the scene. *)
PaintFirst(frame) == <<[type |-> "render", cursor |-> frame.cursor],
                       [type |-> "setScene", clips |-> CanvasClips(frame)]>>
Paint(frame) == <<[type |-> "setScene", clips |-> CanvasClips(frame)],
                  [type |-> "render", cursor |-> frame.cursor]>>

(* PlaybackLoop: when playback starts the buffer is filled at once. *)
LoopEffect(playing) ==
  IF playing /\ ~page.playing THEN Append(inbox, [type |-> "startPreviewBuffer"]) ELSE inbox

(* React commits the state of this moment and runs the effects; a bound of   *)
(* the model: not before the canvas worker has handled the last messages.     *)
Commit ==
  LET frame == PreviewFrame
      refs == MediaRefs(frame)
      was == SeekStates(refs)
      playing == session.playing
  IN /\ page' = [frame |-> frame, structure |-> session.structure, playing |-> playing,
                 registry |-> Registry(refs),
                 elements |-> SyncPlayback(Elements(refs), was, playing),
                 was |-> [id \in DOMAIN refs |-> playing]]
     /\ canvas' = [canvas EXCEPT !.queue = @ \o Paint(frame)]
     /\ canvas.queue = <<>>
     /\ inbox' = LoopEffect(playing)
     /\ page' # page
     /\ UNCHANGED <<session, url, presses, edits>>

(* The loop's next tick; it runs while the committed state is playing. *)
Tick(delta) ==
  /\ page.playing /\ Len(inbox) < MaxInbox
  /\ inbox' = Append(inbox, [type |-> "tickPlayback", delta |-> delta])
  /\ UNCHANGED <<session, url, page, canvas, presses, edits>>

(* The play button, of this page or of another tab. *)
Press ==
  /\ presses < MaxPresses /\ presses' = presses + 1
  /\ inbox' = Append(inbox, [type |-> "togglePlayback"])
  /\ UNCHANGED <<session, url, page, canvas, edits>>

-----------------------------------------------------------------------------
(* The canvas worker evaluates opacity with functions of its own. *)
EvaluateScalar(scalar, time) ==
  LET keys == Sorted(scalar.keyframes)
      spans == {i \in 1..Len(keys) - 1 : keys[i].time <= time /\ time <= keys[i + 1].time}
      from == keys[Min(spans)]  to == keys[Min(spans) + 1]
  IN CASE keys = <<>> -> scalar.value
       [] keys # <<>> /\ time <= keys[1].time -> keys[1].value
       [] keys # <<>> /\ time > keys[1].time /\ time >= Last(keys).time -> Last(keys).value
       [] OTHER -> IF from.hold \/ from.time = to.time THEN from.value
                   ELSE InterpolateLinear(from, to, time)

CanvasOpacity(clip, time) ==
  LET local == time - clip.start
      multiplierIn == IF clip.fadeIn = 0 THEN Full ELSE Min({Full, (Full * local) \div clip.fadeIn})
      multiplierOut == IF clip.fadeOut = 0 \/ local <= clip.duration - clip.fadeOut THEN Full
                       ELSE Min({Full, (Full * (clip.duration - local)) \div clip.fadeOut})
  IN IF ActiveAt(clip, time) THEN EvaluateScalar(clip.opacity, local) * Min({multiplierIn, multiplierOut})
     ELSE 0

(* renderClipsAtCursor leaves out what cannot be seen. *)
RenderClipsAtCursor(clips, cursor) ==
  {[id |-> clip.id, opacity |-> CanvasOpacity(clip, cursor)] :
     clip \in {c \in ToSet(clips) : CanvasOpacity(c, cursor) > 0}}

CanvasReceives ==
  /\ canvas.queue # <<>>
  /\ LET message == Head(canvas.queue) IN
       canvas' = IF message.type = "setScene"
                 THEN [canvas EXCEPT !.queue = Tail(@), !.scene = message.clips]
                 ELSE [canvas EXCEPT !.queue = Tail(@),
                                     !.painted = RenderClipsAtCursor(canvas.scene, message.cursor)]
  /\ UNCHANGED <<session, url, inbox, page, presses, edits>>

-----------------------------------------------------------------------------
NothingShown == [cursor |-> 0, rendered |-> <<>>]

PreviewInit ==
  /\ session \in [structure : Structures, cursor : {0}, playing : {FALSE}, buffer : {NoBuffer}]
  /\ url = [r \in Resources |-> 1]
  /\ inbox = <<>>
  /\ page = [frame |-> NothingShown, structure |-> <<>>, playing |-> FALSE, registry |-> <<>>,
             elements |-> <<>>, was |-> <<>>]
  /\ canvas = [queue |-> <<>>, scene |-> <<>>, painted |-> {}]
  /\ presses = 0 /\ edits = 0

PreviewNext ==
  \/ Handle \/ Commit \/ CanvasReceives \/ Press
  \/ \E delta \in Ticks : Tick(delta)
  \/ \E structure \in Structures : Edit(structure) \/ SetActiveProject(structure)
  \/ \E cursor \in Cursors : SetCursor(cursor)
  \/ \E r \in Resources, u \in 0..2 : UrlChanges(r, u)

-----------------------------------------------------------------------------
(* What plays on the stage follows playback: while it runs every media        *)
(* element of the frame has been told to play, also one that was just put     *)
(* there, moved to another layer or given another source (RendererStage.tsx   *)
(* keys the remembered state by the ref callback); and when it stops no sound  *)
(* goes on ("await expect.poll(... paused).toBe(true)",                       *)
(* tests/integration/video-editor.spec.ts:743).  Of the videos the latter is    *)
(* not so: one whose layer changes in the commit that stops playback has its   *)
(* remembered state dropped, and plays on under a stopped cursor.             *)
MediaFollowsPlayback ==
  \A id \in DOMAIN page.elements :
    IF page.playing THEN page.elements[id]
    ELSE page.registry[id].kind = "audio" => ~page.elements[id]

(* Two implementations of one thing: once the page has committed the stopped   *)
(* session and the canvas worker has caught up, the canvas shows the clips of  *)
(* the stage that can be seen, each as strong as on the stage: scenes and      *)
(* cursors arrive in pairs, and the worker's fades and keyframes are those of  *)
(* timing.ts.                                                                *)
CanvasAgreesWithStage ==
  /\ canvas.queue = <<>> /\ ~session.playing
  /\ page.frame = PreviewFrame /\ page.structure = session.structure
  => canvas.painted = {[id |-> c.id, opacity |-> c.opacity] :
                         c \in {x \in ToSet(page.frame.rendered) : x.opacity > 0}}
=============================================================================
