----------------------------- MODULE ExportRender -----------------------------
(***************************************************************************)
(* One export: createBrowserVideoExportRenderer of                          *)
(* src/video-editor/render/exportRenderer.ts with frameRenderer.ts,         *)
(* audioExportMixer.ts and exportRange.ts.  It encodes frame after frame    *)
(* with WebCodecs; when that cannot start it records a canvas in real time; *)
(* when that is not supported either it writes a manifest.                  *)
(*                                                                         *)
(* What the browser supports, what loads, decodes, seeks in time or fails   *)
(* is nondeterministic.  A unit of time is also a sample of sound, and the  *)
(* media have the rate of the export; gain, pan and how a layer is painted  *)
(* are left out.                                                            *)
(***************************************************************************)
EXTENDS ClipFrames

CONSTANTS
  FrameUnits,  \* 1 / fps
  Tolerance,   \* realtimeSeekTolerance
  MaxLate,     \* a bound: how long the loads and seeks of one recorded frame are awaited
  Length       \* how long each resource is

ASSUME ExportAssumption == FrameUnits \in Nat \ {0} /\ Tolerance \in Nat /\ MaxLate \in Nat

VARIABLES
  render,  \* the request, how far it is, and its result
  cache,   \* the resource cache: what is loaded, where each video stands and whether it plays
  held     \* what must be closed: an "encoder" or "sound encoder", the "context" of
           \* the sound, the "stream" of the canvas, the "recorder"

exportVars == <<render, cache, held>>

-----------------------------------------------------------------------------
(* The range of the export, and its frames. *)

Clip(plan, id) == CHOOSE c \in ToSet(plan) : c.id = id

(* normalizeExportPlan: at least until the last clip ends. *)
PlanDuration(plan) == Max({0} \cup {c.start + c.duration : c \in ToSet(plan)})

(* resolveClipIdsForClipExport: a video takes the sound of its resource along. *)
ResolveClipIds(plan, id) ==
  {id} \cup {c.id : c \in {x \in ToSet(plan) : /\ Clip(plan, id).kind = "video" /\ x.kind = "audio"
                                               /\ x.resource = Clip(plan, id).resource}}

(* resolveExportRange; "project" stands for all of it. *)
ResolveExportRange(plan, range) ==
  IF range = "project"
  THEN [start |-> 0, duration |-> PlanDuration(plan), clipIds |-> {c.id : c \in ToSet(plan)}]
  ELSE [start |-> Clip(plan, range).start, duration |-> Clip(plan, range).duration,
        clipIds |-> ResolveClipIds(plan, range)]

GetFrameCount == Max({1, (render.duration + FrameUnits - 1) \div FrameUnits})
FrameTime(index) == render.start + index * FrameUnits

(* filterClipsForRange. *)
FilterClips(operations) ==
  Only(operations, {i \in DOMAIN operations : operations[i].id \in render.clipIds})
FrameOperations(index) == FilterClips(CompileFrameOperations(render.plan, FrameTime(index)))
AudioClips == {c \in ToSet(render.plan) : c.kind = "audio" /\ c.id \in render.clipIds}

-----------------------------------------------------------------------------
(* The sound: triples of an instant of the export, the clip that sounds and   *)
(* the instant of its media.                                                *)
Later(a, b) == Max({a, b})
ActiveStart(c) == Later(render.start, c.start)
ActiveEnd(c, length) == Min({render.start + length, c.start + c.duration})

(* mixWebCodecsAudioTrack: it lasts as long as the frames, and never reaches  *)
(* the last sample of a medium.                                             *)
MixWebCodecsAudioTrack(c) ==
  LET length == GetFrameCount * FrameUnits
      destination == ActiveStart(c) - render.start
      count == Min({length - destination, ActiveEnd(c, length) - ActiveStart(c)})
      offset == c.inPoint + Later(0, render.start - c.start)
  IN {<<destination + k, c.id, offset + k>> :
        k \in {j \in 0..count - 1 : offset + j < Length[c.resource] - 1}}
Overlaps(c) == ActiveEnd(c, GetFrameCount * FrameUnits) > ActiveStart(c)

(* Mutant of ScheduleSource: the delay is not relative to the export's start. *)
ScheduleSourceLate(c) ==
  LET bufferOffset == c.inPoint + Later(0, render.start - c.start)
      activeDuration == Min({ActiveEnd(c, render.duration) - ActiveStart(c),
                             Later(0, Length[c.resource] - bufferOffset)})
  IN {<<c.start + k, c.id, bufferOffset + k>> : k \in 0..activeDuration - 1}

(* createAudioExportMixer: what start schedules, for a decoded buffer and for *)
(* an element alike.                                                        *)
ScheduleSource(c) ==
  LET delay == Later(0, c.start - render.start)
      bufferOffset == c.inPoint + Later(0, render.start - c.start)
      activeDuration == Min({ActiveEnd(c, render.duration) - ActiveStart(c),
                             Later(0, Length[c.resource] - bufferOffset)})
  IN {<<delay + k, c.id, bufferOffset + k>> : k \in 0..activeDuration - 1}

-----------------------------------------------------------------------------
(* How an export goes. *)

Idle == [phase |-> "idle", plan |-> <<>>, start |-> 0, duration |-> 0, clipIds |-> {}, backend |-> "none",
         todo |-> <<>>, prepared |-> <<>>, seeking |-> FALSE, late |-> 0, frames |-> <<>>,
         decoded |-> {}, sound |-> {}, why |-> "none"]

(* A video shows the picture "at", or none, and its currentTime is "goal".     *)
Blank == -1
NotLoaded == [state |-> "new", at |-> Blank, goal |-> 0, plays |-> FALSE]

Goes(phase) == render' = [render EXCEPT !.phase = phase]
Fails(why) == render' = [render EXCEPT !.phase = "failed", !.why = why]
Unloaded == cache' = [r \in DOMAIN cache |-> [NotLoaded EXCEPT !.state = "released"]]

(* An unknown clip is an error at once. *)
Ask(plan, range) ==
  /\ render.phase = "idle"
  /\ render' = IF range # "project" /\ ~\E c \in ToSet(plan) : c.id = range
               THEN [render EXCEPT !.phase = "failed", !.why = "unknown-clip"]
               ELSE LET resolved == ResolveExportRange(plan, range) IN
                    [render EXCEPT !.phase = "config", !.plan = plan, !.start = resolved.start,
                                   !.duration = resolved.duration, !.clipIds = resolved.clipIds]
  /\ UNCHANGED <<cache, held>>

(* getWebCodecsConfig. *)
Configure ==
  /\ render.phase = "config"
  /\ Goes("mix") \/ Goes("fallback")
  /\ UNCHANGED <<cache, held>>

StartFrames(backend, decoded, sound) ==
  render' = [render EXCEPT !.phase = "frames", !.backend = backend, !.todo = FrameOperations(0),
                           !.decoded = decoded, !.sound = sound]

(* Sound that cannot be encoded, or of which nothing could be decoded, makes   *)
(* it fall back; a clip that could not be decoded is left out.  The canvas or  *)
(* encoder.configure may fail before the try block.                          *)
MixAudio(decoded) ==
  /\ render.phase = "mix" /\ decoded \subseteq AudioClips
  /\ IF AudioClips # {} /\ ~\E c \in decoded : Overlaps(c)
     THEN Goes("fallback") /\ UNCHANGED held
     ELSE \/ /\ StartFrames("webcodecs", decoded, UNION {MixWebCodecsAudioTrack(c) : c \in decoded})
             /\ held' = {"encoder"}
          \/ Fails("canvas") /\ UNCHANGED held
          \/ Fails("configure") /\ held' = {"encoder"}
  /\ UNCHANGED cache

(* createManifestExportRenderer: every frame, nothing drawn. *)
WriteManifest ==
  /\ render.phase = "fallback"
  /\ render' = [render EXCEPT !.phase = "done", !.backend = "manifest",
                  !.frames = [i \in 1..GetFrameCount |->
                                [operations |-> FrameOperations(i - 1), layers |-> <<>>, late |-> 0]]]
  /\ UNCHANGED <<cache, held>>

(* The canvas and the mixer of the recorder; clips that cannot be decoded play *)
(* in an element, which the browser may refuse, and without AudioContext it is *)
(* silent.  The mixer may fail after it has opened its context.              *)
Record(decoded, playing) ==
  /\ render.phase = "fallback"
  /\ decoded \subseteq playing /\ playing \subseteq AudioClips
  /\ \E context \in SUBSET {"context"} :
       /\ AudioClips = {} => context = {}
       /\ \/ /\ context = {} => playing = {}
             /\ render' = [render EXCEPT !.phase = "capture", !.decoded = decoded,
                                         !.sound = UNION {ScheduleSource(c) : c \in playing}]
          \/ Fails("mixer")
       /\ held' = context
  /\ UNCHANGED cache

(* captureStream, new MediaRecorder and recorder.start.                      *)
RecorderStarts ==
  /\ render.phase = "capture"
  /\ \/ Goes("start") /\ held' = held \cup {"stream", "recorder"}
     \/ Fails("recorder") /\ \E stream \in SUBSET {"stream"} : held' = held \cup stream
  /\ UNCHANGED cache

(* audioMixer.start is the last step before the try block.                   *)
MixerStarts ==
  /\ render.phase = "start"
  /\ \/ StartFrames("recorder", render.decoded, render.sound)
     \/ "context" \in held /\ Fails("mixerStart")
  /\ UNCHANGED <<cache, held>>

-----------------------------------------------------------------------------
(* prepareFrameOperations, layer by layer. *)

Preparing(kinds) == /\ render.phase = "frames" /\ render.todo # <<>>
                    /\ Head(render.todo).kind \in kinds
Prepared(source) ==
  render' = [render EXCEPT !.todo = Tail(@), !.seeking = FALSE,
                           !.prepared = Append(@, [op |-> Head(render.todo), with |-> source])]
Resource == Head(render.todo).resource

(* Text has no source, and sound is not drawn. *)
PrepareOther == Preparing({"text", "audio"}) /\ Prepared("nothing") /\ UNCHANGED <<cache, held>>

(* ensureRenderableResource: each resource is loaded once, a failure stays.   *)
(* A video has its metadata then, and no picture yet.                        *)
Load ==
  /\ Preparing({"video", "image"}) /\ cache[Resource].state = "new"
  /\ \E state \in {"loaded", "failed"} : cache' = [cache EXCEPT ![Resource].state = state]
  /\ UNCHANGED <<render, held>>

PreparePlaceholder ==
  /\ Preparing({"video", "image"}) /\ cache[Resource].state = "failed"
  /\ Prepared("placeholder") /\ UNCHANGED <<cache, held>>

PrepareImage ==
  /\ Preparing({"image"}) /\ cache[Resource].state = "loaded"
  /\ Prepared("image") /\ UNCHANGED <<cache, held>>

(* clampTimeToDuration. *)
Clamp(r, time) == Later(0, Min({time, Length[r] - 1}))
Distance(a, b) == IF a < b THEN b - a ELSE a - b
(* Mutant of ShouldSeek: the tolerance of the recorder for every export. *)
ShouldSeekTolerant(op) == Distance(cache[op.resource].goal, op.source) > Tolerance

ShouldSeek(op) ==
  render.backend = "webcodecs" \/ Distance(cache[op.resource].goal, op.source) > Tolerance

(* seekVideo: currentTime is the goal at once; the old picture stays, or none, *)
(* until the seek lands.                                                     *)
SeekVideo ==
  /\ Preparing({"video"}) /\ cache[Resource].state = "loaded" /\ ~render.seeking
  /\ ShouldSeek(Head(render.todo))
  /\ \E at \in {cache[Resource].at, Blank} :
       cache' = [cache EXCEPT ![Resource].at = at,
                              ![Resource].goal = Clamp(Resource, Head(render.todo).source)]
  /\ render' = [render EXCEPT !.seeking = TRUE]
  /\ UNCHANGED held

(* The seek has landed, or is given up after 250 ms.  The recorder plays the   *)
(* video from now on; one that has ended starts over.                        *)
PrepareVideo ==
  /\ Preparing({"video"}) /\ cache[Resource].state = "loaded"
  /\ render.seeking \/ ~ShouldSeek(Head(render.todo))
  /\ Prepared("video")
  /\ \/ render.backend # "recorder" /\ UNCHANGED cache
     \/ /\ render.backend = "recorder" /\ cache[Resource].goal < Length[Resource]
        /\ cache' = [cache EXCEPT ![Resource].plays = TRUE]
     \/ /\ render.backend = "recorder" /\ cache[Resource].goal >= Length[Resource]
        /\ \E at \in {cache[Resource].at, Blank} :
             cache' = [cache EXCEPT ![Resource] = [@ EXCEPT !.plays = TRUE, !.goal = 0, !.at = at]]
  /\ UNCHANGED held

(* The picture of currentTime is there: a seek lands, also one that was given  *)
(* up, or the first picture of a video arrives.                              *)
SeekLands(r) ==
  /\ cache[r].state = "loaded" /\ cache[r].at # cache[r].goal
  /\ cache' = [cache EXCEPT ![r].at = cache[r].goal]
  /\ UNCHANGED <<render, held>>

(* Videos that play move on, and stop where they end.                        *)
Playing == {r \in DOMAIN cache : cache[r].state = "loaded" /\ cache[r].plays /\ cache[r].at = cache[r].goal}
Played(moved) ==
  cache' = [r \in DOMAIN cache |->
              IF r \notin Playing THEN cache[r]
              ELSE LET at == Min({cache[r].goal + moved[r], Length[r]}) IN
                   [cache[r] EXCEPT !.at = at, !.goal = at, !.plays = at < Length[r]]]

(* While a layer of the recorder awaits a load or a seek, the videos that were *)
(* told to play before it run on.                                            *)
PlayOn(advance) ==
  /\ render.backend = "recorder" /\ Preparing({"video", "image"})
  /\ render.seeking \/ cache[Resource].state = "new"
  /\ render.late + advance <= MaxLate
  /\ render' = [render EXCEPT !.late = @ + advance]
  /\ \E moved \in [Playing -> 0..advance] : Played(moved)
  /\ UNCHANGED held

-----------------------------------------------------------------------------
NextFrame(index, over) ==
  IF index = GetFrameCount
  THEN [render EXCEPT !.prepared = <<>>, !.late = 0, !.phase = over]
  ELSE [render EXCEPT !.prepared = <<>>, !.late = 0, !.phase = "frames", !.todo = FrameOperations(index)]

(* drawPreparedFrameOperations: a video shows where it stands at this moment,  *)
(* or nothing when it has no picture.                                        *)
Drawn ==
  [operations |-> FrameOperations(Len(render.frames)),
   layers |-> [i \in DOMAIN render.prepared |->
                 LET layer == render.prepared[i]
                     stands == cache[layer.op.resource]
                 IN IF layer.with = "video"
                    THEN [op |-> layer.op, with |-> "video", at |-> stands.at,
                          landed |-> stands.at = stands.goal]
                    ELSE layer],
   late |-> render.late]

Draw ==
  /\ render.phase = "frames" /\ render.todo = <<>>
  /\ LET next == IF render.backend = "recorder" THEN [render EXCEPT !.phase = "pace"]
                 ELSE NextFrame(Len(render.frames) + 1, "flush")
     IN render' = [next EXCEPT !.frames = Append(@, Drawn)]
  /\ UNCHANGED <<cache, held>>

(* Drawing, new VideoFrame, encode or requestFrame fails inside the try block. *)
FrameFails ==
  /\ render.phase = "frames" /\ render.todo = <<>>
  /\ Fails("frame") /\ held' = {} /\ Unloaded

(* The encoder fails: it is closed then, and closing it again, which the      *)
(* finally block does first, throws before the videos are unloaded.          *)
EncoderFails ==
  /\ render.backend = "webcodecs" /\ render.phase \in {"frames", "flush"}
  /\ Fails("encoder") /\ held' = {} /\ UNCHANGED cache

(* encoder.flush, encodeMixedAudioTrack and finalize.  The encoder of the      *)
(* sound is configured before the try block that closes it.                  *)
Flush ==
  /\ render.phase = "flush"
  /\ \/ Goes("done") /\ held' = {}
     \/ AudioClips # {} /\ Fails("sound") /\ held' = {}
     \/ AudioClips # {} /\ Fails("soundConfigure") /\ held' = {"sound encoder"}
  /\ Unloaded

(* The recorder waits until the frame's time is over and for an animation     *)
(* frame; its videos stall meanwhile, keep time, or gain on it.               *)
Pace ==
  /\ render.phase = "pace"
  /\ render' = NextFrame(Len(render.frames), "stop")
  /\ \E moved \in [Playing -> {0, FrameUnits, FrameUnits + Tolerance}] : Played(moved)
  /\ UNCHANGED held

(* Mutant of StopRecorder: the sound context is closed only after success. *)
StopRecorderForgets ==
  /\ render.phase = "stop"
  /\ \/ Goes("done") /\ held' = {}
     \/ Goes("failed") /\ held' = held \cap {"context"}
  /\ Unloaded

(* The recorder stops, or has failed on the way; either way all is closed.    *)
StopRecorder ==
  /\ render.phase = "stop"
  /\ Goes("done") \/ Goes("failed")
  /\ held' = {} /\ Unloaded

-----------------------------------------------------------------------------
ExportInit ==
  /\ render = Idle /\ held = {}
  /\ cache = [r \in DOMAIN Length |-> NotLoaded]

Renders ==
  \/ Configure \/ WriteManifest \/ RecorderStarts \/ MixerStarts
  \/ \E decoded \in SUBSET AudioClips :
       MixAudio(decoded) \/ \E playing \in SUBSET AudioClips : Record(decoded, playing)
  \/ PrepareOther \/ Load \/ PreparePlaceholder \/ PrepareImage \/ SeekVideo \/ PrepareVideo
  \/ Draw \/ Flush \/ Pace \/ StopRecorder

ExportSteps ==
  \/ Renders \/ EncoderFails \/ FrameFails
  \/ \E r \in DOMAIN Length : SeekLands(r)
  \/ \E advance \in 1..MaxLate : PlayOn(advance)

-----------------------------------------------------------------------------
(* How far the picture of a layer may be from its source time: WebCodecs seeks *)
(* every layer, the recorder has its tolerance and the time that its other     *)
(* layers were awaited.  A layer runs out when the video may have ended before *)
(* it is told to play.                                                       *)
Near(backend, late) == IF backend = "webcodecs" THEN 0 ELSE Tolerance + late
RunsOut(backend, op, late) ==
  backend = "recorder" /\ op.source + Tolerance + late >= Length[op.resource]

VideoLayers(layers) == {n \in DOMAIN layers : layers[n].with = "video"}
LastOfItsVideo(layers, n) ==
  \A m \in VideoLayers(layers) : m > n => layers[m].op.resource # layers[n].op.resource

(* The pictures of a video that the first frames ask for.                      *)
Asked(r, count) ==
  {Clamp(r, op.source) : op \in {o \in UNION {ToSet(FrameOperations(j)) : j \in 0..count - 1} :
                                    o.kind = "video" /\ o.resource = r}}

(* What is drawn for a video: once its seek has landed, the picture of its      *)
(* source time, but for a layer that shares its video with a later layer; when *)
(* its seek was given up, WebCodecs draws nothing, the first picture, or one    *)
(* that a frame so far has asked for.                                         *)
DrawnRight(frame, index, backend) ==
  \A n \in VideoLayers(frame.layers) :
    LET layer == frame.layers[n]
        r == layer.op.resource
    IN /\ LastOfItsVideo(frame.layers, n) /\ layer.landed /\ ~RunsOut(backend, layer.op, frame.late) =>
            Distance(layer.at, Clamp(r, layer.op.source)) <= Near(backend, frame.late)
       /\ backend = "webcodecs" => layer.at \in {Blank, 0} \cup Asked(r, index)

(* The file has the frames the preview shows: whichever way an export that     *)
(* ends well went, it has exactly the frames of its range, each with the       *)
(* layers, in their order, with their source times and opacities, that the     *)
(* preview computes for that time, and its videos are drawn right.             *)
FramesAreThePreview ==
  render.phase = "done" =>
    /\ Len(render.frames) = GetFrameCount
    /\ \A i \in DOMAIN render.frames :
         LET frame == render.frames[i] IN
         /\ frame.operations = FilterClips(CreatePreviewFrame(render.plan, FrameTime(i - 1)).rendered)
         /\ render.backend # "manifest" =>
              [n \in DOMAIN frame.layers |-> frame.layers[n].op] = frame.operations
         /\ DrawnRight(frame, i, render.backend)

(* The sound is where it belongs, by the mix of WebCodecs and by the schedule   *)
(* of the recorder alike: what sounds at an instant is what its clip has there, *)
(* and of a clip that was decoded nothing is missing but the last sample of     *)
(* its medium.                                                               *)
SoundWhereItBelongs ==
  LET Belongs(n, c) == <<n, c.id, c.inPoint + render.start + n - c.start>>
      Medium(c, n) == c.inPoint + render.start + n - c.start
      Audible(c, n) == ActiveAt(c, render.start + n) /\ Medium(c, n) < Length[c.resource]
  IN render.phase = "done" /\ render.backend # "manifest" =>
       /\ \A t \in render.sound : \E c \in AudioClips : Audible(c, t[1]) /\ t = Belongs(t[1], c)
       /\ \A c \in render.decoded, n \in 0..render.duration - 1 :
            Audible(c, n) => \/ Belongs(n, c) \in render.sound
                             \/ Medium(c, n) = Length[c.resource] - 1

(* What stays open when a step outside the try blocks fails, by the step.       *)
StaysOpen ==
  [configure |-> {"encoder"}, soundConfigure |-> {"sound encoder"}, mixer |-> {"context"},
   recorder |-> {"context", "stream"}, mixerStart |-> {"context", "stream", "recorder"}]

(* An export that was asked for ends, well or not.  A failure inside the try    *)
(* blocks leaves nothing open and no video with its source, except that the     *)
(* videos stay when the encoder fails; one outside of them leaves no more than  *)
(* what the steps before it had opened.                                       *)
RenderEnds ==
  render.phase # "idle" ~>
    /\ render.phase \in {"done", "failed"}
    /\ held \subseteq (IF render.why \in DOMAIN StaysOpen THEN StaysOpen[render.why] ELSE {})
    /\ render.why = "encoder" \/ ~\E r \in DOMAIN cache : cache[r].state = "loaded"
=============================================================================
