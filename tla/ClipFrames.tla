------------------------------ MODULE ClipFrames ------------------------------
(***************************************************************************)
(* What a clip shows at an instant: the functions that the preview and the  *)
(* export share (src/video-editor/render/timing.ts, read-model/             *)
(* previewComps.ts, render/renderPlan.ts).                                  *)
(*                                                                         *)
(* Time is counted in units of half a frame of the preview buffer; opacity  *)
(* in twelfths, and in parts of 144 once a fade has been applied, so that    *)
(* the divisions of the instances are exact.  A clip is a record            *)
(* [id, kind, resource, start, duration, inPoint, fadeIn, fadeOut, opacity], *)
(* its opacity [value, keyframes], a keyframe [time, value, hold].  Colour,  *)
(* geometry and text go the way of the opacity and are left out.            *)
(***************************************************************************)
EXTENDS Integers, Sequences, SequencesExt, FiniteSetsExt

Full == 12  \* opacity 1

(* The elements of a sequence at these indices, in their order: what filter    *)
(* returns.  SelectSeq and SortSeq are written with recursion and with CHOOSE  *)
(* of a permutation; nothing can be proved of the one, and the other has no    *)
(* value when two times are equal.                                          *)
Only(seq, indices) ==
  LET order == CHOOSE f \in [1..Cardinality(indices) -> indices] :
                 \A j, k \in DOMAIN f : j < k => f[j] < f[k]
  IN [k \in DOMAIN order |-> seq[order[k]]]

(* The keyframes in the order of their times; the sort of JavaScript is stable. *)
Place(keyframes, i) ==
  Cardinality({j \in DOMAIN keyframes :
                 \/ keyframes[j].time < keyframes[i].time
                 \/ keyframes[j].time = keyframes[i].time /\ j <= i})
Sorted(keyframes) ==
  [k \in 1..Len(keyframes) |-> keyframes[CHOOSE i \in DOMAIN keyframes : Place(keyframes, i) = k]]

(* interpolateLinear, at a time between the two keyframes. *)
InterpolateLinear(from, to, time) ==
  from.value + ((to.value - from.value) * (time - from.time)) \div (to.time - from.time)

(* evaluateKeyframedScalar of timing.ts. *)
EvaluateKeyframedScalar(scalar, time) ==
  LET sorted == Sorted(scalar.keyframes)
      n == Len(sorted)
  IN IF n = 0 THEN scalar.value
     ELSE IF time <= sorted[1].time THEN sorted[1].value
     ELSE IF time >= sorted[n].time THEN sorted[n].value
     ELSE LET i == Min({j \in 1..n - 1 : sorted[j].time <= time /\ time <= sorted[j + 1].time})
              from == sorted[i]  to == sorted[i + 1]
          IN IF from.hold THEN from.value
             ELSE IF from.time = to.time THEN to.value
             ELSE InterpolateLinear(from, to, time)

(* evaluateFadeOpacity of timing.ts, in parts of 144. *)
EvaluateFadeOpacity(time, clip, base) ==
  LET local == time - clip.start
      fadesIn == IF clip.fadeIn > 0 THEN Min({Full, (Full * local) \div clip.fadeIn}) ELSE Full
      fadesOut == IF clip.fadeOut > 0 /\ local > clip.duration - clip.fadeOut
                  THEN Min({Full, (Full * (clip.duration - local)) \div clip.fadeOut})
                  ELSE Full
  IN IF time < clip.start \/ time >= clip.start + clip.duration THEN 0
     ELSE base * Min({fadesIn, fadesOut})

ActiveAt(clip, time) == clip.start <= time /\ time < clip.start + clip.duration

(* renderPreviewClipSourceAtCursor of a clip that is active. *)
RenderClip(clip, cursor) ==
  [id |-> clip.id, kind |-> clip.kind, resource |-> clip.resource,
   source |-> clip.inPoint + cursor - clip.start,
   opacity |-> EvaluateFadeOpacity(cursor, clip, EvaluateKeyframedScalar(clip.opacity, cursor - clip.start))]

(* createPreviewFrame: renderPreviewClipSourceAtCursor has nothing for a clip   *)
(* that is not active.                                                      *)
CreatePreviewFrame(structure, cursor) ==
  [cursor |-> cursor,
   rendered |-> Only([i \in DOMAIN structure |-> RenderClip(structure[i], cursor)],
                     {i \in DOMAIN structure : ActiveAt(structure[i], cursor)})]

(* compileClipFrameOperationFromSource. *)
Compile(s, time) ==
  LET local == Max({0, time - s.start})
      base == EvaluateKeyframedScalar(s.opacity, local)
  IN [id |-> s.id, kind |-> s.kind, resource |-> s.resource, source |-> s.inPoint + local,
      opacity |-> EvaluateFadeOpacity(time, s, base)]
(* compileFrameOperationsFromPlan: what the export draws at a time; a clip that   *)
(* is not active is left out before, which makes no difference.              *)
CompileFrameOperations(clips, time) ==
  Only([i \in DOMAIN clips |-> Compile(clips[i], time)],
       {i \in DOMAIN clips : time >= clips[i].start /\ time < clips[i].start + clips[i].duration})
=============================================================================
