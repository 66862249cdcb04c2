----------------------------- MODULE MCRendering -----------------------------
EXTENDS Rendering

ClipOf(id, kind, r, start, duration, inPoint) ==
  [id |-> id, kind |-> kind, resource |-> r, start |-> start, duration |-> duration, inPoint |-> inPoint,
   fadeIn |-> 0, fadeOut |-> 0, opacity |-> [value |-> Full, keyframes |-> <<>>]]
Key(time, value, hold) == [time |-> time, value |-> value, hold |-> hold]

(* A video that fades, an image with keyframes above it, whose load is awaited *)
(* while the video plays, sound of the video's resource that starts later, two *)
(* clips of one video that overlap in a frame, a title.                       *)
video == [ClipOf("v", "video", "R", 0, 8, 0) EXCEPT !.fadeIn = 3, !.fadeOut = 4]
image == [ClipOf("i", "image", "I", 1, 5, 0) EXCEPT
            !.opacity.keyframes = <<Key(4, 0, FALSE), Key(0, 12, FALSE), Key(2, 6, TRUE)>>]
sound == ClipOf("s", "audio", "R", 2, 6, 1)
early == ClipOf("v", "video", "R", 0, 4, 1)
late == ClipOf("w", "video", "R", 3, 5, 3)
title == ClipOf("t", "text", "T", 3, 3, 0)

MCStructures == {<<video, sound>>, <<video, image>>, <<sound>>, <<title, image>>, <<early, late>>}
MCLength == [R |-> 7, I |-> 1, T |-> 1]
MCResources == {"R"}
=============================================================================
