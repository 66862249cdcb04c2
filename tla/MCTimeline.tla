----------------------------- MODULE MCTimeline -----------------------------
(* Small projects: a session that starts and imports, a clip cut and moved by two tabs while one
   drags it, clips between tracks and reviews, text and effects, and the order of the tracks. *)
EXTENDS Timeline

Video == [kind |-> "video", duration |-> 5]
Sound == [kind |-> "audio", duration |-> 4]
Still == [kind |-> "image", duration |-> 6]
AllFiles == {Video, Sound}

Empty == CreateProjectIn(EmptyGraph)
WithVideo == ImportInto(Empty, 1, Video)
OneVideo == AppendResource(WithVideo, 1, 1)
WithSound == AppendResource(ImportInto(Empty, 1, Sound), 1, 1)
OneText == AddTextClip(Empty, 1)
TwoVideos == AppendResource(OneVideo, 1, 1)
OddStart == AppendResource(ImportInto(OneVideo, 1, Still), 1, 2)

Scene(opening, tabs, limit, commands) ==
  [graph |-> opening, tabs |-> tabs, limit |-> limit, commands |-> commands,
   shared |-> TRUE, strict |-> FALSE]
Strict(s) == [s EXCEPT !.strict = TRUE]
OwnSessions(s) == [s EXCEPT !.shared = FALSE]

Starting == OwnSessions(Scene(EmptyGraph, {"a", "b"}, 5, {"handleInit", "createProject", "setActiveProject", "importResource",
                                          "addResourceToTimeline", "addTextClipToTimeline"}))
Sharing == Scene(EmptyGraph, {"a", "b"}, 5, {"handleInit", "createProject", "setActiveProject", "addTextClipToTimeline",
                                          "selectEntity", "deleteSelectedClip"})
Watching == Scene(OneVideo, {"a"}, 6, {"selectEntity", "setCursor", "togglePlayback", "tickPlayback",
                                    "splitSelectedClip", "nudgeSelectedClip", "deleteSelectedClip"})
Cutting == Scene(OddStart, {"a"}, 4, {"splitSelfAt", "moveBy", "removeSelf", "addResourceToTimeline"})
Filling == Scene(WithVideo, {"a"}, 5, {"addResourceToTimeline", "addEmbeddedAudioToTimeline", "trim", "removeSelf"})
DraggedAndCut == Scene(OneVideo, {"a"}, 5, {"drag", "splitSelfAt", "removeSelf"})
Dragged == Strict(Scene(OneText, {"a", "b"}, 6, {"drag"}))
Reviewing == Scene(OneVideo, {"a"}, 4, {"removeSelf", "splitSelfAt", "resolveDeleteVsEditByRestoreVariant", "parkEditedVariantOnReviewTrack",
                                     "parkIncomingVariantOnReviewTrack", "moveClipToTrack", "resolveClipTimingConflict"})
Arranging == Scene(TwoVideos, {"a"}, 4, {"addTrack", "moveTrackWithinProject", "resolveTrackOrderConflict", "moveClipToTrack",
                                      "moveClipWithinTrack", "removeSelf"})
ReviewTracking == Scene(OneVideo, {"a"}, 4, {"createReviewTrack", "ensureReviewTrack", "setTrackPreviewEnabled",
                                          "resolveTrackOrderConflict"})
Titling == Scene(OneText, {"a"}, 4, {"splitSelfAt", "setTextContent", "setClipAttrs", "addEffect", "removeEffect",
                                  "reorderEffect", "setFade", "trim"})
ParkingTitles == Scene(OneText, {"a"}, 4, {"parkIncomingVariantOnReviewTrack", "splitSelfAt", "setTextContent", "removeSelf",
                                        "resolveDeleteVsEditByRestoreVariant"})
AllScenes == {ParkingTitles, Starting, Sharing, Watching, Cutting, Filling, DraggedAndCut, Dragged, Reviewing, Arranging, ReviewTracking, Titling}
SomeDeltas == {-3, 2}
SomeMoments == {-1, 2, 3}
=============================================================================
