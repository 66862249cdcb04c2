------------------------------ MODULE Rendering ------------------------------
(***************************************************************************)
(* Playback and export of one project.  The plan of an export is made from  *)
(* the clips the preview shows at the moment it is asked for                *)
(* (buildExportPlan of models/SessionRoot/actions.ts), and the project may  *)
(* be edited while it renders.                                              *)
(*                                                                         *)
(* Bounds of the model: a behaviour either watches or exports, and while it *)
(* exports the project is edited once, to one other structure.              *)
(***************************************************************************)
EXTENDS Preview, ExportRender

CONSTANTS Ranges  \* what is exported: "project", or the id of a clip

(* A clip starts, lasts and fades for no less than nothing, and its resource   *)
(* has a length; keyframes may be in any order.                             *)
ASSUME StructuresAssumption ==
  /\ \A structure \in Structures :
       /\ structure \in Seq(ToSet(structure))
       /\ \A clip \in ToSet(structure) :
            /\ {clip.start, clip.duration, clip.inPoint, clip.fadeIn, clip.fadeOut} \subseteq Nat
            /\ clip.opacity.keyframes \in Seq([time : Int, value : Int, hold : BOOLEAN])
            /\ clip.opacity.value \in Int /\ clip.resource \in DOMAIN Length
  /\ \A r \in DOMAIN Length : Length[r] \in Nat

VARIABLES scene  \* "watch" or "export"

vars == <<previewVars, exportVars, scene>>

Init == PreviewInit /\ ExportInit /\ scene \in {"watch", "export"}

AskExport(range) == Ask(session.structure, range) /\ UNCHANGED <<previewVars, scene>>

Watch == scene = "watch" /\ PreviewNext /\ UNCHANGED <<exportVars, scene>>
Export == scene = "export" /\ UNCHANGED <<previewVars, scene>> /\ ExportSteps
EditMeanwhile ==
  /\ scene = "export" /\ render.phase # "idle" /\ session.structure = render.plan
  /\ \E structure \in Structures :
       structure = (CHOOSE other \in Structures : other # render.plan) /\ Edit(structure)
  /\ UNCHANGED <<exportVars, scene>>

Next ==
  \/ Watch \/ Export \/ EditMeanwhile
  \/ scene = "export" /\ \E range \in Ranges : AskExport(range)

Spec == Init /\ [][Next]_vars

(* The browser answers, timers fire, and the tab is visible, so that it gives *)
(* animation frames to the recorder.                                        *)
Fairness == WF_vars(scene = "export" /\ UNCHANGED <<previewVars, scene>> /\ Renders)
FairSpec == Spec /\ Fairness
=============================================================================
