----------------------------- MODULE EditorTasks -----------------------------
(***************************************************************************)
(* Exports and imports: what a page does at the request of its worker       *)
(* (src/video-editor/app: createVideoEditorHarness, runtimeTaskFacade,      *)
(* importFilesTaskExecutor, renderExportTaskExecutor, editorHarnessAdapter; *)
(* the request actions of models/SessionRoot and models/Project; the        *)
(* publishing of requests in dkt/runtime/createMiniCutDktRuntime).          *)
(*                                                                         *)
(* An export is asked of the session, which remembers the request and has   *)
(* the worker send it to every tab; each tab that gets it renders, reports  *)
(* its progress to the session and at the end takes the request away.  An   *)
(* import is started by a page itself, or asked of the session and sent     *)
(* back to every tab, one of which has the files.                           *)
(*                                                                         *)
(* A tab's actions reach the worker in the order they were sent, and so do  *)
(* requests reach a tab.  What a page knows of the graph is a copy that     *)
(* follows the worker's.  Files whose kind is not known, which an import    *)
(* only counts, and the contents of a progress report are left out.         *)
(***************************************************************************)
EXTENDS Integers, SequencesExt, FiniteSetsExt

CONSTANTS
  Tabs, Sessions, Projects, Files,
  MaxExports,  \* bounds the ids of exports
  Scenes       \* the tabs with their sessions and files, and what may happen

ASSUME TasksAssumption ==
  /\ MaxExports \in Nat
  /\ \A s \in Scenes : /\ s.session \in UNION {[tabs -> Sessions] : tabs \in SUBSET Tabs}
                       /\ s.exports \in 0..MaxExports /\ s.switches \in Nat /\ s.start \in Projects
                       /\ s.batches \subseteq (DOMAIN s.session) \X Seq(Files) /\ s.ranges \subseteq {"project", "clip"}
                       /\ s.ways \subseteq {"direct", "requested"} /\ s.faults \subseteq {"leave", "slow", "fail"}

VARIABLES
  scene,   \* never changes
  worker,  \* the sessions and the projects
  page,    \* the tabs: tasks, executors, staged files, what is on the way
  left     \* exports asked for, batches not yet chosen, switches of project that may still come

taskVars == <<scene, worker, page, left>>

None == "none"
Here == {t \in DOMAIN page : page[t].here}
Session(t) == scene.session[t]
Running == {"queued", "processing", "rendering", "finalizing"}

(***************************************************************************)
(* runtimeTaskFacade: numbered handles of staged files, a table of tasks    *)
(* that only grows, and the task that is queued for an intent.              *)
(***************************************************************************)
Intents == {"project", "clip"}

Stage(p, files) ==
  LET h == p.refs + 1
  IN [p EXCEPT !.refs = h, !.staged = [k \in DOMAIN @ \cup {h} |-> IF k = h THEN files ELSE @[k]]]
StagedIn(p, h) == IF h \in DOMAIN p.staged THEN p.staged[h] ELSE <<>>

ConsumeRef(p, h) == [p EXCEPT !.staged = [k \in DOMAIN @ \ {h} |-> @[k]]]

(* Imports are all queued; an export replaces the one that is queued for its intent. *)
DispatchTask(p, intent, data) ==
  LET task == Len(p.tasks) + 1
      q == [p EXCEPT !.tasks = Append(@, [intent |-> intent, data |-> data, status |-> "active"])]
      old == p.queued[intent]
  IN IF intent \notin Intents THEN q
     ELSE [q EXCEPT !.queued[intent] = task,
                    !.tasks = IF old = 0 THEN @ ELSE [@ EXCEPT ![old].status = "dropped"]]

(* Mutant of EndTask: the queue of the intent is emptied, whichever task is queued there. *)
EndTaskAndQueue(p, task, status) ==
  LET intent == p.tasks[task].intent
  IN [p EXCEPT !.tasks[task].status = IF @ = "active" THEN status ELSE @,
               !.queued = [i \in Intents |-> IF i = intent THEN 0 ELSE @[i]],
               !.runs = {r \in @ : r.task # task}]

(* completeTask and failTask, at the end of the task's executor *)
EndTask(p, task, status) ==
  [p EXCEPT !.tasks[task].status = IF @ = "active" THEN status ELSE @,
            !.queued = [i \in Intents |-> IF @[i] = task THEN 0 ELSE @[i]],
            !.runs = {r \in @ : r.task # task}]

Sent(p, m) == [p EXCEPT !.out = Append(@, m)]
Replace(p, run, next) == [p EXCEPT !.runs = (@ \ {run}) \cup {next}]

(***************************************************************************)
(* executeRenderExportTask                                                 *)
(***************************************************************************)
Progress(id, stage) == [type |-> "setExportProgress", id |-> id, stage |-> stage]
Consume(id) == [type |-> "consumeExportRequest", id |-> id]

(* Mutant of ExportFailed: the request is only taken away when the render succeeds. *)
ExportFailedKeepingRequest(p, task, id) == EndTask(Sent(p, Progress(id, "error")), task, "failed")

ExportFailed(p, task, id) == EndTask(Sent(Sent(p, Progress(id, "error")), Consume(id)), task, "failed")

ExportDone(p, task, id) ==
  EndTask(Sent(Sent([p EXCEPT !.downloaded = @ \cup {id}], Progress(id, "done")), Consume(id)), task, "completed")

(* The executor of a task that is replaced later is not stopped. *)
StartExport(p, request, valid) ==
  LET task == Len(p.tasks) + 1
      q == Sent(DispatchTask(p, request.range, request), Progress(request.id, "queued"))
  IN IF valid THEN [q EXCEPT !.runs = @ \cup {[task |-> task, type |-> "export", id |-> request.id, stage |-> "queued"]}]
     ELSE ExportFailed(q, task, request.id)

(***************************************************************************)
(* executeImportFilesTask                                                  *)
(***************************************************************************)
ImportProgress(h, stage) == [type |-> "setActiveProjectImportProgress", handle |-> h, stage |-> stage]

(* The next file, or the end: for every file the progress so far is reported. *)
NextFile(p, run) ==
  IF run.files # <<>>
  THEN [Sent(p, ImportProgress(run.handle, "processing")) EXCEPT !.runs = @ \cup {[run EXCEPT !.step = "measure"]}]
  ELSE EndTask(Sent(Sent(p, ImportProgress(run.handle, "processing")), ImportProgress(run.handle, "done")), run.task, "completed")

(* A task whose files another task has taken ends at once. *)
StartImport(p, h, project) ==
  LET task == Len(p.tasks) + 1
      files == StagedIn(p, h)
      q == ConsumeRef(DispatchTask(p, "import", [id |-> 0, handle |-> h]), h)
  IN IF files = <<>> THEN EndTask(q, task, "completed")
     ELSE NextFile(q, [task |-> task, type |-> "import", handle |-> h, project |-> project, files |-> files, step |-> "measure"])

(* startImportFilesTask: for a request that comes as a message, and for one that is seen in the graph *)
StartRequested(p, h) ==
  IF h \in p.started THEN p ELSE StartImport([p EXCEPT !.started = @ \cup {h}], h, p.view.active)

(***************************************************************************)
(* The worker.                                                             *)
(***************************************************************************)
Graph(w, s) == [active |-> w.active[s], resources |-> w.resources, timeline |-> w.timeline, import |-> w.import]

(* publishExportRequest and publishImportFilesRequest: to every connected tab, of whatever session *)
Publish(p, m) == [t \in DOMAIN p |-> IF p[t].here THEN [p[t] EXCEPT !.in = Append(@, m)] ELSE p[t]]

RequestExport(w, s, m) == [w EXCEPT !.request[s] = m.id, !.progress[s] = [id |-> m.id, stage |-> "queued"]]
SetExportProgress(w, s, m) == [w EXCEPT !.progress[s] = [id |-> m.id, stage |-> m.stage]]
ConsumeExportRequest(w, s, m) == [w EXCEPT !.request[s] = IF @ = m.id THEN 0 ELSE @]
ClearExportProgress(w) == [w EXCEPT !.progress = [s \in Sessions |-> [id |-> 0, stage |-> "idle"]]]

RequestImportFiles(w, s, m) == [w EXCEPT !.import[w.active[s]] = [task |-> m.handle, stage |-> "queued"]]
SetImportProgress(w, s, m) ==
  [w EXCEPT !.import[w.active[s]] =
     [task |-> IF m.stage \in {"done", "error"} THEN 0 ELSE m.handle, stage |-> m.stage]]
ImportResource(w, s, m) == [w EXCEPT !.resources[w.active[s]][m.file] = @ + 1]
AddToTimeline(w, s, m) ==
  IF w.resources[w.active[s]][m.file] = 0 THEN w ELSE [w EXCEPT !.timeline[w.active[s]] = @ \cup {m.file}]
SetActiveProject(w, s, m) == [w EXCEPT !.active[s] = m.project]

Outcome(w, s, m) ==
  CASE m.type = "requestExport" -> RequestExport(w, s, m)
    [] m.type = "setExportProgress" -> SetExportProgress(w, s, m)
    [] m.type = "consumeExportRequest" -> ConsumeExportRequest(w, s, m)
    [] m.type = "requestImportFiles" -> RequestImportFiles(w, s, m)
    [] m.type = "setActiveProjectImportProgress" -> SetImportProgress(w, s, m)
    [] m.type = "importResourceIntoActiveProject" -> ImportResource(w, s, m)
    [] m.type = "addActiveProjectResourceToTimeline" -> AddToTimeline(w, s, m)
    [] m.type = "setActiveProject" -> SetActiveProject(w, s, m)

InitWorker ==
  [request |-> [s \in Sessions |-> 0], progress |-> [s \in Sessions |-> [id |-> 0, stage |-> "idle"]],
   active |-> [s \in Sessions |-> scene.start], resources |-> [p \in Projects |-> [f \in Files |-> 0]],
   timeline |-> [p \in Projects |-> {}], import |-> [p \in Projects |-> [task |-> 0, stage |-> "idle"]]]

InitPage(t) ==
  [here |-> TRUE, refs |-> 0, staged |-> [h \in {} |-> <<>>], started |-> {}, tasks |-> <<>>,
   queued |-> [i \in Intents |-> 0], runs |-> {}, downloaded |-> {}, serves |-> {}, view |-> Graph(worker, Session(t)),
   in |-> <<>>, out |-> <<>>]

Init ==
  /\ scene \in Scenes
  /\ worker = InitWorker
  /\ page = [t \in DOMAIN scene.session |-> InitPage(t)]
  /\ left = [exports |-> scene.exports, batches |-> scene.batches, switches |-> scene.switches]

Step(t, p) == page' = [page EXCEPT ![t] = p]

(***************************************************************************)
(* The user.                                                               *)
(***************************************************************************)
ExportClicked(t, range) ==
  /\ t \in Here /\ left.exports > 0 /\ range \in scene.ranges
  /\ Step(t, Sent(page[t], [type |-> "requestExport", id |-> scene.exports - left.exports + 1, range |-> range, by |-> Session(t)]))
  /\ left' = [left EXCEPT !.exports = @ - 1]
  /\ UNCHANGED <<scene, worker>>

(* importFilesIntoProject and requestImportFiles *)
FilesChosen(t, way) ==
  /\ t \in Here /\ way \in scene.ways
  /\ \E batch \in left.batches :
       LET p == Stage(page[t], batch[2])
       IN /\ batch[1] = t
          /\ Step(t, IF way = "direct" THEN StartImport(p, p.refs, p.view.active)
                     ELSE Sent(p, [type |-> "requestImportFiles", handle |-> p.refs]))
          /\ left' = [left EXCEPT !.batches = @ \ {batch}]
  /\ UNCHANGED <<scene, worker>>

SwitchProject(t, project) ==
  /\ t \in Here /\ left.switches > 0 /\ project # page[t].view.active
  /\ Step(t, Sent(page[t], [type |-> "setActiveProject", project |-> project]))
  /\ left' = [left EXCEPT !.switches = @ - 1]
  /\ UNCHANGED <<scene, worker>>

(* A tab is closed, or its connection breaks: the last of what it sent may be lost.  Whether its transport *)
(* tells the worker depends on the transport; if it does, the progress is cleared in all sessions.         *)
Leave(t) ==
  /\ t \in Here /\ "leave" \in scene.faults
  /\ \E kept \in 0..Len(page[t].out) :
       Step(t, [page[t] EXCEPT !.here = FALSE, !.out = SubSeq(@, 1, kept), !.in = <<>>, !.runs = {}])
  /\ worker' \in {worker, ClearExportProgress(worker)}
  /\ UNCHANGED <<scene, left>>

(***************************************************************************)
(* Messages.                                                               *)
(***************************************************************************)
(* The worker runs the action of a tab.  A clip export asks for a clip that is selected, or there; *)
(* without one nothing happens.                                                                   *)
Handle(t) ==
  /\ page[t].out # <<>>
  /\ LET m == Head(page[t].out)
         s == Session(t)
         rest == [page EXCEPT ![t].out = Tail(@)]
     IN \/ /\ worker' = Outcome(worker, s, m)
           /\ page' = CASE m.type = "requestExport" -> Publish(rest, [m EXCEPT !.type = "export"])
                        [] m.type = "requestImportFiles" -> Publish(rest, [type |-> "import", handle |-> m.handle])
                        [] OTHER -> rest
        \/ /\ m.type = "requestExport" /\ m.range = "clip"
           /\ page' = rest /\ worker' = worker
  /\ UNCHANGED <<scene, left>>

(* A tab gets a request.  Its plan may name a resource that has no address here. *)
Receive(t) ==
  /\ t \in Here /\ page[t].in # <<>>
  /\ LET m == Head(page[t].in)
         p == [page[t] EXCEPT !.in = Tail(@)]
     IN \/ m.type = "export" /\ \E valid \in {TRUE, "fail" \notin scene.faults} : Step(t, StartExport(p, m, valid))
        \/ m.type = "import" /\ Step(t, StartRequested(p, m.handle))
  /\ UNCHANGED <<scene, worker, left>>

(* The page learns of the graph, and starts an import it sees queued. *)
Sync(t) ==
  LET p == [page[t] EXCEPT !.view = Graph(worker, Session(t))]
      import == p.view.import[p.view.active]
  IN /\ t \in Here /\ p # page[t]
     /\ Step(t, IF import.stage = "queued" THEN StartRequested(p, import.task) ELSE p)
     /\ UNCHANGED <<scene, worker, left>>

(***************************************************************************)
(* The executors.                                                          *)
(***************************************************************************)
Rendered(t, run) ==
  /\ run.type = "export"
  /\ \/ \E stage \in {"rendering", "finalizing"} :
          /\ run.stage = IF stage = "rendering" THEN "queued" ELSE "rendering"
          /\ Step(t, Replace(Sent(page[t], Progress(run.id, stage)), run, [run EXCEPT !.stage = stage]))
     \/ run.stage = "finalizing" /\ Step(t, ExportDone(page[t], run.task, run.id))
     \/ "fail" \in scene.faults /\ Step(t, ExportFailed(page[t], run.task, run.id))
  /\ UNCHANGED <<scene, worker, left>>

(* The duration of the file is known, or given up. *)
Measured(t, run) ==
  /\ run.type = "import" /\ run.step = "measure"
  /\ \/ Step(t, Replace(Sent(page[t], [type |-> "importResourceIntoActiveProject", file |-> Head(run.files)]),
                        run, [run EXCEPT !.step = "find"]))
     \/ "fail" \in scene.faults /\ Step(t, EndTask(Sent(page[t], ImportProgress(run.handle, "error")), run.task, "failed"))
  /\ UNCHANGED <<scene, worker, left>>

Without(p, run) == [p EXCEPT !.runs = @ \ {run}]

(* Mutant of Registered: the next file is begun before the page serves this one. *)
NotRegistered(p, run) == NextFile(Without(p, run), [run EXCEPT !.files = Tail(@)])

Registered(p, run) ==
  NextFile([Without(p, run) EXCEPT !.serves = @ \cup {Head(run.files)}], [run EXCEPT !.files = Tail(@)])

(* The page waits a second for the resource in the project it began with, then goes on to the next file. *)
Awaited(t, run) ==
  /\ run.type = "import" /\ run.step = "find"
  /\ LET file == Head(run.files)
         view == page[t].view
     IN \/ /\ view.resources[run.project][file] > 0
           /\ Step(t, IF view.timeline[run.project] # {} THEN Registered(page[t], run)
                      ELSE Replace(Sent(page[t], [type |-> "addActiveProjectResourceToTimeline", file |-> file]),
                                   run, [run EXCEPT !.step = "clips"]))
        \/ /\ view.resources[run.project][file] = 0
           /\ "slow" \in scene.faults \/ (page[t].out = <<>> /\ view = Graph(worker, Session(t)))
           /\ Step(t, NextFile(Without(page[t], run), [run EXCEPT !.files = Tail(@)]))
  /\ UNCHANGED <<scene, worker, left>>

(* Then it waits a second for the first clip, and registers the file in either case. *)
Placed(t, run) ==
  /\ run.type = "import" /\ run.step = "clips"
  /\ \/ page[t].view.timeline[run.project] # {}
     \/ "slow" \in scene.faults \/ (page[t].out = <<>> /\ page[t].view = Graph(worker, Session(t)))
  /\ Step(t, Registered(page[t], run))
  /\ UNCHANGED <<scene, worker, left>>

Next ==
  \E t \in DOMAIN page :
    \/ \E range \in Intents : ExportClicked(t, range)
    \/ \E way \in {"direct", "requested"} : FilesChosen(t, way)
    \/ \E project \in Projects : SwitchProject(t, project)
    \/ Leave(t) \/ Handle(t) \/ Receive(t) \/ Sync(t)
    \/ \E run \in page[t].runs : Rendered(t, run) \/ Measured(t, run) \/ Awaited(t, run) \/ Placed(t, run)

Spec == Init /\ [][Next]_taskVars

(***************************************************************************)
(* Properties.                                                             *)
(***************************************************************************)
Stages == {"idle", "queued", "processing", "rendering", "finalizing", "done", "error"}

(* Every value is of its type. *)
TypeOK ==
  /\ scene \in Scenes /\ left.exports \in 0..scene.exports /\ left.batches \subseteq scene.batches /\ left.switches \in 0..scene.switches
  /\ worker.request \in [Sessions -> 0..MaxExports] /\ worker.active \in [Sessions -> Projects]
  /\ worker.progress \in [Sessions -> [id : 0..MaxExports, stage : Stages]]
  /\ worker.resources \in [Projects -> [Files -> Nat]] /\ worker.timeline \in [Projects -> SUBSET Files]
  /\ \A t \in DOMAIN page :
       /\ page[t].queued \in [Intents -> 0..Len(page[t].tasks)] /\ DOMAIN page[t].staged \subseteq 1..page[t].refs
       /\ \A i \in DOMAIN page[t].tasks : page[t].tasks[i].intent \in Intents \cup {"import"}
                                          /\ page[t].tasks[i].status \in {"active", "completed", "failed", "dropped"}
       /\ \A r \in page[t].runs : r.task \in DOMAIN page[t].tasks
       /\ page[t].downloaded \subseteq 1..MaxExports /\ page[t].serves \subseteq Files

(* A table of tasks, what is queued by intent and the tasks whose executors run. *)
InStep(tasks, queued, running) ==
  LET active == {i \in DOMAIN tasks : tasks[i].status = "active"}
  IN /\ active \subseteq running
     /\ \A i \in running \ active : tasks[i].status = "dropped" /\ \E j \in DOMAIN tasks : j > i /\ tasks[j].intent = tasks[i].intent
     /\ \A intent \in Intents : {i \in active : tasks[i].intent = intent} = {queued[intent]} \ {0}

(* The table of tasks tells the truth about a page: a task is active exactly while its executor runs  *)
(* and nothing has replaced it, and what is queued for an intent is its one active task.              *)
TableInStep == \A t \in Here : InStep(page[t].tasks, page[t].queued, {r.task : r \in page[t].runs})

(* Nothing is on the way and no executor runs. *)
AtRest == \A t \in DOMAIN page :
  page[t].out = <<>> /\ (page[t].here =>
    page[t].in = <<>> /\ page[t].runs = {} /\ page[t].view = Graph(worker, Session(t)))

(* Whatever replaces what and fails where, no export hangs: at rest every request has been taken away *)
(* and no bar runs, unless a tab of the session left; and none of those that are still there can have *)
(* had the request.                                                                                  *)
ExportsEnd == AtRest => \A s \in Sessions :
  LET tabs == {t \in DOMAIN page : Session(t) = s}
  IN /\ worker.request[s] # 0 => \A t \in tabs \cap Here : worker.request[s] \notin {task.data.id : task \in Range(page[t].tasks)}
     /\ tabs \subseteq Here => worker.request[s] = 0 /\ worker.progress[s].stage \notin Running

Landed(f) == MapThenSumSet(LAMBDA p : worker.resources[p][f], Projects)

(* However an import comes to a page, by a message, by what the page sees or from the user, and however *)
(* imports and tabs interleave: at rest each file of a batch was imported, once, and its page serves it, *)
(* unless the project was switched or the page stopped waiting; the progress has ended.  Only files whose *)
(* handle is also the number of a batch of another tab may still be staged.                              *)
ImportsEnd == AtRest =>
  LET still == left.switches = scene.switches /\ scene.faults = {}
  IN /\ \A t \in Here : \A h \in DOMAIN page[t].staged : \E u \in DOMAIN page \ {t} : h <= page[u].refs
     /\ \A batch \in scene.batches \ left.batches : \A f \in Range(batch[2]) :
          LET p == page[batch[1]]
              staged == batch[2] \in Range(p.staged)
          IN /\ Landed(f) <= 1
             /\ still /\ ~staged => Landed(f) = 1 /\ f \in p.serves
     /\ still => \A project \in Projects : worker.import[project].stage # "processing"

=============================================================================
