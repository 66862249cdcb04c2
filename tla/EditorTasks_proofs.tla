------------------------- MODULE EditorTasks_proofs -------------------------
(***************************************************************************)
(* Proofs about EditorTasks: values keep their types, the tables of tasks   *)
(* tell the truth, and no export hangs, for any tabs, sessions and scenes.   *)
(*                                                                         *)
(* PageInv says of one page what its tasks, its executors and its messages  *)
(* have to do with each other.  The operators that make up a step (Sent,    *)
(* DispatchTask, EndTask, a run that is added or taken) break it in a known  *)
(* way: PageBut(p, X, Y) excuses the tasks X, which are active without an    *)
(* executor, and the exports Y, whose progress has been reported without one. *)
(* Keeps(p, q, Y) says what a step leaves of the exports a page owes: one    *)
(* that comes or runs still does, or its end is on its way to the worker.    *)
(* The invariant of the whole, TasksInv, says where a request and a bar of   *)
(* the session are held: by a tab that has a message, an executor or an      *)
(* answer for them.                                                        *)
(***************************************************************************)
EXTENDS EditorTasks, SequenceTheorems, TLAPS

Statuses == {"active", "completed", "failed", "dropped"}
Ids == 1..MaxExports
Requests(type) == [type : {type}, id : Ids, range : Intents, by : Sessions]

ExportTasks == [intent : Intents, data : Requests("export"), status : Statuses]
ImportTasks == [intent : {"import"}, data : [id : {0}, handle : Nat], status : Statuses]
Tasks == ExportTasks \cup ImportTasks

ExportRuns == [task : Nat, type : {"export"}, id : Ids, stage : {"queued", "rendering", "finalizing"}]
ImportRuns == [task : Nat, type : {"import"}, handle : Nat, project : Projects, files : Seq(Files),
               step : {"measure", "find", "clips"}]
Runs == ExportRuns \cup {r \in ImportRuns : r.files # <<>>}

InSet == Requests("export") \cup [type : {"import"}, handle : Nat]
ProgressSet == [type : {"setExportProgress"}, id : Ids, stage : Stages]
ConsumeSet == [type : {"consumeExportRequest"}, id : Ids]
AskImportSet == [type : {"requestImportFiles"}, handle : Nat]
SwitchSet == [type : {"setActiveProject"}, project : Projects]
ImportProgressSet == [type : {"setActiveProjectImportProgress"}, handle : Nat, stage : Stages]
FileSet == [type : {"importResourceIntoActiveProject", "addActiveProjectResourceToTimeline"}, file : Files]
OutSet == Requests("requestExport") \cup ProgressSet \cup ConsumeSet \cup AskImportSet \cup SwitchSet
          \cup ImportProgressSet \cup FileSet

StagedSet == UNION {[H -> Seq(Files)] : H \in SUBSET Nat}
ImportState == [task : Nat, stage : Stages]
ResourcesSet == [Projects -> [Files -> Nat]]
TimelineSet == [Projects -> SUBSET Files]
ImportsSet == [Projects -> ImportState]
ViewSet == [active : Projects, resources : ResourcesSet, timeline : TimelineSet, import : ImportsSet]
QueuedSet == [Intents -> Nat]

PageSet == [here : BOOLEAN, refs : Nat, staged : StagedSet, started : SUBSET Nat, tasks : Seq(Tasks),
            queued : QueuedSet, runs : SUBSET Runs, downloaded : SUBSET Ids, serves : SUBSET Files,
            view : ViewSet, in : Seq(InSet), out : Seq(OutSet)]

RequestSet == [Sessions -> 0..MaxExports]
BarSet == [id : 0..MaxExports, stage : Stages]
BarsSet == [Sessions -> BarSet]
ActiveSet == [Sessions -> Projects]
WorkerSet == [request : RequestSet, progress : BarsSet, active : ActiveSet, resources : ResourcesSet,
              timeline : TimelineSet, import : ImportsSet]

LeftSet == [exports : 0..scene.exports, batches : SUBSET scene.batches, switches : 0..scene.switches]

TypeInv ==
  /\ scene \in Scenes /\ left \in LeftSet /\ worker \in WorkerSet
  /\ page \in [DOMAIN scene.session -> PageSet]

-----------------------------------------------------------------------------
(* What a page has to do with the export of a number. *)
Owns(p, id) == \E r \in p.runs : r.type = "export" /\ r.id = id
Comes(p, id) == \E i \in DOMAIN p.in : p.in[i].type = "export" /\ p.in[i].id = id
Has(p, id) == \E i \in DOMAIN p.tasks : p.tasks[i].intent \in Intents /\ p.tasks[i].data.id = id
Asks(p, id) == \E i \in DOMAIN p.out : p.out[i].type = "requestExport" /\ p.out[i].id = id
Consumes(p, id) == \E i \in DOMAIN p.out : p.out[i].type = "consumeExportRequest" /\ p.out[i].id = id
Final(m, id) == m.type = "setExportProgress" /\ m.stage \in {"done", "error"} /\ m.id = id
Finishes(p, id) == \E i \in DOMAIN p.out : Final(p.out[i], id)
Ended(p, id) == Consumes(p, id) /\ Finishes(p, id)

RunTasks(runs) == {r.task : r \in runs}
RunHasTask(r, tasks) ==
  /\ r.task \in DOMAIN tasks
  /\ r.type = "export" => tasks[r.task].intent \in Intents /\ tasks[r.task].data.id = r.id
  /\ r.type = "import" => tasks[r.task].intent = "import"
RunsHaveTasks(runs, tasks) == \A r \in runs : RunHasTask(r, tasks)

(* A bar that was started is ended by the executor, or was ended already. *)
Starts(m) == m.type = "setExportProgress" /\ m.stage \in Running
BarsEnd(p, Y) == \A i \in DOMAIN p.out : Starts(p.out[i]) =>
  Owns(p, p.out[i].id) \/ (\E j \in DOMAIN p.out : j > i /\ Final(p.out[j], p.out[i].id)) \/ p.out[i].id \in Y

PageBut(p, X, Y) ==
  /\ p \in PageSet /\ X \subseteq DOMAIN p.tasks
  /\ DOMAIN p.staged \subseteq 1..p.refs
  /\ p.queued \in [Intents -> 0..Len(p.tasks)]
  /\ RunsHaveTasks(p.runs, p.tasks)
  /\ p.here => InStep(p.tasks, p.queued, RunTasks(p.runs) \cup X) /\ BarsEnd(p, Y)
PageInv(p) == PageBut(p, {}, {})

(* Between two states of a page: the answers it owes. *)
SameOuts(p, q) ==
  /\ Len(p.out) <= Len(q.out)
  /\ \A i \in DOMAIN p.out : q.out[i] = p.out[i]
  /\ \A i \in DOMAIN q.out : i > Len(p.out) => q.out[i].type # "requestExport"
Keeps(p, q, Y) ==
  /\ q.here = p.here /\ SameOuts(p, q)
  /\ \A id : /\ Owns(p, id) => Owns(q, id) \/ Ended(q, id)
             /\ Comes(p, id) => Comes(q, id) \/ Owns(q, id) \/ Ended(q, id)
             /\ Comes(q, id) => Comes(p, id)
             /\ Has(q, id) => \/ Has(p, id) \/ id \in Y
                              \/ Comes(p, id) /\ (Owns(q, id) \/ Ended(q, id))

(* Parts of a page that a step may leave alone. *)
SameRest(p, q) ==
  q.here = p.here /\ q.refs = p.refs /\ q.staged = p.staged /\ q.in = p.in /\ q.view = p.view /\ q.started = p.started
WithRuns(p, runs) == [p EXCEPT !.runs = runs]
SameWork(p, q) == q.tasks = p.tasks /\ q.queued = p.queued /\ q.runs = p.runs

-----------------------------------------------------------------------------
TabsOf(s) == {t \in DOMAIN page : Session(t) = s}
Issued == scene.exports - left.exports

(* The export a session asks for: a tab that knows of it has yet to end it, and somebody knows. *)
RequestsHeld == \A s \in Sessions : worker.request[s] # 0 =>
  /\ \A t \in TabsOf(s) \cap Here : Has(page[t], worker.request[s]) =>
        Owns(page[t], worker.request[s]) \/ Consumes(page[t], worker.request[s])
  /\ TabsOf(s) \subseteq Here => \E t \in TabsOf(s) :
        \/ Comes(page[t], worker.request[s]) \/ Owns(page[t], worker.request[s])
        \/ Consumes(page[t], worker.request[s])

(* The bar a session shows has a tab that will end it. *)
BarsHeld == \A s \in Sessions : worker.progress[s].stage \in Running /\ TabsOf(s) \subseteq Here =>
  \E t \in TabsOf(s) : \/ Comes(page[t], worker.progress[s].id) \/ Owns(page[t], worker.progress[s].id)
                       \/ Finishes(page[t], worker.progress[s].id)

(* Numbers are given once: what a tab still asks for is known nowhere. *)
IdsGiven == \A t \in DOMAIN page : \A id \in Ids :
  Has(page[t], id) \/ Comes(page[t], id) \/ Asks(page[t], id) => id <= Issued
AsksOnce == \A t, u \in DOMAIN page : \A i \in DOMAIN page[t].out, j \in DOMAIN page[u].out :
  page[t].out[i].type = "requestExport" /\ page[u].out[j].type = "requestExport"
    /\ page[t].out[i].id = page[u].out[j].id => u = t /\ j = i
AsksForNew == \A t, u \in DOMAIN page : \A id \in Ids :
  Asks(page[t], id) => ~Has(page[u], id) /\ ~Comes(page[u], id)

ExportsInv == RequestsHeld /\ BarsHeld /\ IdsGiven /\ AsksOnce /\ AsksForNew

TasksInv == TypeInv /\ (\A t \in DOMAIN page : PageInv(page[t])) /\ ExportsInv
-----------------------------------------------------------------------------
(* The table. *)

LEMMA IntentsAreNotImport == "import" \notin Intents
BY DEF Intents

LEMMA TasksHave ==
  ASSUME NEW x \in Tasks
  PROVE  /\ x.intent \in Intents \cup {"import"} /\ x.status \in Statuses
         /\ x.intent \in Intents => x.data.id \in Ids
BY DEF Tasks, ExportTasks, ImportTasks, Requests, Intents

(* A new task, which replaces the one that is queued for its intent. *)
TaskReplaces(tasks, queued, intent, new, nq) ==
  /\ tasks \in Seq(Tasks) /\ queued \in [Intents -> 0..Len(tasks)] /\ intent \in Intents
  /\ new \in Seq(Tasks) /\ Len(new) = Len(tasks) + 1
  /\ new[Len(tasks) + 1].intent = intent /\ new[Len(tasks) + 1].status = "active"
  /\ \A i \in DOMAIN tasks : /\ new[i].intent = tasks[i].intent
                             /\ i # queued[intent] => new[i].status = tasks[i].status
                             /\ i = queued[intent] => new[i].status = "dropped"
  /\ nq \in [Intents -> Nat] /\ nq[intent] = Len(tasks) + 1
  /\ \A i \in Intents : i # intent => nq[i] = queued[i]

LEMMA InStepDispatch ==
  ASSUME NEW tasks, NEW queued, NEW running, running \subseteq DOMAIN tasks, InStep(tasks, queued, running),
         NEW intent, NEW new, NEW nq, TaskReplaces(tasks, queued, intent, new, nq)
  PROVE  InStep(new, nq, running \cup {Len(tasks) + 1})
<1> USE DEF TaskReplaces
<1> DEFINE n == Len(tasks) + 1
           old == {i \in DOMAIN tasks : tasks[i].status = "active"}
           active == {i \in DOMAIN new : new[i].status = "active"}
<1>1. DOMAIN tasks = 1..Len(tasks) /\ DOMAIN new = 1..n /\ Len(tasks) \in Nat /\ n \notin DOMAIN tasks /\ n # 0
      /\ DOMAIN new = DOMAIN tasks \cup {n}
  BY LenProperties
<1>2. /\ old \subseteq running
      /\ \A i \in running \ old : tasks[i].status = "dropped" /\ \E j \in DOMAIN tasks : j > i /\ tasks[j].intent = tasks[i].intent
      /\ \A x \in Intents : {i \in old : tasks[i].intent = x} = {queued[x]} \ {0}
  BY DEF InStep
<1>a. new[n].intent = intent /\ new[n].status = "active" /\ nq[intent] = n
  OBVIOUS
<1> HIDE DEF n, old, active
<1>3. active = (old \ {queued[intent]}) \cup {n}
  BY <1>1, <1>a DEF old, active
<1>4. active \subseteq running \cup {n}
  BY <1>2, <1>3
<1>5. ASSUME NEW i \in (running \cup {n}) \ active
      PROVE  new[i].status = "dropped" /\ \E j \in DOMAIN new : j > i /\ new[j].intent = new[i].intent
  <2>1. i \in running /\ i # n /\ i \in DOMAIN tasks
    BY <1>3
  <2>2. CASE i = queued[intent]
    <3>1. n > i
      BY <1>1, <2>1 DEF n
    <3>2. {k \in old : tasks[k].intent = intent} = {queued[intent]} \ {0}
      BY <1>2
    <3>3. tasks[i].intent = intent \/ i \notin old
      BY <3>2, <2>2, <2>1, <1>1
    <3>4. CASE i \in old
      BY <3>1, <3>3, <3>4, <2>1, <2>2, <1>1, <1>a
    <3>5. CASE i \notin old
      <4>2. i # 0
        BY <2>1, <1>1
      <4> QED BY <3>2, <4>2, <2>2, <3>5
    <3> QED BY <3>4, <3>5
  <2>3. CASE i # queued[intent]
    <3>1. i \in running \ old
      BY <2>1, <2>3, <1>3
    <3>2. PICK j \in DOMAIN tasks : j > i /\ tasks[j].intent = tasks[i].intent
      BY <3>1, <1>2
    <3> QED BY <3>1, <3>2, <2>1, <2>3, <1>1, <1>2
  <2> QED BY <2>2, <2>3
<1>6. ASSUME NEW x \in Intents
      PROVE  {i \in active : new[i].intent = x} = {nq[x]} \ {0}
  <2>1. {i \in old : tasks[i].intent = x} = {queued[x]} \ {0}
    BY <1>2
  <2>2. old \subseteq DOMAIN tasks
    BY DEF old
  <2>3. CASE x = intent
    <3>1. \A i \in old : i # queued[intent] => tasks[i].intent # x
      BY <2>1, <2>3
    <3>2. \A i \in active : new[i].intent = x <=> i = n
      BY <3>1, <2>2, <2>3, <1>1, <1>3, <1>a
    <3>3. {i \in active : new[i].intent = x} = {n}
      BY <3>2, <1>3
    <3> QED BY <3>3, <2>3, <1>1, <1>a
  <2>4. CASE x # intent
    <3>1. \A i \in old : tasks[i].intent = x => i # queued[intent]
      <4> SUFFICES ASSUME NEW i \in old, tasks[i].intent = x, i = queued[intent] PROVE FALSE
        OBVIOUS
      <4>1. i \in {queued[intent]} \ {0}
        BY <2>2, <1>1
      <4>2. i \in {k \in old : tasks[k].intent = intent}
        BY <4>1, <1>2
      <4> QED BY <4>2, <2>4
    <3>2. {i \in active : new[i].intent = x} = {i \in old : tasks[i].intent = x}
      BY <3>1, <2>2, <2>4, <1>1, <1>3, <1>a
    <3>3. nq[x] = queued[x]
      BY <2>4
    <3> QED BY <3>2, <3>3, <2>1
  <2> QED BY <2>3, <2>4
<1>7. active = {i \in DOMAIN new : new[i].status = "active"}
  BY DEF active
<1> QED BY <1>4, <1>5, <1>6, <1>7 DEF InStep, n

(* A new task that replaces none. *)
TaskJoins(tasks, new) ==
  /\ tasks \in Seq(Tasks) /\ new \in Seq(Tasks) /\ Len(new) = Len(tasks) + 1
  /\ new[Len(tasks) + 1].intent = "import" /\ new[Len(tasks) + 1].status = "active"
  /\ \A i \in DOMAIN tasks : new[i] = tasks[i]

LEMMA InStepAppend ==
  ASSUME NEW tasks, NEW queued, NEW running, running \subseteq DOMAIN tasks,
         InStep(tasks, queued, running), NEW new, TaskJoins(tasks, new)
  PROVE  InStep(new, queued, running \cup {Len(tasks) + 1})
<1> USE DEF TaskJoins
<1> DEFINE n == Len(tasks) + 1
           old == {i \in DOMAIN tasks : tasks[i].status = "active"}
           active == {i \in DOMAIN new : new[i].status = "active"}
<1>1. DOMAIN tasks = 1..Len(tasks) /\ DOMAIN new = 1..n /\ Len(tasks) \in Nat /\ n \notin DOMAIN tasks
      /\ DOMAIN new = DOMAIN tasks \cup {n}
  BY LenProperties
<1>2. /\ old \subseteq running
      /\ \A i \in running \ old : tasks[i].status = "dropped" /\ \E j \in DOMAIN tasks : j > i /\ tasks[j].intent = tasks[i].intent
      /\ \A x \in Intents : {i \in old : tasks[i].intent = x} = {queued[x]} \ {0}
  BY DEF InStep
<1>a. new[n].intent = "import" /\ new[n].status = "active"
  OBVIOUS
<1> HIDE DEF n, old, active
<1>3. active = old \cup {n} /\ old \subseteq DOMAIN tasks
  BY <1>1, <1>a DEF old, active
<1>4. \A i \in (running \cup {n}) \ active :
        new[i].status = "dropped" /\ \E j \in DOMAIN new : j > i /\ new[j].intent = new[i].intent
  BY <1>1, <1>2, <1>3
<1>5. \A x \in Intents : {i \in active : new[i].intent = x} = {queued[x]} \ {0}
  <2> SUFFICES ASSUME NEW x \in Intents PROVE {i \in active : new[i].intent = x} = {queued[x]} \ {0}
    OBVIOUS
  <2>1. {i \in active : new[i].intent = x} = {i \in old : tasks[i].intent = x}
    BY <1>1, <1>3, <1>a, IntentsAreNotImport
  <2> QED BY <2>1, <1>2
<1>7. active = {i \in DOMAIN new : new[i].status = "active"}
  BY DEF active
<1>8. active \subseteq running \cup {n}
  BY <1>2, <1>3
<1> QED BY <1>4, <1>5, <1>7, <1>8 DEF InStep, n

(* A task ends, and what runs for it with it. *)
TaskEnds(tasks, queued, task, new, nq) ==
  /\ tasks \in Seq(Tasks) /\ queued \in [Intents -> Nat] /\ task \in DOMAIN tasks
  /\ new \in Seq(Tasks) /\ DOMAIN new = DOMAIN tasks
  /\ \A i \in DOMAIN tasks : new[i].intent = tasks[i].intent /\ (i # task => new[i].status = tasks[i].status)
  /\ new[task].status # "active"
  /\ \A i \in Intents : (queued[i] = task => nq[i] = 0) /\ (queued[i] # task => nq[i] = queued[i])

LEMMA InStepEnd ==
  ASSUME NEW tasks, NEW queued, NEW running, running \subseteq DOMAIN tasks, InStep(tasks, queued, running),
         NEW task, NEW new, NEW nq, TaskEnds(tasks, queued, task, new, nq)
  PROVE  InStep(new, nq, running \ {task})
<1>a. /\ tasks \in Seq(Tasks) /\ queued \in [Intents -> Nat] /\ task \in DOMAIN tasks
      /\ new \in Seq(Tasks) /\ DOMAIN new = DOMAIN tasks
      /\ \A i \in DOMAIN tasks : new[i].intent = tasks[i].intent /\ (i # task => new[i].status = tasks[i].status)
      /\ new[task].status # "active"
      /\ \A i \in Intents : (queued[i] = task => nq[i] = 0) /\ (queued[i] # task => nq[i] = queued[i])
  BY DEF TaskEnds
<1> DEFINE after == running \ {task}
           old == {i \in DOMAIN tasks : tasks[i].status = "active"}
           active == {i \in DOMAIN new : new[i].status = "active"}
<1>2. /\ old \subseteq running
      /\ \A i \in running \ old : tasks[i].status = "dropped" /\ \E j \in DOMAIN tasks : j > i /\ tasks[j].intent = tasks[i].intent
      /\ \A x \in Intents : {i \in old : tasks[i].intent = x} = {queued[x]} \ {0}
  BY DEF InStep
<1>3. active = old \ {task} /\ old \subseteq DOMAIN tasks
  BY <1>a
<1>7. active = {i \in DOMAIN new : new[i].status = "active"}
  OBVIOUS
<1>9. after = running \ {task}
  OBVIOUS
<1> HIDE DEF old, active, after
<1>6. task # 0
  BY <1>a, LenProperties
<1>4. active \subseteq after
  BY <1>a, <1>2, <1>3, <1>9
<1>5. \A i \in after \ active : new[i].status = "dropped" /\ \E j \in DOMAIN new : j > i /\ new[j].intent = new[i].intent
  <2> SUFFICES ASSUME NEW i \in after \ active
               PROVE  new[i].status = "dropped" /\ \E j \in DOMAIN new : j > i /\ new[j].intent = new[i].intent
    OBVIOUS
  <2>1. i \in running \ old /\ i # task
    BY <1>a, <1>3, <1>9
  <2>2. tasks[i].status = "dropped"
    BY <2>1, <1>2
  <2> QED BY <1>a, <2>1, <2>2, <1>2, <1>9
<1>8. \A x \in Intents : {i \in active : new[i].intent = x} = {nq[x]} \ {0}
  <2> SUFFICES ASSUME NEW x \in Intents PROVE {i \in active : new[i].intent = x} = {nq[x]} \ {0}
    OBVIOUS
  <2>1. {i \in active : new[i].intent = x} = {i \in old : tasks[i].intent = x} \ {task}
    BY <1>a, <1>3
  <2>2. {i \in old : tasks[i].intent = x} = {queued[x]} \ {0}
    BY <1>2
  <2>3. ({queued[x]} \ {0}) \ {task} = {nq[x]} \ {0}
    BY <1>a, <1>6
  <2> QED BY <2>1, <2>2, <2>3
<1> QED BY <1>4, <1>5, <1>7, <1>8 DEF InStep, after
-----------------------------------------------------------------------------
(* What each operator does to the fields of a page. *)

LEMMA PageFields ==
  ASSUME NEW p \in PageSet
  PROVE  /\ p.here \in BOOLEAN /\ p.refs \in Nat /\ p.staged \in StagedSet /\ p.started \subseteq Nat
         /\ p.tasks \in Seq(Tasks) /\ p.queued \in [Intents -> Nat] /\ p.runs \subseteq Runs
         /\ p.downloaded \subseteq Ids /\ p.serves \subseteq Files /\ p.view \in ViewSet
         /\ p.in \in Seq(InSet) /\ p.out \in Seq(OutSet)
BY DEF PageSet, QueuedSet

LEMMA MessageSets ==
  /\ \A id \in Ids, stage \in Stages : Progress(id, stage) \in OutSet
  /\ \A id \in Ids : Consume(id) \in OutSet
  /\ \A h \in Nat, stage \in Stages : ImportProgress(h, stage) \in OutSet
BY DEF Progress, Consume, ImportProgress, OutSet, ProgressSet, ConsumeSet, ImportProgressSet

LEMMA RunFields ==
  ASSUME NEW r \in Runs
  PROVE  /\ r.task \in Nat /\ r.type \in {"export", "import"}
         /\ r.type = "export" => r \in ExportRuns /\ r.id \in Ids
         /\ r.type = "import" => r \in ImportRuns /\ r.handle \in Nat /\ r.project \in Projects /\ r.files \in Seq(Files) /\ r.files # <<>>
BY DEF Runs, ExportRuns, ImportRuns

LEMMA SentFields ==
  ASSUME NEW p \in PageSet, NEW m \in OutSet, NEW q, q = Sent(p, m)
  PROVE  q \in PageSet /\ q.out = Append(p.out, m) /\ SameRest(p, q) /\ SameWork(p, q)
         /\ q.downloaded = p.downloaded /\ q.serves = p.serves
<1>1. Append(p.out, m) \in Seq(OutSet)
  BY PageFields
<1>2. q = [p EXCEPT !.out = Append(p.out, m)]
  BY DEF Sent
<1> QED BY <1>1, <1>2 DEF PageSet, SameRest, SameWork

LEMMA RunsFields ==
  ASSUME NEW p \in PageSet, NEW runs, runs \subseteq Runs, NEW q, q = WithRuns(p, runs)
  PROVE  q \in PageSet /\ q.runs = runs /\ SameRest(p, q) /\ q.tasks = p.tasks /\ q.queued = p.queued /\ q.out = p.out
         /\ q.downloaded = p.downloaded /\ q.serves = p.serves
BY DEF PageSet, SameRest, WithRuns

LEMMA DispatchExportFields ==
  ASSUME NEW p \in PageSet, NEW intent \in Intents, NEW data \in Requests("export"),
         p.queued \in [Intents -> 0..Len(p.tasks)],
         NEW q, q = DispatchTask(p, intent, data)
  PROVE  /\ q \in PageSet /\ SameRest(p, q) /\ q.out = p.out /\ q.runs = p.runs
         /\ Len(q.tasks) = Len(p.tasks) + 1 /\ q.tasks \in Seq(Tasks)
         /\ q.tasks[Len(p.tasks) + 1] = [intent |-> intent, data |-> data, status |-> "active"]
         /\ \A i \in DOMAIN p.tasks : /\ q.tasks[i].intent = p.tasks[i].intent /\ q.tasks[i].data = p.tasks[i].data
                                      /\ i # p.queued[intent] => q.tasks[i].status = p.tasks[i].status
                                      /\ i = p.queued[intent] => q.tasks[i].status = "dropped"
         /\ q.queued \in [Intents -> Nat] /\ q.queued[intent] = Len(p.tasks) + 1
         /\ \A i \in Intents : i # intent => q.queued[i] = p.queued[i]
<1> DEFINE new == [intent |-> intent, data |-> data, status |-> "active"]
           old == p.queued[intent]
           long == Append(p.tasks, new)
           tasks == IF old = 0 THEN long ELSE [long EXCEPT ![old].status = "dropped"]
           queued == [p.queued EXCEPT ![intent] = Len(p.tasks) + 1]
<1>1. new \in Tasks
  BY DEF Tasks, ExportTasks, Statuses
<1>2. long \in Seq(Tasks) /\ Len(long) = Len(p.tasks) + 1 /\ Len(p.tasks) \in Nat
      /\ DOMAIN long = 1..Len(p.tasks) + 1 /\ DOMAIN p.tasks = 1..Len(p.tasks)
      /\ long[Len(p.tasks) + 1] = new /\ \A i \in 1..Len(p.tasks) : long[i] = p.tasks[i]
  BY <1>1, PageFields
<1>3. old \in 0..Len(p.tasks)
  OBVIOUS
<1> HIDE DEF long, new
<1>4. tasks \in Seq(Tasks) /\ Len(tasks) = Len(p.tasks) + 1 /\ tasks[Len(p.tasks) + 1] = new
      /\ \A i \in DOMAIN p.tasks : /\ tasks[i].intent = p.tasks[i].intent /\ tasks[i].data = p.tasks[i].data
                                   /\ i # old => tasks[i].status = p.tasks[i].status
                                   /\ i = old => tasks[i].status = "dropped"
  <2>1. CASE old = 0
    BY <1>2, <2>1
  <2>2. CASE old # 0
    <3>1. old \in 1..Len(p.tasks) /\ long[old] \in Tasks /\ long[old] = p.tasks[old]
      BY <2>2, <1>3, <1>2, ElementOfSeq
    <3>2. [long[old] EXCEPT !.status = "dropped"] \in Tasks
      BY <3>1 DEF Tasks, ExportTasks, ImportTasks, Statuses
    <3>3. tasks = [long EXCEPT ![old] = [long[old] EXCEPT !.status = "dropped"]]
      BY <2>2
    <3>4. tasks \in Seq(Tasks) /\ Len(tasks) = Len(p.tasks) + 1 /\ DOMAIN tasks = 1..Len(p.tasks) + 1
          /\ \A i \in 1..Len(p.tasks) + 1 : tasks[i] = IF i = old THEN [long[old] EXCEPT !.status = "dropped"] ELSE long[i]
      BY <3>1, <3>2, <3>3, <1>2, ExceptSeq
    <3>5. /\ [long[old] EXCEPT !.status = "dropped"].status = "dropped"
          /\ [long[old] EXCEPT !.status = "dropped"].intent = long[old].intent
          /\ [long[old] EXCEPT !.status = "dropped"].data = long[old].data
      BY <3>1 DEF Tasks, ExportTasks, ImportTasks
    <3> QED BY <3>1, <3>4, <3>5, <1>2
  <2> QED BY <2>1, <2>2
<1>5. queued \in [Intents -> Nat] /\ queued[intent] = Len(p.tasks) + 1
      /\ \A i \in Intents : i # intent => queued[i] = p.queued[i]
  BY <1>2, PageFields
<1>6. q = [p EXCEPT !.tasks = tasks, !.queued = queued]
  <2>1. [p EXCEPT !.tasks = long].queued = p.queued /\ [p EXCEPT !.tasks = long].tasks = long
    BY DEF PageSet
  <2>2. q = [[p EXCEPT !.tasks = long] EXCEPT !.queued[intent] = Len(p.tasks) + 1,
                !.tasks = IF old = 0 THEN [p EXCEPT !.tasks = long].tasks ELSE [[p EXCEPT !.tasks = long].tasks EXCEPT ![old].status = "dropped"]]
    BY DEF DispatchTask, long, new
  <2> QED BY <2>1, <2>2 DEF PageSet
<1> HIDE DEF tasks, queued, old
<1>7. q \in PageSet /\ SameRest(p, q) /\ q.out = p.out /\ q.runs = p.runs /\ q.tasks = tasks /\ q.queued = queued
  BY <1>6, <1>4, <1>5 DEF PageSet, QueuedSet, SameRest
<1> QED BY <1>7, <1>4, <1>5 DEF new, old
LEMMA DispatchImportFields ==
  ASSUME NEW p \in PageSet, NEW data \in [id : {0}, handle : Nat],
         NEW q, q = DispatchTask(p, "import", data)
  PROVE  /\ q \in PageSet /\ SameRest(p, q) /\ q.out = p.out /\ q.runs = p.runs /\ q.queued = p.queued
         /\ Len(q.tasks) = Len(p.tasks) + 1 /\ q.tasks \in Seq(Tasks)
         /\ q.tasks[Len(p.tasks) + 1] = [intent |-> "import", data |-> data, status |-> "active"]
         /\ \A i \in DOMAIN p.tasks : q.tasks[i] = p.tasks[i]
<1> DEFINE new == [intent |-> "import", data |-> data, status |-> "active"]
           long == Append(p.tasks, new)
<1>1. new \in Tasks
  BY DEF Tasks, ImportTasks, Statuses
<1>2. long \in Seq(Tasks) /\ Len(long) = Len(p.tasks) + 1 /\ Len(p.tasks) \in Nat /\ DOMAIN p.tasks = 1..Len(p.tasks)
      /\ long[Len(p.tasks) + 1] = new /\ \A i \in 1..Len(p.tasks) : long[i] = p.tasks[i]
  BY <1>1, PageFields
<1>3. q = [p EXCEPT !.tasks = long]
  BY IntentsAreNotImport DEF DispatchTask
<1> HIDE DEF long
<1>4. q \in PageSet /\ SameRest(p, q) /\ q.out = p.out /\ q.runs = p.runs /\ q.tasks = long /\ q.queued = p.queued
  BY <1>3, <1>2 DEF PageSet, SameRest
<1> QED BY <1>4, <1>2

LEMMA EndTaskFields ==
  ASSUME NEW p \in PageSet, NEW task \in DOMAIN p.tasks, NEW status \in {"completed", "failed"},
         NEW q, q = EndTask(p, task, status)
  PROVE  /\ q \in PageSet /\ SameRest(p, q) /\ q.out = p.out /\ q.tasks \in Seq(Tasks)
         /\ q.runs = {r \in p.runs : r.task # task}
         /\ Len(q.tasks) = Len(p.tasks) /\ DOMAIN q.tasks = DOMAIN p.tasks
         /\ \A i \in DOMAIN p.tasks : /\ q.tasks[i].intent = p.tasks[i].intent /\ q.tasks[i].data = p.tasks[i].data
                                      /\ i # task => q.tasks[i].status = p.tasks[i].status
         /\ q.tasks[task].status # "active"
         /\ \A i \in Intents : q.queued[i] = IF p.queued[i] = task THEN 0 ELSE p.queued[i]
         /\ q.queued \in [Intents -> Nat]
<1> DEFINE st == IF p.tasks[task].status = "active" THEN status ELSE p.tasks[task].status
           ended == [p.tasks[task] EXCEPT !.status = st]
           tasks == [p.tasks EXCEPT ![task] = ended]
           queued == [i \in Intents |-> IF p.queued[i] = task THEN 0 ELSE p.queued[i]]
           runs == {r \in p.runs : r.task # task}
<1>1. p.tasks[task] \in Tasks /\ p.tasks \in Seq(Tasks) /\ DOMAIN p.tasks = 1..Len(p.tasks) /\ Len(p.tasks) \in Nat
  BY PageFields, ElementOfSeq
<1>2. st \in Statuses /\ st # "active"
  BY <1>1, TasksHave DEF Statuses
<1>3. ended \in Tasks /\ ended.status = st /\ ended.intent = p.tasks[task].intent /\ ended.data = p.tasks[task].data
  <2> HIDE DEF st
  <2> QED BY <1>1, <1>2 DEF Tasks, ExportTasks, ImportTasks
<1> HIDE DEF ended
<1>4. tasks \in Seq(Tasks) /\ Len(tasks) = Len(p.tasks) /\ DOMAIN tasks = DOMAIN p.tasks
      /\ \A i \in DOMAIN p.tasks : tasks[i] = IF i = task THEN ended ELSE p.tasks[i]
  BY <1>1, <1>3, ExceptSeq
<1>5. queued \in [Intents -> Nat] /\ runs \subseteq Runs
  BY PageFields
<1>6. q = [p EXCEPT !.tasks = tasks, !.queued = queued, !.runs = runs]
  BY DEF EndTask, ended
<1>8. \A i \in Intents : queued[i] = IF p.queued[i] = task THEN 0 ELSE p.queued[i]
  OBVIOUS
<1> HIDE DEF tasks, queued, runs, st
<1>7. q \in PageSet /\ SameRest(p, q) /\ q.out = p.out /\ q.runs = runs /\ q.tasks = tasks /\ q.queued = queued
  BY <1>6, <1>4, <1>5 DEF PageSet, QueuedSet, SameRest
<1>9. /\ \A i \in DOMAIN p.tasks : /\ tasks[i].intent = p.tasks[i].intent /\ tasks[i].data = p.tasks[i].data
                                   /\ i # task => tasks[i].status = p.tasks[i].status
      /\ tasks[task].status # "active"
  BY <1>4, <1>3, <1>2
<1>10. runs = {r \in p.runs : r.task # task}
  BY DEF runs
<1> QED BY <1>7, <1>4, <1>5, <1>8, <1>9, <1>10

-----------------------------------------------------------------------------
(* Answers owed. *)

LEMMA KeepsTrans ==
  ASSUME NEW p, NEW q, NEW r, NEW Y, NEW Z, p.out \in Seq(OutSet), q.out \in Seq(OutSet), r.out \in Seq(OutSet),
         Keeps(p, q, Y), Keeps(q, r, Z)
  PROVE  Keeps(p, r, Y \cup Z)
<1>1. DOMAIN p.out = 1..Len(p.out) /\ DOMAIN q.out = 1..Len(q.out) /\ DOMAIN r.out = 1..Len(r.out)
      /\ Len(p.out) \in Nat /\ Len(q.out) \in Nat /\ Len(r.out) \in Nat
  OBVIOUS
<1>2. SameOuts(p, q) /\ SameOuts(q, r) /\ r.here = p.here
  BY DEF Keeps
<1>3. SameOuts(p, r)
  <2>1. DOMAIN p.out \subseteq DOMAIN q.out /\ DOMAIN q.out \subseteq DOMAIN r.out
    BY <1>1, <1>2 DEF SameOuts
  <2>2. \A i \in DOMAIN r.out : i > Len(p.out) => r.out[i].type # "requestExport"
    <3> SUFFICES ASSUME NEW i \in DOMAIN r.out, i > Len(p.out) PROVE r.out[i].type # "requestExport"
      OBVIOUS
    <3>1. CASE i > Len(q.out)
      BY <3>1, <1>2 DEF SameOuts
    <3>2. CASE ~(i > Len(q.out))
      <4>1. i \in DOMAIN q.out
        BY <3>2, <1>1
      <4> QED BY <4>1, <1>2 DEF SameOuts
    <3> QED BY <3>1, <3>2
  <2> QED BY <2>1, <2>2, <1>1, <1>2 DEF SameOuts
<1>4. \A id : Ended(q, id) => Ended(r, id)
  <2>1. DOMAIN q.out \subseteq DOMAIN r.out /\ \A i \in DOMAIN q.out : r.out[i] = q.out[i]
    BY <1>1, <1>2 DEF SameOuts
  <2> QED BY <2>1 DEF Ended, Consumes, Finishes
<1> QED BY <1>2, <1>3, <1>4 DEF Keeps

LEMMA InStepKnows ==
  ASSUME NEW p \in PageSet, NEW X, NEW Y, PageBut(p, X, Y)
  PROVE  RunTasks(p.runs) \subseteq DOMAIN p.tasks /\ X \subseteq DOMAIN p.tasks
BY DEF PageBut, RunTasks, RunsHaveTasks, RunHasTask

(* A message is sent; of one that starts a bar the page has an executor, or is excused. *)
LEMMA Sends ==
  ASSUME NEW p, NEW X, NEW Y, PageBut(p, X, Y), NEW m \in OutSet,
         NEW Z, Y \subseteq Z, Starts(m) => Owns(p, m.id) \/ m.id \in Z,
         NEW q, q = Sent(p, m)
  PROVE  PageBut(q, X, Z) /\ (m.type # "requestExport" => Keeps(p, q, {})) /\ SameRest(p, q) /\ SameWork(p, q)
<1>1. p \in PageSet /\ p.out \in Seq(OutSet)
  BY PageFields DEF PageBut
<1>2. q \in PageSet /\ q.out = Append(p.out, m) /\ SameRest(p, q) /\ SameWork(p, q)
  BY <1>1, SentFields
<1>3. Len(p.out) \in Nat /\ DOMAIN p.out = 1..Len(p.out) /\ DOMAIN q.out = 1..Len(p.out) + 1 /\ Len(q.out) = Len(p.out) + 1
      /\ q.out[Len(p.out) + 1] = m /\ \A i \in DOMAIN p.out : q.out[i] = p.out[i]
  BY <1>1, <1>2
<1>4. \A id : (Owns(q, id) <=> Owns(p, id)) /\ (Comes(q, id) <=> Comes(p, id)) /\ (Has(q, id) <=> Has(p, id))
  BY <1>2 DEF SameRest, SameWork, Owns, Comes, Has
<1>5. m.type # "requestExport" => Keeps(p, q, {})
  BY <1>2, <1>3, <1>4 DEF Keeps, SameOuts, SameRest
<1>6. p.here => BarsEnd(q, Z)
  <2> SUFFICES ASSUME p.here, NEW i \in DOMAIN q.out, Starts(q.out[i])
               PROVE  Owns(q, q.out[i].id) \/ (\E j \in DOMAIN q.out : j > i /\ Final(q.out[j], q.out[i].id)) \/ q.out[i].id \in Z
    BY DEF BarsEnd
  <2>1. BarsEnd(p, Y)
    BY DEF PageBut
  <2>2. CASE i \in DOMAIN p.out
    BY <2>1, <2>2, <1>3, <1>4 DEF BarsEnd
  <2>3. CASE i = Len(p.out) + 1
    BY <2>3, <1>3, <1>4
  <2> QED BY <2>2, <2>3, <1>3
<1>7. PageBut(q, X, Z)
  BY <1>2, <1>6 DEF PageBut, SameRest, SameWork
<1> QED BY <1>2, <1>5, <1>7

(* Parts of the page change that no task or message is in. *)
LEMMA Beside ==
  ASSUME NEW p, NEW X, NEW Y, PageBut(p, X, Y), NEW q \in PageSet, SameWork(p, q),
         q.here = p.here, q.in = p.in, q.out = p.out, DOMAIN q.staged \subseteq 1..q.refs
  PROVE  PageBut(q, X, Y) /\ Keeps(p, q, {})
<1>1. \A id : (Owns(q, id) <=> Owns(p, id)) /\ (Comes(q, id) <=> Comes(p, id)) /\ (Has(q, id) <=> Has(p, id))
  BY DEF SameWork, Owns, Comes, Has
<1>2. Len(q.out) \in Nat /\ DOMAIN q.out = 1..Len(q.out)
  BY PageFields
<1>3. Keeps(p, q, {})
  BY <1>1, <1>2 DEF Keeps, SameOuts
<1>4. BarsEnd(p, Y) => BarsEnd(q, Y)
  BY <1>1 DEF BarsEnd
<1> QED BY <1>3, <1>4 DEF PageBut, SameWork

(* The executor of an excused task starts, or goes on in its next state. *)
MayStart(p, r, Y) ==
  /\ r \in Runs /\ RunHasTask(r, p.tasks) /\ PageBut(p, {r.task}, Y)
  /\ \A id \in Y : r.type = "export" /\ r.id = id

LEMMA Starting ==
  ASSUME NEW p, NEW r, NEW Y, MayStart(p, r, Y), NEW q, q = WithRuns(p, p.runs \cup {r})
  PROVE  PageInv(q) /\ Keeps(p, q, {}) /\ SameRest(p, q) /\ q.out = p.out /\ q.tasks = p.tasks
         /\ q.runs = p.runs \cup {r}
<1>a. /\ r \in Runs /\ RunHasTask(r, p.tasks) /\ PageBut(p, {r.task}, Y)
      /\ \A id \in Y : r.type = "export" /\ r.id = id
  BY DEF MayStart
<1>1. p \in PageSet /\ p.out \in Seq(OutSet) /\ p.runs \subseteq Runs
  BY <1>a, PageFields DEF PageBut
<1>2. q \in PageSet /\ q.runs = p.runs \cup {r} /\ SameRest(p, q) /\ q.tasks = p.tasks /\ q.queued = p.queued /\ q.out = p.out
  <2> DEFINE runs == p.runs \cup {r}
  <2>1. runs \subseteq Runs /\ q = WithRuns(p, runs)
    BY <1>a, <1>1
  <2> HIDE DEF runs
  <2>2. q \in PageSet /\ q.runs = runs /\ SameRest(p, q) /\ q.tasks = p.tasks /\ q.queued = p.queued /\ q.out = p.out
    BY <2>1, <1>1, RunsFields
  <2> QED BY <2>2 DEF runs
<1>b. DOMAIN q.out = 1..Len(q.out) /\ Len(q.out) \in Nat
  BY <1>1, <1>2
<1>3. \A id : (Owns(p, id) => Owns(q, id)) /\ (Comes(q, id) <=> Comes(p, id)) /\ (Has(q, id) <=> Has(p, id))
  BY <1>2 DEF SameRest, Owns, Comes, Has
<1>e. q.out = p.out /\ q.here = p.here
  BY <1>2 DEF SameRest
<1>c. SameOuts(p, q)
  <2>1. Len(p.out) = Len(q.out) /\ DOMAIN p.out = DOMAIN q.out /\ \A i \in DOMAIN p.out : q.out[i] = p.out[i]
    BY <1>e
  <2>2. \A i \in DOMAIN q.out : ~(i > Len(q.out)) /\ Len(q.out) <= Len(q.out)
    BY <1>b
  <2> QED BY ONLY <2>1, <2>2, <1>b DEF SameOuts
<1>4. Keeps(p, q, {})
  BY <1>c, <1>e, <1>3 DEF Keeps
<1>5. RunTasks(q.runs) \cup {} = RunTasks(p.runs) \cup {r.task}
  BY <1>2 DEF RunTasks
<1>6. r.type = "export" => Owns(q, r.id)
  BY <1>2 DEF Owns
<1>7. BarsEnd(p, Y) => BarsEnd(q, {})
  <2> SUFFICES ASSUME BarsEnd(p, Y), NEW i \in DOMAIN q.out, Starts(q.out[i])
               PROVE  Owns(q, q.out[i].id) \/ (\E j \in DOMAIN q.out : j > i /\ Final(q.out[j], q.out[i].id)) \/ q.out[i].id \in {}
    BY DEF BarsEnd
  <2>1. Owns(p, p.out[i].id) \/ (\E j \in DOMAIN p.out : j > i /\ Final(p.out[j], p.out[i].id)) \/ p.out[i].id \in Y
    BY <1>2 DEF BarsEnd
  <2> QED BY <2>1, <1>a, <1>2, <1>3, <1>6
<1>8. RunsHaveTasks(q.runs, q.tasks)
  BY <1>a, <1>2 DEF RunsHaveTasks, PageBut
<1>9. q.here => InStep(q.tasks, q.queued, RunTasks(q.runs) \cup {}) /\ BarsEnd(q, {})
  BY <1>a, <1>2, <1>5, <1>7 DEF PageBut, SameRest
<1>10. PageInv(q)
  BY <1>a, <1>2, <1>8, <1>9 DEF PageInv, PageBut, SameRest
<1> QED BY <1>2, <1>4, <1>10

(* One that runs is taken out: its task is excused until it is put back. *)
ExcusedBy(run) == IF run.type = "export" THEN {run.id} ELSE {}

Taken(p, run, q) ==
  /\ PageBut(q, {run.task}, ExcusedBy(run))
  /\ run.type = "import" => Keeps(p, q, {})
  /\ SameRest(p, q) /\ q.out = p.out /\ q.tasks = p.tasks /\ q.runs = p.runs \ {run}
  /\ run.task \in DOMAIN p.tasks /\ RunHasTask(run, p.tasks) /\ run \in Runs
  /\ \A id : Owns(p, id) => Owns(q, id) \/ (run.type = "export" /\ run.id = id)

LEMMA Taking ==
  ASSUME NEW p, PageInv(p), NEW run \in p.runs, NEW q, q = WithRuns(p, p.runs \ {run})
  PROVE  Taken(p, run, q)
<1>1. p \in PageSet /\ p.out \in Seq(OutSet) /\ p.runs \subseteq Runs
  BY PageFields DEF PageInv, PageBut
<1>2. q \in PageSet /\ q.runs = p.runs \ {run} /\ SameRest(p, q) /\ q.tasks = p.tasks /\ q.queued = p.queued /\ q.out = p.out
  <2> DEFINE runs == p.runs \ {run}
  <2>1. runs \subseteq Runs /\ q = WithRuns(p, runs)
    BY <1>1
  <2> HIDE DEF runs
  <2>2. q \in PageSet /\ q.runs = runs /\ SameRest(p, q) /\ q.tasks = p.tasks /\ q.queued = p.queued /\ q.out = p.out
    BY <2>1, <1>1, RunsFields
  <2> QED BY <2>2 DEF runs
<1>b. DOMAIN q.out = 1..Len(q.out) /\ Len(q.out) \in Nat
  BY <1>1, <1>2
<1>3. \A id : (Comes(q, id) <=> Comes(p, id)) /\ (Has(q, id) <=> Has(p, id))
  BY <1>2 DEF SameRest, Comes, Has
<1>a. \A id : Owns(p, id) => Owns(q, id) \/ (run.type = "export" /\ run.id = id)
  BY <1>2 DEF Owns
<1>e. q.out = p.out /\ q.here = p.here
  BY <1>2 DEF SameRest
<1>c. SameOuts(p, q)
  <2>1. Len(p.out) = Len(q.out) /\ DOMAIN p.out = DOMAIN q.out /\ \A i \in DOMAIN p.out : q.out[i] = p.out[i]
    BY <1>e
  <2>2. \A i \in DOMAIN q.out : ~(i > Len(q.out)) /\ Len(q.out) <= Len(q.out)
    BY <1>b
  <2> QED BY ONLY <2>1, <2>2, <1>b DEF SameOuts
<1>4. run.type = "import" => Keeps(p, q, {})
  BY <1>c, <1>e, <1>3, <1>a DEF Keeps
<1>5. RunTasks(q.runs) \cup {run.task} = RunTasks(p.runs) \cup {}
  BY <1>2 DEF RunTasks
<1> DEFINE Y == ExcusedBy(run)
<1>7. BarsEnd(p, {}) => BarsEnd(q, Y)
  <2> SUFFICES ASSUME BarsEnd(p, {}), NEW i \in DOMAIN q.out, Starts(q.out[i])
               PROVE  Owns(q, q.out[i].id) \/ (\E j \in DOMAIN q.out : j > i /\ Final(q.out[j], q.out[i].id)) \/ q.out[i].id \in Y
    BY DEF BarsEnd
  <2>1. Owns(p, p.out[i].id) \/ (\E j \in DOMAIN p.out : j > i /\ Final(p.out[j], p.out[i].id))
    BY <1>2 DEF BarsEnd
  <2> QED BY <2>1, <1>2, <1>a DEF ExcusedBy
<1>8. RunsHaveTasks(q.runs, q.tasks) /\ RunHasTask(run, p.tasks) /\ run.task \in DOMAIN p.tasks
  BY <1>2 DEF RunsHaveTasks, PageInv, PageBut, RunHasTask
<1>9. q.here => InStep(q.tasks, q.queued, RunTasks(q.runs) \cup {run.task}) /\ BarsEnd(q, Y)
  BY <1>2, <1>5, <1>7 DEF PageInv, PageBut, SameRest
<1>10. PageBut(q, {run.task}, Y)
  BY <1>2, <1>8, <1>9 DEF PageInv, PageBut, SameRest
<1> QED BY <1>1, <1>2, <1>4, <1>8, <1>10, <1>a DEF Taken

(* A task ends: of an export the last bar and the answer have been sent. *)
AnswerSent(out, id) ==
  /\ Len(out) >= 2 /\ out[Len(out)].type = "consumeExportRequest" /\ out[Len(out)].id = id
  /\ Final(out[Len(out) - 1], id)

MayEnd(p, task, X, Y) ==
  /\ PageBut(p, X, Y) /\ task \in DOMAIN p.tasks /\ X \subseteq {task}
  /\ \/ p.tasks[task].intent = "import" /\ Y = {}
     \/ /\ p.tasks[task].intent \in Intents /\ Y \subseteq {p.tasks[task].data.id}
        /\ AnswerSent(p.out, p.tasks[task].data.id)

HasEnded(p, task, q) ==
  /\ PageInv(q) /\ Keeps(p, q, {}) /\ SameRest(p, q) /\ q.out = p.out
  /\ p.tasks[task].intent \in Intents => Ended(q, p.tasks[task].data.id)

LEMMA Ending ==
  ASSUME NEW p, NEW task, NEW X, NEW Y, MayEnd(p, task, X, Y),
         NEW status \in {"completed", "failed"}, NEW q, q = EndTask(p, task, status)
  PROVE  HasEnded(p, task, q)
<1>m. /\ PageBut(p, X, Y) /\ task \in DOMAIN p.tasks /\ X \subseteq {task}
      /\ \/ p.tasks[task].intent = "import" /\ Y = {}
         \/ /\ p.tasks[task].intent \in Intents /\ Y \subseteq {p.tasks[task].data.id}
            /\ AnswerSent(p.out, p.tasks[task].data.id)
  BY DEF MayEnd
<1>1. p \in PageSet /\ p.out \in Seq(OutSet) /\ p.runs \subseteq Runs /\ p.tasks \in Seq(Tasks)
      /\ Len(p.tasks) \in Nat /\ DOMAIN p.tasks = 1..Len(p.tasks) /\ DOMAIN p.out = 1..Len(p.out) /\ Len(p.out) \in Nat
  BY <1>m, PageFields DEF PageBut
<1>2. /\ q \in PageSet /\ SameRest(p, q) /\ q.out = p.out /\ q.tasks \in Seq(Tasks)
      /\ q.runs = {r \in p.runs : r.task # task}
      /\ Len(q.tasks) = Len(p.tasks) /\ DOMAIN q.tasks = DOMAIN p.tasks
      /\ \A i \in DOMAIN p.tasks : /\ q.tasks[i].intent = p.tasks[i].intent /\ q.tasks[i].data = p.tasks[i].data
                                   /\ i # task => q.tasks[i].status = p.tasks[i].status
      /\ q.tasks[task].status # "active"
      /\ \A i \in Intents : q.queued[i] = IF p.queued[i] = task THEN 0 ELSE p.queued[i]
      /\ q.queued \in [Intents -> Nat]
  BY <1>m, <1>1, EndTaskFields
<1>3. q.queued \in [Intents -> 0..Len(q.tasks)]
  <2>1. \A i \in Intents : q.queued[i] \in 0..Len(q.tasks)
    BY <1>m, <1>1, <1>2 DEF PageBut
  <2> QED BY <1>m, <2>1, <1>2
<1>4. RunsHaveTasks(q.runs, q.tasks)
  <2> SUFFICES ASSUME NEW r \in q.runs PROVE RunHasTask(r, q.tasks)
    BY DEF RunsHaveTasks
  <2>1. r \in p.runs /\ RunHasTask(r, p.tasks)
    BY <1>m, <1>2 DEF PageBut, RunsHaveTasks
  <2> QED BY <1>m, <2>1, <1>2 DEF RunHasTask
<1>5. RunTasks(q.runs) \cup {} = (RunTasks(p.runs) \cup X) \ {task}
  BY <1>m, <1>2 DEF RunTasks
<1>6. RunTasks(p.runs) \cup X \subseteq DOMAIN p.tasks
  BY <1>m, <1>1, InStepKnows
<1>7. p.here => InStep(q.tasks, q.queued, RunTasks(q.runs) \cup {})
  <2> SUFFICES ASSUME p.here PROVE InStep(q.tasks, q.queued, RunTasks(q.runs) \cup {})
    OBVIOUS
  <2>1. InStep(p.tasks, p.queued, RunTasks(p.runs) \cup X) /\ p.queued \in [Intents -> Nat]
    BY <1>m, <1>1, PageFields DEF PageBut
  <2> DEFINE running == RunTasks(p.runs) \cup X
  <2>2. running \subseteq DOMAIN p.tasks /\ RunTasks(q.runs) \cup {} = running \ {task} /\ InStep(p.tasks, p.queued, running)
    BY <1>m, <1>5, <1>6, <2>1
  <2> HIDE DEF running
  <2>3. TaskEnds(p.tasks, p.queued, task, q.tasks, q.queued)
    BY <1>m, <2>1, <1>1, <1>2 DEF TaskEnds
  <2>4. InStep(q.tasks, q.queued, running \ {task})
    BY ONLY <2>2, <2>3, InStepEnd
  <2> QED BY <1>m, <2>2, <2>4
<1>8. p.tasks[task].intent \in Intents => Ended(q, p.tasks[task].data.id)
  <2> SUFFICES ASSUME p.tasks[task].intent \in Intents PROVE Ended(q, p.tasks[task].data.id)
    OBVIOUS
  <2>1. AnswerSent(q.out, p.tasks[task].data.id) /\ Len(q.out) - 1 \in DOMAIN q.out /\ Len(q.out) \in DOMAIN q.out
    BY <1>m, <1>1, <1>2, IntentsAreNotImport DEF AnswerSent
  <2> QED BY <1>m, <2>1 DEF Ended, Consumes, Finishes, AnswerSent
<1>9. \A id : Owns(p, id) => Owns(q, id) \/ (p.tasks[task].intent \in Intents /\ id = p.tasks[task].data.id)
  <2> SUFFICES ASSUME NEW r \in p.runs, r.type = "export", r.task = task
               PROVE  p.tasks[task].intent \in Intents /\ r.id = p.tasks[task].data.id
    BY <1>m, <1>2 DEF Owns
  <2> QED BY <1>m DEF PageBut, RunsHaveTasks, RunHasTask
<1>10. \A id : (Comes(q, id) <=> Comes(p, id)) /\ (Has(q, id) <=> Has(p, id))
  BY <1>m, <1>2 DEF Comes, Has, SameRest
<1>11. Keeps(p, q, {})
  BY <1>m, <1>1, <1>2, <1>8, <1>9, <1>10 DEF Keeps, SameOuts, SameRest
<1>12. BarsEnd(p, Y) => BarsEnd(q, {})
  <2> SUFFICES ASSUME BarsEnd(p, Y), NEW i \in DOMAIN q.out, Starts(q.out[i])
               PROVE  Owns(q, q.out[i].id) \/ (\E j \in DOMAIN q.out : j > i /\ Final(q.out[j], q.out[i].id))
    BY DEF BarsEnd
  <2>1. Owns(p, q.out[i].id) \/ (\E j \in DOMAIN p.out : j > i /\ Final(p.out[j], q.out[i].id)) \/ q.out[i].id \in Y
    BY <1>m, <1>2 DEF BarsEnd
  <2>2. CASE p.tasks[task].intent \in Intents /\ q.out[i].id = p.tasks[task].data.id
    <3>1. AnswerSent(q.out, q.out[i].id)
      BY <1>m, <2>2, <1>2, IntentsAreNotImport
    <3>2. i # Len(q.out) /\ i # Len(q.out) - 1 /\ i \in 1..Len(q.out) /\ Len(q.out) >= 2
      BY <1>m, <3>1, <1>1, <1>2 DEF AnswerSent, Starts, Final, Running
    <3>3. Len(q.out) - 1 \in DOMAIN q.out /\ Len(q.out) - 1 > i
      BY <1>m, <3>2, <1>1, <1>2
    <3> QED BY <1>m, <3>1, <3>3 DEF AnswerSent
  <2>3. CASE ~(p.tasks[task].intent \in Intents /\ q.out[i].id = p.tasks[task].data.id)
    <3>1. q.out[i].id \notin Y
      BY <1>m, <2>3
    <3> QED BY <1>m, <3>1, <2>1, <2>3, <1>2, <1>9
  <2> QED BY <1>m, <2>2, <2>3
<1>13. q.here => InStep(q.tasks, q.queued, RunTasks(q.runs) \cup {}) /\ BarsEnd(q, {})
  BY <1>m, <1>2, <1>7, <1>12 DEF PageBut, SameRest
<1>14. PageInv(q)
  BY <1>m, <1>2, <1>3, <1>4, <1>13 DEF PageInv, PageBut, SameRest
<1> QED BY <1>2, <1>8, <1>11, <1>14 DEF HasEnded

(* A new task is excused until its executor starts or it ends. *)
ExportDispatched(p, q, n, intent, id) ==
  /\ PageBut(q, {n}, {}) /\ Keeps(p, q, {id}) /\ SameRest(p, q) /\ q.out = p.out /\ q.runs = p.runs
  /\ n \in DOMAIN q.tasks /\ q.tasks[n].intent = intent /\ q.tasks[n].data.id = id

LEMMA DispatchingExport ==
  ASSUME NEW p, PageInv(p), NEW intent \in Intents, NEW data \in Requests("export"),
         NEW q, q = DispatchTask(p, intent, data), NEW n, n = Len(p.tasks) + 1
  PROVE  ExportDispatched(p, q, n, intent, data.id)
<1>1. p \in PageSet /\ p.queued \in [Intents -> 0..Len(p.tasks)] /\ p.tasks \in Seq(Tasks) /\ Len(p.tasks) \in Nat
      /\ DOMAIN p.tasks = 1..Len(p.tasks) /\ p.out \in Seq(OutSet)
  BY PageFields DEF PageInv, PageBut
<1>2. /\ q \in PageSet /\ SameRest(p, q) /\ q.out = p.out /\ q.runs = p.runs
      /\ Len(q.tasks) = n /\ q.tasks \in Seq(Tasks)
      /\ q.tasks[n] = [intent |-> intent, data |-> data, status |-> "active"]
      /\ \A i \in DOMAIN p.tasks : /\ q.tasks[i].intent = p.tasks[i].intent /\ q.tasks[i].data = p.tasks[i].data
                                   /\ i # p.queued[intent] => q.tasks[i].status = p.tasks[i].status
                                   /\ i = p.queued[intent] => q.tasks[i].status = "dropped"
      /\ q.queued \in [Intents -> Nat] /\ q.queued[intent] = n
      /\ \A i \in Intents : i # intent => q.queued[i] = p.queued[i]
  BY <1>1, DispatchExportFields
<1>3. DOMAIN q.tasks = DOMAIN p.tasks \cup {n} /\ n \notin DOMAIN p.tasks /\ DOMAIN q.out = 1..Len(q.out) /\ Len(q.out) \in Nat
  BY <1>1, <1>2
<1>4. q.tasks[n].intent = intent /\ q.tasks[n].data = data /\ q.tasks[n].status = "active"
  BY <1>2
<1>5. TaskReplaces(p.tasks, p.queued, intent, q.tasks, q.queued)
  BY <1>1, <1>2, <1>4 DEF TaskReplaces
<1>6. p.here => InStep(q.tasks, q.queued, RunTasks(q.runs) \cup {n})
  <2> SUFFICES ASSUME p.here PROVE InStep(q.tasks, q.queued, RunTasks(q.runs) \cup {n})
    OBVIOUS
  <2> DEFINE running == RunTasks(p.runs) \cup {}
  <2>1. InStep(p.tasks, p.queued, running)
    BY DEF PageInv, PageBut
  <2>2. running \subseteq DOMAIN p.tasks
    BY <1>1, InStepKnows DEF PageInv
  <2>3. running \cup {n} = RunTasks(q.runs) \cup {n}
    BY <1>2
  <2> HIDE DEF running
  <2>4. InStep(q.tasks, q.queued, running \cup {Len(p.tasks) + 1})
    BY ONLY <2>1, <2>2, <1>5, InStepDispatch
  <2> QED BY <2>3, <2>4
<1>7. q.queued \in [Intents -> 0..Len(q.tasks)]
  <2>1. \A i \in Intents : q.queued[i] \in 0..Len(q.tasks)
    BY <1>1, <1>2
  <2> QED BY <2>1, <1>2
<1>8. RunsHaveTasks(q.runs, q.tasks)
  <2> SUFFICES ASSUME NEW r \in p.runs PROVE RunHasTask(r, q.tasks)
    BY <1>2 DEF RunsHaveTasks
  <2>1. RunHasTask(r, p.tasks)
    BY DEF PageInv, PageBut, RunsHaveTasks
  <2> QED BY <2>1, <1>2, <1>3 DEF RunHasTask
<1>9. \A id : (Owns(q, id) <=> Owns(p, id)) /\ (Comes(q, id) <=> Comes(p, id))
  BY <1>2 DEF Owns, Comes, SameRest
<1>10. \A id : Has(q, id) => Has(p, id) \/ id = data.id
  BY <1>2, <1>3, <1>4 DEF Has
<1>11. SameOuts(p, q) /\ q.here = p.here
  <2>1. q.out = p.out /\ q.here = p.here
    BY <1>2 DEF SameRest
  <2>2. \A i \in DOMAIN q.out : ~(i > Len(q.out)) /\ Len(q.out) <= Len(q.out)
    BY <1>3
  <2>3. Len(q.out) <= Len(q.out)
    BY <1>3
  <2> QED BY ONLY <2>1, <2>2, <2>3 DEF SameOuts
<1>12. Keeps(p, q, {data.id})
  BY <1>9, <1>10, <1>11 DEF Keeps
<1>13. BarsEnd(p, {}) => BarsEnd(q, {})
  BY <1>2, <1>9 DEF BarsEnd
<1>14. PageBut(q, {n}, {})
  BY <1>2, <1>3, <1>6, <1>7, <1>8, <1>13 DEF PageInv, PageBut, SameRest
<1> QED BY <1>2, <1>3, <1>4, <1>12, <1>14 DEF ExportDispatched

ImportDispatched(p, q, n) ==
  /\ PageBut(q, {n}, {}) /\ Keeps(p, q, {}) /\ SameRest(p, q) /\ q.out = p.out /\ q.runs = p.runs
  /\ n \in DOMAIN q.tasks /\ q.tasks[n].intent = "import"

LEMMA DispatchingImport ==
  ASSUME NEW p, PageInv(p), NEW data \in [id : {0}, handle : Nat],
         NEW q, q = DispatchTask(p, "import", data), NEW n, n = Len(p.tasks) + 1
  PROVE  ImportDispatched(p, q, n)
<1>1. p \in PageSet /\ p.queued \in [Intents -> 0..Len(p.tasks)] /\ p.tasks \in Seq(Tasks) /\ Len(p.tasks) \in Nat
      /\ DOMAIN p.tasks = 1..Len(p.tasks) /\ p.out \in Seq(OutSet)
  BY PageFields DEF PageInv, PageBut
<1>2. /\ q \in PageSet /\ SameRest(p, q) /\ q.out = p.out /\ q.runs = p.runs /\ q.queued = p.queued
      /\ Len(q.tasks) = n /\ q.tasks \in Seq(Tasks)
      /\ q.tasks[n] = [intent |-> "import", data |-> data, status |-> "active"]
      /\ \A i \in DOMAIN p.tasks : q.tasks[i] = p.tasks[i]
  BY <1>1, DispatchImportFields
<1>3. DOMAIN q.tasks = DOMAIN p.tasks \cup {n} /\ n \notin DOMAIN p.tasks /\ DOMAIN q.out = 1..Len(q.out) /\ Len(q.out) \in Nat
      /\ Len(q.tasks) \in Nat /\ Len(q.tasks) = Len(p.tasks) + 1
  BY <1>1, <1>2
<1>4. q.tasks[n].intent = "import" /\ q.tasks[n].status = "active"
  BY <1>2
<1>5. TaskJoins(p.tasks, q.tasks)
  BY <1>1, <1>2, <1>4 DEF TaskJoins
<1>6. p.here => InStep(q.tasks, q.queued, RunTasks(q.runs) \cup {n})
  <2> SUFFICES ASSUME p.here PROVE InStep(q.tasks, q.queued, RunTasks(q.runs) \cup {n})
    OBVIOUS
  <2> DEFINE running == RunTasks(p.runs) \cup {}
  <2>1. InStep(p.tasks, p.queued, running)
    BY DEF PageInv, PageBut
  <2>2. running \subseteq DOMAIN p.tasks
    BY <1>1, InStepKnows DEF PageInv
  <2>3. running \cup {n} = RunTasks(q.runs) \cup {n}
    BY <1>2
  <2> HIDE DEF running
  <2>4. InStep(q.tasks, p.queued, running \cup {Len(p.tasks) + 1})
    BY ONLY <2>1, <2>2, <1>5, InStepAppend
  <2> QED BY <2>3, <2>4, <1>2
<1>7. q.queued \in [Intents -> 0..Len(q.tasks)]
  <2>1. 0..Len(p.tasks) \subseteq 0..Len(q.tasks)
    BY <1>1, <1>3
  <2> QED BY <2>1, <1>1, <1>2
<1>8. RunsHaveTasks(q.runs, q.tasks)
  <2> SUFFICES ASSUME NEW r \in p.runs PROVE RunHasTask(r, q.tasks)
    BY <1>2 DEF RunsHaveTasks
  <2>1. RunHasTask(r, p.tasks)
    BY DEF PageInv, PageBut, RunsHaveTasks
  <2> QED BY <2>1, <1>2, <1>3 DEF RunHasTask
<1>9. \A id : (Owns(q, id) <=> Owns(p, id)) /\ (Comes(q, id) <=> Comes(p, id))
  BY <1>2 DEF Owns, Comes, SameRest
<1>10. \A id : Has(q, id) => Has(p, id)
  BY <1>2, <1>3, <1>4, IntentsAreNotImport DEF Has
<1>11. SameOuts(p, q) /\ q.here = p.here
  <2>1. q.out = p.out /\ q.here = p.here
    BY <1>2 DEF SameRest
  <2>2. \A i \in DOMAIN q.out : ~(i > Len(q.out)) /\ Len(q.out) <= Len(q.out)
    BY <1>3
  <2>3. Len(q.out) <= Len(q.out)
    BY <1>3
  <2> QED BY ONLY <2>1, <2>2, <2>3 DEF SameOuts
<1>12. Keeps(p, q, {})
  BY <1>9, <1>10, <1>11 DEF Keeps
<1>13. BarsEnd(p, {}) => BarsEnd(q, {})
  BY <1>2, <1>9 DEF BarsEnd
<1>14. PageBut(q, {n}, {})
  BY <1>2, <1>3, <1>6, <1>7, <1>8, <1>13 DEF PageInv, PageBut, SameRest
<1> QED BY <1>2, <1>3, <1>4, <1>12, <1>14 DEF ImportDispatched

-----------------------------------------------------------------------------
(* The executors of exports. *)

LEMMA KeepsThen ==
  ASSUME NEW p, NEW q, NEW r, NEW Y, p \in PageSet, q \in PageSet, r \in PageSet, Keeps(p, q, Y), Keeps(q, r, {})
  PROVE  Keeps(p, r, Y)
<1>1. p.out \in Seq(OutSet) /\ q.out \in Seq(OutSet) /\ r.out \in Seq(OutSet)
  BY PageFields
<1>2. Keeps(p, r, Y \cup {})
  BY ONLY <1>1, Keeps(p, q, Y), Keeps(q, r, {}), KeepsTrans
<1>3. Y \cup {} = Y
  OBVIOUS
<1> QED BY <1>2, <1>3

LEMMA PageButType ==
  ASSUME NEW p, NEW X, NEW Y, PageBut(p, X, Y)
  PROVE  p \in PageSet
BY DEF PageBut

LEMMA SameRestTrans ==
  ASSUME NEW p, NEW q, NEW r, SameRest(p, q), SameRest(q, r)
  PROVE  SameRest(p, r)
BY DEF SameRest

LEMMA Answering ==
  ASSUME NEW p, NEW task, NEW X, X \subseteq {task}, NEW id \in Ids, NEW Y, Y \subseteq {id}, PageBut(p, X, Y),
         task \in DOMAIN p.tasks, p.tasks[task].intent \in Intents, p.tasks[task].data.id = id,
         NEW stage \in {"done", "error"}, NEW status \in {"completed", "failed"},
         NEW q, q = EndTask(Sent(Sent(p, Progress(id, stage)), Consume(id)), task, status)
  PROVE  PageInv(q) /\ Keeps(p, q, {}) /\ SameRest(p, q) /\ Ended(q, id)
<1> DEFINE m1 == Progress(id, stage)  m2 == Consume(id)  p1 == Sent(p, m1)  p2 == Sent(p1, m2)
<1>0. q = EndTask(p2, task, status)
  OBVIOUS
<1>1. /\ m1 \in OutSet /\ m1.type = "setExportProgress" /\ m1.stage = stage /\ m1.id = id /\ ~Starts(m1) /\ Final(m1, id)
      /\ m2 \in OutSet /\ m2.type = "consumeExportRequest" /\ m2.id = id /\ ~Starts(m2)
  BY MessageSets DEF Progress, Consume, Starts, Final, Running, Stages
<1>2. p1 = Sent(p, m1) /\ p2 = Sent(p1, m2)
  OBVIOUS
<1> HIDE DEF m1, m2, p1, p2
<1>3. PageBut(p1, X, Y) /\ Keeps(p, p1, {}) /\ SameRest(p, p1) /\ SameWork(p, p1)
  BY <1>1, <1>2, Sends
<1>4. PageBut(p2, X, Y) /\ Keeps(p1, p2, {}) /\ SameRest(p1, p2) /\ SameWork(p1, p2)
  BY <1>1, <1>2, <1>3, Sends
<1>5. AnswerSent(p2.out, id)
  <2>1. p1.out = Append(p.out, m1) /\ p2.out = Append(p1.out, m2) /\ p.out \in Seq(OutSet)
    BY <1>1, <1>2, <1>3, SentFields, PageFields DEF PageBut
  <2>2. Len(p.out) \in Nat /\ Len(p2.out) = Len(p.out) + 2 /\ p2.out[Len(p.out) + 2] = m2 /\ p2.out[Len(p.out) + 1] = m1
    BY <2>1, <1>1
  <2>3. Len(p2.out) - 1 = Len(p.out) + 1 /\ Len(p2.out) >= 2
    BY <2>2
  <2> QED BY <2>2, <2>3, <1>1 DEF AnswerSent
<1>6. task \in DOMAIN p2.tasks /\ p2.tasks[task].intent \in Intents /\ p2.tasks[task].data.id = id
  BY <1>3, <1>4 DEF SameWork
<1>7. PageInv(q) /\ Keeps(p2, q, {}) /\ SameRest(p2, q) /\ Ended(q, id)
  <2>1. MayEnd(p2, task, X, Y)
    BY <1>4, <1>5, <1>6 DEF MayEnd
  <2>2. HasEnded(p2, task, q)
    BY ONLY <2>1, <1>0, status \in {"completed", "failed"}, Ending
  <2> QED BY <2>2, <1>6 DEF HasEnded
<1>8. p \in PageSet /\ p1 \in PageSet /\ p2 \in PageSet /\ q \in PageSet
  BY <1>3, <1>4, <1>7, PageButType DEF PageInv
<1>9. Keeps(p1, q, {})
  BY <1>4, <1>7, <1>8, KeepsThen
<1>10. Keeps(p, q, {})
  BY <1>3, <1>8, <1>9, KeepsThen
<1>11. SameRest(p, q)
  BY <1>3, <1>4, <1>7, SameRestTrans
<1> QED BY <1>7, <1>10, <1>11

LEMMA Failing ==
  ASSUME NEW p, NEW task, NEW X, X \subseteq {task}, NEW id \in Ids, NEW Y, Y \subseteq {id}, PageBut(p, X, Y),
         task \in DOMAIN p.tasks, p.tasks[task].intent \in Intents, p.tasks[task].data.id = id,
         NEW q, q = ExportFailed(p, task, id)
  PROVE  PageInv(q) /\ Keeps(p, q, {}) /\ SameRest(p, q) /\ Ended(q, id)
<1>1. q = EndTask(Sent(Sent(p, Progress(id, "error")), Consume(id)), task, "failed")
  BY DEF ExportFailed
<1> QED BY <1>1, Answering

LEMMA Succeeding ==
  ASSUME NEW p, NEW task, NEW id \in Ids, PageInv(p),
         task \in DOMAIN p.tasks, p.tasks[task].intent \in Intents, p.tasks[task].data.id = id,
         NEW q, q = ExportDone(p, task, id)
  PROVE  PageInv(q) /\ Keeps(p, q, {})
<1> DEFINE p1 == [p EXCEPT !.downloaded = @ \cup {id}]
<1>1. q = EndTask(Sent(Sent(p1, Progress(id, "done")), Consume(id)), task, "completed")
  BY DEF ExportDone
<1>2. p \in PageSet
  BY PageButType DEF PageInv
<1>3. p1 \in PageSet /\ SameWork(p, p1) /\ SameRest(p, p1) /\ p1.out = p.out
  <2>1. p.downloaded \cup {id} \subseteq Ids
    BY <1>2, PageFields
  <2> QED BY <1>2, <2>1 DEF PageSet, SameWork, SameRest
<1> HIDE DEF p1
<1>4. PageBut(p1, {}, {}) /\ Keeps(p, p1, {})
  <2>1. PageBut(p, {}, {}) /\ DOMAIN p1.staged \subseteq 1..p1.refs /\ p1.here = p.here /\ p1.in = p.in /\ p1.out = p.out
    BY <1>3 DEF PageInv, SameRest, PageBut
  <2> QED BY ONLY <2>1, <1>3, Beside
<1>5. task \in DOMAIN p1.tasks /\ p1.tasks[task].intent \in Intents /\ p1.tasks[task].data.id = id
  BY <1>3 DEF SameWork
<1>6. PageInv(q) /\ Keeps(p1, q, {})
  BY <1>1, <1>4, <1>5, Answering
<1>7. q \in PageSet
  BY <1>6, PageButType DEF PageInv
<1> QED BY <1>2, <1>3, <1>4, <1>6, <1>7, KeepsThen

LEMMA StartingExport ==
  ASSUME NEW p, PageInv(p), NEW request \in Requests("export"), NEW valid \in BOOLEAN,
         NEW q, q = StartExport(p, request, valid)
  PROVE  PageInv(q) /\ Keeps(p, q, {request.id}) /\ SameRest(p, q) /\ (Owns(q, request.id) \/ Ended(q, request.id))
<1> DEFINE n == Len(p.tasks) + 1  m == Progress(request.id, "queued")
           p1 == DispatchTask(p, request.range, request)  p2 == Sent(p1, m)
           r == [task |-> n, type |-> "export", id |-> request.id, stage |-> "queued"]
<1>1. request.id \in Ids /\ request.range \in Intents
  BY DEF Requests
<1>2. q = IF valid THEN WithRuns(p2, p2.runs \cup {r}) ELSE ExportFailed(p2, n, request.id)
  BY DEF StartExport, WithRuns
<1>3. m \in OutSet /\ m.type = "setExportProgress" /\ m.id = request.id
  BY <1>1, MessageSets DEF Progress, Stages
<1>4. p \in PageSet /\ Len(p.tasks) \in Nat
  BY PageFields DEF PageInv, PageBut
<1>5. r \in Runs /\ r.task = n /\ r.type = "export" /\ r.id = request.id
  BY <1>1, <1>4 DEF Runs, ExportRuns
<1>6. p1 = DispatchTask(p, request.range, request) /\ n = Len(p.tasks) + 1 /\ p2 = Sent(p1, m)
  OBVIOUS
<1> HIDE DEF n, m, p1, p2, r
<1>7. /\ PageBut(p1, {n}, {}) /\ Keeps(p, p1, {request.id}) /\ SameRest(p, p1) /\ p1.out = p.out /\ p1.runs = p.runs
      /\ n \in DOMAIN p1.tasks /\ p1.tasks[n].intent = request.range /\ p1.tasks[n].data.id = request.id
  <2>1. ExportDispatched(p, p1, n, request.range, request.id)
    BY ONLY PageInv(p), request \in Requests("export"), <1>1, <1>6, DispatchingExport
  <2> QED BY <2>1 DEF ExportDispatched
<1>8. PageBut(p2, {n}, {request.id}) /\ Keeps(p1, p2, {}) /\ SameRest(p1, p2) /\ SameWork(p1, p2)
  <2> DEFINE Z == {request.id}
  <2>1. {} \subseteq Z /\ (Starts(m) => Owns(p1, m.id) \/ m.id \in Z) /\ m.type # "requestExport"
    BY <1>3
  <2> HIDE DEF Z
  <2>2. PageBut(p2, {n}, Z) /\ Keeps(p1, p2, {}) /\ SameRest(p1, p2) /\ SameWork(p1, p2)
    BY <2>1, <1>3, <1>6, <1>7, Sends
  <2> QED BY <2>2 DEF Z
<1>9. n \in DOMAIN p2.tasks /\ p2.tasks[n].intent \in Intents /\ p2.tasks[n].data.id = request.id
  BY <1>1, <1>7, <1>8 DEF SameWork
<1>10. PageInv(q) /\ Keeps(p2, q, {}) /\ SameRest(p2, q) /\ (Owns(q, request.id) \/ Ended(q, request.id))
  <2>1. CASE valid
    <3>1. q = WithRuns(p2, p2.runs \cup {r})
      BY <2>1, <1>2
    <3>2. RunHasTask(r, p2.tasks)
      BY <1>5, <1>9 DEF RunHasTask
    <3>3. MayStart(p2, r, {request.id})
      BY <3>2, <1>5, <1>8 DEF MayStart
    <3>4. PageInv(q) /\ Keeps(p2, q, {}) /\ SameRest(p2, q) /\ q.runs = p2.runs \cup {r}
      BY ONLY <3>1, <3>3, Starting
    <3> QED BY <3>4, <1>5 DEF Owns
  <2>2. CASE ~valid
    <3>1. q = ExportFailed(p2, n, request.id)
      BY <2>2, <1>2
    <3> QED BY <3>1, <1>1, <1>8, <1>9, Failing
  <2> QED BY <2>1, <2>2
<1>11. p1 \in PageSet /\ p2 \in PageSet /\ q \in PageSet
  BY <1>7, <1>8, <1>10, PageButType DEF PageInv
<1>12. Keeps(p, p2, {request.id})
  BY <1>4, <1>7, <1>8, <1>11, KeepsThen
<1>13. Keeps(p, q, {request.id})
  BY <1>4, <1>10, <1>11, <1>12, KeepsThen
<1>14. SameRest(p, q)
  BY <1>7, <1>8, <1>10, SameRestTrans
<1> QED BY <1>10, <1>13, <1>14

LEMMA Replacing ==
  ASSUME NEW p, PageInv(p), NEW run \in p.runs, NEW next \in Runs, next.task = run.task, next.type = run.type,
         run.type = "export" => next.id = run.id, NEW q, q = Replace(p, run, next)
  PROVE  PageInv(q) /\ Keeps(p, q, {})
<1> DEFINE p1 == WithRuns(p, p.runs \ {run})
<1>1. p1 = WithRuns(p, p.runs \ {run})
  OBVIOUS
<1> HIDE DEF p1
<1>2. /\ PageBut(p1, {run.task}, ExcusedBy(run))
      /\ SameRest(p, p1) /\ p1.out = p.out /\ p1.tasks = p.tasks /\ p1.runs = p.runs \ {run}
      /\ run.task \in DOMAIN p.tasks /\ RunHasTask(run, p.tasks) /\ run \in Runs
      /\ \A id : Owns(p, id) => Owns(p1, id) \/ (run.type = "export" /\ run.id = id)
  <2>1. Taken(p, run, p1)
    BY ONLY PageInv(p), run \in p.runs, <1>1, Taking
  <2> QED BY <2>1 DEF Taken
<1>3. q = WithRuns(p1, p1.runs \cup {next})
  BY <1>1, <1>2 DEF Replace, WithRuns
<1>4. RunHasTask(next, p1.tasks) /\ \A id \in ExcusedBy(run) : next.type = "export" /\ next.id = id
  BY <1>2 DEF RunHasTask, ExcusedBy
<1>5. MayStart(p1, next, ExcusedBy(run))
  BY <1>2, <1>4 DEF MayStart
<1>6. PageInv(q) /\ Keeps(p1, q, {}) /\ SameRest(p1, q) /\ q.out = p1.out /\ q.tasks = p1.tasks /\ q.runs = p1.runs \cup {next}
  BY ONLY <1>3, <1>5, Starting
<1>7. \A id : /\ Owns(p, id) => Owns(q, id)
              /\ (Comes(q, id) <=> Comes(p, id)) /\ (Has(q, id) <=> Has(p, id))
  <2>1. \A id : (Comes(q, id) <=> Comes(p, id)) /\ (Has(q, id) <=> Has(p, id))
    BY <1>2, <1>6 DEF SameRest, Comes, Has
  <2>2. \A id : Owns(p1, id) => Owns(q, id)
    BY <1>6 DEF Owns
  <2>3. run.type = "export" => Owns(q, run.id)
    BY <1>6 DEF Owns
  <2> QED BY <2>1, <2>2, <2>3, <1>2
<1>8. SameOuts(p, q)
  <2>1. SameOuts(p1, q)
    BY <1>6 DEF Keeps
  <2> QED BY <2>1, <1>2 DEF SameOuts
<1>9. q.here = p.here
  BY <1>2, <1>6 DEF SameRest
<1> QED BY <1>6, <1>7, <1>8, <1>9 DEF Keeps

-----------------------------------------------------------------------------
(* The executors of imports. *)

LEMMA SendingImportProgress ==
  ASSUME NEW p, NEW X, PageBut(p, X, {}), NEW h \in Nat, NEW stage \in Stages, NEW q, q = Sent(p, ImportProgress(h, stage))
  PROVE  PageBut(q, X, {}) /\ Keeps(p, q, {}) /\ SameRest(p, q) /\ SameWork(p, q)
<1> DEFINE m == ImportProgress(h, stage)
<1>1. m \in OutSet /\ m.type # "requestExport" /\ ~Starts(m)
  BY MessageSets DEF ImportProgress, Starts
<1>2. q = Sent(p, m) /\ {} \subseteq {}
  OBVIOUS
<1> HIDE DEF m
<1> QED BY <1>1, <1>2, Sends

MayGoOn(p, run) ==
  run \in ImportRuns /\ PageBut(p, {run.task}, {}) /\ run.task \in DOMAIN p.tasks /\ p.tasks[run.task].intent = "import"

LEMMA GoingOn ==
  ASSUME NEW p, NEW run, MayGoOn(p, run), NEW q, q = NextFile(p, run)
  PROVE  PageInv(q) /\ Keeps(p, q, {})
<1> DEFINE p1 == Sent(p, ImportProgress(run.handle, "processing"))
           p2 == Sent(p1, ImportProgress(run.handle, "done"))
           next == [run EXCEPT !.step = "measure"]
<1>0. /\ run \in ImportRuns /\ PageBut(p, {run.task}, {}) /\ run.task \in DOMAIN p.tasks
      /\ p.tasks[run.task].intent = "import"
  BY DEF MayGoOn
<1>1. q = IF run.files # <<>> THEN WithRuns(p1, p1.runs \cup {next}) ELSE EndTask(p2, run.task, "completed")
  BY DEF NextFile, WithRuns
<1>2. run.handle \in Nat /\ (run.files # <<>> => next \in Runs) /\ next.task = run.task /\ next.type = "import"
      /\ {"processing", "done"} \subseteq Stages
  BY <1>0 DEF ImportRuns, Runs, Stages
<1>3. p1 = Sent(p, ImportProgress(run.handle, "processing")) /\ p2 = Sent(p1, ImportProgress(run.handle, "done"))
  OBVIOUS
<1> HIDE DEF p1, p2, next
<1>4. PageBut(p1, {run.task}, {}) /\ Keeps(p, p1, {}) /\ SameRest(p, p1) /\ SameWork(p, p1)
  BY <1>0, <1>2, <1>3, SendingImportProgress
<1>5. p \in PageSet /\ p1 \in PageSet
  BY <1>0, <1>4, PageButType
<1>6. CASE run.files # <<>>
  <2>1. q = WithRuns(p1, p1.runs \cup {next})
    BY <1>1, <1>6
  <2>2. RunHasTask(next, p1.tasks)
    BY <1>0, <1>2, <1>4 DEF RunHasTask, SameWork
  <2>3. MayStart(p1, next, {})
    BY <2>2, <1>2, <1>4, <1>6 DEF MayStart
  <2>4. PageInv(q) /\ Keeps(p1, q, {})
    BY ONLY <2>1, <2>3, Starting
  <2>5. q \in PageSet
    BY <2>4, PageButType DEF PageInv
  <2> QED BY <2>4, <2>5, <1>4, <1>5, KeepsThen
<1>7. CASE run.files = <<>>
  <2>1. q = EndTask(p2, run.task, "completed")
    BY <1>1, <1>7
  <2>2. PageBut(p2, {run.task}, {}) /\ Keeps(p1, p2, {}) /\ SameRest(p1, p2) /\ SameWork(p1, p2)
    BY <1>2, <1>3, <1>4, SendingImportProgress
  <2>3. MayEnd(p2, run.task, {run.task}, {})
    BY <2>2, <1>0, <1>4 DEF MayEnd, SameWork
  <2>4. HasEnded(p2, run.task, q)
    BY ONLY <2>1, <2>3, Ending
  <2>5. PageInv(q) /\ Keeps(p2, q, {})
    BY <2>4 DEF HasEnded
  <2>6. q \in PageSet /\ p2 \in PageSet
    BY <2>2, <2>5, PageButType DEF PageInv
  <2>7. Keeps(p1, q, {})
    BY <2>2, <2>5, <2>6, <1>5, KeepsThen
  <2> QED BY <2>5, <2>6, <2>7, <1>4, <1>5, KeepsThen
<1> QED BY <1>6, <1>7

LEMMA StagedFiles ==
  ASSUME NEW p \in PageSet, NEW h
  PROVE  StagedIn(p, h) \in Seq(Files)
<1>1. PICK H \in SUBSET Nat : p.staged \in [H -> Seq(Files)]
  BY PageFields DEF StagedSet
<1>2. CASE h \in DOMAIN p.staged
  BY <1>1, <1>2 DEF StagedIn
<1>3. CASE h \notin DOMAIN p.staged
  BY <1>3 DEF StagedIn
<1> QED BY <1>2, <1>3

LEMMA ConsumeRefFields ==
  ASSUME NEW p \in PageSet, NEW h, NEW q, q = ConsumeRef(p, h)
  PROVE  q \in PageSet /\ SameWork(p, q) /\ q.here = p.here /\ q.in = p.in /\ q.out = p.out /\ q.refs = p.refs
         /\ DOMAIN q.staged \subseteq DOMAIN p.staged
<1> DEFINE rest == [k \in DOMAIN p.staged \ {h} |-> p.staged[k]]
<1>1. rest \in StagedSet /\ DOMAIN rest \subseteq DOMAIN p.staged
  <2>1. PICK H \in SUBSET Nat : p.staged \in [H -> Seq(Files)]
    BY PageFields DEF StagedSet
  <2>2. rest \in [H \ {h} -> Seq(Files)] /\ H \ {h} \in SUBSET Nat
    BY <2>1
  <2> QED BY <2>1, <2>2 DEF StagedSet
<1>2. q = [p EXCEPT !.staged = rest]
  BY DEF ConsumeRef
<1> HIDE DEF rest
<1> QED BY <1>1, <1>2 DEF PageSet, SameWork

LEMMA StartingImport ==
  ASSUME NEW p, PageInv(p), NEW h \in Nat, NEW project \in Projects, NEW q, q = StartImport(p, h, project)
  PROVE  PageInv(q) /\ Keeps(p, q, {})
<1> DEFINE n == Len(p.tasks) + 1  data == [id |-> 0, handle |-> h]  files == StagedIn(p, h)
           p1 == DispatchTask(p, "import", data)  p2 == ConsumeRef(p1, h)
           run == [task |-> n, type |-> "import", handle |-> h, project |-> project, files |-> files, step |-> "measure"]
<1>1. q = IF files = <<>> THEN EndTask(p2, n, "completed") ELSE NextFile(p2, run)
  BY DEF StartImport
<1>2. p \in PageSet /\ Len(p.tasks) \in Nat
  BY PageFields DEF PageInv, PageBut
<1>3. files \in Seq(Files) /\ data \in [id : {0}, handle : Nat]
  BY <1>2, StagedFiles
<1> HIDE DEF files
<1>4. run \in ImportRuns /\ run.task = n
  BY <1>2, <1>3 DEF ImportRuns
<1>5. p1 = DispatchTask(p, "import", data) /\ n = Len(p.tasks) + 1 /\ p2 = ConsumeRef(p1, h)
  OBVIOUS
<1> HIDE DEF p1, p2, run, n, data
<1>6. ImportDispatched(p, p1, n)
  BY ONLY PageInv(p), <1>3, <1>5, DispatchingImport
<1>7. PageBut(p1, {n}, {}) /\ Keeps(p, p1, {}) /\ SameRest(p, p1) /\ n \in DOMAIN p1.tasks /\ p1.tasks[n].intent = "import"
  BY <1>6 DEF ImportDispatched
<1>8. p1 \in PageSet
  BY <1>7, PageButType
<1>9. p2 \in PageSet /\ SameWork(p1, p2) /\ p2.here = p1.here /\ p2.in = p1.in /\ p2.out = p1.out /\ p2.refs = p1.refs
      /\ DOMAIN p2.staged \subseteq DOMAIN p1.staged
  BY <1>5, <1>8, ConsumeRefFields
<1>10. PageBut(p2, {n}, {}) /\ Keeps(p1, p2, {})
  <2>1. DOMAIN p2.staged \subseteq 1..p2.refs
    BY <1>7, <1>9 DEF PageBut
  <2> QED BY ONLY <2>1, <1>7, <1>9, Beside
<1>11. n \in DOMAIN p2.tasks /\ p2.tasks[n].intent = "import"
  BY <1>7, <1>9 DEF SameWork
<1>12. PageInv(q) /\ Keeps(p2, q, {})
  <2>1. CASE files = <<>>
    <3>1. q = EndTask(p2, n, "completed")
      BY <2>1, <1>1
    <3>2. MayEnd(p2, n, {n}, {})
      BY <1>10, <1>11 DEF MayEnd
    <3>3. HasEnded(p2, n, q)
      BY ONLY <3>1, <3>2, Ending
    <3> QED BY <3>3 DEF HasEnded
  <2>2. CASE files # <<>>
    <3>1. q = NextFile(p2, run)
      BY <2>2, <1>1
    <3>2. MayGoOn(p2, run)
      BY <1>4, <1>10, <1>11 DEF MayGoOn
    <3> QED BY ONLY <3>1, <3>2, GoingOn
  <2> QED BY <2>1, <2>2
<1>13. q \in PageSet
  BY <1>12, PageButType DEF PageInv
<1>14. Keeps(p1, q, {})
  BY <1>8, <1>9, <1>10, <1>12, <1>13, KeepsThen
<1> QED BY <1>2, <1>7, <1>8, <1>12, <1>13, <1>14, KeepsThen

LEMMA StartingRequested ==
  ASSUME NEW p, PageInv(p), NEW h \in Nat, NEW q, q = StartRequested(p, h)
  PROVE  PageInv(q) /\ Keeps(p, q, {})
<1> DEFINE p1 == [p EXCEPT !.started = @ \cup {h}]
<1>1. p \in PageSet
  BY PageButType DEF PageInv
<1>2. Keeps(p, p, {})
  <2>1. Len(p.out) \in Nat /\ DOMAIN p.out = 1..Len(p.out)
    BY <1>1, PageFields
  <2>2. SameOuts(p, p)
    BY <2>1 DEF SameOuts
  <2> QED BY <2>2 DEF Keeps
<1>3. CASE h \in p.started
  BY <1>2, <1>3 DEF StartRequested
<1>4. CASE h \notin p.started
  <2>1. p1 \in PageSet /\ SameWork(p, p1) /\ p1.here = p.here /\ p1.in = p.in /\ p1.out = p.out
        /\ p1.staged = p.staged /\ p1.refs = p.refs
    <3>1. p.started \cup {h} \subseteq Nat
      BY <1>1, PageFields
    <3> QED BY <3>1, <1>1 DEF PageSet, SameWork
  <2>2. q = StartImport(p1, h, p.view.active)
    BY <1>4 DEF StartRequested
  <2> HIDE DEF p1
  <2>3. PageInv(p1) /\ Keeps(p, p1, {})
    <3>1. PageBut(p, {}, {}) /\ DOMAIN p1.staged \subseteq 1..p1.refs
      BY <2>1 DEF PageInv, PageBut
    <3>2. PageBut(p1, {}, {}) /\ Keeps(p, p1, {})
      BY ONLY <2>1, <3>1, Beside
    <3> QED BY <3>2 DEF PageInv
  <2>4. p.view.active \in Projects
    BY <1>1, PageFields DEF ViewSet
  <2>5. PageInv(q) /\ Keeps(p1, q, {})
    BY ONLY <2>2, <2>3, <2>4, h \in Nat, StartingImport
  <2>6. q \in PageSet
    BY <2>5, PageButType DEF PageInv
  <2> QED BY <2>1, <2>3, <2>5, <2>6, <1>1, KeepsThen
<1> QED BY <1>3, <1>4

-----------------------------------------------------------------------------
(* What one tab does by itself. *)

Proceeds(p, q) == PageInv(q) /\ Keeps(p, q, {})

LEMMA ProceedsThen ==
  ASSUME NEW p, PageInv(p), NEW q, Proceeds(p, q), NEW r, Proceeds(q, r)
  PROVE  Proceeds(p, r)
<1>1. p \in PageSet /\ q \in PageSet /\ r \in PageSet
  BY PageButType DEF Proceeds, PageInv
<1>2. Keeps(p, r, {})
  BY ONLY <1>1, Proceeds(p, q), Proceeds(q, r), KeepsThen DEF Proceeds
<1> QED BY <1>2 DEF Proceeds

LEMMA SendsMessage ==
  ASSUME NEW p, PageInv(p), NEW m \in OutSet, m.type # "requestExport", Starts(m) => Owns(p, m.id),
         NEW q, q = Sent(p, m)
  PROVE  Proceeds(p, q) /\ SameWork(p, q)
<1>1. PageBut(p, {}, {}) /\ {} \subseteq {} /\ (Starts(m) => Owns(p, m.id) \/ m.id \in {})
  BY DEF PageInv
<1>2. PageBut(q, {}, {}) /\ Keeps(p, q, {}) /\ SameRest(p, q) /\ SameWork(p, q)
  BY <1>1, Sends
<1> QED BY <1>2 DEF Proceeds, PageInv

LEMMA RunOf ==
  ASSUME NEW p, PageInv(p), NEW run \in p.runs
  PROVE  p \in PageSet /\ run \in Runs /\ RunHasTask(run, p.tasks)
BY PageFields DEF PageInv, PageBut, RunsHaveTasks

LEMMA RenderedStep ==
  ASSUME NEW p, PageInv(p), NEW run \in p.runs, run.type = "export",
         NEW stage \in {"rendering", "finalizing"}, NEW q,
         \/ q = Replace(Sent(p, Progress(run.id, stage)), run, [run EXCEPT !.stage = stage])
         \/ q = ExportDone(p, run.task, run.id)
         \/ q = ExportFailed(p, run.task, run.id)
  PROVE  Proceeds(p, q)
<1>1. p \in PageSet /\ run \in ExportRuns /\ RunHasTask(run, p.tasks) /\ run.id \in Ids
  BY RunOf, RunFields
<1>2. run.task \in DOMAIN p.tasks /\ p.tasks[run.task].intent \in Intents /\ p.tasks[run.task].data.id = run.id
  BY <1>1 DEF RunHasTask
<1>3. CASE q = Replace(Sent(p, Progress(run.id, stage)), run, [run EXCEPT !.stage = stage])
  <2> DEFINE m == Progress(run.id, stage)  p1 == Sent(p, m)  next == [run EXCEPT !.stage = stage]
  <2>1. m \in OutSet /\ m.type = "setExportProgress" /\ m.id = run.id
    BY <1>1, MessageSets DEF Progress, Stages
  <2>2. Owns(p, m.id)
    BY <2>1 DEF Owns
  <2>3. next \in Runs /\ next.task = run.task /\ next.type = run.type /\ next.id = run.id
    BY <1>1 DEF ExportRuns, Runs
  <2>4. p1 = Sent(p, m) /\ q = Replace(p1, run, next) /\ m.type # "requestExport"
    BY <1>3, <2>1
  <2> HIDE DEF m, p1, next
  <2>5. Proceeds(p, p1) /\ SameWork(p, p1)
    BY ONLY PageInv(p), <2>1, <2>2, <2>4, SendsMessage
  <2>6. PageInv(p1) /\ run \in p1.runs
    BY <2>5 DEF Proceeds, SameWork
  <2>7. Proceeds(p1, q)
    BY <2>3, <2>4, <2>6, Replacing DEF Proceeds
  <2> QED BY <2>5, <2>7, ProceedsThen
<1>4. CASE q = ExportDone(p, run.task, run.id)
  BY <1>1, <1>2, <1>4, Succeeding DEF Proceeds
<1>5. CASE q = ExportFailed(p, run.task, run.id)
  <2>1. PageBut(p, {}, {}) /\ {} \subseteq {run.task} /\ {} \subseteq {run.id}
    BY DEF PageInv
  <2>2. PageInv(q) /\ Keeps(p, q, {})
    BY ONLY <2>1, <1>1, <1>2, <1>5, Failing
  <2> QED BY <2>2 DEF Proceeds
<1> QED BY <1>3, <1>4, <1>5

LEMMA ImportRunOf ==
  ASSUME NEW p, PageInv(p), NEW run \in p.runs, run.type = "import"
  PROVE  /\ p \in PageSet /\ run \in Runs /\ run \in ImportRuns /\ run.handle \in Nat
         /\ run.files \in Seq(Files) /\ run.files # <<>> /\ Head(run.files) \in Files
         /\ run.task \in DOMAIN p.tasks /\ p.tasks[run.task].intent = "import"
<1>1. p \in PageSet /\ run \in Runs /\ RunHasTask(run, p.tasks)
  BY RunOf
<1>2. run \in ImportRuns /\ run.handle \in Nat /\ run.files \in Seq(Files) /\ run.files # <<>>
  BY <1>1, RunFields
<1> QED BY <1>1, <1>2 DEF RunHasTask

(* A message to the worker about the file, and the next step. *)
LEMMA FileStep ==
  ASSUME NEW p, PageInv(p), NEW run \in p.runs, run.type = "import",
         NEW type \in {"importResourceIntoActiveProject", "addActiveProjectResourceToTimeline"},
         NEW step \in {"find", "clips"}, NEW q,
         q = Replace(Sent(p, [type |-> type, file |-> Head(run.files)]), run, [run EXCEPT !.step = step])
  PROVE  Proceeds(p, q)
<1> DEFINE m == [type |-> type, file |-> Head(run.files)]  p1 == Sent(p, m)  next == [run EXCEPT !.step = step]
<1>1. run \in ImportRuns /\ Head(run.files) \in Files /\ run.files # <<>>
  BY ImportRunOf
<1>2. m \in OutSet /\ m.type # "requestExport" /\ ~Starts(m)
  BY <1>1 DEF OutSet, FileSet, Starts
<1>3. next \in Runs /\ next.task = run.task /\ next.type = run.type
  BY <1>1 DEF ImportRuns, Runs
<1>4. p1 = Sent(p, m) /\ q = Replace(p1, run, next)
  OBVIOUS
<1> HIDE DEF m, p1, next
<1>5. Proceeds(p, p1) /\ SameWork(p, p1)
  BY ONLY PageInv(p), <1>2, <1>4, SendsMessage
<1>6. PageInv(p1) /\ run \in p1.runs
  BY <1>5 DEF Proceeds, SameWork
<1>7. Proceeds(p1, q)
  BY <1>3, <1>4, <1>6, Replacing DEF Proceeds
<1> QED BY <1>5, <1>7, ProceedsThen

LEMMA MeasuringFails ==
  ASSUME NEW p, PageInv(p), NEW run \in p.runs, run.type = "import", NEW q,
         q = EndTask(Sent(p, ImportProgress(run.handle, "error")), run.task, "failed")
  PROVE  Proceeds(p, q)
<1> DEFINE p1 == Sent(p, ImportProgress(run.handle, "error"))
<1>1. run.handle \in Nat /\ run.task \in DOMAIN p.tasks /\ p.tasks[run.task].intent = "import" /\ "error" \in Stages
  BY ImportRunOf DEF Stages
<1>2. p1 = Sent(p, ImportProgress(run.handle, "error")) /\ q = EndTask(p1, run.task, "failed") /\ PageBut(p, {}, {})
  BY DEF PageInv
<1> HIDE DEF p1
<1>3. PageBut(p1, {}, {}) /\ Keeps(p, p1, {}) /\ SameRest(p, p1) /\ SameWork(p, p1)
  BY ONLY <1>1, <1>2, SendingImportProgress
<1>4. MayEnd(p1, run.task, {}, {})
  BY <1>1, <1>3 DEF MayEnd, SameWork
<1>5. HasEnded(p1, run.task, q)
  BY ONLY <1>2, <1>4, Ending
<1>6. Proceeds(p, p1) /\ Proceeds(p1, q)
  BY <1>3, <1>5 DEF HasEnded, Proceeds, PageInv
<1> QED BY <1>6, ProceedsThen

(* The file is done with, served or not. *)
LEMMA NextFileStep ==
  ASSUME NEW p, PageInv(p), NEW run \in p.runs, run.type = "import", NEW q,
         \/ q = NextFile(Without(p, run), [run EXCEPT !.files = Tail(@)])
         \/ q = Registered(p, run)
  PROVE  Proceeds(p, q)
<1> DEFINE p1 == WithRuns(p, p.runs \ {run})  next == [run EXCEPT !.files = Tail(@)]
           p2 == [p1 EXCEPT !.serves = @ \cup {Head(run.files)}]
<1>1. /\ p \in PageSet /\ run \in ImportRuns /\ run.files \in Seq(Files) /\ run.files # <<>> /\ Head(run.files) \in Files
      /\ run.task \in DOMAIN p.tasks /\ p.tasks[run.task].intent = "import"
  BY ImportRunOf
<1>2. next \in ImportRuns /\ next.task = run.task
  <2>1. Tail(run.files) \in Seq(Files)
    BY <1>1
  <2> QED BY <1>1, <2>1 DEF ImportRuns
<1>3. p1 = WithRuns(p, p.runs \ {run}) /\ (q = NextFile(p1, next) \/ q = NextFile(p2, next))
  BY DEF Registered, Without, WithRuns
<1> HIDE DEF p1, next
<1>4. Taken(p, run, p1)
  BY ONLY PageInv(p), run \in p.runs, <1>3, Taking
<1>5. PageBut(p1, {run.task}, {}) /\ Keeps(p, p1, {}) /\ p1.tasks = p.tasks
  BY <1>4 DEF Taken, ExcusedBy
<1>6. p1 \in PageSet
  BY <1>5, PageButType
<1>7. p2 \in PageSet /\ SameWork(p1, p2) /\ p2.here = p1.here /\ p2.in = p1.in /\ p2.out = p1.out
      /\ p2.staged = p1.staged /\ p2.refs = p1.refs
  <2>1. p1.serves \cup {Head(run.files)} \subseteq Files
    BY <1>1, <1>6, PageFields
  <2> QED BY <2>1, <1>6 DEF PageSet, SameWork
<1> HIDE DEF p2
<1>8. PageBut(p2, {run.task}, {}) /\ Keeps(p1, p2, {})
  <2>1. DOMAIN p2.staged \subseteq 1..p2.refs
    BY <1>5, <1>7 DEF PageBut
  <2> QED BY ONLY <2>1, <1>5, <1>7, Beside
<1>9. MayGoOn(p1, next) /\ MayGoOn(p2, next)
  BY <1>1, <1>2, <1>5, <1>7, <1>8 DEF MayGoOn, SameWork
<1>10. PageInv(q) /\ (Keeps(p1, q, {}) \/ Keeps(p2, q, {}))
  BY ONLY <1>3, <1>9, GoingOn
<1>11. q \in PageSet
  BY <1>10, PageButType DEF PageInv
<1>12. Keeps(p1, q, {})
  BY <1>6, <1>7, <1>8, <1>10, <1>11, KeepsThen
<1> QED BY <1>1, <1>5, <1>6, <1>10, <1>11, <1>12, KeepsThen DEF Proceeds

LEMMA StageFields ==
  ASSUME NEW p, PageInv(p), NEW files \in Seq(Files), NEW q, q = Stage(p, files)
  PROVE  Proceeds(p, q) /\ q.refs \in Nat /\ q.view.active \in Projects
<1> DEFINE n == p.refs + 1  staged == [k \in DOMAIN p.staged \cup {n} |-> IF k = n THEN files ELSE p.staged[k]]
<1>1. p \in PageSet /\ DOMAIN p.staged \subseteq 1..p.refs /\ p.refs \in Nat /\ n \in Nat /\ PageBut(p, {}, {})
  BY PageFields DEF PageInv, PageBut
<1>2. staged \in StagedSet /\ DOMAIN staged \subseteq 1..n
  <2>1. PICK H \in SUBSET Nat : p.staged \in [H -> Seq(Files)]
    BY <1>1, PageFields DEF StagedSet
  <2>2. \A k \in H \cup {n} : (IF k = n THEN files ELSE p.staged[k]) \in Seq(Files)
    BY <2>1
  <2>5. staged \in [H \cup {n} -> Seq(Files)]
    BY <2>1, <2>2
  <2>6. H \cup {n} \in SUBSET Nat
    BY <1>1, <2>1
  <2>7. H \cup {n} \subseteq 1..n
    BY <1>1, <2>1
  <2>8. DOMAIN staged = H \cup {n}
    BY <2>1
  <2> QED BY <2>5, <2>6, <2>7, <2>8 DEF StagedSet
<1>3. q = [p EXCEPT !.refs = n, !.staged = staged]
  BY DEF Stage
<1> HIDE DEF n, staged
<1>4. q \in PageSet /\ SameWork(p, q) /\ q.here = p.here /\ q.in = p.in /\ q.out = p.out /\ q.view = p.view
      /\ q.refs = n /\ q.staged = staged
  BY <1>1, <1>2, <1>3 DEF PageSet, SameWork
<1>5. PageBut(q, {}, {}) /\ Keeps(p, q, {})
  <2>1. DOMAIN q.staged \subseteq 1..q.refs
    BY <1>2, <1>4
  <2> QED BY ONLY <2>1, <1>1, <1>4, Beside
<1>6. p.view.active \in Projects
  BY <1>1, PageFields DEF ViewSet
<1> QED BY <1>1, <1>4, <1>5, <1>6 DEF Proceeds, PageInv

LEMMA ChosenStep ==
  ASSUME NEW p, PageInv(p), NEW files \in Seq(Files), NEW p1, p1 = Stage(p, files), NEW q,
         q = StartImport(p1, p1.refs, p1.view.active) \/ q = Sent(p1, [type |-> "requestImportFiles", handle |-> p1.refs])
  PROVE  Proceeds(p, q)
<1>1. Proceeds(p, p1) /\ p1.refs \in Nat /\ p1.view.active \in Projects
  BY StageFields
<1>2. PageInv(p1)
  BY <1>1 DEF Proceeds
<1>3. CASE q = StartImport(p1, p1.refs, p1.view.active)
  <2>1. Proceeds(p1, q)
    BY <1>1, <1>2, <1>3, StartingImport DEF Proceeds
  <2> QED BY <2>1, <1>1, ProceedsThen
<1>4. CASE q = Sent(p1, [type |-> "requestImportFiles", handle |-> p1.refs])
  <2> DEFINE m == [type |-> "requestImportFiles", handle |-> p1.refs]
  <2>1. m \in OutSet /\ m.type # "requestExport" /\ ~Starts(m) /\ q = Sent(p1, m)
    BY <1>1, <1>4 DEF OutSet, AskImportSet, Starts
  <2> HIDE DEF m
  <2>2. Proceeds(p1, q)
    BY ONLY <1>2, <2>1, SendsMessage
  <2> QED BY <2>2, <1>1, ProceedsThen
<1> QED BY <1>3, <1>4

LEMMA SwitchStep ==
  ASSUME NEW p, PageInv(p), NEW project \in Projects, NEW q, q = Sent(p, [type |-> "setActiveProject", project |-> project])
  PROVE  Proceeds(p, q)
<1> DEFINE m == [type |-> "setActiveProject", project |-> project]
<1>1. m \in OutSet /\ m.type # "requestExport" /\ ~Starts(m) /\ q = Sent(p, m)
  BY DEF OutSet, SwitchSet, Starts
<1> HIDE DEF m
<1> QED BY ONLY PageInv(p), <1>1, SendsMessage

LEMMA SyncStep ==
  ASSUME NEW p, PageInv(p), NEW view \in ViewSet, NEW p1, p1 = [p EXCEPT !.view = view],
         NEW h \in Nat, NEW q, q = p1 \/ q = StartRequested(p1, h)
  PROVE  Proceeds(p, q)
<1>1. p \in PageSet /\ PageBut(p, {}, {}) /\ DOMAIN p.staged \subseteq 1..p.refs
  BY DEF PageInv, PageBut
<1>2. p1 \in PageSet /\ SameWork(p, p1) /\ p1.here = p.here /\ p1.in = p.in /\ p1.out = p.out
      /\ p1.staged = p.staged /\ p1.refs = p.refs
  BY <1>1 DEF PageSet, SameWork
<1>3. DOMAIN p1.staged \subseteq 1..p1.refs
  BY <1>1, <1>2
<1>4. PageBut(p1, {}, {}) /\ Keeps(p, p1, {})
  BY ONLY <1>1, <1>2, <1>3, Beside
<1>5. Proceeds(p, p1) /\ PageInv(p1)
  BY <1>4 DEF Proceeds, PageInv
<1>6. CASE q = StartRequested(p1, h)
  <2>1. Proceeds(p1, q)
    BY <1>5, <1>6, StartingRequested DEF Proceeds
  <2> QED BY <2>1, <1>5, ProceedsThen
<1> QED BY <1>5, <1>6

(* What comes in, or has been answered by the worker, does not matter for what the page is. *)
LEMMA InboxInv ==
  ASSUME NEW p, PageInv(p), NEW in \in Seq(InSet), NEW q, q = [p EXCEPT !.in = in]
  PROVE  PageInv(q) /\ SameWork(p, q) /\ q.here = p.here /\ q.in = in /\ q.out = p.out
<1>1. p \in PageSet
  BY PageButType DEF PageInv
<1>2. q \in PageSet /\ SameWork(p, q) /\ q.here = p.here /\ q.in = in /\ q.out = p.out /\ q.staged = p.staged /\ q.refs = p.refs
  BY <1>1 DEF PageSet, SameWork
<1>3. BarsEnd(p, {}) => BarsEnd(q, {})
  BY <1>2 DEF BarsEnd, SameWork, Owns
<1> QED BY <1>2, <1>3 DEF PageInv, PageBut, SameWork

LEMMA ReceiveStep ==
  ASSUME NEW p, PageInv(p), p.in # <<>>, NEW p1, p1 = [p EXCEPT !.in = Tail(@)], NEW m, m = Head(p.in),
         NEW valid \in BOOLEAN, NEW q,
         \/ m.type = "export" /\ q = StartExport(p1, m, valid)
         \/ m.type = "import" /\ q = StartRequested(p1, m.handle)
  PROVE  Proceeds(p, q)
<1>1. p \in PageSet /\ p.in \in Seq(InSet) /\ m \in InSet /\ Tail(p.in) \in Seq(InSet) /\ Len(p.in) \in Nat /\ Len(p.in) >= 1
      /\ DOMAIN p.in = 1..Len(p.in) /\ m = p.in[1]
  BY PageFields DEF PageInv, PageBut
<1>2. DOMAIN Tail(p.in) = 1..(Len(p.in) - 1) /\ \A i \in 1..(Len(p.in) - 1) : Tail(p.in)[i] = p.in[i + 1]
  BY <1>1
<1>3. PageInv(p1) /\ SameWork(p, p1) /\ p1.here = p.here /\ p1.in = Tail(p.in) /\ p1.out = p.out
  <2> DEFINE in == Tail(p.in)
  <2>1. p1 = [p EXCEPT !.in = in] /\ in \in Seq(InSet)
    BY <1>1
  <2> HIDE DEF in
  <2>2. PageInv(p1) /\ SameWork(p, p1) /\ p1.here = p.here /\ p1.in = in /\ p1.out = p.out
    BY ONLY PageInv(p), <2>1, InboxInv
  <2> QED BY <2>2 DEF in
<1>4. \A id : (Owns(p1, id) <=> Owns(p, id)) /\ (Has(p1, id) <=> Has(p, id))
  BY <1>3 DEF SameWork, Owns, Has
<1>5. \A id : Comes(p1, id) => Comes(p, id)
  <2> SUFFICES ASSUME NEW id, NEW i \in DOMAIN p1.in, p1.in[i].type = "export", p1.in[i].id = id PROVE Comes(p, id)
    BY DEF Comes
  <2>1. i + 1 \in DOMAIN p.in /\ p1.in[i] = p.in[i + 1]
    BY <1>1, <1>2, <1>3
  <2> QED BY <2>1 DEF Comes
<1>6. \A id : Comes(p, id) => Comes(p1, id) \/ (m.type = "export" /\ m.id = id)
  <2> SUFFICES ASSUME NEW id, NEW i \in DOMAIN p.in, p.in[i].type = "export", p.in[i].id = id, i # 1 PROVE Comes(p1, id)
    BY <1>1 DEF Comes
  <2>1. i - 1 \in DOMAIN p1.in /\ p1.in[i - 1] = p.in[i]
    BY <1>1, <1>2, <1>3
  <2> QED BY <2>1 DEF Comes
<1>7. SameOuts(p1, q) => SameOuts(p, q)
  BY <1>3 DEF SameOuts
<1>8. CASE m.type = "export" /\ q = StartExport(p1, m, valid)
  <2>1. m \in Requests("export") /\ m.id \in Ids
    BY <1>1, <1>8 DEF InSet, Requests
  <2>2. PageInv(q) /\ Keeps(p1, q, {m.id}) /\ (Owns(q, m.id) \/ Ended(q, m.id))
    BY ONLY <1>3, <1>8, <2>1, valid \in BOOLEAN, StartingExport
  <2>3. Comes(p, m.id)
    BY <1>1, <1>8 DEF Comes
  <2>4. SameOuts(p, q) /\ q.here = p.here
    BY <2>2, <1>3, <1>7 DEF Keeps
  <2>5. Keeps(p, q, {})
    BY <2>2, <2>3, <2>4, <1>4, <1>5, <1>6 DEF Keeps
  <2> QED BY <2>2, <2>5 DEF Proceeds
<1>9. CASE m.type = "import" /\ q = StartRequested(p1, m.handle)
  <2>1. m.handle \in Nat
    BY <1>1, <1>9 DEF InSet, Requests
  <2>2. PageInv(q) /\ Keeps(p1, q, {})
    BY ONLY <1>3, <1>9, <2>1, StartingRequested
  <2>4. SameOuts(p, q) /\ q.here = p.here
    BY <2>2, <1>3, <1>7 DEF Keeps
  <2>5. Keeps(p, q, {})
    BY <2>2, <2>4, <1>4, <1>5, <1>6, <1>9 DEF Keeps
  <2> QED BY <2>2, <2>5 DEF Proceeds
<1> QED BY <1>8, <1>9

-----------------------------------------------------------------------------
(* Steps of the whole in which a tab proceeds and the worker does nothing. *)

LEMMA KeepsAsks ==
  ASSUME NEW p \in PageSet, NEW q \in PageSet, Keeps(p, q, {})
  PROVE  /\ \A i \in DOMAIN q.out : q.out[i].type = "requestExport" => i \in DOMAIN p.out /\ q.out[i] = p.out[i]
         /\ \A id : Consumes(p, id) => Consumes(q, id)
         /\ \A id : Finishes(p, id) => Finishes(q, id)
         /\ \A id : Asks(q, id) => Asks(p, id)
         /\ q.here = p.here
<1>1. DOMAIN p.out = 1..Len(p.out) /\ DOMAIN q.out = 1..Len(q.out) /\ Len(p.out) \in Nat /\ Len(q.out) \in Nat
  BY PageFields
<1>2. SameOuts(p, q) /\ q.here = p.here
  BY DEF Keeps
<1>3. DOMAIN p.out \subseteq DOMAIN q.out /\ \A i \in DOMAIN p.out : q.out[i] = p.out[i]
  BY <1>1, <1>2 DEF SameOuts
<1>4. \A i \in DOMAIN q.out : q.out[i].type = "requestExport" => i \in DOMAIN p.out /\ q.out[i] = p.out[i]
  BY <1>1, <1>2, <1>3 DEF SameOuts
<1> QED BY <1>2, <1>3, <1>4 DEF Consumes, Finishes, Asks

LEMMA KeepsMeans ==
  ASSUME NEW p, NEW q, Keeps(p, q, {}), NEW id
  PROVE  /\ Owns(p, id) => Owns(q, id) \/ (Consumes(q, id) /\ Finishes(q, id))
         /\ Comes(p, id) => Comes(q, id) \/ Owns(q, id) \/ (Consumes(q, id) /\ Finishes(q, id))
         /\ Comes(q, id) => Comes(p, id)
         /\ Has(q, id) => Has(p, id) \/ (Comes(p, id) /\ (Owns(q, id) \/ Consumes(q, id)))
<1>1. /\ Owns(p, id) => Owns(q, id) \/ Ended(q, id)
      /\ Comes(p, id) => Comes(q, id) \/ Owns(q, id) \/ Ended(q, id)
      /\ Comes(q, id) => Comes(p, id)
      /\ Has(q, id) => \/ Has(p, id) \/ id \in {}
                       \/ Comes(p, id) /\ (Owns(q, id) \/ Ended(q, id))
  BY Zenon DEF Keeps
<1> QED BY <1>1 DEF Ended

LEMMA Typed ==
  ASSUME TypeInv
  PROVE  /\ scene \in Scenes /\ scene.session \in [DOMAIN page -> Sessions] /\ DOMAIN page = DOMAIN scene.session
         /\ \A t \in DOMAIN page : page[t] \in PageSet /\ Session(t) \in Sessions
         /\ worker \in WorkerSet /\ left \in LeftSet /\ page \in [DOMAIN page -> PageSet]
         /\ MaxExports \in Nat /\ scene.exports \in 0..MaxExports
BY TasksAssumption DEF TypeInv, Session

LEMMA WorkerFields ==
  ASSUME NEW w \in WorkerSet, NEW s \in Sessions
  PROVE  w.request[s] \in 0..MaxExports /\ w.progress[s] \in BarSet
BY DEF WorkerSet, RequestSet, BarsSet

LEMMA ProceedsStep ==
  ASSUME TasksInv, NEW t \in DOMAIN page, NEW q, Proceeds(page[t], q), page' = [page EXCEPT ![t] = q],
         UNCHANGED <<scene, worker>>, left' \in LeftSet, left'.exports = left.exports
  PROVE  TasksInv'
<1>1. /\ TypeInv /\ (\A u \in DOMAIN page : PageInv(page[u]))
      /\ RequestsHeld /\ BarsHeld /\ IdsGiven /\ AsksOnce /\ AsksForNew
  BY DEF TasksInv, ExportsInv
<1>2. /\ page[t] \in PageSet /\ q \in PageSet /\ PageInv(q) /\ Keeps(page[t], q, {})
      /\ page \in [DOMAIN page -> PageSet] /\ DOMAIN page = DOMAIN scene.session
  BY <1>1, Typed, PageButType DEF Proceeds, PageInv
<1>3. DOMAIN page' = DOMAIN page /\ page'[t] = q /\ \A u \in DOMAIN page : u # t => page'[u] = page[u]
  BY <1>2
<1>4. TypeInv'
  <2>1. page' \in [DOMAIN scene.session -> PageSet]
    BY <1>2
  <2> QED BY <2>1, <1>1 DEF TypeInv, LeftSet
<1>5. \A u \in DOMAIN page' : PageInv(page'[u])
  BY <1>1, <1>2, <1>3
<1>6. /\ \A i \in DOMAIN q.out : q.out[i].type = "requestExport" => i \in DOMAIN page[t].out /\ q.out[i] = page[t].out[i]
      /\ \A id : Consumes(page[t], id) => Consumes(q, id)
      /\ \A id : Finishes(page[t], id) => Finishes(q, id)
      /\ \A id : Asks(q, id) => Asks(page[t], id)
      /\ q.here = page[t].here
  BY <1>2, KeepsAsks
<1>7. /\ Here' = Here /\ Issued' = Issued
      /\ \A s \in Sessions : TabsOf(s)' = TabsOf(s) /\ worker'.request[s] = worker.request[s] /\ worker'.progress[s] = worker.progress[s]
  BY <1>3, <1>6 DEF Here, Issued, TabsOf, Session
<1>8. \A id : /\ Owns(page[t], id) => Owns(q, id) \/ (Consumes(q, id) /\ Finishes(q, id))
              /\ Comes(page[t], id) => Comes(q, id) \/ Owns(q, id) \/ (Consumes(q, id) /\ Finishes(q, id))
              /\ Comes(q, id) => Comes(page[t], id)
              /\ Has(q, id) => Has(page[t], id) \/ (Comes(page[t], id) /\ (Owns(q, id) \/ Consumes(q, id)))
  BY <1>2, KeepsMeans
<1>9. RequestsHeld'
  <2> SUFFICES ASSUME NEW s \in Sessions, worker.request[s] # 0
               PROVE  /\ \A u \in TabsOf(s) \cap Here : Has(page'[u], worker.request[s]) =>
                            Owns(page'[u], worker.request[s]) \/ Consumes(page'[u], worker.request[s])
                      /\ TabsOf(s) \subseteq Here => \E u \in TabsOf(s) :
                            \/ Comes(page'[u], worker.request[s]) \/ Owns(page'[u], worker.request[s])
                            \/ Consumes(page'[u], worker.request[s])
    BY <1>7 DEF RequestsHeld
  <2> DEFINE r == worker.request[s]
  <2>0. \A u \in TabsOf(s) : u \in DOMAIN page
    BY DEF TabsOf
  <2>1. \A u \in TabsOf(s) \cap Here : Has(page[u], r) => Owns(page[u], r) \/ Consumes(page[u], r)
    BY <1>1 DEF RequestsHeld
  <2>2. TabsOf(s) \subseteq Here => \E u \in TabsOf(s) : Comes(page[u], r) \/ Owns(page[u], r) \/ Consumes(page[u], r)
    BY <1>1 DEF RequestsHeld
  <2> HIDE DEF r
  <2>3. ASSUME NEW u \in TabsOf(s) \cap Here, Has(page'[u], r) PROVE Owns(page'[u], r) \/ Consumes(page'[u], r)
    <3>1. CASE u = t
      BY <3>1, <2>1, <2>3, <1>3, <1>6, <1>8
    <3>2. CASE u # t
      BY <3>2, <2>0, <2>1, <2>3, <1>3
    <3> QED BY <3>1, <3>2
  <2>4. ASSUME TabsOf(s) \subseteq Here
        PROVE  \E u \in TabsOf(s) : Comes(page'[u], r) \/ Owns(page'[u], r) \/ Consumes(page'[u], r)
    <3>1. PICK u \in TabsOf(s) : Comes(page[u], r) \/ Owns(page[u], r) \/ Consumes(page[u], r)
      BY <2>2, <2>4
    <3>2. CASE u = t
      BY <3>1, <3>2, <1>3, <1>6, <1>8
    <3>3. CASE u # t
      BY <3>1, <3>3, <2>0, <1>3
    <3> QED BY <3>2, <3>3
  <2> QED BY <2>3, <2>4 DEF r
<1>10. BarsHeld'
  <2> SUFFICES ASSUME NEW s \in Sessions, worker.progress[s].stage \in Running, TabsOf(s) \subseteq Here
               PROVE  \E u \in TabsOf(s) : \/ Comes(page'[u], worker.progress[s].id) \/ Owns(page'[u], worker.progress[s].id)
                                           \/ Finishes(page'[u], worker.progress[s].id)
    BY <1>7 DEF BarsHeld
  <2> DEFINE id == worker.progress[s].id
  <2>1. PICK u \in TabsOf(s) : Comes(page[u], id) \/ Owns(page[u], id) \/ Finishes(page[u], id)
    BY <1>1 DEF BarsHeld
  <2> HIDE DEF id
  <2>2. u \in DOMAIN page
    BY DEF TabsOf
  <2>3. CASE u = t
    <3>1. Comes(q, id) \/ Owns(q, id) \/ Finishes(q, id)
      BY <2>1, <2>3, <1>6, <1>8
    <3> QED BY <3>1, <2>3, <1>3 DEF id
  <2>4. CASE u # t
    BY <2>1, <2>2, <2>4, <1>3 DEF id
  <2> QED BY <2>3, <2>4
<1>11. IdsGiven'
  <2> SUFFICES ASSUME NEW u \in DOMAIN page, NEW id \in Ids, Has(page'[u], id) \/ Comes(page'[u], id) \/ Asks(page'[u], id)
               PROVE  id <= Issued
    BY <1>3, <1>7 DEF IdsGiven
  <2>1. CASE u = t
    <3>1. Has(page[t], id) \/ Comes(page[t], id) \/ Asks(page[t], id)
      BY <2>1, <1>3, <1>6, <1>8
    <3> QED BY <3>1, <1>1 DEF IdsGiven
  <2>2. CASE u # t
    BY <2>2, <1>1, <1>3 DEF IdsGiven
  <2> QED BY <2>1, <2>2
<1>12. \A u \in DOMAIN page : \A i : i \in DOMAIN page'[u].out /\ page'[u].out[i].type = "requestExport"
          => i \in DOMAIN page[u].out /\ page'[u].out[i] = page[u].out[i]
  BY <1>3, <1>6
<1>13. AsksOnce'
  BY <1>1, <1>3, <1>12 DEF AsksOnce
<1>14. AsksForNew'
  <2> SUFFICES ASSUME NEW u \in DOMAIN page, NEW v \in DOMAIN page, NEW id \in Ids, Asks(page'[u], id)
               PROVE  ~Has(page'[v], id) /\ ~Comes(page'[v], id)
    BY <1>3 DEF AsksForNew
  <2>1. Asks(page[u], id)
    BY <1>12 DEF Asks
  <2>2. ~Has(page[v], id) /\ ~Comes(page[v], id)
    BY <2>1, <1>1 DEF AsksForNew
  <2>3. CASE v = t
    BY <2>2, <2>3, <1>3, <1>8
  <2>4. CASE v # t
    BY <2>2, <2>4, <1>3
  <2> QED BY <2>3, <2>4
<1> QED BY <1>4, <1>5, <1>9, <1>10, <1>11, <1>13, <1>14 DEF TasksInv, ExportsInv

-----------------------------------------------------------------------------
(* The user asks for an export: its number is new. *)

LEMMA Asking ==
  ASSUME NEW p \in PageSet, NEW m \in OutSet, NEW q, q = Sent(p, m)
  PROVE  /\ \A id : /\ Owns(q, id) <=> Owns(p, id)
                    /\ Comes(q, id) <=> Comes(p, id)
                    /\ Has(q, id) <=> Has(p, id)
                    /\ Consumes(p, id) => Consumes(q, id)
                    /\ Finishes(p, id) => Finishes(q, id)
         /\ \A i \in DOMAIN q.out : \/ i \in DOMAIN p.out /\ q.out[i] = p.out[i]
                                    \/ i = Len(p.out) + 1 /\ q.out[i] = m
<1>1. q \in PageSet /\ q.out = Append(p.out, m) /\ SameRest(p, q) /\ SameWork(p, q)
  BY SentFields
<1>2. p.out \in Seq(OutSet)
  BY PageFields
<1>3. \A i \in DOMAIN p.out : i \in DOMAIN q.out /\ q.out[i] = p.out[i]
  BY <1>1, <1>2
<1>4. \A i \in DOMAIN q.out : \/ i \in DOMAIN p.out /\ q.out[i] = p.out[i]
                              \/ i = Len(p.out) + 1 /\ q.out[i] = m
  <2> DEFINE out == p.out
  <2>1. /\ DOMAIN Append(out, m) = 1..(Len(out) + 1) /\ DOMAIN out = 1..Len(out) /\ Len(out) \in Nat
        /\ \A i \in 1..Len(out) : Append(out, m)[i] = out[i]
        /\ Append(out, m)[Len(out) + 1] = m
    BY <1>2
  <2> HIDE DEF out
  <2>2. \A i \in 1..(Len(out) + 1) : i \in 1..Len(out) \/ i = Len(out) + 1
    BY <2>1
  <2>3. \A i \in DOMAIN Append(out, m) : \/ i \in DOMAIN out /\ Append(out, m)[i] = out[i]
                                         \/ i = Len(out) + 1 /\ Append(out, m)[i] = m
    BY <2>1, <2>2
  <2> QED BY <2>3, <1>1 DEF out
<1>5. q.runs = p.runs /\ q.tasks = p.tasks /\ q.in = p.in
  BY <1>1 DEF SameRest, SameWork
<1>6. \A id : /\ Owns(q, id) <=> Owns(p, id)
              /\ Comes(q, id) <=> Comes(p, id)
              /\ Has(q, id) <=> Has(p, id)
  <2> TAKE id
  <2>1. Owns(q, id) <=> Owns(p, id)
    BY ONLY <1>5, Zenon DEF Owns
  <2>2. Comes(q, id) <=> Comes(p, id)
    BY ONLY <1>5, Zenon DEF Comes
  <2>3. Has(q, id) <=> Has(p, id)
    BY ONLY <1>5, Zenon DEF Has
  <2> QED BY <2>1, <2>2, <2>3
<1>7. \A id : (Consumes(p, id) => Consumes(q, id)) /\ (Finishes(p, id) => Finishes(q, id))
  BY <1>3 DEF Consumes, Finishes
<1> QED BY <1>4, <1>6, <1>7

LEMMA ExportClickedStep ==
  ASSUME TasksInv, NEW t \in DOMAIN page, NEW range \in Intents, ExportClicked(t, range)
  PROVE  TasksInv'
<1> DEFINE n == Issued + 1
           m == [type |-> "requestExport", id |-> n, range |-> range, by |-> Session(t)]
           q == Sent(page[t], m)
<1>1. /\ TypeInv /\ (\A u \in DOMAIN page : PageInv(page[u]))
      /\ RequestsHeld /\ BarsHeld /\ IdsGiven /\ AsksOnce /\ AsksForNew
  BY DEF TasksInv, ExportsInv
<1>2. /\ scene \in Scenes /\ Session(t) \in Sessions /\ left \in LeftSet /\ MaxExports \in Nat /\ scene.exports \in 0..MaxExports
      /\ page \in [DOMAIN page -> PageSet] /\ DOMAIN page = DOMAIN scene.session /\ page[t] \in PageSet
  BY <1>1, Typed
<1>3. /\ left.exports > 0 /\ page' = [page EXCEPT ![t] = q] /\ left' = [left EXCEPT !.exports = @ - 1]
      /\ UNCHANGED <<scene, worker>>
  BY DEF ExportClicked, Step, Issued
<1>4. left.exports \in 0..scene.exports
  BY <1>2 DEF LeftSet
<1>5. n \in Ids /\ Issued \in Nat
  BY <1>2, <1>3, <1>4 DEF Issued, Ids
<1>6. left' \in LeftSet' /\ left'.exports = left.exports - 1
  <2>1. left.exports - 1 \in 0..scene.exports
    BY <1>2, <1>3, <1>4
  <2> QED BY <2>1, <1>2, <1>3 DEF LeftSet
<1>7. Issued' = n
  BY <1>2, <1>3, <1>4, <1>6 DEF Issued
<1>8. m \in OutSet /\ m.type = "requestExport" /\ m.id = n
  BY <1>2, <1>5 DEF OutSet, Requests
<1> HIDE DEF n, m
<1>9. PageInv(q) /\ SameRest(page[t], q)
  <2>1. PageBut(page[t], {}, {}) /\ (Starts(m) => m.id \in {})
    BY <1>1, <1>8 DEF PageInv, Starts
  <2>2. PageBut(q, {}, {}) /\ SameRest(page[t], q)
    BY <2>1, <1>8, Sends
  <2> QED BY <2>2 DEF PageInv
<1>10. /\ \A id : /\ Owns(q, id) <=> Owns(page[t], id)
                  /\ Comes(q, id) <=> Comes(page[t], id)
                  /\ Has(q, id) <=> Has(page[t], id)
                  /\ Consumes(page[t], id) => Consumes(q, id)
                  /\ Finishes(page[t], id) => Finishes(q, id)
       /\ \A i \in DOMAIN q.out : \/ i \in DOMAIN page[t].out /\ q.out[i] = page[t].out[i]
                                  \/ i = Len(page[t].out) + 1 /\ q.out[i] = m
  BY <1>2, <1>8, Asking
<1>11. q \in PageSet /\ q.here = page[t].here
  BY <1>9, PageButType DEF PageInv, SameRest
<1> HIDE DEF q
<1>12. DOMAIN page' = DOMAIN page /\ page'[t] = q /\ \A u \in DOMAIN page : u # t => page'[u] = page[u]
  BY <1>2, <1>3
<1>13. /\ Here' = Here
       /\ \A s \in Sessions : TabsOf(s)' = TabsOf(s) /\ worker'.request[s] = worker.request[s] /\ worker'.progress[s] = worker.progress[s]
  BY <1>3, <1>11, <1>12 DEF Here, TabsOf, Session
<1>14. \A u \in DOMAIN page : \A id :
         /\ Owns(page'[u], id) <=> Owns(page[u], id)
         /\ Comes(page'[u], id) <=> Comes(page[u], id)
         /\ Has(page'[u], id) <=> Has(page[u], id)
         /\ Consumes(page[u], id) => Consumes(page'[u], id)
         /\ Finishes(page[u], id) => Finishes(page'[u], id)
  <2> TAKE u \in DOMAIN page
  <2> TAKE id
  <2>1. CASE u = t
    BY <2>1, <1>10, <1>12
  <2>2. CASE u # t
    BY <2>2, <1>12
  <2> QED BY <2>1, <2>2
<1>15. \A u \in DOMAIN page : \A i : i \in DOMAIN page'[u].out =>
         \/ i \in DOMAIN page[u].out /\ page'[u].out[i] = page[u].out[i]
         \/ u = t /\ i = Len(page[t].out) + 1 /\ page'[u].out[i] = m
  <2> TAKE u \in DOMAIN page
  <2> TAKE i
  <2>1. CASE u = t
    BY <2>1, <1>10, <1>12
  <2>2. CASE u # t
    BY <2>2, <1>12
  <2> QED BY <2>1, <2>2
<1>16. TypeInv'
  <2>1. page' \in [DOMAIN scene.session -> PageSet]
    BY <1>2, <1>3, <1>11
  <2> QED BY <2>1, <1>1, <1>3, <1>6 DEF TypeInv
<1>17. \A u \in DOMAIN page' : PageInv(page'[u])
  <2> SUFFICES ASSUME NEW u \in DOMAIN page PROVE PageInv(page'[u])
    BY <1>12
  <2>1. CASE u = t
    BY <2>1, <1>9, <1>12
  <2>2. CASE u # t
    BY <2>2, <1>1, <1>12
  <2> QED BY <2>1, <2>2
<1>18. RequestsHeld'
  <2>0. \A s, u : u \in TabsOf(s) => u \in DOMAIN page
    BY DEF TabsOf
  <2> QED BY <2>0, <1>1, <1>13, <1>14 DEF RequestsHeld
<1>19. BarsHeld'
  <2>0. \A s, u : u \in TabsOf(s) => u \in DOMAIN page
    BY DEF TabsOf
  <2> QED BY <2>0, <1>1, <1>13, <1>14 DEF BarsHeld
<1>20. \A u \in DOMAIN page : \A id : Asks(page'[u], id) => Asks(page[u], id) \/ (u = t /\ id = n)
  <2> SUFFICES ASSUME NEW u \in DOMAIN page, NEW id, Asks(page'[u], id)
               PROVE  Asks(page[u], id) \/ (u = t /\ id = n)
    OBVIOUS
  <2>1. PICK i \in DOMAIN page'[u].out : page'[u].out[i].type = "requestExport" /\ page'[u].out[i].id = id
    BY DEF Asks
  <2>2. CASE i \in DOMAIN page[u].out /\ page'[u].out[i] = page[u].out[i]
    BY <2>1, <2>2 DEF Asks
  <2>3. CASE u = t /\ page'[u].out[i] = m
    BY <2>1, <2>3, <1>8
  <2> QED BY <2>2, <2>3, <1>15
<1>21. IdsGiven'
  <2> SUFFICES ASSUME NEW u \in DOMAIN page, NEW id \in Ids, Has(page'[u], id) \/ Comes(page'[u], id) \/ Asks(page'[u], id)
               PROVE  id <= n
    BY <1>7, <1>12 DEF IdsGiven
  <2>1. Has(page[u], id) \/ Comes(page[u], id) \/ Asks(page[u], id) \/ id = n
    BY <1>14, <1>20
  <2>2. id <= Issued \/ id = n
    BY <2>1, <1>1 DEF IdsGiven
  <2>3. Issued \in Nat /\ id \in Nat /\ n = Issued + 1
    BY <1>5 DEF Ids, n
  <2> HIDE DEF n
  <2> QED BY <2>2, <2>3
<1>22. \A u \in DOMAIN page : ~Has(page[u], n) /\ ~Comes(page[u], n) /\ ~Asks(page[u], n)
  <2>1. ~(n <= Issued)
    BY <1>5 DEF n
  <2> QED BY <2>1, <1>1, <1>5 DEF IdsGiven
<1>23. AsksOnce'
  <2> SUFFICES ASSUME NEW u \in DOMAIN page, NEW v \in DOMAIN page, NEW i \in DOMAIN page'[u].out, NEW j \in DOMAIN page'[v].out,
                      page'[u].out[i].type = "requestExport", page'[v].out[j].type = "requestExport",
                      page'[u].out[i].id = page'[v].out[j].id
               PROVE  v = u /\ j = i
    BY <1>12 DEF AsksOnce
  <2>1. \/ i \in DOMAIN page[u].out /\ page'[u].out[i] = page[u].out[i]
        \/ u = t /\ i = Len(page[t].out) + 1 /\ page'[u].out[i] = m
    BY <1>15
  <2>2. \/ j \in DOMAIN page[v].out /\ page'[v].out[j] = page[v].out[j]
        \/ v = t /\ j = Len(page[t].out) + 1 /\ page'[v].out[j] = m
    BY <1>15
  <2>3. \A w \in DOMAIN page : \A k \in DOMAIN page[w].out : page[w].out[k].type = "requestExport" => page[w].out[k].id # n
    BY <1>22 DEF Asks
  <2> QED BY <2>1, <2>2, <2>3, <1>1, <1>8 DEF AsksOnce
<1>24. AsksForNew'
  <2> SUFFICES ASSUME NEW u \in DOMAIN page, NEW v \in DOMAIN page, NEW id \in Ids, Asks(page'[u], id)
               PROVE  ~Has(page'[v], id) /\ ~Comes(page'[v], id)
    BY <1>12 DEF AsksForNew
  <2>1. Asks(page[u], id) \/ id = n
    BY <1>20
  <2>2. ~Has(page[v], id) /\ ~Comes(page[v], id)
    <3>1. CASE Asks(page[u], id)
      BY <3>1, <1>1 DEF AsksForNew
    <3>2. CASE id = n
      BY <3>2, <1>22
    <3> QED BY <2>1, <3>1, <3>2
  <2> QED BY <2>2, <1>14
<1> QED BY <1>16, <1>17, <1>18, <1>19, <1>21, <1>23, <1>24 DEF TasksInv, ExportsInv

-----------------------------------------------------------------------------
(* The worker runs the action of a tab. *)

OutTypes == {"requestExport", "setExportProgress", "consumeExportRequest", "requestImportFiles", "setActiveProject",
             "setActiveProjectImportProgress", "importResourceIntoActiveProject", "addActiveProjectResourceToTimeline"}

LEMMA OutKinds ==
  ASSUME NEW m \in OutSet
  PROVE  /\ m.type \in OutTypes
         /\ m.type = "requestExport" => m \in Requests("requestExport")
         /\ m.type = "setExportProgress" => m \in ProgressSet
         /\ m.type = "consumeExportRequest" => m \in ConsumeSet
         /\ m.type = "requestImportFiles" => m \in AskImportSet
         /\ m.type = "setActiveProject" => m \in SwitchSet
         /\ m.type = "setActiveProjectImportProgress" => m \in ImportProgressSet
         /\ m.type \in {"importResourceIntoActiveProject", "addActiveProjectResourceToTimeline"} => m \in FileSet
<1>1. CASE m \in Requests("requestExport")
  BY <1>1 DEF Requests, OutTypes
<1>2. CASE m \in ProgressSet
  BY <1>2 DEF ProgressSet, OutTypes
<1>3. CASE m \in ConsumeSet
  BY <1>3 DEF ConsumeSet, OutTypes
<1>4. CASE m \in AskImportSet
  BY <1>4 DEF AskImportSet, OutTypes
<1>5. CASE m \in SwitchSet
  BY <1>5 DEF SwitchSet, OutTypes
<1>6. CASE m \in ImportProgressSet
  BY <1>6 DEF ImportProgressSet, OutTypes
<1>7. CASE m \in FileSet
  BY <1>7 DEF FileSet, OutTypes
<1> QED BY <1>1, <1>2, <1>3, <1>4, <1>5, <1>6, <1>7 DEF OutSet

(* The requests and the bars are as they were. *)
SameExports(w, v) == v \in WorkerSet /\ v.request = w.request /\ v.progress = w.progress

Asked(w, s, m, v) ==
  /\ v \in WorkerSet /\ v.request = [w.request EXCEPT ![s] = m.id]
  /\ v.progress = [w.progress EXCEPT ![s] = [id |-> m.id, stage |-> "queued"]]
Reported(w, s, m, v) ==
  /\ v \in WorkerSet /\ v.request = w.request
  /\ v.progress = [w.progress EXCEPT ![s] = [id |-> m.id, stage |-> m.stage]]
TakenAway(w, s, m, v) ==
  /\ v \in WorkerSet /\ v.progress = w.progress
  /\ v.request = [w.request EXCEPT ![s] = IF @ = m.id THEN 0 ELSE @]

LEMMA ExportOutcomes ==
  ASSUME NEW w \in WorkerSet, NEW s \in Sessions, NEW m \in OutSet
  PROVE  /\ m.type = "requestExport" => Asked(w, s, m, RequestExport(w, s, m))
         /\ m.type = "setExportProgress" => Reported(w, s, m, SetExportProgress(w, s, m))
         /\ m.type = "consumeExportRequest" => TakenAway(w, s, m, ConsumeExportRequest(w, s, m))
<1>0. w.request \in RequestSet /\ w.progress \in BarsSet
  BY DEF WorkerSet
<1>00. Ids \subseteq 0..MaxExports /\ 0 \in 0..MaxExports /\ \A id \in Ids, st \in Stages : [id |-> id, stage |-> st] \in BarSet
  BY TasksAssumption, WorkerFields DEF Ids, BarSet, WorkerSet, RequestSet
<1>1. ASSUME m.type = "requestExport" PROVE Asked(w, s, m, RequestExport(w, s, m))
  <2>1. m.id \in Ids
    BY <1>1, OutKinds DEF Requests
  <2>2. [w.request EXCEPT ![s] = m.id] \in RequestSet
    BY <2>1, <1>0, <1>00 DEF RequestSet
  <2>3. [w.progress EXCEPT ![s] = [id |-> m.id, stage |-> "queued"]] \in BarsSet
    BY <2>1, <1>0, <1>00 DEF BarsSet, Stages
  <2> QED BY <2>2, <2>3 DEF RequestExport, WorkerSet, Asked
<1>2. ASSUME m.type = "setExportProgress" PROVE Reported(w, s, m, SetExportProgress(w, s, m))
  <2>1. m.id \in Ids /\ m.stage \in Stages
    BY <1>2, OutKinds DEF ProgressSet
  <2>2. [w.progress EXCEPT ![s] = [id |-> m.id, stage |-> m.stage]] \in BarsSet
    BY <2>1, <1>0, <1>00 DEF BarsSet
  <2> QED BY <2>2 DEF SetExportProgress, WorkerSet, Reported
<1>3. ASSUME m.type = "consumeExportRequest" PROVE TakenAway(w, s, m, ConsumeExportRequest(w, s, m))
  <2>1. [w.request EXCEPT ![s] = IF @ = m.id THEN 0 ELSE @] \in RequestSet
    BY <1>0, <1>00 DEF RequestSet
  <2> QED BY <2>1 DEF ConsumeExportRequest, WorkerSet, TakenAway
<1> QED BY <1>1, <1>2, <1>3

LEMMA OtherOutcomes ==
  ASSUME NEW w \in WorkerSet, NEW s \in Sessions, NEW m \in OutSet
  PROVE  /\ m.type = "requestImportFiles" => SameExports(w, RequestImportFiles(w, s, m))
         /\ m.type = "setActiveProjectImportProgress" => SameExports(w, SetImportProgress(w, s, m))
         /\ m.type = "importResourceIntoActiveProject" => SameExports(w, ImportResource(w, s, m))
         /\ m.type = "addActiveProjectResourceToTimeline" => SameExports(w, AddToTimeline(w, s, m))
         /\ m.type = "setActiveProject" => SameExports(w, SetActiveProject(w, s, m))
<1>0. /\ w.active \in ActiveSet /\ w.resources \in ResourcesSet /\ w.timeline \in TimelineSet /\ w.import \in ImportsSet
      /\ w.active[s] \in Projects
  BY DEF WorkerSet, ActiveSet
<1> DEFINE a == w.active[s]
<1>1. ASSUME m.type = "requestImportFiles" PROVE SameExports(w, RequestImportFiles(w, s, m))
  <2>1. [task |-> m.handle, stage |-> "queued"] \in ImportState
    BY <1>1, OutKinds DEF AskImportSet, ImportState, Stages
  <2>2. [w.import EXCEPT ![a] = [task |-> m.handle, stage |-> "queued"]] \in ImportsSet
    BY <2>1, <1>0 DEF ImportsSet
  <2> QED BY <2>2 DEF RequestImportFiles, WorkerSet, SameExports
<1>2. ASSUME m.type = "setActiveProjectImportProgress" PROVE SameExports(w, SetImportProgress(w, s, m))
  <2> DEFINE i == [task |-> IF m.stage \in {"done", "error"} THEN 0 ELSE m.handle, stage |-> m.stage]
  <2>1. i \in ImportState
    BY <1>2, OutKinds DEF ImportProgressSet, ImportState
  <2> HIDE DEF i
  <2>2. [w.import EXCEPT ![a] = i] \in ImportsSet
    BY <2>1, <1>0 DEF ImportsSet
  <2> QED BY <2>2 DEF SetImportProgress, WorkerSet, SameExports, i
<1>3. ASSUME m.type = "importResourceIntoActiveProject" PROVE SameExports(w, ImportResource(w, s, m))
  <2>1. m.file \in Files
    BY <1>3, OutKinds DEF FileSet
  <2> DEFINE r == [w.resources EXCEPT ![a][m.file] = @ + 1]
  <2>2. r \in ResourcesSet
    BY <2>1, <1>0 DEF ResourcesSet
  <2>3. ImportResource(w, s, m) = [w EXCEPT !.resources = r]
    BY DEF ImportResource, WorkerSet
  <2> HIDE DEF r
  <2> QED BY <2>2, <2>3 DEF WorkerSet, SameExports
<1>4. ASSUME m.type = "addActiveProjectResourceToTimeline" PROVE SameExports(w, AddToTimeline(w, s, m))
  <2>1. m.file \in Files
    BY <1>4, OutKinds DEF FileSet
  <2> DEFINE l == [w.timeline EXCEPT ![a] = @ \cup {m.file}]
  <2>2. l \in TimelineSet
    BY <2>1, <1>0 DEF TimelineSet
  <2>3. AddToTimeline(w, s, m) = w \/ AddToTimeline(w, s, m) = [w EXCEPT !.timeline = l]
    BY DEF AddToTimeline, WorkerSet
  <2> HIDE DEF l
  <2> QED BY <2>2, <2>3 DEF WorkerSet, SameExports
<1>5. ASSUME m.type = "setActiveProject" PROVE SameExports(w, SetActiveProject(w, s, m))
  <2>1. [w.active EXCEPT ![s] = m.project] \in ActiveSet
    BY <1>0, <1>5, OutKinds DEF SwitchSet, ActiveSet
  <2> QED BY <2>1 DEF SetActiveProject, WorkerSet, SameExports
<1> QED BY <1>1, <1>2, <1>3, <1>4, <1>5

(* What the action m of a tab of session s makes of the exports; asked says that it asks the tabs to render. *)
Answers(w, v, s, m, asked) ==
  /\ v \in WorkerSet
  /\ \A o \in Sessions :
       /\ \/ v.request[o] = w.request[o] /\ ~(o = s /\ m.type = "consumeExportRequest" /\ m.id = w.request[o])
          \/ v.request[o] = 0
          \/ o = s /\ asked /\ v.request[o] = m.id
       /\ \/ v.progress[o] = w.progress[o] /\ ~(o = s /\ Final(m, w.progress[o].id))
          \/ v.progress[o].stage \notin Running
          \/ o = s /\ Starts(m) /\ v.progress[o].id = m.id
          \/ o = s /\ asked /\ v.progress[o].id = m.id

LEMMA OutcomeAnswers ==
  ASSUME NEW w \in WorkerSet, NEW s \in Sessions, NEW m \in OutSet, NEW v, v = Outcome(w, s, m)
  PROVE  Answers(w, v, s, m, m.type = "requestExport")
<1>0. w.request \in RequestSet /\ w.progress \in BarsSet
  BY DEF WorkerSet
<1>00. w \in WorkerSet /\ s \in Sessions /\ m \in OutSet
  OBVIOUS
<1>1. CASE m.type = "requestExport"
  <2>1. v = RequestExport(w, s, m)
    BY <1>1 DEF Outcome
  <2>1a. Asked(w, s, m, v)
    BY ONLY <1>1, <1>00, <2>1, ExportOutcomes
  <2>2. \A o \in Sessions : /\ o # s => v.request[o] = w.request[o] /\ v.progress[o] = w.progress[o]
                            /\ o = s => v.request[o] = m.id /\ v.progress[o].id = m.id
    BY <1>0, <2>1a DEF Asked, RequestSet, BarsSet
  <2> QED BY <1>1, <2>1a, <2>2 DEF Answers, Asked
<1>2. CASE m.type = "setExportProgress"
  <2>1. v = SetExportProgress(w, s, m)
    BY <1>2 DEF Outcome
  <2>1a. Reported(w, s, m, v)
    BY ONLY <1>2, <1>00, <2>1, ExportOutcomes
  <2>3. \A o \in Sessions : /\ o # s => v.progress[o] = w.progress[o]
                            /\ o = s => v.progress[o].id = m.id /\ v.progress[o].stage = m.stage
    BY <2>1a, <1>0 DEF BarsSet, Reported
  <2>4. m.stage \in Running => Starts(m)
    BY <1>2 DEF Starts
  <2> QED BY <1>2, <2>1a, <2>3, <2>4 DEF Answers, Reported, Starts, Final
<1>3. CASE m.type = "consumeExportRequest"
  <2>1. v = ConsumeExportRequest(w, s, m)
    BY <1>3 DEF Outcome
  <2>1a. TakenAway(w, s, m, v)
    BY ONLY <1>3, <1>00, <2>1, ExportOutcomes
  <2>3. \A o \in Sessions : v.request[o] = 0 \/ (v.request[o] = w.request[o] /\ ~(o = s /\ m.id = w.request[o]))
    BY <2>1a, <1>0 DEF RequestSet, TakenAway
  <2>4. \A id : ~Final(m, id)
    BY <1>3 DEF Final
  <2> QED BY <1>3, <2>1a, <2>3, <2>4 DEF Answers, TakenAway
<1>4. CASE m.type \notin {"requestExport", "setExportProgress", "consumeExportRequest"}
  <2>1. \/ m.type = "requestImportFiles" /\ v = RequestImportFiles(w, s, m)
        \/ m.type = "setActiveProjectImportProgress" /\ v = SetImportProgress(w, s, m)
        \/ m.type = "importResourceIntoActiveProject" /\ v = ImportResource(w, s, m)
        \/ m.type = "addActiveProjectResourceToTimeline" /\ v = AddToTimeline(w, s, m)
        \/ m.type = "setActiveProject" /\ v = SetActiveProject(w, s, m)
    BY <1>4, OutKinds DEF Outcome, OutTypes
  <2>2. SameExports(w, v)
    BY <2>1, OtherOutcomes
  <2>3. \A id : ~Final(m, id)
    BY <1>4 DEF Final
  <2> QED BY <1>4, <2>2, <2>3 DEF Answers, SameExports
<1> QED BY <1>1, <1>2, <1>3, <1>4

LEMMA NothingAnswers ==
  ASSUME NEW w \in WorkerSet, NEW s, NEW m, m.type = "requestExport"
  PROVE  Answers(w, w, s, m, FALSE)
BY DEF Answers, Final

(* What is published to a tab comes to it. *)
Passed(p, q, n, asked) ==
  /\ PageInv(q) /\ q.here = p.here /\ SameWork(p, q) /\ q.out = p.out
  /\ \A id : /\ Comes(p, id) => Comes(q, id)
             /\ Comes(q, id) => Comes(p, id) \/ (asked /\ n = id)
  /\ asked /\ p.here => Comes(q, n)

LEMMA Publishing ==
  ASSUME NEW p, PageInv(p), NEW m \in InSet, NEW q, q = [p EXCEPT !.in = Append(@, m)]
  PROVE  /\ m.type = "export" => Passed(p, q, m.id, TRUE)
         /\ m.type = "import" => \A n : Passed(p, q, n, FALSE)
<1> DEFINE in == p.in
           new == Append(in, m)
<1>1. p \in PageSet /\ in \in Seq(InSet)
  BY PageButType, PageFields DEF PageInv
<1>2. new \in Seq(InSet) /\ q = [p EXCEPT !.in = new]
  BY <1>1
<1>3. /\ DOMAIN new = 1..(Len(in) + 1) /\ DOMAIN in = 1..Len(in) /\ Len(in) \in Nat
      /\ \A i \in 1..Len(in) : new[i] = in[i]
      /\ new[Len(in) + 1] = m
  BY <1>1
<1>0. PageInv(p)
  OBVIOUS
<1> HIDE DEF in, new
<1>4. PageInv(q) /\ SameWork(p, q) /\ q.here = p.here /\ q.in = new /\ q.out = p.out
  BY ONLY <1>0, <1>2, InboxInv
<1>5. \A i \in DOMAIN in : i \in DOMAIN new /\ new[i] = in[i]
  BY <1>3
<1>6. \A i \in DOMAIN new : (i \in DOMAIN in /\ new[i] = in[i]) \/ new[i] = m
  BY <1>3
<1>7. Len(in) + 1 \in DOMAIN new
  BY <1>3
<1>8. \A id : Comes(p, id) => Comes(q, id)
  BY <1>4, <1>5 DEF Comes, in
<1>9. \A id : Comes(q, id) => Comes(p, id) \/ (m.type = "export" /\ m.id = id)
  <2> SUFFICES ASSUME NEW id, Comes(q, id) PROVE Comes(p, id) \/ (m.type = "export" /\ m.id = id)
    OBVIOUS
  <2>1. PICK i \in DOMAIN new : new[i].type = "export" /\ new[i].id = id
    BY <1>4 DEF Comes
  <2>2. CASE i \in DOMAIN in /\ new[i] = in[i]
    BY <2>1, <2>2 DEF Comes, in
  <2> QED BY <2>1, <2>2, <1>6
<1>10. m.type = "export" => Comes(q, m.id)
  BY <1>3, <1>4, <1>7 DEF Comes
<1>11. m.type = "export" => Passed(p, q, m.id, TRUE)
  BY <1>4, <1>8, <1>9, <1>10 DEF Passed
<1>12. m.type = "import" => \A n : Passed(p, q, n, FALSE)
  BY <1>4, <1>8, <1>9 DEF Passed
<1> QED BY <1>11, <1>12

LEMMA NotPublishing ==
  ASSUME NEW p, PageInv(p), NEW n, NEW asked \in BOOLEAN, asked => ~p.here
  PROVE  Passed(p, p, n, asked)
BY DEF Passed, SameWork

(* The message m at the head of what a tab has sent is taken. *)
Shifted(p, q, m) ==
  /\ PageInv(q) /\ SameWork(p, q) /\ q.here = p.here /\ q.in = p.in
  /\ \A id : /\ Consumes(p, id) => Consumes(q, id) \/ (m.type = "consumeExportRequest" /\ m.id = id)
             /\ Finishes(p, id) => Finishes(q, id) \/ Final(m, id)
  /\ \A i \in DOMAIN q.out : i \in Nat \ {0} /\ i + 1 \in DOMAIN p.out /\ q.out[i] = p.out[i + 1]
  /\ p.here /\ Starts(m) => Owns(q, m.id) \/ Finishes(q, m.id)
  /\ m \in OutSet /\ 1 \in DOMAIN p.out /\ p.out[1] = m

LEMMA SameWorkOwns ==
  ASSUME NEW p, NEW q, SameWork(p, q)
  PROVE  \A id : (Owns(q, id) <=> Owns(p, id)) /\ (Has(q, id) <=> Has(p, id))
<1> TAKE id
<1>1. q.runs = p.runs /\ q.tasks = p.tasks
  BY DEF SameWork
<1>2. Owns(q, id) <=> Owns(p, id)
  BY ONLY <1>1, Zenon DEF Owns
<1>3. Has(q, id) <=> Has(p, id)
  BY ONLY <1>1, Zenon DEF Has
<1> QED BY <1>2, <1>3

LEMMA Shifting ==
  ASSUME NEW p, PageInv(p), p.out # <<>>, NEW m, m = Head(p.out), NEW q, q = [p EXCEPT !.out = Tail(@)]
  PROVE  Shifted(p, q, m)
<1> DEFINE out == p.out
           new == Tail(out)
<1>0. PageInv(p)
  OBVIOUS
<1>1. p \in PageSet /\ out \in Seq(OutSet) /\ out # <<>>
  BY PageButType, PageFields DEF PageInv
<1>2. /\ new \in Seq(OutSet) /\ m \in OutSet /\ q = [p EXCEPT !.out = new]
      /\ DOMAIN out = 1..Len(out) /\ DOMAIN new = 1..Len(new) /\ Len(out) = Len(new) + 1 /\ Len(new) \in Nat
      /\ \A i \in 1..Len(new) : new[i] = out[i + 1]
      /\ out[1] = m
  <2> HIDE DEF out
  <2>1. /\ new \in Seq(OutSet) /\ DOMAIN out = 1..Len(out) /\ DOMAIN new = 1..Len(new) /\ Len(out) = Len(new) + 1 /\ Len(new) \in Nat
        /\ \A i \in 1..Len(new) : new[i] = out[i + 1]
        /\ Head(out) = out[1] /\ Head(out) \in OutSet
    BY <1>1
  <2> QED BY <2>1 DEF out
<1> HIDE DEF out, new
<1>3. \A i \in DOMAIN new : i \in Nat \ {0} /\ i + 1 \in DOMAIN out /\ new[i] = out[i + 1]
  BY <1>2
<1>4. \A i \in DOMAIN out : i = 1 \/ (i - 1 \in DOMAIN new /\ new[i - 1] = out[i])
  <2> SUFFICES ASSUME NEW i \in DOMAIN out, i # 1 PROVE i - 1 \in DOMAIN new /\ new[i - 1] = out[i]
    OBVIOUS
  <2>1. i - 1 \in 1..Len(new) /\ (i - 1) + 1 = i
    BY <1>2
  <2> QED BY <2>1, <1>2
<1>4a. 1 \in DOMAIN out
  BY <1>2
<1>5. q \in PageSet /\ q.out = new /\ SameRest(p, q) /\ SameWork(p, q)
  BY <1>1, <1>2 DEF PageSet, SameRest, SameWork
<1>5a. q.here = p.here /\ q.in = p.in /\ q.staged = p.staged /\ q.refs = p.refs /\ q.tasks = p.tasks /\ q.queued = p.queued /\ q.runs = p.runs
  BY <1>5 DEF SameRest, SameWork
<1>6. \A id : (Owns(q, id) <=> Owns(p, id)) /\ (Has(q, id) <=> Has(p, id))
  BY <1>5, SameWorkOwns
<1>7. p.here => BarsEnd(p, {})
  BY DEF PageInv, PageBut
<1>8. ASSUME p.here, NEW i \in DOMAIN out, Starts(out[i])
      PROVE  Owns(q, out[i].id) \/ \E j \in DOMAIN out : j > i /\ j # 1 /\ Final(out[j], out[i].id)
  <2>1. Owns(p, out[i].id) \/ \E j \in DOMAIN out : j > i /\ Final(out[j], out[i].id)
    BY <1>7, <1>8 DEF BarsEnd, out
  <2>2. \A j \in DOMAIN out : j > i => j # 1
    BY <1>2
  <2> QED BY <2>1, <2>2, <1>6
<1>9. p.here => BarsEnd(q, {})
  <2> SUFFICES ASSUME p.here, NEW i \in DOMAIN new, Starts(new[i])
               PROVE  Owns(q, new[i].id) \/ \E j \in DOMAIN new : j > i /\ Final(new[j], new[i].id)
    BY <1>5 DEF BarsEnd
  <2>1. i \in Nat \ {0} /\ i + 1 \in DOMAIN out /\ new[i] = out[i + 1]
    BY <1>3
  <2>2. Owns(q, new[i].id) \/ \E j \in DOMAIN out : j > i + 1 /\ j # 1 /\ Final(out[j], new[i].id)
    BY <1>8, <2>1
  <2>3. ASSUME NEW j \in DOMAIN out, j > i + 1, j # 1, Final(out[j], new[i].id)
        PROVE  \E k \in DOMAIN new : k > i /\ Final(new[k], new[i].id)
    <3>1. j - 1 \in DOMAIN new /\ new[j - 1] = out[j]
      BY <2>3, <1>4
    <3>2. j - 1 > i
      BY <2>1, <2>3, <1>2
    <3> QED BY <3>1, <3>2, <2>3
  <2> QED BY <2>2, <2>3
<1>10. PageInv(q)
  <2>1. /\ DOMAIN p.staged \subseteq 1..p.refs
        /\ p.queued \in [Intents -> 0..Len(p.tasks)]
        /\ RunsHaveTasks(p.runs, p.tasks)
        /\ p.here => InStep(p.tasks, p.queued, RunTasks(p.runs) \cup {})
    BY DEF PageInv, PageBut
  <2>2. /\ DOMAIN q.staged \subseteq 1..q.refs
        /\ q.queued \in [Intents -> 0..Len(q.tasks)]
        /\ RunsHaveTasks(q.runs, q.tasks)
        /\ q.here => InStep(q.tasks, q.queued, RunTasks(q.runs) \cup {})
    BY ONLY <2>1, <1>5a
  <2>3. q.here => BarsEnd(q, {})
    BY <1>5a, <1>9
  <2> QED BY ONLY <2>2, <2>3, <1>5 DEF PageInv, PageBut
<1>11. \A id : Consumes(p, id) => Consumes(q, id) \/ (m.type = "consumeExportRequest" /\ m.id = id)
  <2> SUFFICES ASSUME NEW id, Consumes(p, id), ~(m.type = "consumeExportRequest" /\ m.id = id) PROVE Consumes(q, id)
    OBVIOUS
  <2>1. PICK i \in DOMAIN out : out[i].type = "consumeExportRequest" /\ out[i].id = id
    BY DEF Consumes, out
  <2>2. i - 1 \in DOMAIN new /\ new[i - 1] = out[i]
    BY <2>1, <1>2, <1>4
  <2> QED BY <2>1, <2>2, <1>5 DEF Consumes
<1>12. \A id : Finishes(p, id) => Finishes(q, id) \/ Final(m, id)
  <2> SUFFICES ASSUME NEW id, Finishes(p, id), ~Final(m, id) PROVE Finishes(q, id)
    OBVIOUS
  <2>1. PICK i \in DOMAIN out : Final(out[i], id)
    BY DEF Finishes, out
  <2>2. i - 1 \in DOMAIN new /\ new[i - 1] = out[i]
    BY <2>1, <1>2, <1>4
  <2> QED BY <2>1, <2>2, <1>5 DEF Finishes
<1>13. p.here /\ Starts(m) => Owns(q, m.id) \/ Finishes(q, m.id)
  <2> SUFFICES ASSUME p.here, Starts(m), ~Owns(q, m.id) PROVE Finishes(q, m.id)
    OBVIOUS
  <2>1. PICK j \in DOMAIN out : j # 1 /\ Final(out[j], m.id)
    BY <1>8, <1>2, <1>4a
  <2>2. j - 1 \in DOMAIN new /\ new[j - 1] = out[j]
    BY <2>1, <1>4
  <2> QED BY <2>1, <2>2, <1>5 DEF Finishes
<1> QED BY <1>2, <1>3, <1>4a, <1>5, <1>5a, <1>10, <1>11, <1>12, <1>13 DEF Shifted, out

(* What Handle does, by page: the message m of tab t is taken, and then published if it asks for an export. *)
Handled(t, q, m, asked) ==
  /\ asked \in BOOLEAN /\ (asked => m.type = "requestExport")
  /\ Answers(worker, worker', Session(t), m, asked)
  /\ Shifted(page[t], q, m)
  /\ DOMAIN page' = DOMAIN page /\ page' \in [DOMAIN page -> PageSet]
  /\ Passed(q, page'[t], m.id, asked)
  /\ \A u \in DOMAIN page \ {t} : Passed(page[u], page'[u], m.id, asked)
  /\ UNCHANGED <<scene, left>>

LEMMA PassedType ==
  ASSUME NEW p, NEW q, NEW n, NEW asked, Passed(p, q, n, asked)
  PROVE  q \in PageSet
BY DEF Passed, PageInv, PageBut

LEMMA Published ==
  ASSUME NEW pages, \A u \in DOMAIN pages : PageInv(pages[u]), NEW m \in InSet, NEW new, new = Publish(pages, m),
         NEW u \in DOMAIN pages
  PROVE  /\ new = [v \in DOMAIN pages |-> new[v]] /\ DOMAIN new = DOMAIN pages
         /\ m.type = "export" => Passed(pages[u], new[u], m.id, TRUE)
         /\ m.type = "import" => \A n : Passed(pages[u], new[u], n, FALSE)
<1>1. PageInv(pages[u])
  OBVIOUS
<1>2. DOMAIN new = DOMAIN pages /\ new = [v \in DOMAIN pages |-> new[v]]
  BY DEF Publish
<1>3. CASE pages[u].here
  <2>1. new[u] = [pages[u] EXCEPT !.in = Append(@, m)]
    BY <1>3 DEF Publish
  <2> QED BY ONLY <1>1, <1>2, <2>1, m \in InSet, Publishing
<1>4. CASE ~pages[u].here
  <2>1. new[u] = pages[u]
    BY <1>4 DEF Publish
  <2>2. \A n : Passed(pages[u], pages[u], n, TRUE) /\ Passed(pages[u], pages[u], n, FALSE)
    BY <1>1, <1>4, NotPublishing
  <2> QED BY ONLY <1>2, <2>1, <2>2
<1> QED BY <1>3, <1>4

LEMMA HandledPages ==
  ASSUME TasksInv, NEW t \in DOMAIN page, Handle(t)
  PROVE  \E q, m, asked : Handled(t, q, m, asked)
<1> DEFINE p == page[t]
           m == Head(p.out)
           q == [p EXCEPT !.out = Tail(@)]
           rest == [page EXCEPT ![t].out = Tail(@)]
<1>1. /\ TypeInv /\ (\A u \in DOMAIN page : PageInv(page[u])) /\ PageInv(p)
      /\ worker \in WorkerSet /\ Session(t) \in Sessions /\ page \in [DOMAIN page -> PageSet]
  BY Typed DEF TasksInv
<1>2. p.out # <<>> /\ UNCHANGED <<scene, left>>
  BY DEF Handle
<1>3. Shifted(p, q, m)
  BY <1>1, <1>2, Shifting
<1>4. m \in OutSet /\ PageInv(q)
  BY <1>3 DEF Shifted
<1>5. rest = [page EXCEPT ![t] = q]
  BY <1>1
<1>6. \/ worker' = Outcome(worker, Session(t), m) /\ m.type = "requestExport" /\ page' = Publish(rest, [m EXCEPT !.type = "export"])
      \/ worker' = Outcome(worker, Session(t), m) /\ m.type = "requestImportFiles"
           /\ page' = Publish(rest, [type |-> "import", handle |-> m.handle])
      \/ worker' = Outcome(worker, Session(t), m) /\ m.type \notin {"requestExport", "requestImportFiles"} /\ page' = rest
      \/ m.type = "requestExport" /\ page' = rest /\ worker' = worker
  BY DEF Handle
<1> HIDE DEF rest
<1> HIDE DEF q, m
<1>7. DOMAIN rest = DOMAIN page /\ rest[t] = q /\ \A u \in DOMAIN page \ {t} : rest[u] = page[u]
  BY <1>5
<1>8. \A u \in DOMAIN rest : PageInv(rest[u])
  BY <1>1, <1>4, <1>7
<1> DEFINE Goal(asked) == /\ DOMAIN page' = DOMAIN page /\ page' = [v \in DOMAIN page |-> page'[v]]
                          /\ \A u \in DOMAIN page : Passed(rest[u], page'[u], m.id, asked)
<1>9. ASSUME NEW asked \in BOOLEAN, asked => m.type = "requestExport", Answers(worker, worker', Session(t), m, asked), Goal(asked)
      PROVE  Handled(t, q, m, asked)
  <2>1. page' \in [DOMAIN page -> PageSet]
    <3>1. \A u \in DOMAIN page : page'[u] \in PageSet
      BY <1>9, PassedType
    <3> QED BY <3>1, <1>9
  <2>2. Passed(q, page'[t], m.id, asked)
    BY <1>7, <1>9
  <2>3. \A u \in DOMAIN page \ {t} : Passed(page[u], page'[u], m.id, asked)
    BY <1>7, <1>9
  <2> QED BY <1>2, <1>3, <1>9, <2>1, <2>2, <2>3 DEF Handled
<1>10. ASSUME page' = rest PROVE Goal(FALSE)
  <2>1. DOMAIN page' = DOMAIN page /\ page' = [v \in DOMAIN page |-> page'[v]]
    BY <1>10, <1>5, <1>1
  <2>2. \A u \in DOMAIN page : Passed(rest[u], page'[u], m.id, FALSE)
    BY <1>8, <1>7, <1>10, NotPublishing
  <2> QED BY <2>1, <2>2
<1>11. CASE worker' = Outcome(worker, Session(t), m) /\ m.type = "requestExport" /\ page' = Publish(rest, [m EXCEPT !.type = "export"])
  <2> DEFINE msg == [m EXCEPT !.type = "export"]
  <2>1. msg \in InSet /\ msg.type = "export" /\ msg.id = m.id
    BY <1>4, <1>11, OutKinds DEF InSet, Requests
  <2> HIDE DEF msg
  <2>2. Answers(worker, worker', Session(t), m, m.type = "requestExport")
    BY <1>1, <1>4, <1>11, OutcomeAnswers
  <2>3. (m.type = "requestExport") = TRUE
    BY <1>11
  <2>4. Answers(worker, worker', Session(t), m, TRUE)
    BY ONLY <2>2, <2>3
  <2>5. page' = Publish(rest, msg)
    BY <1>11 DEF msg
  <2>6. Goal(TRUE)
    <3>1. \A u \in DOMAIN rest : /\ page' = [v \in DOMAIN rest |-> page'[v]] /\ DOMAIN page' = DOMAIN rest
                                 /\ Passed(rest[u], page'[u], msg.id, TRUE)
      BY <1>8, <2>1, <2>5, Published
    <3> QED BY <3>1, <2>1, <1>7
  <2> QED BY <1>9, <1>11, <2>4, <2>6
<1>12. CASE worker' = Outcome(worker, Session(t), m) /\ m.type = "requestImportFiles"
              /\ page' = Publish(rest, [type |-> "import", handle |-> m.handle])
  <2> DEFINE msg == [type |-> "import", handle |-> m.handle]
  <2>1. msg \in InSet /\ msg.type = "import"
    BY <1>4, <1>12, OutKinds DEF InSet, AskImportSet
  <2> HIDE DEF msg
  <2>2. Answers(worker, worker', Session(t), m, m.type = "requestExport")
    BY <1>1, <1>4, <1>12, OutcomeAnswers
  <2>3. (m.type = "requestExport") = FALSE
    BY <1>12
  <2>4. Answers(worker, worker', Session(t), m, FALSE)
    BY ONLY <2>2, <2>3
  <2>5. page' = Publish(rest, msg)
    BY <1>12 DEF msg
  <2>6. Goal(FALSE)
    <3>1. \A u \in DOMAIN rest : /\ page' = [v \in DOMAIN rest |-> page'[v]] /\ DOMAIN page' = DOMAIN rest
                                 /\ \A n : Passed(rest[u], page'[u], n, FALSE)
      BY <1>8, <2>1, <2>5, Published
    <3> QED BY <3>1, <1>7
  <2> QED BY <1>9, <2>4, <2>6
<1>13. CASE worker' = Outcome(worker, Session(t), m) /\ m.type \notin {"requestExport", "requestImportFiles"} /\ page' = rest
  <2>2. Answers(worker, worker', Session(t), m, m.type = "requestExport")
    BY <1>1, <1>4, <1>13, OutcomeAnswers
  <2>3. (m.type = "requestExport") = FALSE
    BY <1>13
  <2>4. Answers(worker, worker', Session(t), m, FALSE)
    BY ONLY <2>2, <2>3
  <2> QED BY <1>9, <1>10, <1>13, <2>4
<1>14. CASE m.type = "requestExport" /\ page' = rest /\ worker' = worker
  <2>1. Answers(worker, worker', Session(t), m, FALSE)
    BY <1>1, <1>14, NothingAnswers
  <2> QED BY <1>9, <1>10, <1>14, <2>1
<1> QED BY <1>6, <1>11, <1>12, <1>13, <1>14

LEMMA HandleStep ==
  ASSUME TasksInv, NEW t \in DOMAIN page, NEW q, NEW m, NEW asked, Handled(t, q, m, asked)
  PROVE  TasksInv'
<1>1. /\ TypeInv /\ (\A u \in DOMAIN page : PageInv(page[u]))
      /\ RequestsHeld /\ BarsHeld /\ IdsGiven /\ AsksOnce /\ AsksForNew
      /\ Session(t) \in Sessions /\ page \in [DOMAIN page -> PageSet] /\ DOMAIN page = DOMAIN scene.session
  BY Typed DEF TasksInv, ExportsInv
<1>2. /\ asked \in BOOLEAN /\ (asked => m.type = "requestExport")
      /\ Answers(worker, worker', Session(t), m, asked) /\ Shifted(page[t], q, m)
      /\ DOMAIN page' = DOMAIN page /\ page' \in [DOMAIN page -> PageSet]
      /\ Passed(q, page'[t], m.id, asked)
      /\ \A u \in DOMAIN page \ {t} : Passed(page[u], page'[u], m.id, asked)
      /\ UNCHANGED <<scene, left>>
  BY DEF Handled
<1>3. m \in OutSet /\ 1 \in DOMAIN page[t].out /\ page[t].out[1] = m
  BY <1>2 DEF Shifted
<1>4. TypeInv'
  <2>1. worker' \in WorkerSet
    BY <1>2 DEF Answers
  <2> QED BY <2>1, <1>1, <1>2 DEF TypeInv, LeftSet
<1>5. \A u \in DOMAIN page' : PageInv(page'[u])
  BY <1>2 DEF Passed
<1>6. \A u \in DOMAIN page : page'[u].here = page[u].here
  BY <1>2 DEF Passed, Shifted
<1>7. /\ Here' = Here /\ Issued' = Issued
      /\ \A s \in Sessions : TabsOf(s)' = TabsOf(s)
  BY <1>2, <1>6 DEF Here, Issued, TabsOf, Session
<1>8. \A u \in DOMAIN page : \A id :
         /\ Owns(page'[u], id) <=> Owns(page[u], id)
         /\ Has(page'[u], id) <=> Has(page[u], id)
         /\ Comes(page[u], id) => Comes(page'[u], id)
         /\ Comes(page'[u], id) => Comes(page[u], id) \/ (asked /\ id = m.id)
         /\ Consumes(page[u], id) => Consumes(page'[u], id) \/ (u = t /\ m.type = "consumeExportRequest" /\ m.id = id)
         /\ Finishes(page[u], id) => Finishes(page'[u], id) \/ (u = t /\ Final(m, id))
  <2> TAKE u \in DOMAIN page
  <2> TAKE id
  <2>1. CASE u = t
    <3>1. (Owns(q, id) <=> Owns(page[t], id)) /\ (Has(q, id) <=> Has(page[t], id))
      BY <1>2, SameWorkOwns DEF Shifted
    <3>2. (Owns(page'[t], id) <=> Owns(q, id)) /\ (Has(page'[t], id) <=> Has(q, id))
      BY <1>2, SameWorkOwns DEF Passed
    <3>3. q.in = page[t].in /\ page'[t].out = q.out
      BY <1>2 DEF Shifted, Passed
    <3>4. Comes(q, id) <=> Comes(page[t], id)
      BY ONLY <3>3, Zenon DEF Comes
    <3>5. (Consumes(page'[t], id) <=> Consumes(q, id)) /\ (Finishes(page'[t], id) <=> Finishes(q, id))
      BY ONLY <3>3, Zenon DEF Consumes, Finishes
    <3>6. /\ Consumes(page[t], id) => Consumes(q, id) \/ (m.type = "consumeExportRequest" /\ m.id = id)
          /\ Finishes(page[t], id) => Finishes(q, id) \/ Final(m, id)
      BY <1>2 DEF Shifted
    <3>7. /\ Comes(q, id) => Comes(page'[t], id)
          /\ Comes(page'[t], id) => Comes(q, id) \/ (asked /\ m.id = id)
      BY <1>2 DEF Passed
    <3> QED BY <2>1, <3>1, <3>2, <3>4, <3>5, <3>6, <3>7
  <2>2. CASE u # t
    <3>1. Passed(page[u], page'[u], m.id, asked)
      BY <2>2, <1>2
    <3>2. (Owns(page'[u], id) <=> Owns(page[u], id)) /\ (Has(page'[u], id) <=> Has(page[u], id))
      BY <3>1, SameWorkOwns DEF Passed
    <3>3. page'[u].out = page[u].out
      BY <3>1 DEF Passed
    <3>4. (Consumes(page'[u], id) <=> Consumes(page[u], id)) /\ (Finishes(page'[u], id) <=> Finishes(page[u], id))
      BY ONLY <3>3, Zenon DEF Consumes, Finishes
    <3>5. /\ Comes(page[u], id) => Comes(page'[u], id)
          /\ Comes(page'[u], id) => Comes(page[u], id) \/ (asked /\ m.id = id)
      BY <3>1 DEF Passed
    <3> QED BY <3>2, <3>4, <3>5
  <2> QED BY <2>1, <2>2
<1>9. page[t].here /\ asked => Comes(page'[t], m.id)
  BY <1>2 DEF Passed, Shifted
<1>10. page[t].here /\ Starts(m) => Owns(page'[t], m.id) \/ Finishes(page'[t], m.id)
  <2>1. page[t].here /\ Starts(m) => Owns(q, m.id) \/ Finishes(q, m.id)
    BY <1>2 DEF Shifted
  <2>2. page'[t].out = q.out
    BY <1>2 DEF Passed
  <2>3. Finishes(page'[t], m.id) <=> Finishes(q, m.id)
    BY ONLY <2>2, Zenon DEF Finishes
  <2>4. Owns(page'[t], m.id) <=> Owns(q, m.id)
    BY <1>2, SameWorkOwns DEF Passed
  <2> QED BY <2>1, <2>3, <2>4
<1>11. \A u \in DOMAIN page : \A i : i \in DOMAIN page'[u].out =>
         \/ u # t /\ i \in DOMAIN page[u].out /\ page'[u].out[i] = page[u].out[i]
         \/ u = t /\ i \in Nat \ {0} /\ i + 1 \in DOMAIN page[u].out /\ page'[u].out[i] = page[u].out[i + 1]
  <2> TAKE u \in DOMAIN page
  <2> TAKE i
  <2>1. CASE u = t
    BY <2>1, <1>2 DEF Shifted, Passed
  <2>2. CASE u # t
    BY <2>2, <1>2 DEF Passed
  <2> QED BY <2>1, <2>2
<1>12. \A u \in DOMAIN page : \A id : Asks(page'[u], id) => Asks(page[u], id)
  BY <1>11 DEF Asks
<1>13. asked => Asks(page[t], m.id) /\ m.id \in Ids
  BY <1>2, <1>3, OutKinds DEF Asks, Requests
<1>14. asked => \A u \in DOMAIN page : ~Asks(page'[u], m.id)
  <2> SUFFICES ASSUME asked, NEW u \in DOMAIN page, Asks(page'[u], m.id) PROVE FALSE
    OBVIOUS
  <2>1. PICK i \in DOMAIN page'[u].out : page'[u].out[i].type = "requestExport" /\ page'[u].out[i].id = m.id
    BY DEF Asks
  <2>2. CASE u # t /\ i \in DOMAIN page[u].out /\ page'[u].out[i] = page[u].out[i]
    BY <2>1, <2>2, <1>1, <1>2, <1>3 DEF AsksOnce
  <2>3. CASE u = t /\ i \in Nat \ {0} /\ i + 1 \in DOMAIN page[u].out /\ page'[u].out[i] = page[u].out[i + 1]
    <3>1. i + 1 = 1
      BY <2>1, <2>3, <1>1, <1>2, <1>3 DEF AsksOnce
    <3> QED BY <3>1, <2>3
  <2> QED BY <2>2, <2>3, <1>11
<1>15. AsksOnce'
  <2> SUFFICES ASSUME NEW u \in DOMAIN page, NEW v \in DOMAIN page, NEW i \in DOMAIN page'[u].out, NEW j \in DOMAIN page'[v].out,
                      page'[u].out[i].type = "requestExport", page'[v].out[j].type = "requestExport",
                      page'[u].out[i].id = page'[v].out[j].id
               PROVE  v = u /\ j = i
    BY <1>2 DEF AsksOnce
  <2> DEFINE At(w, k, l) == (w # t /\ l = k) \/ (w = t /\ k \in Nat \ {0} /\ l = k + 1)
  <2>1. PICK k : At(u, i, k) /\ k \in DOMAIN page[u].out /\ page'[u].out[i] = page[u].out[k]
    BY <1>11
  <2>2. PICK l : At(v, j, l) /\ l \in DOMAIN page[v].out /\ page'[v].out[j] = page[v].out[l]
    BY <1>11
  <2>3. v = u /\ l = k
    BY <2>1, <2>2, <1>1 DEF AsksOnce
  <2> QED BY <2>1, <2>2, <2>3
<1>16. IdsGiven'
  <2> SUFFICES ASSUME NEW u \in DOMAIN page, NEW id \in Ids, Has(page'[u], id) \/ Comes(page'[u], id) \/ Asks(page'[u], id)
               PROVE  id <= Issued
    BY <1>2, <1>7 DEF IdsGiven
  <2>1. Has(page[u], id) \/ Comes(page[u], id) \/ Asks(page[u], id) \/ Asks(page[t], id)
    BY <1>8, <1>12, <1>13
  <2> QED BY <2>1, <1>1 DEF IdsGiven
<1>17. AsksForNew'
  <2> SUFFICES ASSUME NEW u \in DOMAIN page, NEW v \in DOMAIN page, NEW id \in Ids, Asks(page'[u], id)
               PROVE  ~Has(page'[v], id) /\ ~Comes(page'[v], id)
    BY <1>2 DEF AsksForNew
  <2>1. Asks(page[u], id) /\ ~(asked /\ id = m.id)
    BY <1>12, <1>14
  <2>2. ~Has(page[v], id) /\ ~Comes(page[v], id)
    BY <2>1, <1>1 DEF AsksForNew
  <2> QED BY <2>1, <2>2, <1>8
<1>18. RequestsHeld'
  <2> SUFFICES ASSUME NEW s \in Sessions, worker'.request[s] # 0
               PROVE  /\ \A u \in TabsOf(s) \cap Here : Has(page'[u], worker'.request[s]) =>
                            Owns(page'[u], worker'.request[s]) \/ Consumes(page'[u], worker'.request[s])
                      /\ TabsOf(s) \subseteq Here => \E u \in TabsOf(s) :
                            \/ Comes(page'[u], worker'.request[s]) \/ Owns(page'[u], worker'.request[s])
                            \/ Consumes(page'[u], worker'.request[s])
    BY <1>7 DEF RequestsHeld
  <2> DEFINE r == worker'.request[s]
  <2>0. \A u \in TabsOf(s) : u \in DOMAIN page /\ Session(u) = s
    BY DEF TabsOf
  <2>1. CASE worker'.request[s] = worker.request[s] /\ ~(s = Session(t) /\ m.type = "consumeExportRequest" /\ m.id = worker.request[s])
    <3>1. /\ \A u \in TabsOf(s) \cap Here : Has(page[u], r) => Owns(page[u], r) \/ Consumes(page[u], r)
          /\ TabsOf(s) \subseteq Here => \E u \in TabsOf(s) : Comes(page[u], r) \/ Owns(page[u], r) \/ Consumes(page[u], r)
      BY <2>1, <1>1 DEF RequestsHeld
    <3>2. \A u \in TabsOf(s) : ~(u = t /\ m.type = "consumeExportRequest" /\ m.id = r)
      BY <2>0, <2>1
    <3> HIDE DEF r
    <3>3. \A u \in TabsOf(s) : /\ Owns(page'[u], r) <=> Owns(page[u], r)
                               /\ Has(page'[u], r) <=> Has(page[u], r)
                               /\ Comes(page[u], r) => Comes(page'[u], r)
                               /\ Consumes(page[u], r) => Consumes(page'[u], r)
      BY <3>2, <2>0, <1>8
    <3>4. /\ \A u \in TabsOf(s) \cap Here : Has(page'[u], r) => Owns(page'[u], r) \/ Consumes(page'[u], r)
          /\ TabsOf(s) \subseteq Here => \E u \in TabsOf(s) : Comes(page'[u], r) \/ Owns(page'[u], r) \/ Consumes(page'[u], r)
      BY <3>1, <3>3
    <3> QED BY <3>4 DEF r
  <2>2. CASE s = Session(t) /\ asked /\ worker'.request[s] = m.id
    <3>1. \A u \in DOMAIN page : ~Has(page'[u], m.id)
      BY <2>2, <1>8, <1>13, <1>1 DEF AsksForNew
    <3>2. t \in TabsOf(s)
      BY <2>2 DEF TabsOf
    <3>3. TabsOf(s) \subseteq Here => Comes(page'[t], m.id)
      BY <3>2, <2>2, <1>9 DEF Here
    <3> QED BY <3>1, <3>2, <3>3, <2>0, <2>2
  <2> QED BY <2>1, <2>2, <1>2 DEF Answers
<1>19. BarsHeld'
  <2> SUFFICES ASSUME NEW s \in Sessions, worker'.progress[s].stage \in Running, TabsOf(s) \subseteq Here
               PROVE  \E u \in TabsOf(s) : \/ Comes(page'[u], worker'.progress[s].id) \/ Owns(page'[u], worker'.progress[s].id)
                                           \/ Finishes(page'[u], worker'.progress[s].id)
    BY <1>7 DEF BarsHeld
  <2> DEFINE id == worker'.progress[s].id
  <2>0. \A u \in TabsOf(s) : u \in DOMAIN page /\ Session(u) = s
    BY DEF TabsOf
  <2>0a. s = Session(t) => t \in TabsOf(s) /\ page[t].here
    BY DEF TabsOf, Here
  <2>1. CASE worker'.progress[s] = worker.progress[s] /\ ~(s = Session(t) /\ Final(m, worker.progress[s].id))
    <3>1. \E u \in TabsOf(s) : Comes(page[u], id) \/ Owns(page[u], id) \/ Finishes(page[u], id)
      BY <2>1, <1>1 DEF BarsHeld
    <3>2. \A u \in TabsOf(s) : ~(u = t /\ Final(m, id))
      BY <2>0, <2>1
    <3> HIDE DEF id
    <3>3. \A u \in TabsOf(s) : /\ Owns(page'[u], id) <=> Owns(page[u], id)
                               /\ Comes(page[u], id) => Comes(page'[u], id)
                               /\ Finishes(page[u], id) => Finishes(page'[u], id)
      BY <3>2, <2>0, <1>8
    <3>4. \E u \in TabsOf(s) : Comes(page'[u], id) \/ Owns(page'[u], id) \/ Finishes(page'[u], id)
      BY <3>1, <3>3
    <3> QED BY <3>4 DEF id
  <2>2. CASE s = Session(t) /\ Starts(m) /\ worker'.progress[s].id = m.id
    BY <2>0a, <2>2, <1>10
  <2>3. CASE s = Session(t) /\ asked /\ worker'.progress[s].id = m.id
    BY <2>0a, <2>3, <1>9
  <2> QED BY <2>1, <2>2, <2>3, <1>2 DEF Answers
<1> QED BY <1>4, <1>5, <1>15, <1>16, <1>17, <1>18, <1>19 DEF TasksInv, ExportsInv

-----------------------------------------------------------------------------
(* A tab leaves. *)

Gone(p, q) ==
  /\ q \in PageSet /\ PageInv(q) /\ ~q.here
  /\ \A id : (Has(q, id) <=> Has(p, id)) /\ ~Comes(q, id)
  /\ \A i \in DOMAIN q.out : i \in DOMAIN p.out /\ q.out[i] = p.out[i]

LEMMA Leaving ==
  ASSUME NEW p, PageInv(p), NEW kept \in 0..Len(p.out),
         NEW q, q = [p EXCEPT !.here = FALSE, !.out = SubSeq(@, 1, kept), !.in = <<>>, !.runs = {}]
  PROVE  Gone(p, q)
<1> DEFINE out == p.out
           new == SubSeq(out, 1, kept)
<1>1. p \in PageSet /\ out \in Seq(OutSet)
  BY PageButType, PageFields DEF PageInv
<1>2. new \in Seq(OutSet) /\ \A i \in DOMAIN new : i \in DOMAIN out /\ new[i] = out[i]
  <2>1. kept \in 0..Len(out)
    OBVIOUS
  <2> HIDE DEF out
  <2>2. new \in Seq(OutSet) /\ DOMAIN new = 1..kept /\ \A i \in 1..kept : new[i] = out[i]
    BY <1>1, <2>1
  <2>3. DOMAIN out = 1..Len(out) /\ Len(out) \in Nat
    BY <1>1
  <2> QED BY <2>1, <2>2, <2>3
<1>3. q = [p EXCEPT !.here = FALSE, !.out = new, !.in = <<>>, !.runs = {}]
  OBVIOUS
<1> HIDE DEF out, new
<1>4. <<>> \in Seq(InSet)
  OBVIOUS
<1>5. q \in PageSet
  BY <1>1, <1>2, <1>3, <1>4 DEF PageSet
<1>6. /\ q.out = new /\ q.in = <<>> /\ q.runs = {} /\ ~q.here /\ q.tasks = p.tasks /\ q.queued = p.queued
      /\ q.staged = p.staged /\ q.refs = p.refs
  BY <1>1, <1>3 DEF PageSet
<1>7. PageInv(q)
  <2>1. DOMAIN p.staged \subseteq 1..p.refs /\ p.queued \in [Intents -> 0..Len(p.tasks)]
    BY DEF PageInv, PageBut
  <2>2. DOMAIN q.staged \subseteq 1..q.refs /\ q.queued \in [Intents -> 0..Len(q.tasks)]
    BY ONLY <2>1, <1>6
  <2>3. RunsHaveTasks(q.runs, q.tasks)
    BY <1>6 DEF RunsHaveTasks
  <2> QED BY <1>5, <1>6, <2>2, <2>3 DEF PageInv, PageBut
<1>8. \A id : (Has(q, id) <=> Has(p, id)) /\ ~Comes(q, id)
  <2> TAKE id
  <2>1. q.tasks = p.tasks /\ q.in = <<>>
    BY <1>6
  <2>2. Has(q, id) <=> Has(p, id)
    BY ONLY <2>1, Zenon DEF Has
  <2>3. ~Comes(q, id)
    BY ONLY <2>1 DEF Comes
  <2> QED BY <2>2, <2>3
<1> QED BY <1>2, <1>5, <1>6, <1>7, <1>8 DEF Gone, out

LEMMA LeaveStep ==
  ASSUME TasksInv, NEW t \in DOMAIN page, Leave(t)
  PROVE  TasksInv'
<1>1. /\ TypeInv /\ (\A u \in DOMAIN page : PageInv(page[u]))
      /\ RequestsHeld /\ BarsHeld /\ IdsGiven /\ AsksOnce /\ AsksForNew
      /\ page \in [DOMAIN page -> PageSet] /\ DOMAIN page = DOMAIN scene.session /\ worker \in WorkerSet
  BY Typed DEF TasksInv, ExportsInv
<1>2. PICK kept \in 0..Len(page[t].out) :
        page' = [page EXCEPT ![t] = [page[t] EXCEPT !.here = FALSE, !.out = SubSeq(@, 1, kept), !.in = <<>>, !.runs = {}]]
  BY DEF Leave, Step
<1> DEFINE q == [page[t] EXCEPT !.here = FALSE, !.out = SubSeq(@, 1, kept), !.in = <<>>, !.runs = {}]
<1>3. Gone(page[t], q)
  BY <1>1, Leaving
<1>4. page' = [page EXCEPT ![t] = q]
  BY <1>2
<1> HIDE DEF q
<1>5. DOMAIN page' = DOMAIN page /\ page'[t] = q /\ \A u \in DOMAIN page : u # t => page'[u] = page[u]
  BY <1>1, <1>4
<1>6. /\ UNCHANGED <<scene, left>> /\ worker' \in WorkerSet /\ worker'.request = worker.request
      /\ worker'.progress = worker.progress \/ \A s \in Sessions : worker'.progress[s].stage \notin Running
  <2>1. UNCHANGED <<scene, left>> /\ worker' \in {worker, ClearExportProgress(worker)}
    BY DEF Leave
  <2>2. CASE worker' = worker
    BY <1>1, <2>1, <2>2
  <2>3. CASE worker' = ClearExportProgress(worker)
    <3> DEFINE bars == [s \in Sessions |-> [id |-> 0, stage |-> "idle"]]
    <3>1. bars \in BarsSet
      BY TasksAssumption DEF BarsSet, BarSet, Stages
    <3>2. \A s \in Sessions : bars[s].stage \notin Running
      BY DEF Running
    <3>3. worker' = [worker EXCEPT !.progress = bars]
      BY <2>3 DEF ClearExportProgress
    <3> HIDE DEF bars
    <3>4. worker' \in WorkerSet /\ worker'.request = worker.request /\ worker'.progress = bars
      BY <1>1, <3>1, <3>3 DEF WorkerSet
    <3> QED BY <2>1, <3>2, <3>4
  <2> QED BY <2>1, <2>2, <2>3
<1>7. TypeInv'
  <2>1. page' \in [DOMAIN scene.session -> PageSet]
    BY <1>1, <1>3, <1>4 DEF Gone
  <2> QED BY <2>1, <1>1, <1>6 DEF TypeInv, LeftSet
<1>8. \A u \in DOMAIN page' : PageInv(page'[u])
  <2> SUFFICES ASSUME NEW u \in DOMAIN page PROVE PageInv(page'[u])
    BY <1>5
  <2>1. CASE u = t
    BY <2>1, <1>3, <1>5 DEF Gone
  <2>2. CASE u # t
    BY <2>2, <1>1, <1>5
  <2> QED BY <2>1, <2>2
<1>9. /\ Issued' = Issued /\ t \notin Here' /\ Here' \subseteq Here
      /\ \A s \in Sessions : TabsOf(s)' = TabsOf(s)
  <2>1. ~page'[t].here
    BY <1>3, <1>5 DEF Gone
  <2>2. t \notin Here' /\ Here' \subseteq Here
    BY <2>1, <1>5 DEF Here
  <2> QED BY <2>2, <1>5, <1>6 DEF Issued, TabsOf, Session
<1>10. \A s \in Sessions : /\ \A u \in TabsOf(s) \cap Here' : u # t /\ page'[u] = page[u] /\ u \in Here
                           /\ TabsOf(s) \subseteq Here' => TabsOf(s) \subseteq Here /\ \A u \in TabsOf(s) : page'[u] = page[u]
  BY <1>5, <1>9 DEF TabsOf
<1>11. RequestsHeld'
  <2> SUFFICES ASSUME NEW s \in Sessions, worker.request[s] # 0
               PROVE  /\ \A u \in TabsOf(s) \cap Here' : Has(page'[u], worker.request[s]) =>
                            Owns(page'[u], worker.request[s]) \/ Consumes(page'[u], worker.request[s])
                      /\ TabsOf(s) \subseteq Here' => \E u \in TabsOf(s) :
                            \/ Comes(page'[u], worker.request[s]) \/ Owns(page'[u], worker.request[s])
                            \/ Consumes(page'[u], worker.request[s])
    BY <1>6, <1>9 DEF RequestsHeld
  <2>1. /\ \A u \in TabsOf(s) \cap Here : Has(page[u], worker.request[s]) =>
                            Owns(page[u], worker.request[s]) \/ Consumes(page[u], worker.request[s])
        /\ TabsOf(s) \subseteq Here => \E u \in TabsOf(s) :
                            \/ Comes(page[u], worker.request[s]) \/ Owns(page[u], worker.request[s])
                            \/ Consumes(page[u], worker.request[s])
    BY <1>1 DEF RequestsHeld
  <2> QED BY <2>1, <1>10
<1>12. BarsHeld'
  <2> SUFFICES ASSUME NEW s \in Sessions, worker'.progress[s].stage \in Running, TabsOf(s) \subseteq Here'
               PROVE  \E u \in TabsOf(s) : \/ Comes(page'[u], worker'.progress[s].id) \/ Owns(page'[u], worker'.progress[s].id)
                                           \/ Finishes(page'[u], worker'.progress[s].id)
    BY <1>9 DEF BarsHeld
  <2>1. worker'.progress = worker.progress
    BY <1>6
  <2>2. \E u \in TabsOf(s) : \/ Comes(page[u], worker.progress[s].id) \/ Owns(page[u], worker.progress[s].id)
                             \/ Finishes(page[u], worker.progress[s].id)
    BY <2>1, <1>1, <1>10 DEF BarsHeld
  <2> QED BY <2>1, <2>2, <1>10
<1>13. \A u \in DOMAIN page : \A id : (Has(page'[u], id) => Has(page[u], id)) /\ (Comes(page'[u], id) => Comes(page[u], id))
  BY <1>3, <1>5 DEF Gone
<1>14. \A u \in DOMAIN page : \A i : i \in DOMAIN page'[u].out => i \in DOMAIN page[u].out /\ page'[u].out[i] = page[u].out[i]
  BY <1>3, <1>5 DEF Gone
<1>15. \A u \in DOMAIN page : \A id : Asks(page'[u], id) => Asks(page[u], id)
  BY <1>14 DEF Asks
<1>16. IdsGiven'
  BY <1>1, <1>5, <1>9, <1>13, <1>15 DEF IdsGiven
<1>17. AsksOnce'
  BY <1>1, <1>5, <1>14 DEF AsksOnce
<1>18. AsksForNew'
  BY <1>1, <1>5, <1>13, <1>15 DEF AsksForNew
<1> QED BY <1>7, <1>8, <1>11, <1>12, <1>16, <1>17, <1>18 DEF TasksInv, ExportsInv

-----------------------------------------------------------------------------
(* The initial state. *)

LEMMA GraphIsView ==
  ASSUME NEW w \in WorkerSet, NEW s \in Sessions
  PROVE  /\ Graph(w, s) \in ViewSet
         /\ Graph(w, s).import[Graph(w, s).active].task \in Nat
<1>1. w.active[s] \in Projects /\ w.resources \in ResourcesSet /\ w.timeline \in TimelineSet /\ w.import \in ImportsSet
  BY DEF WorkerSet, ActiveSet
<1>2. w.import[w.active[s]].task \in Nat
  BY <1>1 DEF ImportsSet, ImportState
<1> QED BY <1>1, <1>2 DEF Graph, ViewSet

LEMMA Begins ==
  ASSUME Init
  PROVE  TasksInv
<1> USE TasksAssumption
<1>1. /\ scene \in Scenes /\ worker = InitWorker /\ page = [t \in DOMAIN scene.session |-> InitPage(t)]
      /\ left = [exports |-> scene.exports, batches |-> scene.batches, switches |-> scene.switches]
  BY DEF Init
<1>2. /\ scene.session \in [DOMAIN scene.session -> Sessions] /\ scene.exports \in 0..MaxExports /\ scene.switches \in Nat
      /\ scene.start \in Projects /\ MaxExports \in Nat /\ scene.exports \in Nat
  BY <1>1
<1>3. worker \in WorkerSet
  <2>1. [s \in Sessions |-> 0] \in RequestSet
    BY <1>2 DEF RequestSet
  <2>2. [s \in Sessions |-> [id |-> 0, stage |-> "idle"]] \in BarsSet
    BY <1>2 DEF BarsSet, BarSet, Stages
  <2>3. [s \in Sessions |-> scene.start] \in ActiveSet
    BY <1>2 DEF ActiveSet
  <2>4. [p \in Projects |-> [f \in Files |-> 0]] \in ResourcesSet
    BY DEF ResourcesSet
  <2>5. [p \in Projects |-> {}] \in TimelineSet
    BY DEF TimelineSet
  <2>6. [p \in Projects |-> [task |-> 0, stage |-> "idle"]] \in ImportsSet
    BY DEF ImportsSet, ImportState, Stages
  <2> QED BY <1>1, <2>1, <2>2, <2>3, <2>4, <2>5, <2>6 DEF InitWorker, WorkerSet
<1>4. \A s \in Sessions : worker.request[s] = 0 /\ worker.progress[s].stage \notin Running
  BY <1>1 DEF InitWorker, Running
<1>5. ASSUME NEW t \in DOMAIN scene.session
      PROVE  /\ InitPage(t) \in PageSet /\ PageInv(InitPage(t))
             /\ InitPage(t).tasks = <<>> /\ InitPage(t).in = <<>> /\ InitPage(t).out = <<>>
  <2> DEFINE p == InitPage(t)
             view == Graph(worker, Session(t))
             zero == [i \in Intents |-> 0]
             none == [h \in {} |-> <<>>]
  <2>1. view \in ViewSet
    BY <1>2, <1>3, GraphIsView DEF Session
  <2>2. zero \in QueuedSet /\ zero \in [Intents -> 0..Len(<<>>)] /\ \A i \in Intents : zero[i] = 0
    BY DEF QueuedSet
  <2>3. none \in StagedSet /\ DOMAIN none = {}
    <3>1. none \in [{} -> Seq(Files)] /\ {} \in SUBSET Nat
      OBVIOUS
    <3> QED BY <3>1 DEF StagedSet
  <2>4. p = [here |-> TRUE, refs |-> 0, staged |-> none, started |-> {}, tasks |-> <<>>,
             queued |-> zero, runs |-> {}, downloaded |-> {}, serves |-> {}, view |-> view,
             in |-> <<>>, out |-> <<>>]
    BY DEF InitPage
  <2> HIDE DEF p, view, zero, none
  <2>5. <<>> \in Seq(Tasks) /\ <<>> \in Seq(InSet) /\ <<>> \in Seq(OutSet)
    OBVIOUS
  <2>6. p \in PageSet
    BY <2>1, <2>2, <2>3, <2>4, <2>5 DEF PageSet
  <2>7. /\ p.here = TRUE /\ p.refs = 0 /\ p.staged = none /\ p.tasks = <<>> /\ p.queued = zero /\ p.runs = {}
        /\ p.in = <<>> /\ p.out = <<>>
    BY <2>4
  <2>8. InStep(<<>>, zero, RunTasks({}) \cup {})
    BY <2>2 DEF InStep, RunTasks
  <2>9. DOMAIN p.staged \subseteq 1..p.refs
    BY <2>3, <2>7
  <2>10. p.queued \in [Intents -> 0..Len(p.tasks)]
    BY <2>2, <2>7
  <2>11. RunsHaveTasks(p.runs, p.tasks)
    BY <2>7 DEF RunsHaveTasks
  <2>12. InStep(p.tasks, p.queued, RunTasks(p.runs) \cup {})
    BY ONLY <2>7, <2>8
  <2>13. BarsEnd(p, {})
    BY <2>7 DEF BarsEnd
  <2>14. PageInv(p)
    BY <2>6, <2>9, <2>10, <2>11, <2>12, <2>13 DEF PageInv, PageBut
  <2> QED BY <2>6, <2>7, <2>14 DEF p
<1>6. DOMAIN page = DOMAIN scene.session /\ \A t \in DOMAIN page : page[t] = InitPage(t)
  BY <1>1
<1>7. TypeInv
  <2>1. page \in [DOMAIN scene.session -> PageSet]
    BY <1>1, <1>5
  <2>2. left \in LeftSet
    BY <1>1, <1>2 DEF LeftSet
  <2> QED BY <1>1, <1>3, <2>1, <2>2 DEF TypeInv
<1>8. \A t \in DOMAIN page : PageInv(page[t])
  BY <1>5, <1>6
<1>9. RequestsHeld /\ BarsHeld
  BY <1>4 DEF RequestsHeld, BarsHeld
<1>10. \A t \in DOMAIN page : page[t].tasks = <<>> /\ page[t].in = <<>> /\ page[t].out = <<>>
  BY <1>5, <1>6
<1>11. IdsGiven /\ AsksOnce /\ AsksForNew
  BY <1>10 DEF IdsGiven, AsksOnce, AsksForNew, Has, Comes, Asks
<1> QED BY <1>7, <1>8, <1>9, <1>11 DEF TasksInv, ExportsInv

-----------------------------------------------------------------------------
(* The steps in which a tab proceeds. *)

LEMMA FilesChosenStep ==
  ASSUME TasksInv, NEW t \in DOMAIN page, NEW way \in {"direct", "requested"}, FilesChosen(t, way)
  PROVE  TasksInv'
<1>1. TypeInv /\ PageInv(page[t]) /\ scene \in Scenes /\ left \in LeftSet
  BY Typed DEF TasksInv
<1>2. PICK batch \in left.batches :
        LET p == Stage(page[t], batch[2])
        IN /\ Step(t, IF way = "direct" THEN StartImport(p, p.refs, p.view.active)
                      ELSE Sent(p, [type |-> "requestImportFiles", handle |-> p.refs]))
           /\ left' = [left EXCEPT !.batches = @ \ {batch}]
  BY DEF FilesChosen
<1> DEFINE p == Stage(page[t], batch[2])
           q == IF way = "direct" THEN StartImport(p, p.refs, p.view.active)
                ELSE Sent(p, [type |-> "requestImportFiles", handle |-> p.refs])
<1>3. batch[2] \in Seq(Files)
  BY <1>1, TasksAssumption DEF LeftSet
<1>4. q = StartImport(p, p.refs, p.view.active) \/ q = Sent(p, [type |-> "requestImportFiles", handle |-> p.refs])
  OBVIOUS
<1>5. page' = [page EXCEPT ![t] = q] /\ left' = [left EXCEPT !.batches = @ \ {batch}] /\ UNCHANGED <<scene, worker>>
  BY <1>2 DEF FilesChosen, Step
<1> HIDE DEF q
<1>6. Proceeds(page[t], q)
  BY <1>1, <1>3, <1>4, ChosenStep
<1>7. left' \in LeftSet /\ left'.exports = left.exports
  BY <1>1, <1>5 DEF LeftSet
<1> QED BY <1>5, <1>6, <1>7, ProceedsStep

LEMMA SwitchProjectStep ==
  ASSUME TasksInv, NEW t \in DOMAIN page, NEW project \in Projects, SwitchProject(t, project)
  PROVE  TasksInv'
<1>1. TypeInv /\ PageInv(page[t]) /\ scene \in Scenes /\ left \in LeftSet
  BY Typed DEF TasksInv
<1> DEFINE q == Sent(page[t], [type |-> "setActiveProject", project |-> project])
<1>2. page' = [page EXCEPT ![t] = q] /\ left' = [left EXCEPT !.switches = @ - 1] /\ UNCHANGED <<scene, worker>> /\ left.switches > 0
  BY DEF SwitchProject, Step
<1>3. Proceeds(page[t], q)
  BY <1>1, SwitchStep
<1> HIDE DEF q
<1>4. left' \in LeftSet /\ left'.exports = left.exports
  <2>1. left.switches - 1 \in 0..scene.switches
    BY <1>1, <1>2, TasksAssumption DEF LeftSet
  <2> QED BY <1>1, <1>2, <2>1 DEF LeftSet
<1> QED BY <1>2, <1>3, <1>4, ProceedsStep

(* In the other steps of a tab nothing is taken from what may still come. *)
LEMMA TabStep ==
  ASSUME TasksInv, NEW t \in DOMAIN page, NEW q, Proceeds(page[t], q), Step(t, q), UNCHANGED <<scene, worker, left>>
  PROVE  TasksInv'
<1>1. left \in LeftSet
  BY Typed DEF TasksInv
<1>2. page' = [page EXCEPT ![t] = q] /\ UNCHANGED <<scene, worker>> /\ left' \in LeftSet /\ left'.exports = left.exports
  BY <1>1 DEF Step
<1> QED BY <1>2, ProceedsStep

LEMMA ReceivedStep ==
  ASSUME TasksInv, NEW t \in DOMAIN page, Receive(t)
  PROVE  TasksInv'
<1> DEFINE m == Head(page[t].in)
           p == [page[t] EXCEPT !.in = Tail(@)]
<1>0. PageInv(page[t])
  BY DEF TasksInv
<1>1. page[t].in # <<>> /\ UNCHANGED <<scene, worker, left>>
  BY DEF Receive
<1>2. \/ m.type = "export" /\ \E valid \in {TRUE, "fail" \notin scene.faults} : Step(t, StartExport(p, m, valid))
      \/ m.type = "import" /\ Step(t, StartRequested(p, m.handle))
  BY DEF Receive
<1>3. CASE m.type = "export" /\ \E valid \in {TRUE, "fail" \notin scene.faults} : Step(t, StartExport(p, m, valid))
  <2>1. PICK valid \in BOOLEAN : Step(t, StartExport(p, m, valid))
    BY <1>3
  <2>2. Proceeds(page[t], StartExport(p, m, valid))
    BY <1>0, <1>1, <1>3, ReceiveStep
  <2> QED BY <1>1, <2>1, <2>2, TabStep
<1>4. CASE m.type = "import" /\ Step(t, StartRequested(p, m.handle))
  <2>1. Proceeds(page[t], StartRequested(p, m.handle))
    BY <1>0, <1>1, <1>4, ReceiveStep
  <2> QED BY <1>1, <1>4, <2>1, TabStep
<1> QED BY <1>2, <1>3, <1>4

LEMMA SyncedStep ==
  ASSUME TasksInv, NEW t \in DOMAIN page, Sync(t)
  PROVE  TasksInv'
<1> DEFINE view == Graph(worker, Session(t))
           p == [page[t] EXCEPT !.view = view]
           import == p.view.import[p.view.active]
           q == IF import.stage = "queued" THEN StartRequested(p, import.task) ELSE p
<1>1. PageInv(page[t]) /\ view \in ViewSet /\ view.import[view.active].task \in Nat /\ page[t] \in PageSet
  BY Typed, GraphIsView DEF TasksInv
<1>2. p.view = view
  BY <1>1 DEF PageSet
<1>3. import.task \in Nat
  BY <1>1, <1>2
<1>4. Step(t, q) /\ UNCHANGED <<scene, worker, left>>
  BY DEF Sync
<1>5. q = p \/ q = StartRequested(p, import.task)
  OBVIOUS
<1> HIDE DEF q
<1>6. Proceeds(page[t], q)
  BY <1>1, <1>3, <1>5, SyncStep
<1> QED BY <1>4, <1>6, TabStep

LEMMA ExecutorStep ==
  ASSUME TasksInv, NEW t \in DOMAIN page, NEW run \in page[t].runs,
         Rendered(t, run) \/ Measured(t, run) \/ Awaited(t, run) \/ Placed(t, run)
  PROVE  TasksInv'
<1>0. PageInv(page[t])
  BY DEF TasksInv
<1>1. CASE Rendered(t, run)
  <2>1. run.type = "export" /\ UNCHANGED <<scene, worker, left>>
    BY <1>1 DEF Rendered
  <2>2. PICK q : Step(t, q) /\ \E stage \in {"rendering", "finalizing"} :
          \/ q = Replace(Sent(page[t], Progress(run.id, stage)), run, [run EXCEPT !.stage = stage])
          \/ q = ExportDone(page[t], run.task, run.id)
          \/ q = ExportFailed(page[t], run.task, run.id)
    BY <1>1 DEF Rendered
  <2>3. Proceeds(page[t], q)
    BY <1>0, <2>1, <2>2, RenderedStep
  <2> QED BY <2>1, <2>2, <2>3, TabStep
<1>2. CASE Measured(t, run)
  <2>1. run.type = "import" /\ UNCHANGED <<scene, worker, left>>
    BY <1>2 DEF Measured
  <2>2. PICK q : Step(t, q)
          /\ \/ q = Replace(Sent(page[t], [type |-> "importResourceIntoActiveProject", file |-> Head(run.files)]),
                            run, [run EXCEPT !.step = "find"])
             \/ q = EndTask(Sent(page[t], ImportProgress(run.handle, "error")), run.task, "failed")
    BY <1>2 DEF Measured
  <2>3. Proceeds(page[t], q)
    BY <1>0, <2>1, <2>2, FileStep, MeasuringFails
  <2> QED BY <2>1, <2>2, <2>3, TabStep
<1>3. CASE Awaited(t, run)
  <2>1. run.type = "import" /\ UNCHANGED <<scene, worker, left>>
    BY <1>3 DEF Awaited
  <2>2. PICK q : Step(t, q)
          /\ \/ q = Registered(page[t], run)
             \/ q = Replace(Sent(page[t], [type |-> "addActiveProjectResourceToTimeline", file |-> Head(run.files)]),
                            run, [run EXCEPT !.step = "clips"])
             \/ q = NextFile(Without(page[t], run), [run EXCEPT !.files = Tail(@)])
    BY <1>3 DEF Awaited
  <2>3. Proceeds(page[t], q)
    BY <1>0, <2>1, <2>2, FileStep, NextFileStep
  <2> QED BY <2>1, <2>2, <2>3, TabStep
<1>4. CASE Placed(t, run)
  <2>1. run.type = "import" /\ UNCHANGED <<scene, worker, left>> /\ Step(t, Registered(page[t], run))
    BY <1>4 DEF Placed
  <2>2. Proceeds(page[t], Registered(page[t], run))
    BY <1>0, <2>1, NextFileStep
  <2> QED BY <2>1, <2>2, TabStep
<1> QED BY <1>1, <1>2, <1>3, <1>4

-----------------------------------------------------------------------------
(* Every step keeps the invariant. *)

LEMMA StutterStep ==
  ASSUME TasksInv, UNCHANGED taskVars
  PROVE  TasksInv'
<1>1. scene' = scene /\ worker' = worker /\ page' = page /\ left' = left
  BY DEF taskVars
<1>2. TypeInv' /\ \A t \in DOMAIN page' : PageInv(page'[t])
  BY <1>1 DEF TasksInv, TypeInv, LeftSet
<1>3. Issued' = Issued /\ Here' = Here /\ \A s \in Sessions : TabsOf(s)' = TabsOf(s)
  BY <1>1 DEF Issued, Here, TabsOf, Session
<1>4. RequestsHeld' /\ BarsHeld'
  BY <1>1, <1>3 DEF TasksInv, ExportsInv, RequestsHeld, BarsHeld
<1>5. IdsGiven' /\ AsksOnce' /\ AsksForNew'
  BY <1>1, <1>3 DEF TasksInv, ExportsInv, IdsGiven, AsksOnce, AsksForNew
<1> QED BY <1>2, <1>4, <1>5 DEF TasksInv, ExportsInv

LEMMA NextStep ==
  ASSUME TasksInv, [Next]_taskVars
  PROVE  TasksInv'
<1>1. ASSUME NEW t \in DOMAIN page,
             \/ \E range \in Intents : ExportClicked(t, range)
             \/ \E way \in {"direct", "requested"} : FilesChosen(t, way)
             \/ \E project \in Projects : SwitchProject(t, project)
             \/ Leave(t) \/ Handle(t) \/ Receive(t) \/ Sync(t)
             \/ \E run \in page[t].runs : Rendered(t, run) \/ Measured(t, run) \/ Awaited(t, run) \/ Placed(t, run)
      PROVE  TasksInv'
  <2>1. CASE \E range \in Intents : ExportClicked(t, range)
    BY <2>1, ExportClickedStep
  <2>2. CASE \E way \in {"direct", "requested"} : FilesChosen(t, way)
    BY <2>2, FilesChosenStep
  <2>3. CASE \E project \in Projects : SwitchProject(t, project)
    BY <2>3, SwitchProjectStep
  <2>4. CASE Leave(t)
    BY <2>4, LeaveStep
  <2>5. CASE Handle(t)
    BY <2>5, HandledPages, HandleStep
  <2>6. CASE Receive(t)
    BY <2>6, ReceivedStep
  <2>7. CASE Sync(t)
    BY <2>7, SyncedStep
  <2>8. CASE \E run \in page[t].runs : Rendered(t, run) \/ Measured(t, run) \/ Awaited(t, run) \/ Placed(t, run)
    BY <2>8, ExecutorStep
  <2> QED BY <1>1, <2>1, <2>2, <2>3, <2>4, <2>5, <2>6, <2>7, <2>8
<1>2. CASE Next
  BY <1>1, <1>2 DEF Next
<1>3. CASE UNCHANGED taskVars
  BY <1>3, StutterStep
<1> QED BY <1>2, <1>3

LEMMA TypesHold ==
  ASSUME TasksInv
  PROVE  TypeOK
<1>1. TypeInv /\ \A t \in DOMAIN page : PageInv(page[t])
  BY DEF TasksInv
<1>2. /\ scene \in Scenes /\ left.exports \in 0..scene.exports /\ left.batches \subseteq scene.batches
      /\ left.switches \in 0..scene.switches
  BY <1>1 DEF TypeInv, LeftSet
<1>3. /\ worker.request \in [Sessions -> 0..MaxExports] /\ worker.active \in [Sessions -> Projects]
      /\ worker.progress \in [Sessions -> [id : 0..MaxExports, stage : Stages]]
      /\ worker.resources \in [Projects -> [Files -> Nat]] /\ worker.timeline \in [Projects -> SUBSET Files]
  BY <1>1 DEF TypeInv, WorkerSet, RequestSet, ActiveSet, BarsSet, BarSet, ResourcesSet, TimelineSet
<1>4. ASSUME NEW t \in DOMAIN page
      PROVE  /\ page[t].queued \in [Intents -> 0..Len(page[t].tasks)] /\ DOMAIN page[t].staged \subseteq 1..page[t].refs
             /\ \A i \in DOMAIN page[t].tasks : /\ page[t].tasks[i].intent \in Intents \cup {"import"}
                                                /\ page[t].tasks[i].status \in {"active", "completed", "failed", "dropped"}
             /\ \A r \in page[t].runs : r.task \in DOMAIN page[t].tasks
             /\ page[t].downloaded \subseteq 1..MaxExports /\ page[t].serves \subseteq Files
  <2> DEFINE p == page[t]
  <2>1. /\ p \in PageSet /\ p.queued \in [Intents -> 0..Len(p.tasks)] /\ DOMAIN p.staged \subseteq 1..p.refs
        /\ RunsHaveTasks(p.runs, p.tasks)
    BY <1>1 DEF PageInv, PageBut
  <2>2. p.tasks \in Seq(Tasks) /\ p.downloaded \subseteq Ids /\ p.serves \subseteq Files
    BY <2>1, PageFields
  <2>3. \A i \in DOMAIN p.tasks : p.tasks[i] \in Tasks
    BY <2>2, ElementOfSeq
  <2>4. \A i \in DOMAIN p.tasks : p.tasks[i].intent \in Intents \cup {"import"} /\ p.tasks[i].status \in Statuses
    BY <2>3, TasksHave
  <2>5. \A r \in p.runs : r.task \in DOMAIN p.tasks
    BY <2>1 DEF RunsHaveTasks, RunHasTask
  <2> QED BY <2>1, <2>2, <2>4, <2>5 DEF Statuses, Ids
<1> QED BY <1>2, <1>3, <1>4 DEF TypeOK

LEMMA TableHolds ==
  ASSUME TasksInv
  PROVE  TableInStep
<1> SUFFICES ASSUME NEW t \in Here
             PROVE  InStep(page[t].tasks, page[t].queued, {r.task : r \in page[t].runs})
  BY DEF TableInStep
<1>1. t \in DOMAIN page /\ page[t].here
  BY DEF Here
<1>2. InStep(page[t].tasks, page[t].queued, RunTasks(page[t].runs) \cup {})
  BY <1>1 DEF TasksInv, PageInv, PageBut
<1>3. RunTasks(page[t].runs) \cup {} = {r.task : r \in page[t].runs}
  BY DEF RunTasks
<1> QED BY ONLY <1>2, <1>3

LEMMA ExportsHold ==
  ASSUME TasksInv
  PROVE  ExportsEnd
<1>1. RequestsHeld /\ BarsHeld /\ \A t \in DOMAIN page : page[t] \in PageSet
  BY Typed DEF TasksInv, ExportsInv
<1> SUFFICES ASSUME AtRest, NEW s \in Sessions
             PROVE  /\ worker.request[s] # 0 => \A t \in TabsOf(s) \cap Here :
                         worker.request[s] \notin {task.data.id : task \in Range(page[t].tasks)}
                    /\ TabsOf(s) \subseteq Here => worker.request[s] = 0 /\ worker.progress[s].stage \notin Running
  BY DEF ExportsEnd, TabsOf
<1>2. \A t \in TabsOf(s) \cap Here : \A id : ~Comes(page[t], id) /\ ~Owns(page[t], id) /\ ~Consumes(page[t], id) /\ ~Finishes(page[t], id)
  <2> TAKE t \in TabsOf(s) \cap Here
  <2> TAKE id
  <2>1. page[t].in = <<>> /\ page[t].runs = {} /\ page[t].out = <<>>
    BY DEF AtRest, TabsOf, Here
  <2> QED BY <2>1 DEF Comes, Owns, Consumes, Finishes
<1>3. ASSUME worker.request[s] # 0, NEW t \in TabsOf(s) \cap Here
      PROVE  worker.request[s] \notin {task.data.id : task \in Range(page[t].tasks)}
  <2> DEFINE r == worker.request[s]
             tasks == page[t].tasks
  <2>1. ~Has(page[t], r)
    BY <1>1, <1>2, <1>3 DEF RequestsHeld
  <2>2. tasks \in Seq(Tasks)
    BY <1>1, PageFields DEF TabsOf
  <2>3. ASSUME NEW i \in DOMAIN tasks PROVE tasks[i].data.id # r
    <3>1. tasks[i] \in Tasks
      BY <2>2, ElementOfSeq
    <3>2. CASE tasks[i] \in ExportTasks
      BY <2>1, <3>2 DEF Has, ExportTasks
    <3>3. CASE tasks[i] \in ImportTasks
      BY <3>3, <1>3 DEF ImportTasks
    <3> QED BY <3>1, <3>2, <3>3 DEF Tasks
  <2> QED BY <2>3 DEF Range
<1>4. ASSUME TabsOf(s) \subseteq Here PROVE worker.request[s] = 0 /\ worker.progress[s].stage \notin Running
  BY <1>1, <1>2, <1>4 DEF RequestsHeld, BarsHeld
<1> QED BY <1>3, <1>4

-----------------------------------------------------------------------------
(* TasksInv always holds: the tables of tasks are in step with the executors, and whatever the session  *)
(* still asks for or shows is in the hands of a tab, under any order of clicks, messages and departures. *)
THEOREM TasksAreHeld == Spec => []TasksInv
<1>1. Init => TasksInv
  BY Begins
<1>2. TasksInv /\ [Next]_taskVars => TasksInv'
  BY NextStep
<1> QED BY <1>1, <1>2, PTL DEF Spec

(* Sessions, bars, tasks, executors and what is on the way are always of their kind (TypeOK). *)
THEOREM TasksAreTyped == Spec => []TypeOK
<1>1. TasksInv => TypeOK
  BY TypesHold
<1> QED BY <1>1, TasksAreHeld, PTL

(* The table of tasks of a page (runtimeTaskFacade) tells the truth, whatever is dispatched, replaced, completed *)
(* or failed: a task is active exactly while its executor runs and nothing replaced it (TableInStep).          *)
THEOREM TablesAreKept == Spec => []TableInStep
<1>1. TasksInv => TableInStep
  BY TableHolds
<1> QED BY <1>1, TasksAreHeld, PTL

(* No export hangs: once nothing is on the way and no executor runs, no request and no running bar is left *)
(* in a session whose tabs are all there, however many tabs render the same request (ExportsEnd).          *)
THEOREM ExportsAreEnded == Spec => []ExportsEnd
<1>1. TasksInv => ExportsEnd
  BY ExportsHold
<1> QED BY <1>1, TasksAreHeld, PTL
=============================================================================
