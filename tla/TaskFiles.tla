------------------------------ MODULE TaskFiles ------------------------------
(***************************************************************************)
(* The files of a reconstruction task, in app/api/v1/reconstruction.py:    *)
(* what start and start_mesh link as inputs, what a run stages, which      *)
(* links its end removes and adds, and what delete_file of                 *)
(* app/services/file_service.py does to a task whose file goes.            *)
(*                                                                         *)
(* A task's Gaussian stage makes a PLY and the files of its model          *)
(* directory, all with one generation id.  The Mesh stage takes a PLY, and *)
(* restores the directory of its generation; Hunyuan3D, the other Mesh     *)
(* algorithm, takes the original images again.  A stage may be run again   *)
(* and again.  Results are linked in one transaction, which takes minutes: *)
(* each of its steps looks at the links that are committed by then, and    *)
(* what it removes and adds shows at the end.                              *)
(*                                                                         *)
(* Queue, leases and billing are those of ReconTask, GpuLease and          *)
(* GpuUsage, blobs are FileStore's.  Logs are left out.                    *)
(***************************************************************************)
EXTENDS Integers, FiniteSets

CONSTANTS
  Input,      \* images or videos of the user
  Client,     \* requests of the task's owner
  Worker,     \* GPU workers
  MaxRuns,    \* bound: runs that end with results
  MaxEvents,  \* bound: requests, worker failures, messages delivered twice and live runs
              \* taken for dead
  None

Run == 1 .. MaxRuns

\* What a run registers: "cfg" is cfg_args, with the other support files.  `run` is the
\* generation_id of a PLY and its support files.
Result == [kind: {"ply", "cfg", "mesh", "glb"}, run: Run]
File   == Input \cup Result

ASSUME FilesAssumption ==
  /\ {MaxRuns, MaxEvents} \subseteq Nat
  /\ Client \cap Worker = {} /\ Input \cap Result = {}

Algorithm     == {"dash_gaussian", "dash_gaussian_mesh", "hunyuan3d"}
MeshAlgorithm == Algorithm \ {"dash_gaussian"}

\* A link's role: input, intermediate ("stage") or result.
Input_(f)  == [file |-> f, role |-> "input"]
Stage(f)   == [file |-> f, role |-> "stage"]
Result_(f) == [file |-> f, role |-> "result"]

VARIABLES
  task,     \* the row: status, algorithm, cancel_requested
  link,     \* the committed rows of task_files
  gone,     \* files that were deleted
  pc, mem,  \* requests and workers: next step, what they have loaded
  runs,     \* runs whose results were registered
  made,     \* for each of them, the generations of the files it was made from
  asked,    \* inputs of the last start
  overlapped,  \* two requests, or two runs, were under way at one time
  revived,  \* since the last start, a run was begun of a task that neither waited nor ran
  events

sessions == <<pc, mem>>
ghosts   == <<made, asked, overlapped, revived>>
vars     == <<task, link, gone, sessions, runs, ghosts, events>>

Actor  == Client \cup Worker
Status == {"pending", "queued", "processing", "completed", "partial_completed", "failed",
           "cancelled"}
Row    == [status: Status, algorithm: Algorithm, cancel: BOOLEAN]

\* create_task
Init ==
  /\ task = [status |-> "pending", algorithm |-> "dash_gaussian", cancel |-> FALSE]
  /\ link = {} /\ gone = {}
  /\ pc = [a \in Actor |-> "idle"] /\ mem = [a \in Actor |-> None]
  /\ runs = 0 /\ made = [n \in Run |-> {}]
  /\ asked = {} /\ overlapped = FALSE /\ revived = FALSE /\ events = 0

Goes(a, step, m) ==
  /\ pc'  = [pc EXCEPT ![a] = step]
  /\ mem' = [mem EXCEPT ![a] = m]

Ends(a) == Goes(a, "idle", None)

Event ==
  /\ events < MaxEvents
  /\ events' = events + 1

\* The row after a commit: the columns that were changed, the others as they are.
Flush(from, to) ==
  task' = [c \in DOMAIN task |-> IF to[c] = from[c] THEN task[c] ELSE to[c]]

\* Another one of the kind is under way when a begins.
Joins(a, others) ==
  overlapped' = (overlapped \/ \E b \in others \ {a} : pc[b] \notin {"idle", "leased"})

-----------------------------------------------------------------------------
(* What the links say.  `links` are those that a session has loaded, with their files. *)

ResultsOf(links) == {l.file : l \in {k \in links : k.role = "result"}} \ gone
InputsOf(links)  == {l.file : l \in {k \in links : k.role = "input"}} \ gone

\* _is_ply_model_file, of a task's results
Plys(files) == {f \in files : f.kind = "ply"}

\* _has_ply_result
HasPly(links) == Plys(ResultsOf(links)) # {}

\* Mutant: whatever the Gaussian stage has made.
Restored_Any(links, ply) == {f \in ResultsOf(links) : f.kind \in {"ply", "cfg"}}

\* _select_dash_gaussian_restore_links_for_ply: the files of the generation of a PLY that
\* is a result of the task; none if it is not.
Restored(links, ply) ==
  {f \in ResultsOf(links) :
     ply \in ResultsOf(links) /\ f.kind \in {"ply", "cfg"} /\ f.run = ply.run}

HasCfg(files) == \E f \in files : f.kind = "cfg"

\* _set_stage_failed, of a row and its links
StageFailed(row, links) ==
  [row EXCEPT !.status =
     IF row.algorithm \in MeshAlgorithm \/ HasPly(links) THEN "partial_completed" ELSE "failed"]

-----------------------------------------------------------------------------
(* The owner's requests *)

\* start_reconstruction: status, inputs; a rerun takes files linked before.
StartLoad(c, selected) ==
  /\ pc[c] = "idle" /\ Event
  /\ task.status \in {"pending", "completed", "partial_completed", "failed"}
  /\ selected # {} /\ selected \cap gone = {}
  /\ task.status # "pending" => selected \subseteq InputsOf(link)
  /\ Goes(c, "start", [row |-> task, selected |-> selected])
  /\ Joins(c, Client)
  /\ UNCHANGED <<task, link, gone, runs, made, asked, revived>>

StartCommit(c) ==
  /\ pc[c] = "start"
  /\ Flush(mem[c].row, [status |-> "queued", algorithm |-> "dash_gaussian", cancel |-> FALSE])
  /\ link' = link \cup {Input_(f) : f \in mem[c].selected}
  /\ asked' = mem[c].selected
  /\ revived' = FALSE
  /\ Ends(c)
  /\ UNCHANGED <<gone, runs, made, overlapped, events>>

\* start_mesh_reconstruction: status, PLY
MeshReady ==
  /\ task.status \in {"completed", "partial_completed", "failed"}
  /\ HasPly(link)

\* Mutant: any result will do.
Selectable_Any(alg) ==
  IF alg = "dash_gaussian_mesh" THEN {{f} : f \in ResultsOf(link)}
  ELSE SUBSET InputsOf(link) \ {{}}

\* One PLY whose model directory can be restored, or original inputs.
Selectable(alg) ==
  IF alg = "dash_gaussian_mesh"
    THEN {{f} : f \in {p \in Plys(ResultsOf(link)) : HasCfg(Restored(link, p))}}
    ELSE SUBSET InputsOf(link) \ {{}}

MeshLoad(c, alg, selected) ==
  /\ pc[c] = "idle" /\ Event
  /\ MeshReady
  /\ selected \in Selectable(alg)
  /\ Goes(c, "mesh", [row |-> task, selected |-> selected, algorithm |-> alg])
  /\ Joins(c, Client)
  /\ UNCHANGED <<task, link, gone, runs, made, asked, revived>>

\* _replace_stage_input_links, and the commit of _enqueue
MeshCommit(c) ==
  /\ pc[c] = "mesh"
  /\ Flush(mem[c].row, [status |-> "queued", algorithm |-> mem[c].algorithm, cancel |-> FALSE])
  /\ link' = {l \in link : l.role # "stage"} \cup {Stage(f) : f \in mem[c].selected}
  /\ asked' = IF mem[c].algorithm = "hunyuan3d" THEN mem[c].selected ELSE {}
  /\ revived' = FALSE
  /\ Ends(c)
  /\ UNCHANGED <<gone, runs, made, overlapped, events>>

\* A file uploaded for the task is merged: _attach_task_input.
Attach(f) ==
  /\ Event
  /\ f \notin gone /\ Input_(f) \notin link
  /\ link' = link \cup {Input_(f)}
  /\ UNCHANGED <<task, gone, sessions, runs, ghosts>>

\* delete_file loads the record, its links and their task; ...
DeleteLoad(c, f) ==
  /\ pc[c] = "idle" /\ Event
  /\ f \in (Input \cup ResultsOf(link)) \ gone
  /\ Goes(c, "delete", [row |-> task, file |-> f, links |-> {l \in link : l.file = f}])
  /\ Joins(c, Client)
  /\ UNCHANGED <<task, link, gone, runs, made, asked, revived>>

\* Mutant: a task that waits in the queue is forgotten.
Cancels_Running(row, f, links) == Input_(f) \in links /\ row.status = "processing"

Cancels(row, f, links) ==
  Input_(f) \in links /\ row.status \in {"pending", "queued", "processing"}

\* ... an active task that has it as an input is cancelled, links and record go.
DeleteCommit(c) ==
  /\ pc[c] = "delete"
  /\ LET m == mem[c]
     IN  /\ IF Cancels(m.row, m.file, m.links)
              THEN Flush(m.row, [m.row EXCEPT !.status = "cancelled", !.cancel = TRUE])
              ELSE UNCHANGED task
         /\ link' = link \ m.links
         /\ gone' = gone \cup {m.file}
  /\ Ends(c)
  /\ UNCHANGED <<runs, ghosts, events>>

-----------------------------------------------------------------------------
(* Runs *)

\* Workers whose run is in the table.
AtRun == {w \in Worker : pc[w] \notin {"idle", "leased", "begin"}}

\* prepare_gpu_dispatch finds that the task waits, and the worker gets its lease (how:
\* ReconTask).  Its message may have been delivered twice.
Dispatch(w) ==
  /\ pc[w] = "idle"
  /\ task.status = "queued"
  /\ IF \E v \in Worker : pc[v] # "idle" THEN Event ELSE UNCHANGED events
  /\ Goes(w, "leased", None)
  /\ UNCHANGED <<task, link, gone, runs, ghosts>>

\* run_reconstruction_algorithm loads the task: it confirms a cancellation, and leaves a task
\* that is finished, or has a run whose heartbeat is fresh.
RunLeaves(w) ==
  /\ pc[w] = "leased"
  /\ task.cancel \/ task.status \in {"cancelled", "completed", "failed", "processing"}
  /\ task' = IF task.cancel THEN [task EXCEPT !.status = "cancelled"] ELSE task
  /\ Ends(w)
  /\ UNCHANGED <<link, gone, runs, ghosts, events>>

\* A task that is partially completed is not among those, nor one whose heartbeat is old.
Begins(row) == ~row.cancel /\ row.status \notin {"cancelled", "completed", "failed"}

\* If a run is alive, it is taken for dead.
RunLoad(w) ==
  /\ pc[w] = "leased"
  /\ Begins(task)
  /\ IF task.status = "processing" /\ AtRun # {} THEN Event ELSE UNCHANGED events
  /\ Goes(w, "begin", [row |-> task])
  /\ Joins(w, Worker)
  /\ revived' = (revived \/ task.status \notin {"queued", "processing"})
  /\ UNCHANGED <<task, link, gone, runs, made, asked>>

\* _input_links, of the algorithm and the input_kind that were loaded
Staged(alg) ==
  LET linked(role) == {l.file : l \in {k \in link : k.role = role}}
  IN  CASE alg = "dash_gaussian"      -> linked("input")
        [] alg = "dash_gaussian_mesh" -> linked("stage") \ Input
        [] alg = "hunyuan3d"          -> linked("stage") \cap Input

BeginCommit(w) ==
  /\ pc[w] = "begin"
  /\ Flush(mem[w].row, [mem[w].row EXCEPT !.status = "processing"])
  /\ Goes(w, "stage", [algorithm |-> mem[w].row.algorithm,
                       inputs |-> Staged(mem[w].row.algorithm)])
  /\ UNCHANGED <<link, gone, runs, ghosts, events>>

\* _stage_inputs, _restore_dash_gaussian_model_dir; a run without inputs fails.
StageInputs(w) ==
  /\ pc[w] = "stage"
  /\ LET m == mem[w]
         dir == IF m.algorithm = "dash_gaussian_mesh" /\ m.inputs # {}
                  THEN Restored(link, CHOOSE p \in m.inputs : TRUE)
                  ELSE {}
         ready == /\ m.inputs # {}
                  /\ m.algorithm = "dash_gaussian_mesh" => HasCfg(dir)
     IN  IF ready
           THEN Goes(w, "run", [algorithm |-> m.algorithm, inputs |-> m.inputs, dir |-> dir])
           ELSE Goes(w, "raised", None)
  /\ UNCHANGED <<task, link, gone, runs, ghosts, events>>

\* The algorithm, a lease or a deadline fails.
Raise(w) ==
  /\ pc[w] \in {"stage", "run", "registered"}
  /\ Event
  /\ Goes(w, "raised", None)
  /\ UNCHANGED <<task, link, gone, runs, ghosts>>

\* The worker dies: nothing of its transaction is left.
Crash(w) ==
  /\ pc[w] # "idle" /\ Event
  /\ Ends(w)
  /\ UNCHANGED <<task, link, gone, runs, ghosts>>

\* The task is loaded to fail it, with its links.
FailLoad(w) ==
  /\ pc[w] = "raised"
  /\ Goes(w, "end", [row |-> task, to |-> StageFailed(task, link), drop |-> {}, add |-> {}])
  /\ UNCHANGED <<task, link, gone, runs, ghosts, events>>

\* The poll loop finds the task cancelled.
CancelLoad(w) ==
  /\ pc[w] = "run" /\ task.cancel
  /\ Goes(w, "end", [row |-> task, to |-> [task EXCEPT !.status = "cancelled"],
                     drop |-> {}, add |-> {}])
  /\ UNCHANGED <<task, link, gone, runs, ghosts, events>>

\* Mutant: a Mesh result replaces the models there are.
Replaces_Models(alg) ==
  CASE alg = "dash_gaussian"      -> {"ply", "cfg"}
    [] alg = "dash_gaussian_mesh" -> {"ply", "mesh"}
    [] alg = "hunyuan3d"          -> {"glb"}

\* Kinds of results that are removed when new ones are there: _remove_generated_result_links,
\* _remove_dash_gaussian_mesh_result_links, _remove_hunyuan3d_result_links.
Replaces(alg) ==
  CASE alg = "dash_gaussian"      -> {"ply", "cfg"}
    [] alg = "dash_gaussian_mesh" -> {"mesh"}
    [] alg = "hunyuan3d"          -> {"glb"}

\* What the n-th run registers.
Adds(alg, n) ==
  {Result_(f) : f \in [kind: CASE alg = "dash_gaussian"      -> {"ply", "cfg"}
                               [] alg = "dash_gaussian_mesh" -> {"mesh"}
                               [] alg = "hunyuan3d"          -> {"glb"},
                       run: {n}]}

OfKind(kinds) == {l \in link : l.role = "result" /\ l.file.kind \in kinds}

\* The process has ended well.  _register_algorithm_results goes by the algorithm that the
\* row has now; if that is not the one that ran, its output is missing.
RegisterLoad(w) ==
  /\ pc[w] = "run"
  /\ IF task.algorithm # mem[w].algorithm
       THEN /\ Goes(w, "end", [row |-> task, to |-> StageFailed(task, link),
                               drop |-> {}, add |-> {}])
            /\ UNCHANGED <<runs, made>>
       ELSE /\ runs < MaxRuns
            /\ runs' = runs + 1
            /\ made' = [made EXCEPT ![runs'] = {f.run : f \in mem[w].dir}]
            /\ Goes(w, "registered",
                    [row  |-> task, to |-> [task EXCEPT !.status = "completed"],
                     drop |-> OfKind(Replaces(task.algorithm)),
                     add  |-> Adds(task.algorithm, runs')])
  /\ UNCHANGED <<task, link, gone, asked, overlapped, revived, events>>

\* Mutant: a Gaussian rerun leaves the meshes of the PLY before.
Outdated_None == {}

\* What a Gaussian run makes out of date: _replace_stage_input_links, _remove_mesh_result_links
Outdated == OfKind({"mesh", "glb"}) \cup {l \in link : l.role = "stage"}

\* The PLY is the last to be registered; then a Gaussian run removes what it outdates.
RegisterPly(w) ==
  /\ pc[w] = "registered"
  /\ LET m == mem[w]
     IN  Goes(w, "end",
              IF m.row.algorithm = "dash_gaussian"
                THEN [m EXCEPT !.drop = @ \cup OfKind({"ply"}) \cup Outdated]
                ELSE m)
  /\ UNCHANGED <<task, link, gone, runs, ghosts, events>>

\* The end of a run: links and status in one commit.
EndCommit(w) ==
  /\ pc[w] = "end"
  /\ LET m == mem[w]
     IN  /\ Flush(m.row, m.to)
         /\ link' = (link \ m.drop) \cup m.add
  /\ Ends(w)
  /\ UNCHANGED <<gone, runs, ghosts, events>>

\* recover_stale_tasks: a run is taken for dead.  If it is not, the next one overlaps it.
Recover(again) ==
  /\ task.status = "processing"
  /\ IF AtRun # {} THEN Event ELSE UNCHANGED events
  /\ overlapped' = (overlapped \/ AtRun # {})
  /\ task' = IF again THEN [task EXCEPT !.status = "queued"] ELSE StageFailed(task, link)
  /\ UNCHANGED <<link, gone, sessions, runs, made, asked, revived>>

Next ==
  \/ \E c \in Client :
       \/ StartCommit(c) \/ MeshCommit(c) \/ DeleteCommit(c)
       \/ \E selected \in SUBSET Input : StartLoad(c, selected)
       \/ \E alg \in MeshAlgorithm : \E selected \in Selectable(alg) : MeshLoad(c, alg, selected)
       \/ \E f \in Input \cup ResultsOf(link) : DeleteLoad(c, f)
  \/ \E f \in Input : Attach(f)
  \/ \E w \in Worker :
       \/ Dispatch(w) \/ RunLeaves(w) \/ RunLoad(w) \/ BeginCommit(w) \/ StageInputs(w)
       \/ Raise(w) \/ Crash(w) \/ FailLoad(w) \/ CancelLoad(w)
       \/ RegisterLoad(w) \/ RegisterPly(w) \/ EndCommit(w)
  \/ \E again \in BOOLEAN : Recover(again)

Spec == Init /\ [][Next]_vars

-----------------------------------------------------------------------------
(* Properties *)

\* Types: who may be linked in which role among them.
TypeOK ==
  /\ task \in Row /\ gone \subseteq File
  /\ \A l \in link : l \in {Input_(f) : f \in Input} \cup {Result_(f) : f \in Result}
                          \cup {Stage(f) : f \in Input \cup Plys(Result)}
  /\ pc \in [Actor -> {"idle", "start", "mesh", "delete", "leased", "begin", "stage", "run",
                       "raised", "registered", "end"}]
  /\ runs \in 0..MaxRuns /\ made \in [Run -> SUBSET Run]
  /\ asked \subseteq Input /\ {overlapped, revived} \subseteq BOOLEAN /\ events \in 0..MaxEvents

\* A task that has a PLY keeps one, through reruns that fail anywhere, overlap, or are
\* taken for dead, unless its owner deletes it: what others see of a public task stays.
PlyStays == [][HasPly(link) => HasPly(link)' \/ gone' # gone]_vars

\* A mesh that is a result of the task has the PLY it was made from beside it, unless its owner
\* deleted that one: a Gaussian rerun that replaces the PLY leaves none of its meshes, whatever
\* fails or is begun a second time.
MeshOfPly ==
  \A l \in link :
    ~overlapped /\ l.role = "result" /\ l.file.kind = "mesh" =>
      \A n \in made[l.file.run] :
        \E p \in Plys(Result) : p.run = n /\ (Result_(p) \in link \/ p \in gone)

\* A task that waits or runs, and was not told to stop, has the inputs it was started with.  A
\* run of a task that is partially completed, begun by a message delivered twice, is excepted:
\* the owner may have deleted an input by then, and nothing is told to stop.
InputsKept ==
  task.status \in {"queued", "processing"} /\ ~task.cancel /\ ~overlapped /\ ~revived =>
    asked \subseteq InputsOf(link)

\* A Mesh run works in the model directory of one generation, the selected PLY's, though
\* two runs may have registered theirs at one time.
OneGeneration ==
  \A w \in Worker :
    pc[w] = "run" /\ mem[w].algorithm = "dash_gaussian_mesh" =>
      /\ HasCfg(mem[w].dir)
      /\ \A f \in mem[w].dir : \A p \in mem[w].inputs : f.run = p.run
=============================================================================
