------------------------------ MODULE ReconTask ------------------------------
(***************************************************************************)
(* The life of reconstruction tasks: app/services/task_service.py, the     *)
(* start, cancel and delete handlers, _enqueue,                            *)
(* run_reconstruction_algorithm and recover_stale_reconstruction_tasks of  *)
(* app/api/v1/reconstruction.py, and the Celery task in                    *)
(* app/tasks/reconstruction_tasks.py.                                      *)
(*                                                                         *)
(* A row is read in one step and written in a later one.  Nothing locks it *)
(* in between (only recover_stale_tasks selects FOR UPDATE), and the ORM   *)
(* writes just the columns whose value an object changed since it was      *)
(* loaded.  So what a process has in memory is a pair: the row `from` it   *)
(* loaded and the row `to` it is about to commit; Flush applies the        *)
(* difference to the table.  A heartbeat is a new timestamp each time and  *)
(* is written always: Touch.                                               *)
(*                                                                         *)
(* Acquiring a GPU is GpuLease's: here a worker gets one, waits or fails,  *)
(* and whatever makes a run raise, a lost lease among it, is Raise.        *)
(***************************************************************************)
EXTENDS Integers, FiniteSets

CONSTANTS
  Task,        \* reconstruction tasks, all of one user
  Client,      \* concurrent API requests
  Recoverer,   \* runs of recover_stale_reconstruction_tasks, one task at a time
  Worker,      \* Celery worker slots
  TaskQuota,   \* task_quota of the user: active tasks allowed
  MaxRetries,  \* task_max_retries
  Prompt,      \* TRUE: whoever is at work on a task acts before its heartbeat expires
  OneStart,    \* TRUE: a task is started again only after the earlier start was answered
  Faults,      \* what may go wrong: a subset of FaultKinds
  MaxFaults,   \* bound: how often, in one behaviour
  MaxStarts,   \* bound: messages a task may have been sent when a user starts it
  MaxMessages, \* bound: messages ever sent for one task
  MaxCancels,  \* bound: cancel and delete requests in one behaviour
  None

FaultKinds ==
  {"worker", "exception", "redelivery", "starter", "canceller", "recoverer", "broker"}

ASSUME QuotaAssumption  == TaskQuota \in Nat /\ MaxRetries \in Nat
ASSUME FaultAssumption  == Faults \subseteq FaultKinds /\ {Prompt, OneStart} \subseteq BOOLEAN
ASSUME BoundsAssumption == {MaxFaults, MaxStarts, MaxMessages, MaxCancels} \subseteq Nat
ASSUME ActorAssumption  ==
  /\ Client \cap Recoverer = {}
  /\ None \notin Task \cup Client \cup Recoverer \cup Worker

Actor == Client \cup Recoverer

VARIABLES
  row,       \* the reconstruction_tasks table
  sent,      \* how many messages were sent for each task: the last Celery id
  queue,     \* ids of the messages "reconstruction.run" waiting for each task
  revoked,   \* ids the workers were told to drop, and ...
  killed,    \* ... to kill (terminate=True)
  lock,      \* the request that holds the user row FOR UPDATE
  apc, atask, amem,        \* requests and recoverers: step, task, rows in memory
  wpc, wtask, wmsg, wmem,  \* workers: step, task, message, rows in memory
  faults, cancels          \* faults, cancel requests so far

actors  == <<apc, atask, amem>>
workers == <<wpc, wtask, wmsg, wmem>>
broker  == <<sent, queue, revoked, killed>>
vars    == <<row, broker, lock, actors, workers, faults, cancels>>

Status == {"absent", "pending", "queued", "processing", "completed", "partial",
           "failed", "cancelled"}
Active == {"pending", "queued", "processing"}  \* ACTIVE_STATUSES

Id          == 1..MaxMessages
NoId        == 0     \* celery_task_id = ""
Dispatching == -1    \* celery_task_id = "dispatching"

Row == [status: Status,
        cid: Id \cup {NoId, Dispatching},
        cancel: BOOLEAN,             \* cancel_requested
        beat: {"fresh", "stale"},    \* heartbeat_at against the stale threshold
        bill: BOOLEAN,               \* gpu_billing_started_at is set
        retry: Nat,                  \* retry_count
        mesh: BOOLEAN,               \* the algorithm is a Mesh algorithm
        ply: BOOLEAN,                \* a RESULT link to a PLY file exists
        run: Worker \cup {None},     \* worker_node_id, executor_id, cuda_device
        deleted: BOOLEAN]            \* is_deleted

Absent == [status |-> "absent", cid |-> NoId, cancel |-> FALSE, beat |-> "fresh",
           bill |-> FALSE, retry |-> 0, mesh |-> FALSE, ply |-> FALSE,
           run |-> None, deleted |-> FALSE]

Init ==
  /\ row = [t \in Task |-> Absent]
  /\ sent = [t \in Task |-> 0]
  /\ queue = [t \in Task |-> {}] /\ revoked = queue /\ killed = queue
  /\ lock = None
  /\ apc = [a \in Actor |-> "idle"] /\ atask = [a \in Actor |-> None] /\ amem = atask
  /\ wpc = [w \in Worker |-> "idle"] /\ wtask = [w \in Worker |-> None]
  /\ wmsg = [w \in Worker |-> NoId] /\ wmem = wtask
  /\ faults = 0 /\ cancels = 0

-----------------------------------------------------------------------------
(* Rows in memory *)

\* The table's row after a commit: the columns changed in memory, and the others
\* as they are by now.
Flush(now, m) ==
  [c \in DOMAIN now |-> IF m.to[c] = m.from[c] THEN now[c] ELSE m.to[c]]

\* heartbeat_at = now
Touch(r) == [r EXCEPT !.beat = "fresh"]

\* After the commit the session's object is clean.
Clean(r) == [from |-> r, to |-> r]

\* Task t loaded, to be committed as r.
Load(t, r) == [from |-> row[t], to |-> r]

\* Mutant: an earlier PLY result is not looked at.
StageFailed_NoPly(r) == [r EXCEPT !.status = IF r.mesh THEN "partial" ELSE "failed"]

\* _set_stage_failed, with TaskService.has_ply_result
StageFailed(r) ==
  [r EXCEPT !.status = IF r.mesh \/ r.ply THEN "partial" ELSE "failed"]

Cancelled(r) == [r EXCEPT !.status = "cancelled"]                    \* _set_cancelled

Settled(r) == [r EXCEPT !.bill = FALSE]                              \* settle_gpu_usage

Queued(r) == [r EXCEPT !.status = "queued", !.cid = Dispatching]     \* _enqueue

\* What a start writes before it enqueues.
Started(r, mesh) ==
  [r EXCEPT !.cancel = FALSE, !.retry = 0, !.bill = FALSE, !.mesh = mesh, !.run = None]

\* Mutant: tasks that wait in the queue are not counted.
ActiveBeside_Running(t) ==
  {u \in Task \ {t} : row[u].status \in Active \ {"queued"} /\ ~row[u].deleted}

\* count_active_tasks, without task t
ActiveBeside(t) ==
  {u \in Task \ {t} : row[u].status \in Active /\ ~row[u].deleted}

-----------------------------------------------------------------------------
(* API requests *)

\* Actor a goes on to step pc of its work on t, with m in memory.
Goes(a, pc, t, m) ==
  /\ apc'   = [apc EXCEPT ![a] = pc]
  /\ atask' = [atask EXCEPT ![a] = t]
  /\ amem'  = [amem EXCEPT ![a] = m]

Ends(a) == Goes(a, "idle", None, None)

\* create_task: user row locked, active tasks counted, row inserted, committed.
Create(t) ==
  /\ row[t].status = "absent"
  /\ lock = None
  /\ Cardinality(ActiveBeside(t)) < TaskQuota
  /\ row' = [row EXCEPT ![t].status = "pending"]
  /\ UNCHANGED <<broker, lock, actors, workers, faults, cancels>>

\* A start that passed its checks will enqueue task t, in the state it loaded.
Restarts(c, t, mesh) ==
  /\ apc[c] = "idle"
  /\ sent[t] < MaxStarts
  /\ OneStart => \A d \in Client : atask[d] # t
  /\ ~row[t].deleted
  /\ Goes(c, "quota", t, Load(t, Queued(Started(row[t], mesh))))
  /\ UNCHANGED <<row, broker, lock, workers, faults, cancels>>

\* start_reconstruction and start_mesh_reconstruction load the task and check it ...
StartLoad(c, t) ==
  /\ row[t].status \in {"pending", "completed", "partial", "failed"}
  /\ Restarts(c, t, FALSE)

StartMeshLoad(c, t) ==
  /\ row[t].status \in {"completed", "partial", "failed"} /\ row[t].ply
  /\ Restarts(c, t, TRUE)

\* ... then lock the user and count: ensure_active_task_quota.
StartQuota(c) ==
  /\ apc[c] = "quota"
  /\ lock = None
  /\ IF Cardinality(ActiveBeside(atask[c])) < TaskQuota
       THEN /\ lock' = c
            /\ apc' = [apc EXCEPT ![c] = "enqueue"]
            /\ UNCHANGED <<atask, amem>>
       ELSE Ends(c) /\ UNCHANGED lock
  /\ UNCHANGED <<row, broker, workers, faults, cancels>>

\* cancel_reconstruction: request_cancel of an active task.  (delete_file of one of its inputs
\* requests the same.) ...
CancelLoad(c, t) ==
  /\ apc[c] = "idle"
  /\ cancels < MaxCancels
  /\ cancels' = cancels + 1
  /\ ~row[t].deleted
  /\ row[t].status \in Active
  /\ Goes(c, "revoke", t, Load(t, Settled(Cancelled([row[t] EXCEPT !.cancel = TRUE]))))
  /\ UNCHANGED <<row, broker, lock, workers, faults>>

\* ... and delete_reconstruction_task, which cancels an active task first.
DeleteLoad(c, t) ==
  /\ apc[c] = "idle"
  /\ cancels < MaxCancels
  /\ cancels' = cancels + 1
  /\ ~row[t].deleted
  /\ row[t].status # "absent"
  /\ IF row[t].status \in Active
       THEN Goes(c, "revoke", t,
                 Load(t, Settled(Cancelled([row[t] EXCEPT !.cancel = TRUE, !.deleted = TRUE]))))
       ELSE Goes(c, "cancel", t, Load(t, [row[t] EXCEPT !.deleted = TRUE]))
  /\ UNCHANGED <<row, broker, lock, workers, faults>>

\* control.revoke of the id the row had when it was loaded, before anything is
\* committed.  Its failures are swallowed, and workers may miss it.
Revoke(c) ==
  /\ apc[c] = "revoke"
  /\ apc' = [apc EXCEPT ![c] = "cancel"]
  /\ LET t == atask[c]
         m == amem[c]
         ids == {m.from.cid} \cap Id
     IN  /\ revoked' = [revoked EXCEPT ![t] = @ \cup ids]
         /\ killed'  = [killed EXCEPT ![t] =
                          IF m.from.status = "processing" THEN @ \cup ids ELSE @]
  /\ UNCHANGED <<row, sent, queue, lock, atask, amem, workers, faults, cancels>>

\* The request's session commits; deleting drops the task's file links too.
CancelCommit(c) ==
  /\ apc[c] = "cancel"
  /\ LET t == atask[c]
         r == Flush(row[t], amem[c])
     IN  row' = [row EXCEPT ![t] = [r EXCEPT !.ply = @ /\ ~amem[c].to.deleted]]
  /\ Ends(c)
  /\ UNCHANGED <<broker, lock, workers, faults, cancels>>

\* delete_file of a PLY result drops its link, and leaves the task as it is.
DeletePly(t) ==
  /\ row[t].ply
  /\ row' = [row EXCEPT ![t].ply = FALSE]
  /\ UNCHANGED <<broker, lock, actors, workers, faults, cancels>>

-----------------------------------------------------------------------------
(* _enqueue, for a start and for a recovery *)

\* First commit: queued, "dispatching", heartbeat.  It ends the start's transaction,
\* and with it the lock on the user.
EnqueueCommit(a) ==
  /\ apc[a] = "enqueue"
  /\ row' = [row EXCEPT ![atask[a]] = Touch(Flush(@, amem[a]))]
  /\ Goes(a, "send", atask[a], Clean(amem[a].to))
  /\ lock' = IF lock = a THEN None ELSE lock
  /\ UNCHANGED <<broker, workers, faults, cancels>>

\* send_task puts a message with a new id into the queue.
Send(a) ==
  /\ apc[a] = "send"
  /\ LET t  == atask[a]
         id == sent[t] + 1
     IN  /\ id \in Id
         /\ sent'  = [sent EXCEPT ![t] = id]
         /\ queue' = [queue EXCEPT ![t] = @ \cup {id}]
         /\ Goes(a, "record", t, [amem[a] EXCEPT !.to.cid = id])
  /\ UNCHANGED <<row, revoked, killed, lock, workers, faults, cancels>>

\* send_task raised: the stage has failed.
SendFails(a) ==
  /\ apc[a] = "send"
  /\ "broker" \in Faults /\ faults < MaxFaults
  /\ faults' = faults + 1
  /\ Goes(a, "unsent", atask[a], [amem[a] EXCEPT !.to = StageFailed(@)])
  /\ UNCHANGED <<row, broker, lock, workers, cancels>>

\* Last commit: the Celery id, or the failure.
RecordCommit(a) ==
  /\ apc[a] \in {"record", "unsent"}
  /\ row' = [row EXCEPT ![atask[a]] =
               IF apc[a] = "unsent" THEN Touch(Flush(@, amem[a])) ELSE Flush(@, amem[a])]
  /\ Ends(a)
  /\ UNCHANGED <<broker, lock, workers, faults, cancels>>

-----------------------------------------------------------------------------
(* recover_stale_reconstruction_tasks *)

\* Mutants: an interrupted dispatch is not selected, nor is a dead run.
Recoverable_Sent(r) ==
  /\ ~r.deleted
  /\ \/ r.status = "processing" /\ r.beat = "stale"
     \/ r.status = "queued" /\ r.cid = NoId

Recoverable_Queued(r) ==
  /\ ~r.deleted
  /\ r.status = "queued"
  /\ r.cid = NoId \/ (r.cid = Dispatching /\ r.beat = "stale")

Recoverable(r) ==
  /\ ~r.deleted
  /\ \/ r.status = "processing" /\ r.beat = "stale"
     \/ r.status = "queued" /\ r.cid = NoId
     \/ r.status = "queued" /\ r.cid = Dispatching /\ r.beat = "stale"

\* What recover_stale_tasks makes of such a row: queued again, or given up.
Recovered(r) ==
  LET tried == [Settled(r) EXCEPT !.cid = NoId, !.retry = @ + 1]
  IN  IF r.status = "queued"              THEN [r EXCEPT !.cid = NoId]
      ELSE IF tried.retry >= MaxRetries   THEN StageFailed(tried)
      ELSE [tried EXCEPT !.status = "queued"]

\* Selected FOR UPDATE, changed and committed.
RecoverCommit(a, t) ==
  /\ a \in Recoverer /\ apc[a] = "idle"
  /\ Recoverable(row[t])
  /\ row' = [row EXCEPT ![t] = Recovered(@)]
  /\ Goes(a, "release", t, Clean(Recovered(row[t])))
  /\ UNCHANGED <<broker, lock, workers, faults, cancels>>

\* The old run's process is killed and its lease dropped, then the run forgotten.
ReleaseCommit(a) ==
  /\ apc[a] = "release"
  /\ LET t     == atask[a]
         clear == [amem[a].to EXCEPT !.run = None]
     IN  /\ row' = [row EXCEPT ![t] = Flush(@, [amem[a] EXCEPT !.to = clear])]
         /\ IF clear.status \in {"failed", "partial"}
              THEN Ends(a)
              ELSE Goes(a, "enqueue", t, [from |-> clear, to |-> Queued(clear)])
  /\ UNCHANGED <<broker, lock, workers, faults, cancels>>

-----------------------------------------------------------------------------
(* Workers: the Celery task reconstruction.run *)

\* Worker w goes on to step pc of its message, with m in memory.
Works(w, pc, m) ==
  /\ wpc'  = [wpc EXCEPT ![w] = pc]
  /\ wmem' = [wmem EXCEPT ![w] = m]
  /\ UNCHANGED <<wtask, wmsg>>

\* The Celery task returned (late ack) or raised (rejected, not requeued): its
\* message is gone.
Acks(w) ==
  /\ wpc'   = [wpc EXCEPT ![w] = "idle"]
  /\ wmem'  = [wmem EXCEPT ![w] = None]
  /\ wtask' = [wtask EXCEPT ![w] = None]
  /\ wmsg'  = [wmsg EXCEPT ![w] = NoId]

\* Worker w commits what it has in memory, with a new heartbeat.
Commits(w) == row' = [row EXCEPT ![wtask[w]] = Touch(Flush(@, wmem[w]))]

Task0(w) == row[wtask[w]]

\* Worker w takes message i; prepare_gpu_dispatch loads the task, which still waits.
Takes(w, t, i, pc, m) ==
  /\ wpc[w] = "idle"
  /\ i \in queue[t]
  /\ row[t].status \in {"pending", "queued"}
  /\ queue' = [queue EXCEPT ![t] = @ \ {i}]
  /\ wpc'   = [wpc EXCEPT ![w] = pc]
  /\ wtask' = [wtask EXCEPT ![w] = t]
  /\ wmsg'  = [wmsg EXCEPT ![w] = i]
  /\ wmem'  = [wmem EXCEPT ![w] = m]
  /\ UNCHANGED <<row, sent, revoked, killed, lock, actors, faults, cancels>>

Receive(w, t, i) == Takes(w, t, i, "acquire", None)

\* The day's GPU quota of the user is used up.
Refuse(w, t, i) == Takes(w, t, i, "refuse", Load(t, StageFailed(row[t])))

\* The task waits no longer: its message is acknowledged, nothing else.
Ignore(w, t, i) ==
  /\ wpc[w] = "idle"
  /\ i \in queue[t]
  /\ row[t].status \notin {"pending", "queued"}
  /\ queue' = [queue EXCEPT ![t] = @ \ {i}]
  /\ UNCHANGED <<row, sent, revoked, killed, lock, actors, workers, faults, cancels>>

\* A worker that heard the revoke drops the message instead.
DropRevoked(t, i) ==
  /\ i \in queue[t] \cap revoked[t]
  /\ queue' = [queue EXCEPT ![t] = @ \ {i}]
  /\ UNCHANGED <<row, sent, revoked, killed, lock, actors, workers, faults, cancels>>

\* GPUScheduler.acquire returned a lease.
GetLease(w) ==
  /\ wpc[w] = "acquire"
  /\ Works(w, "leased", None)
  /\ UNCHANGED <<row, broker, lock, actors, faults, cancels>>

\* It returned none, or could not inspect the GPUs: mark_waiting_for_gpu and
\* mark_gpu_inspection_failed load the task, and leave it if it waits no longer.
NoLease(w, inspected) ==
  /\ wpc[w] = "acquire"
  /\ IF Task0(w).status \notin {"pending", "queued"} THEN Acks(w)
     ELSE IF inspected
       THEN Works(w, "wait",
                  Load(wtask[w], [Task0(w) EXCEPT !.status = "queued", !.run = None]))
       ELSE Works(w, "refuse", Load(wtask[w], StageFailed(Task0(w))))
  /\ UNCHANGED <<row, broker, lock, actors, faults, cancels>>

\* Mutant: the message is sent again after the request was cleared.
WaitCommit_AfterAck(w) ==
  /\ wpc[w] = "wait"
  /\ Commits(w)
  /\ Acks(w)
  /\ queue' = [queue EXCEPT ![wtask[w]] = @ \cup {wmsg'[w]}]
  /\ UNCHANGED <<sent, revoked, killed, lock, actors, faults, cancels>>

\* The task waits, and self.retry sends the message again under the same id.
WaitCommit(w) ==
  /\ wpc[w] = "wait"
  /\ Commits(w)
  /\ queue' = [queue EXCEPT ![wtask[w]] = @ \cup {wmsg[w]}]
  /\ Acks(w)
  /\ UNCHANGED <<sent, revoked, killed, lock, actors, faults, cancels>>

\* run_reconstruction_algorithm loads the task: it confirms a cancellation, leaves
\* a task that is finished or has a run with a fresh heartbeat, or begins.
RunLoad(w) ==
  /\ wpc[w] = "leased"
  /\ LET r == Task0(w)
     IN  IF r.cancel \/ r.status = "cancelled"
           THEN Works(w, "early", Load(wtask[w], Cancelled(r)))
         ELSE IF \/ r.status \in {"completed", "failed"}
                 \/ r.status = "processing" /\ r.beat = "fresh"
           THEN Acks(w)
         ELSE Works(w, "begin",
                    Load(wtask[w], [r EXCEPT !.status = "processing", !.run = w]))
  /\ UNCHANGED <<row, broker, lock, actors, faults, cancels>>

\* The run is in the table; billing starts at a new time.
BeginCommit(w) ==
  /\ wpc[w] = "begin"
  /\ row' = [row EXCEPT ![wtask[w]] = [Touch(Flush(@, wmem[w])) EXCEPT !.bill = TRUE]]
  /\ Works(w, "exec", None)
  /\ UNCHANGED <<broker, lock, actors, faults, cancels>>

\* One turn of the poll loop while, or right after, the algorithm runs: heed the
\* cancel flag, or beat.
Poll(w, exits) ==
  /\ wpc[w] = "exec"
  /\ IF Task0(w).cancel
       THEN /\ Works(w, "stop", Load(wtask[w], Settled(Cancelled(Task0(w)))))
            /\ UNCHANGED row
       ELSE /\ row' = [row EXCEPT ![wtask[w]] = Touch(@)]
            /\ IF exits THEN Works(w, "exited", None) ELSE UNCHANGED workers
  /\ UNCHANGED <<broker, lock, actors, faults, cancels>>

\* The algorithm exited.  The task is loaded, the results are registered ...
FinalLoad(w, good) ==
  /\ wpc[w] = "exited"
  /\ LET done == IF good THEN [Task0(w) EXCEPT !.status = "completed"]
                         ELSE StageFailed(Task0(w))
     IN  Works(w, "final", Load(wtask[w], Settled(done)))
  /\ UNCHANGED <<row, broker, lock, actors, faults, cancels>>

\* _register_result: a finished Gaussian run's results are a PLY file.
WithResult(r, m) == [r EXCEPT !.ply = @ \/ (m.to.status = "completed" /\ ~m.to.mesh)]

\* ... and committed with the end of the run.
FinalCommit(w) ==
  /\ wpc[w] = "final"
  /\ row' = [row EXCEPT ![wtask[w]] = WithResult(Touch(Flush(@, wmem[w])), wmem[w])]
  /\ Works(w, "finally", None)
  /\ UNCHANGED <<broker, lock, actors, faults, cancels>>

\* The run raises: staging, a lost lease, a timeout, storage or the database.
Raise(w) ==
  /\ wpc[w] \in {"exec", "exited", "stop", "final"}
  /\ Works(w, "except", None)
  /\ UNCHANGED <<row, broker, lock, actors, faults, cancels>>

ExceptLoad(w) ==
  /\ wpc[w] = "except"
  /\ Works(w, "fail", Load(wtask[w], Settled(StageFailed(Task0(w)))))
  /\ UNCHANGED <<row, broker, lock, actors, faults, cancels>>

\* The commits that end a run, and those that end the message without one.
EndCommit(w) ==
  /\ wpc[w] \in {"stop", "fail"}
  /\ Commits(w)
  /\ Works(w, "finally", None)
  /\ UNCHANGED <<broker, lock, actors, faults, cancels>>

LeaveCommit(w) ==
  /\ wpc[w] \in {"refuse", "early"}
  /\ Commits(w)
  /\ Acks(w)
  /\ UNCHANGED <<broker, lock, actors, faults, cancels>>

\* finally: a session that does nothing else settles what is still open, unless the task
\* is processing.
Finally(w) ==
  /\ wpc[w] = "finally"
  /\ row' = IF Task0(w).status = "processing" THEN row
            ELSE [row EXCEPT ![wtask[w]] = Settled(@)]
  /\ Acks(w)
  /\ UNCHANGED <<broker, lock, actors, faults, cancels>>

-----------------------------------------------------------------------------
(* Time and faults *)

AtRun == {"exec", "exited", "stop", "final", "except", "fail"}

AtWork(t) ==
  \/ \E w \in Worker : wtask[w] = t /\ wpc[w] \in AtRun
  \/ \E a \in Actor  : atask[a] = t /\ apc[a] \in {"release", "send", "record", "unsent"}

\* reconstruction_stale_processing_seconds pass without a heartbeat.
HeartbeatAges(t) ==
  /\ row[t].status \in {"queued", "processing"}
  /\ row[t].beat = "fresh"
  /\ Prompt => ~AtWork(t)
  /\ row' = [row EXCEPT ![t].beat = "stale"]
  /\ UNCHANGED <<broker, lock, actors, workers, faults, cancels>>

Fault(kind) ==
  /\ kind \in Faults
  /\ faults < MaxFaults
  /\ faults' = faults + 1
  /\ UNCHANGED <<sent, revoked, killed, cancels>>

\* A worker process dies: its message was not acknowledged and is delivered again.
WorkerDies(w) ==
  /\ wpc[w] # "idle"
  /\ Fault("worker")
  /\ queue' = [queue EXCEPT ![wtask[w]] = @ \cup {wmsg[w]}]
  /\ Acks(w)
  /\ UNCHANGED <<row, lock, actors>>

\* The broker's visibility timeout ends while the worker is still at it.
Redeliver(w) ==
  /\ wpc[w] # "idle"
  /\ Fault("redelivery")
  /\ queue' = [queue EXCEPT ![wtask[w]] = @ \cup {wmsg[w]}]
  /\ UNCHANGED <<row, lock, actors, workers>>

\* An exception outside the run's own try ends the Celery task: the database or
\* Redis was out of reach for a moment.
Uncaught(w) ==
  /\ wpc[w] \in {"acquire", "refuse", "wait", "leased", "begin", "early",
                 "fail", "finally"}
  /\ Fault("exception")
  /\ Acks(w)
  /\ UNCHANGED <<row, queue, lock, actors>>

\* A revoke with terminate=True kills the worker that has the message.
KillRevoked(w) ==
  /\ wpc[w] # "idle"
  /\ wmsg[w] \in killed[wtask[w]]
  /\ Acks(w)
  /\ UNCHANGED <<row, broker, lock, actors, faults, cancels>>

\* An API server or maintenance worker dies; the database frees its locks.
ActorDies(a) ==
  /\ apc[a] # "idle"
  /\ Fault(CASE a \in Recoverer                -> "recoverer"
             [] apc[a] \in {"revoke", "cancel"}  -> "canceller"
             [] OTHER                            -> "starter")
  /\ lock' = IF lock = a THEN None ELSE lock
  /\ Ends(a)
  /\ UNCHANGED <<row, queue, workers>>

-----------------------------------------------------------------------------

Request(c) ==
  \/ \E t \in Task : StartLoad(c, t) \/ StartMeshLoad(c, t) \/ CancelLoad(c, t) \/ DeleteLoad(c, t)
  \/ StartQuota(c) \/ Revoke(c) \/ CancelCommit(c)

Enqueue(a) == EnqueueCommit(a) \/ Send(a) \/ SendFails(a) \/ RecordCommit(a)

Recover(a) == (\E t \in Task : RecoverCommit(a, t)) \/ ReleaseCommit(a)

Work(w) ==
  \/ \E t \in Task, i \in Id : Receive(w, t, i) \/ Refuse(w, t, i) \/ Ignore(w, t, i)
  \/ GetLease(w)
  \/ \E inspected \in BOOLEAN : NoLease(w, inspected)
  \/ WaitCommit(w) \/ RunLoad(w) \/ BeginCommit(w)
  \/ \E exits \in BOOLEAN : Poll(w, exits)
  \/ \E good \in BOOLEAN : FinalLoad(w, good)
  \/ FinalCommit(w) \/ Raise(w) \/ ExceptLoad(w)
  \/ EndCommit(w) \/ LeaveCommit(w) \/ Finally(w)

Next ==
  \/ \E t \in Task : Create(t) \/ DeletePly(t) \/ HeartbeatAges(t)
  \/ \E t \in Task, i \in Id : DropRevoked(t, i)
  \/ \E c \in Client : Request(c)
  \/ \E a \in Actor : Enqueue(a) \/ ActorDies(a)
  \/ \E a \in Recoverer : Recover(a)
  \/ \E w \in Worker :
       Work(w) \/ WorkerDies(w) \/ Redeliver(w) \/ Uncaught(w) \/ KillRevoked(w)

Spec == Init /\ [][Next]_vars

\* Processes keep going; a message in the queue is delivered; a task that asks for
\* a GPU again and again gets one; a process that does not run any more stops
\* beating; an algorithm ends, within timeout_seconds; Beat runs the recovery.
Fairness ==
  /\ \A a \in Actor : WF_vars(Enqueue(a))
  /\ \A c \in Client : WF_vars(StartQuota(c) \/ Revoke(c) \/ CancelCommit(c))
  /\ \A a \in Recoverer : WF_vars(Recover(a))
  /\ \A w \in Worker : /\ WF_vars(Work(w))
                       /\ SF_vars(GetLease(w))
                       /\ SF_vars(Poll(w, TRUE))
  /\ \A t \in Task : WF_vars(HeartbeatAges(t))

FairSpec == Spec /\ Fairness

-----------------------------------------------------------------------------
(* Properties *)

Memory == [from: Row, to: Row] \cup {None}

\* Types.
TypeOK ==
  /\ row \in [Task -> Row]
  /\ sent \in [Task -> 0..MaxMessages]
  /\ {queue, revoked, killed} \subseteq [Task -> SUBSET Id]
  /\ lock \in Client \cup {None}
  /\ apc \in [Actor -> {"idle", "quota", "enqueue", "send", "record", "unsent",
                        "revoke", "cancel", "release"}]
  /\ atask \in [Actor -> Task \cup {None}]
  /\ \A a \in Actor : amem[a] \in Memory
  /\ wpc \in [Worker -> {"idle", "acquire", "refuse", "wait", "leased", "early", "begin",
                         "finally"} \cup AtRun]
  /\ wtask \in [Worker -> Task \cup {None}]
  /\ wmsg \in [Worker -> Id \cup {NoId}]
  /\ \A w \in Worker : wmem[w] \in Memory
  /\ faults \in 0..MaxFaults /\ cancels \in 0..MaxCancels

\* Somebody will move a queued task: its message waits, a worker has it and will
\* commit another status, a request or recovery is about to send or cancel it, or recover_stale_tasks
\* will select it, at once or when its heartbeat is stale.
InHand(t) ==
  \/ queue[t] # {}
  \/ \E w \in Worker : wtask[w] = t /\ wpc[w] # "finally"
  \/ \E a \in Actor : atask[a] = t /\ apc[a] \in {"enqueue", "send", "release", "unsent", "cancel"}

QueuedIsDriven ==
  \A t \in Task :
    row[t].status = "queued" /\ ~row[t].deleted =>
      InHand(t) \/ Recoverable([row[t] EXCEPT !.beat = "stale"])

\* A task with a PLY result never shows as failed: a failed rerun leaves it
\* partial_completed, which keeps the result usable.
PlyNeverFailed == \A t \in Task : row[t].ply => row[t].status # "failed"

\* The user's active tasks stay within the quota.
QuotaHolds == Cardinality({t \in Task : row[t].status \in Active /\ ~row[t].deleted}) <= TaskQuota

\* A cancelled task stays cancelled.
CancelFinal ==
  [][\A t \in Task : row[t].status = "cancelled" => row'[t].status = "cancelled"]_vars

\* A task that waits or runs comes to an end, unless it is deleted.
ActiveEnds ==
  \A t \in Task : (row[t].status \in {"queued", "processing"}) ~>
                  (row[t].status \notin Active \/ row[t].deleted)
=============================================================================
