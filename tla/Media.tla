--------------------------------- MODULE Media ---------------------------------
(***************************************************************************)
(* Thumbnails of one image or video: app/services/media_service.py, the    *)
(* Celery task in app/tasks/media_tasks.py, and the endpoints that enqueue *)
(* or delete the file.                                                     *)
(*                                                                         *)
(* Workers select the record FOR UPDATE, so each of their transactions is  *)
(* one step.  Enqueuing does not: it loads the record, commits what it     *)
(* changed, sends a message, and commits again (compare ReconTask's Flush).*)
(* A message has the id of its Celery task and counts its retries, which   *)
(* keep the id.  What becomes of the thumbnail's blob is FileStore's.      *)
(***************************************************************************)
EXTENDS Integers, FiniteSets

CONSTANTS
  Client,      \* concurrent API requests
  Recoverer,   \* runs of recover_stale
  Id,          \* Celery ids; one that nobody knows any more is used again
  Worker,      \* media workers
  MaxRetries,  \* media_task_max_retries
  Prompt,      \* TRUE: whoever is at work on the record acts before its heartbeat expires
  Faults,      \* what may go wrong: a subset of FaultKinds
  MaxFaults,   \* bound: how often, in one behaviour
  MaxAsks,     \* bound: requests of users
  None

FaultKinds == {"worker", "redelivery", "exception", "first exception", "heartbeat",
               "enqueuer", "late enqueuer", "broker"}

ASSUME MediaAssumption ==
  /\ {MaxRetries, MaxFaults, MaxAsks} \subseteq Nat
  /\ Faults \subseteq FaultKinds /\ Prompt \in BOOLEAN
  /\ Client \cap Recoverer = {} /\ None \notin Client \cup Recoverer \cup Worker

VARIABLES
  rec,           \* the record's columns
  queue,         \* messages "media.process" in the queue
  apc, amem,     \* requests and recoverers: next step, changes in memory
  wpc, wmsg,     \* workers: next step, message
  beating,       \* workers whose heartbeat task runs
  faults, asks

actors  == <<apc, amem>>
workers == <<wpc, wmsg, beating>>
vars    == <<rec, queue, actors, workers, faults, asks>>

Actor == Client \cup Recoverer

NoId        == "no id"         \* media_processing_task_id = ""
Dispatching == "dispatching"   \* media_processing_task_id = "dispatching"

Message == [id: Id, tries: 0..MaxRetries]

Record == [status: {"none", "pending", "processing", "completed", "failed"},
           tid: Id \cup {NoId, Dispatching},
           beat: {"fresh", "stale"},  \* media_processing_heartbeat_at against the limit
           thumb: BOOLEAN,            \* a thumbnail that is not deleted
           deleted: BOOLEAN]

Absent == [status |-> "none", tid |-> NoId, beat |-> "fresh", thumb |-> FALSE, deleted |-> FALSE]

\* A file that was there before media processing was introduced is pending.
Migrated == [Absent EXCEPT !.status = "pending"]

\* The columns that `to` changes, and what a commit of them makes of the row.
Changes(from, to) == [c \in {d \in DOMAIN to : to[d] # from[d]} |-> to[c]]

Flush(now, changes) == [c \in DOMAIN now |-> IF c \in DOMAIN changes THEN changes[c] ELSE now[c]]

NoChange == Changes(Absent, Absent)

Init ==
  /\ rec \in {Absent, Migrated}
  /\ queue = {}
  /\ apc = [a \in Actor |-> "idle"] /\ amem = [a \in Actor |-> NoChange]
  /\ wpc = [w \in Worker |-> "idle"] /\ wmsg = [w \in Worker |-> None]
  /\ beating = {}
  /\ faults = 0 /\ asks = 0

-----------------------------------------------------------------------------
(* Helpers *)

Touch(r) == [r EXCEPT !.beat = "fresh"]

\* What enqueue commits first.
Dispatched(r) == [r EXCEPT !.status = "pending", !.tid = Dispatching]

Goes(a, pc, m) ==
  /\ apc'  = [apc EXCEPT ![a] = pc]
  /\ amem' = [amem EXCEPT ![a] = m]

Ends(a) == Goes(a, "idle", NoChange)

\* Mutant: an interrupted dispatch is not selected.
Recoverable_Processing(r) ==
  /\ ~r.deleted
  /\ \/ r.status = "pending" /\ r.tid = NoId
     \/ r.status = "processing" /\ r.beat = "stale"

\* Mutant: a run that stopped beating is not selected.
Recoverable_Pending(r) ==
  /\ ~r.deleted /\ r.status = "pending"
  /\ r.tid = NoId \/ (r.tid = Dispatching /\ r.beat = "stale")

\* recover_stale's selection
Recoverable(r) ==
  /\ ~r.deleted
  /\ \/ r.status = "pending" /\ r.tid = Dispatching /\ r.beat = "stale"
     \/ r.status = "pending" /\ r.tid = NoId
     \/ r.status = "processing" /\ r.beat = "stale"

-----------------------------------------------------------------------------
(* Requests and the recovery *)

Ask ==
  /\ asks < MaxAsks
  /\ asks' = asks + 1

\* merge_upload creates the record; enqueue's first commit publishes it.
Upload(c) ==
  /\ apc[c] = "idle"
  /\ rec.status = "none"
  /\ rec' = Dispatched(rec)
  /\ Goes(c, "send", NoChange)
  /\ UNCHANGED <<queue, workers, faults, asks>>

\* A request or recovery has loaded the record and will enqueue it.
Loads(a) ==
  /\ apc[a] = "idle"
  /\ Goes(a, "enqueue", Changes(rec, Dispatched(rec)))
  /\ UNCHANGED <<rec, queue, workers, faults>>

\* ensure_enqueued, when a pending file is uploaded again or becomes an avatar
EnsureLoad(c) ==
  /\ Ask
  /\ rec.status = "pending" /\ rec.tid = NoId /\ ~rec.deleted
  /\ Loads(c)

\* The user asks for another thumbnail, in whatever state the file is.
RetryLoad(c) ==
  /\ Ask
  /\ rec.status # "none" /\ ~rec.deleted
  /\ Loads(c)

RecoverLoad(a) ==
  /\ Recoverable(rec)
  /\ Loads(a)
  /\ UNCHANGED asks

EnqueueCommit(a) ==
  /\ apc[a] = "enqueue"
  /\ rec' = Touch(Flush(rec, amem[a]))
  /\ Goes(a, "send", NoChange)
  /\ UNCHANGED <<queue, workers, faults, asks>>

\* Ids that somebody still knows.
Known ==
  {rec.tid} \cup {m.id : m \in queue} \cup {wmsg[w].id : w \in {v \in Worker : wpc[v] # "idle"}}
            \cup {amem[a].tid : a \in {b \in Actor : "tid" \in DOMAIN amem[b]}}

\* Ids differ in nothing else, so which one a message gets is immaterial.
NewId == CHOOSE i \in Id \ Known : TRUE

\* send_task puts a message with a new id into the queue.
Send(a) ==
  /\ apc[a] = "send"
  /\ Id \ Known # {}
  /\ queue' = queue \cup {[id |-> NewId, tries |-> 0]}
  /\ Goes(a, "record", [tid |-> NewId])
  /\ UNCHANGED <<rec, workers, faults, asks>>

Fault(kind) ==
  /\ kind \in Faults
  /\ faults < MaxFaults
  /\ faults' = faults + 1

\* send_task raised.
SendFails(a) ==
  /\ apc[a] = "send"
  /\ Fault("broker")
  /\ Goes(a, "record", [status |-> "failed", tid |-> NoId])
  /\ UNCHANGED <<rec, queue, workers, asks>>

\* The id of the message, or the failure.
RecordCommit(a) ==
  /\ apc[a] = "record"
  /\ rec' = Flush(rec, amem[a])
  /\ Ends(a)
  /\ UNCHANGED <<queue, workers, faults, asks>>

\* delete_file loads the record with its thumbnail, and deletes both.
DeleteLoad(c) ==
  /\ Ask
  /\ apc[c] = "idle"
  /\ rec.status # "none" /\ ~rec.deleted
  /\ Goes(c, "delete", Changes(rec, [rec EXCEPT !.thumb = FALSE, !.deleted = TRUE]))
  /\ UNCHANGED <<rec, queue, workers, faults>>

DeleteCommit(c) ==
  /\ apc[c] = "delete"
  /\ rec' = Flush(rec, amem[c])
  /\ Ends(c)
  /\ UNCHANGED <<queue, workers, faults, asks>>

-----------------------------------------------------------------------------
(* Workers: the Celery task media.process *)

Acks(w) ==
  /\ wpc'  = [wpc EXCEPT ![w] = "idle"]
  /\ wmsg' = [wmsg EXCEPT ![w] = None]
  /\ beating' = beating \ {w}

Receive(w, m) ==
  /\ wpc[w] = "idle"
  /\ queue' = queue \ {m}
  /\ wpc'   = [wpc EXCEPT ![w] = "start"]
  /\ wmsg'  = [wmsg EXCEPT ![w] = m]
  /\ UNCHANGED <<rec, actors, beating, faults, asks>>

\* Nothing to do: deleted, done, or another message's run has a fresh heartbeat.
Leaves(r, id) ==
  \/ r.deleted
  \/ r.status = "completed" /\ r.thumb
  \/ r.status = "processing" /\ r.tid \notin {NoId, id} /\ r.beat = "fresh"

\* process: the first transaction
Start(w) ==
  /\ wpc[w] = "start"
  /\ IF Leaves(rec, wmsg[w].id)
       THEN Acks(w) /\ UNCHANGED rec
       ELSE /\ rec' = Touch([rec EXCEPT !.status = "processing", !.tid = wmsg[w].id])
            /\ wpc' = [wpc EXCEPT ![w] = "work"]
            /\ beating' = beating \cup {w}
            /\ UNCHANGED wmsg
  /\ UNCHANGED <<queue, actors, faults, asks>>

\* Worker w's heartbeat finds its run in the record.
Beats(w) == w \in beating /\ rec.status = "processing" /\ rec.tid = wmsg[w].id

Heartbeat(w) ==
  /\ Beats(w)
  /\ rec' = Touch(rec)
  /\ UNCHANGED <<queue, actors, workers, faults, asks>>

\* The thumbnail is made, stored and linked; a deleted file's is dropped.  (A worker
\* lost between this commit and the ack is Redeliver, then Finish.)
Finish(w) ==
  /\ wpc[w] = "work"
  /\ rec' = IF rec.deleted THEN rec
            ELSE Touch([rec EXCEPT !.status = "completed", !.thumb = TRUE])
  /\ Acks(w)
  /\ UNCHANGED <<queue, actors, faults, asks>>

\* Mutant: the heartbeat is not cancelled.
Fail_Beats(w) ==
  /\ wpc[w] \in {"start", "work"}
  /\ rec' = IF rec.deleted THEN rec ELSE Touch([rec EXCEPT !.status = "failed"])
  /\ wpc' = [wpc EXCEPT ![w] = "failed"]
  /\ UNCHANGED <<queue, actors, wmsg, beating, faults, asks>>

\* Any exception, the quota's and the database's included: _mark_failed.
Fail(w) ==
  /\ wpc[w] \in {"start", "work"}
  /\ rec' = IF rec.deleted THEN rec ELSE Touch([rec EXCEPT !.status = "failed"])
  /\ wpc' = [wpc EXCEPT ![w] = "failed"]
  /\ beating' = beating \ {w}
  /\ UNCHANGED <<queue, actors, wmsg, faults, asks>>

\* self.retry, or the end of the last try
Retry(w) ==
  /\ wpc[w] = "failed"
  /\ queue' = IF wmsg[w].tries < MaxRetries
                THEN queue \cup {[wmsg[w] EXCEPT !.tries = @ + 1]} ELSE queue
  /\ Acks(w)
  /\ UNCHANGED <<rec, actors, faults, asks>>

-----------------------------------------------------------------------------
(* Time and faults *)

\* media_stale_processing_seconds pass without a heartbeat.
HeartbeatAges ==
  /\ rec.status \in {"pending", "processing"} /\ rec.beat = "fresh"
  /\ Prompt => /\ ~\E w \in Worker : Beats(w)
               /\ ~\E a \in Actor : apc[a] \in {"send", "record"}
  /\ rec' = [rec EXCEPT !.beat = "stale"]
  /\ UNCHANGED <<queue, actors, workers, faults, asks>>

\* The worker process is lost: its message is delivered again.
WorkerDies(w) ==
  /\ wpc[w] # "idle"
  /\ Fault("worker")
  /\ queue' = queue \cup {wmsg[w]}
  /\ Acks(w)
  /\ UNCHANGED <<rec, actors, asks>>

\* The broker's visibility timeout ends while the worker is at it.
Redeliver(w) ==
  /\ wpc[w] # "idle"
  /\ Fault("redelivery")
  /\ queue' = queue \cup {wmsg[w]}
  /\ UNCHANGED <<rec, actors, workers, asks>>

\* The database, or the broker in Retry, is out of reach for longer: the Celery task
\* fails and its message is rejected, not requeued.
Uncaught(w) ==
  /\ wpc[w] # "idle"
  /\ Fault(IF wpc[w] = "start" THEN "first exception" ELSE "exception")
  /\ Acks(w)
  /\ UNCHANGED <<rec, queue, actors, asks>>

\* An exception in _heartbeat ends its asyncio task, and nobody looks.
HeartbeatDies(w) ==
  /\ w \in beating
  /\ Fault("heartbeat")
  /\ beating' = beating \ {w}
  /\ UNCHANGED <<rec, queue, actors, wpc, wmsg, asks>>

\* A process is gone, before or after a user has asked for another thumbnail.
ActorDies(a) ==
  /\ apc[a] # "idle"
  /\ Fault(IF asks = 0 THEN "enqueuer" ELSE "late enqueuer")
  /\ Ends(a)
  /\ UNCHANGED <<rec, queue, workers, asks>>

-----------------------------------------------------------------------------

Enqueue(a) == EnqueueCommit(a) \/ Send(a) \/ RecordCommit(a)

Work(w) == (\E m \in queue : Receive(w, m)) \/ Start(w) \/ Finish(w) \/ Fail(w) \/ Retry(w)

Next ==
  \/ \E c \in Client : Upload(c) \/ EnsureLoad(c) \/ RetryLoad(c) \/ DeleteLoad(c) \/ DeleteCommit(c)
  \/ \E a \in Recoverer : RecoverLoad(a)
  \/ \E a \in Actor : Enqueue(a) \/ SendFails(a) \/ ActorDies(a)
  \/ \E w \in Worker : Work(w) \/ Heartbeat(w)
  \/ \E w \in Worker : WorkerDies(w) \/ Redeliver(w) \/ Uncaught(w) \/ HeartbeatDies(w)
  \/ HeartbeatAges

Spec == Init /\ [][Next]_vars

\* Processes keep going and messages are delivered; a record nobody beats for gets
\* stale; Beat runs the recovery.
Fairness ==
  /\ \A a \in Actor : WF_vars(Enqueue(a))
  /\ \A c \in Client : WF_vars(DeleteCommit(c))
  /\ \A a \in Recoverer : WF_vars(RecoverLoad(a))
  /\ \A w \in Worker : WF_vars(Work(w))
  /\ WF_vars(HeartbeatAges)

FairSpec == Spec /\ Fairness

-----------------------------------------------------------------------------
(* Properties *)

\* Types; and only a worker that makes a thumbnail has a heartbeat.
TypeOK ==
  /\ rec \in Record /\ queue \subseteq Message
  /\ apc \in [Actor -> {"idle", "enqueue", "send", "record", "delete"}]
  /\ \A a \in Actor : DOMAIN amem[a] \subseteq DOMAIN rec /\ Flush(rec, amem[a]) \in Record
  /\ wpc \in [Worker -> {"idle", "start", "work", "failed"}]
  /\ \A w \in Worker : wmsg[w] \in Message \cup {None}
  /\ beating \subseteq {w \in Worker : wpc[w] = "work"}
  /\ faults \in 0..MaxFaults /\ asks \in 0..MaxAsks

\* Somebody will take a pending file further: its message, a worker, a request or
\* recovery at work on it, or recover_stale, at once or when its heartbeat is stale.
PendingIsDriven ==
  rec.status = "pending" /\ ~rec.deleted =>
    \/ queue # {}
    \/ \E w \in Worker : wpc[w] # "idle"
    \/ \E a \in Actor : apc[a] # "idle"
    \/ Recoverable([rec EXCEPT !.beat = "stale"])

\* A file that waits or is processed gets its thumbnail, fails, or is deleted.
MediaSettles ==
  (rec.status \in {"pending", "processing"}) ~>
  (rec.status \notin {"pending", "processing"} \/ rec.deleted)
=============================================================================
