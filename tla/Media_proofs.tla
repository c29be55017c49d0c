----------------------------- MODULE Media_proofs -----------------------------
(***************************************************************************)
(* Proofs about Media, for every number of requests, recoveries, workers,  *)
(* messages, retries and faults.                                           *)
(***************************************************************************)
EXTENDS Media, TLAPS

-----------------------------------------------------------------------------
(* Types *)

\* The record's columns.
Columns == {"status", "tid", "beat", "thumb", "deleted"}

\* Changes in memory that the record can take.
Typed(ch) ==
  /\ DOMAIN ch \subseteq Columns
  /\ "status" \in DOMAIN ch =>
       ch["status"] \in {"none", "pending", "processing", "completed", "failed"}
  /\ "tid" \in DOMAIN ch => ch["tid"] \in Id \cup {NoId, Dispatching}
  /\ "beat" \in DOMAIN ch => ch["beat"] \in {"fresh", "stale"}
  /\ "thumb" \in DOMAIN ch => ch["thumb"] \in BOOLEAN
  /\ "deleted" \in DOMAIN ch => ch["deleted"] \in BOOLEAN

\* What a request at step pc writes: no deletion is taken back, and a status
\* is written by the first commit of enqueue or when the broker refused.
Writes(pc, ch) ==
  /\ "deleted" \in DOMAIN ch => ch["deleted"] = TRUE
  /\ pc = "enqueue" /\ "status" \in DOMAIN ch => ch["status"] = "pending"
  /\ pc = "record" /\ "status" \in DOMAIN ch => ch["status"] = "failed"
  /\ pc = "delete" => ~("status" \in DOMAIN ch \/ "tid" \in DOMAIN ch)

\* The requests, and what they have in memory.
Requests ==
  /\ apc \in [Actor -> {"idle", "enqueue", "send", "record", "delete"}]
  /\ DOMAIN amem = Actor
  /\ \A a \in Actor : Typed(amem[a]) /\ Writes(apc[a], amem[a])

\* The workers, and what they hold.
Workers ==
  /\ wpc \in [Worker -> {"idle", "start", "work", "failed"}]
  /\ wmsg \in [Worker -> Message \cup {None}]
  /\ \A w \in Worker : wpc[w] # "idle" => wmsg[w] \in Message
  /\ beating \subseteq {w \in Worker : wpc[w] = "work"}

\* Every variable.
Types ==
  /\ rec \in Record /\ queue \subseteq Message
  /\ Requests /\ Workers
  /\ faults \in 0..MaxFaults /\ asks \in 0..MaxAsks

-----------------------------------------------------------------------------
(* Columns *)

\* What a commit makes of the record.
LEMMA FlushTyped ==
  ASSUME NEW r \in Record, NEW ch, Typed(ch)
  PROVE  /\ Flush(r, ch) \in Record
         /\ Flush(r, ch).status = IF "status" \in DOMAIN ch THEN ch["status"] ELSE r.status
         /\ Flush(r, ch).tid = IF "tid" \in DOMAIN ch THEN ch["tid"] ELSE r.tid
         /\ Flush(r, ch).deleted = IF "deleted" \in DOMAIN ch THEN ch["deleted"] ELSE r.deleted
<1>1. DOMAIN r = Columns
  BY DEF Record, Columns
<1>2. Flush(r, ch) =
        [status  |-> IF "status" \in DOMAIN ch THEN ch["status"] ELSE r.status,
         tid     |-> IF "tid" \in DOMAIN ch THEN ch["tid"] ELSE r.tid,
         beat    |-> IF "beat" \in DOMAIN ch THEN ch["beat"] ELSE r.beat,
         thumb   |-> IF "thumb" \in DOMAIN ch THEN ch["thumb"] ELSE r.thumb,
         deleted |-> IF "deleted" \in DOMAIN ch THEN ch["deleted"] ELSE r.deleted]
  BY <1>1 DEF Flush, Columns
<1>3. QED BY <1>2 DEF Typed, Record

\* Two values of the same record: the columns that differ.
LEMMA ChangesTyped ==
  ASSUME NEW r \in Record, NEW to \in Record
  PROVE  /\ Typed(Changes(r, to))
         /\ DOMAIN Changes(r, to) = {c \in Columns : to[c] # r[c]}
         /\ \A c \in DOMAIN Changes(r, to) : Changes(r, to)[c] = to[c]
<1>1. DOMAIN to = Columns
  BY DEF Record, Columns
<1>2. Changes(r, to) = [c \in {d \in Columns : to[d] # r[d]} |-> to[c]]
  BY <1>1 DEF Changes
<1>3. QED BY <1>2 DEF Typed, Record, Columns

\* The two values that the code gives a new record.
LEMMA NewRecords == Absent \in Record /\ Migrated \in Record
BY DEF Absent, Migrated, Record

\* A request that has nothing to write.
LEMMA Nothing ==
  /\ Typed(NoChange)
  /\ DOMAIN NoChange = {}
  /\ \A pc : Writes(pc, NoChange)
<1>1. DOMAIN NoChange = {}
  BY NewRecords, ChangesTyped DEF NoChange
<1>2. Typed(NoChange)
  BY NewRecords, ChangesTyped DEF NoChange
<1>3. QED BY <1>1, <1>2 DEF Writes

\* What enqueue publishes first.
LEMMA DispatchedTyped ==
  ASSUME NEW r \in Record
  PROVE  /\ Dispatched(r) \in Record
         /\ Typed(Changes(r, Dispatched(r)))
         /\ Writes("enqueue", Changes(r, Dispatched(r)))
<1>1. Dispatched(r) \in Record /\ Dispatched(r).deleted = r.deleted
      /\ Dispatched(r).status = "pending"
  BY DEF Dispatched, Record
<1>2. QED BY <1>1, ChangesTyped DEF Writes

\* What a deletion writes.
LEMMA DeletedTyped ==
  ASSUME NEW r \in Record
  PROVE  LET to == [r EXCEPT !.thumb = FALSE, !.deleted = TRUE]
         IN  Typed(Changes(r, to)) /\ Writes("delete", Changes(r, to))
<1> DEFINE to == [r EXCEPT !.thumb = FALSE, !.deleted = TRUE]
<1>1. /\ to \in Record /\ to["deleted"] = TRUE /\ to["status"] = r["status"]
      /\ to["tid"] = r["tid"]
  BY DEF Record
<1> HIDE DEF to
<1>2. Typed(Changes(r, to)) /\ Writes("delete", Changes(r, to))
  BY <1>1, ChangesTyped DEF Writes
<1>3. QED BY <1>2 DEF to

\* A step of one request.
LEMMA GoesRequests ==
  ASSUME Requests, NEW a \in Actor, NEW pc \in {"idle", "enqueue", "send", "record", "delete"},
         NEW ch, Typed(ch), Writes(pc, ch), Goes(a, pc, ch)
  PROVE  /\ Requests'
         /\ \A b \in Actor : /\ apc'[b]  = IF b = a THEN pc ELSE apc[b]
                             /\ amem'[b] = IF b = a THEN ch ELSE amem[b]
<1>1. \A b \in Actor : /\ apc'[b]  = IF b = a THEN pc ELSE apc[b]
                       /\ amem'[b] = IF b = a THEN ch ELSE amem[b]
  BY DEF Goes, Requests
<1>2. DOMAIN amem' = Actor /\ apc' \in [Actor -> {"idle", "enqueue", "send", "record", "delete"}]
  BY DEF Goes, Requests
<1>3. \A b \in Actor : Typed(amem'[b]) /\ Writes(apc'[b], amem'[b])
  BY <1>1 DEF Requests
<1>4. QED BY <1>1, <1>2, <1>3 DEF Requests

-----------------------------------------------------------------------------
(* What drives a pending record *)

\* Somebody who will take it out of "pending".
Driven ==
  \/ queue # {}
  \/ \E w \in Worker : wpc[w] = "start"
  \/ \E a \in Actor : apc[a] = "send"
  \/ \E a \in Actor : apc[a] = "record" /\ "status" \in DOMAIN amem[a]

\* A pending file is driven, or nobody has enqueued it since the migration.
Waits ==
  rec.status = "pending" /\ ~rec.deleted =>
    \/ Driven
    \/ rec.tid = NoId /\ \A a \in Actor : apc[a] # "record"

\* No process stops between publishing a file and sending its message, and no message
\* is discarded before its worker has read the record.
Delivered == Faults \cap {"first exception", "enqueuer", "late enqueuer"} = {}

\* What every step preserves.
Inv == Types /\ (Delivered => Waits)

\* The types include those that the model is checked for.
LEMMA TypesOK == Types => TypeOK
<1> SUFFICES ASSUME Types PROVE TypeOK
  OBVIOUS
<1>1. DOMAIN rec = Columns
  BY DEF Types, Record, Columns
<1>2. \A a \in Actor : DOMAIN amem[a] \subseteq DOMAIN rec /\ Flush(rec, amem[a]) \in Record
  BY <1>1, FlushTyped DEF Types, Requests, Typed
<1>3. QED BY <1>2 DEF Types, TypeOK, Requests, Workers

\* A file nobody has enqueued is the recovery's.
LEMMA WaitsDriven == ASSUME Types, Waits PROVE PendingIsDriven
<1>1. Touch(rec).status = rec.status /\ Touch(rec).tid = rec.tid
  BY DEF Touch, Types, Record
<1>2. rec.tid = NoId /\ rec.status = "pending" /\ ~rec.deleted
        => Recoverable([rec EXCEPT !.beat = "stale"])
  BY DEF Recoverable, Types, Record
<1>3. QED BY <1>2 DEF PendingIsDriven, Waits, Driven

\* A new system.
LEMMA InitInv == Init => Inv
<1> SUFFICES ASSUME Init PROVE Inv
  OBVIOUS
<1>1. rec \in Record
  BY NewRecords DEF Init
<1>2. Requests
  BY Nothing DEF Init, Requests
<1>3. Workers
  BY DEF Init, Workers
<1>4. Types
  BY <1>1, <1>2, <1>3, MediaAssumption DEF Init, Types
<1>5. Waits
  BY DEF Init, Waits, Absent, Migrated
<1>6. QED BY <1>4, <1>5 DEF Inv

\* Faults are counted.
LEMMA FaultCounted ==
  ASSUME Types, NEW k, Fault(k) PROVE faults' \in 0..MaxFaults /\ k \in Faults
BY MediaAssumption DEF Types, Fault

\* And so are the requests of users.
LEMMA AskCounted == ASSUME Types, Ask PROVE asks' \in 0..MaxAsks
BY MediaAssumption DEF Types, Ask

-----------------------------------------------------------------------------
(* The requests' steps *)

\* A load changes nothing but the request's memory.
LEMMA LoadInv ==
  ASSUME Inv, NEW a \in Actor, Loads(a), asks' \in 0..MaxAsks
  PROVE  Inv'
<1> DEFINE ch == Changes(rec, Dispatched(rec))
<1>1. Typed(ch) /\ Writes("enqueue", ch)
  BY DispatchedTyped DEF Inv, Types
<1>2. Goes(a, "enqueue", ch) /\ apc[a] = "idle" /\ rec' = rec /\ queue' = queue
      /\ wpc' = wpc /\ wmsg' = wmsg /\ beating' = beating /\ faults' = faults
  BY DEF Loads, workers
<1> HIDE DEF ch
<1>3. Requests' /\ \A b \in Actor : /\ apc'[b]  = IF b = a THEN "enqueue" ELSE apc[b]
                                    /\ amem'[b] = IF b = a THEN ch ELSE amem[b]
  BY <1>1, <1>2, GoesRequests DEF Inv, Types
<1>4. Types'
  BY <1>2, <1>3 DEF Inv, Types, Workers
<1>5. Waits => Waits'
  BY <1>2, <1>3 DEF Waits, Driven
<1>6. QED BY <1>4, <1>5 DEF Inv, Delivered

\* A request's step that leaves the record "sent for": nothing was driven less.
LEMMA SendInv ==
  ASSUME Inv, NEW a \in Actor, Upload(a) \/ EnqueueCommit(a)
  PROVE  Inv'
<1>1. rec' \in Record
  <2>1. rec \in Record /\ Typed(amem[a])
    BY DEF Inv, Types, Requests
  <2>2. Flush(rec, amem[a]) \in Record /\ Dispatched(rec) \in Record
    BY <2>1, FlushTyped, DispatchedTyped
  <2>3. \A r \in Record : Touch(r) \in Record
    BY DEF Touch, Record
  <2>4. rec' = Touch(Flush(rec, amem[a])) \/ rec' = Dispatched(rec)
    BY DEF Upload, EnqueueCommit
  <2>5. QED BY <2>2, <2>3, <2>4
<1>2. Goes(a, "send", NoChange) /\ queue' = queue
      /\ wpc' = wpc /\ wmsg' = wmsg /\ beating' = beating /\ faults' = faults /\ asks' = asks
  BY DEF Upload, EnqueueCommit, workers
<1>3. Requests' /\ apc'[a] = "send"
  BY <1>2, GoesRequests, Nothing DEF Inv, Types
<1>4. Types'
  BY <1>1, <1>2, <1>3 DEF Inv, Types, Workers
<1>5. Waits'
  BY <1>3 DEF Waits, Driven
<1>6. QED BY <1>4, <1>5 DEF Inv

\* The message is in the queue.
LEMMA SentInv == ASSUME Inv, NEW a \in Actor, Send(a) PROVE Inv'
<1> DEFINE ch == [tid |-> NewId]
<1>1. NewId \in Id
  BY DEF Send, NewId
<1>2. Typed(ch) /\ Writes("record", ch)
  BY <1>1 DEF Typed, Writes, Columns
<1>3. Goes(a, "record", ch) /\ rec' = rec /\ queue' = queue \cup {[id |-> NewId, tries |-> 0]}
      /\ wpc' = wpc /\ wmsg' = wmsg /\ beating' = beating /\ faults' = faults /\ asks' = asks
  BY DEF Send, workers
<1> HIDE DEF ch
<1>4. Requests'
  BY <1>2, <1>3, GoesRequests DEF Inv, Types
<1>5. queue' \subseteq Message /\ queue' # {}
  <2>1. 0 \in 0..MaxRetries
    BY MediaAssumption
  <2>2. [id |-> NewId, tries |-> 0] \in Message
    BY <1>1, <2>1 DEF Message
  <2>3. QED BY <1>3, <2>2 DEF Inv, Types
<1>6. Types'
  BY <1>3, <1>4, <1>5 DEF Inv, Types, Workers
<1>7. Waits'
  BY <1>5 DEF Waits, Driven
<1>8. QED BY <1>6, <1>7 DEF Inv

\* The broker refused the message.
LEMMA RefusedInv == ASSUME Inv, NEW a \in Actor, SendFails(a) PROVE Inv'
<1> DEFINE ch == [status |-> "failed", tid |-> NoId]
<1>1. Typed(ch) /\ Writes("record", ch) /\ "status" \in DOMAIN ch
  BY DEF Typed, Writes, Columns
<1>2. Goes(a, "record", ch) /\ rec' = rec /\ queue' = queue
      /\ wpc' = wpc /\ wmsg' = wmsg /\ beating' = beating /\ asks' = asks
  BY DEF SendFails, workers
<1> HIDE DEF ch
<1>3. Requests' /\ apc'[a] = "record" /\ amem'[a] = ch
  BY <1>1, <1>2, GoesRequests DEF Inv, Types
<1>4. Types'
  BY <1>2, <1>3, FaultCounted DEF Inv, Types, Workers, SendFails
<1>5. Waits'
  BY <1>1, <1>3 DEF Waits, Driven
<1>6. QED BY <1>4, <1>5 DEF Inv

\* The id of the message is written, or the failure: a status that is still pending
\* has a message, or is driven by somebody else.
LEMMA RecordedInv == ASSUME Inv, NEW a \in Actor, RecordCommit(a) PROVE Inv'
<1> DEFINE ch == amem[a]
<1>1. Typed(ch) /\ Writes("record", ch) /\ rec \in Record
  BY DEF Inv, Types, Requests, RecordCommit
<1>2. Goes(a, "idle", NoChange) /\ rec' = Flush(rec, ch) /\ queue' = queue /\ apc[a] = "record"
      /\ wpc' = wpc /\ wmsg' = wmsg /\ beating' = beating /\ faults' = faults /\ asks' = asks
  BY DEF RecordCommit, workers, Ends
<1>3. /\ Requests'
      /\ \A b \in Actor : b # a => apc'[b] = apc[b] /\ amem'[b] = amem[b]
  BY <1>2, GoesRequests, Nothing DEF Inv, Types
<1>4. amem[a] = ch
  OBVIOUS
<1> HIDE DEF ch
<1>5. /\ rec' \in Record
      /\ rec'.status = IF "status" \in DOMAIN ch THEN ch["status"] ELSE rec.status
      /\ rec'.deleted = IF "deleted" \in DOMAIN ch THEN ch["deleted"] ELSE rec.deleted
  BY <1>1, <1>2, FlushTyped
<1>6. Types'
  BY <1>2, <1>3, <1>5 DEF Inv, Types, Workers
<1>7. Waits => Waits'
  <2> SUFFICES ASSUME Waits, rec'.status = "pending", ~rec'.deleted PROVE Driven'
    BY DEF Waits
  <2>1. "status" \notin DOMAIN ch /\ rec.status = "pending" /\ ~rec.deleted
    BY <1>1, <1>5 DEF Writes
  <2>2. Driven
    BY <2>1, <1>2 DEF Waits
  <2>3. QED BY <2>1, <2>2, <1>2, <1>3, <1>4 DEF Driven
<1>8. QED BY <1>6, <1>7 DEF Inv, Delivered

\* A deletion
LEMMA DeleteInv ==
  ASSUME Inv, NEW a \in Actor, DeleteLoad(a) \/ DeleteCommit(a)
  PROVE  Inv'
<1>1. CASE DeleteLoad(a)
  <2> DEFINE ch == Changes(rec, [rec EXCEPT !.thumb = FALSE, !.deleted = TRUE])
  <2>1. Typed(ch) /\ Writes("delete", ch)
    BY DeletedTyped DEF Inv, Types
  <2>2. Goes(a, "delete", ch) /\ apc[a] = "idle" /\ rec' = rec /\ queue' = queue
        /\ wpc' = wpc /\ wmsg' = wmsg /\ beating' = beating /\ faults' = faults
    BY <1>1 DEF DeleteLoad, workers
  <2> HIDE DEF ch
  <2>3. Requests' /\ \A b \in Actor : /\ apc'[b]  = IF b = a THEN "delete" ELSE apc[b]
                                      /\ amem'[b] = IF b = a THEN ch ELSE amem[b]
    BY <2>1, <2>2, GoesRequests DEF Inv, Types
  <2>4. asks' \in 0..MaxAsks
    BY <1>1, AskCounted DEF DeleteLoad, Inv
  <2>5. Types'
    BY <2>2, <2>3, <2>4 DEF Inv, Types, Workers
  <2>6. Waits => Waits'
    BY <2>2, <2>3 DEF Waits, Driven
  <2>7. QED BY <2>5, <2>6 DEF Inv, Delivered
<1>2. CASE DeleteCommit(a)
  <2> DEFINE ch == amem[a]
  <2>1. Typed(ch) /\ Writes("delete", ch) /\ rec \in Record
    BY <1>2 DEF Inv, Types, Requests, DeleteCommit
  <2>2. Goes(a, "idle", NoChange) /\ rec' = Flush(rec, ch) /\ queue' = queue /\ apc[a] = "delete"
        /\ wpc' = wpc /\ wmsg' = wmsg /\ beating' = beating /\ faults' = faults /\ asks' = asks
    BY <1>2 DEF DeleteCommit, workers, Ends
  <2>3. Requests' /\ \A b \in Actor : /\ apc'[b]  = IF b = a THEN "idle" ELSE apc[b]
                                      /\ amem'[b] = IF b = a THEN NoChange ELSE amem[b]
    BY <2>2, GoesRequests, Nothing DEF Inv, Types
  <2> HIDE DEF ch
  <2>4. /\ rec' \in Record /\ rec'.status = rec.status /\ rec'.tid = rec.tid
        /\ ~rec'.deleted => ~rec.deleted
    BY <2>1, <2>2, FlushTyped DEF Writes
  <2>5. Types'
    BY <2>2, <2>3, <2>4 DEF Inv, Types, Workers
  <2>6. Waits => Waits'
    BY <2>2, <2>3, <2>4 DEF Waits, Driven
  <2>7. QED BY <2>5, <2>6 DEF Inv, Delivered
<1>3. QED BY <1>1, <1>2

\* A process that stops: none does between the two commits, if messages are delivered.
LEMMA DiesInv == ASSUME Inv, NEW a \in Actor, ActorDies(a) PROVE Inv'
<1>1. ~Delivered
  BY DEF ActorDies, Fault, Delivered
<1>2. Requests'
  BY GoesRequests, Nothing DEF Inv, Types, ActorDies, Ends
<1>3. Types'
  BY <1>2, FaultCounted DEF Inv, Types, Workers, ActorDies, workers
<1>4. QED BY <1>1, <1>3 DEF Inv, Delivered

-----------------------------------------------------------------------------
(* The workers' steps *)

\* A worker that is done with its message.
LEMMA AcksWorkers ==
  ASSUME Workers, NEW w \in Worker, Acks(w)
  PROVE  /\ Workers'
         /\ \A v \in Worker : v # w => wpc'[v] = wpc[v] /\ wmsg'[v] = wmsg[v]
BY DEF Workers, Acks

\* A worker takes a message.
LEMMA ReceiveInv == ASSUME Inv, NEW w \in Worker, NEW m \in queue, Receive(w, m) PROVE Inv'
<1>1. m \in Message
  BY DEF Inv, Types
<1>2. Workers' /\ wpc'[w] = "start"
  BY <1>1 DEF Inv, Types, Workers, Receive
<1>3. Types'
  BY <1>2 DEF Inv, Types, Requests, Receive, actors
<1>4. Waits'
  BY <1>2 DEF Waits, Driven
<1>5. QED BY <1>3, <1>4 DEF Inv

\* A worker reads the record: it is not pending afterwards, unless it is deleted.
LEMMA StartInv == ASSUME Inv, NEW w \in Worker, Start(w) PROVE Inv'
<1>1. rec \in Record /\ wmsg[w].id \in Id /\ Workers
  BY DEF Inv, Types, Workers, Start, Message
<1>2. CASE Leaves(rec, wmsg[w].id)
  <2>1. rec' = rec /\ Workers'
    BY <1>1, <1>2, AcksWorkers DEF Start
  <2>2. Types'
    BY <2>1 DEF Inv, Types, Requests, Start, actors
  <2>3. Waits'
    BY <1>2, <2>1 DEF Waits, Leaves
  <2>4. QED BY <2>2, <2>3 DEF Inv
<1>3. CASE ~Leaves(rec, wmsg[w].id)
  <2>1. rec' \in Record /\ rec'.status = "processing"
    BY <1>1, <1>3 DEF Start, Touch, Record
  <2>2. Workers'
    BY <1>1, <1>3 DEF Workers, Start
  <2>3. Types'
    BY <2>1, <2>2 DEF Inv, Types, Requests, Start, actors
  <2>4. Waits'
    BY <2>1 DEF Waits
  <2>5. QED BY <2>3, <2>4 DEF Inv
<1>4. QED BY <1>2, <1>3

\* A worker's outcome is not "pending".
LEMMA OutcomeInv == ASSUME Inv, NEW w \in Worker, Finish(w) \/ Fail(w) PROVE Inv'
<1>1. rec \in Record /\ Workers
  BY DEF Inv, Types
<1>2. rec' \in Record /\ (rec'.status # "pending" \/ rec'.deleted)
  BY <1>1 DEF Finish, Fail, Touch, Record
<1>3. CASE Finish(w)
  <2>1. Workers'
    BY <1>1, <1>3, AcksWorkers DEF Finish
  <2>2. Types'
    BY <1>2, <1>3, <2>1 DEF Inv, Types, Requests, Finish, actors
  <2>3. QED BY <1>2, <2>2 DEF Inv, Waits
<1>4. CASE Fail(w)
  <2>1. Workers'
    BY <1>1, <1>4 DEF Fail, Workers
  <2>2. Types'
    BY <1>2, <1>4, <2>1 DEF Inv, Types, Requests, Fail, actors
  <2>3. QED BY <1>2, <2>2 DEF Inv, Waits
<1>5. QED BY <1>3, <1>4

\* A worker that failed gives its message back, or drops it: the record is not its
\* to drive any more.
LEMMA RetryInv == ASSUME Inv, NEW w \in Worker, Retry(w) PROVE Inv'
<1>1. Workers /\ wmsg[w] \in Message /\ wpc[w] = "failed"
  BY DEF Inv, Types, Workers, Retry
<1>2. Workers' /\ \A v \in Worker : v # w => wpc'[v] = wpc[v]
  BY <1>1, AcksWorkers DEF Retry
<1>3. queue \subseteq queue' /\ queue' \subseteq Message
  <2>1. wmsg[w].tries < MaxRetries => [wmsg[w] EXCEPT !.tries = @ + 1] \in Message
    BY <1>1, MediaAssumption DEF Message
  <2>2. QED BY <2>1 DEF Retry, Inv, Types
<1>4. Types'
  BY <1>2, <1>3 DEF Inv, Types, Requests, Retry, actors
<1>5. Waits => Waits'
  BY <1>1, <1>2, <1>3 DEF Waits, Driven, Retry, actors
<1>6. QED BY <1>4, <1>5 DEF Inv, Delivered

\* A message that is delivered again, after its worker is lost or before.
LEMMA AgainInv == ASSUME Inv, NEW w \in Worker, WorkerDies(w) \/ Redeliver(w) PROVE Inv'
<1>1. Workers /\ wmsg[w] \in Message
  BY DEF Inv, Types, Workers, WorkerDies, Redeliver
<1>2. Workers'
  BY <1>1, AcksWorkers DEF WorkerDies, Redeliver, Workers, workers
<1>3. queue' = queue \cup {wmsg[w]} /\ rec' = rec /\ apc' = apc /\ amem' = amem /\ asks' = asks
  BY DEF WorkerDies, Redeliver, actors
<1>4. faults' \in 0..MaxFaults
  BY FaultCounted DEF Inv, WorkerDies, Redeliver
<1>5. Types'
  BY <1>1, <1>2, <1>3, <1>4 DEF Inv, Types, Requests
<1>6. Waits'
  BY <1>3 DEF Waits, Driven
<1>7. QED BY <1>5, <1>6 DEF Inv

\* A message that is discarded, by a worker that has read the record.
LEMMA UncaughtInv == ASSUME Inv, NEW w \in Worker, Uncaught(w) PROVE Inv'
<1>1. Workers' /\ \A v \in Worker : v # w => wpc'[v] = wpc[v]
  BY AcksWorkers DEF Inv, Types, Uncaught
<1>2. Types'
  BY <1>1, FaultCounted DEF Inv, Types, Requests, Uncaught, actors
<1>3. Delivered => wpc[w] # "start"
  BY DEF Delivered, Uncaught, Fault
<1>4. Delivered /\ Waits => Waits'
  BY <1>1, <1>3 DEF Waits, Driven, Uncaught, actors
<1>5. QED BY <1>2, <1>4 DEF Inv, Delivered

\* Heartbeats, and time
LEMMA BeatInv ==
  ASSUME Inv, (\E w \in Worker : Heartbeat(w) \/ HeartbeatDies(w)) \/ HeartbeatAges
  PROVE  Inv'
<1>1. /\ rec' \in Record /\ rec'.status = rec.status /\ rec'.tid = rec.tid
      /\ rec'.deleted = rec.deleted
  BY DEF Inv, Types, Record, Touch, Heartbeat, HeartbeatDies, HeartbeatAges
<1>2. queue' = queue /\ apc' = apc /\ amem' = amem /\ wpc' = wpc /\ wmsg' = wmsg /\ asks' = asks
      /\ beating' \subseteq beating
  BY DEF Heartbeat, HeartbeatDies, HeartbeatAges, actors, workers
<1>3. faults' \in 0..MaxFaults
  BY FaultCounted DEF Inv, Types, Heartbeat, HeartbeatDies, HeartbeatAges
<1>4. Types'
  BY <1>1, <1>2, <1>3 DEF Inv, Types, Requests, Workers
<1>5. Waits => Waits'
  BY <1>1, <1>2 DEF Waits, Driven
<1>6. QED BY <1>4, <1>5 DEF Inv, Delivered

-----------------------------------------------------------------------------
(* Every step *)

\* The invariant is inductive.
LEMMA NextInv == Inv /\ [Next]_vars => Inv'
<1> SUFFICES ASSUME Inv, [Next]_vars PROVE Inv'
  OBVIOUS
<1>1. \A c \in Client : c \in Actor
  BY DEF Actor
<1>2. \A a \in Recoverer : a \in Actor
  BY DEF Actor
<1>3. CASE \E c \in Client : Upload(c)
  BY <1>1, <1>3, SendInv
<1>4. CASE \E c \in Client : EnsureLoad(c) \/ RetryLoad(c)
  BY <1>1, <1>4, LoadInv, AskCounted DEF Inv, EnsureLoad, RetryLoad
<1>5. CASE \E c \in Client : DeleteLoad(c) \/ DeleteCommit(c)
  BY <1>1, <1>5, DeleteInv
<1>6. CASE \E a \in Recoverer : RecoverLoad(a)
  <2>1. asks' \in 0..MaxAsks
    BY <1>6 DEF RecoverLoad, Inv, Types
  <2>2. QED BY <1>2, <1>6, <2>1, LoadInv DEF RecoverLoad
<1>7. CASE \E a \in Actor : Enqueue(a) \/ SendFails(a) \/ ActorDies(a)
  BY <1>7, SendInv, SentInv, RecordedInv, RefusedInv, DiesInv DEF Enqueue
<1>8. CASE \E w \in Worker : Work(w)
  BY <1>8, ReceiveInv, StartInv, OutcomeInv, RetryInv DEF Work
<1>9. CASE (\E w \in Worker : Heartbeat(w) \/ HeartbeatDies(w)) \/ HeartbeatAges
  BY <1>9, BeatInv
<1>10. CASE \E w \in Worker : WorkerDies(w) \/ Redeliver(w) \/ Uncaught(w)
  BY <1>10, AgainInv, UncaughtInv
<1>11. CASE UNCHANGED vars
  BY <1>11 DEF vars, actors, workers, Inv, Types, Requests, Workers, Waits, Driven, Delivered
<1>12. QED
  BY <1>3, <1>4, <1>5, <1>6, <1>7, <1>8, <1>9, <1>10, <1>11 DEF Next

\* Every variable has its type (models.file, and the steps of media_service.py), whatever
\* fails and however many processes are at work on the file.
THEOREM TypeCorrect == Spec => []TypeOK
<1>1. Inv => TypeOK
  BY TypesOK DEF Inv
<1>2. QED BY InitInv, NextInv, <1>1, PTL DEF Spec

\* A pending file is in somebody's hands (media_service.py: enqueue, process, _mark_failed
\* and recover_stale), for any number of overlapping requests, recoveries and
\* redeliveries, heartbeats lost or late, workers killed and a broker that refuses, as long as
\* no enqueuing process stops half-way and no message is discarded unread.
THEOREM Driver == Delivered => (Spec => []PendingIsDriven)
<1> SUFFICES ASSUME Delivered PROVE Spec => []PendingIsDriven
  OBVIOUS
<1>1. Inv => PendingIsDriven
  BY WaitsDriven DEF Inv
<1>2. QED BY InitInv, NextInv, <1>1, PTL DEF Spec
=============================================================================
