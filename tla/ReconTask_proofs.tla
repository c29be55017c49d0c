--------------------------- MODULE ReconTask_proofs ---------------------------
(***************************************************************************)
(* Proofs about ReconTask, for every number of tasks, requests, recoveries,*)
(* workers and messages.                                                   *)
(***************************************************************************)
EXTENDS ReconTask, FiniteSetTheorems, TLAPS

-----------------------------------------------------------------------------
(* Types, and what sessions have in memory *)

\* A row as it was loaded, and as it will be committed.
Loaded == [from: Row, to: Row]

\* The steps of requests and recoveries.
ActorSteps == {"idle", "quota", "enqueue", "send", "record", "unsent", "revoke", "cancel",
               "release"}

\* The steps of workers.
WorkerSteps == {"idle", "acquire", "refuse", "wait", "leased", "early", "begin",
                "finally"} \cup AtRun

\* The steps of workers that have something to commit.
Writing == {"refuse", "wait", "early", "begin", "stop", "final", "fail"}

\* What no session does: take a deletion back, write a PLY link of its own, or call a stage
\* failed that has a PLY.
Honest(m) ==
  /\ m \in Loaded
  /\ m.from.deleted => m.to.deleted
  /\ m.to.ply = m.from.ply
  /\ m.to.status = "failed" /\ m.from.status # "failed" => ~m.to.ply

\* What a request or recovery at a step will write.
ActorFits(pc, m) ==
  /\ Honest(m)
  /\ pc \in {"quota", "enqueue"} => m.to.status = "queued" /\ m.to.cid = Dispatching
  /\ pc = "send" => /\ m.from = m.to
                    /\ m.to.status = "queued" /\ m.to.cid = Dispatching
  /\ pc = "record" => /\ m.to.status = m.from.status
                      /\ m.to.cid \in Id /\ m.from.cid = Dispatching
  /\ pc = "unsent" => /\ m.from.status = "queued" /\ m.to.status \in {"failed", "partial"}
                      /\ m.to.cid = m.from.cid
  /\ pc = "release" => m.from = m.to /\ m.to.cid = NoId
                       /\ m.to.status \in {"queued", "failed", "partial"}
  /\ pc \in {"revoke", "cancel"} =>
       /\ m.to.cid = m.from.cid
       /\ \/ m.from.status \in Active /\ m.to.status = "cancelled"
          \/ pc = "cancel" /\ m.to.status = m.from.status /\ m.to.deleted /\ ~m.from.deleted

\* What a worker at a step will write.
WorkerFits(pc, m) ==
  /\ Honest(m)
  /\ m.to.cid = m.from.cid /\ m.to.deleted = m.from.deleted
  /\ pc = "wait" => m.to.status = "queued"
  /\ pc \in {"wait", "refuse"} => m.from.status \in {"pending", "queued"}
  /\ pc = "begin" => m.to.status = "processing"
  /\ pc \in {"early", "stop"} => m.to.status = "cancelled"
  /\ pc \in {"refuse", "fail"} => m.to.status \in {"failed", "partial"}
  /\ pc = "final" => m.to.status \in {"completed", "failed", "partial"}

\* The table, the broker and the lock.
Tables ==
  /\ row \in [Task -> Row]
  /\ sent \in [Task -> 0..MaxMessages]
  /\ queue \in [Task -> SUBSET Id]
  /\ revoked \in [Task -> SUBSET Id] /\ killed \in [Task -> SUBSET Id]
  /\ lock \in Client \cup {None}
  /\ faults \in 0..MaxFaults /\ cancels \in 0..MaxCancels

\* Requests and recoveries
Sessions ==
  /\ apc \in [Actor -> ActorSteps]
  /\ atask \in [Actor -> Task \cup {None}]
  /\ amem \in [Actor -> Memory]
  /\ \A a \in Actor : apc[a] # "idle" => atask[a] \in Task /\ ActorFits(apc[a], amem[a])

\* Workers
Runs ==
  /\ wpc \in [Worker -> WorkerSteps]
  /\ wtask \in [Worker -> Task \cup {None}]
  /\ wmsg \in [Worker -> Id \cup {NoId}]
  /\ wmem \in [Worker -> Memory]
  /\ \A w \in Worker :
       /\ wpc[w] # "idle" => wtask[w] \in Task /\ wmsg[w] \in Id
       /\ wpc[w] \in Writing => WorkerFits(wpc[w], wmem[w])

\* The inductive form of TypeOK.
Types == Tables /\ Sessions /\ Runs

-----------------------------------------------------------------------------
(* Rows *)

\* What the operations on a row leave of it.
LEMMA RowOps ==
  ASSUME NEW r \in Row
  PROVE  /\ Touch(r) \in Row /\ Settled(r) \in Row /\ Cancelled(r) \in Row
         /\ StageFailed(r) \in Row /\ Queued(r) \in Row
         /\ \A mesh \in BOOLEAN : Started(r, mesh) \in Row
BY DEF Row, Status, Touch, Settled, Cancelled, StageFailed, Queued, Started, Dispatching

\* The columns that matter: status, Celery id, heartbeat, PLY and deletion.
LEMMA RowColumns ==
  ASSUME NEW r \in Row
  PROVE  /\ Touch(r).status = r.status /\ Touch(r).cid = r.cid /\ Touch(r).ply = r.ply
         /\ Touch(r).deleted = r.deleted /\ Touch(r).beat = "fresh"
         /\ Settled(r).status = r.status /\ Settled(r).cid = r.cid /\ Settled(r).ply = r.ply
         /\ Settled(r).deleted = r.deleted /\ Settled(r).beat = r.beat
         /\ Cancelled(r).status = "cancelled" /\ Cancelled(r).cid = r.cid
         /\ Cancelled(r).ply = r.ply /\ Cancelled(r).deleted = r.deleted
         /\ StageFailed(r).status \in {"failed", "partial"} /\ StageFailed(r).cid = r.cid
         /\ StageFailed(r).ply = r.ply /\ StageFailed(r).deleted = r.deleted
         /\ StageFailed(r).status = "failed" => ~r.ply
         /\ Queued(r).status = "queued" /\ Queued(r).cid = Dispatching
         /\ Queued(r).ply = r.ply /\ Queued(r).deleted = r.deleted
         /\ \A mesh \in BOOLEAN :
              /\ Started(r, mesh).status = r.status /\ Started(r, mesh).cid = r.cid
              /\ Started(r, mesh).ply = r.ply /\ Started(r, mesh).deleted = r.deleted
BY DEF Row, Touch, Settled, Cancelled, StageFailed, Queued, Started

\* The other columns: the cancel flag and the heartbeat.
LEMMA RowFlags ==
  ASSUME NEW r \in Row
  PROVE  /\ Touch(r).cancel = r.cancel
         /\ Settled(r).cancel = r.cancel
         /\ StageFailed(r).cancel = r.cancel /\ StageFailed(r).beat = r.beat
         /\ Queued(r).cancel = r.cancel /\ Queued(r).beat = r.beat
         /\ \A mesh \in BOOLEAN : ~Started(r, mesh).cancel /\ Started(r, mesh).beat = r.beat
BY DEF Row, Touch, Settled, StageFailed, Queued, Started

\* What a commit makes of a row.
LEMMA FlushRow ==
  ASSUME NEW r \in Row, NEW m \in Loaded
  PROVE  /\ Flush(r, m) \in Row
         /\ Flush(r, m).status = IF m.to.status = m.from.status THEN r.status ELSE m.to.status
         /\ Flush(r, m).cid = IF m.to.cid = m.from.cid THEN r.cid ELSE m.to.cid
         /\ Flush(r, m).ply = IF m.to.ply = m.from.ply THEN r.ply ELSE m.to.ply
         /\ Flush(r, m).deleted = IF m.to.deleted = m.from.deleted THEN r.deleted ELSE m.to.deleted
         /\ Flush(r, m).cancel = IF m.to.cancel = m.from.cancel THEN r.cancel ELSE m.to.cancel
         /\ m.to.beat = m.from.beat => Flush(r, m).beat = r.beat
<1> DEFINE f == m.from
           o == m.to
<1>1. f \in Row /\ o \in Row
  BY DEF Loaded
<1>2. Flush(r, m) = [c \in DOMAIN r |-> IF o[c] = f[c] THEN r[c] ELSE o[c]]
  BY DEF Flush
<1>3. m.to = o /\ m.from = f
  OBVIOUS
<1> HIDE DEF f, o
<1>4. DOMAIN r = {"status", "cid", "cancel", "beat", "bill", "retry", "mesh", "ply", "run",
                  "deleted"}
  BY DEF Row
<1>5. Flush(r, m) =
        [status  |-> IF o.status = f.status THEN r.status ELSE o.status,
         cid     |-> IF o.cid = f.cid THEN r.cid ELSE o.cid,
         cancel  |-> IF o.cancel = f.cancel THEN r.cancel ELSE o.cancel,
         beat    |-> IF o.beat = f.beat THEN r.beat ELSE o.beat,
         bill    |-> IF o.bill = f.bill THEN r.bill ELSE o.bill,
         retry   |-> IF o.retry = f.retry THEN r.retry ELSE o.retry,
         mesh    |-> IF o.mesh = f.mesh THEN r.mesh ELSE o.mesh,
         ply     |-> IF o.ply = f.ply THEN r.ply ELSE o.ply,
         run     |-> IF o.run = f.run THEN r.run ELSE o.run,
         deleted |-> IF o.deleted = f.deleted THEN r.deleted ELSE o.deleted]
  BY <1>2, <1>4
<1>6. QED BY <1>1, <1>3, <1>5 DEF Row

\* A recovered row is queued, or given up.
LEMMA RecoveredRow ==
  ASSUME NEW r \in Row, Recoverable(r)
  PROVE  /\ Recovered(r) \in Row /\ Recovered(r).cid = NoId
         /\ Recovered(r).status \in {"queued", "failed", "partial"}
         /\ Recovered(r).deleted = r.deleted /\ Recovered(r).ply = r.ply
         /\ Recovered(r).status = "failed" => ~r.ply
         /\ r.status \in {"queued", "processing"} /\ ~r.deleted
<1> DEFINE tried == [Settled(r) EXCEPT !.cid = NoId, !.retry = @ + 1]
           last  == tried.retry >= MaxRetries
<1>1. /\ tried \in Row /\ tried.cid = NoId /\ tried.deleted = r.deleted /\ tried.ply = r.ply
      /\ tried.status = r.status
  <2> DEFINE s == Settled(r)
  <2>1. s \in Row /\ s.status = r.status /\ s.ply = r.ply /\ s.deleted = r.deleted
    BY RowOps, RowColumns
  <2>2. tried = [s EXCEPT !.cid = NoId, !.retry = s.retry + 1]
    OBVIOUS
  <2> HIDE DEF s, tried
  <2>3. s.retry \in Nat /\ s.retry + 1 \in Nat
    BY <2>1 DEF Row
  <2>4. QED BY <2>1, <2>2, <2>3 DEF Row, NoId
<1>2. r.status \in {"queued", "processing"} /\ ~r.deleted
  BY DEF Recoverable
<1>3. Recovered(r) = IF r.status = "queued" THEN [r EXCEPT !.cid = NoId]
                     ELSE IF last THEN StageFailed(tried)
                     ELSE [tried EXCEPT !.status = "queued"]
  BY DEF Recovered
<1> HIDE DEF tried, last
<1>4. CASE r.status = "queued"
  BY <1>2, <1>3, <1>4 DEF Row, NoId
<1>5. CASE r.status # "queued" /\ last
  <2>1. Recovered(r) = StageFailed(tried)
    BY <1>3, <1>5
  <2>2. StageFailed(tried) \in Row
    BY <1>1, RowOps
  <2>3. /\ StageFailed(tried).status \in {"failed", "partial"}
        /\ StageFailed(tried).cid = tried.cid /\ StageFailed(tried).ply = tried.ply
        /\ StageFailed(tried).deleted = tried.deleted
        /\ StageFailed(tried).status = "failed" => ~tried.ply
    BY <1>1, RowColumns
  <2>4. QED BY <1>1, <1>2, <2>1, <2>2, <2>3
<1>6. CASE r.status # "queued" /\ ~last
  <2>1. Recovered(r) = [tried EXCEPT !.status = "queued"]
    BY <1>3, <1>6
  <2>2. QED BY <1>1, <1>2, <2>1 DEF Row, Status
<1>7. QED BY <1>4, <1>5, <1>6

-----------------------------------------------------------------------------
(* Steps of sessions *)

\* A request or recovery goes on.
LEMMA GoesSessions ==
  ASSUME Sessions, NEW a \in Actor, NEW pc \in ActorSteps, NEW t \in Task, NEW m,
         ActorFits(pc, m), Goes(a, pc, t, m)
  PROVE  /\ Sessions'
         /\ \A b \in Actor : /\ apc'[b]   = IF b = a THEN pc ELSE apc[b]
                             /\ atask'[b] = IF b = a THEN t ELSE atask[b]
                             /\ amem'[b]  = IF b = a THEN m ELSE amem[b]
<1>1. m \in Memory
  BY DEF ActorFits, Honest, Loaded, Memory
<1>2. \A b \in Actor : /\ apc'[b]   = IF b = a THEN pc ELSE apc[b]
                       /\ atask'[b] = IF b = a THEN t ELSE atask[b]
                       /\ amem'[b]  = IF b = a THEN m ELSE amem[b]
  BY DEF Goes, Sessions
<1>3. /\ apc' \in [Actor -> ActorSteps] /\ atask' \in [Actor -> Task \cup {None}]
      /\ amem' \in [Actor -> Memory]
  BY <1>1 DEF Goes, Sessions
<1>4. \A b \in Actor : apc'[b] # "idle" => atask'[b] \in Task /\ ActorFits(apc'[b], amem'[b])
  BY <1>2 DEF Sessions
<1>5. QED BY <1>2, <1>3, <1>4 DEF Sessions

\* It ends.
LEMMA EndsSessions ==
  ASSUME Sessions, NEW a \in Actor, Ends(a)
  PROVE  /\ Sessions'
         /\ \A b \in Actor : /\ apc'[b]   = IF b = a THEN "idle" ELSE apc[b]
                             /\ atask'[b] = IF b = a THEN None ELSE atask[b]
                             /\ amem'[b]  = IF b = a THEN None ELSE amem[b]
<1>1. \A b \in Actor : /\ apc'[b]   = IF b = a THEN "idle" ELSE apc[b]
                       /\ atask'[b] = IF b = a THEN None ELSE atask[b]
                       /\ amem'[b]  = IF b = a THEN None ELSE amem[b]
  BY DEF Ends, Goes, Sessions
<1>2. /\ apc' \in [Actor -> ActorSteps] /\ atask' \in [Actor -> Task \cup {None}]
      /\ amem' \in [Actor -> Memory]
  BY DEF Ends, Goes, Sessions, ActorSteps, Memory
<1>3. \A b \in Actor : apc'[b] # "idle" => atask'[b] \in Task /\ ActorFits(apc'[b], amem'[b])
  BY <1>1 DEF Sessions
<1>4. QED BY <1>1, <1>2, <1>3 DEF Sessions

\* A worker goes on.
LEMMA WorksRuns ==
  ASSUME Runs, NEW w \in Worker, wpc[w] # "idle", NEW pc \in WorkerSteps, NEW m \in Memory,
         pc \in Writing => WorkerFits(pc, m), Works(w, pc, m)
  PROVE  /\ Runs' /\ wtask' = wtask /\ wmsg' = wmsg
         /\ \A v \in Worker : /\ wpc'[v]  = IF v = w THEN pc ELSE wpc[v]
                              /\ wmem'[v] = IF v = w THEN m ELSE wmem[v]
<1>1. \A v \in Worker : /\ wpc'[v]  = IF v = w THEN pc ELSE wpc[v]
                        /\ wmem'[v] = IF v = w THEN m ELSE wmem[v]
  BY DEF Works, Runs
<1>2. wtask' = wtask /\ wmsg' = wmsg
  BY DEF Works
<1>3. wpc' \in [Worker -> WorkerSteps] /\ wmem' \in [Worker -> Memory]
  BY DEF Works, Runs
<1>4. \A v \in Worker : /\ wpc'[v] # "idle" => wtask'[v] \in Task /\ wmsg'[v] \in Id
                        /\ wpc'[v] \in Writing => WorkerFits(wpc'[v], wmem'[v])
  BY <1>1, <1>2 DEF Runs
<1>5. QED BY <1>1, <1>2, <1>3, <1>4 DEF Runs

\* It is done with its message.
LEMMA AcksRuns ==
  ASSUME Runs, NEW w \in Worker, Acks(w)
  PROVE  /\ Runs'
         /\ \A v \in Worker :
              /\ wpc'[v]   = IF v = w THEN "idle" ELSE wpc[v]
              /\ wtask'[v] = IF v = w THEN None ELSE wtask[v]
              /\ wmsg'[v]  = IF v = w THEN NoId ELSE wmsg[v]
              /\ wmem'[v]  = IF v = w THEN None ELSE wmem[v]
<1>1. \A v \in Worker :
        /\ wpc'[v]   = IF v = w THEN "idle" ELSE wpc[v]
        /\ wtask'[v] = IF v = w THEN None ELSE wtask[v]
        /\ wmsg'[v]  = IF v = w THEN NoId ELSE wmsg[v]
        /\ wmem'[v]  = IF v = w THEN None ELSE wmem[v]
  BY DEF Acks, Runs
<1>2. /\ wpc' \in [Worker -> WorkerSteps] /\ wmem' \in [Worker -> Memory]
      /\ wtask' \in [Worker -> Task \cup {None}] /\ wmsg' \in [Worker -> Id \cup {NoId}]
  BY DEF Acks, Runs, WorkerSteps, Memory
<1>3. \A v \in Worker : /\ wpc'[v] # "idle" => wtask'[v] \in Task /\ wmsg'[v] \in Id
                        /\ wpc'[v] \in Writing => WorkerFits(wpc'[v], wmem'[v])
  BY <1>1 DEF Runs, Writing
<1>4. QED BY <1>1, <1>2, <1>3 DEF Runs

\* It takes a message.
LEMMA TakesRuns ==
  ASSUME Types, NEW w \in Worker, NEW t \in Task, NEW i \in Id, NEW pc \in WorkerSteps,
         NEW m \in Memory, pc \in Writing => WorkerFits(pc, m), Takes(w, t, i, pc, m)
  PROVE  /\ Runs'
         /\ \A v \in Worker : /\ wpc'[v]   = IF v = w THEN pc ELSE wpc[v]
                              /\ wtask'[v] = IF v = w THEN t ELSE wtask[v]
                              /\ wmsg'[v]  = IF v = w THEN i ELSE wmsg[v]
                              /\ wmem'[v]  = IF v = w THEN m ELSE wmem[v]
<1>1. \A v \in Worker : /\ wpc'[v]   = IF v = w THEN pc ELSE wpc[v]
                        /\ wtask'[v] = IF v = w THEN t ELSE wtask[v]
                        /\ wmsg'[v]  = IF v = w THEN i ELSE wmsg[v]
                        /\ wmem'[v]  = IF v = w THEN m ELSE wmem[v]
  BY DEF Takes, Types, Runs
<1>2. /\ wpc' \in [Worker -> WorkerSteps] /\ wmem' \in [Worker -> Memory]
      /\ wtask' \in [Worker -> Task \cup {None}] /\ wmsg' \in [Worker -> Id \cup {NoId}]
  BY DEF Takes, Types, Runs
<1>3. \A v \in Worker : /\ wpc'[v] # "idle" => wtask'[v] \in Task /\ wmsg'[v] \in Id
                        /\ wpc'[v] \in Writing => WorkerFits(wpc'[v], wmem'[v])
  BY <1>1 DEF Types, Runs
<1>4. QED BY <1>1, <1>2, <1>3 DEF Runs

\* A row in memory is one.
LEMMA LoadedRow ==
  ASSUME Tables, NEW t \in Task, NEW r \in Row
  PROVE  /\ row[t] \in Row /\ Load(t, r) \in Loaded /\ Load(t, r) \in Memory
         /\ Load(t, r).from = row[t] /\ Load(t, r).to = r
BY DEF Tables, Load, Loaded, Memory

\* A row that is written is one.
LEMMA RowSet ==
  ASSUME Tables, NEW t \in Task, NEW r \in Row, row' = [row EXCEPT ![t] = r]
  PROVE  /\ row' \in [Task -> Row] /\ row'[t] = r
         /\ \A u \in Task : u # t => row'[u] = row[u]
BY DEF Tables

\* The queue after a message for t is put into it, or taken.
LEMMA QueueSet ==
  ASSUME Tables, NEW t \in Task, NEW ids \in SUBSET Id, queue' = [queue EXCEPT ![t] = ids]
  PROVE  /\ queue' \in [Task -> SUBSET Id] /\ queue'[t] = ids
         /\ \A u \in Task : u # t => queue'[u] = queue[u]
BY DEF Tables

-----------------------------------------------------------------------------
(* Types are kept, action by action *)

\* What a step that leaves them alone keeps.
LEMMA Kept ==
  ASSUME Types
  PROVE  /\ UNCHANGED actors => Sessions'
         /\ UNCHANGED workers => Runs'
         /\ UNCHANGED <<broker, lock, faults, cancels>> /\ row' \in [Task -> Row] => Tables'
         /\ UNCHANGED <<row, sent, revoked, killed, lock, faults, cancels>>
              /\ queue' \in [Task -> SUBSET Id] => Tables'
<1>1. UNCHANGED actors => Sessions'
  BY DEF Types, Sessions, actors
<1>2. UNCHANGED workers => Runs'
  BY DEF Types, Runs, workers
<1>3. UNCHANGED <<broker, lock, faults, cancels>> /\ row' \in [Task -> Row] => Tables'
  BY DEF Types, Tables, broker
<1>4. UNCHANGED <<row, sent, revoked, killed, lock, faults, cancels>>
        /\ queue' \in [Task -> SUBSET Id] => Tables'
  BY DEF Types, Tables
<1>5. QED BY <1>1, <1>2, <1>3, <1>4

\* A fault is counted.
LEMMA FaultTables ==
  ASSUME Tables, NEW kind, Fault(kind), UNCHANGED row,
         queue' \in [Task -> SUBSET Id], lock' \in Client \cup {None}
  PROVE  Tables'
BY BoundsAssumption DEF Tables, Fault

\* A task is created, its PLY is deleted, or its heartbeat ages.
LEMMA TaskTypes ==
  ASSUME Types, NEW t \in Task, Create(t) \/ DeletePly(t) \/ HeartbeatAges(t)
  PROVE  Types'
<1>1. row' \in [Task -> Row]
  <2>1. row[t] \in Row
    BY DEF Types, Tables
  <2>2. /\ [row[t] EXCEPT !.status = "pending"] \in Row
        /\ [row[t] EXCEPT !.beat = "stale"] \in Row
        /\ [row[t] EXCEPT !.ply = FALSE] \in Row
    BY <2>1 DEF Row, Status
  <2>3. QED BY <2>2 DEF Types, Tables, Create, DeletePly, HeartbeatAges
<1>2. UNCHANGED <<broker, lock, actors, workers, faults, cancels>>
  BY DEF Create, DeletePly, HeartbeatAges
<1>3. QED BY <1>1, <1>2, Kept DEF Types

\* A start loads its task.
LEMMA RestartsTypes ==
  ASSUME Types, NEW c \in Client, NEW t \in Task, NEW mesh \in BOOLEAN, Restarts(c, t, mesh)
  PROVE  Types'
<1> DEFINE r == Queued(Started(row[t], mesh))
<1>1. row[t] \in Row
  BY DEF Types, Tables
<1>2. Started(row[t], mesh) \in Row
  BY <1>1, RowOps
<1>3. /\ r \in Row /\ r.status = "queued" /\ r.cid = Dispatching
      /\ r.ply = row[t].ply /\ r.deleted = row[t].deleted
  <2>1. /\ Started(row[t], mesh).ply = row[t].ply
        /\ Started(row[t], mesh).deleted = row[t].deleted
    BY <1>1, RowColumns
  <2>2. QED BY <1>2, <2>1, RowOps, RowColumns
<1> HIDE DEF r
<1>4. /\ Load(t, r) \in Loaded /\ Load(t, r).from = row[t] /\ Load(t, r).to = r
  BY <1>3, LoadedRow DEF Types
<1>5. ActorFits("quota", Load(t, r))
  BY <1>3, <1>4 DEF ActorFits, Honest
<1>6. Goes(c, "quota", t, Load(t, r)) /\ UNCHANGED <<row, broker, lock, workers, faults, cancels>>
  BY DEF Restarts, r
<1>7. c \in Actor /\ "quota" \in ActorSteps
  BY DEF Actor, ActorSteps
<1>8. Sessions'
  BY <1>5, <1>6, <1>7, GoesSessions DEF Types
<1>9. QED BY <1>6, <1>8, Kept DEF Types, Tables

\* The user is locked and the tasks are counted.
LEMMA StartQuotaTypes ==
  ASSUME Types, NEW c \in Client, StartQuota(c)
  PROVE  Types'
<1>1. c \in Actor /\ apc[c] = "quota"
  BY DEF Actor, StartQuota
<1>2. Sessions'
  <2>1. CASE Ends(c)
    BY <1>1, <2>1, EndsSessions DEF Types
  <2>2. CASE apc' = [apc EXCEPT ![c] = "enqueue"] /\ UNCHANGED <<atask, amem>>
    BY <1>1, <2>2 DEF Types, Sessions, ActorFits, ActorSteps
  <2>3. QED BY <2>1, <2>2 DEF StartQuota
<1>3. Tables'
  BY DEF StartQuota, Types, Tables, broker
<1>4. QED BY <1>2, <1>3, Kept DEF StartQuota, Types

\* A cancel, or a deletion, loads its task.
LEMMA CancelLoadTypes ==
  ASSUME Types, NEW c \in Client, NEW t \in Task, CancelLoad(c, t) \/ DeleteLoad(c, t)
  PROVE  Types'
<1>1. row[t] \in Row /\ ~row[t].deleted /\ c \in Actor
  BY DEF Types, Tables, CancelLoad, DeleteLoad, Actor
<1>2. /\ UNCHANGED <<row, broker, lock, workers, faults>>
      /\ cancels < MaxCancels /\ cancels' = cancels + 1
  BY DEF CancelLoad, DeleteLoad
<1>3. PICK r \in Row, pc \in {"revoke", "cancel"} :
        /\ Goes(c, pc, t, Load(t, r))
        /\ r.cid = row[t].cid /\ r.ply = row[t].ply
        /\ \/ row[t].status \in Active /\ r.status = "cancelled"
           \/ pc = "cancel" /\ r.status = row[t].status /\ r.deleted
  <2>1. ASSUME NEW s \in Row, s.cid = row[t].cid, s.ply = row[t].ply
        PROVE  LET r == Settled(Cancelled(s))
               IN  /\ r \in Row /\ r.cid = row[t].cid /\ r.ply = row[t].ply
                   /\ r.status = "cancelled"
    <3>1. /\ Cancelled(s) \in Row /\ Cancelled(s).cid = s.cid /\ Cancelled(s).ply = s.ply
          /\ Cancelled(s).status = "cancelled"
      BY RowOps, RowColumns
    <3>2. QED BY <2>1, <3>1, RowOps, RowColumns
  <2> DEFINE s1 == [row[t] EXCEPT !.cancel = TRUE]
             s2 == [row[t] EXCEPT !.cancel = TRUE, !.deleted = TRUE]
             s3 == [row[t] EXCEPT !.deleted = TRUE]
  <2>2. /\ {s1, s2, s3} \subseteq Row
        /\ \A s \in {s1, s2, s3} : s.cid = row[t].cid /\ s.ply = row[t].ply
        /\ s3.status = row[t].status /\ s3.deleted
    BY <1>1 DEF Row
  <2>3. CASE CancelLoad(c, t)
    <3>1. Goes(c, "revoke", t, Load(t, Settled(Cancelled(s1)))) /\ row[t].status \in Active
      BY <2>3 DEF CancelLoad
    <3> HIDE DEF s1
    <3>2. QED BY <2>1, <2>2, <3>1
  <2>4. CASE DeleteLoad(c, t) /\ row[t].status \in Active
    <3>1. Goes(c, "revoke", t, Load(t, Settled(Cancelled(s2))))
      BY <2>4 DEF DeleteLoad
    <3> HIDE DEF s2
    <3>2. QED BY <2>1, <2>2, <2>4, <3>1
  <2>5. CASE DeleteLoad(c, t) /\ row[t].status \notin Active
    <3>1. Goes(c, "cancel", t, Load(t, s3))
      BY <2>5 DEF DeleteLoad
    <3> HIDE DEF s3
    <3>2. QED BY <2>2, <3>1
  <2>6. QED BY <2>3, <2>4, <2>5
<1>4. /\ Load(t, r) \in Loaded /\ Load(t, r).from = row[t] /\ Load(t, r).to = r
  BY LoadedRow DEF Types
<1>5. ActorFits(pc, Load(t, r))
  BY <1>1, <1>3, <1>4 DEF ActorFits, Honest
<1>6. Sessions'
  BY <1>1, <1>3, <1>5, GoesSessions DEF Types, ActorSteps
<1>7. Tables'
  BY <1>2, BoundsAssumption DEF Types, Tables, broker
<1>8. QED BY <1>2, <1>6, <1>7, Kept DEF Types

\* The message is revoked.
LEMMA RevokeTypes ==
  ASSUME Types, NEW c \in Client, Revoke(c)
  PROVE  Types'
<1>1. c \in Actor /\ apc[c] = "revoke" /\ atask[c] \in Task
  BY DEF Types, Sessions, Revoke, Actor
<1>2. Sessions'
  BY <1>1 DEF Revoke, Types, Sessions, ActorFits, ActorSteps
<1>3. Tables'
  <2>1. {amem[c].from.cid} \cap Id \subseteq Id
    OBVIOUS
  <2>2. revoked' \in [Task -> SUBSET Id] /\ killed' \in [Task -> SUBSET Id]
    BY <1>1, <2>1 DEF Revoke, Types, Tables
  <2>3. QED BY <2>2 DEF Revoke, Types, Tables
<1>4. QED BY <1>2, <1>3, Kept DEF Revoke, Types

\* The request's session commits.
LEMMA CancelCommitTypes ==
  ASSUME Types, NEW c \in Client, CancelCommit(c)
  PROVE  Types'
<1> DEFINE t == atask[c]
           r == Flush(row[t], amem[c])
           p == r.ply /\ ~amem[c].to.deleted
<1>1. c \in Actor /\ t \in Task /\ amem[c] \in Loaded
  BY DEF Types, Sessions, CancelCommit, Actor, ActorFits, Honest
<1>2. r \in Row
  BY <1>1, FlushRow DEF Types, Tables
<1>3. row' = [row EXCEPT ![t] = [r EXCEPT !.ply = p]]
  BY DEF CancelCommit
<1> HIDE DEF r
<1>4. p \in BOOLEAN
  BY <1>1, <1>2 DEF Row, Loaded
<1> HIDE DEF p
<1>5. [r EXCEPT !.ply = p] \in Row
  BY <1>2, <1>4 DEF Row
<1>6. row' \in [Task -> Row]
  BY <1>1, <1>3, <1>5 DEF Types, Tables
<1>7. Sessions'
  BY <1>1, EndsSessions DEF CancelCommit, Types
<1>8. QED BY <1>6, <1>7, Kept DEF CancelCommit, Types

\* The task is queued, its id still to come.
LEMMA EnqueueCommitTypes ==
  ASSUME Types, NEW a \in Actor, EnqueueCommit(a)
  PROVE  Types'
<1> DEFINE t == atask[a]
           m == amem[a]
<1>1. t \in Task /\ ActorFits("enqueue", m) /\ m \in Loaded
  BY DEF Types, Sessions, EnqueueCommit, ActorFits, Honest
<1>2. row[t] \in Row
  BY <1>1 DEF Types, Tables
<1>3. Flush(row[t], m) \in Row
  BY <1>1, <1>2, FlushRow
<1>4. Touch(Flush(row[t], m)) \in Row
  BY <1>3, RowOps
<1>5. row' \in [Task -> Row]
  BY <1>1, <1>4 DEF EnqueueCommit, Types, Tables
<1>6. ActorFits("send", Clean(m.to))
  <2>1. m.to \in Row
    BY <1>1 DEF Loaded
  <2>2. Clean(m.to).from = m.to /\ Clean(m.to).to = m.to /\ Clean(m.to) \in Loaded
    BY <2>1 DEF Clean, Loaded
  <2>3. QED BY <1>1, <2>2 DEF ActorFits, Honest
<1>7. Sessions'
  BY <1>1, <1>6, GoesSessions DEF EnqueueCommit, Types, ActorSteps
<1>8. Tables'
  BY <1>5 DEF EnqueueCommit, Types, Tables, broker
<1>9. QED BY <1>7, <1>8, Kept DEF EnqueueCommit, Types

\* The message is sent.
LEMMA SendTypes ==
  ASSUME Types, NEW a \in Actor, Send(a)
  PROVE  Types'
<1> DEFINE t  == atask[a]
           m  == amem[a]
           id == sent[t] + 1
<1>1. t \in Task /\ ActorFits("send", m) /\ m \in Loaded /\ id \in Id
  BY DEF Types, Sessions, Send, ActorFits, Honest
<1>2. PICK n \in Loaded : /\ Goes(a, "record", t, n) /\ n.from = m.from
                          /\ n.to = [m.to EXCEPT !.cid = id]
  <2> DEFINE n == [m EXCEPT !.to.cid = id]
  <2>1. n.from = m.from /\ n.to = [m.to EXCEPT !.cid = id] /\ n \in Loaded
    BY <1>1 DEF Loaded, Row
  <2>2. Goes(a, "record", t, n)
    BY DEF Send
  <2>3. QED BY <2>1, <2>2
<1>3. /\ n.to.status = m.to.status /\ n.to.cid = id /\ n.to.ply = m.to.ply
      /\ n.to.deleted = m.to.deleted
  BY <1>1, <1>2 DEF Loaded, Row
<1>4. ActorFits("record", n)
  BY <1>1, <1>2, <1>3 DEF ActorFits, Honest
<1>5. Sessions'
  BY <1>1, <1>2, <1>4, GoesSessions DEF Types, ActorSteps
<1>6. Tables'
  BY <1>1 DEF Send, Types, Tables, Id
<1>7. QED BY <1>5, <1>6, Kept DEF Send, Types

\* The message could not be sent.
LEMMA SendFailsTypes ==
  ASSUME Types, NEW a \in Actor, SendFails(a)
  PROVE  Types'
<1> DEFINE t  == atask[a]
           m  == amem[a]
           f  == StageFailed(m.to)
<1>1. t \in Task /\ ActorFits("send", m) /\ m \in Loaded
  BY DEF Types, Sessions, SendFails, ActorFits, Honest
<1>2. /\ f \in Row /\ f.status \in {"failed", "partial"} /\ f.cid = m.to.cid
      /\ f.ply = m.to.ply /\ f.deleted = m.to.deleted
      /\ f.status = "failed" => ~m.to.ply
  <2>1. m.to \in Row
    BY <1>1 DEF Loaded
  <2>2. QED BY <2>1, RowOps, RowColumns
<1>3. PICK n \in Loaded : Goes(a, "unsent", t, n) /\ n.from = m.from /\ n.to = f
  <2> DEFINE n == [m EXCEPT !.to = StageFailed(@)]
  <2>1. n.from = m.from /\ n.to = f /\ n \in Loaded
    BY <1>1, <1>2 DEF Loaded
  <2>2. Goes(a, "unsent", t, n)
    BY DEF SendFails
  <2>3. QED BY <2>1, <2>2
<1> HIDE DEF f
<1>4. ActorFits("unsent", n)
  BY <1>1, <1>2, <1>3 DEF ActorFits, Honest
<1>5. Sessions'
  BY <1>1, <1>3, <1>4, GoesSessions DEF Types, ActorSteps
<1>6. Tables'
  BY BoundsAssumption DEF SendFails, Types, Tables, broker
<1>7. QED BY <1>5, <1>6, Kept DEF SendFails, Types

\* The id, or the failure, is recorded.
LEMMA RecordCommitTypes ==
  ASSUME Types, NEW a \in Actor, RecordCommit(a)
  PROVE  Types'
<1> DEFINE t  == atask[a]
           r  == Flush(row[t], amem[a])
<1>1. t \in Task /\ amem[a] \in Loaded
  BY DEF Types, Sessions, RecordCommit, ActorFits, Honest
<1>2. row[t] \in Row
  BY <1>1 DEF Types, Tables
<1>3. r \in Row
  BY <1>1, <1>2, FlushRow
<1>4. Touch(r) \in Row
  BY <1>3, RowOps
<1>5. row' \in [Task -> Row]
  BY <1>1, <1>3, <1>4 DEF RecordCommit, Types, Tables
<1>6. Sessions'
  BY <1>1, EndsSessions DEF RecordCommit, Types
<1>7. QED BY <1>5, <1>6, Kept DEF RecordCommit, Types

\* A stale run is recovered.
LEMMA RecoverCommitTypes ==
  ASSUME Types, NEW a, NEW t \in Task, RecoverCommit(a, t)
  PROVE  Types'
<1> DEFINE r == Recovered(row[t])
<1>1. row[t] \in Row /\ Recoverable(row[t]) /\ a \in Actor
  BY DEF Types, Tables, RecoverCommit, Actor
<1>2. r \in Row /\ r.cid = NoId /\ r.status \in {"queued", "failed", "partial"}
  BY <1>1, RecoveredRow
<1>3. row' = [row EXCEPT ![t] = r] /\ Goes(a, "release", t, Clean(r))
  BY DEF RecoverCommit
<1> HIDE DEF r
<1>4. ActorFits("release", Clean(r))
  BY <1>2 DEF Clean, Loaded, ActorFits, Honest
<1>5. row' \in [Task -> Row]
  BY <1>2, <1>3, RowSet DEF Types
<1>6. Sessions'
  BY <1>1, <1>3, <1>4, GoesSessions DEF Types, ActorSteps
<1>7. QED BY <1>5, <1>6, Kept DEF RecoverCommit, Types

\* The dead run's lease is dropped.
LEMMA ReleaseCommitTypes ==
  ASSUME Types, NEW a \in Actor, ReleaseCommit(a)
  PROVE  Types'
<1> DEFINE t     == atask[a]
           m     == amem[a]
           clear == [m.to EXCEPT !.run = None]
           n     == [m EXCEPT !.to = clear]
<1>1. t \in Task /\ ActorFits("release", m) /\ m \in Loaded
  BY DEF Types, Sessions, ReleaseCommit, ActorFits, Honest
<1>2. /\ clear \in Row /\ clear.status = m.to.status /\ clear.cid = NoId
      /\ clear.ply = m.to.ply /\ clear.deleted = m.to.deleted
  BY <1>1 DEF Loaded, Row, ActorFits
<1>3. n \in Loaded
  BY <1>1, <1>2 DEF Loaded
<1>4. /\ row' = [row EXCEPT ![t] = Flush(row[t], n)]
      /\ IF clear.status \in {"failed", "partial"}
           THEN Ends(a)
           ELSE Goes(a, "enqueue", t, [from |-> clear, to |-> Queued(clear)])
  BY <1>1 DEF ReleaseCommit, Types, Tables
<1> HIDE DEF n, clear
<1>5. Flush(row[t], n) \in Row
  BY <1>1, <1>3, FlushRow DEF Types, Tables
<1>6. row' \in [Task -> Row]
  BY <1>1, <1>4, <1>5, RowSet DEF Types
<1>7. Sessions'
  <2>1. CASE clear.status \in {"failed", "partial"}
    BY <1>4, <2>1, EndsSessions DEF Types
  <2>2. CASE clear.status \notin {"failed", "partial"}
    <3> DEFINE q == Queued(clear)
    <3>1. /\ q \in Row /\ q.status = "queued" /\ q.cid = Dispatching
          /\ q.ply = clear.ply /\ q.deleted = clear.deleted
      BY <1>2, RowOps, RowColumns
    <3> HIDE DEF q
    <3>2. ActorFits("enqueue", [from |-> clear, to |-> q])
      BY <1>2, <3>1 DEF ActorFits, Honest, Loaded
    <3>3. Goes(a, "enqueue", t, [from |-> clear, to |-> q])
      BY <1>4, <2>2 DEF q
    <3>4. QED BY <1>1, <3>2, <3>3, GoesSessions DEF Types, ActorSteps
  <2>3. QED BY <2>1, <2>2
<1>8. QED BY <1>6, <1>7, Kept DEF ReleaseCommit, Types

\* A request or recovery dies.
LEMMA ActorDiesTypes ==
  ASSUME Types, NEW a \in Actor, ActorDies(a)
  PROVE  Types'
<1>1. Sessions'
  BY EndsSessions DEF ActorDies, Types
<1>2. Tables'
  <2>1. PICK kind : Fault(kind)
    BY DEF ActorDies
  <2>2. UNCHANGED <<row, queue>> /\ lock' \in Client \cup {None}
    BY DEF ActorDies, Types, Tables
  <2>3. QED BY <2>1, <2>2, FaultTables DEF Types, Tables
<1>3. QED BY <1>1, <1>2, Kept DEF ActorDies, Types

\* A row that a worker fails, cancels or settles in memory.
LEMMA StagedRow ==
  ASSUME NEW r \in Row
  PROVE  /\ StageFailed(r) \in Row /\ Settled(StageFailed(r)) \in Row
         /\ Cancelled(r) \in Row /\ Settled(Cancelled(r)) \in Row
         /\ \A f \in {StageFailed(r), Settled(StageFailed(r))} :
              /\ f.status \in {"failed", "partial"} /\ (f.status = "failed" => ~r.ply)
              /\ f.cid = r.cid /\ f.ply = r.ply /\ f.deleted = r.deleted
         /\ \A f \in {Cancelled(r), Settled(Cancelled(r))} :
              /\ f.status = "cancelled"
              /\ f.cid = r.cid /\ f.ply = r.ply /\ f.deleted = r.deleted
<1>1. /\ StageFailed(r) \in Row /\ StageFailed(r).status \in {"failed", "partial"}
      /\ StageFailed(r).status = "failed" => ~r.ply
      /\ StageFailed(r).cid = r.cid /\ StageFailed(r).ply = r.ply
      /\ StageFailed(r).deleted = r.deleted
  BY RowOps, RowColumns
<1>2. /\ Cancelled(r) \in Row /\ Cancelled(r).status = "cancelled" /\ Cancelled(r).cid = r.cid
      /\ Cancelled(r).ply = r.ply /\ Cancelled(r).deleted = r.deleted
  BY RowOps, RowColumns
<1> DEFINE f == StageFailed(r)
           c == Cancelled(r)
<1>3. f \in Row /\ c \in Row
  BY <1>1, <1>2
<1> HIDE DEF f, c
<1>4. /\ Settled(f) \in Row /\ Settled(f).status = f.status /\ Settled(f).cid = f.cid
      /\ Settled(f).ply = f.ply /\ Settled(f).deleted = f.deleted
  BY <1>3, RowOps, RowColumns
<1>5. /\ Settled(c) \in Row /\ Settled(c).status = c.status /\ Settled(c).cid = c.cid
      /\ Settled(c).ply = c.ply /\ Settled(c).deleted = c.deleted
  BY <1>3, RowOps, RowColumns
<1>6. QED BY <1>1, <1>2, <1>4, <1>5 DEF f, c

\* A message is taken, or refused, ignored or dropped.
LEMMA ReceiveTypes ==
  ASSUME Types, NEW w \in Worker, NEW t \in Task, NEW i \in Id,
         Receive(w, t, i) \/ Refuse(w, t, i)
  PROVE  Types'
<1> DEFINE f == StageFailed(row[t])
<1>1. row[t] \in Row
  BY DEF Types, Tables
<1>2. row[t].status \in {"pending", "queued"} /\ queue' = [queue EXCEPT ![t] = @ \ {i}]
  BY DEF Receive, Refuse, Takes
<1>3. /\ f \in Row /\ f.status \in {"failed", "partial"} /\ (f.status = "failed" => ~row[t].ply)
      /\ f.cid = row[t].cid /\ f.ply = row[t].ply /\ f.deleted = row[t].deleted
  BY <1>1, StagedRow
<1> HIDE DEF f
<1>4. /\ Load(t, f) \in Loaded /\ Load(t, f) \in Memory
      /\ Load(t, f).from = row[t] /\ Load(t, f).to = f
  BY <1>3, LoadedRow DEF Types
<1>5. WorkerFits("refuse", Load(t, f))
  BY <1>2, <1>3, <1>4 DEF WorkerFits, Honest
<1>6. Runs'
  <2>1. CASE Receive(w, t, i)
    <3>1. Takes(w, t, i, "acquire", None) /\ None \in Memory
      BY <2>1 DEF Receive, Memory
    <3>2. "acquire" \in WorkerSteps /\ "acquire" \notin Writing
      BY DEF WorkerSteps, Writing
    <3>3. QED BY <3>1, <3>2, TakesRuns
  <2>2. CASE Refuse(w, t, i)
    <3>1. Takes(w, t, i, "refuse", Load(t, f)) /\ "refuse" \in WorkerSteps
      BY <2>2 DEF Refuse, f, WorkerSteps
    <3>2. QED BY <1>4, <1>5, <3>1, TakesRuns
  <2>3. QED BY <2>1, <2>2
<1>7. queue' \in [Task -> SUBSET Id]
  BY <1>2 DEF Types, Tables
<1>8. UNCHANGED <<row, sent, revoked, killed, lock, actors, faults, cancels>>
  BY DEF Receive, Refuse, Takes
<1>9. QED BY <1>6, <1>7, <1>8, Kept DEF Types

\* A message is dropped.
LEMMA DropTypes ==
  ASSUME Types, NEW t \in Task, NEW i \in Id,
         DropRevoked(t, i) \/ \E w \in Worker : Ignore(w, t, i)
  PROVE  Types'
<1>1. queue' \in [Task -> SUBSET Id]
  BY DEF DropRevoked, Ignore, Types, Tables
<1>2. UNCHANGED <<row, sent, revoked, killed, lock, actors, workers, faults, cancels>>
  BY DEF DropRevoked, Ignore
<1>3. QED BY <1>1, <1>2, Kept DEF Types

\* A GPU is there, or not.
LEMMA LeaseTypes ==
  ASSUME Types, NEW w \in Worker, GetLease(w) \/ \E i \in BOOLEAN : NoLease(w, i)
  PROVE  Types'
<1> DEFINE t == wtask[w]
           f == StageFailed(row[t])
           q == [row[t] EXCEPT !.status = "queued", !.run = None]
<1>1. wpc[w] = "acquire" /\ t \in Task
  BY DEF GetLease, NoLease, Types, Runs
<1>2. row[t] \in Row
  BY <1>1 DEF Types, Tables
<1>3. /\ f \in Row /\ f.status \in {"failed", "partial"} /\ (f.status = "failed" => ~row[t].ply)
      /\ f.cid = row[t].cid /\ f.ply = row[t].ply /\ f.deleted = row[t].deleted
  BY <1>2, StagedRow
<1>4. /\ q \in Row /\ q.status = "queued" /\ q.cid = row[t].cid /\ q.ply = row[t].ply
      /\ q.deleted = row[t].deleted
  BY <1>2 DEF Row, Status
<1>5. \/ Works(w, "leased", None) \/ Acks(w)
      \/ /\ row[t].status \in {"pending", "queued"}
         /\ Works(w, "wait", Load(t, q)) \/ Works(w, "refuse", Load(t, f))
  BY DEF GetLease, NoLease, Task0
<1> HIDE DEF f, q
<1>6. Runs'
  <2>1. CASE Works(w, "leased", None)
    <3>1. "leased" \in WorkerSteps /\ "leased" \notin Writing /\ None \in Memory
      BY DEF WorkerSteps, Writing, Memory
    <3>2. QED BY <1>1, <2>1, <3>1, WorksRuns DEF Types
  <2>2. CASE Acks(w)
    BY <2>2, AcksRuns DEF Types
  <2>3. CASE row[t].status \in {"pending", "queued"} /\ Works(w, "wait", Load(t, q))
    <3>1. /\ Load(t, q) \in Loaded /\ Load(t, q) \in Memory
          /\ Load(t, q).from = row[t] /\ Load(t, q).to = q
      BY <1>1, <1>4, LoadedRow DEF Types
    <3>2. WorkerFits("wait", Load(t, q)) /\ "wait" \in WorkerSteps
      BY <1>4, <2>3, <3>1 DEF WorkerFits, Honest, WorkerSteps
    <3>3. QED BY <1>1, <2>3, <3>1, <3>2, WorksRuns DEF Types
  <2>4. CASE row[t].status \in {"pending", "queued"} /\ Works(w, "refuse", Load(t, f))
    <3>1. /\ Load(t, f) \in Loaded /\ Load(t, f) \in Memory
          /\ Load(t, f).from = row[t] /\ Load(t, f).to = f
      BY <1>1, <1>3, LoadedRow DEF Types
    <3>2. WorkerFits("refuse", Load(t, f)) /\ "refuse" \in WorkerSteps
      BY <1>3, <2>4, <3>1 DEF WorkerFits, Honest, WorkerSteps
    <3>3. QED BY <1>1, <2>4, <3>1, <3>2, WorksRuns DEF Types
  <2>5. QED BY <1>5, <2>1, <2>2, <2>3, <2>4
<1>7. UNCHANGED <<row, broker, lock, actors, faults, cancels>>
  BY DEF GetLease, NoLease
<1>8. QED BY <1>6, <1>7, Kept DEF Types, Tables

\* What a worker commits is a row.
LEMMA CommitRow ==
  ASSUME Types, NEW w \in Worker, wpc[w] \in Writing
  PROVE  /\ wtask[w] \in Task /\ row[wtask[w]] \in Row /\ wmem[w] \in Loaded
         /\ Flush(row[wtask[w]], wmem[w]) \in Row
         /\ Touch(Flush(row[wtask[w]], wmem[w])) \in Row
         /\ Commits(w) => row' \in [Task -> Row]
<1>1. wtask[w] \in Task /\ wmem[w] \in Loaded
  BY DEF Types, Runs, Writing, WorkerFits, Honest
<1>2. row[wtask[w]] \in Row
  BY <1>1 DEF Types, Tables
<1>3. Flush(row[wtask[w]], wmem[w]) \in Row
  BY <1>1, <1>2, FlushRow
<1>4. Touch(Flush(row[wtask[w]], wmem[w])) \in Row
  BY <1>3, RowOps
<1>5. Commits(w) => row' \in [Task -> Row]
  BY <1>1, <1>4 DEF Commits, Types, Tables
<1>6. QED BY <1>1, <1>2, <1>3, <1>4, <1>5

\* The task waits.
LEMMA WaitCommitTypes ==
  ASSUME Types, NEW w \in Worker, WaitCommit(w)
  PROVE  Types'
<1>1. wpc[w] = "wait" /\ wpc[w] \in Writing /\ wmsg[w] \in Id /\ wtask[w] \in Task
  BY DEF WaitCommit, Writing, Types, Runs
<1>2. row' \in [Task -> Row]
  BY <1>1, CommitRow DEF WaitCommit
<1>3. queue' \in [Task -> SUBSET Id]
  BY <1>1 DEF WaitCommit, Types, Tables
<1>4. Runs'
  BY AcksRuns DEF WaitCommit, Types
<1>5. QED BY <1>2, <1>3, <1>4, Kept DEF WaitCommit, Types, Tables

\* A run loads its task.
LEMMA RunLoadTypes ==
  ASSUME Types, NEW w \in Worker, RunLoad(w)
  PROVE  Types'
<1> DEFINE t == wtask[w]
           k == Cancelled(row[t])
           p == [row[t] EXCEPT !.status = "processing", !.run = w]
<1>1. wpc[w] = "leased" /\ t \in Task
  BY DEF RunLoad, Types, Runs
<1>2. row[t] \in Row
  BY <1>1 DEF Types, Tables
<1>3. /\ k \in Row /\ k.status = "cancelled" /\ k.cid = row[t].cid /\ k.ply = row[t].ply
      /\ k.deleted = row[t].deleted
  BY <1>2, StagedRow
<1>4. /\ p \in Row /\ p.status = "processing" /\ p.cid = row[t].cid /\ p.ply = row[t].ply
      /\ p.deleted = row[t].deleted
  BY <1>2 DEF Row, Status
<1>5. \/ Works(w, "early", Load(t, k)) \/ Acks(w) \/ Works(w, "begin", Load(t, p))
  BY DEF RunLoad, Task0
<1> HIDE DEF k, p
<1>6. Runs'
  <2>1. CASE Works(w, "early", Load(t, k))
    <3>1. /\ Load(t, k) \in Loaded /\ Load(t, k) \in Memory
          /\ Load(t, k).from = row[t] /\ Load(t, k).to = k
      BY <1>1, <1>3, LoadedRow DEF Types
    <3>2. WorkerFits("early", Load(t, k)) /\ "early" \in WorkerSteps
      BY <1>3, <3>1 DEF WorkerFits, Honest, WorkerSteps
    <3>3. QED BY <1>1, <2>1, <3>1, <3>2, WorksRuns DEF Types
  <2>2. CASE Acks(w)
    BY <2>2, AcksRuns DEF Types
  <2>3. CASE Works(w, "begin", Load(t, p))
    <3>1. /\ Load(t, p) \in Loaded /\ Load(t, p) \in Memory
          /\ Load(t, p).from = row[t] /\ Load(t, p).to = p
      BY <1>1, <1>4, LoadedRow DEF Types
    <3>2. WorkerFits("begin", Load(t, p)) /\ "begin" \in WorkerSteps
      BY <1>4, <3>1 DEF WorkerFits, Honest, WorkerSteps
    <3>3. QED BY <1>1, <2>3, <3>1, <3>2, WorksRuns DEF Types
  <2>4. QED BY <1>5, <2>1, <2>2, <2>3
<1>7. UNCHANGED <<row, broker, lock, actors, faults, cancels>>
  BY DEF RunLoad
<1>8. QED BY <1>6, <1>7, Kept DEF Types, Tables

\* The run begins.
LEMMA BeginCommitTypes ==
  ASSUME Types, NEW w \in Worker, BeginCommit(w)
  PROVE  Types'
<1> DEFINE r == Touch(Flush(row[wtask[w]], wmem[w]))
<1>1. wpc[w] = "begin" /\ wpc[w] \in Writing
  BY DEF BeginCommit, Writing
<1>2. wtask[w] \in Task /\ r \in Row
  BY <1>1, CommitRow
<1>3. row' = [row EXCEPT ![wtask[w]] = [r EXCEPT !.bill = TRUE]]
  BY DEF BeginCommit
<1> HIDE DEF r
<1>4. [r EXCEPT !.bill = TRUE] \in Row
  BY <1>2 DEF Row
<1>5. row' \in [Task -> Row]
  BY <1>2, <1>3, <1>4 DEF Types, Tables
<1>6. "exec" \in WorkerSteps /\ "exec" \notin Writing /\ None \in Memory
  BY DEF WorkerSteps, AtRun, Writing, Memory
<1>7. Works(w, "exec", None)
  BY DEF BeginCommit
<1>8. Runs'
  BY <1>1, <1>6, <1>7, WorksRuns DEF Types
<1>9. QED BY <1>5, <1>8, Kept DEF BeginCommit, Types

\* A turn of the poll loop.
LEMMA PollTypes ==
  ASSUME Types, NEW w \in Worker, NEW exits \in BOOLEAN, Poll(w, exits)
  PROVE  Types'
<1> DEFINE t == wtask[w]
           k == Settled(Cancelled(row[t]))
<1>1. wpc[w] = "exec" /\ t \in Task
  BY DEF Poll, Types, Runs
<1>2. row[t] \in Row
  BY <1>1 DEF Types, Tables
<1>3. /\ k \in Row /\ k.status = "cancelled" /\ k.cid = row[t].cid /\ k.ply = row[t].ply
      /\ k.deleted = row[t].deleted
  BY <1>2, StagedRow
<1>4. /\ Load(t, k) \in Loaded /\ Load(t, k) \in Memory
      /\ Load(t, k).from = row[t] /\ Load(t, k).to = k
  BY <1>1, <1>3, LoadedRow DEF Types
<1>5. WorkerFits("stop", Load(t, k))
  <2> HIDE DEF k
  <2>1. QED BY <1>3, <1>4 DEF WorkerFits, Honest
<1>6. \/ Works(w, "stop", Load(t, k)) /\ UNCHANGED row
      \/ /\ row' = [row EXCEPT ![t] = Touch(row[t])]
         /\ Works(w, "exited", None) \/ UNCHANGED workers
  BY DEF Poll, Task0
<1> HIDE DEF k
<1>7. Runs'
  <2>1. CASE Works(w, "stop", Load(t, k))
    <3>1. "stop" \in WorkerSteps
      BY DEF WorkerSteps, AtRun
    <3>2. QED BY <1>1, <1>4, <1>5, <2>1, <3>1, WorksRuns DEF Types
  <2>2. CASE Works(w, "exited", None)
    <3>1. "exited" \in WorkerSteps /\ "exited" \notin Writing /\ None \in Memory
      BY DEF WorkerSteps, AtRun, Writing, Memory
    <3>2. QED BY <1>1, <2>2, <3>1, WorksRuns DEF Types
  <2>3. CASE UNCHANGED workers
    BY <2>3, Kept
  <2>4. QED BY <1>6, <2>1, <2>2, <2>3
<1>8. row' \in [Task -> Row]
  <2>1. Touch(row[t]) \in Row
    BY <1>2, RowOps
  <2>2. QED BY <1>1, <1>6, <2>1 DEF Types, Tables
<1>9. QED BY <1>7, <1>8, Kept DEF Poll, Types

\* A run ends, or raises: what it will write.
LEMMA FinalLoadTypes ==
  ASSUME Types, NEW w \in Worker, ExceptLoad(w) \/ \E good \in BOOLEAN : FinalLoad(w, good)
  PROVE  Types'
<1> DEFINE t == wtask[w]
           f == Settled(StageFailed(row[t]))
           c == Settled([row[t] EXCEPT !.status = "completed"])
<1>1. wpc[w] # "idle" /\ t \in Task
  BY DEF FinalLoad, ExceptLoad, Types, Runs
<1>2. row[t] \in Row
  BY <1>1 DEF Types, Tables
<1>3. /\ f \in Row /\ f.status \in {"failed", "partial"} /\ (f.status = "failed" => ~row[t].ply)
      /\ f.cid = row[t].cid /\ f.ply = row[t].ply /\ f.deleted = row[t].deleted
  BY <1>2, StagedRow
<1>4. /\ c \in Row /\ c.status = "completed"
      /\ c.cid = row[t].cid /\ c.ply = row[t].ply /\ c.deleted = row[t].deleted
  <2> DEFINE d == [row[t] EXCEPT !.status = "completed"]
  <2>1. /\ d \in Row /\ d.status = "completed" /\ d.cid = row[t].cid /\ d.ply = row[t].ply
        /\ d.deleted = row[t].deleted
    BY <1>2 DEF Row, Status
  <2> HIDE DEF d
  <2>2. QED BY <2>1, RowOps, RowColumns DEF d
<1>5. \/ Works(w, "fail", Load(t, f))
      \/ Works(w, "final", Load(t, f)) \/ Works(w, "final", Load(t, c))
  BY DEF FinalLoad, ExceptLoad, Task0
<1> HIDE DEF f, c
<1>6. /\ Load(t, f) \in Loaded /\ Load(t, f) \in Memory
      /\ Load(t, f).from = row[t] /\ Load(t, f).to = f
  BY <1>1, <1>3, LoadedRow DEF Types
<1>7. /\ Load(t, c) \in Loaded /\ Load(t, c) \in Memory
      /\ Load(t, c).from = row[t] /\ Load(t, c).to = c
  BY <1>1, <1>4, LoadedRow DEF Types
<1>8. /\ WorkerFits("fail", Load(t, f)) /\ WorkerFits("final", Load(t, f))
      /\ "fail" \in WorkerSteps /\ "final" \in WorkerSteps
  BY <1>3, <1>6 DEF WorkerFits, Honest, WorkerSteps, AtRun
<1>9. WorkerFits("final", Load(t, c))
  BY <1>4, <1>7 DEF WorkerFits, Honest
<1>10. Runs'
  <2>1. CASE Works(w, "fail", Load(t, f))
    BY <1>1, <1>6, <1>8, <2>1, WorksRuns DEF Types
  <2>2. CASE Works(w, "final", Load(t, f))
    BY <1>1, <1>6, <1>8, <2>2, WorksRuns DEF Types
  <2>3. CASE Works(w, "final", Load(t, c))
    BY <1>1, <1>7, <1>8, <1>9, <2>3, WorksRuns DEF Types
  <2>4. QED BY <1>5, <2>1, <2>2, <2>3
<1>11. UNCHANGED <<row, broker, lock, actors, faults, cancels>>
  BY DEF FinalLoad, ExceptLoad
<1>12. QED BY <1>10, <1>11, Kept DEF Types, Tables

\* The end of a run is committed.
LEMMA EndTypes ==
  ASSUME Types, NEW w \in Worker, FinalCommit(w) \/ EndCommit(w)
  PROVE  Types'
<1> DEFINE r == Touch(Flush(row[wtask[w]], wmem[w]))
<1>1. wpc[w] \in Writing /\ wpc[w] # "idle"
  BY DEF FinalCommit, EndCommit, Writing
<1>2. wtask[w] \in Task /\ r \in Row /\ (Commits(w) => row' \in [Task -> Row])
  BY <1>1, CommitRow
<1>3. row' \in [Task -> Row]
  <2>1. CASE FinalCommit(w)
    <3>1. row' = [row EXCEPT ![wtask[w]] = WithResult(r, wmem[w])]
      BY <2>1 DEF FinalCommit
    <3> HIDE DEF r
    <3>2. (r.ply \/ (wmem[w].to.status = "completed" /\ ~wmem[w].to.mesh)) \in BOOLEAN
      BY <1>1, <1>2 DEF Row
    <3>3. WithResult(r, wmem[w]) \in Row
      BY <1>2, <3>2 DEF Row, WithResult
    <3>4. QED BY <1>2, <3>1, <3>3 DEF Types, Tables
  <2>2. CASE EndCommit(w)
    BY <1>2, <2>2 DEF EndCommit
  <2>3. QED BY <2>1, <2>2
<1>4. Works(w, "finally", None)
  BY DEF FinalCommit, EndCommit
<1>5. "finally" \in WorkerSteps /\ "finally" \notin Writing /\ None \in Memory
  BY DEF WorkerSteps, Writing, Memory
<1>6. Runs'
  BY <1>1, <1>4, <1>5, WorksRuns DEF Types
<1>7. UNCHANGED <<broker, lock, actors, faults, cancels>>
  BY DEF FinalCommit, EndCommit
<1>8. QED BY <1>3, <1>6, <1>7, Kept DEF Types

\* A run raises.
LEMMA RaiseTypes ==
  ASSUME Types, NEW w \in Worker, Raise(w)
  PROVE  Types'
<1>1. wpc[w] # "idle" /\ Works(w, "except", None)
  BY DEF Raise
<1>2. "except" \in WorkerSteps /\ "except" \notin Writing /\ None \in Memory
  BY DEF WorkerSteps, AtRun, Writing, Memory
<1>3. Runs'
  BY <1>1, <1>2, WorksRuns DEF Types
<1>4. QED BY <1>3, Kept DEF Raise, Types, Tables

\* A worker is done with its message.
LEMMA LeaveTypes ==
  ASSUME Types, NEW w \in Worker, LeaveCommit(w) \/ Finally(w) \/ KillRevoked(w)
  PROVE  Types'
<1>1. row' \in [Task -> Row]
  <2>1. CASE LeaveCommit(w)
    <3>1. wpc[w] \in Writing
      BY <2>1 DEF LeaveCommit, Writing
    <3>2. QED BY <2>1, <3>1, CommitRow DEF LeaveCommit
  <2>2. CASE Finally(w)
    <3>1. wtask[w] \in Task
      BY <2>2 DEF Finally, Types, Runs
    <3>2. row[wtask[w]] \in Row
      BY <3>1 DEF Types, Tables
    <3>3. Settled(row[wtask[w]]) \in Row
      BY <3>2, RowOps
    <3>4. QED BY <2>2, <3>3 DEF Finally, Types, Tables
  <2>3. CASE KillRevoked(w)
    BY <2>3 DEF KillRevoked, Types, Tables
  <2>4. QED BY <2>1, <2>2, <2>3
<1>2. Acks(w) /\ UNCHANGED <<broker, lock, actors, faults, cancels>>
  BY DEF LeaveCommit, Finally, KillRevoked
<1>3. QED BY <1>1, <1>2, AcksRuns, Kept DEF Types

\* A worker fails, or its message is delivered again.
LEMMA FaultTypes ==
  ASSUME Types, NEW w \in Worker, WorkerDies(w) \/ Redeliver(w) \/ Uncaught(w)
  PROVE  Types'
<1>1. wpc[w] # "idle" /\ wtask[w] \in Task /\ wmsg[w] \in Id
  BY DEF WorkerDies, Redeliver, Uncaught, Types, Runs
<1>2. queue' \in [Task -> SUBSET Id]
  BY <1>1 DEF WorkerDies, Redeliver, Uncaught, Types, Tables
<1>3. Runs'
  BY AcksRuns, Kept DEF WorkerDies, Redeliver, Uncaught, Types
<1>4. UNCHANGED <<row, lock, actors>>
  BY DEF WorkerDies, Redeliver, Uncaught
<1>5. Tables'
  <2>1. PICK kind : Fault(kind)
    BY DEF WorkerDies, Redeliver, Uncaught
  <2>2. QED BY <1>2, <1>4, <2>1, FaultTables DEF Types, Tables
<1>6. QED BY <1>3, <1>4, <1>5, Kept DEF Types

-----------------------------------------------------------------------------
(* Type correctness *)

\* The invariant implies TypeOK.
LEMMA TypesImpliesTypeOK == Types => TypeOK
<1> SUFFICES ASSUME Types PROVE TypeOK
  OBVIOUS
<1>1. {queue, revoked, killed} \subseteq [Task -> SUBSET Id]
  BY DEF Types, Tables
<1>2. /\ apc \in [Actor -> {"idle", "quota", "enqueue", "send", "record", "unsent",
                            "revoke", "cancel", "release"}]
      /\ atask \in [Actor -> Task \cup {None}]
      /\ \A a \in Actor : amem[a] \in Memory
  BY DEF Types, Sessions, ActorSteps
<1>3. /\ wpc \in [Worker -> {"idle", "acquire", "refuse", "wait", "leased", "early", "begin",
                             "finally"} \cup AtRun]
      /\ wtask \in [Worker -> Task \cup {None}]
      /\ wmsg \in [Worker -> Id \cup {NoId}]
      /\ \A w \in Worker : wmem[w] \in Memory
  BY DEF Types, Runs, WorkerSteps
<1>4. QED BY <1>1, <1>2, <1>3 DEF Types, Tables, TypeOK

\* It holds at first.
LEMMA InitTypes == Init => Types
<1> SUFFICES ASSUME Init PROVE Types
  OBVIOUS
<1>1. Tables
  <2>1. Absent \in Row
    BY DEF Absent, Row, Status
  <2>2. MaxMessages \in Nat /\ MaxFaults \in Nat /\ MaxCancels \in Nat
    BY BoundsAssumption
  <2>3. QED BY <2>1, <2>2 DEF Init, Tables
<1>2. Sessions
  BY DEF Init, Sessions, ActorSteps, Memory
<1>3. Runs
  BY DEF Init, Runs, WorkerSteps, Memory, Writing
<1>4. QED BY <1>1, <1>2, <1>3 DEF Types

\* Every step keeps it.
LEMMA NextTypes == Types /\ [Next]_vars => Types'
<1> SUFFICES ASSUME Types, [Next]_vars PROVE Types'
  OBVIOUS
<1>1. CASE \E t \in Task : Create(t) \/ DeletePly(t) \/ HeartbeatAges(t)
  BY <1>1, TaskTypes
<1>2. CASE \E t \in Task, i \in Id : DropRevoked(t, i)
  BY <1>2, DropTypes
<1>3. ASSUME NEW c \in Client, Request(c)
      PROVE  Types'
  <2>1. ASSUME NEW t \in Task, StartLoad(c, t)
        PROVE  Types'
    BY <2>1, RestartsTypes DEF StartLoad
  <2>2. ASSUME NEW t \in Task, StartMeshLoad(c, t)
        PROVE  Types'
    BY <2>2, RestartsTypes DEF StartMeshLoad
  <2>3. ASSUME NEW t \in Task, CancelLoad(c, t) \/ DeleteLoad(c, t)
        PROVE  Types'
    BY <2>3, CancelLoadTypes
  <2>4. QED
    BY <1>3, <2>1, <2>2, <2>3, StartQuotaTypes, RevokeTypes, CancelCommitTypes DEF Request
<1>4. CASE \E a \in Actor : Enqueue(a) \/ ActorDies(a)
  BY <1>4, EnqueueCommitTypes, SendTypes, SendFailsTypes, RecordCommitTypes, ActorDiesTypes
     DEF Enqueue
<1>5. CASE \E a \in Recoverer : Recover(a)
  BY <1>5, RecoverCommitTypes, ReleaseCommitTypes DEF Recover, Actor
<1>6. ASSUME NEW w \in Worker,
             Work(w) \/ WorkerDies(w) \/ Redeliver(w) \/ Uncaught(w) \/ KillRevoked(w)
      PROVE  Types'
  <2>1. CASE \E t \in Task, i \in Id : Receive(w, t, i) \/ Refuse(w, t, i) \/ Ignore(w, t, i)
    BY <2>1, ReceiveTypes, DropTypes
  <2>2. CASE GetLease(w) \/ \E inspected \in BOOLEAN : NoLease(w, inspected)
    BY <2>2, LeaseTypes
  <2>3. CASE WaitCommit(w) \/ RunLoad(w) \/ BeginCommit(w)
    BY <2>3, WaitCommitTypes, RunLoadTypes, BeginCommitTypes
  <2>4. CASE \E exits \in BOOLEAN : Poll(w, exits)
    BY <2>4, PollTypes
  <2>5. CASE ExceptLoad(w) \/ \E good \in BOOLEAN : FinalLoad(w, good)
    BY <2>5, FinalLoadTypes
  <2>6. CASE FinalCommit(w) \/ Raise(w) \/ EndCommit(w)
    BY <2>6, EndTypes, RaiseTypes
  <2>7. CASE LeaveCommit(w) \/ Finally(w) \/ KillRevoked(w)
    BY <2>7, LeaveTypes
  <2>8. CASE WorkerDies(w) \/ Redeliver(w) \/ Uncaught(w)
    BY <2>8, FaultTypes
  <2>9. QED BY <1>6, <2>1, <2>2, <2>3, <2>4, <2>5, <2>6, <2>7, <2>8 DEF Work
<1>7. CASE UNCHANGED vars
  BY <1>7, Kept DEF vars, Types, Tables, broker
<1>8. QED BY <1>1, <1>2, <1>3, <1>4, <1>5, <1>6, <1>7 DEF Next

\* Rows, messages and what processes have in memory are always well formed.
THEOREM TypeCorrect == Spec => []TypeOK
<1>1. Init => Types
  BY InitTypes
<1>2. Types /\ [Next]_vars => Types'
  BY NextTypes
<1>3. Types => TypeOK
  BY TypesImpliesTypeOK
<1>4. QED BY <1>1, <1>2, <1>3, PTL DEF Spec

-----------------------------------------------------------------------------
(* Queued tasks are driven: messages and ids *)

\* Nothing is lost: no exception ends a message, nobody dies but workers, whose messages
\* are delivered again.
Delivered == Faults \subseteq {"worker", "redelivery", "broker"}

\* Messages, revoked ids and the ids in rows are ids that were sent.
Numbered ==
  /\ \A t \in Task : /\ row[t].cid <= sent[t]
                     /\ queue[t] \subseteq 1..sent[t]
                     /\ revoked[t] \subseteq 1..sent[t] /\ killed[t] \subseteq revoked[t]
  /\ \A a \in Actor : apc[a] # "idle" => /\ amem[a].from.cid <= sent[atask[a]]
                                         /\ amem[a].to.cid <= sent[atask[a]]
  /\ \A w \in Worker : wpc[w] # "idle" => wmsg[w] <= sent[wtask[w]]

\* A task that was started.
Begun(r) == r.status \notin {"absent", "pending"}

\* Once somebody enqueues a task it has left "pending", and nobody takes it back there.
Underway ==
  /\ \A t \in Task : sent[t] > 0 => Begun(row[t])
  /\ \A a \in Actor :
       /\ apc[a] \in {"send", "record", "unsent", "release"} => Begun(row[atask[a]])
       /\ apc[a] = "enqueue" => amem[a].from.status # "queued" \/ Begun(row[atask[a]])
       /\ apc[a] = "quota" => amem[a].from.status # "queued"
  /\ \A w \in Worker : wpc[w] = "wait" => wmem[w].from.status = "queued"

\* A message of the task that was not revoked waits in the queue, ...
Waits(t) == queue[t] \ revoked[t] # {}

\* ... a worker has one, and will commit another status or send the message again, ...
Carries(w, t) ==
  /\ wtask[w] = t /\ wmsg[w] \notin revoked[t]
  /\ \/ wpc[w] \in {"acquire", "leased", "wait", "refuse"}
     \/ wpc[w] = "begin" /\ wmem[w].from.status # "processing"
     \/ wpc[w] = "early" /\ wmem[w].from.status # "cancelled"

\* ... or a request or recovery is about to send one, or to write another status.
Sends(a, t) ==
  /\ atask[a] = t
  /\ \/ apc[a] \in {"send", "unsent"}
     \/ apc[a] = "enqueue" /\ a \in Recoverer
     \/ apc[a] = "release" /\ amem[a].to.status = "queued"
     \/ apc[a] = "cancel" /\ amem[a].from.status # "cancelled" /\ amem[a].to.status = "cancelled"

Driven(t) ==
  Waits(t) \/ (\E w \in Worker : Carries(w, t)) \/ (\E a \in Actor : Sends(a, t))

\* The inductive form of QueuedIsDriven.
QueuedDriven ==
  /\ Types /\ Numbered /\ Underway
  /\ \A t \in Task : row[t].status = "queued" /\ ~row[t].deleted => Driven(t)

\* A driven task is in somebody's hands.
LEMMA DrivenImplies == QueuedDriven => QueuedIsDriven
<1> SUFFICES ASSUME QueuedDriven, NEW t \in Task, row[t].status = "queued", ~row[t].deleted
             PROVE  InHand(t)
  BY DEF QueuedIsDriven
<1>1. Driven(t)
  BY DEF QueuedDriven
<1>2. CASE Waits(t)
  BY <1>2 DEF Waits, InHand
<1>3. CASE \E w \in Worker : Carries(w, t)
  BY <1>3 DEF Carries, InHand
<1>4. CASE \E a \in Actor : Sends(a, t)
  BY <1>4 DEF Sends, InHand
<1>5. QED BY <1>1, <1>2, <1>3, <1>4 DEF Driven

-----------------------------------------------------------------------------
(* What steps do to the table *)

\* What no step does to a task: take it back to "pending", or take a deletion back.
Onward(t) ==
  /\ row[t].deleted => row'[t].deleted
  /\ row'[t].status \in {"absent", "pending"} => row'[t].status = row[t].status

\* A task that is not written.
Same(t) == row'[t] = row[t]

\* What a commit with m in memory makes of the columns that matter.
Writes(t, m) ==
  /\ row'[t].status = IF m.to.status = m.from.status THEN row[t].status ELSE m.to.status
  /\ row'[t].cid = IF m.to.cid = m.from.cid THEN row[t].cid ELSE m.to.cid
  /\ row'[t].deleted = IF m.to.deleted = m.from.deleted THEN row[t].deleted ELSE m.to.deleted
  /\ row'[t].cancel = IF m.to.cancel = m.from.cancel THEN row[t].cancel ELSE m.to.cancel
  /\ m.to.beat = m.from.beat => row'[t].beat \in {row[t].beat, "fresh"}
  /\ row'[t].ply => row[t].ply \/ m.to.status = "completed"
  /\ \A u \in Task \ {t} : Same(u)

\* A worker's commits.
LEMMA WorkerWrites ==
  ASSUME Types, NEW w \in Worker,
         \/ Commits(w) /\ wpc[w] \in Writing
         \/ BeginCommit(w) \/ FinalCommit(w)
  PROVE  /\ Writes(wtask[w], wmem[w]) /\ row'[wtask[w]].beat = "fresh"
         /\ row[wtask[w]].ply => row'[wtask[w]].ply
<1> DEFINE t == wtask[w]
           m == wmem[w]
           r == Touch(Flush(row[t], m))
<1>1. wpc[w] \in Writing
  BY DEF BeginCommit, FinalCommit, Writing
<1>2. t \in Task /\ row[t] \in Row /\ m \in Loaded /\ Flush(row[t], m) \in Row /\ r \in Row
  BY <1>1, CommitRow
<1>3. /\ r.status = IF m.to.status = m.from.status THEN row[t].status ELSE m.to.status
      /\ r.cid = IF m.to.cid = m.from.cid THEN row[t].cid ELSE m.to.cid
      /\ r.deleted = IF m.to.deleted = m.from.deleted THEN row[t].deleted ELSE m.to.deleted
      /\ r.cancel = IF m.to.cancel = m.from.cancel THEN row[t].cancel ELSE m.to.cancel
      /\ r.beat = "fresh" /\ r.ply = row[t].ply
  <2> DEFINE f == Flush(row[t], m)
  <2>1. /\ f.status = IF m.to.status = m.from.status THEN row[t].status ELSE m.to.status
        /\ f.cid = IF m.to.cid = m.from.cid THEN row[t].cid ELSE m.to.cid
        /\ f.deleted = IF m.to.deleted = m.from.deleted THEN row[t].deleted ELSE m.to.deleted
        /\ f.cancel = IF m.to.cancel = m.from.cancel THEN row[t].cancel ELSE m.to.cancel
        /\ f.ply = row[t].ply
    BY <1>1, <1>2, FlushRow DEF Types, Runs, WorkerFits, Honest
  <2>2. f \in Row
    BY <1>2
  <2> HIDE DEF f
  <2>3. /\ Touch(f).status = f.status /\ Touch(f).cid = f.cid /\ Touch(f).deleted = f.deleted
        /\ Touch(f).cancel = f.cancel /\ Touch(f).ply = f.ply /\ Touch(f).beat = "fresh"
    BY <2>2, RowColumns, RowFlags
  <2>4. QED BY <2>1, <2>3 DEF f
<1>4. \/ row' = [row EXCEPT ![t] = r]
      \/ row' = [row EXCEPT ![t] = [r EXCEPT !.bill = TRUE]]
      \/ row' = [row EXCEPT ![t] = WithResult(r, m)]
  BY <1>2 DEF Commits, BeginCommit, FinalCommit, Types, Tables
<1> HIDE DEF r
<1>5. PICK s : /\ row' = [row EXCEPT ![t] = s]
               /\ s.status = r.status /\ s.cid = r.cid /\ s.deleted = r.deleted
               /\ s.cancel = r.cancel /\ s.beat = r.beat
               /\ s.ply => r.ply \/ m.to.status = "completed"
               /\ r.ply => s.ply
  <2>1. CASE row' = [row EXCEPT ![t] = r]
    BY <2>1
  <2>2. CASE row' = [row EXCEPT ![t] = [r EXCEPT !.bill = TRUE]]
    <3> DEFINE s == [r EXCEPT !.bill = TRUE]
    <3>1. /\ s.status = r.status /\ s.cid = r.cid /\ s.deleted = r.deleted
          /\ s.cancel = r.cancel /\ s.beat = r.beat
          /\ s.ply => r.ply \/ m.to.status = "completed"
          /\ r.ply => s.ply
      BY <1>2 DEF Row
    <3>2. QED BY <2>2, <3>1
  <2>3. CASE row' = [row EXCEPT ![t] = WithResult(r, m)]
    <3> DEFINE s == WithResult(r, m)
    <3>1. /\ s.status = r.status /\ s.cid = r.cid /\ s.deleted = r.deleted
          /\ s.cancel = r.cancel /\ s.beat = r.beat
          /\ s.ply => r.ply \/ m.to.status = "completed"
          /\ r.ply => s.ply
      BY <1>2 DEF Row, WithResult
    <3>2. QED BY <2>3, <3>1
  <2>4. QED BY <1>4, <2>1, <2>2, <2>3
<1>6. row'[t] = s /\ \A u \in Task \ {t} : row'[u] = row[u]
  BY <1>2, <1>5 DEF Types, Tables
<1>7. QED BY <1>3, <1>5, <1>6 DEF Writes, Same

\* The commits of requests and recoveries.
LEMMA ActorWrites ==
  ASSUME Types, NEW a \in Actor,
         EnqueueCommit(a) \/ RecordCommit(a) \/ CancelCommit(a) \/ ReleaseCommit(a)
  PROVE  /\ Writes(atask[a], amem[a]) /\ (row'[atask[a]].ply => row[atask[a]].ply)
         /\ row[atask[a]].ply => row'[atask[a]].ply \/ (CancelCommit(a) /\ amem[a].to.deleted)
<1> DEFINE t == atask[a]
           m == amem[a]
           f == Flush(row[t], m)
<1>1. t \in Task /\ m \in Loaded /\ row[t] \in Row /\ m.to.ply = m.from.ply
  BY DEF EnqueueCommit, RecordCommit, CancelCommit, ReleaseCommit, Types, Sessions, Tables,
         ActorFits, Honest
<1>2. /\ f \in Row
      /\ f.status = IF m.to.status = m.from.status THEN row[t].status ELSE m.to.status
      /\ f.cid = IF m.to.cid = m.from.cid THEN row[t].cid ELSE m.to.cid
      /\ f.deleted = IF m.to.deleted = m.from.deleted THEN row[t].deleted ELSE m.to.deleted
      /\ f.cancel = IF m.to.cancel = m.from.cancel THEN row[t].cancel ELSE m.to.cancel
      /\ m.to.beat = m.from.beat => f.beat = row[t].beat
      /\ f.ply = row[t].ply
  BY <1>1, FlushRow
<1>3. CASE EnqueueCommit(a) \/ RecordCommit(a)
  <2>1. row' = [row EXCEPT ![t] = Touch(f)] \/ row' = [row EXCEPT ![t] = f]
    BY <1>1, <1>3 DEF EnqueueCommit, RecordCommit, Types, Tables
  <2> HIDE DEF f
  <2>2. /\ Touch(f).status = f.status /\ Touch(f).cid = f.cid /\ Touch(f).deleted = f.deleted
        /\ Touch(f).cancel = f.cancel /\ Touch(f).ply = f.ply /\ Touch(f).beat = "fresh"
    BY <1>2, RowColumns, RowFlags
  <2>3. /\ row'[t] = Touch(f) \/ row'[t] = f
        /\ \A u \in Task \ {t} : row'[u] = row[u]
    BY <1>1, <2>1 DEF Types, Tables
  <2>4. QED BY <1>2, <2>2, <2>3 DEF Writes, Same
<1>4. CASE CancelCommit(a)
  <2> DEFINE s == [f EXCEPT !.ply = @ /\ ~m.to.deleted]
  <2>1. row' = [row EXCEPT ![t] = s]
    BY <1>4 DEF CancelCommit
  <2> HIDE DEF f
  <2>2. /\ s.status = f.status /\ s.cid = f.cid /\ s.deleted = f.deleted
        /\ s.cancel = f.cancel /\ s.beat = f.beat /\ (s.ply => f.ply)
        /\ (f.ply => s.ply \/ m.to.deleted)
    BY <1>2 DEF Row
  <2> HIDE DEF s
  <2>3. row'[t] = s /\ \A u \in Task \ {t} : row'[u] = row[u]
    BY <1>1, <2>1 DEF Types, Tables
  <2>4. QED BY <1>2, <1>4, <2>2, <2>3 DEF Writes, Same
<1>5. CASE ReleaseCommit(a)
  <2> DEFINE n == [m EXCEPT !.to = [m.to EXCEPT !.run = None]]
             s == Flush(row[t], n)
  <2>1. row' = [row EXCEPT ![t] = s]
    BY <1>1, <1>5 DEF ReleaseCommit, Types, Tables
  <2>2. /\ n \in Loaded /\ n.from = m.from /\ n.to.status = m.to.status /\ n.to.cid = m.to.cid
        /\ n.to.deleted = m.to.deleted /\ n.to.cancel = m.to.cancel /\ n.to.beat = m.to.beat
        /\ n.to.ply = m.to.ply
    BY <1>1 DEF Loaded, Row
  <2> HIDE DEF n, f
  <2>3. /\ s.status = IF n.to.status = n.from.status THEN row[t].status ELSE n.to.status
        /\ s.cid = IF n.to.cid = n.from.cid THEN row[t].cid ELSE n.to.cid
        /\ s.deleted = IF n.to.deleted = n.from.deleted THEN row[t].deleted ELSE n.to.deleted
        /\ s.cancel = IF n.to.cancel = n.from.cancel THEN row[t].cancel ELSE n.to.cancel
        /\ n.to.beat = n.from.beat => s.beat = row[t].beat
        /\ s.ply = IF n.to.ply = n.from.ply THEN row[t].ply ELSE n.to.ply
    BY <1>1, <2>2, FlushRow
  <2> HIDE DEF s
  <2>4. row'[t] = s /\ \A u \in Task \ {t} : row'[u] = row[u]
    BY <1>1, <2>1 DEF Types, Tables
  <2>5. QED BY <1>1, <2>2, <2>3, <2>4 DEF Writes, Same
<1>6. QED BY <1>3, <1>4, <1>5

-----------------------------------------------------------------------------
(* What no step takes back, whatever overlaps and whatever fails *)

\* What no step does to a task: take a deletion back, take it back to "pending" or make it
\* disappear, or drop its PLY result, unless its owner deletes that or the task.
Lasts(t) ==
  /\ row[t].deleted => row'[t].deleted
  /\ row[t].status \notin {"absent", "pending"} => row'[t].status \notin {"absent", "pending"}
  /\ row[t].ply => row'[t].ply \/ row'[t].deleted \/ DeletePly(t)

\* Who cancels or deletes a task has loaded it before it was deleted.
Undeleted == \A a \in Actor : apc[a] \in {"revoke", "cancel"} => ~amem[a].from.deleted

LEMMA NextUndeleted == Types /\ Undeleted /\ [Next]_vars => Undeleted'
<1> SUFFICES ASSUME Types, Undeleted, [Next]_vars PROVE Undeleted'
  OBVIOUS
<1>1. ASSUME NEW a \in Actor, NEW pc, NEW t, NEW m, Goes(a, pc, t, m),
             pc \in {"revoke", "cancel"} => ~m.from.deleted
      PROVE  Undeleted'
  BY <1>1 DEF Goes, Undeleted, Types, Sessions
<1>2. ASSUME NEW a \in Actor, Ends(a) PROVE Undeleted'
  BY <1>1, <1>2 DEF Ends
<1>3. ASSUME NEW c \in Client, Request(c) PROVE Undeleted'
  <2>0. c \in Actor
    BY DEF Actor
  <2>1. ASSUME NEW t \in Task, NEW mesh, Restarts(c, t, mesh) PROVE Undeleted'
    BY <1>1, <2>0, <2>1 DEF Restarts
  <2>2. ASSUME NEW t \in Task, CancelLoad(c, t) \/ DeleteLoad(c, t) PROVE Undeleted'
    <3>1. ~row[t].deleted
      BY <2>2 DEF CancelLoad, DeleteLoad
    <3>2. PICK pc, r : Goes(c, pc, t, Load(t, r))
      BY <2>2 DEF CancelLoad, DeleteLoad
    <3>3. ~Load(t, r).from.deleted
      BY <3>1 DEF Load
    <3>4. QED BY <1>1, <2>0, <3>2, <3>3
  <2>3. CASE StartQuota(c)
    BY <1>2, <2>0, <2>3 DEF StartQuota, Undeleted, Types, Sessions
  <2>4. CASE Revoke(c)
    BY <2>0, <2>4 DEF Revoke, Undeleted, Types, Sessions
  <2>5. CASE CancelCommit(c)
    BY <1>2, <2>0, <2>5 DEF CancelCommit
  <2>6. QED BY <1>3, <2>1, <2>2, <2>3, <2>4, <2>5 DEF Request, StartLoad, StartMeshLoad
<1>4. ASSUME NEW a \in Actor, Enqueue(a) \/ ActorDies(a) PROVE Undeleted'
  <2>1. CASE EnqueueCommit(a)
    BY <1>1, <2>1 DEF EnqueueCommit
  <2>2. CASE Send(a)
    BY <1>1, <2>2 DEF Send
  <2>3. CASE SendFails(a)
    BY <1>1, <2>3 DEF SendFails
  <2>4. CASE RecordCommit(a) \/ ActorDies(a)
    BY <1>2, <2>4 DEF RecordCommit, ActorDies
  <2>5. QED BY <1>4, <2>1, <2>2, <2>3, <2>4 DEF Enqueue
<1>5. ASSUME NEW a \in Recoverer, Recover(a) PROVE Undeleted'
  <2>0. a \in Actor
    BY DEF Actor
  <2>1. ASSUME NEW t \in Task, RecoverCommit(a, t) PROVE Undeleted'
    BY <1>1, <2>0, <2>1 DEF RecoverCommit
  <2>2. CASE ReleaseCommit(a)
    BY <1>1, <1>2, <2>0, <2>2 DEF ReleaseCommit
  <2>3. QED BY <1>5, <2>1, <2>2 DEF Recover
<1>6. CASE UNCHANGED actors
  BY <1>6 DEF actors, Undeleted
<1>7. ASSUME NEW w \in Worker,
             Work(w) \/ WorkerDies(w) \/ Redeliver(w) \/ Uncaught(w) \/ KillRevoked(w)
      PROVE  UNCHANGED actors
  BY <1>7 DEF Work, Receive, Refuse, Takes, Ignore, GetLease, NoLease, WaitCommit, RunLoad,
       BeginCommit, Poll, FinalLoad, FinalCommit, Raise, ExceptLoad, EndCommit, LeaveCommit,
       Finally, WorkerDies, Redeliver, Uncaught, KillRevoked
<1>8. ASSUME NEW t \in Task,
             Create(t) \/ DeletePly(t) \/ HeartbeatAges(t) \/ (\E i \in Id : DropRevoked(t, i))
      PROVE  UNCHANGED actors
  BY <1>8 DEF Create, DeletePly, HeartbeatAges, DropRevoked
<1>9. CASE UNCHANGED vars
  BY <1>6, <1>9 DEF vars
<1>10. QED BY <1>3, <1>4, <1>5, <1>6, <1>7, <1>8, <1>9 DEF Next

\* A commit takes nothing back, if what it writes does not.
LEMMA WritesLasts ==
  ASSUME Types, NEW t \in Task, NEW m \in Loaded, Writes(t, m), Honest(m),
         m.to.status \notin {"absent", "pending"} \/ m.to.status = m.from.status,
         row[t].ply => row'[t].ply \/ row'[t].deleted
  PROVE  \A u \in Task : Lasts(u)
<1>1. \A u \in Task \ {t} : Lasts(u)
  BY DEF Writes, Same, Lasts
<1>2. row[t] \in Row /\ m.to \in Row /\ m.from \in Row
  BY DEF Types, Tables, Loaded
<1>3. row[t].deleted \in BOOLEAN /\ m.to.deleted \in BOOLEAN /\ m.from.deleted \in BOOLEAN
  BY <1>2 DEF Row
<1>4. row[t].deleted => row'[t].deleted
  BY <1>3 DEF Writes, Honest
<1>5. row[t].status \notin {"absent", "pending"} => row'[t].status \notin {"absent", "pending"}
  BY DEF Writes
<1>6. QED BY <1>1, <1>4, <1>5 DEF Lasts

\* The commits of requests and recoveries take nothing back.
LEMMA ActorLasts ==
  ASSUME Types, Undeleted, NEW a \in Actor,
         EnqueueCommit(a) \/ RecordCommit(a) \/ CancelCommit(a) \/ ReleaseCommit(a)
  PROVE  \A u \in Task : Lasts(u)
<1> DEFINE t == atask[a]
           m == amem[a]
<1>1. t \in Task /\ ActorFits(apc[a], m) /\ Honest(m) /\ m \in Loaded
  BY DEF EnqueueCommit, RecordCommit, CancelCommit, ReleaseCommit, Types, Sessions, ActorFits,
         Honest
<1>2. Writes(t, m) /\ (row[t].ply => row'[t].ply \/ (CancelCommit(a) /\ m.to.deleted))
  BY ActorWrites
<1>3. m.to.status \notin {"absent", "pending"} \/ m.to.status = m.from.status
  BY <1>1 DEF EnqueueCommit, RecordCommit, CancelCommit, ReleaseCommit, ActorFits
<1>4. ASSUME CancelCommit(a), m.to.deleted PROVE row'[t].deleted
  <2>1. ~m.from.deleted
    BY <1>4 DEF CancelCommit, Undeleted
  <2>2. QED BY <1>2, <1>4, <2>1 DEF Writes
<1>5. QED BY <1>1, <1>2, <1>3, <1>4, WritesLasts

\* The commits of workers take nothing back.
LEMMA WorkerLasts ==
  ASSUME Types, NEW w \in Worker,
         \/ Commits(w) /\ wpc[w] \in Writing
         \/ BeginCommit(w) \/ FinalCommit(w)
  PROVE  \A u \in Task : Lasts(u)
<1> DEFINE t == wtask[w]
           m == wmem[w]
<1>1. wpc[w] \in Writing
  BY DEF BeginCommit, FinalCommit, Writing
<1>2. t \in Task /\ WorkerFits(wpc[w], m) /\ Honest(m) /\ m \in Loaded
  BY <1>1 DEF Types, Runs, Writing, WorkerFits, Honest
<1>3. Writes(t, m) /\ (row[t].ply => row'[t].ply)
  BY WorkerWrites
<1>4. m.to.status \notin {"absent", "pending"}
  BY <1>1, <1>2 DEF WorkerFits, Writing
<1>5. QED BY <1>2, <1>3, <1>4, WritesLasts

\* Steps that write no more than a heartbeat, the end of billing, or a recovery.
LEMMA RowLasts ==
  ASSUME Types, NEW t \in Task, NEW r \in Row, row' = [row EXCEPT ![t] = r],
         r.deleted = row[t].deleted, r.ply = row[t].ply,
         r.status = row[t].status \/ row[t].status = "absent"
           \/ r.status \notin {"absent", "pending"}
  PROVE  \A u \in Task : Lasts(u)
<1>1. row'[t] = r /\ \A u \in Task \ {t} : row'[u] = row[u]
  BY DEF Types, Tables
<1>2. QED BY <1>1 DEF Lasts

LEMMA NextLasts == Types /\ Undeleted /\ [Next]_vars => \A u \in Task : Lasts(u)
<1> SUFFICES ASSUME Types, Undeleted, [Next]_vars PROVE \A u \in Task : Lasts(u)
  OBVIOUS
<1>0. \A t \in Task : row[t] \in Row
  BY DEF Types, Tables
<1>1. CASE UNCHANGED row
  BY <1>1 DEF Lasts
<1>2. ASSUME NEW t \in Task, Create(t) PROVE \A u \in Task : Lasts(u)
  <2> DEFINE r == [row[t] EXCEPT !.status = "pending"]
  <2>1. row' = [row EXCEPT ![t] = r] /\ row[t].status = "absent"
    BY <1>2 DEF Create
  <2>2. r \in Row /\ r.deleted = row[t].deleted /\ r.ply = row[t].ply
    BY <1>0 DEF Row, Status
  <2> HIDE DEF r
  <2>3. QED BY <2>1, <2>2, RowLasts
<1>3. ASSUME NEW t \in Task, HeartbeatAges(t) PROVE \A u \in Task : Lasts(u)
  <2> DEFINE r == [row[t] EXCEPT !.beat = "stale"]
  <2>1. row' = [row EXCEPT ![t] = r]
    BY <1>3 DEF HeartbeatAges
  <2>2. r \in Row /\ r.deleted = row[t].deleted /\ r.ply = row[t].ply
        /\ r.status = row[t].status
    BY <1>0 DEF Row
  <2> HIDE DEF r
  <2>3. QED BY <2>1, <2>2, RowLasts
<1>d. ASSUME NEW t \in Task, DeletePly(t) PROVE \A u \in Task : Lasts(u)
  <2>1. /\ row'[t].deleted = row[t].deleted /\ row'[t].status = row[t].status
        /\ \A u \in Task \ {t} : row'[u] = row[u]
    BY <1>0, <1>d DEF DeletePly, Types, Tables, Row
  <2>2. QED BY <1>d, <2>1 DEF Lasts
<1>4. ASSUME NEW t \in Task, NEW i \in Id, DropRevoked(t, i) PROVE UNCHANGED row
  BY <1>4 DEF DropRevoked
<1>5. ASSUME NEW c \in Client, Request(c) PROVE \A u \in Task : Lasts(u)
  <2>1. CASE CancelCommit(c)
    BY <2>1, ActorLasts DEF Actor
  <2>2. CASE ~CancelCommit(c)
    BY <1>1, <1>5, <2>2 DEF Request, StartLoad, StartMeshLoad, Restarts, CancelLoad, DeleteLoad,
         StartQuota, Revoke
  <2>3. QED BY <2>1, <2>2
<1>6. ASSUME NEW a \in Actor, Enqueue(a) \/ ActorDies(a) PROVE \A u \in Task : Lasts(u)
  <2>1. CASE EnqueueCommit(a) \/ RecordCommit(a)
    BY <2>1, ActorLasts
  <2>2. CASE Send(a) \/ SendFails(a) \/ ActorDies(a)
    BY <1>1, <2>2 DEF Send, SendFails, ActorDies
  <2>3. QED BY <1>6, <2>1, <2>2 DEF Enqueue
<1>7. ASSUME NEW a \in Recoverer, Recover(a) PROVE \A u \in Task : Lasts(u)
  <2>1. CASE ReleaseCommit(a)
    BY <2>1, ActorLasts DEF Actor
  <2>2. ASSUME NEW t \in Task, RecoverCommit(a, t) PROVE \A u \in Task : Lasts(u)
    <3> DEFINE r == Recovered(row[t])
    <3>1. row' = [row EXCEPT ![t] = r] /\ Recoverable(row[t])
      BY <2>2 DEF RecoverCommit
    <3>2. r \in Row /\ r.deleted = row[t].deleted /\ r.ply = row[t].ply
          /\ r.status \in {"queued", "failed", "partial"}
      BY <1>0, <3>1, RecoveredRow
    <3> HIDE DEF r
    <3>3. QED BY <3>1, <3>2, RowLasts
  <2>3. QED BY <1>7, <2>1, <2>2 DEF Recover
<1>8. ASSUME NEW w \in Worker,
             Work(w) \/ WorkerDies(w) \/ Redeliver(w) \/ Uncaught(w) \/ KillRevoked(w)
      PROVE  \A u \in Task : Lasts(u)
  <2>1. CASE WaitCommit(w) \/ BeginCommit(w) \/ FinalCommit(w) \/ EndCommit(w) \/ LeaveCommit(w)
    BY <2>1, WorkerLasts DEF WaitCommit, EndCommit, LeaveCommit, Writing
  <2>2. ASSUME NEW exits \in BOOLEAN, Poll(w, exits) PROVE \A u \in Task : Lasts(u)
    <3> DEFINE t == wtask[w]
               r == Touch(row[t])
    <3>1. t \in Task
      BY <2>2 DEF Poll, Types, Runs
    <3>2. UNCHANGED row \/ row' = [row EXCEPT ![t] = r]
      BY <2>2 DEF Poll
    <3>3. r \in Row /\ r.deleted = row[t].deleted /\ r.ply = row[t].ply
          /\ r.status = row[t].status
      BY <1>0, <3>1, RowOps, RowColumns
    <3> HIDE DEF r, t
    <3>4. QED BY <1>1, <3>1, <3>2, <3>3, RowLasts
  <2>3. CASE Finally(w)
    <3> DEFINE t == wtask[w]
               r == Settled(row[t])
    <3>1. t \in Task
      BY <2>3 DEF Finally, Types, Runs
    <3>2. UNCHANGED row \/ row' = [row EXCEPT ![t] = r]
      BY <2>3 DEF Finally
    <3>3. r \in Row /\ r.deleted = row[t].deleted /\ r.ply = row[t].ply
          /\ r.status = row[t].status
      BY <1>0, <3>1, RowOps, RowColumns
    <3> HIDE DEF r, t
    <3>4. QED BY <1>1, <3>1, <3>2, <3>3, RowLasts
  <2>4. CASE \E t \in Task, i \in Id : Receive(w, t, i) \/ Refuse(w, t, i) \/ Ignore(w, t, i)
    BY <1>1, <2>4 DEF Receive, Refuse, Takes, Ignore
  <2>5. CASE \/ GetLease(w) \/ (\E inspected \in BOOLEAN : NoLease(w, inspected))
             \/ RunLoad(w) \/ (\E good \in BOOLEAN : FinalLoad(w, good))
             \/ Raise(w) \/ ExceptLoad(w)
    BY <1>1, <2>5 DEF GetLease, NoLease, RunLoad, FinalLoad, Raise, ExceptLoad
  <2>6. CASE WorkerDies(w) \/ Redeliver(w) \/ Uncaught(w) \/ KillRevoked(w)
    BY <1>1, <2>6 DEF WorkerDies, Redeliver, Uncaught, KillRevoked
  <2>7. QED BY <1>8, <2>1, <2>2, <2>3, <2>4, <2>5, <2>6 DEF Work
<1>9. CASE UNCHANGED vars
  BY <1>1, <1>9 DEF vars
<1>10. QED BY <1>1, <1>2, <1>3, <1>d, <1>4, <1>5, <1>6, <1>7, <1>8, <1>9 DEF Next

\* Whatever overlaps and whatever fails, a deletion is never taken back, a task that was started
\* is never new again, and no start, run, cancellation or recovery takes a PLY result: it goes when
\* its owner deletes it (delete_file) or the task.  A session that loaded the row before writes
\* the columns it has changed and no others.
THEOREM NothingTakenBack ==
  Spec => [][\A t \in Task :
               /\ row[t].deleted => row'[t].deleted
               /\ row[t].status \notin {"absent", "pending"} =>
                    row'[t].status \notin {"absent", "pending"}
               /\ row[t].ply => row'[t].ply \/ row'[t].deleted \/ DeletePly(t)]_vars
<1>1. Init => Types /\ Undeleted
  <2>1. Init => Undeleted
    BY DEF Init, Undeleted
  <2>2. QED BY <2>1, InitTypes
<1>2. (Types /\ Undeleted) /\ [Next]_vars => (Types /\ Undeleted)'
  BY NextTypes, NextUndeleted
<1>3. (Types /\ Undeleted) /\ [Next]_vars =>
        [\A t \in Task :
               /\ row[t].deleted => row'[t].deleted
               /\ row[t].status \notin {"absent", "pending"} =>
                    row'[t].status \notin {"absent", "pending"}
               /\ row[t].ply => row'[t].ply \/ row'[t].deleted \/ DeletePly(t)]_vars
  BY NextLasts DEF Lasts
<1>4. QED BY <1>1, <1>2, <1>3, PTL DEF Spec

-----------------------------------------------------------------------------
(* A step of one request or recovery, and of one worker *)

\* What makes a task's step keep the invariant, whoever takes it.
LEMMA ActorStep ==
  ASSUME QueuedDriven, NEW a \in Actor, UNCHANGED <<broker, workers>>,
         \A b \in Actor \ {a} :
           apc'[b] = apc[b] /\ atask'[b] = atask[b] /\ amem'[b] = amem[b],
         \A u \in Task : Onward(u) /\ row'[u].cid <= sent[u],
         apc'[a] # "idle" => /\ amem'[a].from.cid <= sent[atask'[a]]
                             /\ amem'[a].to.cid <= sent[atask'[a]],
         apc'[a] \in {"send", "record", "unsent", "release"} => Begun(row'[atask'[a]]),
         apc'[a] = "enqueue" => amem'[a].from.status # "queued" \/ Begun(row'[atask'[a]]),
         apc'[a] = "quota" => amem'[a].from.status # "queued",
         \A u \in Task : row'[u].status = "queued" /\ ~row'[u].deleted =>
           \/ Sends(a, u)'
           \/ row[u].status = "queued" /\ ~Sends(a, u)
  PROVE  QueuedDriven' \/ ~Types'
<1>0. SUFFICES ASSUME Types' PROVE Numbered' /\ Underway' /\
        \A u \in Task : row'[u].status = "queued" /\ ~row'[u].deleted => Driven(u)'
  BY DEF QueuedDriven
<1>1. \A b \in Actor : apc[b] # "idle" => atask[b] \in Task
  BY DEF QueuedDriven, Types, Sessions
<1>2. Numbered'
  BY DEF QueuedDriven, Numbered, broker, workers
<1>3. \A u \in Task : Begun(row[u]) => Begun(row'[u])
  BY DEF Onward, Begun
<1>4. Underway'
  <2>1. \A t \in Task : sent'[t] > 0 => Begun(row'[t])
    BY <1>3 DEF QueuedDriven, Underway, broker
  <2>2. ASSUME NEW b \in Actor
        PROVE  /\ apc'[b] \in {"send", "record", "unsent", "release"} => Begun(row'[atask'[b]])
               /\ apc'[b] = "enqueue" => amem'[b].from.status # "queued" \/ Begun(row'[atask'[b]])
               /\ apc'[b] = "quota" => amem'[b].from.status # "queued"
    <3>1. CASE b = a
      BY <3>1
    <3>2. CASE b # a
      <4>1. apc'[b] = apc[b] /\ atask'[b] = atask[b] /\ amem'[b] = amem[b]
        BY <3>2
      <4>2. apc[b] # "idle" /\ Begun(row[atask[b]]) => Begun(row'[atask[b]])
        BY <1>1, <1>3
      <4>3. QED BY <4>1, <4>2 DEF QueuedDriven, Underway
    <3>3. QED BY <3>1, <3>2
  <2>3. \A w \in Worker : wpc'[w] = "wait" => wmem'[w].from.status = "queued"
    BY DEF QueuedDriven, Underway, workers
  <2>4. QED BY <2>1, <2>2, <2>3 DEF Underway
<1>5. ASSUME NEW u \in Task, row'[u].status = "queued", ~row'[u].deleted
      PROVE  Driven(u)'
  <2>1. CASE Sends(a, u)'
    BY <2>1 DEF Driven
  <2>2. CASE row[u].status = "queued" /\ ~Sends(a, u)
    <3>1. Driven(u)
      BY <1>5, <2>2 DEF Onward, QueuedDriven
    <3>2. Waits(u) => Waits(u)'
      BY DEF Waits, broker
    <3>3. \A w \in Worker : Carries(w, u) => Carries(w, u)'
      BY DEF Carries, broker, workers
    <3>4. \A b \in Actor \ {a} : Sends(b, u) => Sends(b, u)'
      BY DEF Sends
    <3>5. QED BY <2>2, <3>1, <3>2, <3>3, <3>4 DEF Driven
  <2>3. QED BY <1>5, <2>1, <2>2
<1>6. QED BY <1>2, <1>4, <1>5

\* The same, for a worker.
LEMMA WorkerStep ==
  ASSUME QueuedDriven, NEW w \in Worker, UNCHANGED <<actors, sent, revoked, killed>>,
         \A v \in Worker \ {w} : /\ wpc'[v] = wpc[v] /\ wtask'[v] = wtask[v]
                                 /\ wmsg'[v] = wmsg[v] /\ wmem'[v] = wmem[v],
         \A u \in Task : /\ Onward(u) /\ row'[u].cid <= sent[u]
                         /\ queue'[u] \subseteq 1..sent[u],
         wpc'[w] # "idle" => wmsg'[w] <= sent[wtask'[w]],
         wpc'[w] = "wait" => wmem'[w].from.status = "queued",
         \A u \in Task : row'[u].status = "queued" /\ ~row'[u].deleted =>
           /\ row[u].status = "queued"
           /\ Waits(u) => Waits(u)' \/ Carries(w, u)'
           /\ Carries(w, u) => Waits(u)' \/ Carries(w, u)'
  PROVE  QueuedDriven' \/ ~Types'
<1>0. SUFFICES ASSUME Types' PROVE Numbered' /\ Underway' /\
        \A u \in Task : row'[u].status = "queued" /\ ~row'[u].deleted => Driven(u)'
  BY DEF QueuedDriven
<1>1. \A b \in Actor : apc[b] # "idle" => atask[b] \in Task
  BY DEF QueuedDriven, Types, Sessions
<1>2. Numbered'
  <2>1. \A t \in Task : /\ row'[t].cid <= sent'[t]
                        /\ queue'[t] \subseteq 1..sent'[t]
                        /\ revoked'[t] \subseteq 1..sent'[t] /\ killed'[t] \subseteq revoked'[t]
    BY DEF QueuedDriven, Numbered
  <2>2. \A a \in Actor : apc'[a] # "idle" => /\ amem'[a].from.cid <= sent'[atask'[a]]
                                             /\ amem'[a].to.cid <= sent'[atask'[a]]
    BY DEF QueuedDriven, Numbered, actors
  <2>3. \A v \in Worker : wpc'[v] # "idle" => wmsg'[v] <= sent'[wtask'[v]]
    BY DEF QueuedDriven, Numbered
  <2>4. QED BY <2>1, <2>2, <2>3 DEF Numbered
<1>3. \A u \in Task : Begun(row[u]) => Begun(row'[u])
  BY DEF Onward, Begun
<1>4. Underway'
  <2>1. \A t \in Task : sent'[t] > 0 => Begun(row'[t])
    BY <1>3 DEF QueuedDriven, Underway
  <2>2. ASSUME NEW b \in Actor
        PROVE  /\ apc'[b] \in {"send", "record", "unsent", "release"} => Begun(row'[atask'[b]])
               /\ apc'[b] = "enqueue" => amem'[b].from.status # "queued" \/ Begun(row'[atask'[b]])
               /\ apc'[b] = "quota" => amem'[b].from.status # "queued"
    BY <1>1, <1>3 DEF QueuedDriven, Underway, actors
  <2>3. \A v \in Worker : wpc'[v] = "wait" => wmem'[v].from.status = "queued"
    BY DEF QueuedDriven, Underway
  <2>4. QED BY <2>1, <2>2, <2>3 DEF Underway
<1>5. ASSUME NEW u \in Task, row'[u].status = "queued", ~row'[u].deleted
      PROVE  Driven(u)'
  <2>1. Driven(u)
    BY <1>5 DEF Onward, QueuedDriven
  <2>2. Waits(u)' \/ Carries(w, u)' => Driven(u)'
    BY DEF Driven
  <2>3. \A v \in Worker \ {w} : Carries(v, u) => Carries(v, u)'
    BY DEF Carries
  <2>4. \A b \in Actor : Sends(b, u) => Sends(b, u)'
    BY DEF Sends, actors
  <2>5. QED BY <1>5, <2>1, <2>2, <2>3, <2>4 DEF Driven
<1>6. QED BY <1>2, <1>4, <1>5

\* What a worker's commit does to the columns that matter: a task it leaves queued was.
LEMMA WorkerRows ==
  ASSUME QueuedDriven, NEW w \in Worker, wpc[w] \in Writing, Writes(wtask[w], wmem[w])
  PROVE  /\ \A u \in Task : /\ Onward(u) /\ row'[u].cid <= sent[u]
                            /\ row'[u].status = "queued" => row[u].status = "queued"
         /\ row'[wtask[w]].status = "queued" => \/ wpc[w] = "wait"
                                                \/ wmem[w].to.status = wmem[w].from.status
<1> DEFINE t == wtask[w]
           m == wmem[w]
<1>1. t \in Task /\ WorkerFits(wpc[w], m)
  BY DEF QueuedDriven, Types, Runs, Writing
<1>2. /\ row'[t].cid = row[t].cid
      /\ row'[t].deleted = row[t].deleted
  BY <1>1 DEF Writes, WorkerFits
<1>3. /\ m.to.status \notin {"absent", "pending"}
      /\ m.to.status = "queued" => wpc[w] = "wait"
  BY <1>1 DEF WorkerFits, Writing
<1>4. /\ wpc[w] = "wait" => m.from.status = "queued" /\ m.to.status = "queued"
      /\ row'[t].status = IF m.to.status = m.from.status THEN row[t].status ELSE m.to.status
  BY <1>1 DEF QueuedDriven, Underway, WorkerFits, Writes
<1>5. \A u \in Task : row[u].cid <= sent[u]
  BY DEF QueuedDriven, Numbered
<1>6. \A u \in Task \ {t} : row'[u] = row[u]
  BY DEF Writes, Same
<1>7. QED BY <1>1, <1>2, <1>3, <1>4, <1>5, <1>6 DEF Onward

\* What holds of every task when the table stays.
LEMMA RowsStay ==
  ASSUME QueuedDriven, UNCHANGED row
  PROVE  \A u \in Task : Onward(u) /\ row'[u].cid <= sent[u] /\ queue[u] \subseteq 1..sent[u]
BY DEF QueuedDriven, Numbered, Onward

-----------------------------------------------------------------------------
(* Queued tasks stay driven, action by action *)

\* A message is taken.
LEMMA ReceiveQueued ==
  ASSUME QueuedDriven, NEW w \in Worker, NEW t \in Task, NEW i \in Id,
         Receive(w, t, i) \/ Refuse(w, t, i)
  PROVE  QueuedDriven' \/ ~Types'
<1> DEFINE f == StageFailed(row[t])
<1>1. /\ wpc[w] = "idle" /\ i \in queue[t] /\ row[t].status \in {"pending", "queued"}
      /\ queue' = [queue EXCEPT ![t] = @ \ {i}]
      /\ UNCHANGED <<row, sent, revoked, killed, lock, actors, faults, cancels>>
  BY DEF Receive, Refuse, Takes
<1>2. PICK pc \in {"acquire", "refuse"}, m \in Memory :
        /\ Takes(w, t, i, pc, m)
        /\ pc \in Writing => WorkerFits(pc, m)
  <2>1. row[t] \in Row
    BY DEF QueuedDriven, Types, Tables
  <2>2. /\ f \in Row /\ f.status \in {"failed", "partial"} /\ (f.status = "failed" => ~row[t].ply)
        /\ f.cid = row[t].cid /\ f.ply = row[t].ply /\ f.deleted = row[t].deleted
    BY <2>1, StagedRow
  <2> HIDE DEF f
  <2>3. /\ Load(t, f) \in Loaded /\ Load(t, f) \in Memory
        /\ Load(t, f).from = row[t] /\ Load(t, f).to = f
    BY <2>2, LoadedRow DEF QueuedDriven, Types
  <2>4. WorkerFits("refuse", Load(t, f))
    BY <1>1, <2>2, <2>3 DEF WorkerFits, Honest
  <2>5. CASE Receive(w, t, i)
    BY <2>5 DEF Receive, Memory, Writing
  <2>6. CASE Refuse(w, t, i)
    BY <2>3, <2>4, <2>6 DEF Refuse, f
  <2>7. QED BY <2>5, <2>6
<1>3. \A v \in Worker : /\ wpc'[v]   = IF v = w THEN pc ELSE wpc[v]
                        /\ wtask'[v] = IF v = w THEN t ELSE wtask[v]
                        /\ wmsg'[v]  = IF v = w THEN i ELSE wmsg[v]
                        /\ wmem'[v]  = IF v = w THEN m ELSE wmem[v]
  BY <1>2, TakesRuns DEF QueuedDriven, WorkerSteps
<1>4. \A u \in Task : queue'[u] = IF u = t THEN queue[t] \ {i} ELSE queue[u]
  BY <1>1 DEF QueuedDriven, Types, Tables
<1>5. i <= sent[t] /\ \A u \in Task : Onward(u) /\ row'[u].cid <= sent[u]
                                      /\ queue'[u] \subseteq 1..sent[u]
  BY <1>1, <1>4, RowsStay
<1>6. ~ \E u \in Task : Carries(w, u)
  BY <1>1 DEF Carries
<1>7. \A u \in Task : Waits(u) => Waits(u)' \/ Carries(w, u)'
  BY <1>1, <1>3, <1>4 DEF Waits, Carries
<1>8. QED BY <1>1, <1>3, <1>5, <1>6, <1>7, WorkerStep

\* A message is dropped.
LEMMA DropQueued ==
  ASSUME QueuedDriven, NEW t \in Task, NEW i \in Id,
         DropRevoked(t, i) \/ \E w \in Worker : Ignore(w, t, i)
  PROVE  QueuedDriven' \/ ~Types'
<1>1. /\ UNCHANGED <<row, sent, revoked, killed, lock, actors, workers, faults, cancels>>
      /\ queue' = [queue EXCEPT ![t] = @ \ {i}]
      /\ i \in revoked[t] \/ row[t].status # "queued"
  BY DEF DropRevoked, Ignore
<1>2. \A u \in Task : queue'[u] = IF u = t THEN queue[t] \ {i} ELSE queue[u]
  BY <1>1 DEF QueuedDriven, Types, Tables
<1>3. Numbered' /\ Underway'
  BY <1>1, <1>2 DEF QueuedDriven, Numbered, Underway, actors, workers
<1>4. ASSUME NEW u \in Task, row'[u].status = "queued", ~row'[u].deleted
      PROVE  Driven(u)'
  <2>1. Driven(u)
    BY <1>1, <1>4 DEF QueuedDriven
  <2>2. Waits(u) => Waits(u)'
    BY <1>1, <1>2, <1>4 DEF Waits
  <2>3. QED BY <1>1, <2>1, <2>2 DEF Driven, Carries, Sends, actors, workers
<1>5. QED BY <1>3, <1>4 DEF QueuedDriven

\* A worker goes on with its message, and commits nothing.
LEMMA WorksQueued ==
  ASSUME QueuedDriven, NEW w \in Worker, wpc[w] # "idle", NEW pc, NEW m,
         Works(w, pc, m), UNCHANGED <<broker, actors>>,
         \A u \in Task : /\ Onward(u) /\ row'[u].cid <= sent[u]
                         /\ row'[u].status = "queued" => row[u].status = "queued",
         pc = "wait" => m.from.status = "queued",
         row'[wtask[w]].status = "queued" /\ ~row'[wtask[w]].deleted =>
           (Carries(w, wtask[w]) => \/ pc \in {"acquire", "leased", "wait", "refuse"}
                                    \/ pc = "begin" /\ m.from.status # "processing"
                                    \/ pc = "early" /\ m.from.status # "cancelled")
  PROVE  QueuedDriven' \/ ~Types'
<1>1. \A v \in Worker : /\ wpc'[v]  = IF v = w THEN pc ELSE wpc[v]
                        /\ wmem'[v] = IF v = w THEN m ELSE wmem[v]
                        /\ wtask'[v] = wtask[v] /\ wmsg'[v] = wmsg[v]
  BY DEF Works, QueuedDriven, Types, Runs
<1>2. wmsg[w] <= sent[wtask[w]] /\ \A u \in Task : queue[u] \subseteq 1..sent[u]
  BY DEF QueuedDriven, Numbered
<1>3. \A u \in Task : Waits(u) => Waits(u)'
  BY DEF Waits, broker
<1>4. \A u \in Task : row'[u].status = "queued" /\ ~row'[u].deleted /\ Carries(w, u)
        => Carries(w, u)'
  BY <1>1 DEF Carries, broker
<1>5. UNCHANGED <<actors, sent, revoked, killed, queue>>
  BY DEF broker
<1>6. QED BY <1>1, <1>2, <1>3, <1>4, <1>5, WorkerStep

\* A worker is done with its message, which may be back in the queue.
LEMMA AcksQueued ==
  ASSUME QueuedDriven, NEW w \in Worker, wpc[w] # "idle", Acks(w),
         UNCHANGED <<actors, sent, revoked, killed>>,
         \A u \in Task : /\ Onward(u) /\ row'[u].cid <= sent[u]
                         /\ row'[u].status = "queued" => row[u].status = "queued",
         \/ queue' = [queue EXCEPT ![wtask[w]] = @ \cup {wmsg[w]}]
         \/ queue' = queue /\ (row'[wtask[w]].status = "queued" /\ ~row'[wtask[w]].deleted =>
                                ~Carries(w, wtask[w]))
  PROVE  QueuedDriven' \/ ~Types'
<1> DEFINE t == wtask[w]
<1>1. \A v \in Worker : /\ wpc'[v]   = IF v = w THEN "idle" ELSE wpc[v]
                        /\ wtask'[v] = IF v = w THEN None ELSE wtask[v]
                        /\ wmsg'[v]  = IF v = w THEN NoId ELSE wmsg[v]
                        /\ wmem'[v]  = IF v = w THEN None ELSE wmem[v]
  BY AcksRuns DEF QueuedDriven, Types
<1>2. /\ t \in Task /\ wmsg[w] \in 1..sent[t]
      /\ \A u \in Task : queue[u] \subseteq 1..sent[u]
  BY DEF QueuedDriven, Numbered, Types, Runs, Tables, Id
<1>3. \A u \in Task : /\ queue[u] \subseteq queue'[u] /\ queue'[u] \subseteq 1..sent[u]
                      /\ queue'[u] # queue[u] => wmsg[w] \in queue'[u]
                      /\ queue' # queue => wmsg[w] \in queue'[t]
  BY <1>2 DEF QueuedDriven, Types, Tables
<1>4. \A u \in Task : Waits(u) => Waits(u)'
  BY <1>3 DEF Waits
<1>5. \A u \in Task : row'[u].status = "queued" /\ ~row'[u].deleted /\ Carries(w, u)
        => Waits(u)'
  BY <1>2, <1>3 DEF Carries, Waits, QueuedDriven, Types, Tables
<1>6. QED BY <1>1, <1>3, <1>4, <1>5, WorkerStep

\* A GPU is there, or not.
LEMMA LeaseQueued ==
  ASSUME QueuedDriven, NEW w \in Worker, GetLease(w) \/ \E i \in BOOLEAN : NoLease(w, i)
  PROVE  QueuedDriven' \/ ~Types'
<1> DEFINE t == wtask[w]
<1>1. wpc[w] = "acquire" /\ t \in Task /\ row[t] \in Row
  BY DEF GetLease, NoLease, QueuedDriven, Types, Runs, Tables
<1>2. UNCHANGED <<row, broker, lock, actors, faults, cancels>>
  BY DEF GetLease, NoLease
<1>3. \A u \in Task : Onward(u) /\ row'[u].cid <= sent[u]
  BY <1>2, RowsStay
<1>4. CASE Works(w, "leased", None)
  BY <1>1, <1>2, <1>3, <1>4, WorksQueued
<1>5. CASE Acks(w) /\ row[t].status \notin {"pending", "queued"}
  BY <1>1, <1>2, <1>3, <1>5, AcksQueued DEF broker
<1>6. ASSUME row[t].status \in {"pending", "queued"}, NEW pc \in {"wait", "refuse"}, NEW r,
             Works(w, pc, Load(t, r))
      PROVE  QueuedDriven' \/ ~Types'
  <2>1. row[t].status = "queued"
    <3>1. wmsg[w] \in 1..sent[t]
      BY <1>1 DEF QueuedDriven, Numbered, Types, Runs, Tables, Id
    <3>2. sent[t] > 0
      BY <1>1, <3>1 DEF QueuedDriven, Types, Tables
    <3>3. QED BY <1>1, <1>6, <3>2 DEF QueuedDriven, Underway, Begun
  <2>2. Load(t, r).from.status = "queued"
    BY <2>1 DEF Load
  <2>3. QED BY <1>1, <1>2, <1>3, <1>6, <2>2, WorksQueued
<1>7. \/ Works(w, "leased", None)
      \/ Acks(w) /\ row[t].status \notin {"pending", "queued"}
      \/ /\ row[t].status \in {"pending", "queued"}
         /\ \E pc \in {"wait", "refuse"} : \E r : Works(w, pc, Load(t, r))
  BY DEF GetLease, NoLease, Task0
<1>8. QED BY <1>4, <1>5, <1>6, <1>7

\* The task waits, and its message is sent again.
LEMMA WaitCommitQueued ==
  ASSUME QueuedDriven, NEW w \in Worker, WaitCommit(w)
  PROVE  QueuedDriven' \/ ~Types'
<1>1. wpc[w] = "wait" /\ wpc[w] \in Writing /\ Commits(w) /\ Acks(w)
  BY DEF WaitCommit, Writing
<1>2. Writes(wtask[w], wmem[w])
  BY <1>1, WorkerWrites DEF QueuedDriven
<1>3. QED BY <1>1, <1>2, WorkerRows, AcksQueued DEF WaitCommit

\* A run loads its task.
LEMMA RunLoadQueued ==
  ASSUME QueuedDriven, NEW w \in Worker, RunLoad(w)
  PROVE  QueuedDriven' \/ ~Types'
<1> DEFINE t == wtask[w]
<1>1. wpc[w] = "leased" /\ UNCHANGED <<row, broker, lock, actors, faults, cancels>>
  BY DEF RunLoad
<1>2. \A u \in Task : Onward(u) /\ row'[u].cid <= sent[u]
  BY <1>1, RowsStay
<1>3. PICK r, s : \/ Works(w, "early", Load(t, r))
                  \/ Acks(w) /\ row[t].status # "queued"
                  \/ Works(w, "begin", Load(t, s))
  BY DEF RunLoad, Task0
<1>4. Load(t, r).from = row[t] /\ Load(t, s).from = row[t]
  BY DEF Load
<1>5. CASE Works(w, "early", Load(t, r))
  BY <1>1, <1>2, <1>4, <1>5, WorksQueued
<1>6. CASE Acks(w) /\ row[t].status # "queued"
  BY <1>1, <1>2, <1>6, AcksQueued DEF broker
<1>7. CASE Works(w, "begin", Load(t, s))
  BY <1>1, <1>2, <1>4, <1>7, WorksQueued
<1>8. QED BY <1>3, <1>5, <1>6, <1>7

\* A run begins, or its end is committed.
LEMMA RunCommitQueued ==
  ASSUME QueuedDriven, NEW w \in Worker, BeginCommit(w) \/ FinalCommit(w) \/ EndCommit(w)
  PROVE  QueuedDriven' \/ ~Types'
<1>1. /\ wpc[w] \in Writing \ {"wait"} /\ wpc[w] # "idle"
      /\ \E pc \in {"exec", "finally"} : Works(w, pc, None)
      /\ UNCHANGED <<broker, lock, actors, faults, cancels>>
  BY DEF BeginCommit, FinalCommit, EndCommit, Writing
<1>2. Writes(wtask[w], wmem[w])
  BY <1>1, WorkerWrites DEF QueuedDriven, EndCommit
<1>3. /\ \A u \in Task : /\ Onward(u) /\ row'[u].cid <= sent[u]
                         /\ row'[u].status = "queued" => row[u].status = "queued"
      /\ row'[wtask[w]].status = "queued" => wmem[w].to.status = wmem[w].from.status
  BY <1>1, <1>2, WorkerRows
<1>4. row'[wtask[w]].status = "queued" => ~Carries(w, wtask[w])
  BY <1>3 DEF Carries, BeginCommit, FinalCommit, EndCommit, QueuedDriven, Types, Runs,
              Writing, WorkerFits
<1>5. QED BY <1>1, <1>3, <1>4, WorksQueued

\* A run goes on, ends or raises, and commits nothing but a heartbeat.
LEMMA RunQueued ==
  ASSUME QueuedDriven, NEW w \in Worker,
         \/ \E exits \in BOOLEAN : Poll(w, exits)
         \/ \E good \in BOOLEAN : FinalLoad(w, good)
         \/ Raise(w) \/ ExceptLoad(w)
  PROVE  QueuedDriven' \/ ~Types'
<1> DEFINE t == wtask[w]
<1>1. /\ wpc[w] \in {"exec", "exited", "stop", "final", "except"}
      /\ UNCHANGED <<broker, lock, actors, faults, cancels>>
      /\ row' = row \/ row' = [row EXCEPT ![t] = Touch(@)]
      /\ \/ \E pc \in {"stop", "exited", "final", "except", "fail"} : \E m : Works(w, pc, m)
         \/ UNCHANGED workers
  BY DEF Poll, FinalLoad, Raise, ExceptLoad
<1>2. t \in Task /\ row[t] \in Row
  BY <1>1 DEF QueuedDriven, Types, Runs, Tables
<1>3. \A u \in Task : /\ row'[u].status = row[u].status /\ row'[u].cid = row[u].cid
                      /\ row'[u].deleted = row[u].deleted
  <2>1. /\ Touch(row[t]).status = row[t].status /\ Touch(row[t]).cid = row[t].cid
        /\ Touch(row[t]).deleted = row[t].deleted
    BY <1>2, RowColumns
  <2>2. \A u \in Task : row'[u] = row[u] \/ (u = t /\ row'[u] = Touch(row[t]))
    BY <1>1, <1>2 DEF QueuedDriven, Types, Tables
  <2>3. QED BY <2>1, <2>2
<1>4. \A u \in Task : Onward(u) /\ row'[u].cid <= sent[u]
  BY <1>3 DEF Onward, QueuedDriven, Numbered
<1>5. \A u \in Task : ~Carries(w, u)
  BY <1>1 DEF Carries
<1>6. CASE UNCHANGED workers
  <2>1. /\ wpc[w] # "idle" => wmsg[w] <= sent[wtask[w]]
        /\ \A u \in Task : queue[u] \subseteq 1..sent[u]
    BY DEF QueuedDriven, Numbered
  <2>2. \A u \in Task : Waits(u) => Waits(u)'
    BY <1>1 DEF Waits, broker
  <2>3. QED BY <1>1, <1>3, <1>4, <1>5, <1>6, <2>1, <2>2, WorkerStep DEF workers, broker
<1>7. ASSUME NEW pc \in {"stop", "exited", "final", "except", "fail"}, NEW m, Works(w, pc, m)
      PROVE  QueuedDriven' \/ ~Types'
  <2>1. \A u \in Task : row'[u].status = "queued" => row[u].status = "queued"
    BY <1>3
  <2>2. QED BY <1>1, <1>4, <1>5, <1>2, <1>7, <2>1, WorksQueued
<1>8. QED BY <1>1, <1>6, <1>7

\* A worker is done with its message.
LEMMA LeaveQueued ==
  ASSUME QueuedDriven, NEW w \in Worker, LeaveCommit(w) \/ Finally(w) \/ KillRevoked(w)
  PROVE  QueuedDriven' \/ ~Types'
<1> DEFINE t == wtask[w]
<1>1. /\ Acks(w) /\ UNCHANGED <<broker, lock, actors, faults, cancels>>
      /\ wpc[w] # "idle" /\ t \in Task
  BY DEF LeaveCommit, Finally, KillRevoked, QueuedDriven, Types, Runs
<1>2. CASE LeaveCommit(w)
  <2>1. wpc[w] \in {"refuse", "early"} /\ wpc[w] \in Writing /\ Commits(w)
    BY <1>2 DEF LeaveCommit, Writing
  <2>2. Writes(t, wmem[w])
    BY <2>1, WorkerWrites DEF QueuedDriven
  <2>3. /\ \A u \in Task : /\ Onward(u) /\ row'[u].cid <= sent[u]
                           /\ row'[u].status = "queued" => row[u].status = "queued"
        /\ row'[t].status = "queued" => wmem[w].to.status = wmem[w].from.status
    BY <2>1, <2>2, WorkerRows
  <2>4. row'[t].status = "queued" => ~Carries(w, t)
    BY <2>1, <2>3 DEF Carries, QueuedDriven, Types, Runs, WorkerFits
  <2>5. QED BY <1>1, <2>3, <2>4, AcksQueued DEF broker
<1>3. CASE Finally(w)
  <2>1. wpc[w] = "finally" /\ row[t] \in Row
    BY <1>1, <1>3 DEF Finally, QueuedDriven, Types, Tables
  <2>2. /\ Settled(row[t]).status = row[t].status /\ Settled(row[t]).cid = row[t].cid
        /\ Settled(row[t]).deleted = row[t].deleted
    BY <2>1, RowColumns
  <2>3. \A u \in Task : row'[u] = row[u] \/ (u = t /\ row'[u] = Settled(row[t]))
    BY <1>1, <1>3 DEF Finally, QueuedDriven, Types, Tables
  <2>4. \A u \in Task : /\ Onward(u) /\ row'[u].cid <= sent[u]
                        /\ row'[u].status = "queued" => row[u].status = "queued"
    BY <2>2, <2>3 DEF Onward, QueuedDriven, Numbered
  <2>5. ~Carries(w, t)
    BY <2>1 DEF Carries
  <2>6. QED BY <1>1, <2>4, <2>5, AcksQueued DEF broker
<1>4. CASE KillRevoked(w)
  <2>1. row' = row /\ wmsg[w] \in revoked[t]
    BY <1>1, <1>4 DEF KillRevoked, QueuedDriven, Numbered
  <2>2. ~Carries(w, t)
    BY <2>1 DEF Carries
  <2>3. \A u \in Task : Onward(u) /\ row'[u].cid <= sent[u]
    BY <2>1, RowsStay
  <2>4. QED BY <1>1, <2>1, <2>2, <2>3, AcksQueued DEF broker
<1>5. QED BY <1>2, <1>3, <1>4

\* A worker dies, or its message is delivered again; no exception ends a message.
LEMMA FaultQueued ==
  ASSUME QueuedDriven, Delivered, NEW w \in Worker,
         WorkerDies(w) \/ Redeliver(w) \/ Uncaught(w)
  PROVE  QueuedDriven' \/ ~Types'
<1>1. ~Uncaught(w)
  BY DEF Uncaught, Fault, Delivered
<1>2. /\ wpc[w] # "idle" /\ UNCHANGED <<row, lock, actors, sent, revoked, killed>>
      /\ queue' = [queue EXCEPT ![wtask[w]] = @ \cup {wmsg[w]}]
  BY <1>1 DEF WorkerDies, Redeliver, Fault
<1>3. \A u \in Task : Onward(u) /\ row'[u].cid <= sent[u]
  BY <1>2, RowsStay
<1>4. CASE WorkerDies(w)
  BY <1>2, <1>3, <1>4, AcksQueued DEF WorkerDies
<1>5. CASE Redeliver(w)
  <2>1. /\ wtask[w] \in Task /\ wmsg[w] \in 1..sent[wtask[w]]
        /\ \A u \in Task : queue[u] \subseteq 1..sent[u]
    BY <1>2 DEF QueuedDriven, Numbered, Types, Runs, Tables, Id
  <2>2. \A u \in Task : queue[u] \subseteq queue'[u] /\ queue'[u] \subseteq 1..sent[u]
    BY <1>2, <2>1 DEF QueuedDriven, Types, Tables
  <2>3. UNCHANGED workers
    BY <1>5 DEF Redeliver
  <2>4. \A u \in Task : Waits(u) => Waits(u)'
    BY <1>2, <2>2 DEF Waits
  <2>5. \A u \in Task : Carries(w, u) => Carries(w, u)'
    BY <1>2, <2>3 DEF Carries, workers
  <2>6. \A v \in Worker : wpc[v] = "wait" => wmem[v].from.status = "queued"
    BY DEF QueuedDriven, Underway
  <2>7. wmsg[w] <= sent[wtask[w]]
    BY <1>2 DEF QueuedDriven, Numbered
  <2>8. QED BY <1>2, <1>3, <2>2, <2>3, <2>4, <2>5, <2>6, <2>7, WorkerStep DEF workers
<1>6. QED BY <1>1, <1>4, <1>5

\* A task is created, its PLY is deleted, or its heartbeat ages.
LEMMA TaskQueued ==
  ASSUME QueuedDriven, NEW t \in Task, Create(t) \/ DeletePly(t) \/ HeartbeatAges(t)
  PROVE  QueuedDriven' \/ ~Types'
<1> SUFFICES ASSUME Types' PROVE QueuedDriven'
  OBVIOUS
<1>1. UNCHANGED <<broker, lock, actors, workers, faults, cancels>>
  BY DEF Create, DeletePly, HeartbeatAges
<1>2. row[t] \in Row
  BY DEF QueuedDriven, Types, Tables
<1>3. \A u \in Task : /\ row'[u].cid = row[u].cid /\ row'[u].deleted = row[u].deleted
                      /\ \/ row'[u].status = row[u].status
                         \/ row[u].status = "absent" /\ row'[u].status = "pending"
  <2>1. \A u \in Task \ {t} : row'[u] = row[u]
    BY DEF Create, DeletePly, HeartbeatAges, QueuedDriven, Types, Tables
  <2>2. /\ row'[t].cid = row[t].cid /\ row'[t].deleted = row[t].deleted
        /\ \/ row'[t].status = row[t].status
           \/ row[t].status = "absent" /\ row'[t].status = "pending"
    BY <1>2 DEF Create, DeletePly, HeartbeatAges, QueuedDriven, Types, Tables, Row
  <2>3. QED BY <2>1, <2>2
<1>4. Numbered'
  BY <1>1, <1>3 DEF QueuedDriven, Numbered, broker, actors, workers
<1>5. \A u \in Task : Begun(row[u]) => Begun(row'[u])
  BY <1>3 DEF Begun
<1>6. Underway'
  BY <1>1, <1>5 DEF QueuedDriven, Underway, broker, actors, workers, Types, Sessions
<1>7. ASSUME NEW u \in Task, row'[u].status = "queued", ~row'[u].deleted
      PROVE  Driven(u)'
  <2>1. Driven(u)
    BY <1>3, <1>7 DEF QueuedDriven
  <2>2. QED BY <1>1, <2>1 DEF Driven, Waits, Carries, Sends, broker, actors, workers
<1>8. QED BY <1>4, <1>6, <1>7 DEF QueuedDriven

\* A start, a cancel or a deletion loads its task.
LEMMA LoadQueued ==
  ASSUME QueuedDriven, NEW c \in Client, NEW t \in Task,
         \/ StartLoad(c, t) \/ StartMeshLoad(c, t) \/ CancelLoad(c, t) \/ DeleteLoad(c, t)
  PROVE  QueuedDriven' \/ ~Types'
<1> SUFFICES ASSUME Types' PROVE QueuedDriven'
  OBVIOUS
<1>1. /\ apc[c] = "idle" /\ UNCHANGED <<row, broker, lock, workers>>
      /\ c \in Actor
  BY DEF StartLoad, StartMeshLoad, Restarts, CancelLoad, DeleteLoad, Actor
<1>2. PICK pc, r :
        /\ pc \in {"quota", "revoke", "cancel"}
        /\ Goes(c, pc, t, Load(t, r))
        /\ pc = "quota" => row[t].status # "queued"
  <2>1. CASE StartLoad(c, t) \/ StartMeshLoad(c, t)
    <3>1. PICK mesh \in BOOLEAN : Restarts(c, t, mesh)
      BY <2>1 DEF StartLoad, StartMeshLoad
    <3>2. Goes(c, "quota", t, Load(t, Queued(Started(row[t], mesh))))
      BY <3>1 DEF Restarts
    <3>3. row[t].status # "queued"
      BY <2>1 DEF StartLoad, StartMeshLoad
    <3>4. QED BY <3>2, <3>3
  <2>2. CASE CancelLoad(c, t)
    <3>1. \E r : Goes(c, "revoke", t, Load(t, r))
      BY <2>2 DEF CancelLoad
    <3>2. QED BY <3>1
  <2>3. CASE DeleteLoad(c, t)
    <3>1. \E r : Goes(c, "revoke", t, Load(t, r)) \/ Goes(c, "cancel", t, Load(t, r))
      BY <2>3 DEF DeleteLoad
    <3>2. QED BY <3>1
  <2>4. QED BY <2>1, <2>2, <2>3
<1>3. Load(t, r).from = row[t]
  BY DEF Load
<1>4. /\ \A b \in Actor \ {c} : apc'[b] = apc[b] /\ atask'[b] = atask[b] /\ amem'[b] = amem[b]
      /\ apc'[c] = pc /\ atask'[c] = t /\ amem'[c] = Load(t, r)
  BY <1>1, <1>2 DEF Goes, QueuedDriven, Types, Sessions
<1>5. row[t].cid <= sent[t] /\ \A u \in Task : Onward(u) /\ row'[u].cid <= sent[u]
  BY <1>1, RowsStay DEF QueuedDriven, Numbered
<1>6. Load(t, r).to.cid <= sent[t]
  <2>1. ActorFits(pc, Load(t, r))
    BY <1>1, <1>2, <1>4 DEF Types, Sessions
  <2>2. sent[t] \in Nat
    BY DEF QueuedDriven, Types, Tables
  <2>3. CASE pc = "quota"
    BY <2>1, <2>2, <2>3 DEF ActorFits, Dispatching
  <2>4. CASE pc # "quota"
    BY <1>2, <1>3, <1>5, <2>1, <2>4 DEF ActorFits
  <2>5. QED BY <2>3, <2>4
<1>7. \A u \in Task : ~Sends(c, u)
  BY <1>1 DEF Sends
<1>8. QED BY <1>1, <1>2, <1>3, <1>4, <1>5, <1>6, <1>7, ActorStep

\* The user is locked and the tasks are counted.
LEMMA StartQuotaQueued ==
  ASSUME QueuedDriven, NEW c \in Client, StartQuota(c)
  PROVE  QueuedDriven' \/ ~Types'
<1>1. c \in Actor /\ apc[c] = "quota" /\ UNCHANGED <<row, broker, workers>>
  BY DEF StartQuota, Actor
<1>2. /\ \A b \in Actor \ {c} : apc'[b] = apc[b] /\ atask'[b] = atask[b] /\ amem'[b] = amem[b]
      /\ \/ apc'[c] = "enqueue" /\ atask'[c] = atask[c] /\ amem'[c] = amem[c]
         \/ apc'[c] = "idle"
  BY <1>1 DEF StartQuota, Ends, Goes, QueuedDriven, Types, Sessions
<1>3. \A u \in Task : Onward(u) /\ row'[u].cid <= sent[u]
  BY <1>1, RowsStay
<1>4. /\ amem[c].from.status # "queued"
      /\ amem[c].from.cid <= sent[atask[c]] /\ amem[c].to.cid <= sent[atask[c]]
  BY <1>1 DEF QueuedDriven, Numbered, Underway
<1>5. \A u \in Task : ~Sends(c, u)
  BY <1>1 DEF Sends
<1>6. QED BY <1>1, <1>2, <1>3, <1>4, <1>5, ActorStep

\* The message is revoked: whoever revokes it will cancel the task.
LEMMA RevokeQueued ==
  ASSUME QueuedDriven, NEW c \in Client, Revoke(c)
  PROVE  QueuedDriven' \/ ~Types'
<1> SUFFICES ASSUME Types' PROVE QueuedDriven'
  OBVIOUS
<1> DEFINE t   == atask[c]
           m   == amem[c]
           ids == {m.from.cid} \cap Id
<1>1. /\ c \in Actor /\ apc[c] = "revoke" /\ t \in Task
      /\ UNCHANGED <<row, sent, queue, lock, atask, amem, workers>>
      /\ ActorFits("revoke", m)
  BY DEF Revoke, Actor, QueuedDriven, Types, Sessions
<1>2. \A b \in Actor : apc'[b] = IF b = c THEN "cancel" ELSE apc[b]
  BY <1>1 DEF Revoke, QueuedDriven, Types, Sessions
<1>3. /\ \A u \in Task : revoked'[u] = IF u = t THEN revoked[t] \cup ids ELSE revoked[u]
      /\ \A u \in Task \ {t} : killed'[u] = killed[u]
      /\ killed'[t] = killed[t] \/ killed'[t] = killed[t] \cup ids
  BY <1>1 DEF Revoke, QueuedDriven, Types, Tables
<1>4. ids \subseteq 1..sent[t]
  BY <1>1 DEF QueuedDriven, Numbered, Types, Tables, Id
<1>5. Numbered'
  BY <1>1, <1>2, <1>3, <1>4 DEF QueuedDriven, Numbered, workers
<1>6. Underway'
  BY <1>1, <1>2 DEF QueuedDriven, Underway, workers
<1>7. ASSUME NEW u \in Task, row'[u].status = "queued", ~row'[u].deleted
      PROVE  Driven(u)'
  <2>1. Driven(u)
    BY <1>1, <1>7 DEF QueuedDriven
  <2>2. CASE u = t
    <3>1. m.from.status # "cancelled" /\ m.to.status = "cancelled"
      BY <1>1 DEF ActorFits, Active
    <3>2. Sends(c, u)'
      BY <1>1, <1>2, <2>2, <3>1 DEF Sends
    <3>3. QED BY <1>1, <3>2 DEF Driven
  <2>3. CASE u # t
    BY <1>1, <1>2, <1>3, <2>1, <2>3 DEF Driven, Waits, Carries, Sends, workers
  <2>4. QED BY <2>2, <2>3
<1>8. QED BY <1>5, <1>6, <1>7 DEF QueuedDriven

\* A cancellation, an id or a failure is committed: the request or recovery ends.
LEMMA EndQueued ==
  ASSUME QueuedDriven, NEW a \in Actor, RecordCommit(a) \/ (a \in Client /\ CancelCommit(a))
  PROVE  QueuedDriven' \/ ~Types'
<1> DEFINE t == atask[a]
           m == amem[a]
<1>1. /\ apc[a] \in {"record", "unsent", "cancel"} /\ t \in Task
      /\ ActorFits(apc[a], m) /\ m \in Loaded
      /\ Ends(a) /\ UNCHANGED <<broker, workers>>
  BY DEF RecordCommit, CancelCommit, QueuedDriven, Types, Sessions, ActorFits, Honest
<1>2. Writes(t, m)
  BY ActorWrites DEF QueuedDriven
<1>3. /\ \A b \in Actor \ {a} : apc'[b] = apc[b] /\ atask'[b] = atask[b] /\ amem'[b] = amem[b]
      /\ apc'[a] = "idle"
  BY <1>1, EndsSessions DEF QueuedDriven, Types
<1>4. \A u \in Task \ {t} : row'[u] = row[u]
  BY <1>2 DEF Writes, Same
<1>5. /\ row[t].deleted => row'[t].deleted
      /\ row'[t].status \in {"absent", "pending", "queued"} => row'[t].status = row[t].status
      /\ row'[t].cid <= sent[t]
  <2>1. row[t] \in Row /\ m.from \in Row /\ m.to \in Row
    BY <1>1 DEF QueuedDriven, Types, Tables, Loaded
  <2>2. row[t].cid <= sent[t] /\ m.to.cid <= sent[t]
    BY <1>1 DEF QueuedDriven, Numbered
  <2>3. m.from.deleted => m.to.deleted
    BY <1>1 DEF ActorFits, Honest
  <2>4. row[t].deleted => row'[t].deleted
    BY <1>2, <2>1, <2>3 DEF Writes, Row
  <2>5. row'[t].status = row[t].status \/ row'[t].status \in {"failed", "partial", "cancelled"}
    BY <1>1, <1>2 DEF Writes, ActorFits
  <2>6. QED BY <1>2, <2>2, <2>4, <2>5 DEF Writes
<1>6. \A u \in Task : Onward(u) /\ row'[u].cid <= sent[u]
  BY <1>4, <1>5 DEF Onward, QueuedDriven, Numbered
<1>7. ASSUME NEW u \in Task, row'[u].status = "queued", Sends(a, u)
      PROVE  FALSE
  <2>1. u = t /\ m.to.status # m.from.status
    BY <1>1, <1>7 DEF Sends, ActorFits
  <2>2. row'[t].status \in {"failed", "partial", "cancelled"}
    BY <1>1, <1>2, <2>1 DEF Writes, ActorFits
  <2>3. QED BY <1>7, <2>1, <2>2
<1>8. \A u \in Task : row'[u].status = "queued" => row[u].status = "queued" /\ ~Sends(a, u)
  BY <1>4, <1>5, <1>7
<1>9. QED BY <1>1, <1>3, <1>6, <1>8, ActorStep

\* The task is queued, its message still to be sent.
LEMMA EnqueueCommitQueued ==
  ASSUME QueuedDriven, NEW a \in Actor, EnqueueCommit(a)
  PROVE  QueuedDriven' \/ ~Types'
<1> DEFINE t == atask[a]
           m == amem[a]
<1>1. /\ apc[a] = "enqueue" /\ t \in Task /\ ActorFits("enqueue", m) /\ m \in Loaded
      /\ Goes(a, "send", t, Clean(m.to)) /\ UNCHANGED <<broker, workers>>
  BY DEF EnqueueCommit, QueuedDriven, Types, Sessions, ActorFits, Honest
<1>2. Writes(t, m)
  BY ActorWrites DEF QueuedDriven
<1>3. Clean(m.to).from = m.to /\ Clean(m.to).to = m.to
  BY DEF Clean
<1>4. /\ \A b \in Actor \ {a} : apc'[b] = apc[b] /\ atask'[b] = atask[b] /\ amem'[b] = amem[b]
      /\ apc'[a] = "send" /\ atask'[a] = t /\ amem'[a] = Clean(m.to)
  BY <1>1 DEF Goes, QueuedDriven, Types, Sessions
<1>5. \A u \in Task \ {t} : row'[u] = row[u]
  BY <1>2 DEF Writes, Same
<1>6. /\ row[t].deleted => row'[t].deleted
      /\ Begun(row'[t])
      /\ row'[t].cid <= sent[t] /\ m.to.cid <= sent[t]
  <2>1. row[t] \in Row /\ m.from \in Row /\ m.to \in Row
    BY <1>1 DEF QueuedDriven, Types, Tables, Loaded
  <2>2. row[t].cid <= sent[t] /\ m.to.cid <= sent[t]
    BY <1>1 DEF QueuedDriven, Numbered
  <2>3. m.from.deleted => m.to.deleted
    BY <1>1 DEF ActorFits, Honest
  <2>4. row[t].deleted => row'[t].deleted
    BY <1>2, <2>1, <2>3 DEF Writes, Row
  <2>5. m.to.status = "queued" /\ (m.from.status # "queued" \/ Begun(row[t]))
    BY <1>1 DEF ActorFits, QueuedDriven, Underway
  <2>6. Begun(row'[t])
    BY <1>2, <2>5 DEF Writes, Begun
  <2>7. QED BY <1>2, <2>2, <2>4, <2>6 DEF Writes
<1>7. \A u \in Task : Onward(u) /\ row'[u].cid <= sent[u]
  BY <1>5, <1>6 DEF Onward, Begun, QueuedDriven, Numbered
<1>8. \A u \in Task : Sends(a, u)' \/ (row'[u] = row[u] /\ ~Sends(a, u))
  BY <1>4, <1>5 DEF Sends
<1>9. QED BY <1>1, <1>3, <1>4, <1>6, <1>7, <1>8, ActorStep

\* The message is sent, under an id nobody has revoked.
LEMMA SendQueued ==
  ASSUME QueuedDriven, NEW a \in Actor, Send(a)
  PROVE  QueuedDriven' \/ ~Types'
<1> SUFFICES ASSUME Types' PROVE QueuedDriven'
  OBVIOUS
<1> DEFINE t  == atask[a]
           m  == amem[a]
           id == sent[t] + 1
<1>1. /\ apc[a] = "send" /\ t \in Task /\ ActorFits("send", m) /\ m \in Loaded
      /\ sent' = [sent EXCEPT ![t] = id] /\ queue' = [queue EXCEPT ![t] = @ \cup {id}]
      /\ Goes(a, "record", t, [m EXCEPT !.to.cid = id])
      /\ UNCHANGED <<row, revoked, killed, lock, workers, faults, cancels>>
      /\ sent[t] \in Nat
  BY DEF Send, QueuedDriven, Types, Sessions, Tables, ActorFits, Honest
<1>2. PICK n \in Loaded : /\ Goes(a, "record", t, n) /\ n.from = m.from
                          /\ n.to = [m.to EXCEPT !.cid = id]
  <2> DEFINE n == [m EXCEPT !.to.cid = id]
  <2>1. id \in Id
    BY DEF Send
  <2>2. n.from = m.from /\ n.to = [m.to EXCEPT !.cid = id] /\ n \in Loaded
    BY <1>1, <2>1 DEF Loaded, Row
  <2>3. QED BY <1>1, <2>2
<1>3. n.from.cid <= sent[t] /\ n.to.cid = id
  BY <1>1, <1>2 DEF QueuedDriven, Numbered, Loaded, Row
<1>4. /\ \A b \in Actor \ {a} : apc'[b] = apc[b] /\ atask'[b] = atask[b] /\ amem'[b] = amem[b]
      /\ apc'[a] = "record" /\ atask'[a] = t /\ amem'[a] = n
  BY <1>2 DEF Goes, QueuedDriven, Types, Sessions
<1>5. \A u \in Task : /\ sent'[u] = IF u = t THEN id ELSE sent[u]
                      /\ queue'[u] = IF u = t THEN queue[t] \cup {id} ELSE queue[u]
                      /\ sent[u] \in Nat
  BY <1>1 DEF QueuedDriven, Types, Tables
<1>6. Numbered'
  <2>1. \A u \in Task : /\ row'[u].cid <= sent'[u]
                        /\ queue'[u] \subseteq 1..sent'[u]
                        /\ revoked'[u] \subseteq 1..sent'[u] /\ killed'[u] \subseteq revoked'[u]
    <3>1. \A u \in Task : row[u].cid \in Int
      BY DEF QueuedDriven, Types, Tables, Row, Id, NoId, Dispatching
    <3>2. QED BY <1>1, <1>5, <3>1 DEF QueuedDriven, Numbered
  <2>2. ASSUME NEW b \in Actor, apc'[b] # "idle"
        PROVE  amem'[b].from.cid <= sent'[atask'[b]] /\ amem'[b].to.cid <= sent'[atask'[b]]
    <3>1. CASE b = a
      <4>1. n.from.cid \in Int
        BY DEF Loaded, Row, Id, NoId, Dispatching
      <4>2. sent'[t] = id /\ sent[t] \in Int
        BY <1>1, <1>5
      <4>3. n.from.cid <= id /\ n.to.cid <= id
        BY <1>3, <4>1, <4>2
      <4>4. QED BY <1>4, <3>1, <4>2, <4>3
    <3>2. CASE b # a
      <4>1. /\ atask[b] \in Task /\ amem[b] \in Loaded
            /\ amem[b].from.cid <= sent[atask[b]] /\ amem[b].to.cid <= sent[atask[b]]
        BY <1>4, <2>2, <3>2 DEF QueuedDriven, Types, Sessions, Numbered, ActorFits, Honest
      <4>2. amem[b].from.cid \in Int /\ amem[b].to.cid \in Int
        BY <4>1 DEF Loaded, Row, Id, NoId, Dispatching
      <4>3. QED BY <1>4, <1>5, <3>2, <4>1, <4>2
    <3>3. QED BY <3>1, <3>2
  <2>3. ASSUME NEW w \in Worker, wpc'[w] # "idle"
        PROVE  wmsg'[w] <= sent'[wtask'[w]]
    <3>1. wpc[w] # "idle" /\ UNCHANGED <<wtask, wmsg>>
      BY <1>1, <2>3 DEF workers
    <3>2. wtask[w] \in Task /\ wmsg[w] \in Int /\ wmsg[w] <= sent[wtask[w]]
      BY <3>1 DEF QueuedDriven, Types, Runs, Numbered, Id
    <3>3. sent'[wtask[w]] >= sent[wtask[w]] /\ sent'[wtask[w]] \in Nat /\ sent[wtask[w]] \in Nat
      BY <1>1, <1>5, <3>2
    <3>4. QED BY <3>1, <3>2, <3>3
  <2>4. QED BY <2>1, <2>2, <2>3 DEF Numbered
<1>7. Underway'
  <2>1. Begun(row[t])
    BY <1>1 DEF QueuedDriven, Underway
  <2>2. \A u \in Task : sent'[u] > 0 => Begun(row'[u])
    BY <1>1, <1>5, <2>1 DEF QueuedDriven, Underway
  <2>3. QED BY <1>1, <1>4, <2>1, <2>2 DEF QueuedDriven, Underway, workers
<1>8. ASSUME NEW u \in Task, row'[u].status = "queued", ~row'[u].deleted
      PROVE  Driven(u)'
  <2>1. Driven(u)
    BY <1>1, <1>8 DEF QueuedDriven
  <2>2. CASE u = t
    <3>1. id \notin revoked[t]
      BY <1>1 DEF QueuedDriven, Numbered
    <3>2. id \in queue'[t] \ revoked'[t]
      BY <1>1, <1>5, <3>1
    <3>3. QED BY <2>2, <3>2 DEF Driven, Waits
  <2>3. CASE u # t
    <3>1. Waits(u) => Waits(u)'
      BY <1>1, <1>5, <2>3 DEF Waits
    <3>2. \A w \in Worker : Carries(w, u) => Carries(w, u)'
      BY <1>1 DEF Carries, workers
    <3>3. \A b \in Actor : Sends(b, u) => Sends(b, u)'
      BY <1>4, <2>3 DEF Sends
    <3>4. QED BY <2>1, <3>1, <3>2, <3>3 DEF Driven
  <2>4. QED BY <2>2, <2>3
<1>9. QED BY <1>6, <1>7, <1>8 DEF QueuedDriven

\* The message could not be sent.
LEMMA SendFailsQueued ==
  ASSUME QueuedDriven, NEW a \in Actor, SendFails(a)
  PROVE  QueuedDriven' \/ ~Types'
<1> DEFINE t == atask[a]
           m == amem[a]
           f == StageFailed(m.to)
<1>1. /\ apc[a] = "send" /\ t \in Task /\ ActorFits("send", m) /\ m \in Loaded
      /\ Goes(a, "unsent", t, [m EXCEPT !.to = StageFailed(@)])
      /\ UNCHANGED <<row, broker, workers>>
  BY DEF SendFails, QueuedDriven, Types, Sessions, ActorFits, Honest
<1>2. m.to \in Row /\ f \in Row /\ f.cid = m.to.cid
  <2>1. m.to \in Row
    BY <1>1 DEF Loaded
  <2>2. QED BY <2>1, StagedRow
<1> HIDE DEF f
<1>3. PICK n : Goes(a, "unsent", t, n) /\ n.from = m.from /\ n.to = f
  <2> DEFINE n == [m EXCEPT !.to = StageFailed(@)]
  <2>1. n.from = m.from /\ n.to = f
    BY <1>1 DEF Loaded, f
  <2>2. QED BY <1>1, <2>1
<1>4. /\ \A b \in Actor \ {a} : apc'[b] = apc[b] /\ atask'[b] = atask[b] /\ amem'[b] = amem[b]
      /\ apc'[a] = "unsent" /\ atask'[a] = t /\ amem'[a] = n
  BY <1>3 DEF Goes, QueuedDriven, Types, Sessions
<1>5. /\ n.from.cid <= sent[t] /\ n.to.cid <= sent[t]
      /\ Begun(row[t])
  BY <1>1, <1>2, <1>3 DEF QueuedDriven, Numbered, Underway
<1>6. \A u \in Task : Onward(u) /\ row'[u].cid <= sent[u]
  BY <1>1, RowsStay
<1>7. \A u \in Task : Sends(a, u) => Sends(a, u)'
  BY <1>1, <1>4 DEF Sends
<1>8. QED BY <1>1, <1>4, <1>5, <1>6, <1>7, ActorStep

\* A stale task is queued again, or given up.
LEMMA RecoverCommitQueued ==
  ASSUME QueuedDriven, NEW a \in Actor, NEW t \in Task, RecoverCommit(a, t)
  PROVE  QueuedDriven' \/ ~Types'
<1> DEFINE r == Recovered(row[t])
<1>1. /\ row[t] \in Row /\ Recoverable(row[t]) /\ apc[a] = "idle"
      /\ row' = [row EXCEPT ![t] = r] /\ Goes(a, "release", t, Clean(r))
      /\ UNCHANGED <<broker, workers>>
  BY DEF QueuedDriven, Types, Tables, RecoverCommit
<1>2. /\ r \in Row /\ r.cid = NoId /\ r.status \in {"queued", "failed", "partial"}
      /\ r.deleted = row[t].deleted
  BY <1>1, RecoveredRow
<1> HIDE DEF r
<1>3. Clean(r).from = r /\ Clean(r).to = r
  BY DEF Clean
<1>4. /\ \A b \in Actor \ {a} : apc'[b] = apc[b] /\ atask'[b] = atask[b] /\ amem'[b] = amem[b]
      /\ apc'[a] = "release" /\ atask'[a] = t /\ amem'[a] = Clean(r)
  BY <1>1 DEF Goes, QueuedDriven, Types, Sessions
<1>5. row'[t] = r /\ \A u \in Task \ {t} : row'[u] = row[u]
  BY <1>1, <1>2, RowSet DEF QueuedDriven, Types
<1>6. \A u \in Task : sent[u] \in Nat /\ row[u].cid <= sent[u]
  BY DEF QueuedDriven, Numbered, Types, Tables
<1>7. \A u \in Task : Onward(u) /\ row'[u].cid <= sent[u]
  BY <1>2, <1>5, <1>6 DEF Onward, NoId
<1>8. r.cid <= sent[t]
  BY <1>2, <1>6 DEF NoId
<1>9. Begun(row'[t])
  BY <1>2, <1>5 DEF Begun
<1>10. \A u \in Task : row'[u].status = "queued" =>
         Sends(a, u)' \/ (row[u].status = "queued" /\ ~Sends(a, u))
  BY <1>1, <1>3, <1>4, <1>5 DEF Sends
<1>11. QED BY <1>1, <1>3, <1>4, <1>7, <1>8, <1>9, <1>10, ActorStep

\* The dead run's lease is dropped.
LEMMA ReleaseCommitQueued ==
  ASSUME QueuedDriven, NEW a \in Recoverer, ReleaseCommit(a)
  PROVE  QueuedDriven' \/ ~Types'
<1> DEFINE t     == atask[a]
           m     == amem[a]
           clear == [m.to EXCEPT !.run = None]
<1>1. /\ a \in Actor /\ apc[a] = "release" /\ t \in Task /\ ActorFits("release", m)
      /\ m \in Loaded /\ UNCHANGED <<broker, workers>>
  BY DEF ReleaseCommit, QueuedDriven, Types, Sessions, ActorFits, Honest, Actor
<1>2. /\ clear \in Row /\ clear.status = m.to.status /\ clear.cid = NoId
  BY <1>1 DEF Loaded, Row, ActorFits
<1>3. IF clear.status \in {"failed", "partial"}
        THEN Ends(a)
        ELSE Goes(a, "enqueue", t, [from |-> clear, to |-> Queued(clear)])
  BY DEF ReleaseCommit
<1> HIDE DEF clear
<1>4. Queued(clear).cid = Dispatching /\ Queued(clear) \in Row
  BY <1>2, RowOps, RowColumns
<1>5. Writes(t, m)
  BY <1>1, ActorWrites DEF QueuedDriven
<1>6. \A u \in Task : /\ row'[u].status = row[u].status /\ row'[u].cid = row[u].cid
                      /\ row'[u].deleted = row[u].deleted
  BY <1>1, <1>5 DEF Writes, Same, ActorFits
<1>7. \A u \in Task : Onward(u) /\ row'[u].cid <= sent[u] /\ sent[u] \in Nat
  BY <1>6 DEF Onward, QueuedDriven, Numbered, Types, Tables
<1>8. CASE clear.status \in {"failed", "partial"}
  <2>1. /\ \A b \in Actor \ {a} : /\ apc'[b] = apc[b] /\ atask'[b] = atask[b]
                                  /\ amem'[b] = amem[b]
        /\ apc'[a] = "idle"
    BY <1>1, <1>3, <1>8, EndsSessions DEF QueuedDriven, Types
  <2>2. \A u \in Task : ~Sends(a, u)
    BY <1>1, <1>2, <1>8 DEF Sends
  <2>3. QED BY <1>1, <1>6, <1>7, <2>1, <2>2, ActorStep
<1>9. CASE clear.status \notin {"failed", "partial"}
  <2> DEFINE n == [from |-> clear, to |-> Queued(clear)]
  <2>1. /\ \A b \in Actor \ {a} : /\ apc'[b] = apc[b] /\ atask'[b] = atask[b]
                                  /\ amem'[b] = amem[b]
        /\ apc'[a] = "enqueue" /\ atask'[a] = t /\ amem'[a] = n
    BY <1>1, <1>3, <1>9 DEF Goes, QueuedDriven, Types, Sessions
  <2>2. n.from.cid = NoId /\ n.to.cid = Dispatching
    BY <1>2, <1>4
  <2> HIDE DEF n
  <2>3. n.from.cid <= sent[t] /\ n.to.cid <= sent[t]
    BY <1>1, <1>7, <2>2 DEF NoId, Dispatching
  <2>4. Begun(row'[t])
    BY <1>1, <1>6 DEF QueuedDriven, Underway, Begun
  <2>5. \A u \in Task : Sends(a, u) => Sends(a, u)'
    BY <1>1, <2>1 DEF Sends
  <2>6. QED BY <1>1, <1>6, <1>7, <2>1, <2>3, <2>4, <2>5, ActorStep
<1>10. QED BY <1>8, <1>9

\* Every step keeps queued tasks driven.
LEMMA NextQueued == Delivered /\ QueuedDriven /\ [Next]_vars => QueuedDriven'
<1> SUFFICES ASSUME Delivered, QueuedDriven, [Next]_vars PROVE QueuedDriven' \/ ~Types'
  BY NextTypes DEF QueuedDriven
<1>1. ASSUME NEW t \in Task, Create(t) \/ DeletePly(t) \/ HeartbeatAges(t)
      PROVE  QueuedDriven' \/ ~Types'
  BY <1>1, TaskQueued
<1>2. ASSUME NEW t \in Task, NEW i \in Id, DropRevoked(t, i)
      PROVE  QueuedDriven' \/ ~Types'
  BY <1>2, DropQueued
<1>3. ASSUME NEW c \in Client, Request(c)
      PROVE  QueuedDriven' \/ ~Types'
  <2>1. c \in Actor
    BY DEF Actor
  <2>2. CASE \E t \in Task : \/ StartLoad(c, t) \/ StartMeshLoad(c, t)
                             \/ CancelLoad(c, t) \/ DeleteLoad(c, t)
    BY <2>2, LoadQueued
  <2>3. QED BY <1>3, <2>1, <2>2, StartQuotaQueued, RevokeQueued, EndQueued DEF Request
<1>4. ASSUME NEW a \in Actor, Enqueue(a) \/ ActorDies(a)
      PROVE  QueuedDriven' \/ ~Types'
  <2>1. ~ActorDies(a)
    BY DEF ActorDies, Fault, Delivered
  <2>2. QED BY <1>4, <2>1, EnqueueCommitQueued, SendQueued, SendFailsQueued, EndQueued DEF Enqueue
<1>5. ASSUME NEW a \in Recoverer, Recover(a)
      PROVE  QueuedDriven' \/ ~Types'
  BY <1>5, RecoverCommitQueued, ReleaseCommitQueued DEF Recover, Actor
<1>6. ASSUME NEW w \in Worker,
             Work(w) \/ WorkerDies(w) \/ Redeliver(w) \/ Uncaught(w) \/ KillRevoked(w)
      PROVE  QueuedDriven' \/ ~Types'
  <2>1. CASE \E t \in Task, i \in Id : Receive(w, t, i) \/ Refuse(w, t, i) \/ Ignore(w, t, i)
    BY <2>1, ReceiveQueued, DropQueued
  <2>2. CASE GetLease(w) \/ \E inspected \in BOOLEAN : NoLease(w, inspected)
    BY <2>2, LeaseQueued
  <2>3. CASE WaitCommit(w) \/ RunLoad(w)
    BY <2>3, WaitCommitQueued, RunLoadQueued
  <2>4. CASE BeginCommit(w) \/ FinalCommit(w) \/ EndCommit(w)
    BY <2>4, RunCommitQueued
  <2>5. CASE \/ \E exits \in BOOLEAN : Poll(w, exits)
             \/ \E good \in BOOLEAN : FinalLoad(w, good)
             \/ Raise(w) \/ ExceptLoad(w)
    BY <2>5, RunQueued
  <2>6. CASE LeaveCommit(w) \/ Finally(w) \/ KillRevoked(w)
    BY <2>6, LeaveQueued
  <2>7. CASE WorkerDies(w) \/ Redeliver(w) \/ Uncaught(w)
    BY <2>7, FaultQueued
  <2>8. QED BY <1>6, <2>1, <2>2, <2>3, <2>4, <2>5, <2>6, <2>7 DEF Work
<1>7. CASE UNCHANGED vars
  <2>1. UNCHANGED <<row, broker, actors, workers>>
    BY <1>7 DEF vars
  <2>2. Numbered'
    BY <2>1 DEF QueuedDriven, Numbered, broker, actors, workers
  <2>3. Underway'
    BY <2>1 DEF QueuedDriven, Underway, broker, actors, workers
  <2>4. \A t \in Task : Driven(t) => Driven(t)'
    BY <2>1 DEF Driven, Waits, Carries, Sends, broker, actors, workers
  <2>5. QED BY <2>1, <2>2, <2>3, <2>4 DEF QueuedDriven
<1>8. QED BY <1>1, <1>2, <1>3, <1>4, <1>5, <1>6, <1>7 DEF Next

\* Where nothing ends a message but its own commits, and no request or recovery dies, a
\* task that shows as queued is always in somebody's hands, or recover_stale_tasks will
\* select it.  Workers may die, messages may be delivered twice, send_task may fail, and any
\* number of starts, cancels and deletions may run at once.
THEOREM QueuedDrives ==
  ASSUME Delivered
  PROVE  Spec => []QueuedIsDriven
<1>1. Init => QueuedDriven
  <2> SUFFICES ASSUME Init PROVE QueuedDriven
    OBVIOUS
  <2>1. Types
    BY InitTypes
  <2>2. Numbered /\ Underway /\ \A t \in Task : row[t].status # "queued"
    BY DEF Init, Numbered, Underway, Absent, NoId, Begun
  <2>3. QED BY <2>1, <2>2 DEF QueuedDriven
<1>2. QueuedDriven /\ [Next]_vars => QueuedDriven'
  BY NextQueued
<1>3. QueuedDriven => QueuedIsDriven
  BY DrivenImplies
<1>4. QED BY <1>1, <1>2, <1>3, PTL DEF Spec

-----------------------------------------------------------------------------
(* One driver at a time: quota and PLY results *)

\* A task is started again only after the earlier start was answered, nothing is cancelled
\* or deleted, processes are not killed and beat in time, and one recovery runs at a time.
Serial ==
  /\ OneStart /\ Prompt /\ MaxCancels = 0 /\ Faults \subseteq {"exception", "broker"}
  /\ \A a, b \in Recoverer : a = b

\* A row nobody cancelled or deleted.
Plain(r) == ~r.cancel /\ ~r.deleted /\ r.status # "cancelled"

\* The worker's steps before its run begins.
Before == {"acquire", "refuse", "wait", "leased", "begin"}

\* Worker w has a message of t, and its run is not over.
Has(w, t) == wtask[w] = t /\ wpc[w] \notin {"idle", "finally"}

\* Recovery a will enqueue t.
Recovers(a, t) ==
  /\ a \in Recoverer /\ atask[a] = t
  /\ apc[a] = "enqueue" \/ (apc[a] = "release" /\ amem[a].to.status = "queued")

\* Actor a queued t, and is to send its message.
Calls(a, t) == (atask[a] = t /\ apc[a] \in {"send", "unsent"}) \/ Recovers(a, t)

\* Request c is about to queue t.
Begins(c, t) == atask[c] = t /\ apc[c] \in {"quota", "enqueue"}

\* Nobody drives t.
Nobody(t) ==
  queue[t] = {} /\ (\A w \in Worker : ~Has(w, t)) /\ (\A a \in Actor : ~Calls(a, t))

\* No cancellation is under way.
Quiet ==
  /\ \A t \in Task : Plain(row[t])
  /\ \A a \in Actor :
       /\ apc[a] \notin {"revoke", "cancel"}
       /\ apc[a] # "idle" => /\ Plain(amem[a].from) /\ Plain(amem[a].to)
                             /\ amem[a].to.beat = amem[a].from.beat
       /\ apc[a] = "quota" => a \in Client
       /\ apc[a] = "enqueue" /\ a \in Recoverer => amem[a].from.cid = NoId
       /\ apc[a] = "release" => a \in Recoverer
  /\ \A w \in Worker :
       /\ wpc[w] \notin {"early", "stop"}
       /\ wpc[w] \in Writing => Plain(wmem[w].from) /\ Plain(wmem[w].to)

\* At most one message, worker, request or recovery drives t.
Alone(t) ==
  /\ \A i, j \in queue[t] : i = j
  /\ \A w, v \in Worker : Has(w, t) /\ Has(v, t) => w = v
  /\ \A a, b \in Actor : Calls(a, t) /\ Calls(b, t) => a = b
  /\ \A w \in Worker : Has(w, t) => queue[t] = {} /\ \A a \in Actor : ~Calls(a, t)
  /\ \A a \in Actor : Calls(a, t) => queue[t] = {}

\* What worker w knows of its task is still so.
WorkerAgrees(w, t) ==
  \/ /\ wpc[w] \in Before /\ row[t].status = "queued"
     /\ wpc[w] \in Writing => wmem[w].from.status = "queued" /\ (row[t].ply => wmem[w].from.ply)
  \/ /\ wpc[w] \in AtRun /\ row[t].status = "processing" /\ row[t].beat = "fresh"
     /\ wpc[w] \in Writing =>
          wmem[w].from.status = "processing" /\ (row[t].ply => wmem[w].from.ply)

\* And what a request or recovery knows that queued it.
CallerAgrees(a, t) ==
  /\ row[t].status = "queued" /\ amem[a].from.status = "queued"
  /\ row[t].ply => amem[a].from.ply

\* A request is about to queue a task that nobody drives.
StarterAgrees(c, t) ==
  /\ row[t].status \in {"pending", "completed", "partial", "failed"}
  /\ amem[c].from.status = row[t].status /\ (row[t].ply => amem[c].from.ply)
  /\ Nobody(t)
  /\ amem[c].from.cid = Dispatching => row[t].cid # NoId

\* The Celery id tells how far the dispatch of a queued task is.
Dispatched(t) ==
  /\ row[t].status = "queued" /\ row[t].cid = NoId => \E a \in Actor : Recovers(a, t)
  /\ (\E a \in Actor : Recovers(a, t)) => row[t].cid # Dispatching
  /\ row[t].status = "queued" /\ row[t].cid = Dispatching /\ ~Nobody(t) =>
       /\ row[t].beat = "fresh"
       /\ \E a \in Actor : atask[a] = t /\ apc[a] \in {"send", "record", "unsent"}

Agrees(t) ==
  /\ queue[t] # {} => row[t].status = "queued"
  /\ \A w \in Worker : Has(w, t) => WorkerAgrees(w, t)
  /\ \A a \in Actor : Calls(a, t) => CallerAgrees(a, t)
  /\ \A c \in Client : Begins(c, t) => StarterAgrees(c, t)
  /\ \A c, d \in Client : atask[c] = t /\ atask[d] = t => c = d
  /\ Dispatched(t)

\* Its inductive form.
Orderly == Types /\ Quiet /\ \A t \in Task : Alone(t) /\ Agrees(t)

\* Actor a queues t, is about to, or has just done so.
Engaged(a, t) ==
  Calls(a, t) \/ Begins(a, t) \/ (atask[a] = t /\ apc[a] = "record")

\* The step leaves task t alone, but for columns nobody looks at here, and whoever is at it.
Untouched(t) ==
  /\ row'[t].status = row[t].status /\ row'[t].cid = row[t].cid
  /\ row'[t].beat \in {row[t].beat, "fresh"} /\ (row'[t].ply => row[t].ply)
  /\ queue'[t] = queue[t]
  /\ \A w \in Worker : Has(w, t) \/ Has(w, t)' =>
       wtask'[w] = wtask[w] /\ wpc'[w] = wpc[w] /\ wmem'[w] = wmem[w]
  /\ \A a \in Actor : Engaged(a, t) \/ Engaged(a, t)' =>
       atask'[a] = atask[a] /\ apc'[a] = apc[a] /\ amem'[a] = amem[a]
  /\ \A c \in Client : atask'[c] = t => atask[c] = t

\* Then nothing changes for it.
LEMMA Frame ==
  ASSUME NEW t \in Task, Alone(t), Agrees(t), Untouched(t)
  PROVE  Alone(t)' /\ Agrees(t)'
<1>1. \A w \in Worker : Has(w, t)' <=> Has(w, t)
  BY DEF Untouched, Has
<1>2. \A a \in Actor : Engaged(a, t)' <=> Engaged(a, t)
  BY DEF Untouched, Engaged, Recovers, Calls, Begins
<1>3. \A a \in Actor : /\ Recovers(a, t)' <=> Recovers(a, t)
                       /\ Calls(a, t)' <=> Calls(a, t)
                       /\ Begins(a, t)' <=> Begins(a, t)
  BY <1>2 DEF Untouched, Engaged, Recovers, Calls, Begins
<1>4. Alone(t)'
  BY <1>1, <1>3 DEF Alone, Untouched
<1>5. Nobody(t)' <=> Nobody(t)
  BY <1>1, <1>3 DEF Nobody, Untouched
<1>6. Dispatched(t)'
  <2>1. \A a \in Actor : atask[a] = t /\ apc[a] \in {"send", "record", "unsent"} =>
          atask'[a] = t /\ apc'[a] \in {"send", "record", "unsent"}
    BY DEF Untouched, Engaged, Calls
  <2>2. QED BY <1>3, <1>5, <2>1 DEF Agrees, Dispatched, Untouched
<1>7. \A w \in Worker : Has(w, t)' => WorkerAgrees(w, t)'
  BY <1>1 DEF Agrees, WorkerAgrees, Untouched
<1>8. \A a \in Actor : Calls(a, t)' => CallerAgrees(a, t)'
  BY <1>3 DEF Agrees, CallerAgrees, Untouched, Engaged
<1>9. \A c \in Client : Begins(c, t)' => StarterAgrees(c, t)'
  BY <1>3, <1>5 DEF Agrees, StarterAgrees, Untouched, Engaged, Actor
<1>10. \A c, d \in Client : atask'[c] = t /\ atask'[d] = t => c = d
  BY DEF Agrees, Untouched
<1>11. QED BY <1>4, <1>6, <1>7, <1>8, <1>9, <1>10 DEF Agrees, Untouched

\* A step of the worker that drives a task.
LEMMA WorkerDrives ==
  ASSUME Orderly, NEW w \in Worker, NEW t \in Task, Has(w, t), UNCHANGED actors,
         \A v \in Worker \ {w} : wpc'[v] = wpc[v] /\ wtask'[v] = wtask[v] /\ wmem'[v] = wmem[v],
         wtask'[w] \in {t, None},
         \A u \in Task \ {t} : row'[u] = row[u] /\ queue'[u] = queue[u],
         \A i, j \in queue'[t] : i = j,
         Has(w, t)' => queue'[t] = {} /\ WorkerAgrees(w, t)',
         queue'[t] # {} => row'[t].status = "queued",
         row'[t].status = "queued" => /\ row[t].status = "queued" /\ row'[t].cid = row[t].cid
                                      /\ row'[t].beat \in {row[t].beat, "fresh"}
  PROVE  \A u \in Task : Alone(u)' /\ Agrees(u)'
<1>1. Alone(t) /\ Agrees(t) /\ None \notin Task
  BY ActorAssumption DEF Orderly
<1>2. ASSUME NEW u \in Task \ {t}
      PROVE  Alone(u)' /\ Agrees(u)'
  <2>1. Untouched(u)
    BY <1>1 DEF Untouched, Has, Engaged, Calls, Recovers, Begins, actors
  <2>2. Alone(u) /\ Agrees(u)
    BY DEF Orderly
  <2>3. QED BY <2>1, <2>2, Frame
<1>3. \A v \in Worker \ {w} : ~Has(v, t) /\ ~Has(v, t)'
  BY <1>1 DEF Alone, Has
<1>4. \A a \in Actor : ~Calls(a, t) /\ ~Calls(a, t)'
  BY <1>1 DEF Alone, Calls, Recovers, actors
<1>5. Alone(t)'
  BY <1>3, <1>4 DEF Alone
<1>6. ~Nobody(t)
  BY DEF Nobody
<1>7. \A c \in Client : ~Begins(c, t) /\ ~Begins(c, t)'
  BY <1>1, <1>6 DEF Agrees, StarterAgrees, Begins, actors, Actor
<1>8. \A a \in Actor : ~Recovers(a, t) /\ ~Recovers(a, t)'
  BY <1>4 DEF Calls
<1>9. Dispatched(t)'
  BY <1>1, <1>6, <1>8 DEF Agrees, Dispatched, actors
<1>10. \A c, d \in Client : atask'[c] = t /\ atask'[d] = t => c = d
  BY <1>1 DEF Agrees, actors
<1>11. Agrees(t)'
  BY <1>3, <1>4, <1>7, <1>9, <1>10 DEF Agrees
<1>12. QED BY <1>2, <1>5, <1>11

\* A worker at a step of its own has a message and a task.
LEMMA HasTask ==
  ASSUME Types, NEW w \in Worker, wpc[w] \notin {"idle", "finally"}
  PROVE  wtask[w] \in Task /\ Has(w, wtask[w]) /\ row[wtask[w]] \in Row
BY DEF Types, Runs, Tables, Has

\* Nothing is cancelled as long as workers load what is not.
LEMMA QuietRows ==
  ASSUME Quiet, UNCHANGED actors, \A t \in Task : Plain(row'[t]),
         NEW w \in Worker,
         \A v \in Worker \ {w} : wpc'[v] = wpc[v] /\ wmem'[v] = wmem[v],
         wpc'[w] \notin {"early", "stop"},
         wpc'[w] \in Writing => Plain(wmem'[w].from) /\ Plain(wmem'[w].to)
  PROVE  Quiet'
<1>1. \A a \in Actor :
        /\ apc'[a] \notin {"revoke", "cancel"}
        /\ apc'[a] # "idle" => /\ Plain(amem'[a].from) /\ Plain(amem'[a].to)
                               /\ amem'[a].to.beat = amem'[a].from.beat
        /\ apc'[a] = "quota" => a \in Client
        /\ apc'[a] = "enqueue" /\ a \in Recoverer => amem'[a].from.cid = NoId
        /\ apc'[a] = "release" => a \in Recoverer
  BY DEF Quiet, actors
<1>2. \A v \in Worker :
        /\ wpc'[v] \notin {"early", "stop"}
        /\ wpc'[v] \in Writing => Plain(wmem'[v].from) /\ Plain(wmem'[v].to)
  BY DEF Quiet
<1>3. QED BY <1>1, <1>2 DEF Quiet

\* What steps other than creations and starts do to a task: none becomes active, and none
\* that has a PLY becomes failed.
Tame(t) ==
  /\ row'[t].status \in Active => row[t].status \in Active
  /\ row'[t].ply /\ row'[t].status = "failed" => row[t].ply /\ row[t].status = "failed"

\* An idle worker takes a message.
LEMMA ReceiveOrderly ==
  ASSUME Orderly, NEW w \in Worker, NEW t \in Task, NEW i \in Id,
         Receive(w, t, i) \/ Refuse(w, t, i)
  PROVE  (Orderly' \/ ~Types') /\ \A u \in Task : Tame(u)
<1> DEFINE f == StageFailed(row[t])
<1>1. /\ wpc[w] = "idle" /\ i \in queue[t] /\ row[t] \in Row
      /\ queue' = [queue EXCEPT ![t] = @ \ {i}]
      /\ UNCHANGED <<row, sent, revoked, killed, lock, actors, faults, cancels>>
  BY DEF Receive, Refuse, Takes, Orderly, Types, Tables
<1>2. PICK pc \in {"acquire", "refuse"}, m \in Memory :
        /\ Takes(w, t, i, pc, m)
        /\ pc \in Writing => /\ WorkerFits(pc, m) /\ m.from = row[t]
                             /\ m.to.cancel = row[t].cancel /\ m.to.deleted = row[t].deleted
  <2>1. /\ f \in Row /\ f.status \in {"failed", "partial"} /\ (f.status = "failed" => ~row[t].ply)
        /\ f.cid = row[t].cid /\ f.ply = row[t].ply /\ f.deleted = row[t].deleted
        /\ f.cancel = row[t].cancel
    BY <1>1, StagedRow, RowFlags
  <2> HIDE DEF f
  <2>2. /\ Load(t, f) \in Loaded /\ Load(t, f) \in Memory
        /\ Load(t, f).from = row[t] /\ Load(t, f).to = f
    BY <2>1, LoadedRow DEF Orderly, Types
  <2>3. row[t].status \in {"pending", "queued"}
    BY DEF Receive, Refuse, Takes
  <2>4. WorkerFits("refuse", Load(t, f))
    BY <2>1, <2>2, <2>3 DEF WorkerFits, Honest
  <2>5. CASE Receive(w, t, i)
    BY <2>5 DEF Receive, Memory, Writing
  <2>6. CASE Refuse(w, t, i)
    BY <2>1, <2>2, <2>4, <2>6 DEF Refuse, f
  <2>7. QED BY <2>5, <2>6
<1>3. \A v \in Worker : /\ wpc'[v]   = IF v = w THEN pc ELSE wpc[v]
                        /\ wtask'[v] = IF v = w THEN t ELSE wtask[v]
                        /\ wmem'[v]  = IF v = w THEN m ELSE wmem[v]
  BY <1>2, TakesRuns DEF Orderly, Types, WorkerSteps
<1>4. \A u \in Task : queue'[u] = IF u = t THEN queue[t] \ {i} ELSE queue[u]
  BY <1>1 DEF Orderly, Types, Tables
<1>5. Alone(t) /\ Agrees(t) /\ None \notin Task /\ \A u \in Task : Plain(row[u])
  BY ActorAssumption DEF Orderly, Quiet
<1>6. queue'[t] = {} /\ row[t].status = "queued" /\ ~Nobody(t)
  BY <1>1, <1>4, <1>5 DEF Alone, Agrees, Nobody
<1>7. ASSUME NEW u \in Task \ {t}
      PROVE  Alone(u)' /\ Agrees(u)'
  <2>1. Untouched(u)
    BY <1>1, <1>3, <1>4 DEF Untouched, Has, Engaged, Calls, Recovers, Begins, actors
  <2>2. QED BY <2>1, Frame DEF Orderly
<1>8. /\ \A v \in Worker : ~Has(v, t) /\ (Has(v, t)' => v = w)
      /\ \A a \in Actor : ~Calls(a, t) /\ ~Calls(a, t)'
      /\ \A c \in Client : ~Begins(c, t) /\ ~Begins(c, t)'
  <2>1. \A v \in Worker : ~Has(v, t) /\ (Has(v, t)' => v = w)
    BY <1>1, <1>3, <1>5 DEF Alone, Has
  <2>2. \A a \in Actor : ~Calls(a, t) /\ ~Calls(a, t)'
    BY <1>1, <1>5 DEF Alone, Calls, Recovers, actors
  <2>3. \A c \in Client : ~Begins(c, t) /\ ~Begins(c, t)'
    BY <1>1, <1>5, <1>6 DEF Agrees, StarterAgrees, Begins, actors
  <2>4. QED BY <2>1, <2>2, <2>3
<1>9. Alone(t)'
  BY <1>6, <1>8 DEF Alone
<1>10. Dispatched(t)'
  <2>1. \A a \in Actor : ~Recovers(a, t)'
    BY <1>8 DEF Calls
  <2>2. \A a \in Actor : ~Recovers(a, t)
    BY <1>8 DEF Calls
  <2>3. QED BY <1>1, <1>5, <1>6, <2>1, <2>2 DEF Agrees, Dispatched, actors
<1>11. WorkerAgrees(w, t)'
  BY <1>1, <1>2, <1>3, <1>6 DEF WorkerAgrees, Before
<1>12. \A c, d \in Client : atask'[c] = t /\ atask'[d] = t => c = d
  BY <1>1, <1>5 DEF Agrees, actors
<1>13. Agrees(t)'
  BY <1>6, <1>8, <1>10, <1>11, <1>12 DEF Agrees
<1>14. Quiet'
  <2>1. pc \in Writing => Plain(m.from) /\ Plain(m.to)
    BY <1>2, <1>5 DEF Plain, WorkerFits, Writing
  <2>2. QED BY <1>1, <1>3, <1>5, <2>1, QuietRows DEF Orderly
<1>15. \A u \in Task : Tame(u)
  BY <1>1 DEF Tame
<1>16. QED BY <1>7, <1>9, <1>13, <1>14, <1>15 DEF Orderly

\* The worker that drives a task goes on.
LEMMA DriverGoesOn ==
  ASSUME Orderly, NEW w \in Worker, wpc[w] \notin {"idle", "finally"}, NEW pc, NEW m,
         Works(w, pc, m), UNCHANGED <<actors, queue>>,
         pc \notin {"idle", "early", "stop"},
         pc \in Writing => Plain(m.from) /\ Plain(m.to),
         \A u \in Task \ {wtask[w]} : row'[u] = row[u],
         Plain(row'[wtask[w]]),
         row'[wtask[w]].status = "queued" =>
           /\ row[wtask[w]].status = "queued" /\ row'[wtask[w]].cid = row[wtask[w]].cid
           /\ row'[wtask[w]].beat \in {row[wtask[w]].beat, "fresh"},
         \/ pc = "finally"
         \/ /\ pc \in Before /\ row'[wtask[w]].status = "queued"
            /\ pc \in Writing =>
                 m.from.status = "queued" /\ (row'[wtask[w]].ply => m.from.ply)
         \/ /\ pc \in AtRun
            /\ row'[wtask[w]].status = "processing" /\ row'[wtask[w]].beat = "fresh"
            /\ pc \in Writing =>
                 m.from.status = "processing" /\ (row'[wtask[w]].ply => m.from.ply)
  PROVE  Orderly' \/ ~Types'
<1>1. PICK t \in Task : t = wtask[w] /\ Has(w, t)
  BY HasTask DEF Orderly
<1>2. \A v \in Worker : /\ wpc'[v]  = IF v = w THEN pc ELSE wpc[v]
                        /\ wmem'[v] = IF v = w THEN m ELSE wmem[v]
                        /\ wtask'[v] = wtask[v] /\ wmsg'[v] = wmsg[v]
  BY DEF Works, Orderly, Types, Runs
<1>3. Quiet'
  <2>1. \A u \in Task : Plain(row'[u])
    BY <1>1 DEF Orderly, Quiet
  <2>2. QED BY <1>2, <2>1, QuietRows DEF Orderly
<1>4. Has(w, t)' => WorkerAgrees(w, t)'
  BY <1>1, <1>2 DEF Has, WorkerAgrees
<1>5. queue'[t] = {}
  BY <1>1 DEF Orderly, Alone
<1>6. \A u \in Task : Alone(u)' /\ Agrees(u)'
  <2>1. wtask'[w] \in {t, None}
    BY <1>1, <1>2
  <2>2. \A v \in Worker \ {w} : wpc'[v] = wpc[v] /\ wtask'[v] = wtask[v] /\ wmem'[v] = wmem[v]
    BY <1>2
  <2>3. \A u \in Task \ {t} : row'[u] = row[u] /\ queue'[u] = queue[u]
    BY <1>1
  <2>4. row'[t].status = "queued" => /\ row[t].status = "queued" /\ row'[t].cid = row[t].cid
                                     /\ row'[t].beat \in {row[t].beat, "fresh"}
    BY <1>1
  <2>5. QED BY <1>1, <1>4, <1>5, <2>1, <2>2, <2>3, <2>4, WorkerDrives
<1>7. QED BY <1>3, <1>6 DEF Orderly

\* It is done with its message, which may be back in the queue.
LEMMA DriverLeaves ==
  ASSUME Orderly, NEW w \in Worker, wpc[w] \notin {"idle", "finally"}, Acks(w), UNCHANGED actors,
         \A u \in Task \ {wtask[w]} : row'[u] = row[u],
         Plain(row'[wtask[w]]),
         row'[wtask[w]].status = "queued" =>
           /\ row[wtask[w]].status = "queued" /\ row'[wtask[w]].cid = row[wtask[w]].cid
           /\ row'[wtask[w]].beat \in {row[wtask[w]].beat, "fresh"},
         \/ queue' = queue
         \/ /\ queue' = [queue EXCEPT ![wtask[w]] = @ \cup {wmsg[w]}]
            /\ row'[wtask[w]].status = "queued"
  PROVE  Orderly' \/ ~Types'
<1>1. PICK t \in Task : t = wtask[w] /\ Has(w, t)
  BY HasTask DEF Orderly
<1>2. \A v \in Worker : /\ wpc'[v]   = IF v = w THEN "idle" ELSE wpc[v]
                        /\ wtask'[v] = IF v = w THEN None ELSE wtask[v]
                        /\ wmem'[v]  = IF v = w THEN None ELSE wmem[v]
  BY AcksRuns DEF Orderly, Types
<1>3. Quiet'
  <2>1. \A u \in Task : Plain(row'[u])
    BY <1>1 DEF Orderly, Quiet
  <2>2. QED BY <1>2, <2>1, QuietRows DEF Orderly, Writing
<1>4. ~Has(w, t)'
  BY <1>1, <1>2 DEF Has
<1>5. queue[t] = {}
  BY <1>1 DEF Orderly, Alone
<1>6. \A u \in Task : Alone(u)' /\ Agrees(u)'
  <2>1. wtask'[w] \in {t, None}
    BY <1>1, <1>2
  <2>2. \A v \in Worker \ {w} : wpc'[v] = wpc[v] /\ wtask'[v] = wtask[v] /\ wmem'[v] = wmem[v]
    BY <1>2
  <2>3. \A u \in Task \ {t} : row'[u] = row[u] /\ queue'[u] = queue[u]
    BY <1>1 DEF Orderly, Types, Tables
  <2>4. /\ \A i, j \in queue'[t] : i = j
        /\ queue'[t] # {} => row'[t].status = "queued"
    BY <1>1, <1>5 DEF Orderly, Types, Tables
  <2>5. row'[t].status = "queued" => /\ row[t].status = "queued" /\ row'[t].cid = row[t].cid
                                     /\ row'[t].beat \in {row[t].beat, "fresh"}
    BY <1>1
  <2>6. QED BY <1>1, <1>4, <2>1, <2>2, <2>3, <2>4, <2>5, WorkerDrives
<1>7. QED BY <1>3, <1>6 DEF Orderly

\* What the worker knows that drives a task.
LEMMA DriverKnows ==
  ASSUME Orderly, NEW w \in Worker, wpc[w] \notin {"idle", "finally"}
  PROVE  /\ wtask[w] \in Task /\ row[wtask[w]] \in Row
         /\ Plain(row[wtask[w]]) /\ WorkerAgrees(w, wtask[w])
         /\ wpc[w] \in Writing =>
              /\ WorkerFits(wpc[w], wmem[w]) /\ wmem[w] \in Loaded
              /\ Plain(wmem[w].from) /\ Plain(wmem[w].to)
<1>1. PICK t \in Task : t = wtask[w] /\ Has(w, t) /\ row[t] \in Row
  BY HasTask DEF Orderly
<1>2. WorkerAgrees(w, t) /\ Plain(row[t])
  BY <1>1 DEF Orderly, Agrees, Quiet
<1>3. wpc[w] \in Writing => /\ WorkerFits(wpc[w], wmem[w]) /\ wmem[w] \in Loaded
                            /\ Plain(wmem[w].from) /\ Plain(wmem[w].to)
  BY DEF Orderly, Types, Runs, Quiet, WorkerFits, Honest
<1>4. QED BY <1>1, <1>2, <1>3

\* What its commit does.
LEMMA DriverWrites ==
  ASSUME Orderly, NEW w \in Worker, wpc[w] \in Writing, wpc[w] \notin {"early", "stop"},
         \/ Commits(w) \/ BeginCommit(w) \/ FinalCommit(w)
  PROVE  /\ \A u \in Task \ {wtask[w]} : row'[u] = row[u]
         /\ Plain(row'[wtask[w]]) /\ row'[wtask[w]].cid = row[wtask[w]].cid
         /\ row'[wtask[w]].beat = "fresh"
         /\ row'[wtask[w]].status = wmem[w].to.status
         /\ \A u \in Task : Tame(u)
         /\ wpc[w] # "wait" => wmem[w].to.status # "queued"
         /\ wpc[w] = "wait" => wmem[w].to.status = "queued" /\ row[wtask[w]].status = "queued"
         /\ wpc[w] = "begin" => wmem[w].to.status = "processing"
<1> DEFINE t == wtask[w]
           m == wmem[w]
<1>1. /\ t \in Task /\ row[t] \in Row /\ Plain(row[t]) /\ WorkerAgrees(w, t)
      /\ WorkerFits(wpc[w], m) /\ m \in Loaded /\ Plain(m.from) /\ Plain(m.to)
  BY DriverKnows DEF Writing
<1>2. Writes(t, m) /\ row'[t].beat = "fresh"
  BY WorkerWrites DEF Orderly
<1>3. /\ m.from.status = row[t].status /\ row[t].status \in {"queued", "processing"}
      /\ row[t].ply => m.from.ply
  BY <1>1 DEF WorkerAgrees
<1>4. row'[t].status = m.to.status /\ row'[t].cid = row[t].cid
  BY <1>1, <1>2, <1>3 DEF Writes, WorkerFits
<1>5. Plain(row'[t])
  <2>1. m.from \in Row /\ m.to \in Row
    BY <1>1 DEF Loaded
  <2>2. m.to.cancel = m.from.cancel /\ m.to.deleted = m.from.deleted
    BY <1>1, <2>1 DEF Plain, Row
  <2>3. row'[t].cancel = row[t].cancel /\ row'[t].deleted = row[t].deleted
    BY <1>2, <2>2 DEF Writes
  <2>4. QED BY <1>1, <1>4, <2>3 DEF Plain
<1>6. \A u \in Task \ {t} : row'[u] = row[u]
  BY <1>2 DEF Writes, Same
<1>7. Tame(t)
  <2>1. row'[t].ply => row[t].ply \/ m.to.status = "completed"
    BY <1>2 DEF Writes
  <2>2. m.to.status = "failed" => ~m.from.ply
    BY <1>1, <1>3 DEF WorkerFits, Honest
  <2>3. QED BY <1>3, <1>4, <2>1, <2>2 DEF Tame, Active
<1>8. \A u \in Task : Tame(u)
  BY <1>6, <1>7 DEF Tame
<1>9. /\ wpc[w] # "wait" => m.to.status # "queued"
      /\ wpc[w] = "wait" => m.to.status = "queued" /\ row[t].status = "queued"
      /\ wpc[w] = "begin" => m.to.status = "processing"
  BY <1>1, <1>3 DEF WorkerFits, Writing, WorkerAgrees, Before, AtRun
<1>10. QED BY <1>2, <1>4, <1>5, <1>6, <1>8, <1>9

\* A GPU is there, or not.
LEMMA LeaseOrderly ==
  ASSUME Orderly, NEW w \in Worker, GetLease(w) \/ \E i \in BOOLEAN : NoLease(w, i)
  PROVE  (Orderly' \/ ~Types') /\ \A u \in Task : Tame(u)
<1> DEFINE t == wtask[w]
           f == StageFailed(row[t])
           q == [row[t] EXCEPT !.status = "queued", !.run = None]
<1>1. wpc[w] = "acquire" /\ UNCHANGED <<row, broker, lock, actors, faults, cancels>>
  BY DEF GetLease, NoLease
<1>2. /\ t \in Task /\ row[t] \in Row /\ Plain(row[t]) /\ row[t].status = "queued"
  BY <1>1, DriverKnows DEF WorkerAgrees, AtRun
<1>3. /\ f.cancel = row[t].cancel /\ f.deleted = row[t].deleted
      /\ f.status \in {"failed", "partial"}
  BY <1>2, RowColumns, RowFlags
<1>4. q.cancel = row[t].cancel /\ q.deleted = row[t].deleted /\ q.status = "queued"
  BY <1>2 DEF Row
<1>5. \/ Works(w, "leased", None)
      \/ Works(w, "wait", Load(t, q)) \/ Works(w, "refuse", Load(t, f))
  BY <1>2 DEF GetLease, NoLease, Task0
<1> HIDE DEF f, q
<1>6. PICK pc, m :
        /\ pc \in {"leased", "wait", "refuse"}
        /\ Works(w, pc, m)
        /\ pc # "leased" => m.from = row[t] /\ Plain(m.to)
  BY <1>2, <1>3, <1>4, <1>5 DEF Load, Plain
<1>7. UNCHANGED <<actors, queue>> /\ UNCHANGED row
  BY <1>1 DEF broker
<1>8. Orderly' \/ ~Types'
  <2>1. pc \in Before /\ (pc \in Writing => pc # "leased")
    BY <1>6 DEF Before, Writing
  <2>2. pc \in Writing => /\ Plain(m.from) /\ Plain(m.to) /\ m.from.status = "queued"
                          /\ (row'[t].ply => m.from.ply)
    BY <1>2, <1>6, <1>7, <2>1
  <2>3. QED BY <1>1, <1>2, <1>6, <1>7, <2>1, <2>2, DriverGoesOn
<1>9. QED BY <1>7, <1>8 DEF Tame

\* The task waits, and its message is sent again.
LEMMA WaitOrderly ==
  ASSUME Orderly, NEW w \in Worker, WaitCommit(w)
  PROVE  (Orderly' \/ ~Types') /\ \A u \in Task : Tame(u)
<1>1. /\ wpc[w] = "wait" /\ wpc[w] \in Writing /\ Commits(w) /\ Acks(w) /\ UNCHANGED actors
      /\ queue' = [queue EXCEPT ![wtask[w]] = @ \cup {wmsg[w]}]
  BY DEF WaitCommit, Writing
<1>2. QED BY <1>1, DriverWrites, DriverLeaves

\* A run loads its task, which nobody cancelled.
LEMMA RunLoadOrderly ==
  ASSUME Orderly, NEW w \in Worker, RunLoad(w)
  PROVE  (Orderly' \/ ~Types') /\ \A u \in Task : Tame(u)
<1> DEFINE t == wtask[w]
           p == [row[t] EXCEPT !.status = "processing", !.run = w]
<1>1. wpc[w] = "leased" /\ UNCHANGED <<row, actors, queue>>
  BY DEF RunLoad, broker
<1>2. /\ t \in Task /\ row[t] \in Row /\ Plain(row[t]) /\ row[t].status = "queued"
  BY <1>1, DriverKnows DEF WorkerAgrees, AtRun
<1>3. p.cancel = row[t].cancel /\ p.deleted = row[t].deleted /\ p.status = "processing"
  BY <1>2 DEF Row
<1>4. Works(w, "begin", Load(t, p))
  BY <1>2 DEF RunLoad, Task0, Plain
<1>5. Load(t, p).from = row[t] /\ Plain(Load(t, p).to)
  BY <1>2, <1>3 DEF Load, Plain
<1>6. "begin" \in Before /\ Plain(row'[t])
  BY <1>1, <1>2 DEF Before
<1>7. Orderly' \/ ~Types'
  <2> DEFINE m == Load(t, p)
  <2>1. Works(w, "begin", m) /\ m.from = row[t] /\ Plain(m.to) /\ Plain(m.from)
    BY <1>2, <1>4, <1>5
  <2> HIDE DEF m
  <2>2. QED BY <1>1, <1>2, <1>6, <2>1, DriverGoesOn
<1>8. QED BY <1>1, <1>7 DEF Tame

\* The run begins, or its end is committed.
LEMMA RunCommitOrderly ==
  ASSUME Orderly, NEW w \in Worker, BeginCommit(w) \/ FinalCommit(w) \/ EndCommit(w)
  PROVE  (Orderly' \/ ~Types') /\ \A u \in Task : Tame(u)
<1>1. /\ wpc[w] \in {"begin", "final", "fail"} /\ wpc[w] \in Writing
      /\ UNCHANGED <<actors, queue>>
      /\ \/ wpc[w] = "begin" /\ Works(w, "exec", None)
         \/ wpc[w] # "begin" /\ Works(w, "finally", None)
  BY DEF BeginCommit, FinalCommit, EndCommit, Writing, broker, Orderly, Quiet
<1>2. /\ \A u \in Task \ {wtask[w]} : row'[u] = row[u]
      /\ Plain(row'[wtask[w]]) /\ row'[wtask[w]].cid = row[wtask[w]].cid
      /\ row'[wtask[w]].beat = "fresh"
      /\ \A u \in Task : Tame(u)
      /\ row'[wtask[w]].status # "queued"
      /\ wpc[w] = "begin" => row'[wtask[w]].status = "processing"
  BY <1>1, DriverWrites DEF EndCommit
<1>3. CASE wpc[w] = "begin"
  <2>1. Works(w, "exec", None) /\ "exec" \in AtRun /\ "exec" \notin Writing
    BY <1>1, <1>3 DEF AtRun, Writing
  <2>2. QED BY <1>1, <1>2, <1>3, <2>1, DriverGoesOn
<1>4. CASE wpc[w] # "begin"
  <2>1. Works(w, "finally", None) /\ "finally" \notin Writing
    BY <1>1, <1>4 DEF Writing
  <2>2. QED BY <1>1, <1>2, <2>1, DriverGoesOn
<1>5. QED BY <1>2, <1>3, <1>4

\* A turn of the poll loop finds no cancellation.
LEMMA PollOrderly ==
  ASSUME Orderly, NEW w \in Worker, NEW exits \in BOOLEAN, Poll(w, exits)
  PROVE  (Orderly' \/ ~Types') /\ \A u \in Task : Tame(u)
<1> DEFINE t == wtask[w]
<1>1. wpc[w] = "exec" /\ UNCHANGED <<actors, queue>>
  BY DEF Poll, broker
<1>2. /\ t \in Task /\ row[t] \in Row /\ Plain(row[t]) /\ row[t].status = "processing"
  BY <1>1, DriverKnows DEF WorkerAgrees, Before
<1>3. /\ row' = [row EXCEPT ![t] = Touch(row[t])]
      /\ Works(w, "exited", None) \/ UNCHANGED workers
  BY <1>2 DEF Poll, Task0, Plain
<1>4. /\ Touch(row[t]).status = row[t].status /\ Touch(row[t]).cid = row[t].cid
      /\ Touch(row[t]).deleted = row[t].deleted /\ Touch(row[t]).cancel = row[t].cancel
      /\ Touch(row[t]).beat = "fresh" /\ Touch(row[t]).ply = row[t].ply
  BY <1>2, RowColumns, RowFlags
<1>5. row'[t] = Touch(row[t]) /\ \A u \in Task \ {t} : row'[u] = row[u]
  BY <1>2, <1>3 DEF Orderly, Types, Tables
<1>6. Plain(row'[t])
  BY <1>2, <1>4, <1>5 DEF Plain
<1>7. PICK pc, m : pc \in {"exec", "exited"} /\ Works(w, pc, m)
  <2>1. CASE UNCHANGED workers
    <3>1. Works(w, "exec", wmem[w])
      BY <1>1, <2>1 DEF Works, workers, Orderly, Types, Runs
    <3>2. QED BY <3>1
  <2>2. QED BY <1>3, <2>1
<1>8. pc \in AtRun /\ pc \notin Writing
  BY <1>7 DEF AtRun, Writing
<1>9. Orderly' \/ ~Types'
  BY <1>1, <1>2, <1>4, <1>5, <1>6, <1>7, <1>8, DriverGoesOn
<1>10. \A u \in Task : Tame(u)
  BY <1>4, <1>5 DEF Tame
<1>11. QED BY <1>9, <1>10

\* The end of a run is loaded, or the run raises.
LEMMA RunOrderly ==
  ASSUME Orderly, NEW w \in Worker,
         Raise(w) \/ ExceptLoad(w) \/ \E good \in BOOLEAN : FinalLoad(w, good)
  PROVE  (Orderly' \/ ~Types') /\ \A u \in Task : Tame(u)
<1> DEFINE t == wtask[w]
           f == Settled(StageFailed(row[t]))
           d == Settled([row[t] EXCEPT !.status = "completed"])
<1>1. /\ wpc[w] \in {"exec", "exited", "final", "except"}
      /\ UNCHANGED <<row, actors, queue>>
  BY DEF Raise, ExceptLoad, FinalLoad, broker, Orderly, Quiet
<1>2. /\ t \in Task /\ row[t] \in Row /\ Plain(row[t])
      /\ row[t].status = "processing" /\ row[t].beat = "fresh"
  BY <1>1, DriverKnows DEF WorkerAgrees, Before
<1>3. Plain(f)
  <2>1. /\ StageFailed(row[t]) \in Row
        /\ StageFailed(row[t]).status \in {"failed", "partial"}
        /\ StageFailed(row[t]).cancel = row[t].cancel
        /\ StageFailed(row[t]).deleted = row[t].deleted
    BY <1>2, RowOps, RowColumns, RowFlags
  <2> DEFINE s == StageFailed(row[t])
  <2> HIDE DEF s
  <2>2. ASSUME s \in Row
        PROVE  /\ Settled(s).status = s.status /\ Settled(s).cancel = s.cancel
               /\ Settled(s).deleted = s.deleted
    BY <2>2, RowColumns, RowFlags
  <2>3. QED BY <1>2, <2>1, <2>2 DEF s, Plain
<1>4. Plain(d)
  <2> DEFINE s == [row[t] EXCEPT !.status = "completed"]
  <2>1. /\ s \in Row /\ s.status = "completed" /\ s.cancel = row[t].cancel
        /\ s.deleted = row[t].deleted
    BY <1>2 DEF Row, Status
  <2> HIDE DEF s
  <2>2. /\ Settled(s).status = s.status /\ Settled(s).cancel = s.cancel
        /\ Settled(s).deleted = s.deleted
    BY <2>1, RowColumns, RowFlags
  <2>3. QED BY <1>2, <2>1, <2>2 DEF s, Plain
<1>5. \/ Works(w, "except", None)
      \/ Works(w, "fail", Load(t, f))
      \/ Works(w, "final", Load(t, f)) \/ Works(w, "final", Load(t, d))
  BY DEF Raise, ExceptLoad, FinalLoad, Task0
<1> HIDE DEF f, d
<1>6. PICK pc, m :
        /\ pc \in {"except", "fail", "final"}
        /\ Works(w, pc, m)
        /\ pc # "except" => m.from = row[t] /\ Plain(m.to)
  BY <1>3, <1>4, <1>5 DEF Load
<1>7. pc \in AtRun /\ (pc \in Writing => pc # "except") /\ Plain(row'[t])
  BY <1>1, <1>2, <1>6 DEF AtRun, Writing
<1>8. Orderly' \/ ~Types'
  BY <1>1, <1>2, <1>6, <1>7, DriverGoesOn
<1>9. QED BY <1>1, <1>8 DEF Tame

\* A message is refused for good: the quota is used up.
LEMMA LeaveOrderly ==
  ASSUME Orderly, NEW w \in Worker, LeaveCommit(w)
  PROVE  (Orderly' \/ ~Types') /\ \A u \in Task : Tame(u)
<1>1. /\ wpc[w] = "refuse" /\ wpc[w] \in Writing /\ Commits(w) /\ Acks(w)
      /\ UNCHANGED <<actors, queue>>
  BY DEF LeaveCommit, Writing, broker, Orderly, Quiet
<1>2. QED BY <1>1, DriverWrites, DriverLeaves

\* A step that changes a task's bill at most, and lets a message or a worker go.
LEMMA GoneOrderly ==
  ASSUME Orderly, UNCHANGED actors,
         \A u \in Task : /\ row'[u].status = row[u].status /\ row'[u].cid = row[u].cid
                         /\ row'[u].beat = row[u].beat /\ row'[u].ply = row[u].ply
                         /\ Plain(row'[u]),
         \A u \in Task : queue'[u] \subseteq queue[u],
         (\E w \in Worker : Acks(w)) \/ UNCHANGED workers
  PROVE  (Orderly' \/ ~Types') /\ \A u \in Task : Tame(u)
<1>1. ASSUME NEW v \in Worker
      PROVE  \/ wpc'[v] = "idle"
             \/ wpc'[v] = wpc[v] /\ wtask'[v] = wtask[v] /\ wmem'[v] = wmem[v]
  BY AcksRuns DEF Orderly, Types, workers
<1>2. Quiet'
  <2>1. \A a \in Actor :
          /\ apc'[a] \notin {"revoke", "cancel"}
          /\ apc'[a] # "idle" => /\ Plain(amem'[a].from) /\ Plain(amem'[a].to)
                                 /\ amem'[a].to.beat = amem'[a].from.beat
          /\ apc'[a] = "quota" => a \in Client
          /\ apc'[a] = "enqueue" /\ a \in Recoverer => amem'[a].from.cid = NoId
          /\ apc'[a] = "release" => a \in Recoverer
    BY DEF Orderly, Quiet, actors
  <2>2. \A v \in Worker :
          /\ wpc'[v] \notin {"early", "stop"}
          /\ wpc'[v] \in Writing => Plain(wmem'[v].from) /\ Plain(wmem'[v].to)
    BY <1>1 DEF Orderly, Quiet, Writing
  <2>3. QED BY <2>1, <2>2 DEF Quiet
<1>3. ASSUME NEW u \in Task
      PROVE  Alone(u)' /\ Agrees(u)'
  <2>1. Alone(u) /\ Agrees(u)
    BY DEF Orderly
  <2>2. \A v \in Worker : Has(v, u)' => Has(v, u) /\ wpc'[v] = wpc[v] /\ wmem'[v] = wmem[v]
    BY <1>1 DEF Has
  <2>3. \A a \in Actor : /\ Recovers(a, u)' <=> Recovers(a, u)
                         /\ Calls(a, u)' <=> Calls(a, u)
                         /\ Begins(a, u)' <=> Begins(a, u)
    BY DEF Recovers, Calls, Begins, actors
  <2>4. Alone(u)'
    BY <2>1, <2>2, <2>3 DEF Alone
  <2>5. Nobody(u) => Nobody(u)'
    BY <2>2, <2>3 DEF Nobody
  <2>6. Dispatched(u)'
    BY <2>1, <2>3, <2>5 DEF Agrees, Dispatched, actors
  <2>7. \A v \in Worker : Has(v, u)' => WorkerAgrees(v, u)'
    BY <2>1, <2>2 DEF Agrees, WorkerAgrees
  <2>8. \A a \in Actor : Calls(a, u)' => CallerAgrees(a, u)'
    BY <2>1, <2>3 DEF Agrees, CallerAgrees, actors
  <2>9. \A c \in Client : Begins(c, u)' => StarterAgrees(c, u)'
    BY <2>1, <2>3, <2>5 DEF Agrees, StarterAgrees, actors, Actor
  <2>10. /\ queue'[u] # {} => row'[u].status = "queued"
         /\ \A c, d \in Client : atask'[c] = u /\ atask'[d] = u => c = d
    BY <2>1 DEF Agrees, actors
  <2>11. QED BY <2>4, <2>6, <2>7, <2>8, <2>9, <2>10 DEF Agrees
<1>4. QED BY <1>2, <1>3 DEF Orderly, Tame

\* A worker ends its message, or the message is dropped, without a word to the task.
LEMMA LetGoOrderly ==
  ASSUME Orderly,
         \/ \E w \in Worker : Finally(w) \/ KillRevoked(w) \/ Uncaught(w)
         \/ \E t \in Task, i \in Id : DropRevoked(t, i) \/ \E w \in Worker : Ignore(w, t, i)
  PROVE  (Orderly' \/ ~Types') /\ \A u \in Task : Tame(u)
<1>1. \A u \in Task : row[u] \in Row /\ Plain(row[u])
  BY DEF Orderly, Quiet, Types, Tables
<1>2. CASE \E w \in Worker : Finally(w) \/ KillRevoked(w) \/ Uncaught(w)
  <2>1. PICK w \in Worker : Finally(w) \/ KillRevoked(w) \/ Uncaught(w)
    BY <1>2
  <2>2. Acks(w) /\ UNCHANGED <<queue, actors>>
    BY <2>1 DEF Finally, KillRevoked, Uncaught, broker
  <2>3. row' = row \/ row' = [row EXCEPT ![wtask[w]] = Settled(@)]
    BY <2>1 DEF Finally, KillRevoked, Uncaught
  <2>4. \A u \in Task : row'[u] = row[u] \/ row'[u] = Settled(row[u])
    BY <2>3 DEF Orderly, Types, Tables
  <2>5. ASSUME NEW u \in Task
        PROVE  /\ row'[u].status = row[u].status /\ row'[u].cid = row[u].cid
               /\ row'[u].beat = row[u].beat /\ row'[u].ply = row[u].ply
               /\ Plain(row'[u])
    <3>1. /\ Settled(row[u]).status = row[u].status /\ Settled(row[u]).cid = row[u].cid
          /\ Settled(row[u]).beat = row[u].beat /\ Settled(row[u]).ply = row[u].ply
          /\ Settled(row[u]).deleted = row[u].deleted /\ Settled(row[u]).cancel = row[u].cancel
      BY <1>1, RowColumns, RowFlags
    <3>2. QED BY <1>1, <2>4, <3>1 DEF Plain
  <2>6. QED BY <2>2, <2>5, GoneOrderly
<1>3. CASE \E t \in Task, i \in Id : DropRevoked(t, i) \/ \E w \in Worker : Ignore(w, t, i)
  <2>1. PICK t \in Task, i \in Id : DropRevoked(t, i) \/ \E w \in Worker : Ignore(w, t, i)
    BY <1>3
  <2>2. UNCHANGED <<row, actors, workers>> /\ queue' = [queue EXCEPT ![t] = @ \ {i}]
    BY <2>1 DEF DropRevoked, Ignore
  <2>3. \A u \in Task : queue'[u] \subseteq queue[u]
    BY <2>2 DEF Orderly, Types, Tables
  <2>4. QED BY <1>1, <2>2, <2>3, GoneOrderly
<1>4. QED BY <1>2, <1>3

\* A PLY is deleted: whoever has loaded the row takes it to be there.
LEMMA DeletePlyOrderly ==
  ASSUME Orderly, NEW t \in Task, DeletePly(t)
  PROVE  (Orderly' \/ ~Types') /\ \A u \in Task : Tame(u)
<1>1. /\ row[t] \in Row /\ UNCHANGED <<queue, actors, workers>>
      /\ row' = [row EXCEPT ![t] = [row[t] EXCEPT !.ply = FALSE]]
  BY DEF DeletePly, broker, Orderly, Types, Tables
<1>2. \A u \in Task :
        /\ row'[u].status = row[u].status /\ row'[u].cid = row[u].cid
        /\ row'[u].beat = row[u].beat /\ (row'[u].ply => row[u].ply)
        /\ row'[u].cancel = row[u].cancel /\ row'[u].deleted = row[u].deleted
  BY <1>1 DEF Orderly, Types, Tables, Row
<1>3. \A u \in Task : Alone(u) /\ Agrees(u) /\ Plain(row[u])
  BY DEF Orderly, Quiet
<1>4. Quiet'
  <2>1. \A u \in Task : Plain(row'[u])
    BY <1>2, <1>3 DEF Plain
  <2>2. QED BY <1>1, <2>1 DEF Orderly, Quiet, actors, workers
<1>5. ASSUME NEW u \in Task
      PROVE  Alone(u)' /\ Agrees(u)'
  <2>1. Untouched(u)
    BY <1>1, <1>2 DEF Untouched, actors, workers, Actor
  <2>2. QED BY <1>3, <2>1, Frame
<1>6. QED BY <1>2, <1>4, <1>5 DEF Orderly, Tame

\* A heartbeat ages: only of a task that nobody is at work on.
LEMMA AgesOrderly ==
  ASSUME Orderly, Serial, NEW t \in Task, HeartbeatAges(t)
  PROVE  (Orderly' \/ ~Types') /\ \A u \in Task : Tame(u)
<1>1. /\ row[t] \in Row /\ ~AtWork(t) /\ UNCHANGED <<queue, actors, workers>>
      /\ row' = [row EXCEPT ![t] = [row[t] EXCEPT !.beat = "stale"]]
  BY DEF HeartbeatAges, Serial, broker, Orderly, Types, Tables
<1>2. /\ \A u \in Task \ {t} : row'[u] = row[u]
      /\ row'[t].status = row[t].status /\ row'[t].cid = row[t].cid
      /\ row'[t].ply = row[t].ply /\ row'[t].cancel = row[t].cancel
      /\ row'[t].deleted = row[t].deleted
  BY <1>1 DEF Orderly, Types, Tables, Row
<1>3. \A u \in Task : Alone(u) /\ Agrees(u) /\ Plain(row[u])
  BY DEF Orderly, Quiet
<1>4. Quiet'
  <2>1. \A u \in Task : Plain(row'[u])
    BY <1>2, <1>3 DEF Plain
  <2>2. QED BY <1>1, <2>1 DEF Orderly, Quiet, actors, workers
<1>5. ASSUME NEW u \in Task \ {t}
      PROVE  Alone(u)' /\ Agrees(u)'
  <2>1. Untouched(u)
    BY <1>1, <1>2 DEF Untouched, actors, workers, Actor
  <2>2. QED BY <1>3, <2>1, Frame
<1>6. /\ \A w \in Worker : Has(w, t)' <=> Has(w, t)
      /\ \A a \in Actor : /\ Recovers(a, t)' <=> Recovers(a, t)
                          /\ Calls(a, t)' <=> Calls(a, t)
                          /\ Begins(a, t)' <=> Begins(a, t)
  BY <1>1 DEF Has, Recovers, Calls, Begins, actors, workers
<1>7. Alone(t)'
  BY <1>1, <1>3, <1>6 DEF Alone
<1>8. Nobody(t)' <=> Nobody(t)
  BY <1>1, <1>6 DEF Nobody
<1>9. \A w \in Worker : Has(w, t) => wpc[w] \notin AtRun
  BY <1>1 DEF AtWork, Has
<1>10. \A w \in Worker : Has(w, t)' => WorkerAgrees(w, t)'
  BY <1>1, <1>2, <1>3, <1>6, <1>9 DEF Agrees, WorkerAgrees, workers
<1>11. \A a \in Actor : Calls(a, t)' => CallerAgrees(a, t)'
  BY <1>1, <1>2, <1>3, <1>6 DEF Agrees, CallerAgrees, actors
<1>12. \A c \in Client : Begins(c, t)' => StarterAgrees(c, t)'
  BY <1>1, <1>2, <1>3, <1>6, <1>8 DEF Agrees, StarterAgrees, actors, Actor
<1>13. Dispatched(t)'
  <2>1. ~\E a \in Actor : atask[a] = t /\ apc[a] \in {"send", "record", "unsent"}
    BY <1>1 DEF AtWork
  <2>2. QED BY <1>2, <1>3, <1>6, <1>8, <2>1 DEF Agrees, Dispatched
<1>14. Agrees(t)'
  BY <1>1, <1>2, <1>3, <1>10, <1>11, <1>12, <1>13 DEF Agrees, actors
<1>15. QED BY <1>2, <1>4, <1>5, <1>7, <1>14 DEF Orderly, Tame

\* A task is created, which nobody knows.
LEMMA CreateOrderly ==
  ASSUME Orderly, NEW t \in Task, Create(t)
  PROVE  /\ Orderly' \/ ~Types'
         /\ \A u \in Task \ {t} : row'[u] = row[u]
         /\ row'[t].status = "pending"
<1>1. /\ row[t] \in Row /\ row[t].status = "absent" /\ UNCHANGED <<queue, actors, workers>>
      /\ row' = [row EXCEPT ![t] = [row[t] EXCEPT !.status = "pending"]]
  BY DEF Create, broker, Orderly, Types, Tables
<1>2. /\ \A u \in Task \ {t} : row'[u] = row[u]
      /\ row'[t].status = "pending"
      /\ row'[t].cancel = row[t].cancel /\ row'[t].deleted = row[t].deleted
  BY <1>1 DEF Orderly, Types, Tables, Row
<1>3. \A u \in Task : Alone(u) /\ Agrees(u) /\ Plain(row[u])
  BY DEF Orderly, Quiet
<1>4. Quiet'
  <2>1. \A u \in Task : Plain(row'[u])
    BY <1>2, <1>3 DEF Plain
  <2>2. QED BY <1>1, <2>1 DEF Orderly, Quiet, actors, workers
<1>5. ASSUME NEW u \in Task \ {t}
      PROVE  Alone(u)' /\ Agrees(u)'
  <2>1. Untouched(u)
    BY <1>1, <1>2 DEF Untouched, actors, workers, Actor
  <2>2. QED BY <1>3, <2>1, Frame
<1>6. /\ queue[t] = {} /\ \A w \in Worker : ~Has(w, t)
      /\ \A a \in Actor : ~Calls(a, t)
      /\ \A c \in Client : ~Begins(c, t)
  BY <1>1, <1>3 DEF Agrees, WorkerAgrees, CallerAgrees, StarterAgrees
<1>7. /\ \A w \in Worker : ~Has(w, t)'
      /\ \A a \in Actor : ~Calls(a, t)' /\ ~Recovers(a, t)'
      /\ \A c \in Client : ~Begins(c, t)'
  BY <1>1, <1>6 DEF Has, Recovers, Calls, Begins, actors, workers, Actor
<1>8. Alone(t)'
  BY <1>1, <1>6, <1>7 DEF Alone
<1>9. Dispatched(t)'
  BY <1>2, <1>7 DEF Dispatched
<1>10. Agrees(t)'
  BY <1>1, <1>3, <1>6, <1>7, <1>9 DEF Agrees, actors
<1>11. QED BY <1>2, <1>4, <1>5, <1>8, <1>10 DEF Orderly

\* A step of one request or recovery, as far as cancellations go.
LEMMA QuietActors ==
  ASSUME Quiet, UNCHANGED workers, \A t \in Task : Plain(row'[t]),
         NEW a \in Actor,
         \A b \in Actor \ {a} : apc'[b] = apc[b] /\ amem'[b] = amem[b],
         apc'[a] \notin {"revoke", "cancel"},
         apc'[a] # "idle" => /\ Plain(amem'[a].from) /\ Plain(amem'[a].to)
                             /\ amem'[a].to.beat = amem'[a].from.beat,
         apc'[a] = "quota" => a \in Client,
         apc'[a] = "enqueue" /\ a \in Recoverer => amem'[a].from.cid = NoId,
         apc'[a] = "release" => a \in Recoverer
  PROVE  Quiet'
<1>1. \A b \in Actor :
        /\ apc'[b] \notin {"revoke", "cancel"}
        /\ apc'[b] # "idle" => /\ Plain(amem'[b].from) /\ Plain(amem'[b].to)
                               /\ amem'[b].to.beat = amem'[b].from.beat
        /\ apc'[b] = "quota" => b \in Client
        /\ apc'[b] = "enqueue" /\ b \in Recoverer => amem'[b].from.cid = NoId
        /\ apc'[b] = "release" => b \in Recoverer
  BY DEF Quiet
<1>2. \A w \in Worker :
        /\ wpc'[w] \notin {"early", "stop"}
        /\ wpc'[w] \in Writing => Plain(wmem'[w].from) /\ Plain(wmem'[w].to)
  BY DEF Quiet, workers
<1>3. QED BY <1>1, <1>2 DEF Quiet

\* A step of a request or recovery on a task that nobody else drives.
LEMMA ActorDrives ==
  ASSUME Orderly, NEW a \in Actor, NEW t \in Task, UNCHANGED workers,
         \A b \in Actor \ {a} : apc'[b] = apc[b] /\ atask'[b] = atask[b] /\ amem'[b] = amem[b],
         atask[a] = t \/ apc[a] = "idle", atask'[a] = t \/ apc'[a] = "idle",
         atask'[a] \in {t, None},
         \A u \in Task \ {t} : row'[u] = row[u] /\ queue'[u] = queue[u],
         \A w \in Worker : ~Has(w, t),
         \A b \in Actor \ {a} : ~Calls(b, t),
         \A i, j \in queue'[t] : i = j,
         Calls(a, t)' => queue'[t] = {} /\ CallerAgrees(a, t)',
         queue'[t] # {} => row'[t].status = "queued",
         \A c \in Client : ~Begins(c, t)',
         \A c, d \in Client : atask'[c] = t /\ atask'[d] = t => c = d,
         Dispatched(t)'
  PROVE  \A u \in Task : Alone(u)' /\ Agrees(u)'
<1>1. None \notin Task
  BY ActorAssumption
<1>2. ASSUME NEW u \in Task \ {t}
      PROVE  Alone(u)' /\ Agrees(u)'
  <2>1. ~Engaged(a, u) /\ ~Engaged(a, u)'
    BY DEF Engaged, Calls, Recovers, Begins
  <2>2. Untouched(u)
    BY <1>1, <2>1 DEF Untouched, workers, Actor
  <2>3. QED BY <2>2, Frame DEF Orderly
<1>3. \A w \in Worker : ~Has(w, t)'
  BY DEF Has, workers
<1>4. \A b \in Actor \ {a} : ~Calls(b, t)'
  BY DEF Calls, Recovers
<1>5. Alone(t)'
  BY <1>3, <1>4 DEF Alone
<1>6. Agrees(t)'
  BY <1>3, <1>4 DEF Agrees
<1>7. QED BY <1>2, <1>5, <1>6

\* A start loads a task that nobody drives.
LEMMA RestartsOrderly ==
  ASSUME Orderly, Serial, NEW c \in Client, NEW t \in Task, StartLoad(c, t) \/ StartMeshLoad(c, t)
  PROVE  (Orderly' \/ ~Types') /\ \A u \in Task : Tame(u)
<1>1. PICK mesh \in BOOLEAN : Restarts(c, t, mesh)
  BY DEF StartLoad, StartMeshLoad
<1> DEFINE s == Started(row[t], mesh)
           n == Load(t, Queued(s))
<1>2. /\ c \in Actor /\ apc[c] = "idle" /\ \A d \in Client : atask[d] # t
      /\ row[t].status \in {"pending", "completed", "partial", "failed"}
      /\ Goes(c, "quota", t, n) /\ UNCHANGED <<row, queue, workers>>
      /\ row[t] \in Row /\ Plain(row[t])
  BY <1>1 DEF StartLoad, StartMeshLoad, Restarts, Serial, broker, Actor, Orderly, Quiet,
              Types, Tables
<1>3. /\ s \in Row /\ ~s.cancel /\ s.beat = row[t].beat /\ s.deleted = row[t].deleted
  BY <1>2, RowOps, RowColumns, RowFlags
<1> HIDE DEF s
<1>4. n.from = row[t] /\ Plain(n.from) /\ Plain(n.to) /\ n.to.beat = n.from.beat
  <2>1. /\ ~Queued(s).cancel /\ Queued(s).beat = row[t].beat /\ Queued(s).status = "queued"
        /\ Queued(s).deleted = row[t].deleted
    BY <1>3, RowColumns, RowFlags
  <2>2. n.from = row[t] /\ n.to = Queued(s)
    BY DEF Load
  <2>3. QED BY <1>2, <2>1, <2>2 DEF Plain
<1> HIDE DEF n
<1>5. /\ \A b \in Actor \ {c} : apc'[b] = apc[b] /\ atask'[b] = atask[b] /\ amem'[b] = amem[b]
      /\ apc'[c] = "quota" /\ atask'[c] = t /\ amem'[c] = n
  BY <1>2 DEF Goes, Orderly, Types, Sessions
<1>6. Quiet'
  BY <1>2, <1>4, <1>5, QuietActors DEF Orderly, Quiet
<1>7. ASSUME NEW u \in Task \ {t}
      PROVE  Alone(u)' /\ Agrees(u)'
  <2>1. Untouched(u)
    BY <1>2, <1>5 DEF Untouched, Engaged, Calls, Recovers, Begins, workers, Actor
  <2>2. QED BY <2>1, Frame DEF Orderly
<1>8. Alone(t) /\ Agrees(t)
  BY DEF Orderly
<1>9. Nobody(t)
  BY <1>2, <1>8 DEF Agrees, WorkerAgrees, CallerAgrees, Nobody
<1>10. /\ \A w \in Worker : ~Has(w, t)'
       /\ \A a \in Actor : ~Calls(a, t)' /\ ~Recovers(a, t)'
  <2>1. c \notin Recoverer
    BY ActorAssumption
  <2>2. QED BY <1>2, <1>5, <1>9, <2>1 DEF Nobody, Has, Calls, Recovers, workers
<1>11. Nobody(t)' /\ Alone(t)' /\ Dispatched(t)'
  BY <1>2, <1>9, <1>10 DEF Nobody, Alone, Dispatched
<1>12. \A d \in Client : Begins(d, t)' => d = c
  BY <1>2, <1>5 DEF Begins, Actor
<1>13. StarterAgrees(c, t)'
  BY <1>2, <1>4, <1>5, <1>11 DEF StarterAgrees, NoId, Dispatching
<1>14. Agrees(t)'
  BY <1>2, <1>5, <1>9, <1>10, <1>11, <1>12, <1>13 DEF Agrees, Nobody, Actor
<1>15. QED BY <1>2, <1>6, <1>7, <1>11, <1>14 DEF Orderly, Tame

\* It locks the user and counts: it goes on, or ends.
LEMMA StartQuotaOrderly ==
  ASSUME Orderly, NEW c \in Client, StartQuota(c)
  PROVE  (Orderly' \/ ~Types') /\ \A u \in Task : Tame(u)
<1>1. /\ c \in Actor /\ c \notin Recoverer /\ apc[c] = "quota"
      /\ UNCHANGED <<row, queue, workers>>
  BY ActorAssumption DEF StartQuota, Actor, broker
<1>2. /\ \A b \in Actor \ {c} : apc'[b] = apc[b] /\ atask'[b] = atask[b] /\ amem'[b] = amem[b]
      /\ \/ apc'[c] = "enqueue" /\ atask'[c] = atask[c] /\ amem'[c] = amem[c]
         \/ apc'[c] = "idle" /\ atask'[c] = None
  BY <1>1 DEF StartQuota, Ends, Goes, Orderly, Types, Sessions
<1>3. Quiet'
  BY <1>1, <1>2, QuietActors DEF Orderly, Quiet
<1>4. ASSUME NEW u \in Task
      PROVE  Alone(u)' /\ Agrees(u)'
  <2>1. Alone(u) /\ Agrees(u) /\ None \notin Task
    BY ActorAssumption DEF Orderly
  <2>2. \A w \in Worker : Has(w, u)' <=> Has(w, u)
    BY <1>1 DEF Has, workers
  <2>3. \A a \in Actor : /\ Recovers(a, u)' <=> Recovers(a, u)
                         /\ Calls(a, u)' <=> Calls(a, u)
                         /\ Calls(a, u) => a # c
                         /\ Begins(a, u)' => Begins(a, u)
    BY <1>1, <1>2, <2>1 DEF Recovers, Calls, Begins
  <2>4. Alone(u)'
    BY <1>1, <2>1, <2>2, <2>3 DEF Alone
  <2>5. Nobody(u)' <=> Nobody(u)
    BY <1>1, <2>2, <2>3 DEF Nobody
  <2>6. \A a \in Actor : atask'[a] = u /\ apc'[a] \in {"send", "record", "unsent"} <=>
                         atask[a] = u /\ apc[a] \in {"send", "record", "unsent"}
    BY <1>1, <1>2, <2>1
  <2>7. Dispatched(u)'
    BY <1>1, <2>1, <2>3, <2>5, <2>6 DEF Agrees, Dispatched
  <2>8. \A w \in Worker : Has(w, u)' => WorkerAgrees(w, u)'
    BY <1>1, <2>1, <2>2 DEF Agrees, WorkerAgrees, workers
  <2>9. \A a \in Actor : Calls(a, u)' => CallerAgrees(a, u)'
    BY <1>1, <1>2, <2>1, <2>3 DEF Agrees, CallerAgrees
  <2>10. \A d \in Client : Begins(d, u)' => StarterAgrees(d, u)'
    BY <1>1, <1>2, <2>1, <2>3, <2>5 DEF Agrees, StarterAgrees, Begins, Actor
  <2>11. \A d, e \in Client : atask'[d] = u /\ atask'[e] = u => d = e
    BY <1>2, <2>1 DEF Agrees, Actor
  <2>12. QED BY <1>1, <2>1, <2>4, <2>7, <2>8, <2>9, <2>10, <2>11 DEF Agrees
<1>5. QED BY <1>1, <1>3, <1>4 DEF Orderly, Tame

\* The task is queued, by a start or again by a recovery.
LEMMA EnqueueCommitOrderly ==
  ASSUME Orderly, NEW a \in Actor, EnqueueCommit(a)
  PROVE  /\ Orderly' \/ ~Types'
         /\ atask[a] \in Task /\ \A u \in Task \ {atask[a]} : row'[u] = row[u]
         /\ row'[atask[a]].status = "queued"
         /\ a \in Recoverer => \A u \in Task : Tame(u)
<1> DEFINE m == amem[a]
<1>1. PICK t \in Task : t = atask[a]
  BY DEF EnqueueCommit, Orderly, Types, Sessions
<1>2. /\ apc[a] = "enqueue" /\ ActorFits("enqueue", m) /\ m \in Loaded
      /\ Goes(a, "send", t, Clean(m.to)) /\ UNCHANGED <<queue, workers>>
      /\ row[t] \in Row /\ row' = [row EXCEPT ![t] = Touch(Flush(row[t], m))]
  BY <1>1 DEF EnqueueCommit, broker, Orderly, Types, Tables, Sessions, ActorFits, Honest
<1>3. Writes(t, m) /\ (row'[t].ply => row[t].ply)
  BY <1>1, ActorWrites DEF Orderly
<1>4. Clean(m.to).from = m.to /\ Clean(m.to).to = m.to
  BY DEF Clean
<1>5. /\ \A b \in Actor \ {a} : apc'[b] = apc[b] /\ atask'[b] = atask[b] /\ amem'[b] = amem[b]
      /\ apc'[a] = "send" /\ atask'[a] = t /\ amem'[a] = Clean(m.to)
  BY <1>2 DEF Goes, Orderly, Types, Sessions
<1>6. row'[t].beat = "fresh"
  <2> DEFINE f == Flush(row[t], m)
  <2>1. f \in Row /\ row'[t] = Touch(f)
    BY <1>2, FlushRow DEF Orderly, Types, Tables
  <2> HIDE DEF f
  <2>2. QED BY <2>1, RowColumns
<1>7. Alone(t) /\ Agrees(t) /\ Plain(row[t]) /\ Plain(m.from) /\ Plain(m.to)
  BY <1>2 DEF Orderly, Quiet
<1>8. /\ m.to.status = "queued" /\ m.to.cid = Dispatching /\ m.to.ply = m.from.ply
      /\ m.from \in Row /\ m.to \in Row
  BY <1>2 DEF ActorFits, Honest, Loaded
<1>9. Begins(a, t) \/ Recovers(a, t)
  BY <1>1, <1>2 DEF Begins, Recovers, Actor
<1>10. /\ \A w \in Worker : ~Has(w, t)
       /\ \A b \in Actor \ {a} : ~Calls(b, t)
       /\ queue[t] = {} /\ (row[t].ply => m.from.ply)
       /\ row'[t].status = "queued" /\ row'[t].cid # NoId
       /\ \A c \in Client \ {a} : ~Begins(c, t)
       /\ \A c, d \in Client : atask'[c] = t /\ atask'[d] = t => c = d
  <2>1. CASE a \in Client
    <3>1. StarterAgrees(a, t) /\ a \notin Recoverer
      BY <1>7, <1>9, <2>1, ActorAssumption DEF Agrees, Recovers
    <3>2. row'[t].status = "queued" /\ row'[t].cid # NoId
      BY <1>3, <1>8, <3>1 DEF Writes, StarterAgrees, NoId, Dispatching
    <3>3. \A c \in Client : atask[c] = t => c = a
      BY <1>1, <1>7, <2>1 DEF Agrees
    <3>4. \A c \in Client \ {a} : ~Begins(c, t)
      BY <3>3 DEF Begins
    <3>5. \A c \in Client : atask'[c] = t => c = a
      BY <1>5, <3>3 DEF Actor
    <3>6. QED BY <3>1, <3>2, <3>4, <3>5 DEF StarterAgrees, Nobody
  <2>2. CASE a \in Recoverer
    <3>1. Recovers(a, t) /\ Calls(a, t) /\ CallerAgrees(a, t) /\ a \notin Client
      BY <1>1, <1>2, <1>7, <2>2, ActorAssumption DEF Agrees, Recovers, Calls
    <3>2. m.from.cid = NoId
      BY <1>2, <2>2 DEF Orderly, Quiet
    <3>3. row'[t].status = "queued" /\ row'[t].cid # NoId
      BY <1>3, <1>8, <3>1, <3>2 DEF Writes, CallerAgrees, NoId, Dispatching
    <3>4. \A c \in Client : ~Begins(c, t)
      BY <1>7, <3>1 DEF Agrees, StarterAgrees, Nobody
    <3>5. \A c, d \in Client : atask'[c] = t /\ atask'[d] = t => c = d
      BY <1>5, <1>7, <3>1 DEF Agrees, Actor
    <3>6. QED BY <1>7, <3>1, <3>3, <3>4, <3>5 DEF Alone, CallerAgrees
  <2>3. QED BY <2>1, <2>2 DEF Actor
<1>11. CallerAgrees(a, t)'
  BY <1>3, <1>4, <1>5, <1>8, <1>10 DEF CallerAgrees
<1>12. \A b \in Actor : ~Recovers(b, t)'
  BY <1>5, <1>10 DEF Recovers, Calls
<1>13. Dispatched(t)'
  BY <1>5, <1>6, <1>10, <1>12 DEF Dispatched
<1>14. \A c \in Client : ~Begins(c, t)'
  BY <1>5, <1>10 DEF Begins, Actor
<1>15. \A u \in Task : Alone(u)' /\ Agrees(u)'
  <2>1. \A u \in Task \ {t} : row'[u] = row[u] /\ queue'[u] = queue[u]
    BY <1>2, <1>3 DEF Writes, Same
  <2>2. queue'[t] = {}
    BY <1>2, <1>10
  <2>3. QED BY <1>1, <1>2, <1>5, <1>10, <1>11, <1>13, <1>14, <2>1, <2>2, ActorDrives
<1>16. Quiet'
  <2>1. Plain(row'[t])
    BY <1>3, <1>7, <1>10 DEF Writes, Plain
  <2>2. \A u \in Task : Plain(row'[u])
    BY <1>3, <2>1 DEF Writes, Same, Orderly, Quiet
  <2>3. QED BY <1>2, <1>4, <1>5, <1>7, <2>2, QuietActors DEF Orderly
<1>17. a \in Recoverer => \A u \in Task : Tame(u)
  <2>1. ASSUME a \in Recoverer
        PROVE  row[t].status = "queued"
    <3>1. Calls(a, t)
      BY <1>1, <1>2, <2>1 DEF Calls, Recovers
    <3>2. QED BY <1>7, <3>1 DEF Agrees, CallerAgrees
  <2>2. QED BY <1>3, <1>10, <2>1 DEF Tame, Writes, Same, Active
<1>18. QED BY <1>1, <1>3, <1>10, <1>15, <1>16, <1>17 DEF Orderly, Writes, Same

\* The message is sent, or could not be.
LEMMA SendOrderly ==
  ASSUME Orderly, NEW a \in Actor, Send(a)
  PROVE  (Orderly' \/ ~Types') /\ \A u \in Task : Tame(u)
<1> DEFINE m == amem[a]
<1>1. PICK t \in Task : t = atask[a]
  BY DEF Send, Orderly, Types, Sessions
<1> DEFINE id == sent[t] + 1
<1>2. /\ apc[a] = "send" /\ ActorFits("send", m) /\ m \in Loaded
      /\ UNCHANGED <<row, workers>> /\ id \in Id
      /\ queue' = [queue EXCEPT ![t] = @ \cup {id}]
      /\ Goes(a, "record", t, [m EXCEPT !.to.cid = id])
  BY <1>1 DEF Send, Orderly, Types, Sessions, ActorFits, Honest
<1>3. PICK n : /\ Goes(a, "record", t, n) /\ n.from = m.from
               /\ n.to = [m.to EXCEPT !.cid = id]
  <2> DEFINE n == [m EXCEPT !.to.cid = id]
  <2>1. n.from = m.from /\ n.to = [m.to EXCEPT !.cid = id]
    BY <1>2 DEF Loaded, Row
  <2>2. QED BY <1>2, <2>1
<1>4. /\ n.to.status = m.to.status /\ n.to.cancel = m.to.cancel
      /\ n.to.deleted = m.to.deleted /\ n.to.beat = m.to.beat
  BY <1>2, <1>3 DEF Loaded, Row
<1>5. /\ \A b \in Actor \ {a} : apc'[b] = apc[b] /\ atask'[b] = atask[b] /\ amem'[b] = amem[b]
      /\ apc'[a] = "record" /\ atask'[a] = t /\ amem'[a] = n
  BY <1>3 DEF Goes, Orderly, Types, Sessions
<1>6. /\ Alone(t) /\ Agrees(t) /\ Calls(a, t) /\ ~Nobody(t)
      /\ Plain(m.from) /\ Plain(m.to) /\ m.to.beat = m.from.beat
      /\ \A u \in Task : Plain(row[u])
  BY <1>1, <1>2 DEF Orderly, Quiet, Calls, Nobody
<1>7. /\ queue'[t] = {id} /\ \A u \in Task \ {t} : queue'[u] = queue[u]
  BY <1>2, <1>6 DEF Alone, Orderly, Types, Tables
<1>8. /\ \A w \in Worker : ~Has(w, t)
      /\ \A b \in Actor \ {a} : ~Calls(b, t)
      /\ row[t].status = "queued"
      /\ \A c \in Client : ~Begins(c, t)
  BY <1>6 DEF Alone, Agrees, CallerAgrees, StarterAgrees
<1>9. \A b \in Actor : ~Recovers(b, t) /\ ~Recovers(b, t)'
  BY <1>2, <1>5, <1>8 DEF Recovers, Calls
<1>10. Dispatched(t)'
  BY <1>2, <1>5, <1>6, <1>9 DEF Agrees, Dispatched
<1>11. /\ \A c \in Client : ~Begins(c, t)'
       /\ \A c, d \in Client : atask'[c] = t /\ atask'[d] = t => c = d
  BY <1>1, <1>5, <1>6, <1>8 DEF Begins, Agrees, Actor
<1>12. ~Calls(a, t)'
  BY <1>5 DEF Calls, Recovers
<1>13. \A u \in Task : Alone(u)' /\ Agrees(u)'
  <2>1. \A u \in Task \ {t} : row'[u] = row[u] /\ queue'[u] = queue[u]
    BY <1>2, <1>7
  <2>2. \A i, j \in queue'[t] : i = j
    BY <1>7
  <2>3. row'[t].status = "queued"
    BY <1>2, <1>8
  <2>4. QED BY <1>1, <1>2, <1>5, <1>8, <1>10, <1>11, <1>12, <2>1, <2>2, <2>3, ActorDrives
<1>14. Quiet'
  <2>1. Plain(n.to) /\ Plain(n.from) /\ n.to.beat = n.from.beat
    BY <1>3, <1>4, <1>6 DEF Plain
  <2>2. \A u \in Task : Plain(row'[u])
    BY <1>2, <1>6
  <2>3. QED BY <1>2, <1>5, <2>1, <2>2, QuietActors DEF Orderly
<1>15. QED BY <1>2, <1>13, <1>14 DEF Orderly, Tame

\* It could not be sent, and the failure is to be committed.
LEMMA SendFailsOrderly ==
  ASSUME Orderly, NEW a \in Actor, SendFails(a)
  PROVE  (Orderly' \/ ~Types') /\ \A u \in Task : Tame(u)
<1> DEFINE m == amem[a]
           f == StageFailed(m.to)
<1>1. PICK t \in Task : t = atask[a]
  BY DEF SendFails, Orderly, Types, Sessions
<1>2. /\ apc[a] = "send" /\ ActorFits("send", m) /\ m \in Loaded /\ m.to \in Row
      /\ UNCHANGED <<row, queue, workers>>
      /\ Goes(a, "unsent", t, [m EXCEPT !.to = f])
  BY <1>1 DEF SendFails, broker, Orderly, Types, Sessions, ActorFits, Honest, Loaded
<1>3. /\ f.status \in {"failed", "partial"} /\ f.cancel = m.to.cancel
      /\ f.deleted = m.to.deleted /\ f.beat = m.to.beat
  BY <1>2, RowColumns, RowFlags
<1> HIDE DEF f
<1>4. PICK n : Goes(a, "unsent", t, n) /\ n.from = m.from /\ n.to = f
  <2> DEFINE n == [m EXCEPT !.to = f]
  <2>1. n.from = m.from /\ n.to = f
    BY <1>2 DEF Loaded
  <2>2. QED BY <1>2, <2>1
<1>5. /\ \A b \in Actor \ {a} : apc'[b] = apc[b] /\ atask'[b] = atask[b] /\ amem'[b] = amem[b]
      /\ apc'[a] = "unsent" /\ atask'[a] = t /\ amem'[a] = n
  BY <1>4 DEF Goes, Orderly, Types, Sessions
<1>6. /\ Alone(t) /\ Agrees(t) /\ Calls(a, t) /\ ~Nobody(t)
      /\ Plain(m.from) /\ Plain(m.to) /\ m.to.beat = m.from.beat
      /\ \A u \in Task : Plain(row[u])
  BY <1>1, <1>2 DEF Orderly, Quiet, Calls, Nobody
<1>7. /\ \A w \in Worker : ~Has(w, t)
      /\ \A b \in Actor \ {a} : ~Calls(b, t)
      /\ queue[t] = {} /\ CallerAgrees(a, t)
      /\ \A c \in Client : ~Begins(c, t)
  BY <1>6 DEF Alone, Agrees, StarterAgrees
<1>8. \A b \in Actor : ~Recovers(b, t) /\ ~Recovers(b, t)'
  BY <1>2, <1>5, <1>7 DEF Recovers, Calls
<1>9. Dispatched(t)'
  BY <1>2, <1>5, <1>6, <1>8 DEF Agrees, Dispatched
<1>10. /\ \A c \in Client : ~Begins(c, t)'
       /\ \A c, d \in Client : atask'[c] = t /\ atask'[d] = t => c = d
  BY <1>1, <1>5, <1>6, <1>7 DEF Begins, Agrees, Actor
<1>11. CallerAgrees(a, t)'
  BY <1>2, <1>4, <1>5, <1>7 DEF CallerAgrees
<1>12. \A u \in Task : Alone(u)' /\ Agrees(u)'
  BY <1>1, <1>2, <1>5, <1>7, <1>9, <1>10, <1>11, ActorDrives
<1>13. Quiet'
  <2>1. Plain(n.to) /\ Plain(n.from) /\ n.to.beat = n.from.beat
    BY <1>3, <1>4, <1>6 DEF Plain
  <2>2. QED BY <1>2, <1>5, <1>6, <2>1, QuietActors DEF Orderly
<1>14. QED BY <1>2, <1>12, <1>13 DEF Orderly, Tame

\* The Celery id is committed.  The message may be with a worker by now.
LEMMA RecordOrderly ==
  ASSUME Orderly, NEW a \in Actor, RecordCommit(a), apc[a] = "record"
  PROVE  (Orderly' \/ ~Types') /\ \A u \in Task : Tame(u)
<1> DEFINE m == amem[a]
<1>1. PICK t \in Task : t = atask[a]
  BY DEF Orderly, Types, Sessions
<1>2. /\ ActorFits("record", m) /\ m \in Loaded /\ UNCHANGED <<queue, workers>>
      /\ Writes(t, m) /\ (row'[t].ply => row[t].ply)
  BY <1>1, ActorWrites DEF RecordCommit, broker, Orderly, Types, Sessions, ActorFits, Honest
<1>3. /\ \A b \in Actor \ {a} : apc'[b] = apc[b] /\ atask'[b] = atask[b] /\ amem'[b] = amem[b]
      /\ apc'[a] = "idle" /\ atask'[a] = None
  BY EndsSessions DEF RecordCommit, Orderly, Types
<1>4. /\ Alone(t) /\ Agrees(t) /\ None \notin Task
      /\ Plain(m.from) /\ Plain(m.to) /\ m.to.beat = m.from.beat
      /\ \A u \in Task : Plain(row[u])
  BY ActorAssumption DEF Orderly, Quiet
<1>5. /\ row'[t].status = row[t].status /\ row'[t].cid \in Id
      /\ row'[t].beat \in {row[t].beat, "fresh"}
      /\ \A u \in Task \ {t} : row'[u] = row[u]
      /\ Plain(row'[t])
  <2>1. m.to.status = m.from.status /\ m.to.cid \in Id /\ m.to.cid # m.from.cid
    BY <1>2 DEF ActorFits, Id, Dispatching
  <2>2. Plain(row'[t])
    BY <1>2, <1>4, <2>1 DEF Writes, Plain
  <2>3. QED BY <1>2, <1>4, <2>1, <2>2 DEF Writes, Same
<1>6. \A u \in Task : ~Calls(a, u) /\ ~Begins(a, u)
  BY DEF Calls, Recovers, Begins
<1>7. ASSUME NEW u \in Task \ {t}
      PROVE  Alone(u)' /\ Agrees(u)'
  <2>1. Untouched(u)
    BY <1>1, <1>2, <1>3, <1>4, <1>5 DEF Untouched, Engaged, Calls, Recovers, Begins,
       workers, Actor
  <2>2. QED BY <2>1, Frame DEF Orderly
<1>8. /\ \A w \in Worker : Has(w, t)' <=> Has(w, t)
      /\ \A b \in Actor : /\ Recovers(b, t)' <=> Recovers(b, t)
                          /\ Calls(b, t)' <=> Calls(b, t)
                          /\ Begins(b, t)' <=> Begins(b, t)
                          /\ Calls(b, t) \/ Begins(b, t) => b # a
  BY <1>2, <1>3, <1>4, <1>6 DEF Has, Recovers, Calls, Begins, workers
<1>9. Alone(t)'
  BY <1>2, <1>4, <1>8 DEF Alone
<1>10. Nobody(t)' <=> Nobody(t)
  BY <1>2, <1>8 DEF Nobody
<1>11. Dispatched(t)'
  BY <1>5 DEF Dispatched, Id, NoId, Dispatching
<1>12. \A w \in Worker : Has(w, t)' => WorkerAgrees(w, t)'
  BY <1>2, <1>4, <1>5, <1>8 DEF Agrees, WorkerAgrees, workers
<1>13. \A b \in Actor : Calls(b, t)' => CallerAgrees(b, t)'
  BY <1>2, <1>3, <1>4, <1>5, <1>8 DEF Agrees, CallerAgrees
<1>14. \A c \in Client : Begins(c, t)' => StarterAgrees(c, t)'
  <2>1. row'[t].cid # NoId
    BY <1>5 DEF Id, NoId
  <2>2. QED BY <1>2, <1>3, <1>4, <1>5, <1>8, <1>10, <2>1 DEF Agrees, StarterAgrees, Actor
<1>15. \A c, d \in Client : atask'[c] = t /\ atask'[d] = t => c = d
  BY <1>3, <1>4 DEF Agrees, Actor
<1>16. Agrees(t)'
  BY <1>2, <1>4, <1>5, <1>11, <1>12, <1>13, <1>14, <1>15 DEF Agrees
<1>17. Quiet'
  <2>1. \A u \in Task : Plain(row'[u])
    BY <1>4, <1>5
  <2>2. QED BY <1>2, <1>3, <2>1, QuietActors DEF Orderly
<1>18. \A u \in Task : Tame(u)
  BY <1>2, <1>5 DEF Tame
<1>19. QED BY <1>7, <1>9, <1>16, <1>17, <1>18 DEF Orderly

\* The failure to send is committed: nobody drives the task any more.
LEMMA UnsentOrderly ==
  ASSUME Orderly, NEW a \in Actor, RecordCommit(a), apc[a] = "unsent"
  PROVE  (Orderly' \/ ~Types') /\ \A u \in Task : Tame(u)
<1> DEFINE m == amem[a]
<1>1. PICK t \in Task : t = atask[a]
  BY DEF Orderly, Types, Sessions
<1>2. /\ ActorFits("unsent", m) /\ m \in Loaded /\ UNCHANGED <<queue, workers>>
      /\ Writes(t, m) /\ (row'[t].ply => row[t].ply)
  BY <1>1, ActorWrites DEF RecordCommit, broker, Orderly, Types, Sessions, ActorFits, Honest
<1>3. /\ \A b \in Actor \ {a} : apc'[b] = apc[b] /\ atask'[b] = atask[b] /\ amem'[b] = amem[b]
      /\ apc'[a] = "idle" /\ atask'[a] = None
  BY EndsSessions DEF RecordCommit, Orderly, Types
<1>4. /\ Alone(t) /\ Agrees(t) /\ Calls(a, t) /\ ~Nobody(t) /\ None \notin Task
      /\ Plain(m.from) /\ Plain(m.to) /\ \A u \in Task : Plain(row[u])
  BY <1>1, ActorAssumption DEF Orderly, Quiet, Calls, Nobody
<1>5. /\ \A w \in Worker : ~Has(w, t)
      /\ \A b \in Actor \ {a} : ~Calls(b, t)
      /\ queue[t] = {} /\ CallerAgrees(a, t)
      /\ \A c \in Client : ~Begins(c, t)
  BY <1>4 DEF Alone, Agrees, StarterAgrees
<1>6. row'[t].status = m.to.status /\ m.to.status \in {"failed", "partial"}
  BY <1>2, <1>5 DEF Writes, ActorFits, CallerAgrees
<1>7. ~Calls(a, t)' /\ \A b \in Actor : ~Recovers(b, t)'
  BY <1>3, <1>5 DEF Calls, Recovers
<1>8. Dispatched(t)'
  BY <1>6, <1>7 DEF Dispatched
<1>9. /\ \A c \in Client : ~Begins(c, t)'
      /\ \A c, d \in Client : atask'[c] = t /\ atask'[d] = t => c = d
  BY <1>3, <1>4, <1>5 DEF Begins, Agrees, Actor
<1>10. \A u \in Task \ {t} : row'[u] = row[u]
  BY <1>2 DEF Writes, Same
<1>11. \A u \in Task : Alone(u)' /\ Agrees(u)'
  BY <1>1, <1>2, <1>3, <1>5, <1>7, <1>8, <1>9, <1>10, ActorDrives
<1>12. Quiet'
  <2>1. Plain(row'[t])
    BY <1>2, <1>4, <1>6 DEF Writes, Plain
  <2>2. \A u \in Task : Plain(row'[u])
    BY <1>4, <1>10, <2>1
  <2>3. QED BY <1>2, <1>3, <2>2, QuietActors DEF Orderly
<1>13. Tame(t)
  <2>1. m.to.status = "failed" => ~m.to.ply /\ m.to.ply = m.from.ply
    BY <1>2, <1>5 DEF ActorFits, Honest
  <2>2. QED BY <1>2, <1>5, <1>6, <2>1 DEF Tame, CallerAgrees, Active
<1>14. \A u \in Task : Tame(u)
  BY <1>10, <1>13 DEF Tame
<1>15. QED BY <1>11, <1>12, <1>14 DEF Orderly

\* What recover_stale_tasks leaves alone.
LEMMA RecoveredFlags ==
  ASSUME NEW r \in Row, Recoverable(r)
  PROVE  Recovered(r).cancel = r.cancel
<1> DEFINE s     == Settled(r)
           tried == [s EXCEPT !.cid = NoId, !.retry = s.retry + 1]
<1>1. s \in Row /\ s.cancel = r.cancel
  BY RowOps, RowFlags
<1> HIDE DEF s
<1>2. tried \in Row /\ tried.cancel = r.cancel
  <2>1. s.retry + 1 \in Nat
    BY <1>1 DEF Row
  <2>2. QED BY <1>1, <2>1 DEF Row, NoId
<1>3. \/ Recovered(r) = [r EXCEPT !.cid = NoId]
      \/ Recovered(r) = StageFailed(tried)
      \/ Recovered(r) = [tried EXCEPT !.status = "queued"]
  BY DEF Recovered, s
<1> HIDE DEF tried
<1>4. StageFailed(tried).cancel = tried.cancel
  BY <1>2, RowFlags
<1>5. /\ [tried EXCEPT !.status = "queued"].cancel = tried.cancel
      /\ [r EXCEPT !.cid = NoId].cancel = r.cancel
  BY <1>2 DEF Row
<1>6. QED BY <1>2, <1>3, <1>4, <1>5

\* A row that recover_stale_tasks selects is driven by nobody: a run that goes on beats, a
\* dispatch that goes on beats, and only a recovery leaves a queued row without an id.
LEMMA RecoverableAlone ==
  ASSUME Orderly, Serial, NEW a \in Recoverer, apc[a] = "idle",
         NEW t \in Task, Recoverable(row[t])
  PROVE  Nobody(t)
<1>1. Agrees(t)
  BY DEF Orderly
<1>2. CASE row[t].status = "processing" /\ row[t].beat = "stale"
  BY <1>1, <1>2 DEF Agrees, WorkerAgrees, CallerAgrees, Nobody
<1>3. CASE row[t].status = "queued" /\ row[t].cid = NoId
  <2>1. PICK b \in Actor : Recovers(b, t)
    BY <1>1, <1>3 DEF Agrees, Dispatched
  <2>2. b = a
    BY <2>1 DEF Recovers, Serial
  <2>3. QED BY <2>1, <2>2 DEF Recovers
<1>4. CASE row[t].status = "queued" /\ row[t].cid = Dispatching /\ row[t].beat = "stale"
  BY <1>1, <1>4 DEF Agrees, Dispatched
<1>5. QED BY <1>2, <1>3, <1>4 DEF Recoverable

\* A stale task is queued again, or given up.
LEMMA RecoverCommitOrderly ==
  ASSUME Orderly, Serial, NEW a \in Actor, NEW t \in Task, RecoverCommit(a, t)
  PROVE  (Orderly' \/ ~Types') /\ \A u \in Task : Tame(u)
<1> DEFINE r == Recovered(row[t])
<1>1. /\ a \in Recoverer /\ a \notin Client /\ apc[a] = "idle"
      /\ row[t] \in Row /\ Recoverable(row[t])
      /\ row' = [row EXCEPT ![t] = r] /\ Goes(a, "release", t, Clean(r))
      /\ UNCHANGED <<queue, workers>>
  BY ActorAssumption DEF Orderly, Types, Tables, RecoverCommit, broker
<1>2. /\ r \in Row /\ r.cid = NoId /\ r.status \in {"queued", "failed", "partial"}
      /\ r.deleted = row[t].deleted /\ r.cancel = row[t].cancel /\ r.ply = row[t].ply
      /\ r.status = "failed" => ~row[t].ply
      /\ row[t].status \in {"queued", "processing"}
  BY <1>1, RecoveredRow, RecoveredFlags
<1> HIDE DEF r
<1>3. Clean(r).from = r /\ Clean(r).to = r
  BY DEF Clean
<1>4. /\ \A b \in Actor \ {a} : apc'[b] = apc[b] /\ atask'[b] = atask[b] /\ amem'[b] = amem[b]
      /\ apc'[a] = "release" /\ atask'[a] = t /\ amem'[a] = Clean(r)
  BY <1>1 DEF Goes, Orderly, Types, Sessions
<1>5. row'[t] = r /\ \A u \in Task \ {t} : row'[u] = row[u]
  BY <1>1, <1>2, RowSet DEF Orderly, Types
<1>6. Nobody(t) /\ Agrees(t) /\ \A u \in Task : Plain(row[u])
  BY <1>1, RecoverableAlone DEF Orderly, Quiet
<1>7. /\ \A c \in Client : ~Begins(c, t) /\ ~Begins(c, t)'
      /\ \A c, d \in Client : atask'[c] = t /\ atask'[d] = t => c = d
  <2>1. \A c \in Client : ~Begins(c, t)
    BY <1>2, <1>6 DEF Agrees, StarterAgrees
  <2>2. \A c \in Client : c # a /\ c \in Actor
    BY <1>1 DEF Actor
  <2>3. \A c \in Client : ~Begins(c, t)'
    BY <1>4, <2>1, <2>2 DEF Begins
  <2>4. \A c, d \in Client : atask'[c] = t /\ atask'[d] = t => c = d
    BY <1>4, <1>6, <2>2 DEF Agrees
  <2>5. QED BY <2>1, <2>3, <2>4
<1>8. Calls(a, t)' => r.status = "queued" /\ Recovers(a, t)'
  BY <1>3, <1>4 DEF Calls, Recovers
<1>9. Calls(a, t)' => CallerAgrees(a, t)'
  BY <1>2, <1>3, <1>4, <1>5, <1>8 DEF CallerAgrees
<1>10. Dispatched(t)'
  <2>1. row'[t].status = "queued" => Recovers(a, t)'
    BY <1>1, <1>3, <1>4, <1>5 DEF Recovers
  <2>2. row'[t].cid = NoId /\ NoId # Dispatching
    BY <1>2, <1>5 DEF NoId, Dispatching
  <2>3. QED BY <2>1, <2>2 DEF Dispatched
<1>11. \A u \in Task : Alone(u)' /\ Agrees(u)'
  <2>1. /\ \A w \in Worker : ~Has(w, t)
        /\ \A b \in Actor \ {a} : ~Calls(b, t)
        /\ queue'[t] = {} /\ queue' = queue
    BY <1>1, <1>6 DEF Nobody
  <2>2. QED BY <1>1, <1>4, <1>5, <1>7, <1>9, <1>10, <2>1, ActorDrives
<1>12. Quiet'
  <2>1. Plain(r)
    BY <1>2, <1>6 DEF Plain
  <2>2. \A u \in Task : Plain(row'[u])
    BY <1>5, <1>6, <2>1
  <2>3. QED BY <1>1, <1>3, <1>4, <2>1, <2>2, QuietActors DEF Orderly
<1>13. \A u \in Task : Tame(u)
  BY <1>2, <1>5 DEF Tame, Active
<1>14. QED BY <1>11, <1>12, <1>13 DEF Orderly

\* The dead run's lease is dropped, and the task queued again or left.
LEMMA ReleaseCommitOrderly ==
  ASSUME Orderly, NEW a \in Actor, ReleaseCommit(a)
  PROVE  (Orderly' \/ ~Types') /\ \A u \in Task : Tame(u)
<1> DEFINE m     == amem[a]
           clear == [m.to EXCEPT !.run = None]
<1>1. PICK t \in Task : t = atask[a]
  BY DEF ReleaseCommit, Orderly, Types, Sessions
<1>2. /\ apc[a] = "release" /\ a \in Recoverer /\ a \notin Client
      /\ ActorFits("release", m) /\ m \in Loaded /\ UNCHANGED <<queue, workers>>
      /\ Writes(t, m) /\ (row'[t].ply => row[t].ply)
      /\ Plain(m.from) /\ Plain(m.to) /\ \A u \in Task : Plain(row[u])
  BY <1>1, ActorWrites, ActorAssumption DEF ReleaseCommit, broker, Orderly, Types, Sessions,
     ActorFits, Honest, Quiet
<1>3. /\ m.from = m.to /\ m.to.cid = NoId
      /\ m.to.status \in {"queued", "failed", "partial"}
  BY <1>2 DEF ActorFits
<1>4. /\ clear \in Row /\ clear.status = m.to.status /\ clear.cid = NoId
      /\ clear.cancel = m.to.cancel /\ clear.deleted = m.to.deleted
      /\ clear.beat = m.to.beat /\ clear.ply = m.to.ply
  BY <1>2, <1>3 DEF Loaded, Row
<1>5. IF clear.status \in {"failed", "partial"}
        THEN Ends(a)
        ELSE Goes(a, "enqueue", t, [from |-> clear, to |-> Queued(clear)])
  BY <1>1 DEF ReleaseCommit
<1> HIDE DEF clear
<1>6. /\ row'[t].status = row[t].status /\ row'[t].cid = row[t].cid
      /\ row'[t].beat \in {row[t].beat, "fresh"} /\ Plain(row'[t])
      /\ \A u \in Task \ {t} : row'[u] = row[u]
  BY <1>2, <1>3 DEF Writes, Same, Plain
<1>7. \A u \in Task : Tame(u) /\ Plain(row'[u])
  BY <1>2, <1>6 DEF Tame
<1>8. CASE clear.status \in {"failed", "partial"}
  <2>1. /\ \A b \in Actor \ {a} : apc'[b] = apc[b] /\ atask'[b] = atask[b] /\ amem'[b] = amem[b]
        /\ apc'[a] = "idle" /\ atask'[a] = None
    BY <1>5, <1>8, EndsSessions DEF Orderly, Types
  <2>2. \A u \in Task : ~Engaged(a, u) /\ ~Engaged(a, u)'
    BY <1>2, <1>4, <1>8, <2>1 DEF Engaged, Calls, Recovers, Begins
  <2>3. ASSUME NEW u \in Task
        PROVE  Alone(u)' /\ Agrees(u)'
    <3>1. /\ row'[u].status = row[u].status /\ row'[u].cid = row[u].cid
          /\ row'[u].beat \in {row[u].beat, "fresh"} /\ (row'[u].ply => row[u].ply)
      BY <1>2, <1>6
    <3>2. Untouched(u)
      BY <1>2, <2>1, <2>2, <3>1 DEF Untouched, workers, Actor
    <3>3. QED BY <3>2, Frame DEF Orderly
  <2>4. Quiet'
    BY <1>2, <1>7, <2>1, QuietActors DEF Orderly
  <2>5. QED BY <1>7, <2>3, <2>4 DEF Orderly
<1>9. CASE clear.status = "queued"
  <2> DEFINE q == Queued(clear)
             n == [from |-> clear, to |-> q]
  <2>1. /\ q.status = "queued" /\ q.cancel = clear.cancel /\ q.beat = clear.beat
        /\ q.deleted = clear.deleted
    BY <1>4, RowColumns, RowFlags
  <2>2. Goes(a, "enqueue", t, n) /\ n.from = clear /\ n.to = q
    BY <1>5, <1>9
  <2> HIDE DEF q, n
  <2>3. /\ \A b \in Actor \ {a} : apc'[b] = apc[b] /\ atask'[b] = atask[b] /\ amem'[b] = amem[b]
        /\ apc'[a] = "enqueue" /\ atask'[a] = t /\ amem'[a] = n
    BY <2>2 DEF Goes, Orderly, Types, Sessions
  <2>4. Recovers(a, t) /\ Calls(a, t) /\ Alone(t) /\ Agrees(t) /\ ~Nobody(t)
    BY <1>1, <1>2, <1>4, <1>9 DEF Orderly, Recovers, Calls, Nobody
  <2>5. /\ \A w \in Worker : ~Has(w, t)
        /\ \A b \in Actor \ {a} : ~Calls(b, t)
        /\ queue[t] = {} /\ CallerAgrees(a, t)
        /\ \A c \in Client : ~Begins(c, t)
    BY <2>4 DEF Alone, Agrees, StarterAgrees
  <2>6. CallerAgrees(a, t)'
    <3>1. n.from.status = "queued" /\ n.from.ply = m.from.ply
      BY <1>3, <1>4, <1>9, <2>2
    <3>2. QED BY <1>2, <1>6, <2>3, <2>5, <3>1 DEF CallerAgrees
  <2>7. Dispatched(t)'
    <3>1. Recovers(a, t)'
      BY <1>2, <2>3 DEF Recovers
    <3>2. row[t].cid # Dispatching
      BY <2>4 DEF Agrees, Dispatched
    <3>3. QED BY <1>6, <3>1, <3>2 DEF Dispatched
  <2>8. /\ \A c \in Client : ~Begins(c, t)'
        /\ \A c, d \in Client : atask'[c] = t /\ atask'[d] = t => c = d
    BY <1>2, <2>3, <2>4, <2>5 DEF Begins, Agrees, Actor
  <2>9. \A u \in Task : Alone(u)' /\ Agrees(u)'
    <3>1. queue' = queue
      BY <1>2
    <3>2. QED BY <1>1, <1>2, <1>6, <2>3, <2>5, <2>6, <2>7, <2>8, <3>1, ActorDrives
  <2>10. Quiet'
    <3>1. Plain(n.from) /\ Plain(n.to) /\ n.to.beat = n.from.beat /\ n.from.cid = NoId
      BY <1>2, <1>4, <2>1, <2>2 DEF Plain
    <3>2. QED BY <1>2, <1>7, <2>3, <3>1, QuietActors DEF Orderly
  <2>11. QED BY <1>7, <2>9, <2>10 DEF Orderly
<1>10. QED BY <1>3, <1>4, <1>8, <1>9

\* A step that makes no task active and lets no request count.
Steady ==
  /\ lock' = lock /\ \A u \in Task : Tame(u)
  /\ \A c \in Client : apc'[c] = "enqueue" => apc[c] = "enqueue" /\ atask'[c] = atask[c]

\* A request or recovery goes on, but not to enqueue.
LEMMA ActorSteady ==
  ASSUME Orderly, NEW a \in Actor, lock' = lock, \A u \in Task : Tame(u),
         \E pc, t, m : Goes(a, pc, t, m) /\ (pc = "enqueue" => a \in Recoverer)
  PROVE  Steady
<1>1. PICK pc, t, m : Goes(a, pc, t, m) /\ (pc = "enqueue" => a \in Recoverer)
  OBVIOUS
<1>2. \A b \in Actor : /\ b # a => apc'[b] = apc[b] /\ atask'[b] = atask[b]
                       /\ apc'[a] = pc
  BY <1>1 DEF Goes, Orderly, Types, Sessions
<1>3. QED BY <1>1, <1>2, ActorAssumption DEF Steady, Actor

\* Steps of workers.
LEMMA WorkOrderly ==
  ASSUME Orderly, Serial, NEW w \in Worker,
         Work(w) \/ WorkerDies(w) \/ Redeliver(w) \/ Uncaught(w) \/ KillRevoked(w)
  PROVE  (Orderly' \/ ~Types') /\ Steady
<1> DEFINE Goal == (Orderly' \/ ~Types') /\ \A u \in Task : Tame(u)
<1>1. Goal
  <2>1. CASE \E t \in Task, i \in Id : Receive(w, t, i) \/ Refuse(w, t, i)
    BY <2>1, ReceiveOrderly
  <2>2. CASE \E t \in Task, i \in Id : Ignore(w, t, i)
    BY <2>2, LetGoOrderly
  <2>3. CASE GetLease(w) \/ \E inspected \in BOOLEAN : NoLease(w, inspected)
    BY <2>3, LeaseOrderly
  <2>4. CASE WaitCommit(w) \/ RunLoad(w)
    BY <2>4, WaitOrderly, RunLoadOrderly
  <2>5. CASE BeginCommit(w) \/ FinalCommit(w) \/ EndCommit(w)
    BY <2>5, RunCommitOrderly
  <2>6. CASE \E exits \in BOOLEAN : Poll(w, exits)
    BY <2>6, PollOrderly
  <2>7. CASE (\E good \in BOOLEAN : FinalLoad(w, good)) \/ Raise(w) \/ ExceptLoad(w)
    BY <2>7, RunOrderly
  <2>8. CASE LeaveCommit(w)
    BY <2>8, LeaveOrderly
  <2>9. CASE Finally(w) \/ KillRevoked(w) \/ Uncaught(w)
    BY <2>9, LetGoOrderly
  <2>10. ~WorkerDies(w) /\ ~Redeliver(w)
    BY DEF WorkerDies, Redeliver, Fault, Serial
  <2>11. QED BY <2>1, <2>2, <2>3, <2>4, <2>5, <2>6, <2>7, <2>8, <2>9, <2>10 DEF Work
<1>2. UNCHANGED <<lock, actors>>
  <2>1. CASE Work(w)
    BY <2>1 DEF Work, Receive, Refuse, Takes, Ignore, GetLease, NoLease, WaitCommit, RunLoad,
      BeginCommit, Poll, FinalLoad, FinalCommit, Raise, ExceptLoad, EndCommit, LeaveCommit,
      Finally
  <2>2. QED BY <2>1 DEF WorkerDies, Redeliver, Uncaught, KillRevoked
<1>3. QED BY <1>1, <1>2 DEF Steady, actors

\* Requests and recoveries.
LEMMA SessionOrderly ==
  ASSUME Orderly, Serial, NEW a \in Actor,
         \/ a \in Client /\ Request(a)
         \/ Enqueue(a) \/ ActorDies(a)
         \/ a \in Recoverer /\ Recover(a)
  PROVE  /\ Orderly' \/ ~Types'
         /\ Steady \/ (a \in Client /\ (StartQuota(a) \/ EnqueueCommit(a)))
<1>1. ~ActorDies(a)
  BY DEF ActorDies, Fault, Serial
<1>2. CASE a \in Client /\ Request(a)
  <2>1. \A t \in Task : ~CancelLoad(a, t) /\ ~DeleteLoad(a, t)
    BY DEF CancelLoad, DeleteLoad, Serial, Orderly, Types, Tables
  <2>2. ~Revoke(a) /\ ~CancelCommit(a)
    BY DEF Revoke, CancelCommit, Orderly, Quiet
  <2>3. CASE \E t \in Task : StartLoad(a, t) \/ StartMeshLoad(a, t)
    <3>1. PICK t \in Task : StartLoad(a, t) \/ StartMeshLoad(a, t)
      BY <2>3
    <3>2. (Orderly' \/ ~Types') /\ \A u \in Task : Tame(u)
      BY <1>2, <3>1, RestartsOrderly
    <3>3. lock' = lock /\ \E m : Goes(a, "quota", t, m)
      BY <3>1 DEF StartLoad, StartMeshLoad, Restarts
    <3>4. QED BY <3>2, <3>3, ActorSteady
  <2>4. CASE StartQuota(a)
    BY <1>2, <2>4, StartQuotaOrderly
  <2>5. QED BY <1>2, <2>1, <2>2, <2>3, <2>4 DEF Request
<1>3. CASE EnqueueCommit(a)
  <2>1. CASE a \in Client
    BY <1>3, <2>1, EnqueueCommitOrderly
  <2>2. CASE a \in Recoverer
    <3>1. (Orderly' \/ ~Types') /\ \A u \in Task : Tame(u)
      BY <1>3, <2>2, EnqueueCommitOrderly
    <3>2. lock' = lock
      BY <1>3, <2>2, ActorAssumption DEF EnqueueCommit, Orderly, Types, Tables
    <3>3. \E t, m : Goes(a, "send", t, m)
      BY <1>3 DEF EnqueueCommit
    <3>4. QED BY <3>1, <3>2, <3>3, ActorSteady
  <2>3. QED BY <2>1, <2>2 DEF Actor
<1>4. CASE Send(a) \/ SendFails(a) \/ RecordCommit(a)
  <2>1. (Orderly' \/ ~Types') /\ \A u \in Task : Tame(u)
    BY <1>4, SendOrderly, SendFailsOrderly, RecordOrderly, UnsentOrderly DEF RecordCommit
  <2>2. lock' = lock /\ \E pc, t, m : Goes(a, pc, t, m) /\ pc # "enqueue"
    BY <1>4 DEF Send, SendFails, RecordCommit, Ends
  <2>3. QED BY <2>1, <2>2, ActorSteady
<1>5. CASE a \in Recoverer /\ Recover(a)
  <2>1. (Orderly' \/ ~Types') /\ \A u \in Task : Tame(u)
    BY <1>5, RecoverCommitOrderly, ReleaseCommitOrderly DEF Recover
  <2>2. lock' = lock /\ \E pc, t, m : Goes(a, pc, t, m)
    BY <1>5 DEF Recover, RecoverCommit, ReleaseCommit, Ends
  <2>3. QED BY <1>5, <2>1, <2>2, ActorSteady
<1>6. QED BY <1>1, <1>2, <1>3, <1>4, <1>5 DEF Enqueue

\* Every step: only a creation and a start count tasks, and make one active.
LEMMA NextOrderly ==
  ASSUME Serial, Orderly, [Next]_vars
  PROVE  /\ Orderly'
         /\ \/ Steady
            \/ \E t \in Task : Create(t)
            \/ \E c \in Client : StartQuota(c) \/ EnqueueCommit(c)
<1>1. Types'
  BY NextTypes DEF Orderly
<1>2. CASE \E t \in Task : Create(t)
  BY <1>1, <1>2, CreateOrderly
<1>3. CASE \E t \in Task : HeartbeatAges(t)
  <2>1. PICK t \in Task : HeartbeatAges(t)
    BY <1>3
  <2>2. Orderly' /\ \A u \in Task : Tame(u)
    BY <1>1, <2>1, AgesOrderly
  <2>3. UNCHANGED <<lock, actors>>
    BY <2>1 DEF HeartbeatAges
  <2>4. QED BY <2>2, <2>3 DEF Steady, actors
<1>d. CASE \E t \in Task : DeletePly(t)
  <2>1. PICK t \in Task : DeletePly(t)
    BY <1>d
  <2>2. Orderly' /\ \A u \in Task : Tame(u)
    BY <1>1, <2>1, DeletePlyOrderly
  <2>3. UNCHANGED <<lock, actors>>
    BY <2>1 DEF DeletePly
  <2>4. QED BY <2>2, <2>3 DEF Steady, actors
<1>4. CASE \E t \in Task, i \in Id : DropRevoked(t, i)
  <2>1. Orderly' /\ \A u \in Task : Tame(u)
    BY <1>1, <1>4, LetGoOrderly
  <2>2. UNCHANGED <<lock, actors>>
    BY <1>4 DEF DropRevoked
  <2>3. QED BY <2>1, <2>2 DEF Steady, actors
<1>5. CASE \E a \in Actor : \/ a \in Client /\ Request(a)
                            \/ Enqueue(a) \/ ActorDies(a)
                            \/ a \in Recoverer /\ Recover(a)
  <2>1. PICK a \in Actor : \/ a \in Client /\ Request(a)
                           \/ Enqueue(a) \/ ActorDies(a)
                           \/ a \in Recoverer /\ Recover(a)
    BY <1>5
  <2>2. QED BY <1>1, <2>1, SessionOrderly
<1>6. CASE \E w \in Worker :
             Work(w) \/ WorkerDies(w) \/ Redeliver(w) \/ Uncaught(w) \/ KillRevoked(w)
  BY <1>1, <1>6, WorkOrderly
<1>7. CASE UNCHANGED vars
  <2>1. UNCHANGED <<row, queue, lock, actors, workers>>
    BY <1>7 DEF vars, broker
  <2>2. \A u \in Task : Alone(u)' /\ Agrees(u)'
    <3>1. \A u \in Task : Untouched(u)
      BY <2>1 DEF Untouched, actors, workers, Actor
    <3>2. QED BY <3>1, Frame DEF Orderly
  <2>3. Quiet'
    BY <2>1 DEF Orderly, Quiet, actors, workers
  <2>4. Steady
    BY <2>1 DEF Steady, Tame, actors
  <2>5. QED BY <1>1, <2>2, <2>3, <2>4 DEF Orderly
<1>8. QED BY <1>d, <1>2, <1>3, <1>4, <1>5, <1>6, <1>7 DEF Next, Actor

\* The first state is in order.
LEMMA InitOrderly == Init => Orderly
<1> SUFFICES ASSUME Init PROVE Orderly
  OBVIOUS
<1>1. Types
  BY InitTypes
<1>2. None \notin Task
  BY ActorAssumption
<1>3. Quiet
  BY DEF Init, Quiet, Plain, Absent, Writing
<1>4. ASSUME NEW t \in Task
      PROVE  Alone(t) /\ Agrees(t)
  <2>1. /\ queue[t] = {} /\ \A w \in Worker : ~Has(w, t)
        /\ \A a \in Actor : ~Calls(a, t) /\ ~Recovers(a, t) /\ ~Begins(a, t) /\ atask[a] # t
    BY <1>2 DEF Init, Has, Calls, Recovers, Begins
  <2>2. row[t].status = "absent"
    BY DEF Init, Absent
  <2>3. QED BY <2>1, <2>2 DEF Alone, Agrees, Dispatched, Actor
<1>5. QED BY <1>1, <1>3, <1>4 DEF Orderly

\* A task with a PLY result never shows as failed, while one start, message, worker or
\* recovery at a time drives each task: _set_stage_failed sees the links that
\* _register_result committed, for nobody else commits between its load and its commit.
THEOREM PlyKept ==
  ASSUME Serial
  PROVE  Spec => []PlyNeverFailed
<1>1. Init => Orderly /\ PlyNeverFailed
  BY InitOrderly DEF Init, PlyNeverFailed, Absent
<1>2. Orderly /\ PlyNeverFailed /\ [Next]_vars => Orderly' /\ PlyNeverFailed'
  <2> SUFFICES ASSUME Orderly, PlyNeverFailed, [Next]_vars
               PROVE  Orderly' /\ PlyNeverFailed'
    OBVIOUS
  <2>1. /\ Orderly'
        /\ \/ Steady
           \/ \E t \in Task : Create(t)
           \/ \E c \in Client : StartQuota(c) \/ EnqueueCommit(c)
    BY NextOrderly
  <2>2. CASE Steady
    BY <2>1, <2>2 DEF Steady, Tame, PlyNeverFailed
  <2>3. CASE \E t \in Task : Create(t)
    <3>1. PICK t \in Task : Create(t)
      BY <2>3
    <3>2. row'[t].status = "pending" /\ \A u \in Task \ {t} : row'[u] = row[u]
      BY <3>1, CreateOrderly
    <3>3. QED BY <2>1, <3>2 DEF PlyNeverFailed
  <2>4. CASE \E c \in Client : StartQuota(c) \/ EnqueueCommit(c)
    <3>1. PICK c \in Client : StartQuota(c) \/ EnqueueCommit(c)
      BY <2>4
    <3>2. CASE StartQuota(c)
      BY <2>1, <3>2 DEF StartQuota, PlyNeverFailed
    <3>3. CASE EnqueueCommit(c)
      <4>1. c \in Actor
        BY DEF Actor
      <4>2. PICK t \in Task : t = atask[c] /\ row'[t].status = "queued"
                              /\ \A u \in Task \ {t} : row'[u] = row[u]
        BY <3>3, <4>1, EnqueueCommitOrderly
      <4>3. QED BY <2>1, <4>2 DEF PlyNeverFailed
    <3>4. QED BY <3>1, <3>2, <3>3
  <2>5. QED BY <2>1, <2>2, <2>3, <2>4
<1>3. QED BY <1>1, <1>2, PTL DEF Spec

\* The user's active tasks.
Counted == {t \in Task : row[t].status \in Active /\ ~row[t].deleted}

\* QuotaHolds with what makes it inductive: a request that counted holds the user's lock
\* until it has queued its task, and there is room for it.
WithinQuota ==
  /\ IsFiniteSet(Counted) /\ Cardinality(Counted) <= TaskQuota
  /\ \A c \in Client : apc[c] = "enqueue" =>
       lock = c /\ Cardinality(Counted \ {atask[c]}) < TaskQuota

\* Fewer tasks are within the quota too.
LEMMA FewerCounted ==
  ASSUME NEW S, NEW T, IsFiniteSet(T), S \subseteq T
  PROVE  /\ IsFiniteSet(S) /\ Cardinality(S) \in Nat /\ Cardinality(T) \in Nat
         /\ Cardinality(S) <= Cardinality(T)
BY FS_Subset, FS_CardinalityType

\* One more task is within the quota where there was room beside it.
LEMMA OneMore ==
  ASSUME NEW S, NEW T, NEW t, IsFiniteSet(T), Cardinality(T \ {t}) < TaskQuota,
         S \subseteq T \cup {t}
  PROVE  IsFiniteSet(S) /\ Cardinality(S) <= TaskQuota
<1> DEFINE R == T \ {t}
<1>1. IsFiniteSet(R) /\ Cardinality(R) \in Nat
  BY FewerCounted
<1>2. t \notin R /\ S \subseteq R \cup {t}
  OBVIOUS
<1> HIDE DEF R
<1>3. IsFiniteSet(R \cup {t}) /\ Cardinality(R \cup {t}) = Cardinality(R) + 1
  BY <1>1, <1>2, FS_AddElement
<1>4. IsFiniteSet(S) /\ Cardinality(S) <= Cardinality(R) + 1 /\ Cardinality(S) \in Nat
  BY <1>2, <1>3, FewerCounted
<1>5. Cardinality(R) < TaskQuota
  BY DEF R
<1>6. QED BY <1>1, <1>4, <1>5, QuotaAssumption

\* The lock on the user row keeps the count true until the task counts.
LEMMA NextWithin ==
  ASSUME Serial, Orderly, WithinQuota, [Next]_vars
  PROVE  WithinQuota'
<1>1. /\ Orderly'
      /\ \/ Steady
         \/ \E t \in Task : Create(t)
         \/ \E c \in Client : StartQuota(c) \/ EnqueueCommit(c)
  BY NextOrderly
<1>2. \A t \in Task : ~row[t].deleted /\ ~row'[t].deleted
  BY <1>1 DEF Orderly, Quiet, Plain
<1>3. None \notin Client
  BY ActorAssumption
<1>4. \A t \in Task : ActiveBeside(t) = Counted \ {t}
  BY DEF ActiveBeside, Counted
<1>5. CASE Steady
  <2>1. Counted' \subseteq Counted
    BY <1>2, <1>5 DEF Counted, Steady, Tame
  <2>2. IsFiniteSet(Counted)' /\ Cardinality(Counted') <= TaskQuota
    BY <2>1, FewerCounted, QuotaAssumption DEF WithinQuota
  <2>3. ASSUME NEW c \in Client, apc'[c] = "enqueue"
        PROVE  lock' = c /\ Cardinality(Counted' \ {atask'[c]}) < TaskQuota
    <3>1. /\ lock' = c /\ atask'[c] = atask[c]
          /\ Cardinality(Counted \ {atask[c]}) < TaskQuota
      BY <1>5, <2>3 DEF Steady, WithinQuota
    <3>2. Counted' \ {atask[c]} \subseteq Counted \ {atask[c]}
      BY <2>1
    <3>3. IsFiniteSet(Counted \ {atask[c]})
      BY FewerCounted DEF WithinQuota
    <3>4. QED BY <3>1, <3>2, <3>3, FewerCounted, QuotaAssumption
  <2>4. QED BY <2>2, <2>3 DEF WithinQuota
<1>6. CASE \E t \in Task : Create(t)
  <2>1. PICK t \in Task : Create(t)
    BY <1>6
  <2>2. /\ lock = None /\ Cardinality(ActiveBeside(t)) < TaskQuota
        /\ UNCHANGED <<lock, actors>>
    BY <2>1 DEF Create
  <2>3. Counted' \subseteq Counted \cup {t}
    BY <2>1, CreateOrderly DEF Counted
  <2>4. IsFiniteSet(Counted') /\ Cardinality(Counted') <= TaskQuota
    BY <1>4, <2>2, <2>3, OneMore DEF WithinQuota
  <2>5. \A c \in Client : apc'[c] # "enqueue"
    BY <1>3, <2>2 DEF WithinQuota, actors
  <2>6. QED BY <2>4, <2>5 DEF WithinQuota
<1>7. CASE \E c \in Client : StartQuota(c)
  <2>1. PICK c \in Client : StartQuota(c)
    BY <1>7
  <2>2. /\ lock = None /\ UNCHANGED row /\ atask[c] \in Task /\ c \in Actor
    BY <2>1 DEF StartQuota, Orderly, Types, Sessions, Actor
  <2>3. Counted' = Counted
    BY <2>2 DEF Counted
  <2>4. \A d \in Client : apc[d] # "enqueue"
    BY <1>3, <2>2 DEF WithinQuota
  <2>5. \A d \in Client \ {c} : apc'[d] = apc[d]
    BY <2>1 DEF StartQuota, Ends, Goes, Orderly, Types, Sessions, Actor
  <2>6. apc'[c] = "enqueue" => /\ lock' = c /\ atask'[c] = atask[c]
                               /\ Cardinality(ActiveBeside(atask[c])) < TaskQuota
    BY <2>1, <2>2 DEF StartQuota, Ends, Goes, Orderly, Types, Sessions
  <2>7. QED BY <1>4, <2>2, <2>3, <2>4, <2>5, <2>6 DEF WithinQuota
<1>8. CASE \E c \in Client : EnqueueCommit(c)
  <2>1. PICK c \in Client : EnqueueCommit(c)
    BY <1>8
  <2>2. c \in Actor /\ apc[c] = "enqueue"
    BY <2>1 DEF EnqueueCommit, Actor
  <2>3. PICK t \in Task : t = atask[c] /\ \A u \in Task \ {t} : row'[u] = row[u]
    BY <2>1, <2>2, EnqueueCommitOrderly
  <2>4. lock = c /\ Cardinality(Counted \ {t}) < TaskQuota
    BY <2>2, <2>3 DEF WithinQuota
  <2>5. Counted' \subseteq Counted \cup {t}
    BY <2>3 DEF Counted
  <2>6. IsFiniteSet(Counted') /\ Cardinality(Counted') <= TaskQuota
    BY <2>4, <2>5, OneMore DEF WithinQuota
  <2>7. \A d \in Client : apc'[d] # "enqueue"
    <3>1. \A d \in Client \ {c} : apc[d] # "enqueue" /\ apc'[d] = apc[d]
      BY <2>1, <2>4 DEF WithinQuota, EnqueueCommit, Goes, Orderly, Types, Sessions, Actor
    <3>2. apc'[c] = "send"
      BY <2>1, <2>2 DEF EnqueueCommit, Goes, Orderly, Types, Sessions
    <3>3. QED BY <3>1, <3>2
  <2>8. QED BY <2>6, <2>7 DEF WithinQuota
<1>9. QED BY <1>1, <1>5, <1>6, <1>7, <1>8

\* The user's active tasks stay within the task quota, for any number of concurrent
\* creations, starts, workers and messages: count_active_tasks is called under the lock on
\* the user row, and the lock is held until the task that was counted for is active.
THEOREM QuotaKept ==
  ASSUME Serial
  PROVE  Spec => []QuotaHolds
<1>1. Init => Orderly /\ WithinQuota
  <2> SUFFICES ASSUME Init PROVE WithinQuota
    BY InitOrderly
  <2>1. Counted = {}
    BY DEF Init, Counted, Absent, Active
  <2>2. IsFiniteSet(Counted) /\ Cardinality(Counted) = 0
    BY <2>1, FS_EmptySet
  <2>3. QED BY <2>2, QuotaAssumption DEF WithinQuota, Init, Actor
<1>2. Orderly /\ WithinQuota /\ [Next]_vars => Orderly' /\ WithinQuota'
  BY NextOrderly, NextWithin
<1>3. WithinQuota => QuotaHolds
  BY DEF WithinQuota, QuotaHolds, Counted
<1>4. QED BY <1>1, <1>2, <1>3, PTL DEF Spec

=============================================================================
