---------------------------- MODULE GpuUsage_proofs ----------------------------
(***************************************************************************)
(* Proofs about GpuUsage, for every number of tasks, workers and requests, *)
(* and every length of a day.                                              *)
(***************************************************************************)
EXTENDS GpuUsage, FiniteSetTheorems, TLAPS

-----------------------------------------------------------------------------
(* Types, and what sessions have loaded *)

\* The steps of sessions that have loaded a task.
Holding == {"dispatch", "begin", "end", "start", "cancel"}

\* The steps at which they know no more than which task they are at.
Going == {"leased", "run", "finally"}

WorkerSteps  == {"idle", "dispatch", "begin", "end"} \cup Going
RequestSteps == {"idle", "start", "cancel", "usage"}
Steps        == WorkerSteps \cup RequestSteps \cup {"reset"}

Held   == [task: Task, row: Row, user: User]
Memory == {None} \cup Held \cup [task: Task] \cup [user: User] \cup [user: User, to: User]

\* What a session at a step remembers.
Fits(step, m) ==
  /\ step \in Holding => m \in Held
  /\ step \in Going => m \in [task: Task]
  /\ step = "usage" => m \in [user: User]
  /\ step = "reset" => m \in [user: User, to: User]

\* Who takes which steps.
Does(a, step) ==
  /\ a \in Worker => step \in WorkerSteps
  /\ a \in Request => step \in RequestSteps
  /\ a = Beat => step \in {"idle", "reset"}

Sessions ==
  /\ pc \in [Actor -> Steps] /\ mem \in [Actor -> Memory]
  /\ \A a \in Actor : Does(a, pc[a]) /\ Fits(pc[a], mem[a])

\* Billing starts before the last heartbeat, which is not in the future.
Sane(r) == r.beat <= now /\ (r.bill # None => r.bill <= r.beat)

\* Who has loaded a task has a row that was sane, and no fresher a heartbeat than the row's.
Timely ==
  /\ \A t \in Task : Sane(task[t])
  /\ \A a \in Actor : pc[a] \in Holding =>
       Sane(mem[a].row) /\ mem[a].row.beat <= task[mem[a].task].beat

Tables ==
  /\ now \in Time /\ user \in User /\ task \in [Task -> Row]
  /\ events \in 0..MaxEvents /\ crashes \in 0..events

Ghosts == {real, spent} \subseteq [Task -> Nat] /\ {raced, refused} \subseteq BOOLEAN

\* The inductive form of TypeOK.
Types == Tables /\ Sessions /\ Timely /\ Ghosts

-----------------------------------------------------------------------------
(* Costs *)

\* What a row would cost if its run ended now.
Due(r) == r.cost + Seconds(r, now)

\* No row costs more than its runs took, nor would one if it was settled now; and neither
\* does what a session will write, if its start of billing is still the row's.
Billed ==
  ~raced =>
    /\ \A t \in Task : Due(task[t]) <= spent[t]
    /\ \A a \in Actor : pc[a] \in Holding /\ mem[a].row.bill # None =>
         /\ mem[a].row.cost + 1 <= spent[mem[a].task]
         /\ task[mem[a].task].bill = mem[a].row.bill => Due(mem[a].row) <= spent[mem[a].task]

Works(w, t) == pc[w] # "idle" /\ mem[w].task = t

\* A task has one worker, which knows its row, and is billed while that worker runs it.
Undisturbed ==
  /\ \A c \in Request : pc[c] = "idle"
  /\ \A t \in Task : /\ ~task[t].cancel /\ Due(task[t]) = spent[t]
                     /\ task[t].bill # None <=> task[t].status = "processing"
                     /\ task[t].status = "processing" => AtRun(t) # {}
  /\ \A t \in Task, v, w \in Worker : Works(v, t) /\ Works(w, t) => v = w
  /\ \A w \in Worker, t \in Task : Works(w, t) =>
       /\ pc[w] \in Holding => mem[w].row = task[t]
       /\ pc[w] \in {"dispatch", "leased", "begin"} => task[t].status = "queued"
       /\ pc[w] \in {"run", "end"} => task[t].status = "processing"
       /\ pc[w] = "finally" => task[t].status \in Over

\* ... as long as no request interferes, no message comes twice and no worker dies.
Alone == events = 0 => Undisturbed

IInv == Types /\ Billed /\ Alone

-----------------------------------------------------------------------------
(* Days, users and rows *)

\* Days are numbered in order, and each starts at midnight.
LEMMA Days ==
  /\ \A t \in Time : DayOf(t) \in 0..DayOf(MaxTime)
  /\ \A t \in Time : DayStart(t) \in Nat /\ DayStart(t) <= t
<1>1. Time \subseteq Nat /\ \A t \in Time : t <= MaxTime
  BY UsageAssumption DEF Time
<1>2. \A s, t \in Nat : s <= t => (s \div Day) <= (t \div Day)
  BY UsageAssumption
<1>3. \A t \in Nat : (t \div Day) \in Nat
  BY UsageAssumption
<1>4. \A t \in Nat : (t \div Day) * Day \in Nat /\ (t \div Day) * Day <= t
  BY UsageAssumption
<1>5. \A t \in Time : DayOf(t) \in 0..DayOf(MaxTime)
  BY <1>1, <1>2, <1>3, UsageAssumption DEF DayOf
<1>6. QED BY <1>1, <1>4, <1>5 DEF DayOf, DayStart

\* What a commit makes of a row.
LEMMA FlushRow ==
  ASSUME NEW r \in Row, NEW f \in Row, NEW o \in Row
  PROVE  /\ Flush(r, f, o) \in Row
         /\ Flush(r, f, o).status = IF o.status = f.status THEN r.status ELSE o.status
         /\ Flush(r, f, o).cancel = IF o.cancel = f.cancel THEN r.cancel ELSE o.cancel
         /\ Flush(r, f, o).bill = IF o.bill = f.bill THEN r.bill ELSE o.bill
         /\ Flush(r, f, o).beat = IF o.beat = f.beat THEN r.beat ELSE o.beat
         /\ Flush(r, f, o).cost = IF o.cost = f.cost THEN r.cost ELSE o.cost
<1>1. DOMAIN r = {"status", "cancel", "bill", "beat", "cost"}
  BY DEF Row
<1>2. Flush(r, f, o) = [status |-> IF o.status = f.status THEN r.status ELSE o.status,
                        cancel |-> IF o.cancel = f.cancel THEN r.cancel ELSE o.cancel,
                        bill   |-> IF o.bill = f.bill THEN r.bill ELSE o.bill,
                        beat   |-> IF o.beat = f.beat THEN r.beat ELSE o.beat,
                        cost   |-> IF o.cost = f.cost THEN r.cost ELSE o.cost]
  BY <1>1 DEF Flush
<1>3. QED BY <1>2 DEF Row

\* ... and of a user.
LEMMA FlushUser ==
  ASSUME NEW u \in User, NEW f \in User, NEW o \in User
  PROVE  /\ Flush(u, f, o) \in User
         /\ Flush(u, f, o).used = IF o.used = f.used THEN u.used ELSE o.used
         /\ Flush(u, f, o).date = IF o.date = f.date THEN u.date ELSE o.date
<1>1. DOMAIN u = {"used", "date"}
  BY DEF User
<1>2. Flush(u, f, o) = [used |-> IF o.used = f.used THEN u.used ELSE o.used,
                        date |-> IF o.date = f.date THEN u.date ELSE o.date]
  BY <1>1 DEF Flush
<1>3. QED BY <1>2 DEF User

\* A run has a length.
LEMMA RunSeconds ==
  ASSUME NEW r \in Row, NEW end \in Time, r.bill # None => r.bill <= end
  PROVE  /\ Seconds(r, end) \in Nat /\ SecondsOfDay(r, end) \in Nat
         /\ r.bill # None => Seconds(r, end) = end - r.bill + 1
         /\ r.bill = None => Seconds(r, end) = 0
<1>1. end \in Nat /\ (r.bill # None => r.bill \in Nat)
  BY UsageAssumption DEF Row, Time
<1>2. DayStart(end) \in Nat /\ DayStart(end) <= end
  BY Days
<1>3. QED BY <1>1, <1>2 DEF Seconds, SecondsOfDay

\* A settled row costs what it did and its run.
LEMMA SettledRow ==
  ASSUME NEW r \in Row, NEW end \in Time, r.bill # None => r.bill <= end
  PROVE  /\ Settled(r, end) \in Row
         /\ Settled(r, end).bill = None /\ Settled(r, end).cost = r.cost + Seconds(r, end)
         /\ Settled(r, end).status = r.status /\ Settled(r, end).beat = r.beat
         /\ Settled(r, end).cancel = r.cancel
<1>1. r.cost \in Nat /\ Seconds(r, end) \in Nat
  BY RunSeconds DEF Row
<1> DEFINE s == r.cost + Seconds(r, end)
<1>2. s \in Nat /\ Settled(r, end) = [r EXCEPT !.cost = s, !.bill = None]
  BY <1>1 DEF Settled
<1> HIDE DEF s
<1>3. /\ Settled(r, end) \in Row /\ Settled(r, end).cost = s /\ Settled(r, end).bill = None
      /\ Settled(r, end).status = r.status /\ Settled(r, end).beat = r.beat
      /\ Settled(r, end).cancel = r.cancel
  BY <1>2 DEF Row
<1>4. QED BY <1>3 DEF s

\* A user who is reset or charged is one.
LEMMA ChargedUser ==
  ASSUME Tables, NEW u \in User
  PROVE  /\ Reset(u) \in User
         /\ \A r \in Row, end \in Time :
              (r.bill # None => r.bill <= end) => Charged(u, r, end) \in User
<1>1. Reset(u) \in User
  BY Days DEF Reset, User, Tables
<1>2. ASSUME NEW r \in Row, NEW end \in Time, r.bill # None => r.bill <= end
      PROVE  Charged(u, r, end) \in User
  <2>1. SecondsOfDay(r, end) \in Nat
    BY <1>2, RunSeconds
  <2>2. DEFINE v == Reset(u)
               s == SecondsOfDay(r, end)
  <2>3. Charged(u, r, end) = IF r.bill = None THEN u ELSE [v EXCEPT !.used = v.used + s]
    BY DEF Charged
  <2>4. v \in User /\ s \in Nat
    BY <1>1, <2>1
  <2> HIDE DEF v, s
  <2>5. QED BY <2>3, <2>4 DEF User
<1>3. QED BY <1>1, <1>2

\* Only a start of billing is due, and the due of a row is a number.
LEMMA DueRow ==
  ASSUME Tables, NEW r \in Row, Sane(r)
  PROVE  /\ Due(r) \in Nat /\ r.cost \in Nat /\ r.cost <= Due(r)
         /\ r.bill = None => Due(r) = r.cost
         /\ r.bill # None => /\ Due(r) = r.cost + (now - r.bill + 1)
                             /\ r.bill \in Nat /\ r.bill <= now /\ r.cost + 1 <= Due(r)
<1>1. /\ now \in Nat /\ r.cost \in Nat /\ r.beat \in Nat
      /\ r.bill # None => r.bill \in Nat /\ r.bill <= now
  BY UsageAssumption DEF Tables, Row, Time, Sane
<1>2. /\ Seconds(r, now) \in Nat
      /\ r.bill # None => Seconds(r, now) = now - r.bill + 1
      /\ r.bill = None => Seconds(r, now) = 0
  BY <1>1, RunSeconds DEF Tables
<1>3. QED BY <1>1, <1>2 DEF Due

-----------------------------------------------------------------------------
(* Steps of sessions *)

\* Who can be at which step.
LEMMA Roles ==
  /\ Beat \in Actor /\ Beat \notin Worker /\ Beat \notin Request
  /\ \A w \in Worker : w \in Actor /\ w \notin Request /\ w # Beat
  /\ \A c \in Request : c \in Actor /\ c \notin Worker /\ c # Beat
BY UsageAssumption DEF Actor

\* A session goes on.
LEMMA GoesSessions ==
  ASSUME Sessions, NEW a \in Actor, NEW step \in Steps, NEW m \in Memory,
         Does(a, step), Fits(step, m), Goes(a, step, m)
  PROVE  /\ Sessions'
         /\ \A b \in Actor : /\ pc'[b]  = IF b = a THEN step ELSE pc[b]
                             /\ mem'[b] = IF b = a THEN m ELSE mem[b]
<1>1. \A b \in Actor : /\ pc'[b]  = IF b = a THEN step ELSE pc[b]
                       /\ mem'[b] = IF b = a THEN m ELSE mem[b]
  BY DEF Goes, Sessions
<1>2. pc' \in [Actor -> Steps] /\ mem' \in [Actor -> Memory]
  BY DEF Goes, Sessions
<1>3. \A b \in Actor : Does(b, pc'[b]) /\ Fits(pc'[b], mem'[b])
  BY <1>1 DEF Sessions
<1>4. QED BY <1>1, <1>2, <1>3 DEF Sessions

\* It ends.
LEMMA EndsSessions ==
  ASSUME Sessions, NEW a \in Actor, Ends(a)
  PROVE  /\ Sessions'
         /\ \A b \in Actor : /\ pc'[b]  = IF b = a THEN "idle" ELSE pc[b]
                             /\ mem'[b] = IF b = a THEN None ELSE mem[b]
<1>1. "idle" \in Steps /\ None \in Memory /\ Goes(a, "idle", None)
  BY DEF Steps, WorkerSteps, Memory, Ends
<1>2. Does(a, "idle") /\ Fits("idle", None)
  BY DEF Does, WorkerSteps, RequestSteps, Fits, Holding, Going
<1>3. QED BY <1>1, <1>2, GoesSessions

\* A worker closes its session and goes on.
LEMMA ClosesSessions ==
  ASSUME Sessions, NEW w \in Worker, NEW step \in Going, mem[w].task \in Task,
         Closes(w, step)
  PROVE  /\ Sessions'
         /\ \A b \in Actor : /\ pc'[b]  = IF b = w THEN step ELSE pc[b]
                             /\ b # w => mem'[b] = mem[b]
         /\ mem'[w].task = mem[w].task
<1> DEFINE m == [task |-> mem[w].task]
<1>1. w \in Actor /\ m \in [task: Task] /\ m \in Memory /\ m.task = mem[w].task
  BY DEF Actor, Memory
<1>2. step \in Steps /\ Does(w, step)
  BY Roles DEF Steps, WorkerSteps, Does
<1>3. Fits(step, m)
  BY <1>1 DEF Fits, Holding, Going
<1>4. Goes(w, step, m)
  BY DEF Closes
<1> HIDE DEF m
<1>5. QED BY <1>1, <1>2, <1>3, <1>4, GoesSessions

\* It loads a task.
LEMMA LoadsSessions ==
  ASSUME Sessions, Tables, NEW a \in Actor, NEW step \in Holding, NEW t \in Task,
         Does(a, step), Loads(a, step, t)
  PROVE  /\ Sessions'
         /\ \A b \in Actor : /\ pc'[b] = IF b = a THEN step ELSE pc[b]
                             /\ b # a => mem'[b] = mem[b]
         /\ mem'[a].task = t /\ mem'[a].row = task[t]
<1> DEFINE m == [task |-> t, row |-> task[t], user |-> user]
<1>1. m \in Held /\ m \in Memory /\ m.task = t /\ m.row = task[t]
  BY DEF Tables, Held, Memory
<1>2. step \in Steps
  BY DEF Holding, Steps, WorkerSteps, RequestSteps
<1>3. Fits(step, m)
  BY <1>1 DEF Fits, Holding, Going
<1>4. Goes(a, step, m)
  BY DEF Loads
<1> HIDE DEF m
<1>5. QED BY <1>1, <1>2, <1>3, <1>4, GoesSessions

\* What a session that has loaded a task remembers.
LEMMA HeldBy ==
  ASSUME Types, NEW a \in Actor, pc[a] \in Holding
  PROVE  /\ mem[a] \in Held /\ mem[a].task \in Task /\ mem[a].row \in Row
         /\ mem[a].user \in User /\ Sane(mem[a].row)
         /\ mem[a].row.beat <= task[mem[a].task].beat
BY DEF Types, Sessions, Fits, Held, Timely

\* Nobody loads a task: what sessions remember is as old as it was.
Inert ==
  \A b \in Actor : pc'[b] \in Holding => pc'[b] = pc[b] /\ mem'[b] = mem[b]

\* Nothing was written to the tasks.
LEMMA InertKeeps ==
  ASSUME Types, Inert, UNCHANGED <<now, task>>
  PROVE  /\ Timely'
         /\ Billed /\ spent' = spent /\ raced' = raced => Billed'
<1>1. Timely'
  BY DEF Types, Timely, Inert, Sane
<1>2. ASSUME Billed, spent' = spent, raced' = raced PROVE Billed'
  BY <1>2 DEF Billed, Inert, Due, Seconds
<1>3. QED BY <1>1, <1>2

\* A session has loaded a task.
LEMMA LoadKeeps ==
  ASSUME Types, NEW a \in Actor, NEW t \in Task, UNCHANGED <<now, task>>,
         \A b \in Actor : b # a => pc'[b] = pc[b] /\ mem'[b] = mem[b],
         mem'[a].task = t, mem'[a].row = task[t]
  PROVE  /\ Timely'
         /\ Billed /\ spent' = spent /\ raced' = raced => Billed'
<1>1. task[t] \in Row /\ Sane(task[t]) /\ task[t].beat \in Nat
  BY UsageAssumption DEF Types, Tables, Timely, Row, Time
<1>2. Timely'
  <2>1. \A u \in Task : Sane(task[u])'
    BY DEF Types, Timely, Sane
  <2>2. \A b \in Actor : b # a /\ pc'[b] \in Holding =>
          Sane(mem[b].row)' /\ mem'[b].row.beat <= task'[mem'[b].task].beat
    BY DEF Types, Timely, Sane
  <2>3. Sane(mem[a].row)' /\ mem'[a].row.beat <= task'[mem'[a].task].beat
    BY <1>1 DEF Sane
  <2>4. QED BY <2>1, <2>2, <2>3 DEF Timely
<1>3. ASSUME Billed, spent' = spent, raced' = raced PROVE Billed'
  <2> SUFFICES ASSUME ~raced PROVE Billed'
    BY <1>3 DEF Billed
  <2>1. /\ \A u \in Task : Due(task[u])' = Due(task[u])
        /\ \A b \in Actor : b # a => Due(mem[b].row)' = Due(mem[b].row)
        /\ Due(mem[a].row)' = Due(task[t])
    BY DEF Due, Seconds
  <2>2. Due(task[t]) <= spent[t]
    BY <1>3 DEF Billed
  <2>3. task[t].bill # None => task[t].cost + 1 <= spent[t]
    <3>1. spent[t] \in Nat
      BY DEF Types, Ghosts
    <3>2. QED BY <1>1, <2>2, <3>1, DueRow DEF Types
  <2>4. QED BY <1>3, <2>1, <2>2, <2>3 DEF Billed
<1>4. QED BY <1>2, <1>3

\* A task is written, and its billing is not opened.
LEMMA WriteKeeps ==
  ASSUME Types, Inert, now' = now, NEW t \in Task, NEW r \in Row,
         task' = [task EXCEPT ![t] = r],
         r.beat = task[t].beat, r.bill \in {None, task[t].bill}
  PROVE  /\ Timely'
         /\ Billed /\ spent' = spent /\ (raced => raced') /\ (~raced' => Due(r) <= spent[t])
              => Billed'
<1>1. /\ task'[t] = r /\ \A u \in Task : u # t => task'[u] = task[u]
      /\ \A u \in Task : task'[u].beat = task[u].beat /\ task'[u].bill \in {None, task[u].bill}
  BY DEF Types, Tables
<1>2. Timely'
  BY <1>1, HeldBy DEF Types, Timely, Inert, Sane, Held
<1>3. ASSUME Billed, spent' = spent, raced => raced', ~raced' => Due(r) <= spent[t]
      PROVE  Billed'
  <2> SUFFICES ASSUME ~raced' PROVE Billed'
    BY DEF Billed
  <2>1. /\ \A u \in Task : u # t => Due(task[u])' = Due(task[u])
        /\ Due(task[t])' = Due(r)
        /\ \A b \in Actor : pc'[b] \in Holding => Due(mem[b].row)' = Due(mem[b].row)
    BY <1>1 DEF Due, Seconds, Inert
  <2>2. \A u \in Task : (Due(task[u]) <= spent[u])'
    BY <1>3, <2>1 DEF Billed
  <2>3. ASSUME NEW b \in Actor, pc'[b] \in Holding, mem'[b].row.bill # None
        PROVE  /\ mem'[b].row.cost + 1 <= spent'[mem'[b].task]
               /\ task'[mem'[b].task].bill = mem'[b].row.bill =>
                    Due(mem[b].row)' <= spent'[mem'[b].task]
    <3>1. pc'[b] = pc[b] /\ mem'[b] = mem[b] /\ mem[b].task \in Task
      BY <2>3, HeldBy DEF Inert
    <3>2. QED BY <1>1, <1>3, <2>1, <2>3, <3>1 DEF Billed
  <2>4. QED BY <2>2, <2>3 DEF Billed
<1>4. QED BY <1>2, <1>3

-----------------------------------------------------------------------------
(* Types and costs: one lemma for each action *)

\* Counters
LEMMA Counted ==
  ASSUME Tables
  PROVE  /\ Event /\ crashes' = crashes =>
              events' \in 0..MaxEvents /\ crashes' \in 0..events'
         /\ Event /\ crashes' = crashes + 1 =>
              events' \in 0..MaxEvents /\ crashes' \in 0..events'
BY UsageAssumption DEF Tables, Event

\* A session loads a task, and nothing else happens.
LEMMA LoadTypes ==
  ASSUME Types, NEW a \in Actor, NEW step \in Holding, NEW t \in Task, Does(a, step),
         Loads(a, step, t), UNCHANGED <<now, rows, crashes, ghosts>>,
         Event \/ UNCHANGED events
  PROVE  Types' /\ (Billed => Billed')
<1>1. /\ Sessions'
      /\ \A b \in Actor : b # a => pc'[b] = pc[b] /\ mem'[b] = mem[b]
      /\ mem'[a].task = t /\ mem'[a].row = task[t]
  BY LoadsSessions DEF Types
<1>2. Timely' /\ (Billed => Billed')
  BY <1>1, LoadKeeps DEF rows, ghosts
<1>3. Tables'
  BY Counted DEF Types, Tables, rows
<1>4. Ghosts'
  BY DEF Types, Ghosts, ghosts
<1>5. QED BY <1>1, <1>2, <1>3, <1>4 DEF Types

LEMMA DispatchLoadTypes ==
  ASSUME Types, NEW w \in Worker, NEW t \in Task, DispatchLoad(w, t)
  PROVE  Types' /\ (Billed => Billed')
<1>1. "dispatch" \in Holding /\ Does(w, "dispatch") /\ w \in Actor
  BY Roles DEF Holding, Does, WorkerSteps
<1>2. Event \/ UNCHANGED events
  BY DEF DispatchLoad
<1>3. QED BY <1>1, <1>2, LoadTypes DEF DispatchLoad

LEMMA StartLoadTypes ==
  ASSUME Types, NEW c \in Request, NEW t \in Task, StartLoad(c, t)
  PROVE  Types' /\ (Billed => Billed')
<1>1. "start" \in Holding /\ Does(c, "start") /\ c \in Actor
  BY Roles DEF Holding, Does, RequestSteps
<1>2. QED BY <1>1, LoadTypes DEF StartLoad

LEMMA CancelLoadTypes ==
  ASSUME Types, NEW c \in Request, NEW t \in Task, CancelLoad(c, t)
  PROVE  Types' /\ (Billed => Billed')
<1>1. "cancel" \in Holding /\ Does(c, "cancel") /\ c \in Actor
  BY Roles DEF Holding, Does, RequestSteps
<1>2. QED BY <1>1, LoadTypes DEF CancelLoad

\* A worker at a task knows which.
LEMMA WorkerTask ==
  ASSUME Types, NEW w \in Worker, pc[w] # "idle"
  PROVE  mem[w].task \in Task
BY Roles DEF Types, Sessions, Does, Fits, WorkerSteps, Holding, Going, Held

LEMMA RunLoadTypes ==
  ASSUME Types, NEW w \in Worker, RunLoad(w)
  PROVE  Types' /\ (Billed => Billed')
<1>1. w \in Actor /\ mem[w].task \in Task /\ "begin" \in Holding /\ Does(w, "begin")
  BY Roles, WorkerTask DEF RunLoad, Holding, Does, WorkerSteps
<1>2. QED BY <1>1, LoadTypes DEF RunLoad, counts

LEMMA RunLeavesTypes ==
  ASSUME Types, NEW w \in Worker, RunLeaves(w)
  PROVE  Types' /\ (Billed => Billed')
<1>1. w \in Actor
  BY Roles
<1>2. UNCHANGED <<now, rows, counts, ghosts>> /\ Ends(w)
  BY DEF RunLeaves
<1>3. Sessions' /\ \A b \in Actor : /\ pc'[b] = IF b = w THEN "idle" ELSE pc[b]
                                    /\ b # w => mem'[b] = mem[b]
  BY <1>1, <1>2, EndsSessions DEF Types
<1>4. Timely' /\ (Billed => Billed')
  BY <1>2, <1>3, InertKeeps DEF Inert, Holding, rows, ghosts
<1>5. Tables' /\ Ghosts'
  BY <1>2 DEF Types, Tables, Ghosts, rows, counts, ghosts
<1>6. QED BY <1>3, <1>4, <1>5 DEF Types

LEMMA EndLoadTypes ==
  ASSUME Types, NEW w \in Worker, EndLoad(w)
  PROVE  Types' /\ (Billed => Billed')
<1>1. w \in Actor /\ mem[w].task \in Task /\ "end" \in Holding /\ Does(w, "end")
  BY Roles, WorkerTask DEF EndLoad, Holding, Does, WorkerSteps
<1>2. QED BY <1>1, LoadTypes DEF EndLoad, counts

LEMMA CrashTypes ==
  ASSUME Types, NEW w \in Worker, Crash(w)
  PROVE  Types' /\ (Billed => Billed')
<1>1. w \in Actor
  BY Roles
<1>2. Sessions' /\ \A b \in Actor : /\ pc'[b] = IF b = w THEN "idle" ELSE pc[b]
                                    /\ b # w => mem'[b] = mem[b]
  BY <1>1, EndsSessions DEF Types, Crash
<1>3. Timely' /\ (Billed => Billed')
  BY <1>2, InertKeeps DEF Crash, Inert, Holding, rows, ghosts
<1>4. Tables'
  BY Counted DEF Crash, Types, Tables, rows
<1>5. Ghosts'
  BY DEF Crash, Types, Ghosts, ghosts
<1>6. QED BY <1>2, <1>3, <1>4, <1>5 DEF Types

\* Sessions that touch nothing but the user's row
LEMMA BeatLoadTypes ==
  ASSUME Types, BeatLoad
  PROVE  Types' /\ (Billed => Billed')
<1> DEFINE m == [user |-> user, to |-> Reset(user)]
<1>1. m \in [user: User, to: User] /\ m \in Memory
  BY ChargedUser DEF Types, Tables, Memory
<1>2. Goes(Beat, "reset", m) /\ UNCHANGED <<now, rows, counts, ghosts>>
  BY DEF BeatLoad
<1> HIDE DEF m
<1>3. "reset" \in Steps /\ Does(Beat, "reset") /\ Fits("reset", m)
  BY <1>1, Roles DEF Steps, Does, Fits, Holding, Going
<1>4. Sessions' /\ \A b \in Actor : /\ pc'[b] = IF b = Beat THEN "reset" ELSE pc[b]
                                    /\ b # Beat => mem'[b] = mem[b]
  BY <1>1, <1>2, <1>3, Roles, GoesSessions DEF Types
<1>5. Timely' /\ (Billed => Billed')
  BY <1>2, <1>4, InertKeeps DEF Inert, Holding, rows, ghosts
<1>6. Tables' /\ Ghosts'
  BY <1>2 DEF Types, Tables, Ghosts, rows, counts, ghosts
<1>7. QED BY <1>4, <1>5, <1>6 DEF Types

LEMMA BeatCommitTypes ==
  ASSUME Types, BeatCommit
  PROVE  Types' /\ (Billed => Billed')
<1>1. mem[Beat].user \in User /\ mem[Beat].to \in User
  BY Roles DEF BeatCommit, Types, Sessions, Fits
<1>2. user' \in User
  BY <1>1, FlushUser DEF BeatCommit, Types, Tables
<1>3. Sessions' /\ \A b \in Actor : /\ pc'[b] = IF b = Beat THEN "idle" ELSE pc[b]
                                    /\ b # Beat => mem'[b] = mem[b]
  BY Roles, EndsSessions DEF Types, BeatCommit
<1>4. Timely' /\ (Billed => Billed')
  BY <1>3, InertKeeps DEF BeatCommit, Inert, Holding, ghosts
<1>5. Tables' /\ Ghosts'
  BY <1>2 DEF BeatCommit, Types, Tables, Ghosts, counts, ghosts
<1>6. QED BY <1>3, <1>4, <1>5 DEF Types

LEMMA AdminResetTypes ==
  ASSUME Types, AdminReset
  PROVE  Types' /\ (Billed => Billed')
<1>1. user' \in User
  BY Days DEF AdminReset, Types, Tables, User
<1>2. Timely' /\ (Billed => Billed')
  BY InertKeeps DEF AdminReset, Inert, work, ghosts
<1>3. Tables' /\ Ghosts' /\ Sessions'
  BY <1>1, Counted DEF AdminReset, Types, Tables, Ghosts, Sessions, work, ghosts
<1>4. QED BY <1>2, <1>3 DEF Types

LEMMA UsageLoadTypes ==
  ASSUME Types, NEW c \in Request, UsageLoad(c)
  PROVE  Types' /\ (Billed => Billed')
<1> DEFINE m == [user |-> user]
<1>1. m \in [user: User] /\ m \in Memory /\ c \in Actor
  BY Roles DEF Types, Tables, Memory
<1>2. Goes(c, "usage", m) /\ UNCHANGED <<now, rows, crashes, ghosts>> /\ Event
  BY DEF UsageLoad
<1> HIDE DEF m
<1>3. "usage" \in Steps /\ Does(c, "usage") /\ Fits("usage", m)
  BY <1>1, Roles DEF Steps, RequestSteps, Does, Fits, Holding, Going
<1>4. Sessions' /\ \A b \in Actor : /\ pc'[b] = IF b = c THEN "usage" ELSE pc[b]
                                    /\ b # c => mem'[b] = mem[b]
  BY <1>1, <1>2, <1>3, GoesSessions DEF Types
<1>5. Timely' /\ (Billed => Billed')
  BY <1>2, <1>4, InertKeeps DEF Inert, Holding, rows, ghosts
<1>6. Tables' /\ Ghosts'
  BY <1>2, Counted DEF Types, Tables, Ghosts, rows, ghosts
<1>7. QED BY <1>4, <1>5, <1>6 DEF Types

LEMMA UsageCommitTypes ==
  ASSUME Types, NEW c \in Request, UsageCommit(c)
  PROVE  Types' /\ (Billed => Billed')
<1>1. c \in Actor /\ mem[c].user \in User
  BY Roles DEF UsageCommit, Types, Sessions, Fits
<1>2. user' \in User
  BY <1>1, FlushUser, ChargedUser DEF UsageCommit, Types, Tables
<1>3. Sessions' /\ \A b \in Actor : /\ pc'[b] = IF b = c THEN "idle" ELSE pc[b]
                                    /\ b # c => mem'[b] = mem[b]
  BY <1>1, EndsSessions DEF Types, UsageCommit
<1>4. Timely' /\ (Billed => Billed')
  BY <1>3, InertKeeps DEF UsageCommit, Inert, Holding, ghosts
<1>5. Tables' /\ Ghosts'
  BY <1>2 DEF UsageCommit, Types, Tables, Ghosts, counts, ghosts
<1>6. QED BY <1>3, <1>4, <1>5 DEF Types

-----------------------------------------------------------------------------
(* Writes to a task *)

\* A task is written, and its billing is not opened.
LEMMA WriteTypes ==
  ASSUME Types, Sessions', Inert, UNCHANGED <<now, counts, real, spent>>, user' \in User,
         NEW t \in Task, NEW r \in Row, task' = [task EXCEPT ![t] = r],
         r.beat = task[t].beat, r.bill \in {None, task[t].bill},
         {raced', refused'} \subseteq BOOLEAN, raced => raced'
  PROVE  Types' /\ (Billed /\ (~raced' => Due(r) <= spent[t]) => Billed')
<1>1. Timely' /\ (Billed /\ (~raced' => Due(r) <= spent[t]) => Billed')
  BY WriteKeeps
<1>2. Tables'
  BY DEF Types, Tables, counts
<1>3. Ghosts'
  BY DEF Types, Ghosts
<1>4. QED BY <1>1, <1>2, <1>3 DEF Types

\* Session a commits its task.
LEMMA WritesRow ==
  ASSUME Types, NEW a \in Actor, pc[a] \in Holding, NEW to \in Row, Writes(a, to)
  PROVE  /\ task' = [task EXCEPT ![mem[a].task] = Flush(task[mem[a].task], mem[a].row, to)]
         /\ raced' \in BOOLEAN /\ (raced => raced')
         /\ ~raced' => to.bill = mem[a].row.bill \/ task[mem[a].task].bill = mem[a].row.bill
<1>1. task' = [task EXCEPT ![mem[a].task] = Flush(task[mem[a].task], mem[a].row, to)]
  BY DEF Writes
<1>2. raced' = (raced \/ (to.bill # mem[a].row.bill /\ task[mem[a].task].bill # mem[a].row.bill))
  BY DEF Writes
<1>3. raced' \in BOOLEAN
  BY <1>2, Zenon
<1>4. /\ raced => raced'
      /\ ~raced' => to.bill = mem[a].row.bill \/ task[mem[a].task].bill = mem[a].row.bill
  BY <1>2
<1>5. QED BY <1>1, <1>3, <1>4

\* A session that settles a run charges the task for it once, or races.
LEMMA SettleTypes ==
  ASSUME Types, NEW a \in Actor, pc[a] \in Holding, Sessions', Inert,
         UNCHANGED <<now, counts, real, spent, refused>>,
         NEW to \in Row, to.bill = mem[a].row.bill, to.beat = mem[a].row.beat,
         to.cost = mem[a].row.cost, WritesSettled(a, to)
  PROVE  Types' /\ (Billed => Billed')
<1> DEFINE t == mem[a].task
           f == mem[a].row
           s == Settled(to, now)
           r == Flush(task[t], f, s)
<1>1. /\ t \in Task /\ f \in Row /\ task[t] \in Row /\ mem[a].user \in User /\ Sane(f)
      /\ Sane(task[t]) /\ now \in Time /\ Tables
  BY HeldBy DEF Types, Tables, Timely
<1>2. f.bill # None => f.bill <= now /\ f.bill \in Nat /\ now \in Nat
  BY <1>1, DueRow DEF Time
<1>3. /\ s \in Row /\ s.bill = None /\ s.cost = f.cost + Seconds(f, now) /\ s.beat = f.beat
  <2>1. Seconds(to, now) = Seconds(f, now)
    BY DEF Seconds
  <2>2. to.bill # None => to.bill <= now
    BY <1>2
  <2>3. QED BY <1>1, <2>1, <2>2, SettledRow
<1>4. /\ r \in Row
      /\ r.bill = IF f.bill = None THEN task[t].bill ELSE None
      /\ r.beat = task[t].beat
      /\ r.cost = IF s.cost = f.cost THEN task[t].cost ELSE s.cost
  BY <1>1, <1>3, FlushRow
<1>5. /\ task' = [task EXCEPT ![t] = r]
      /\ raced' \in BOOLEAN /\ (raced => raced')
      /\ ~raced' => None = f.bill \/ task[t].bill = f.bill
  BY <1>3, WritesRow DEF WritesSettled
<1>6. user' \in User
  <2>1. /\ Reset(mem[a].user) \in User /\ Charged(mem[a].user, f, now) \in User
        /\ user \in User
    BY <1>1, <1>2, ChargedUser DEF Tables
  <2>2. Flush(user, mem[a].user, Reset(mem[a].user)) \in User
    BY <1>1, <2>1, FlushUser
  <2>3. Owner(mem[a].user, Charged(mem[a].user, f, now)) \in User
    BY <2>1, <2>2, FlushUser DEF Owner
  <2>4. QED BY <2>1, <2>3 DEF WritesSettled
<1>7. ASSUME Billed, ~raced' PROVE Due(r) <= spent[t]
  <2>1. ~raced /\ Due(task[t]) <= spent[t]
    BY <1>1, <1>5, <1>7 DEF Billed
  <2>2. CASE f.bill = None
    <3>1. s.cost = f.cost
      BY <1>1, <1>3, <2>2, DueRow DEF Due, Seconds
    <3>2. r.cost = task[t].cost /\ r.bill = task[t].bill
      BY <1>4, <2>2, <3>1
    <3>3. Due(r) = Due(task[t])
      BY <3>2 DEF Due, Seconds
    <3>4. QED BY <2>1, <3>3
  <2>3. CASE f.bill # None
    <3>1. task[t].bill = f.bill
      BY <1>5, <1>7, <2>3
    <3>2. Due(f) <= spent[t]
      BY <1>7, <2>1, <2>3, <3>1 DEF Billed
    <3>3. s.cost = Due(f)
      BY <1>3 DEF Due
    <3>4. r.cost = Due(f) /\ r.bill = None
      BY <1>1, <1>4, <2>3, <3>3, DueRow
    <3>5. Due(r) = Due(f)
      BY <1>1, <3>4, DueRow DEF Due, Seconds
    <3>6. QED BY <3>2, <3>5
  <2>4. QED BY <2>2, <2>3
<1> HIDE DEF t, f, s, r
<1>8. r.bill \in {None, task[t].bill}
  BY <1>4
<1>9. refused' \in BOOLEAN
  BY DEF Types, Ghosts
<1>10. QED BY <1>1, <1>4, <1>5, <1>6, <1>7, <1>8, <1>9, WriteTypes

LEMMA EndCommitTypes ==
  ASSUME Types, NEW w \in Worker, EndCommit(w)
  PROVE  Types' /\ (Billed => Billed')
<1>1. w \in Actor /\ pc[w] \in Holding /\ mem[w].row \in Row /\ mem[w].task \in Task
  BY Roles, HeldBy DEF EndCommit, Holding
<1>2. Sessions' /\ Inert
  <2>1. /\ Sessions'
        /\ \A b \in Actor : /\ pc'[b] = IF b = w THEN "finally" ELSE pc[b]
                            /\ b # w => mem'[b] = mem[b]
    BY <1>1, ClosesSessions DEF EndCommit, Types, Going
  <2>2. QED BY <2>1 DEF Inert, Holding
<1>p. PICK q \in Over : WritesSettled(w, [mem[w].row EXCEPT !.status = q])
  BY DEF EndCommit
<1> DEFINE to == [mem[w].row EXCEPT !.status = q]
<1>3. /\ to \in Row /\ to.bill = mem[w].row.bill /\ to.beat = mem[w].row.beat
      /\ to.cost = mem[w].row.cost
  BY <1>1 DEF Row
<1>4. WritesSettled(w, to) /\ UNCHANGED <<now, counts, real, spent, refused>>
  BY <1>p DEF EndCommit
<1> HIDE DEF to
<1>5. QED BY <1>1, <1>2, <1>3, <1>4, SettleTypes

LEMMA CancelCommitTypes ==
  ASSUME Types, NEW c \in Request, CancelCommit(c)
  PROVE  Types' /\ (Billed => Billed')
<1>1. c \in Actor /\ pc[c] \in Holding /\ mem[c].row \in Row
  BY Roles, HeldBy DEF CancelCommit, Holding
<1>2. Sessions' /\ Inert
  <2>1. /\ Sessions'
        /\ \A b \in Actor : /\ pc'[b] = IF b = c THEN "idle" ELSE pc[b]
                            /\ b # c => mem'[b] = mem[b]
    BY <1>1, EndsSessions DEF CancelCommit, Types
  <2>2. QED BY <2>1 DEF Inert, Holding
<1> DEFINE to == [mem[c].row EXCEPT !.status = "over", !.cancel = TRUE]
<1>3. /\ to \in Row /\ to.bill = mem[c].row.bill /\ to.beat = mem[c].row.beat
      /\ to.cost = mem[c].row.cost
  BY <1>1 DEF Row, Over
<1>4. WritesSettled(c, to) /\ UNCHANGED <<now, counts, real, spent, refused>>
  BY DEF CancelCommit
<1> HIDE DEF to
<1>5. QED BY <1>1, <1>2, <1>3, <1>4, SettleTypes

\* Whoever writes neither the cost nor a new start of billing makes nothing due.
LEMMA KeepsDue ==
  ASSUME Types, Billed, ~raced, NEW t \in Task, NEW r \in Row,
         r.cost = task[t].cost, r.bill \in {None, task[t].bill}
  PROVE  Due(r) <= spent[t]
<1>1. /\ task[t] \in Row /\ Sane(task[t]) /\ Tables /\ spent[t] \in Nat
      /\ Due(task[t]) <= spent[t]
  BY DEF Types, Tables, Timely, Ghosts, Billed
<1>2. CASE r.bill = task[t].bill
  <2>1. Due(r) = Due(task[t])
    BY <1>2 DEF Due, Seconds
  <2>2. QED BY <1>1, <2>1
<1>3. CASE r.bill = None
  <2>1. Due(r) = task[t].cost + 0
    BY <1>3 DEF Due, Seconds
  <2>2. QED BY <1>1, <2>1, DueRow
<1>4. QED BY <1>2, <1>3

LEMMA StartCommitTypes ==
  ASSUME Types, NEW c \in Request, StartCommit(c)
  PROVE  Types' /\ (Billed => Billed')
<1> DEFINE t == mem[c].task
           f == mem[c].row
           to == [f EXCEPT !.status = "queued", !.cancel = FALSE, !.bill = None]
           r == Flush(task[t], f, to)
<1>1. /\ c \in Actor /\ pc[c] \in Holding /\ f \in Row /\ t \in Task /\ task[t] \in Row
  BY Roles, HeldBy DEF StartCommit, Holding, Types, Tables
<1>2. Sessions' /\ Inert
  <2>1. /\ Sessions'
        /\ \A b \in Actor : /\ pc'[b] = IF b = c THEN "idle" ELSE pc[b]
                            /\ b # c => mem'[b] = mem[b]
    BY <1>1, EndsSessions DEF StartCommit, Types
  <2>2. QED BY <2>1 DEF Inert, Holding
<1>3. to \in Row /\ to.bill = None /\ to.beat = f.beat /\ to.cost = f.cost
  BY <1>1 DEF Row
<1>4. Writes(c, to) /\ UNCHANGED <<now, user, counts, real, spent, refused>>
  BY DEF StartCommit
<1> HIDE DEF to
<1>5. /\ r \in Row /\ r.bill \in {None, task[t].bill} /\ r.beat = task[t].beat
      /\ r.cost = task[t].cost
  BY <1>1, <1>3, FlushRow
<1>6. task' = [task EXCEPT ![t] = r] /\ raced' \in BOOLEAN /\ (raced => raced')
  BY <1>1, <1>3, <1>4, WritesRow
<1> HIDE DEF t, f, r
<1>7. Billed => (~raced' => Due(r) <= spent[t])
  BY <1>1, <1>5, <1>6, KeepsDue
<1>8. refused' \in BOOLEAN /\ user' \in User
  BY <1>4 DEF Types, Ghosts, Tables
<1>9. QED BY <1>1, <1>2, <1>4, <1>5, <1>6, <1>7, <1>8, WriteTypes

LEMMA DispatchCommitTypes ==
  ASSUME Types, NEW w \in Worker, DispatchCommit(w)
  PROVE  Types' /\ (Billed => Billed')
<1> DEFINE t == mem[w].task
           f == mem[w].row
<1>1. /\ w \in Actor /\ pc[w] \in Holding /\ f \in Row /\ t \in Task /\ task[t] \in Row
      /\ mem[w].user \in User
  BY Roles, HeldBy DEF DispatchCommit, Holding, Types, Tables
<1>2. user' \in User /\ UNCHANGED <<now, counts, real, spent>>
  BY <1>1, FlushUser, ChargedUser DEF DispatchCommit, Types, Tables
<1>3. CASE UsedUp(mem[w].user)
  <2>p. PICK q \in Over : Writes(w, [f EXCEPT !.status = q])
    BY <1>3 DEF DispatchCommit
  <2> DEFINE to == [f EXCEPT !.status = q]
             r == Flush(task[t], f, to)
  <2>1. /\ Writes(w, to) /\ Ends(w)
        /\ refused' = (refused \/ (~raced /\ RealUse < Quota))
    BY <1>3, <2>p DEF DispatchCommit
  <2>2. refused' \in BOOLEAN
    BY <2>1, Zenon
  <2>3. Sessions' /\ Inert
    <3>1. /\ Sessions'
          /\ \A b \in Actor : /\ pc'[b] = IF b = w THEN "idle" ELSE pc[b]
                              /\ b # w => mem'[b] = mem[b]
      BY <1>1, <2>1, EndsSessions DEF Types
    <3>2. QED BY <3>1 DEF Inert, Holding
  <2>4. to \in Row /\ to.bill = f.bill /\ to.beat = f.beat /\ to.cost = f.cost
    BY <1>1 DEF Row
  <2> HIDE DEF to
  <2>5. /\ r \in Row /\ r.bill = task[t].bill /\ r.beat = task[t].beat
        /\ r.cost = task[t].cost
    BY <1>1, <2>4, FlushRow
  <2>6. task' = [task EXCEPT ![t] = r] /\ raced' \in BOOLEAN /\ (raced => raced')
    BY <1>1, <2>1, <2>4, WritesRow
  <2> HIDE DEF t, f, r
  <2>7. Billed => (~raced' => Due(r) <= spent[t])
    BY <1>1, <2>5, <2>6, KeepsDue
  <2>8. QED BY <1>1, <1>2, <2>2, <2>3, <2>5, <2>6, <2>7, WriteTypes
<1>4. CASE ~UsedUp(mem[w].user)
  <2>1. Closes(w, "leased") /\ UNCHANGED <<task, raced, refused>>
    BY <1>4 DEF DispatchCommit
  <2>2. /\ Sessions'
        /\ \A b \in Actor : /\ pc'[b] = IF b = w THEN "leased" ELSE pc[b]
                            /\ b # w => mem'[b] = mem[b]
    BY <1>1, <2>1, ClosesSessions DEF Types, Going
  <2>3. Timely' /\ (Billed => Billed')
    BY <1>2, <2>1, <2>2, InertKeeps DEF Inert, Holding
  <2>4. Tables' /\ Ghosts'
    BY <1>2, <2>1 DEF Types, Tables, Ghosts, counts
  <2>5. QED BY <2>2, <2>3, <2>4 DEF Types
<1>5. QED BY <1>3, <1>4

LEMMA LeaveCommitTypes ==
  ASSUME Types, NEW w \in Worker, LeaveCommit(w)
  PROVE  Types' /\ (Billed => Billed')
<1> DEFINE t == mem[w].task
           f == mem[w].row
           to == [f EXCEPT !.status = "over"]
           r == Flush(task[t], f, to)
<1>1. /\ w \in Actor /\ pc[w] \in Holding /\ f \in Row /\ t \in Task /\ task[t] \in Row
  BY Roles, HeldBy DEF LeaveCommit, Holding, Types, Tables
<1>2. Sessions' /\ Inert
  <2>1. /\ Sessions'
        /\ \A b \in Actor : /\ pc'[b] = IF b = w THEN "idle" ELSE pc[b]
                            /\ b # w => mem'[b] = mem[b]
    BY <1>1, EndsSessions DEF LeaveCommit, Types
  <2>2. QED BY <2>1 DEF Inert, Holding
<1>3. to \in Row /\ to.bill = f.bill /\ to.beat = f.beat /\ to.cost = f.cost
  BY <1>1 DEF Row, Over
<1>4. Writes(w, to) /\ UNCHANGED <<now, user, counts, real, spent, refused>>
  BY DEF LeaveCommit
<1> HIDE DEF to
<1>5. /\ r \in Row /\ r.bill = task[t].bill /\ r.beat = task[t].beat /\ r.cost = task[t].cost
  BY <1>1, <1>3, FlushRow
<1>6. task' = [task EXCEPT ![t] = r] /\ raced' \in BOOLEAN /\ (raced => raced')
  BY <1>1, <1>3, <1>4, WritesRow
<1> HIDE DEF t, f, r
<1>7. Billed => (~raced' => Due(r) <= spent[t])
  BY <1>1, <1>5, <1>6, KeepsDue
<1>8. refused' \in BOOLEAN /\ user' \in User
  BY <1>4 DEF Types, Ghosts, Tables
<1>9. QED BY <1>1, <1>2, <1>4, <1>5, <1>6, <1>7, <1>8, WriteTypes

LEMMA FinallyTypes ==
  ASSUME Types, NEW w \in Worker, Finally(w)
  PROVE  Types' /\ (Billed => Billed')
<1> DEFINE t == mem[w].task
           r == Settled(task[t], now)
<1>1. w \in Actor /\ t \in Task
  BY Roles, WorkerTask DEF Finally
<1>2. Sessions' /\ Inert
  <2>1. /\ Sessions'
        /\ \A b \in Actor : /\ pc'[b] = IF b = w THEN "idle" ELSE pc[b]
                            /\ b # w => mem'[b] = mem[b]
    BY <1>1, EndsSessions DEF Finally, Types
  <2>2. QED BY <2>1 DEF Inert, Holding
<1>3. UNCHANGED <<now, counts, ghosts>>
  BY DEF Finally
<1>4. CASE UNCHANGED rows
  <2>1. Timely' /\ (Billed => Billed')
    BY <1>2, <1>3, <1>4, InertKeeps DEF rows, ghosts
  <2>2. Tables' /\ Ghosts'
    BY <1>3, <1>4 DEF Types, Tables, Ghosts, rows, counts, ghosts
  <2>3. QED BY <1>2, <2>1, <2>2 DEF Types
<1>5. CASE task' = [task EXCEPT ![t] = r] /\ user' = Charged(user, task[t], now)
  <2>1. /\ task[t] \in Row /\ Sane(task[t]) /\ Tables /\ now \in Time /\ user \in User
        /\ task[t].bill # None => task[t].bill <= now
    BY <1>1, DueRow DEF Types, Tables, Timely
  <2>2. /\ r \in Row /\ r.bill = None /\ r.beat = task[t].beat
        /\ r.cost = task[t].cost + Seconds(task[t], now)
    BY <2>1, SettledRow
  <2>3. user' \in User
    BY <1>5, <2>1, ChargedUser
  <2> HIDE DEF r
  <2>4. Due(r) = Due(task[t])
    BY <2>1, <2>2, DueRow DEF Due, Seconds
  <2>5. Billed => (~raced' => Due(r) <= spent[t])
    BY <1>1, <1>3, <2>4 DEF Billed, ghosts
  <2>6. {raced', refused'} \subseteq BOOLEAN /\ (raced => raced')
    BY <1>3 DEF Types, Ghosts, ghosts
  <2>7. UNCHANGED <<now, counts, real, spent>>
    BY <1>3 DEF ghosts
  <2> HIDE DEF t
  <2>8. QED BY <1>1, <1>2, <1>5, <2>2, <2>3, <2>5, <2>6, <2>7, WriteTypes
<1>6. QED BY <1>4, <1>5 DEF Finally

LEMMA RecoverTypes ==
  ASSUME Types, NEW t \in Task, NEW next \in {"queued"} \cup Over, Recover(t, next)
  PROVE  Types' /\ (Billed => Billed')
<1> DEFINE f == task[t]
           s == Settled(f, f.beat)
           r == [s EXCEPT !.status = next]
<1>1. /\ f \in Row /\ Sane(f) /\ Tables /\ user \in User /\ f.beat \in Time /\ f.beat \in Nat
      /\ f.bill # None => f.bill <= f.beat
  BY UsageAssumption DEF Types, Tables, Timely, Sane, Row, Time
<1>2. /\ s \in Row /\ s.bill = None /\ s.beat = f.beat /\ s.cost = f.cost + Seconds(f, f.beat)
  BY <1>1, SettledRow
<1>3. user' = Charged(user, f, f.beat) /\ task' = [task EXCEPT ![t] = r]
  BY DEF Recover
<1>4. user' \in User
  BY <1>1, <1>3, ChargedUser
<1>5. /\ r \in Row /\ r.bill = None /\ r.beat = f.beat /\ r.cost = s.cost
  BY <1>2 DEF Row, Over
<1>6. Due(r) <= Due(f)
  <2>1. Due(r) = r.cost /\ r.cost \in Nat
    BY <1>5 DEF Due, Seconds, Row
  <2>2. CASE f.bill = None
    <3>1. s.cost = f.cost
      BY <1>1, <1>2, <2>2, RunSeconds DEF Row
    <3>2. QED BY <1>1, <1>5, <2>1, <2>2, <3>1, DueRow
  <2>3. CASE f.bill # None
    <3>1. s.cost = f.cost + (f.beat - f.bill + 1)
      BY <1>1, <1>2, <2>3, RunSeconds
    <3>2. Due(f) = f.cost + (now - f.bill + 1) /\ f.cost \in Nat /\ f.bill \in Nat
      BY <1>1, <2>3, DueRow
    <3>3. f.beat <= now /\ now \in Nat
      BY <1>1, UsageAssumption DEF Sane, Tables, Time
    <3>4. QED BY <1>1, <1>5, <2>1, <3>1, <3>2, <3>3
  <2>4. QED BY <2>2, <2>3
<1>7. UNCHANGED <<now, counts, work, ghosts>>
  BY DEF Recover
<1>8. Sessions' /\ Inert
  BY <1>7 DEF Types, Sessions, Inert, work
<1>9. {raced', refused'} \subseteq BOOLEAN /\ (raced => raced')
      /\ UNCHANGED <<now, counts, real, spent>>
  BY <1>7 DEF Types, Ghosts, ghosts
<1>10. Billed => (~raced' => Due(r) <= spent[t])
  <2>1. Due(r) \in Int /\ Due(f) \in Int /\ spent[t] \in Int
    BY <1>1, <1>5, DueRow DEF Types, Ghosts, Due, Seconds, Row
  <2>2. QED BY <1>6, <1>7, <2>1 DEF Billed, ghosts
<1> HIDE DEF f, s, r
<1>11. r.beat = task[t].beat
  BY <1>5 DEF f
<1>12. QED BY <1>3, <1>4, <1>5, <1>8, <1>9, <1>10, <1>11, WriteTypes

\* Billing is opened: the second it is opened in is due, and is counted as spent.
LEMMA BeginCommitTypes ==
  ASSUME Types, NEW w \in Worker, BeginCommit(w)
  PROVE  Types' /\ (Billed => Billed')
<1> DEFINE t == mem[w].task
           f == mem[w].row
           to == [f EXCEPT !.status = "processing", !.bill = now, !.beat = now]
           r == Flush(task[t], f, to)
<1>1. /\ w \in Actor /\ pc[w] \in Holding /\ f \in Row /\ t \in Task /\ task[t] \in Row
      /\ Tables /\ now \in Time /\ now \in Nat /\ Sane(f) /\ f.beat <= task[t].beat
      /\ Sane(task[t]) /\ task[t].beat \in Nat /\ f.beat \in Nat /\ now # None
  BY Roles, HeldBy, UsageAssumption DEF BeginCommit, Holding, Types, Tables, Timely, Row, Time
<1>2. /\ Sessions' /\ Inert
      /\ UNCHANGED <<now, user, counts, refused>>
  <2>1. /\ Sessions'
        /\ \A b \in Actor : /\ pc'[b] = IF b = w THEN "run" ELSE pc[b]
                            /\ b # w => mem'[b] = mem[b]
    BY <1>1, ClosesSessions DEF BeginCommit, Types, Going
  <2>2. QED BY <2>1 DEF BeginCommit, Inert, Holding
<1>3. to \in Row /\ to.bill = now /\ to.beat = now /\ to.cost = f.cost
  BY <1>1 DEF Row
<1>4. Writes(w, to)
  BY DEF BeginCommit
<1>5. spent' = [spent EXCEPT ![t] = @ + 1] /\ real' = [real EXCEPT ![t] = @ + 1]
  BY DEF BeginCommit
<1> HIDE DEF to
<1>6. /\ r \in Row /\ r.bill = IF f.bill = now THEN task[t].bill ELSE now
      /\ r.beat = IF f.beat = now THEN task[t].beat ELSE now
      /\ r.cost = task[t].cost
  BY <1>1, <1>3, FlushRow
<1>7. task' = [task EXCEPT ![t] = r] /\ raced' \in BOOLEAN /\ (raced => raced')
  BY <1>1, <1>3, <1>4, WritesRow
<1> HIDE DEF t, f, r
<1>8. r.beat = now /\ Sane(r) /\ task[t].beat <= r.beat
  BY <1>1, <1>6, DueRow DEF Sane
<1>9. /\ task'[t] = r /\ \A u \in Task : u # t => task'[u] = task[u]
      /\ \A u \in Task : spent'[u] = IF u = t THEN spent[t] + 1 ELSE spent[u]
  BY <1>1, <1>5, <1>7 DEF Types, Tables, Ghosts
<1>10. Tables'
  BY <1>2, <1>6, <1>7 DEF Types, Tables, counts
<1>11. Ghosts'
  BY <1>1, <1>2, <1>5, <1>7 DEF Types, Ghosts
<1>12. Timely'
  <2>1. \A u \in Task : Sane(task[u])'
    BY <1>2, <1>8, <1>9 DEF Types, Timely, Sane
  <2>2. ASSUME NEW b \in Actor, pc'[b] \in Holding
        PROVE  Sane(mem[b].row)' /\ mem'[b].row.beat <= task'[mem'[b].task].beat
    <3>1. /\ pc[b] \in Holding /\ mem'[b] = mem[b] /\ mem[b].task \in Task
          /\ Sane(mem[b].row) /\ mem[b].row.beat <= task[mem[b].task].beat
          /\ mem[b].row.beat \in Nat
      BY <1>2, <2>2, HeldBy, UsageAssumption DEF Inert, Row, Time
    <3>2. CASE mem[b].task = t
      BY <1>1, <1>2, <1>8, <1>9, <3>1, <3>2 DEF Sane
    <3>3. CASE mem[b].task # t
      BY <1>2, <1>9, <3>1, <3>3 DEF Sane
    <3>4. QED BY <3>2, <3>3
  <2>3. QED BY <2>1, <2>2 DEF Timely
<1>13. ASSUME Billed PROVE Billed'
  <2> SUFFICES ASSUME ~raced' PROVE Billed'
    BY DEF Billed
  <2>1. /\ \A u \in Task : spent[u] \in Nat /\ Due(task[u]) <= spent[u]
        /\ \A u \in Task : Due(task'[u]) = IF u = t THEN Due(r) ELSE Due(task[u])
    <3>1. ~raced
      BY <1>7
    <3>2. \A u \in Task : spent[u] \in Nat /\ Due(task[u]) <= spent[u]
      BY <1>13, <3>1 DEF Billed, Types, Ghosts
    <3>3. now' = now /\ task'[t] = r /\ \A u \in Task : u # t => task'[u] = task[u]
      BY <1>2, <1>9
    <3>4. QED BY <3>2, <3>3
  <2>2. /\ Due(task[t]) \in Nat /\ task[t].cost \in Nat /\ task[t].cost <= Due(task[t])
        /\ spent[t] \in Nat /\ Due(task[t]) <= spent[t]
    BY <1>1, <2>1, DueRow
  <2>3. Due(r) <= spent[t] + 1
    <3>1. CASE r.bill = now
      <4>1. Due(r) = r.cost + (now - now + 1)
        BY <1>1, <3>1 DEF Due, Seconds
      <4>2. QED BY <1>1, <1>6, <2>2, <4>1
    <3>2. CASE r.bill = task[t].bill
      <4>1. Due(r) = Due(task[t])
        BY <1>6, <3>2 DEF Due, Seconds
      <4>2. QED BY <2>2, <4>1
    <3>3. QED BY <1>6, <3>1, <3>2
  <2>4. \A u \in Task : Due(task'[u]) <= spent'[u]
    BY <1>9, <2>1, <2>3
  <2>5. ASSUME NEW b \in Actor, pc'[b] \in Holding, mem'[b].row.bill # None
        PROVE  /\ mem'[b].row.cost + 1 <= spent'[mem'[b].task]
               /\ task'[mem'[b].task].bill = mem'[b].row.bill =>
                    Due(mem[b].row)' <= spent'[mem'[b].task]
    <3> DEFINE g == mem[b].row
               u == mem[b].task
    <3>1. /\ pc[b] \in Holding /\ mem'[b] = mem[b] /\ u \in Task /\ g \in Row /\ Sane(g)
          /\ g.bill # None
      BY <1>2, <2>5, HeldBy DEF Inert
    <3>2. /\ g.cost + 1 <= spent[u]
          /\ task[u].bill = g.bill => Due(g) <= spent[u]
      BY <1>7, <1>13, <3>1 DEF Billed
    <3>3. Due(mem[b].row)' = Due(g)
      BY <1>2, <3>1 DEF Due, Seconds
    <3>4. mem'[b].row = g /\ mem'[b].task = u
      BY <3>1
    <3> HIDE DEF g, u
    <3>5. /\ g.cost \in Nat /\ Due(g) \in Nat /\ Due(g) = g.cost + (now - g.bill + 1)
          /\ spent[u] \in Nat /\ spent'[u] \in Nat /\ spent[u] <= spent'[u]
      BY <1>1, <1>9, <2>1, <3>1, DueRow
    <3>6. g.cost + 1 <= spent'[u]
      BY <3>2, <3>5
    <3>7. ASSUME task'[u].bill = g.bill PROVE Due(g) <= spent'[u]
      <4>1. CASE task[u].bill = g.bill
        BY <3>2, <3>5, <4>1
      <4>2. CASE task[u].bill # g.bill
        <5>1. g.bill = now
          BY <1>6, <1>9, <3>1, <3>7, <4>2
        <5>2. Due(g) = g.cost + 1
          BY <1>1, <3>5, <5>1
        <5>3. QED BY <3>6, <5>2
      <4>3. QED BY <4>1, <4>2
    <3>8. QED BY <3>3, <3>4, <3>6, <3>7
  <2>6. \A u \in Task : Due(task[u])' = Due(task'[u])
    BY <1>2 DEF Due
  <2>7. QED BY <2>4, <2>5, <2>6 DEF Billed
<1>14. QED BY <1>2, <1>10, <1>11, <1>12, <1>13 DEF Types

\* A second counts for each run that is under way, and for one that is billed.
LEMMA OpenRuns ==
  ASSUME Types, NEW t \in Task
  PROVE  Open(t) \in Nat /\ (task[t].bill # None => Open(t) >= 1)
<1>1. IsFiniteSet(AtRun(t))
  BY UsageAssumption, FS_Subset DEF AtRun
<1>2. Cardinality(AtRun(t)) \in Nat /\ (Cardinality(AtRun(t)) = 0 <=> AtRun(t) = {})
  BY <1>1, FS_CardinalityType, FS_EmptySet
<1>3. QED BY <1>2 DEF Open

LEMMA TickTypes ==
  ASSUME Types, Tick
  PROVE  Types' /\ (Billed => Billed')
<1>1. /\ now \in Nat /\ now' = now + 1 /\ now' \in Time /\ now' \in Nat /\ now \in Time
  BY UsageAssumption DEF Tick, Types, Tables, Time
<1>2. UNCHANGED <<user, work, counts, raced, refused>>
  BY DEF Tick
<1>3. Sessions' /\ \A b \in Actor : pc'[b] = pc[b] /\ mem'[b] = mem[b]
  BY <1>2 DEF Types, Sessions, work
<1>4. task' = [t \in Task |-> IF Beats(t) THEN [task[t] EXCEPT !.beat = now'] ELSE task[t]]
  BY DEF Tick
<1>5. ASSUME NEW t \in Task
      PROVE  /\ task'[t] \in Row /\ task'[t].beat \in {now', task[t].beat}
             /\ task'[t].bill = task[t].bill /\ task'[t].cost = task[t].cost
  <2>1. task[t] \in Row /\ task'[t] = IF Beats(t) THEN [task[t] EXCEPT !.beat = now'] ELSE task[t]
    BY <1>4 DEF Types, Tables
  <2>2. QED BY <1>1, <2>1 DEF Row
<1>6. \A t \in Task : /\ task[t].beat \in Nat /\ task[t].beat <= now
                      /\ task[t].beat <= task'[t].beat /\ task'[t].beat <= now'
  BY <1>1, <1>5, UsageAssumption DEF Types, Tables, Timely, Sane, Row, Time
<1>7. Tables'
  BY <1>1, <1>2, <1>4, <1>5 DEF Types, Tables, counts
<1>8. Timely'
  <2>1. \A t \in Task : Sane(task[t])'
    <3> TAKE t \in Task
    <3>1. task[t] \in Row /\ Sane(task[t]) /\ Tables
      BY DEF Types, Tables, Timely
    <3>2. task[t].bill # None => task[t].bill \in Nat /\ task[t].bill <= task[t].beat
      BY <3>1, DueRow DEF Sane
    <3>3. task'[t].bill # None => task'[t].bill <= task'[t].beat
      BY <1>1, <1>5, <1>6, <3>2
    <3>4. QED BY <1>6, <3>3 DEF Sane
  <2>2. ASSUME NEW b \in Actor, pc'[b] \in Holding
        PROVE  Sane(mem[b].row)' /\ mem'[b].row.beat <= task'[mem'[b].task].beat
    <3>1. /\ mem'[b] = mem[b] /\ mem[b].task \in Task
          /\ Sane(mem[b].row) /\ mem[b].row.beat <= task[mem[b].task].beat
          /\ mem[b].row.beat \in Nat
      BY <1>3, <2>2, HeldBy, UsageAssumption DEF Row, Time
    <3>2. /\ task[mem[b].task].beat <= task'[mem[b].task].beat
          /\ task[mem[b].task].beat \in Nat /\ task'[mem[b].task].beat \in Nat
      BY <1>1, <1>5, <1>6, <3>1
    <3>3. QED BY <1>1, <3>1, <3>2 DEF Sane
  <2>3. QED BY <2>1, <2>2 DEF Timely
<1>9. \A t \in Task : /\ Open(t) \in Nat /\ spent[t] \in Nat /\ spent'[t] = spent[t] + Open(t)
                      /\ task[t].bill # None => Open(t) >= 1
  BY OpenRuns DEF Tick, Types, Ghosts
<1>10. Ghosts'
  <2>1. spent' \in [Task -> Nat]
    BY <1>9 DEF Tick
  <2>2. real' \in [Task -> Nat]
    BY <1>9 DEF Tick, Types, Ghosts
  <2>3. QED BY <1>2, <2>1, <2>2 DEF Types, Ghosts
<1>11. ASSUME Billed PROVE Billed'
  <2> SUFFICES ASSUME ~raced PROVE Billed'
    BY <1>2 DEF Billed
  <2>1. ASSUME NEW t \in Task PROVE (Due(task[t]) <= spent[t])'
    <3>1. task[t] \in Row /\ Sane(task[t]) /\ Tables /\ Due(task[t]) <= spent[t]
      BY <1>11 DEF Types, Tables, Timely, Billed
    <3>2. CASE task[t].bill = None
      <4>1. Due(task[t])' = task[t].cost + 0
        BY <1>5, <3>2 DEF Due, Seconds
      <4>2. QED BY <1>9, <3>1, <3>2, <4>1, DueRow
    <3>3. CASE task[t].bill # None
      <4>1. Due(task[t])' = task[t].cost + (now' - task[t].bill + 1)
        BY <1>5, <3>3 DEF Due, Seconds
      <4>2. /\ Due(task[t]) = task[t].cost + (now - task[t].bill + 1)
            /\ task[t].cost \in Nat /\ task[t].bill \in Nat
        BY <3>1, <3>3, DueRow
      <4>3. QED BY <1>1, <1>9, <3>1, <3>3, <4>1, <4>2
    <3>4. QED BY <3>2, <3>3
  <2>2. ASSUME NEW b \in Actor, pc'[b] \in Holding, mem'[b].row.bill # None
        PROVE  /\ mem'[b].row.cost + 1 <= spent'[mem'[b].task]
               /\ task'[mem'[b].task].bill = mem'[b].row.bill =>
                    Due(mem[b].row)' <= spent'[mem'[b].task]
    <3> DEFINE g == mem[b].row
               u == mem[b].task
    <3>1. /\ pc[b] \in Holding /\ mem'[b] = mem[b] /\ u \in Task /\ g \in Row /\ Sane(g)
          /\ g.bill # None /\ Tables
      BY <1>3, <2>2, HeldBy DEF Types
    <3>2. /\ g.cost + 1 <= spent[u]
          /\ task[u].bill = g.bill => Due(g) <= spent[u]
      BY <1>11, <3>1 DEF Billed
    <3>3. Due(mem[b].row)' = g.cost + (now' - g.bill + 1)
      BY <3>1 DEF Due, Seconds
    <3>4. mem'[b].row = g /\ mem'[b].task = u /\ task'[u].bill = task[u].bill
      BY <1>5, <3>1
    <3> HIDE DEF g, u
    <3>5. g.cost \in Nat /\ g.bill \in Nat /\ Due(g) = g.cost + (now - g.bill + 1)
      BY <3>1, DueRow
    <3>6. g.cost + 1 <= spent'[u]
      BY <1>9, <3>1, <3>2, <3>5
    <3>7. ASSUME task[u].bill = g.bill PROVE g.cost + (now' - g.bill + 1) <= spent'[u]
      BY <1>1, <1>9, <3>1, <3>2, <3>5, <3>7
    <3>8. QED BY <3>3, <3>4, <3>6, <3>7
  <2>3. QED BY <2>1, <2>2 DEF Billed
<1>12. QED BY <1>3, <1>7, <1>8, <1>10, <1>11 DEF Types

-----------------------------------------------------------------------------
(* Undisturbed: one lemma for each action that is no event *)

\* A worker of task t takes a step, and changes no other task.
LEMMA OneWorks ==
  ASSUME Types, Undisturbed, now' = now, NEW w \in Worker, NEW t \in Task,
         \A b \in Actor : b # w => pc'[b] = pc[b] /\ mem'[b] = mem[b],
         \A v \in Worker : v # w => ~Works(v, t),
         \A u \in Task : Works(w, u) => u = t,
         \A u \in Task : u # t => task'[u] = task[u] /\ spent'[u] = spent[u],
         ~task'[t].cancel, Due(task'[t]) = spent'[t],
         task'[t].bill # None <=> task'[t].status = "processing",
         task'[t].status = "processing" => pc'[w] \in {"run", "end"},
         pc'[w] # "idle" =>
           /\ mem'[w].task = t
           /\ pc'[w] \in Holding => mem'[w].row = task'[t]
           /\ pc'[w] \in {"dispatch", "leased", "begin"} => task'[t].status = "queued"
           /\ pc'[w] \in {"run", "end"} => task'[t].status = "processing"
           /\ pc'[w] = "finally" => task'[t].status \in Over
  PROVE  Undisturbed'
<1>1. \A c \in Request : pc'[c] = "idle"
  BY Roles DEF Undisturbed
<1>2. /\ \A v \in Worker, u \in Task : v # w => (Works(v, u)' <=> Works(v, u))
      /\ \A u \in Task : Works(w, u)' => u = t
  BY Roles DEF Works
<1>3. \A u \in Task : Due(task[u])' = Due(task'[u])
  BY DEF Due
<1>4. ASSUME NEW u \in Task
      PROVE  /\ ~task'[u].cancel /\ Due(task'[u]) = spent'[u]
             /\ task'[u].bill # None <=> task'[u].status = "processing"
             /\ task'[u].status = "processing" => AtRun(u)' # {}
  <2>1. CASE u = t
    <3>1. pc'[w] \in {"run", "end"} => w \in AtRun(u)'
      BY <2>1 DEF AtRun
    <3>2. QED BY <2>1, <3>1
  <2>2. CASE u # t
    <3>1. ASSUME task[u].status = "processing" PROVE AtRun(u)' # {}
      <4>1. PICK v \in Worker : pc[v] \in {"run", "end"} /\ mem[v].task = u
        BY <3>1 DEF Undisturbed, AtRun
      <4>2. v # w
        BY <2>2, <4>1 DEF Works
      <4>3. v \in AtRun(u)'
        BY <4>1, <4>2, Roles DEF AtRun
      <4>4. QED BY <4>3
    <3>2. task'[u] = task[u] /\ spent'[u] = spent[u]
      BY <2>2
    <3>3. QED BY <3>1, <3>2 DEF Undisturbed
  <2>3. QED BY <2>1, <2>2
<1>5. \A u \in Task, v, x \in Worker : Works(v, u)' /\ Works(x, u)' => v = x
  BY <1>2 DEF Undisturbed
<1>6. ASSUME NEW v \in Worker, NEW u \in Task, Works(v, u)'
      PROVE  /\ pc'[v] \in Holding => mem'[v].row = task'[u]
             /\ pc'[v] \in {"dispatch", "leased", "begin"} => task'[u].status = "queued"
             /\ pc'[v] \in {"run", "end"} => task'[u].status = "processing"
             /\ pc'[v] = "finally" => task'[u].status \in Over
  <2>1. CASE v = w
    BY <1>2, <1>6, <2>1 DEF Works
  <2>2. CASE v # w
    <3>1. Works(v, u) /\ u # t /\ pc'[v] = pc[v] /\ mem'[v] = mem[v] /\ task'[u] = task[u]
      BY <1>2, <1>6, <2>2, Roles
    <3>2. QED BY <3>1 DEF Undisturbed
  <2>3. QED BY <2>1, <2>2
<1>7. QED BY <1>1, <1>3, <1>4, <1>5, <1>6 DEF Undisturbed

\* What is known of a worker's task.
LEMMA WorkerAlone ==
  ASSUME Types, Undisturbed, NEW w \in Worker, NEW t \in Task, pc[w] # "idle",
         mem[w].task = t
  PROVE  /\ \A v \in Worker : v # w => ~Works(v, t)
         /\ \A u \in Task : Works(w, u) => u = t
         /\ ~task[t].cancel /\ Due(task[t]) = spent[t]
         /\ task[t].bill # None <=> task[t].status = "processing"
         /\ pc[w] \in Holding => mem[w].row = task[t]
         /\ pc[w] \in {"dispatch", "leased", "begin"} => task[t].status = "queued"
         /\ pc[w] \in {"run", "end"} => task[t].status = "processing"
         /\ pc[w] = "finally" => task[t].status \in Over
<1>1. Works(w, t)
  BY DEF Works
<1>2. \A u \in Task : Works(w, u) => u = t
  BY DEF Works
<1>3. QED BY <1>1, <1>2 DEF Undisturbed

LEMMA DispatchLoadAlone ==
  ASSUME Types, Undisturbed, NEW w \in Worker, NEW t \in Task, DispatchLoad(w, t), events' = 0
  PROVE  Undisturbed'
<1>1. /\ w \in Actor /\ "dispatch" \in Holding /\ Does(w, "dispatch")
      /\ "dispatch" \notin {"leased", "begin", "run", "end", "finally", "idle"}
  BY Roles DEF Holding, Does, WorkerSteps
<1>2. ~\E v \in Worker : pc[v] # "idle" /\ mem[v].task = t
  BY DEF DispatchLoad, Event, Types, Tables
<1>3. /\ \A b \in Actor : /\ pc'[b] = IF b = w THEN "dispatch" ELSE pc[b]
                          /\ b # w => mem'[b] = mem[b]
      /\ mem'[w].task = t /\ mem'[w].row = task[t]
  BY <1>1, LoadsSessions DEF DispatchLoad, Types
<1>4. now' = now /\ task' = task /\ spent' = spent /\ pc[w] = "idle" /\ task[t].status = "queued"
  BY DEF DispatchLoad, rows, ghosts
<1>5. \A v \in Worker, u \in Task : Works(v, u) => v # w /\ u # t
  BY <1>2, <1>4 DEF Works
<1>6. ~task[t].cancel /\ Due(task[t]) = spent[t] /\ task[t].bill = None
  BY <1>4 DEF Undisturbed
<1>7. QED BY <1>1, <1>3, <1>4, <1>5, <1>6, OneWorks

LEMMA DispatchCommitAlone ==
  ASSUME Types, Undisturbed, NEW w \in Worker, DispatchCommit(w)
  PROVE  Undisturbed'
<1> DEFINE t == mem[w].task
           f == task[t]
<1>1. w \in Actor /\ t \in Task /\ pc[w] = "dispatch" /\ "dispatch" \in Holding
  BY Roles, WorkerTask DEF DispatchCommit, Holding
<1>2. /\ \A v \in Worker : v # w => ~Works(v, t)
      /\ \A u \in Task : Works(w, u) => u = t
      /\ ~f.cancel /\ Due(f) = spent[t] /\ f.status = "queued" /\ f.bill = None
      /\ mem[w].row = f /\ f \in Row
  BY <1>1, WorkerAlone DEF Types, Tables
<1>3. now' = now /\ spent' = spent
  BY DEF DispatchCommit
<1>4. CASE UsedUp(mem[w].user)
  <2>p. PICK q \in Over : Writes(w, [f EXCEPT !.status = q])
    BY <1>2, <1>4 DEF DispatchCommit
  <2> DEFINE to == [f EXCEPT !.status = q]
  <2>1. Writes(w, to) /\ Ends(w)
    BY <1>4, <2>p DEF DispatchCommit
  <2>2. /\ to \in Row /\ to.bill = f.bill /\ to.cost = f.cost /\ to.cancel = f.cancel
        /\ to.status = q
    BY <1>2 DEF Row
  <2> HIDE DEF to
  <2>3. task' = [task EXCEPT ![t] = Flush(f, f, to)]
    BY <1>1, <1>2, <2>1, <2>2, WritesRow
  <2> DEFINE r == Flush(f, f, to)
  <2>4. r.status = q /\ r.status \in Over /\ ~r.cancel /\ r.bill = None /\ r.cost = f.cost
    BY <1>2, <2>2, FlushRow
  <2>5. Due(r) = Due(f)
    BY <1>2, <2>4 DEF Due, Seconds
  <2>6. \A b \in Actor : /\ pc'[b] = IF b = w THEN "idle" ELSE pc[b]
                         /\ b # w => mem'[b] = mem[b]
    BY <1>1, <2>1, EndsSessions DEF Types
  <2>7. task'[t] = r /\ \A u \in Task : u # t => task'[u] = task[u]
    BY <1>1, <2>3 DEF Types, Tables
  <2> HIDE DEF t, f, r
  <2>8. QED BY <1>1, <1>2, <1>3, <2>4, <2>5, <2>6, <2>7, OneWorks DEF Over
<1>5. CASE ~UsedUp(mem[w].user)
  <2>1. Closes(w, "leased") /\ task' = task
    BY <1>5 DEF DispatchCommit
  <2>2. /\ \A b \in Actor : /\ pc'[b] = IF b = w THEN "leased" ELSE pc[b]
                            /\ b # w => mem'[b] = mem[b]
        /\ mem'[w].task = t
    BY <1>1, <2>1, ClosesSessions DEF Types, Going
  <2>3. "leased" \notin Holding
    BY DEF Holding
  <2> HIDE DEF t
  <2>4. QED BY <1>1, <1>2, <1>3, <2>1, <2>2, <2>3, OneWorks
<1>6. QED BY <1>4, <1>5

LEMMA RunLoadAlone ==
  ASSUME Types, Undisturbed, NEW w \in Worker, RunLoad(w)
  PROVE  Undisturbed'
<1> DEFINE t == mem[w].task
<1>1. w \in Actor /\ t \in Task /\ pc[w] = "leased" /\ Does(w, "begin") /\ "begin" \in Holding
  BY Roles, WorkerTask DEF RunLoad, Does, WorkerSteps, Holding
<1>2. /\ \A v \in Worker : v # w => ~Works(v, t)
      /\ \A u \in Task : Works(w, u) => u = t
      /\ ~task[t].cancel /\ Due(task[t]) = spent[t]
      /\ task[t].status = "queued" /\ task[t].bill = None
  BY <1>1, WorkerAlone
<1>3. Loads(w, "begin", t) /\ now' = now /\ task' = task /\ spent' = spent
  BY <1>2 DEF RunLoad, rows, ghosts
<1>4. /\ \A b \in Actor : /\ pc'[b] = IF b = w THEN "begin" ELSE pc[b]
                          /\ b # w => mem'[b] = mem[b]
      /\ mem'[w].task = t /\ mem'[w].row = task[t]
  BY <1>1, <1>3, LoadsSessions DEF Types
<1> HIDE DEF t
<1>5. QED BY <1>1, <1>2, <1>3, <1>4, OneWorks

LEMMA RunLeavesAlone ==
  ASSUME Types, Undisturbed, NEW w \in Worker, RunLeaves(w) \/ LeaveCommit(w)
  PROVE  FALSE
<1>1. pc[w] \in {"leased", "begin"} /\ mem[w].task \in Task
  BY WorkerTask DEF RunLeaves, LeaveCommit
<1>2. /\ ~task[mem[w].task].cancel /\ task[mem[w].task].status = "queued"
      /\ pc[w] = "begin" => mem[w].row = task[mem[w].task]
  BY <1>1, WorkerAlone DEF Holding
<1>3. QED BY <1>2 DEF RunLeaves, LeaveCommit, Over

LEMMA BeginCommitAlone ==
  ASSUME Types, Undisturbed, NEW w \in Worker, BeginCommit(w)
  PROVE  Undisturbed'
<1> DEFINE t == mem[w].task
           f == task[t]
           to == [f EXCEPT !.status = "processing", !.bill = now, !.beat = now]
           r == Flush(f, f, to)
<1>1. /\ w \in Actor /\ t \in Task /\ pc[w] = "begin" /\ "begin" \in Holding
      /\ now \in Time /\ now \in Nat /\ now # None
  BY Roles, WorkerTask, UsageAssumption DEF BeginCommit, Holding, Types, Tables, Time
<1>2. /\ \A v \in Worker : v # w => ~Works(v, t)
      /\ \A u \in Task : Works(w, u) => u = t
      /\ ~f.cancel /\ Due(f) = spent[t] /\ f.status = "queued" /\ f.bill = None
      /\ mem[w].row = f /\ f \in Row /\ Sane(f) /\ Tables /\ spent[t] \in Nat
  BY <1>1, WorkerAlone DEF Types, Tables, Timely, Ghosts
<1>3. Writes(w, to) /\ now' = now /\ spent' = [spent EXCEPT ![t] = @ + 1] /\ Closes(w, "run")
  BY <1>2 DEF BeginCommit
<1>4. /\ to \in Row /\ to.bill = now /\ to.cost = f.cost /\ to.cancel = f.cancel
      /\ to.status = "processing"
  BY <1>1, <1>2 DEF Row
<1> HIDE DEF to
<1>5. task' = [task EXCEPT ![t] = r]
  BY <1>1, <1>2, <1>3, <1>4, WritesRow
<1>6. r.status = "processing" /\ ~r.cancel /\ r.bill = now /\ r.cost = f.cost
  BY <1>1, <1>2, <1>4, FlushRow
<1>7. Due(r) = spent[t] + 1
  <2>1. Due(r) = f.cost + (now - now + 1)
    BY <1>1, <1>6 DEF Due, Seconds
  <2>2. Due(f) = f.cost /\ f.cost \in Nat
    BY <1>2, DueRow
  <2>3. QED BY <1>1, <1>2, <2>1, <2>2
<1>8. /\ \A b \in Actor : /\ pc'[b] = IF b = w THEN "run" ELSE pc[b]
                          /\ b # w => mem'[b] = mem[b]
      /\ mem'[w].task = t
  BY <1>1, <1>3, ClosesSessions DEF Types, Going
<1>9. /\ task'[t] = r /\ \A u \in Task : u # t => task'[u] = task[u]
      /\ spent'[t] = spent[t] + 1 /\ \A u \in Task : u # t => spent'[u] = spent[u]
  BY <1>1, <1>3, <1>5 DEF Types, Tables, Ghosts
<1>10. "run" \notin Holding
  BY DEF Holding
<1> HIDE DEF t, f, r
<1>11. QED BY <1>1, <1>2, <1>3, <1>6, <1>7, <1>8, <1>9, <1>10, OneWorks

LEMMA EndLoadAlone ==
  ASSUME Types, Undisturbed, NEW w \in Worker, EndLoad(w)
  PROVE  Undisturbed'
<1> DEFINE t == mem[w].task
<1>1. w \in Actor /\ t \in Task /\ pc[w] = "run" /\ Does(w, "end") /\ "end" \in Holding
  BY Roles, WorkerTask DEF EndLoad, Does, WorkerSteps, Holding
<1>2. /\ \A v \in Worker : v # w => ~Works(v, t)
      /\ \A u \in Task : Works(w, u) => u = t
      /\ ~task[t].cancel /\ Due(task[t]) = spent[t]
      /\ task[t].status = "processing" /\ task[t].bill # None
  BY <1>1, WorkerAlone
<1>3. Loads(w, "end", t) /\ now' = now /\ task' = task /\ spent' = spent
  BY DEF EndLoad, rows, ghosts
<1>4. /\ \A b \in Actor : /\ pc'[b] = IF b = w THEN "end" ELSE pc[b]
                          /\ b # w => mem'[b] = mem[b]
      /\ mem'[w].task = t /\ mem'[w].row = task[t]
  BY <1>1, <1>3, LoadsSessions DEF Types
<1> HIDE DEF t
<1>5. QED BY <1>1, <1>2, <1>3, <1>4, OneWorks

LEMMA EndCommitAlone ==
  ASSUME Types, Undisturbed, NEW w \in Worker, EndCommit(w)
  PROVE  Undisturbed'
<1>p. PICK q \in Over : WritesSettled(w, [mem[w].row EXCEPT !.status = q])
  BY DEF EndCommit
<1> DEFINE t == mem[w].task
           f == task[t]
           to == [f EXCEPT !.status = q]
           s == Settled(to, now)
           r == Flush(f, f, s)
<1>1. w \in Actor /\ t \in Task /\ pc[w] = "end" /\ "end" \in Holding
  BY Roles, WorkerTask DEF EndCommit, Holding
<1>2. /\ \A v \in Worker : v # w => ~Works(v, t)
      /\ \A u \in Task : Works(w, u) => u = t
      /\ ~f.cancel /\ Due(f) = spent[t] /\ f.status = "processing" /\ f.bill # None
      /\ mem[w].row = f /\ f \in Row /\ Sane(f) /\ Tables /\ now \in Time
  BY <1>1, WorkerAlone DEF Types, Tables, Timely
<1>3. Writes(w, s) /\ now' = now /\ spent' = spent /\ Closes(w, "finally")
  BY <1>2, <1>p DEF EndCommit, WritesSettled
<1>4. /\ to \in Row /\ to.bill = f.bill /\ to.cost = f.cost /\ to.cancel = f.cancel
      /\ to.status = q
  BY <1>2 DEF Row
<1> HIDE DEF to
<1>5. f.bill <= now /\ f.cost + 1 <= Due(f) /\ f.cost \in Nat /\ Due(f) \in Nat
  BY <1>2, DueRow
<1>6. /\ s \in Row /\ s.bill = None /\ s.cost = Due(f) /\ s.status = q /\ ~s.cancel
  <2>1. Seconds(to, now) = Seconds(f, now)
    BY <1>4 DEF Seconds
  <2>2. s.cost = f.cost + Seconds(f, now)
    BY <1>2, <1>4, <1>5, <2>1, SettledRow
  <2>3. QED BY <1>2, <1>4, <1>5, <2>2, SettledRow DEF Due
<1> HIDE DEF s
<1>7. task' = [task EXCEPT ![t] = r]
  BY <1>1, <1>2, <1>3, <1>6, WritesRow
<1>8. r.status = q /\ r.status \in Over /\ ~r.cancel /\ r.bill = None /\ r.cost = Due(f)
  BY <1>2, <1>5, <1>6, FlushRow
<1>9. Due(r) = spent[t]
  <2>1. Due(r) = r.cost + 0
    BY <1>8 DEF Due, Seconds
  <2>2. QED BY <1>2, <1>5, <1>8, <2>1
<1>10. /\ \A b \in Actor : /\ pc'[b] = IF b = w THEN "finally" ELSE pc[b]
                           /\ b # w => mem'[b] = mem[b]
       /\ mem'[w].task = t
  BY <1>1, <1>3, ClosesSessions DEF Types, Going
<1>11. task'[t] = r /\ \A u \in Task : u # t => task'[u] = task[u]
  BY <1>1, <1>7 DEF Types, Tables
<1>12. "finally" \notin Holding
  BY DEF Holding
<1> HIDE DEF t, f, r
<1>13. QED BY <1>1, <1>2, <1>3, <1>8, <1>9, <1>10, <1>11, <1>12, OneWorks DEF Over

LEMMA FinallyAlone ==
  ASSUME Types, Undisturbed, NEW w \in Worker, Finally(w)
  PROVE  Undisturbed'
<1> DEFINE t == mem[w].task
<1>1. w \in Actor /\ t \in Task /\ pc[w] = "finally"
  BY Roles, WorkerTask DEF Finally
<1>2. /\ \A v \in Worker : v # w => ~Works(v, t)
      /\ \A u \in Task : Works(w, u) => u = t
      /\ ~task[t].cancel /\ Due(task[t]) = spent[t]
      /\ task[t].status \in Over /\ task[t].bill = None
  BY <1>1, WorkerAlone DEF Over
<1>3. Ends(w) /\ now' = now /\ task' = task /\ spent' = spent
  BY <1>2 DEF Finally, rows, ghosts
<1>4. \A b \in Actor : /\ pc'[b] = IF b = w THEN "idle" ELSE pc[b]
                       /\ b # w => mem'[b] = mem[b]
  BY <1>1, <1>3, EndsSessions DEF Types
<1> HIDE DEF t
<1>5. QED BY <1>1, <1>2, <1>3, <1>4, OneWorks DEF Over

\* No worker is at another step, and no task is touched.
LEMMA OthersAlone ==
  ASSUME Types, Undisturbed, UNCHANGED <<now, task, spent>>,
         \A b \in Actor : b # Beat => pc'[b] = pc[b] /\ mem'[b] = mem[b]
  PROVE  Undisturbed'
<1>1. \A w \in Worker : pc'[w] = pc[w] /\ mem'[w] = mem[w]
  BY Roles
<1>2. \A c \in Request : pc'[c] = pc[c]
  BY Roles
<1>3. \A t \in Task : AtRun(t)' = AtRun(t)
  BY <1>1 DEF AtRun
<1>4. \A t \in Task : Due(task[t])' = Due(task[t])
  BY DEF Due
<1>5. \A w \in Worker, t \in Task : Works(w, t)' <=> Works(w, t)
  BY <1>1 DEF Works
<1>6. QED BY <1>1, <1>2, <1>3, <1>4, <1>5 DEF Undisturbed

LEMMA BeatAlone ==
  ASSUME Types, Undisturbed, BeatLoad \/ BeatCommit
  PROVE  Undisturbed'
<1>1. UNCHANGED <<now, task, spent>>
  BY DEF BeatLoad, BeatCommit, rows, ghosts
<1>2. \A b \in Actor : b # Beat => pc'[b] = pc[b] /\ mem'[b] = mem[b]
  BY DEF BeatLoad, BeatCommit, Ends, Goes, Types, Sessions
<1>3. QED BY <1>1, <1>2, OthersAlone

\* A task that is billed has one worker at its run; the others have none.
LEMMA OpenAlone ==
  ASSUME Types, Undisturbed, NEW t \in Task
  PROVE  Open(t) = IF task[t].bill = None THEN 0 ELSE 1
<1>1. \A v \in AtRun(t) : v \in Worker /\ Works(v, t) /\ pc[v] \in {"run", "end"}
  BY DEF AtRun, Works
<1>2. CASE task[t].bill # None
  <2>1. PICK w \in AtRun(t) : TRUE
    BY <1>2 DEF Undisturbed
  <2>2. AtRun(t) = {w}
    BY <1>1, <2>1 DEF Undisturbed
  <2>3. Cardinality(AtRun(t)) = 1
    BY <2>2, FS_Singleton
  <2>4. QED BY <1>2, <2>1, <2>3 DEF Open
<1>3. CASE task[t].bill = None
  <2>1. AtRun(t) = {}
    BY <1>1, <1>3 DEF Undisturbed
  <2>2. Cardinality(AtRun(t)) = 0
    BY <2>1, FS_EmptySet
  <2>3. QED BY <1>3, <2>2 DEF Open
<1>4. QED BY <1>2, <1>3

LEMMA TickAlone ==
  ASSUME Types, Undisturbed, Tick
  PROVE  Undisturbed'
<1>1. now \in Nat /\ now' = now + 1 /\ pc' = pc /\ mem' = mem
  BY UsageAssumption DEF Tick, Types, Tables, Time, work
<1>2. ASSUME NEW t \in Task
      PROVE  /\ task'[t].status = task[t].status /\ task'[t].cancel = task[t].cancel
             /\ task'[t].bill = task[t].bill /\ task'[t].cost = task[t].cost
             /\ ~Beats(t) => task'[t] = task[t]
             /\ spent'[t] = spent[t] + Open(t)
  <2>1. task[t] \in Row /\ task'[t] = IF Beats(t) THEN [task[t] EXCEPT !.beat = now'] ELSE task[t]
    BY DEF Tick, Types, Tables
  <2>2. spent'[t] = spent[t] + Open(t)
    BY DEF Tick
  <2>3. QED BY <2>1, <2>2 DEF Row
<1>3. /\ \A t \in Task : AtRun(t)' = AtRun(t)
      /\ \A w \in Worker, t \in Task : Works(w, t)' <=> Works(w, t)
  BY <1>1 DEF AtRun, Works
<1>4. \A c \in Request : pc'[c] = "idle"
  BY <1>1 DEF Undisturbed
<1>5. ASSUME NEW t \in Task PROVE (Due(task[t]) = spent[t])'
  <2>1. task[t] \in Row /\ Sane(task[t]) /\ Tables /\ Due(task[t]) = spent[t]
    BY DEF Types, Tables, Timely, Undisturbed
  <2>2. CASE task[t].bill = None
    <3>1. Due(task[t])' = task[t].cost + 0
      BY <1>2, <2>2 DEF Due, Seconds
    <3>2. QED BY <1>2, <2>1, <2>2, <3>1, OpenAlone, DueRow
  <2>3. CASE task[t].bill # None
    <3>1. Due(task[t])' = task[t].cost + (now' - task[t].bill + 1)
      BY <1>2, <2>3 DEF Due, Seconds
    <3>2. /\ Due(task[t]) = task[t].cost + (now - task[t].bill + 1)
          /\ task[t].cost \in Nat /\ task[t].bill \in Nat
      BY <2>1, <2>3, DueRow
    <3>3. spent'[t] = spent[t] + 1
      BY <1>2, <2>3, OpenAlone
    <3>4. task[t].cost + (now' - task[t].bill + 1) = task[t].cost + (now - task[t].bill + 1) + 1
      BY <1>1, <3>2
    <3>5. QED BY <2>1, <3>1, <3>2, <3>3, <3>4
  <2>4. QED BY <2>2, <2>3
<1>6. \A t \in Task : /\ ~task'[t].cancel
                      /\ task'[t].bill # None <=> task'[t].status = "processing"
                      /\ task'[t].status = "processing" => AtRun(t)' # {}
  BY <1>2, <1>3 DEF Undisturbed
<1>7. \A t \in Task, v, w \in Worker : Works(v, t)' /\ Works(w, t)' => v = w
  BY <1>3 DEF Undisturbed
<1>8. ASSUME NEW w \in Worker, NEW t \in Task, Works(w, t)
      PROVE  /\ pc[w] \in Holding => mem[w].row = task'[t]
             /\ pc[w] \in {"dispatch", "leased", "begin"} => task'[t].status = "queued"
             /\ pc[w] \in {"run", "end"} => task'[t].status = "processing"
             /\ pc[w] = "finally" => task'[t].status \in Over
  <2>1. ASSUME pc[w] \in Holding PROVE ~Beats(t)
    <3>1. pc[w] # "run"
      BY <2>1 DEF Holding
    <3>2. \A v \in Worker : pc[v] = "run" /\ mem[v].task = t => Works(v, t)
      BY DEF Works
    <3>3. QED BY <1>8, <3>1, <3>2 DEF Beats, Undisturbed
  <2>2. pc[w] \in Holding => mem[w].row = task'[t]
    BY <1>2, <1>8, <2>1 DEF Undisturbed
  <2>3. QED BY <1>2, <1>8, <2>2 DEF Undisturbed
<1>9. QED BY <1>1, <1>3, <1>4, <1>5, <1>6, <1>7, <1>8 DEF Undisturbed

-----------------------------------------------------------------------------
(* Types and costs: theorems *)

LEMMA InitInv == Init => IInv
<1> SUFFICES ASSUME Init PROVE IInv
  OBVIOUS
<1>1. /\ now = 0 /\ events = 0 /\ crashes = 0 /\ raced = FALSE /\ refused = FALSE
      /\ user = [used |-> 0, date |-> 0] /\ task = [t \in Task |-> Queued]
      /\ real = [t \in Task |-> 0] /\ spent = [t \in Task |-> 0]
  BY DEF Init
<1>2. \A a \in Actor : pc[a] = "idle" /\ mem[a] = None
  BY DEF Init
<1>3. Queued \in Row /\ Queued.bill = None /\ Queued.cost = 0 /\ Queued.status = "queued"
      /\ Queued.beat = 0 /\ ~Queued.cancel
  BY UsageAssumption DEF Queued, Row, Time
<1>4. Tables
  <2>1. 0 \in Time /\ DayOf(MaxTime) \in Nat
    BY Days, UsageAssumption DEF Time, DayOf
  <2>2. QED BY <1>1, <1>3, <2>1, UsageAssumption DEF Tables, User
<1>5. Sessions
  <2>1. "idle" \in Steps /\ None \in Memory
    BY DEF Steps, WorkerSteps, Memory
  <2>2. \A a \in Actor : Does(a, "idle") /\ Fits("idle", None)
    BY DEF Does, WorkerSteps, RequestSteps, Fits, Holding, Going
  <2>3. pc \in [Actor -> Steps] /\ mem \in [Actor -> Memory]
    BY <2>1 DEF Init
  <2>4. QED BY <1>2, <2>2, <2>3 DEF Sessions
<1>6. Timely
  BY <1>1, <1>2, <1>3 DEF Timely, Sane, Holding
<1>7. Ghosts
  <2>1. real \in [Task -> Nat] /\ spent \in [Task -> Nat]
    BY <1>1
  <2>2. raced \in BOOLEAN /\ refused \in BOOLEAN
    BY <1>1, Zenon
  <2>3. QED BY <2>1, <2>2 DEF Ghosts
<1>8. \A t \in Task : Due(task[t]) = 0 /\ spent[t] = 0
  BY <1>1, <1>3 DEF Due, Seconds
<1>9. Billed
  BY <1>2, <1>8 DEF Billed, Holding
<1>10. Undisturbed
  <2>1. \A w \in Worker, t \in Task : ~Works(w, t)
    BY <1>2, Roles DEF Works
  <2>2. \A c \in Request : pc[c] = "idle"
    BY <1>2, Roles
  <2>3. QED BY <1>1, <1>3, <1>8, <2>1, <2>2 DEF Undisturbed
<1>11. QED BY <1>4, <1>5, <1>6, <1>7, <1>9, <1>10 DEF IInv, Types, Alone

\* Each step keeps types and costs.
LEMMA NextTypes ==
  ASSUME Types, Next
  PROVE  Types' /\ (Billed => Billed')
<1>1. CASE Tick \/ BeatLoad \/ AdminReset
  BY <1>1, TickTypes, BeatLoadTypes, AdminResetTypes
<1>2. CASE \E a \in Actor : Commit(a)
  <2>1. PICK a \in Actor : Commit(a)
    BY <1>2
  <2>2. CASE a \in Worker
    <3>1. \/ DispatchCommit(a) \/ RunLoad(a) \/ RunLeaves(a) \/ LeaveCommit(a)
          \/ BeginCommit(a) \/ EndLoad(a) \/ EndCommit(a) \/ Finally(a)
      BY <2>1, <2>2, Roles DEF Commit
    <3>2. QED BY <2>2, <3>1, DispatchCommitTypes, RunLoadTypes, RunLeavesTypes,
               LeaveCommitTypes, BeginCommitTypes, EndLoadTypes, EndCommitTypes, FinallyTypes
  <2>3. CASE a \in Request
    <3>1. StartCommit(a) \/ CancelCommit(a) \/ UsageCommit(a)
      BY <2>1, <2>3, Roles DEF Commit
    <3>2. QED BY <2>3, <3>1, StartCommitTypes, CancelCommitTypes, UsageCommitTypes
  <2>4. CASE a = Beat
    <3>1. BeatCommit
      BY <2>1, <2>4, Roles DEF Commit
    <3>2. QED BY <3>1, BeatCommitTypes
  <2>5. QED BY <2>1, <2>2, <2>3, <2>4 DEF Commit
<1>3. CASE \E w \in Worker : Crash(w) \/ \E t \in Task : DispatchLoad(w, t)
  BY <1>3, CrashTypes, DispatchLoadTypes
<1>4. CASE \E t \in Task, next \in {"queued"} \cup Over : Recover(t, next)
  BY <1>4, RecoverTypes
<1>5. CASE \E c \in Request : UsageLoad(c) \/ \E t \in Task : StartLoad(c, t) \/ CancelLoad(c, t)
  BY <1>5, UsageLoadTypes, StartLoadTypes, CancelLoadTypes
<1>6. QED BY <1>1, <1>2, <1>3, <1>4, <1>5 DEF Next

\* Each step that is no event leaves the tasks undisturbed.
LEMMA NextAlone ==
  ASSUME Types, Alone, Next
  PROVE  Alone'
<1> SUFFICES ASSUME events' = 0 PROVE Undisturbed'
  BY DEF Alone
<1>1. ~Event
  BY DEF Types, Tables, Event
<1>2. events = 0
  <2>1. events' = events \/ Event
    BY DEF Next, Tick, BeatLoad, AdminReset, Commit, DispatchCommit, RunLoad, RunLeaves,
           LeaveCommit, BeginCommit, EndLoad,
           EndCommit, Finally, StartCommit, CancelCommit, UsageCommit, BeatCommit, Crash,
           DispatchLoad, Recover, UsageLoad, StartLoad, CancelLoad, counts
  <2>2. QED BY <1>1, <2>1
<1>3. Undisturbed
  BY <1>2 DEF Alone
<1>4. CASE Tick \/ BeatLoad
  BY <1>3, <1>4, TickAlone, BeatAlone
<1>5. CASE \E a \in Actor : Commit(a)
  <2>1. PICK a \in Actor : Commit(a)
    BY <1>5
  <2>2. CASE a \in Worker
    <3>1. \/ DispatchCommit(a) \/ RunLoad(a) \/ RunLeaves(a) \/ LeaveCommit(a)
          \/ BeginCommit(a) \/ EndLoad(a) \/ EndCommit(a) \/ Finally(a)
      BY <2>1, <2>2, Roles DEF Commit
    <3>2. QED BY <1>3, <2>2, <3>1, DispatchCommitAlone, RunLoadAlone, RunLeavesAlone, BeginCommitAlone,
               EndLoadAlone, EndCommitAlone, FinallyAlone
  <2>3. CASE a \in Request
    <3>1. pc[a] = "idle" /\ (StartCommit(a) \/ CancelCommit(a) \/ UsageCommit(a))
      BY <1>3, <2>1, <2>3, Roles DEF Commit, Undisturbed
    <3>2. QED BY <3>1 DEF StartCommit, CancelCommit, UsageCommit
  <2>4. CASE a = Beat
    <3>1. BeatCommit
      BY <2>1, <2>4, Roles DEF Commit
    <3>2. QED BY <1>3, <3>1, BeatAlone
  <2>5. QED BY <2>1, <2>2, <2>3, <2>4 DEF Commit
<1>6. CASE \E w \in Worker, t \in Task : DispatchLoad(w, t)
  BY <1>3, <1>6, DispatchLoadAlone
<1>7. CASE \E t \in Task, next \in {"queued"} \cup Over : Recover(t, next)
  BY <1>3, <1>7 DEF Recover, Undisturbed
<1>8. ASSUME \/ AdminReset \/ \E w \in Worker : Crash(w)
             \/ \E c \in Request : UsageLoad(c) \/ \E t \in Task : StartLoad(c, t) \/ CancelLoad(c, t)
      PROVE FALSE
  BY <1>1, <1>8 DEF AdminReset, Crash, UsageLoad, StartLoad, CancelLoad
<1>9. QED BY <1>4, <1>5, <1>6, <1>7, <1>8 DEF Next

LEMMA StepInv == IInv /\ [Next]_vars => IInv'
<1> SUFFICES ASSUME IInv, [Next]_vars PROVE IInv'
  OBVIOUS
<1>1. CASE Next
  BY <1>1, NextTypes, NextAlone DEF IInv
<1>2. CASE UNCHANGED vars
  <2>1. UNCHANGED <<now, user, task, pc, mem, events, crashes, real, spent, raced, refused>>
    BY <1>2 DEF vars, rows, work, counts, ghosts
  <2>2. Types' /\ Billed'
    <3>1. Timely' /\ Billed'
      BY <2>1, InertKeeps DEF IInv, Inert
    <3>2. Tables' /\ Sessions' /\ Ghosts'
      BY <2>1 DEF IInv, Types, Tables, Sessions, Ghosts
    <3>3. QED BY <3>1, <3>2 DEF Types
  <2>3. Alone'
    BY <2>1, OthersAlone DEF IInv, Alone
  <2>4. QED BY <2>2, <2>3 DEF IInv
<1>3. QED BY <1>1, <1>2

THEOREM Inductive == Spec => []IInv
BY InitInv, StepInv, PTL DEF Spec

\* The types of TypeOK, whoever settles, resets, dies or is late: in particular no run has a
\* negative length, so no settlement takes seconds off a task or a user (settle_gpu_usage).
THEOREM TypeCorrect == Spec => []TypeOK
<1>1. IInv => TypeOK
  <2> SUFFICES ASSUME Types PROVE TypeOK
    BY DEF IInv
  <2>1. \A a \in Actor : pc[a] \in {"dispatch", "begin", "end", "start", "cancel"} =>
          mem[a] \in [task: Task, row: Row, user: User]
    BY DEF Types, Sessions, Fits, Holding, Held
  <2>2. pc \in [Actor -> {"idle", "dispatch", "leased", "begin", "run", "end", "finally",
                          "start", "cancel", "usage", "reset"}]
    BY DEF Types, Sessions, Steps, WorkerSteps, RequestSteps, Going
  <2>3. {events, crashes} \subseteq 0..MaxEvents
    BY UsageAssumption DEF Types, Tables
  <2>4. QED BY <2>1, <2>2, <2>3 DEF Types, Tables, Ghosts, TypeOK
<1>2. QED BY <1>1, Inductive, PTL

\* CostExact: a task that nobody is at work on costs no more than its runs took, and exactly
\* that if nothing interfered, however often and by whomever it was settled.
THEOREM CostCorrect == Spec => []CostExact
<1>1. IInv => CostExact
  <2> SUFFICES ASSUME IInv, NEW t \in Task, ~raced, task[t].bill = None
               PROVE  /\ task[t].cost <= spent[t]
                      /\ events = 0 => task[t].cost = spent[t]
    BY DEF CostExact
  <2>1. Due(task[t]) = task[t].cost
    BY DueRow DEF IInv, Types, Tables, Timely
  <2>2. QED BY <2>1 DEF IInv, Billed, Alone, Undisturbed
<1>2. QED BY <1>1, Inductive, PTL

-----------------------------------------------------------------------------
(* What the user is charged for *)

Today == DayOf(now)

\* The seconds of today that a task's runs took, without those of the run that is billed now:
\* its user has paid for no others, or will have none of them to pay.
Paid == [t \in Task |-> real[t] - SecondsOfDay(task[t], now)]

SumOf(f, S) == LET Of(t) == f[t] IN MapThenSumSet(Of, S)

Total == SumOf(Paid, Task)

\* No task is billed for more of today than its runs took of it.
Reserved == \A t \in Task : SecondsOfDay(task[t], now) <= real[t]

\* A user's row charges for no more than runs that are settled took.
Owes(u) == Reset(u).used <= Total

\* That is so of the row, and of what sessions have of it that will add their charge to it.
Owed == ~raced => Owes(user) /\ \A a \in Actor : pc[a] \in Holding => Owes(mem[a].user)

\* The steps of sessions that do nothing to the user but reset it.
Checking == {"dispatch", "usage", "reset"}

\* The steps of sessions that have loaded the user.
Knows == Holding \cup Checking

\* Nobody has a user of a later day than the row's, nor is that one of tomorrow.
Dated ==
  /\ user.date <= Today
  /\ \A a \in Actor : pc[a] \in Knows => mem[a].user.date <= user.date

\* Who only resets the user has the row as it is, or the row has been reset.
Fresh ==
  \A a \in Actor :
    /\ pc[a] \in Checking => user.date = Today \/ user = mem[a].user
    /\ pc[a] = "reset" => mem[a].to = Reset(mem[a].user)

\* Worker w runs what is billed of task t.
Attends(w, t) == w \in AtRun(t) /\ (pc[w] = "end" => mem[w].row.bill = task[t].bill)

\* A run is attended, or has had a heartbeat today: the recovery, which settles it up to then,
\* charges today's user for seconds of today.
Attended ==
  ~raced => \A t \in Task : task[t].status = "processing" /\ task[t].bill # None =>
    DayOf(task[t].beat) = Today \/ \E w \in Worker : Attends(w, t)

\* The inductive form of NotOvercharged and NotRefused.
Fair == Reserved /\ Dated /\ Fresh /\ Owed /\ Attended /\ ~refused

-----------------------------------------------------------------------------
(* Sums over finite sets *)

\* Induction over the subsets of a finite set.
LEMMA SubsetInduction ==
  ASSUME NEW S, IsFiniteSet(S), NEW F,
         \A T \in SUBSET S : (\A U \in SUBSET T : U # T => U \in F) => T \in F
  PROVE  SUBSET S \subseteq F
<1> SUFFICES ASSUME NEW V \in SUBSET S, V \notin F PROVE FALSE
  OBVIOUS
<1> DEFINE G == {T \in SUBSET S : T \notin F}
           R == StrictSubsetOrdering(S)
<1>1. IsWellFoundedOn(R, SUBSET S)
  <2>1. FiniteSubsetsOf(S) = SUBSET S
    BY FS_FiniteSubsetsOfFinite
  <2>2. IsWellFoundedOn(R, FiniteSubsetsOf(S))
    BY FS_StrictSubsetOrderingWellFounded
  <2> HIDE DEF R
  <2>3. QED BY <2>1, <2>2
<1>2. V \in G /\ G \subseteq SUBSET S
  OBVIOUS
<1> HIDE DEF R, G
<1>3. PICK T \in G : \A U \in G : ~ (<<U, T>> \in R)
  BY <1>1, <1>2, WFMin
<1>4. T \in SUBSET S /\ T \notin F
  BY <1>3 DEF G
<1>5. ASSUME NEW U \in SUBSET T, U # T PROVE U \in F
  <2>1. <<U, T>> \in R
    BY <1>4, <1>5 DEF R, StrictSubsetOrdering
  <2>2. QED BY <1>3, <1>4, <2>1 DEF G
<1>6. QED BY <1>4, <1>5

\* ... element by element.
LEMMA SetInduction ==
  ASSUME NEW S, IsFiniteSet(S), NEW F, {} \in F,
         \A T \in SUBSET S : T \in F => \A x \in S \ T : T \cup {x} \in F
  PROVE  S \in F
<1>1. ASSUME NEW T \in SUBSET S, \A U \in SUBSET T : U # T => U \in F
      PROVE  T \in F
  <2>1. CASE T # {}
    <3>1. PICK x \in T : TRUE
      BY <2>1
    <3>2. T \ {x} \in F /\ (T \ {x}) \cup {x} = T /\ x \in S \ (T \ {x}) /\ T \ {x} \in SUBSET S
      BY <1>1, <3>1
    <3>3. QED BY <3>2
  <2>2. QED BY <2>1
<1>2. SUBSET S \subseteq F
  BY <1>1, SubsetInduction
<1>3. QED BY <1>2

\* The element that a fold over s takes first, ...
One(s) == CHOOSE x \in s : TRUE

\* ... and the sum of f over s, given those over smaller sets.
Rec(f, g, s) == IF s = {} THEN 0 ELSE f[One(s)] + g[s \ {One(s)}]

\* g has the sums of f over the subsets of S.
Sums(g, f, S) == g \in [SUBSET S -> Nat] /\ \A s \in SUBSET S : g[s] = Rec(f, g, s)

\* There are such sums, ...
LEMMA SumExists ==
  ASSUME NEW S, IsFiniteSet(S), NEW f \in [S -> Nat]
  PROVE  \E g : Sums(g, f, S)
<1> DEFINE Upto(g, T) == \A s \in SUBSET S : Cardinality(s) <= Cardinality(T) => g[s] = Rec(f, g, s)
           F == {T \in SUBSET S : \E g \in [SUBSET S -> Nat] : Upto(g, T)}
<1>1. \A s \in SUBSET S : IsFiniteSet(s) /\ Cardinality(s) \in Nat /\ Cardinality(s) <= Cardinality(S)
  BY FS_Subset, FS_CardinalityType
<1>2. \A s \in SUBSET S : s # {} => One(s) \in s
  BY DEF One
<1>3. ASSUME NEW g \in [SUBSET S -> Nat], NEW s \in SUBSET S PROVE Rec(f, g, s) \in Nat
  BY <1>2 DEF Rec
<1>4. {} \in F
  <2> DEFINE g == [s \in SUBSET S |-> 0]
  <2>1. g \in [SUBSET S -> Nat]
    OBVIOUS
  <2>2. ASSUME NEW s \in SUBSET S, Cardinality(s) <= Cardinality({}) PROVE g[s] = Rec(f, g, s)
    <3>1. s = {}
      BY <1>1, <2>2, FS_EmptySet
    <3>2. QED BY <3>1 DEF Rec
  <2> HIDE DEF g
  <2>3. QED BY <2>1, <2>2
<1>5. ASSUME NEW T \in SUBSET S, T \in F, NEW x \in S \ T PROVE T \cup {x} \in F
  <2>1. PICK g \in [SUBSET S -> Nat] : Upto(g, T)
    BY <1>5
  <2> DEFINE h == [s \in SUBSET S |-> Rec(f, g, s)]
  <2>2. h \in [SUBSET S -> Nat] /\ \A s \in SUBSET S : h[s] = Rec(f, g, s)
    BY <1>3
  <2> HIDE DEF h
  <2>3. Cardinality(T \cup {x}) = Cardinality(T) + 1 /\ Cardinality(T) \in Nat
    BY <1>1, FS_AddElement
  <2>4. ASSUME NEW s \in SUBSET S, Cardinality(s) <= Cardinality(T \cup {x})
        PROVE  h[s] = Rec(f, h, s)
    <3>1. CASE s = {}
      BY <2>2, <3>1 DEF Rec
    <3>2. CASE s # {}
      <4> DEFINE r == s \ {One(s)}
      <4>1. r \in SUBSET S /\ Cardinality(r) = Cardinality(s) - 1
        BY <1>1, <1>2, <3>2, FS_RemoveElement
      <4>2. Cardinality(r) <= Cardinality(T)
        BY <1>1, <2>3, <2>4, <4>1
      <4>3. g[r] = h[r]
        BY <2>1, <2>2, <4>1, <4>2
      <4>4. QED BY <2>2, <3>2, <4>3 DEF Rec
    <3>3. QED BY <3>1, <3>2
  <2>5. Upto(h, T \cup {x})
    BY <2>4
  <2>6. QED BY <2>2, <2>5
<1> HIDE DEF F
<1>6. S \in F
  BY <1>4, <1>5, SetInduction
<1>7. PICK g \in [SUBSET S -> Nat] : Upto(g, S)
  BY <1>6 DEF F
<1>8. \A s \in SUBSET S : g[s] = Rec(f, g, s)
  BY <1>1, <1>7
<1>9. QED BY <1>7, <1>8 DEF Sums

\* ... which are unique.
LEMMA SumsUnique ==
  ASSUME NEW S, IsFiniteSet(S), NEW f, NEW g, NEW h,
         \A s \in SUBSET S : g[s] = Rec(f, g, s),
         \A s \in SUBSET S : h[s] = Rec(f, h, s)
  PROVE  \A s \in SUBSET S : g[s] = h[s]
<1> DEFINE F == {s \in SUBSET S : g[s] = h[s]}
<1>1. ASSUME NEW T \in SUBSET S, \A U \in SUBSET T : U # T => U \in F PROVE T \in F
  <2>1. CASE T = {}
    BY <2>1 DEF Rec
  <2>2. CASE T # {}
    <3>1. One(T) \in T
      BY <2>2 DEF One
    <3>2. g[T \ {One(T)}] = h[T \ {One(T)}]
      BY <1>1, <3>1
    <3>3. QED BY <2>2, <3>2 DEF Rec
  <2>3. QED BY <2>1, <2>2
<1> HIDE DEF F
<1>2. SUBSET S \subseteq F
  BY <1>1, SubsetInduction
<1>3. QED BY <1>2 DEF F

\* SumOf is one of them.
LEMMA SumIs ==
  ASSUME NEW S, IsFiniteSet(S), NEW f \in [S -> Nat]
  PROVE  \E g : Sums(g, f, S) /\ SumOf(f, S) = g[S]
<1> DEFINE c == CHOOSE g : g = [s \in SUBSET S |-> Rec(f, g, s)]
<1>1. SumOf(f, S) = c[S]
  BY DEF SumOf, MapThenSumSet, MapThenFoldSet, Rec, One
<1>2. PICK g : Sums(g, f, S)
  BY SumExists
<1>3. g = [s \in SUBSET S |-> Rec(f, g, s)]
  BY <1>2 DEF Sums
<1>4. c = [s \in SUBSET S |-> Rec(f, c, s)]
  BY <1>3
<1>5. PICK h : SumOf(f, S) = h[S] /\ \A s \in SUBSET S : h[s] = Rec(f, h, s)
  <2> HIDE DEF c
  <2>1. \A s \in SUBSET S : c[s] = Rec(f, c, s)
    BY <1>4
  <2>2. QED BY <1>1, <2>1
<1>6. h[S] = g[S]
  <2>1. \A s \in SUBSET S : g[s] = Rec(f, g, s)
    BY <1>2 DEF Sums
  <2>2. \A s \in SUBSET S : h[s] = g[s]
    BY <1>5, <2>1, SumsUnique
  <2>3. QED BY <2>2
<1>7. QED BY <1>2, <1>5, <1>6

\* Any element can be added last.
LEMMA SumsAdd ==
  ASSUME NEW S, IsFiniteSet(S), NEW f \in [S -> Nat], NEW g, Sums(g, f, S)
  PROVE  \A s \in SUBSET S : \A x \in s : g[s] = f[x] + g[s \ {x}]
<1> DEFINE F == {s \in SUBSET S : \A x \in s : g[s] = f[x] + g[s \ {x}]}
<1>1. ASSUME NEW T \in SUBSET S, \A U \in SUBSET T : U # T => U \in F PROVE T \in F
  <2> SUFFICES ASSUME NEW x \in T PROVE g[T] = f[x] + g[T \ {x}]
    OBVIOUS
  <2> DEFINE y == One(T)
  <2>1. y \in T
    BY DEF One
  <2>2. g[T] = f[y] + g[T \ {y}]
    BY DEF Sums, Rec
  <2> HIDE DEF y
  <2>3. CASE x # y
    <3>1. T \ {y} \in F /\ T \ {x} \in F /\ x \in T \ {y} /\ y \in T \ {x}
      BY <1>1, <2>1, <2>3
    <3>2. g[T \ {y}] = f[x] + g[(T \ {y}) \ {x}] /\ g[T \ {x}] = f[y] + g[(T \ {x}) \ {y}]
      BY <3>1
    <3>3. (T \ {y}) \ {x} = (T \ {x}) \ {y} /\ (T \ {x}) \ {y} \in SUBSET S
      OBVIOUS
    <3> DEFINE n == g[(T \ {x}) \ {y}]
    <3>4. f[x] \in Nat /\ f[y] \in Nat /\ n \in Nat
      BY <2>1, <3>3 DEF Sums
    <3>6. g[T \ {y}] = f[x] + n /\ g[T \ {x}] = f[y] + n
      BY <3>2, <3>3
    <3> HIDE DEF n
    <3>5. QED BY <2>2, <3>4, <3>6
  <2>4. QED BY <2>2, <2>3
<1> HIDE DEF F
<1>2. SUBSET S \subseteq F
  BY <1>1, SubsetInduction
<1>3. QED BY <1>2 DEF F

\* A sum is a number; the greater its terms, the greater it is.
LEMMA SumMonotone ==
  ASSUME NEW S, IsFiniteSet(S), NEW f \in [S -> Nat], NEW h \in [S -> Nat],
         \A x \in S : f[x] <= h[x]
  PROVE  SumOf(f, S) \in Nat /\ SumOf(h, S) \in Nat /\ SumOf(f, S) <= SumOf(h, S)
<1>1. PICK g : Sums(g, f, S) /\ SumOf(f, S) = g[S]
  BY SumIs
<1>2. PICK k : Sums(k, h, S) /\ SumOf(h, S) = k[S]
  BY SumIs
<1> DEFINE F == {s \in SUBSET S : g[s] <= k[s]}
<1>3. {} \in F
  <2>1. g[{}] = 0 /\ k[{}] = 0
    BY <1>1, <1>2 DEF Sums, Rec
  <2>2. QED BY <2>1
<1>4. ASSUME NEW T \in SUBSET S, T \in F, NEW x \in S \ T PROVE T \cup {x} \in F
  <2> DEFINE U == T \cup {x}
  <2>1. U \in SUBSET S /\ x \in U /\ U \ {x} = T
    OBVIOUS
  <2> HIDE DEF U
  <2>2. g[U] = f[x] + g[T] /\ k[U] = h[x] + k[T]
    <3>1. g[U] = f[x] + g[U \ {x}]
      BY <1>1, <2>1, SumsAdd
    <3>2. k[U] = h[x] + k[U \ {x}]
      BY <1>2, <2>1, SumsAdd
    <3>3. QED BY <2>1, <3>1, <3>2
  <2>3. g[T] \in Nat /\ k[T] \in Nat /\ g[T] <= k[T] /\ f[x] \in Nat /\ h[x] \in Nat /\ f[x] <= h[x]
    BY <1>1, <1>2, <1>4 DEF Sums
  <2>4. g[U] <= k[U]
    BY <2>2, <2>3
  <2>5. QED BY <2>1, <2>4
<1> HIDE DEF F
<1>5. S \in F
  BY <1>3, <1>4, SetInduction
<1>6. QED BY <1>1, <1>2, <1>5 DEF F, Sums

\* When one term is changed, the sum is changed by as much.
LEMMA SumChanged ==
  ASSUME NEW S, IsFiniteSet(S), NEW f \in [S -> Nat], NEW h \in [S -> Nat], NEW x \in S,
         \A y \in S : y # x => f[y] = h[y]
  PROVE  SumOf(h, S) - h[x] = SumOf(f, S) - f[x]
<1>1. PICK g : Sums(g, f, S) /\ SumOf(f, S) = g[S]
  BY SumIs
<1>2. PICK k : Sums(k, h, S) /\ SumOf(h, S) = k[S]
  BY SumIs
<1> DEFINE F == {s \in SUBSET (S \ {x}) : g[s] = k[s]}
<1>3. {} \in F
  BY <1>1, <1>2 DEF Sums, Rec
<1>4. ASSUME NEW T \in SUBSET (S \ {x}), T \in F, NEW y \in (S \ {x}) \ T PROVE T \cup {y} \in F
  <2> DEFINE U == T \cup {y}
  <2>1. U \in SUBSET S /\ U \in SUBSET (S \ {x}) /\ y \in U /\ U \ {y} = T
    OBVIOUS
  <2>2. g[U] = f[y] + g[T] /\ k[U] = h[y] + k[T]
    BY <1>1, <1>2, <2>1, SumsAdd
  <2>3. QED BY <1>4, <2>1, <2>2
<1> HIDE DEF F
<1>5. IsFiniteSet(S \ {x})
  BY FS_Subset
<1>6. S \ {x} \in F
  BY <1>3, <1>4, <1>5, SetInduction
<1>7. g[S] = f[x] + g[S \ {x}] /\ k[S] = h[x] + k[S \ {x}]
  BY <1>1, <1>2, SumsAdd
<1>8. g[S \ {x}] \in Nat /\ f[x] \in Nat /\ h[x] \in Nat
  BY <1>1 DEF Sums
<1>9. QED BY <1>1, <1>2, <1>6, <1>7, <1>8 DEF F
-----------------------------------------------------------------------------
(* Days and seconds *)

\* The first second of a day is midnight.
LEMMA Midnight ==
  ASSUME NEW n \in Nat, DayOf(n + 1) # DayOf(n)
  PROVE  DayOf(n + 1) > DayOf(n) /\ DayStart(n + 1) = n + 1
<1> DEFINE p == n \div Day
           q == (n + 1) \div Day
<1>1. Day \in Nat /\ Day > 0
  BY UsageAssumption
<1>2. p \in Nat /\ q \in Nat /\ p <= q /\ p # q
  BY <1>1 DEF DayOf
<1>3. n < (p + 1) * Day /\ q * Day <= n + 1
  BY <1>1
<1> HIDE DEF p, q
<1>4. (p + 1) * Day <= q * Day
  BY <1>1, <1>2
<1>5. q * Day = n + 1
  <2>1. (p + 1) * Day \in Nat /\ q * Day \in Nat
    BY <1>1, <1>2
  <2>2. QED BY <1>3, <1>4, <2>1
<1>6. QED BY <1>2, <1>5 DEF p, q, DayOf, DayStart

\* Days follow each other.
LEMMA DaysGrow ==
  ASSUME NEW m \in Nat, NEW n \in Nat, m <= n
  PROVE  DayOf(m) \in Nat /\ DayOf(n) \in Nat /\ DayOf(m) <= DayOf(n)
BY UsageAssumption DEF DayOf

\* What a run that ends at some time of today takes of today.
LEMMA DaySeconds ==
  ASSUME NEW r \in Row, NEW end \in Time, NEW last \in Time, end <= last,
         DayOf(end) = DayOf(last), r.bill # None => r.bill <= end
  PROVE  /\ SecondsOfDay(r, end) \in Nat
         /\ SecondsOfDay(r, end) <= SecondsOfDay(r, last)
         /\ r.bill # None => SecondsOfDay(r, end) >= 1
<1>1. end \in Nat /\ last \in Nat /\ (r.bill # None => r.bill \in Nat)
  BY UsageAssumption DEF Row, Time
<1>2. DayStart(end) \in Nat /\ DayStart(end) <= end /\ DayStart(last) = DayStart(end)
  BY Days DEF DayStart
<1>3. QED BY <1>1, <1>2 DEF SecondsOfDay

\* What has been paid for is a number of seconds.
LEMMA PaidTypes ==
  ASSUME Types, Reserved
  PROVE  /\ Paid \in [Task -> Nat] /\ Total \in Nat
         /\ \A t \in Task : /\ Paid[t] = real[t] - SecondsOfDay(task[t], now)
                            /\ SecondsOfDay(task[t], now) \in Nat /\ real[t] \in Nat
                            /\ SecondsOfDay(task[t], now) <= real[t]
<1>1. ASSUME NEW t \in Task
      PROVE  /\ SecondsOfDay(task[t], now) \in Nat /\ real[t] \in Nat
             /\ SecondsOfDay(task[t], now) <= real[t]
  <2>1. task[t] \in Row /\ Sane(task[t]) /\ Tables
    BY DEF Types, Tables, Timely
  <2>2. task[t].bill # None => task[t].bill <= now
    BY <2>1, DueRow
  <2>3. QED BY <2>1, <2>2, RunSeconds DEF Tables, Types, Ghosts, Reserved
<1>2. Paid \in [Task -> Nat]
  BY <1>1 DEF Paid
<1>3. Total \in Nat
  BY <1>2, SumMonotone, UsageAssumption DEF Total
<1>4. QED BY <1>1, <1>2, <1>3 DEF Paid

LEMMA PaidNat == Types /\ Reserved => Paid \in [Task -> Nat]
BY PaidTypes

-----------------------------------------------------------------------------
(* Users' rows *)

\* A user who is reset has the day's date, and owes nothing from before.
LEMMA ResetIs ==
  ASSUME Tables, NEW u \in User
  PROVE  /\ Today \in Nat /\ u.used \in Nat /\ u.date \in Nat
         /\ Reset(u) \in User /\ Reset(u).date = Today
         /\ u.date = Today => Reset(u) = u
         /\ u.date # Today => Reset(u).used = 0
<1>1. Reset(u) \in User /\ Today \in Nat
  BY ChargedUser, Days DEF Today, Tables
<1>2. QED BY <1>1 DEF Reset, User, Today

\* A session that only resets the user it has loaded, when the row is as it was or has been
\* reset meanwhile, leaves a user who owes no more.
LEMMA Lapses ==
  ASSUME Tables, NEW v \in User, user.date <= Today, v.date <= user.date,
         user.date = Today \/ user = v, user' = Flush(user, v, Reset(v))
  PROVE  /\ user.date <= user'.date /\ user'.date <= Today
         /\ user' = user \/ user'.date = Today
         /\ now' = now /\ Total <= Total' /\ Total \in Nat /\ Total' \in Nat /\ Owes(user) => Owes(user)'
<1>1. user \in User /\ Today \in Nat
  BY ResetIs DEF Tables
<1>2. /\ v.used \in Nat /\ v.date \in Nat /\ user.used \in Nat /\ user.date \in Nat
      /\ Reset(v) \in User /\ Reset(v).date = Today
      /\ v.date = Today => Reset(v) = v
      /\ v.date # Today => Reset(v).used = 0
      /\ user.date = Today => Reset(user) = user
  BY <1>1, ResetIs
<1>3. /\ user' \in User
      /\ user'.used = IF Reset(v).used = v.used THEN user.used ELSE Reset(v).used
      /\ user'.date = IF Reset(v).date = v.date THEN user.date ELSE Reset(v).date
  BY <1>1, <1>2, FlushUser
<1>4. CASE v.date = Today
  <2>1. user'.used = user.used /\ user'.date = user.date
    BY <1>2, <1>3, <1>4
  <2>2. user' = user
    BY <1>1, <1>3, <2>1 DEF User
  <2>3. now' = now => Reset(user)' = Reset(user)
    BY <2>2 DEF Reset
  <2>4. Reset(user).used \in Nat
    BY <1>1, ChargedUser DEF User
  <2>5. QED BY <1>1, <1>2, <2>2, <2>3, <2>4 DEF Owes
<1>5. CASE v.date # Today
  <2>1. user'.date = Today
    BY <1>2, <1>3, <1>5
  <2>2. now' = now => Reset(user)' = user'
    BY <2>1 DEF Reset, Today
  <2>3. user'.used \in {0, user.used}
    BY <1>2, <1>3, <1>5
  <2>4. user.date = Today \/ user'.used = 0
    BY <1>2, <1>3, <1>5
  <2>5. QED BY <1>1, <1>2, <2>1, <2>2, <2>3, <2>4 DEF Owes
<1>6. QED BY <1>4, <1>5

\* What sessions remember of the user is as old as it was, or has just been read.
Copies ==
  \A b \in Actor : pc'[b] \in Knows =>
    \/ pc'[b] = pc[b] /\ mem'[b] = mem[b]
    \/ mem'[b].user = user /\ (pc'[b] = "reset" => mem'[b].to = Reset(user))

LEMMA Remembered ==
  ASSUME Types, NEW a \in Actor, pc[a] \in Knows
  PROVE  mem[a].user \in User
BY DEF Types, Sessions, Fits, Held, Holding, Knows, Checking

\* The user's row gets no older a date, and only the date of today.
LEMMA CopiesKept ==
  ASSUME Types, Types', Dated, Fresh, Copies, now' = now,
         user.date <= user'.date, user'.date <= Today, user' = user \/ user'.date = Today
  PROVE  Dated' /\ Fresh'
<1>1. /\ user \in User /\ user' \in User /\ Today' = Today /\ Today \in Nat
      /\ user.date \in Nat /\ user'.date \in Nat
  BY ResetIs DEF Types, Tables, Today, User
<1>2. ASSUME NEW b \in Actor, pc'[b] \in Knows
      PROVE  /\ mem'[b].user.date <= user'.date
             /\ pc'[b] \in Checking => user'.date = Today \/ user' = mem'[b].user
             /\ pc'[b] = "reset" => mem'[b].to = Reset(mem[b].user)'
  <2>1. CASE pc'[b] = pc[b] /\ mem'[b] = mem[b]
    <3>1. mem[b].user \in User /\ mem[b].user.date <= user.date /\ mem[b].user.date \in Nat
      BY <1>2, <2>1, Remembered DEF Dated, User
    <3>2. Reset(mem[b].user)' = Reset(mem[b].user)
      BY <2>1 DEF Reset
    <3>3. QED BY <1>1, <1>2, <2>1, <3>1, <3>2 DEF Fresh, Dated
  <2>2. CASE mem'[b].user = user /\ (pc'[b] = "reset" => mem'[b].to = Reset(user))
    <3>1. Reset(mem[b].user)' = Reset(user)
      BY <2>2 DEF Reset
    <3>2. QED BY <1>1, <1>2, <2>2, <3>1
  <2>3. QED BY <1>2, <2>1, <2>2 DEF Copies
<1>3. QED BY <1>1, <1>2 DEF Dated, Fresh, Knows, Checking

\* No one owes more, and more has been paid for.
LEMMA OwedKept ==
  ASSUME Types, Types', Dated, Owed, Copies, now' = now, Total \in Nat, Total' \in Nat,
         Total <= Total', raced => raced', ~raced' => Owes(user)'
  PROVE  Owed'
<1> SUFFICES ASSUME ~raced', NEW b \in Actor, pc'[b] \in Holding PROVE Owes(mem[b].user)'
  BY DEF Owed
<1>1. PICK v \in User : mem'[b].user = v /\ Owes(v)
  <2>1. CASE pc'[b] = pc[b] /\ mem'[b] = mem[b]
    BY <2>1, HeldBy DEF Owed
  <2>2. CASE mem'[b].user = user
    BY <2>2 DEF Owed, Types, Tables
  <2>3. QED BY <2>1, <2>2 DEF Copies, Knows
<1>2. Reset(mem[b].user)' = Reset(v) /\ Reset(v).used \in Nat
  BY <1>1, ResetIs DEF Reset, Types, User
<1>3. QED BY <1>1, <1>2 DEF Owes

-----------------------------------------------------------------------------
(* What is paid for *)

\* A task is written, and its billing is not opened: more has been paid for, by what its run
\* took of today if its billing is closed.
LEMMA WrittenPaid ==
  ASSUME Types, Types', Reserved, NEW t \in Task, NEW r \in Row,
         task' = [task EXCEPT ![t] = r], r.bill \in {None, task[t].bill}, UNCHANGED <<now, real>>
  PROVE  /\ Reserved' /\ Total \in Nat /\ Total' \in Nat /\ Total <= Total'
         /\ r.bill = None => Total' = Total + SecondsOfDay(task[t], now)
<1>1. /\ task'[t] = r /\ \A u \in Task : u # t => task'[u] = task[u]
      /\ now' = now /\ \A u \in Task : real'[u] = real[u]
  BY DEF Types, Tables
<1> DEFINE p == SecondsOfDay(task[t], now)
           q == SecondsOfDay(r, now)
<1>2. q \in {0, p} /\ (r.bill = None => q = 0)
  BY DEF SecondsOfDay
<1>3. /\ Paid \in [Task -> Nat] /\ Total \in Nat
      /\ \A u \in Task : /\ Paid[u] = real[u] - SecondsOfDay(task[u], now)
                         /\ SecondsOfDay(task[u], now) \in Nat /\ real[u] \in Nat
                         /\ SecondsOfDay(task[u], now) <= real[u]
  BY PaidTypes
<1>4. Reserved'
  <2>1. \A u \in Task : SecondsOfDay(task'[u], now) <= real[u]
    BY <1>1, <1>2, <1>3
  <2>2. QED BY <1>1, <2>1 DEF Reserved
<1>5. /\ \A u \in Task : u # t => Paid'[u] = Paid[u]
      /\ Paid'[t] = real[t] - q
  <2>1. Paid' = [u \in Task |-> real[u] - SecondsOfDay(task'[u], now)]
    BY DEF Paid
  <2>2. QED BY <1>1, <1>3, <2>1
<1>6. Paid' \in [Task -> Nat]
  <2>1. (Types /\ Reserved => Paid \in [Task -> Nat])'
    BY PaidNat, PTL
  <2>2. QED BY <1>4, <2>1
<1>7. p \in Nat /\ p <= real[t] /\ real[t] \in Nat /\ Paid[t] = real[t] - p
  BY <1>3
<1> HIDE DEF p, q
<1>8. SumOf(Paid', Task) - Paid'[t] = SumOf(Paid, Task) - Paid[t]
  BY <1>3, <1>5, <1>6, SumChanged, UsageAssumption
<1>9. SumOf(Paid', Task) \in Nat /\ SumOf(Paid, Task) \in Nat
  BY <1>3, <1>6, SumMonotone, UsageAssumption
<1>10. Total' \in Nat /\ Total' = Total + (p - q)
  BY <1>2, <1>5, <1>7, <1>8, <1>9 DEF Total
<1>11. QED BY <1>2, <1>3, <1>4, <1>7, <1>10 DEF p

\* Nothing is written.
LEMMA SamePaid ==
  ASSUME Types, Reserved, UNCHANGED <<now, task, real>>
  PROVE  Reserved' /\ Total \in Nat /\ Total' = Total
<1>1. Paid' = Paid
  BY DEF Paid
<1>2. QED BY <1>1, PaidTypes DEF Reserved, Total

\* A run is settled: its user is charged no more than the run took of today.
LEMMA SettledOwes ==
  ASSUME Types, Types', Reserved, NEW t \in Task, NEW r \in Row,
         task' = [task EXCEPT ![t] = r], r.bill = None, UNCHANGED <<now, real>>,
         NEW v \in User, Owes(v), NEW s \in Nat, s <= SecondsOfDay(task[t], now),
         user'.used = Reset(v).used + s, user'.date = Today
  PROVE  Owes(user)'
<1>1. Total \in Nat /\ Total' = Total + SecondsOfDay(task[t], now)
  BY WrittenPaid
<1>2. SecondsOfDay(task[t], now) \in Nat
  BY PaidTypes
<1>3. Reset(v).used \in Nat /\ Reset(v).used <= Total
  BY ResetIs DEF Owes, Types, User
<1>4. Reset(user)' = user'
  BY DEF Reset, Today
<1>5. QED BY <1>1, <1>2, <1>3, <1>4 DEF Owes

\* A user is charged: to what the user had used today comes what a run took of today.
LEMMA ChargedIs ==
  ASSUME Tables, NEW u \in User, NEW r \in Row, NEW end \in Time, r.bill # None, r.bill <= end
  PROVE  /\ Charged(u, r, end) \in User
         /\ Charged(u, r, end).used = Reset(u).used + SecondsOfDay(r, end)
         /\ Charged(u, r, end).date = Today
<1> DEFINE v == Reset(u)
           s == SecondsOfDay(r, end)
<1>1. v \in User /\ v.date = Today /\ s \in Nat
  BY ResetIs, RunSeconds
<1>2. Charged(u, r, end) = [v EXCEPT !.used = v.used + s]
  BY DEF Charged
<1> HIDE DEF v, s
<1>3. /\ Charged(u, r, end) \in User /\ Charged(u, r, end).used = v.used + s
      /\ Charged(u, r, end).date = Today
  BY <1>1, <1>2 DEF User
<1>4. QED BY <1>3 DEF v, s

\* ... by a session that had loaded the user.
LEMMA OwnerIs ==
  ASSUME Tables, NEW v \in User, user.date <= Today, v.date <= user.date,
         NEW r \in Row, r.bill # None, r.bill <= now
  PROVE  /\ Owner(v, Charged(v, r, now)).used = Reset(v).used + SecondsOfDay(r, now)
         /\ Owner(v, Charged(v, r, now)).date = Today
<1> DEFINE c == Charged(v, r, now)
           w == Reset(v)
           mid == Flush(user, v, w)
           s == SecondsOfDay(r, now)
<1>1. /\ user \in User /\ w \in User /\ w.date = Today /\ Today \in Nat /\ w.used \in Nat
      /\ v.date \in Nat /\ user.date \in Nat
  BY ResetIs DEF Tables, User
<1>2. c \in User /\ c.used = w.used + s /\ c.date = Today
  BY ChargedIs DEF Tables
<1>3. s \in Nat /\ s >= 1
  BY DaySeconds, UsageAssumption DEF Tables, Time
<1>4. mid \in User /\ mid.date = IF w.date = v.date THEN user.date ELSE w.date
  BY <1>1, FlushUser
<1> HIDE DEF c, w, mid, s
<1>5. mid.date = Today
  BY <1>1, <1>4
<1>6. /\ Flush(mid, w, c).used = IF c.used = w.used THEN mid.used ELSE c.used
      /\ Flush(mid, w, c).date = IF c.date = w.date THEN mid.date ELSE c.date
  BY <1>1, <1>2, <1>4, FlushUser
<1>7. Flush(mid, w, c).used = w.used + s /\ Flush(mid, w, c).date = Today
  BY <1>1, <1>2, <1>3, <1>5, <1>6
<1>8. QED BY <1>7 DEF Owner, c, w, mid, s

-----------------------------------------------------------------------------
(* Runs that are attended *)

\* What a step that is no start of a run may do to a task, for Attended: write no heartbeat,
\* open no billing and start no run.
Unopened(t, r) ==
  /\ r.beat = task[t].beat /\ r.bill \in {None, task[t].bill}
  /\ r.status = "processing" => task[t].status = "processing"

\* Who is at its run stays there, or has just loaded the row.
Runners ==
  \A w \in Worker : pc[w] \in {"run", "end"} =>
    \/ pc'[w] = pc[w] /\ mem'[w] = mem[w]
    \/ pc'[w] = "end" /\ mem'[w].task = mem[w].task /\ mem'[w].row = task[mem[w].task]

LEMMA AttendedKept ==
  ASSUME Types, Attended, Runners, now' = now, raced => raced',
         NEW t \in Task, NEW r \in Row, task' = [task EXCEPT ![t] = r], Unopened(t, r)
  PROVE  Attended'
<1> SUFFICES ASSUME ~raced', NEW u \in Task, task'[u].status = "processing",
                    task'[u].bill # None
             PROVE  DayOf(task'[u].beat) = Today' \/ \E w \in Worker : Attends(w, u)'
  BY DEF Attended
<1>1. /\ task[u].status = "processing" /\ task[u].bill # None
      /\ task'[u].bill = task[u].bill /\ task'[u].beat = task[u].beat
  BY DEF Types, Tables, Unopened
<1>2. CASE DayOf(task[u].beat) = Today
  BY <1>1, <1>2 DEF Today
<1>3. CASE DayOf(task[u].beat) # Today
  <2>1. PICK w \in Worker : Attends(w, u)
    BY <1>1, <1>3 DEF Attended
  <2>2. /\ pc[w] \in {"run", "end"} /\ mem[w].task = u
        /\ pc[w] = "end" => mem[w].row.bill = task[u].bill
    BY <2>1 DEF Attends, AtRun
  <2>3. Attends(w, u)'
    BY <1>1, <2>2 DEF Attends, AtRun, Runners
  <2>4. QED BY <2>3
<1>4. QED BY <1>2, <1>3

\* Worker w may leave a run whose heartbeat is of today, or that is settled.
LEMMA AttendedLeft ==
  ASSUME Types, Attended, now' = now, raced => raced', NEW w \in Worker,
         \A v \in Worker \ {w} : pc'[v] = pc[v] /\ mem'[v] = mem[v],
         NEW t \in Task, NEW r \in Row, task' = [task EXCEPT ![t] = r], Unopened(t, r),
         t = mem[w].task,
         Attends(w, t) /\ ~raced' => DayOf(task[t].beat) = Today \/ r.bill = None
  PROVE  Attended'
<1> SUFFICES ASSUME ~raced', NEW u \in Task, task'[u].status = "processing",
                    task'[u].bill # None
             PROVE  DayOf(task'[u].beat) = Today' \/ \E v \in Worker : Attends(v, u)'
  BY DEF Attended
<1>1. /\ task[u].status = "processing" /\ task[u].bill # None
      /\ task'[u].bill = task[u].bill /\ task'[u].beat = task[u].beat
      /\ u = t => task'[u] = r
  BY DEF Types, Tables, Unopened
<1>2. CASE DayOf(task[u].beat) = Today
  BY <1>1, <1>2 DEF Today
<1>3. CASE DayOf(task[u].beat) # Today
  <2>1. PICK v \in Worker : Attends(v, u)
    BY <1>1, <1>3 DEF Attended
  <2>2. v # w
    BY <1>1, <1>3, <2>1 DEF Attends, AtRun
  <2>3. Attends(v, u)'
    BY <1>1, <2>1, <2>2 DEF Attends, AtRun
  <2>4. QED BY <2>3
<1>4. QED BY <1>2, <1>3

\* Nothing is written to the tasks.
LEMMA AttendedStays ==
  ASSUME Types, Attended, Runners, now' = now, task' = task, raced' = raced
  PROVE  Attended'
<1> SUFFICES ASSUME ~raced', NEW u \in Task, task[u].status = "processing",
                    task[u].bill # None
             PROVE  DayOf(task[u].beat) = Today' \/ \E w \in Worker : Attends(w, u)'
  BY DEF Attended
<1>1. CASE DayOf(task[u].beat) = Today
  BY <1>1 DEF Today
<1>2. CASE DayOf(task[u].beat) # Today
  <2>1. PICK w \in Worker : Attends(w, u)
    BY <1>2 DEF Attended
  <2>2. Attends(w, u)'
    BY <2>1 DEF Attends, AtRun, Runners
  <2>3. QED BY <2>2
<1>3. QED BY <1>1, <1>2

-----------------------------------------------------------------------------
(* Charges are fair: one lemma for each action *)

\* A step that writes neither a task nor the user.
LEMMA ReadsFair ==
  ASSUME Types, Types', Fair, Copies, Runners,
         UNCHANGED <<now, user, task, real, raced, refused>>
  PROVE  Fair'
<1>1. Reserved' /\ Total \in Nat /\ Total' = Total
  BY SamePaid DEF Fair
<1>2. user \in User /\ user.date \in Nat /\ user.date <= Today
  BY DEF Fair, Dated, Types, Tables, User
<1>3. Dated' /\ Fresh'
  BY <1>2, CopiesKept DEF Fair
<1>4. ~raced' => Owes(user)'
  BY <1>1 DEF Fair, Owed, Owes, Reset
<1>5. Owed'
  BY <1>1, <1>4, OwedKept DEF Fair
<1>6. Attended'
  BY AttendedStays DEF Fair
<1>7. QED BY <1>1, <1>3, <1>5, <1>6 DEF Fair

\* A step that writes the user only, and makes nobody owe more.
LEMMA LapseFair ==
  ASSUME Types, Types', Fair, Copies, Runners, UNCHANGED <<now, task, real, raced, refused>>,
         user.date <= user'.date, user'.date <= Today, user' = user \/ user'.date = Today,
         Owes(user) => Owes(user)'
  PROVE  Fair'
<1>1. Reserved' /\ Total \in Nat /\ Total' = Total
  BY SamePaid DEF Fair
<1>2. Dated' /\ Fresh'
  BY CopiesKept DEF Fair
<1>3. ~raced' => Owes(user)'
  BY DEF Fair, Owed
<1>4. Owed'
  BY <1>1, <1>3, OwedKept DEF Fair
<1>5. Attended'
  BY AttendedStays DEF Fair
<1>6. QED BY <1>1, <1>2, <1>4, <1>5 DEF Fair

\* A step that writes a task, and the user if it settles a run.
LEMMA WriteFair ==
  ASSUME Types, Types', Fair, Copies, UNCHANGED <<now, real>>, raced => raced',
         NEW t \in Task, NEW r \in Row, task' = [task EXCEPT ![t] = r],
         r.bill \in {None, task[t].bill}, Attended', ~refused',
         \/ user' = user
         \/ /\ user'.date = Today
            /\ ~raced' => Owes(user)'
  PROVE  Fair'
<1>1. Reserved' /\ Total \in Nat /\ Total' \in Nat /\ Total <= Total'
  BY WrittenPaid DEF Fair
<1>2. user \in User /\ user.date \in Nat /\ user.date <= Today /\ Today \in Nat
      /\ Reset(user).used \in Nat
  BY ResetIs DEF Fair, Dated, Types, Tables, User
<1>3. user.date <= user'.date /\ user'.date <= Today /\ (user' = user \/ user'.date = Today)
  BY <1>2
<1>4. Dated' /\ Fresh'
  BY <1>3, CopiesKept DEF Fair
<1>5. ~raced' => Owes(user)'
  <2>1. CASE user' = user
    <3>1. Reset(user)' = Reset(user)
      BY <2>1 DEF Reset
    <3>2. QED BY <1>1, <1>2, <3>1 DEF Fair, Owed, Owes
  <2>2. QED BY <2>1
<1>6. Owed'
  BY <1>1, <1>5, OwedKept DEF Fair
<1>7. QED BY <1>1, <1>4, <1>6 DEF Fair

\* Session a goes on to a step that remembers nothing of the user, or what it has just read.
LEMMA GoesCopies ==
  ASSUME Types, NEW a \in Actor, NEW step, NEW m, Goes(a, step, m),
         step \in Knows => m.user = user /\ (step = "reset" => m.to = Reset(user))
  PROVE  Copies
<1>1. \A b \in Actor : /\ pc'[b] = IF b = a THEN step ELSE pc[b]
                       /\ mem'[b] = IF b = a THEN m ELSE mem[b]
  BY DEF Goes, Types, Sessions
<1>2. QED BY <1>1 DEF Copies

\* ... and it is not at a run, or loads its row.
LEMMA GoesRunners ==
  ASSUME Types, NEW a \in Actor, NEW step, NEW m, Goes(a, step, m),
         a \in Worker /\ pc[a] \in {"run", "end"} =>
           step = "end" /\ m.task = mem[a].task /\ m.row = task[mem[a].task]
  PROVE  Runners
<1>1. \A b \in Actor : /\ pc'[b] = IF b = a THEN step ELSE pc[b]
                       /\ mem'[b] = IF b = a THEN m ELSE mem[b]
  BY DEF Goes, Types, Sessions
<1>2. QED BY <1>1, Roles DEF Runners

LEMMA LoadFair ==
  ASSUME Types, Types', Fair, NEW a \in Actor, NEW step \in Holding, NEW t \in Task,
         Loads(a, step, t), UNCHANGED <<now, rows, ghosts>>,
         a \in Worker /\ pc[a] \in {"run", "end"} => step = "end" /\ t = mem[a].task
  PROVE  Fair'
<1> DEFINE m == [task |-> t, row |-> task[t], user |-> user]
<1>1. m.task = t /\ m.row = task[t] /\ m.user = user /\ Goes(a, step, m) /\ step # "reset"
  BY DEF Loads, Holding
<1> HIDE DEF m
<1>2. Copies /\ Runners
  BY <1>1, GoesCopies, GoesRunners
<1>3. UNCHANGED <<now, user, task, real, raced, refused>>
  BY DEF rows, ghosts
<1>4. QED BY <1>2, <1>3, ReadsFair

LEMMA LoadsFair ==
  ASSUME Types, Types', Fair,
         \/ \E w \in Worker, t \in Task : DispatchLoad(w, t)
         \/ \E w \in Worker : EndLoad(w) \/ RunLoad(w)
         \/ \E c \in Request, t \in Task : StartLoad(c, t) \/ CancelLoad(c, t)
  PROVE  Fair'
<1>1. ASSUME NEW w \in Worker, NEW t \in Task, DispatchLoad(w, t) PROVE Fair'
  BY <1>1, Roles, LoadFair DEF DispatchLoad, Holding
<1>2. ASSUME NEW w \in Worker, EndLoad(w) PROVE Fair'
  BY <1>2, Roles, WorkerTask, LoadFair DEF EndLoad, Holding
<1>3. ASSUME NEW c \in Request, NEW t \in Task, StartLoad(c, t) PROVE Fair'
  BY <1>3, Roles, LoadFair DEF StartLoad, Holding
<1>4. ASSUME NEW c \in Request, NEW t \in Task, CancelLoad(c, t) PROVE Fair'
  BY <1>4, Roles, LoadFair DEF CancelLoad, Holding
<1>5. ASSUME NEW w \in Worker, RunLoad(w) PROVE Fair'
  BY <1>5, Roles, WorkerTask, LoadFair DEF RunLoad, Holding
<1>6. QED BY <1>1, <1>2, <1>3, <1>4, <1>5

LEMMA RunLeavesFair ==
  ASSUME Types, Types', Fair, NEW w \in Worker, RunLeaves(w)
  PROVE  Fair'
<1>1. w \in Actor /\ pc[w] = "leased" /\ UNCHANGED <<now, rows, ghosts>> /\ Ends(w)
  BY Roles DEF RunLeaves
<1>2. Goes(w, "idle", None) /\ "idle" \notin Knows
  BY <1>1 DEF Ends, Knows, Holding, Checking
<1>3. Copies /\ Runners
  BY <1>1, <1>2, GoesCopies, GoesRunners
<1>4. QED BY <1>1, <1>3, ReadsFair DEF rows, ghosts

LEMMA BeatLoadFair ==
  ASSUME Types, Types', Fair, BeatLoad
  PROVE  Fair'
<1> DEFINE m == [user |-> user, to |-> Reset(user)]
<1>1. m.user = user /\ m.to = Reset(user) /\ Goes(Beat, "reset", m)
  BY DEF BeatLoad
<1> HIDE DEF m
<1>2. Copies /\ Runners
  BY <1>1, Roles, GoesCopies, GoesRunners
<1>3. QED BY <1>2, ReadsFair DEF BeatLoad, rows, ghosts

LEMMA UsageLoadFair ==
  ASSUME Types, Types', Fair, NEW c \in Request, UsageLoad(c)
  PROVE  Fair'
<1> DEFINE m == [user |-> user]
<1>1. m.user = user /\ Goes(c, "usage", m)
  BY DEF UsageLoad
<1> HIDE DEF m
<1>2. Copies /\ Runners
  BY <1>1, Roles, GoesCopies, GoesRunners
<1>3. QED BY <1>2, ReadsFair DEF UsageLoad, rows, ghosts

\* A session that has looked at the quota resets the user.
LEMMA Checked ==
  ASSUME Types, Fair, NEW a \in Actor, pc[a] \in Checking, now' = now, Total <= Total',
         Total \in Nat, Total' \in Nat, user' = Flush(user, mem[a].user, Reset(mem[a].user))
  PROVE  /\ user.date <= user'.date /\ user'.date <= Today
         /\ user' = user \/ user'.date = Today
         /\ Owes(user) => Owes(user)'
<1>1. /\ mem[a].user \in User /\ user.date <= Today /\ mem[a].user.date <= user.date
      /\ user.date = Today \/ user = mem[a].user
  BY Remembered DEF Fair, Dated, Fresh, Knows
<1>2. QED BY <1>1, Lapses DEF Types

LEMMA ResetsFair ==
  ASSUME Types, Types', Fair, NEW a \in Actor, pc[a] \in {"usage", "reset"}, Ends(a),
         user' = Flush(user, mem[a].user, Reset(mem[a].user)),
         UNCHANGED <<now, task, ghosts>>
  PROVE  Fair'
<1>1. Goes(a, "idle", None) /\ "idle" \notin Knows /\ pc[a] \in Checking
  BY DEF Ends, Knows, Holding, Checking
<1>2. Copies /\ Runners
  BY <1>1, GoesCopies, GoesRunners
<1>3. Total \in Nat /\ Total' = Total
  BY SamePaid DEF Fair, ghosts
<1>4. /\ user.date <= user'.date /\ user'.date <= Today
      /\ user' = user \/ user'.date = Today
      /\ Owes(user) => Owes(user)'
  BY <1>1, <1>3, Checked
<1>5. QED BY <1>2, <1>4, LapseFair DEF ghosts

LEMMA UsageCommitFair ==
  ASSUME Types, Types', Fair, NEW c \in Request, UsageCommit(c)
  PROVE  Fair'
BY Roles, ResetsFair DEF UsageCommit

LEMMA BeatCommitFair ==
  ASSUME Types, Types', Fair, BeatCommit
  PROVE  Fair'
<1>1. mem[Beat].to = Reset(mem[Beat].user)
  BY Roles DEF BeatCommit, Fair, Fresh
<1>2. QED BY <1>1, Roles, ResetsFair DEF BeatCommit

LEMMA AdminResetFair ==
  ASSUME Types, Types', Fair, AdminReset
  PROVE  Fair'
<1>1. user'.used = 0 /\ user'.date = Today /\ user.date <= Today /\ Today \in Nat
  BY ResetIs DEF AdminReset, Today, Fair, Dated, Types, Tables
<1>2. UNCHANGED <<now, task, real, raced, refused, pc, mem>>
  BY DEF AdminReset, ghosts, work
<1>3. Total \in Nat /\ Total' = Total
  BY <1>2, SamePaid DEF Fair
<1>4. Reset(user)' = user'
  BY <1>1, <1>2 DEF Reset, Today
<1>5. Owes(user)'
  BY <1>1, <1>3, <1>4 DEF Owes
<1>6. Copies /\ Runners
  BY <1>2 DEF Copies, Runners
<1>7. QED BY <1>1, <1>2, <1>5, <1>6, LapseFair

\* What has been paid for, runs took.
LEMMA PaidIsUsed ==
  ASSUME Types, Reserved
  PROVE  Total \in Nat /\ RealUse \in Nat /\ Total <= RealUse
<1>1. /\ Paid \in [Task -> Nat] /\ Total \in Nat /\ real \in [Task -> Nat]
      /\ \A t \in Task : Paid[t] <= real[t]
  <2>1. /\ Paid \in [Task -> Nat] /\ Total \in Nat
        /\ \A t \in Task : /\ Paid[t] = real[t] - SecondsOfDay(task[t], now)
                           /\ SecondsOfDay(task[t], now) \in Nat /\ real[t] \in Nat
    BY PaidTypes
  <2>2. real \in [Task -> Nat]
    BY DEF Types, Ghosts
  <2>3. QED BY <2>1, <2>2
<1>2. SumOf(real, Task) \in Nat /\ Total <= SumOf(real, Task)
  BY <1>1, SumMonotone, UsageAssumption DEF Total
<1>3. RealUse = SumOf(real, Task)
  BY DEF RealUse, SumOf
<1>4. QED BY <1>1, <1>2, <1>3

\* Nobody is refused who owes no more than what has been paid for.
LEMMA Entitled ==
  ASSUME Types, Fair, ~raced, NEW v \in User, Owes(v), UsedUp(v)
  PROVE  RealUse >= Quota
<1>1. Total \in Nat /\ RealUse \in Nat /\ Total <= RealUse
  BY PaidIsUsed DEF Fair
<1>2. Reset(v).used >= Quota /\ Reset(v).used <= Total /\ Reset(v).used \in Nat
  BY ResetIs DEF UsedUp, Owes, Types, User
<1>3. QED BY <1>1, <1>2, UsageAssumption

LEMMA DispatchCommitFair ==
  ASSUME Types, Types', Fair, NEW w \in Worker, DispatchCommit(w)
  PROVE  Fair'
<1> DEFINE t == mem[w].task
           f == mem[w].row
<1>1. /\ w \in Actor /\ pc[w] = "dispatch" /\ pc[w] \in Holding /\ pc[w] \in Checking
      /\ f \in Row /\ t \in Task /\ task[t] \in Row /\ mem[w].user \in User
  BY Roles, HeldBy DEF DispatchCommit, Holding, Checking, Types, Tables
<1>2. /\ user' = Flush(user, mem[w].user, Reset(mem[w].user)) /\ UNCHANGED <<now, real>>
  BY DEF DispatchCommit
<1>3. CASE UsedUp(mem[w].user)
  <2>p. PICK q \in Over : Writes(w, [f EXCEPT !.status = q])
    BY <1>3 DEF DispatchCommit
  <2> DEFINE to == [f EXCEPT !.status = q]
             r == Flush(task[t], f, to)
  <2>1. /\ Writes(w, to) /\ Ends(w)
        /\ refused' = (refused \/ (~raced /\ RealUse < Quota))
    BY <1>3, <2>p DEF DispatchCommit
  <2>2. ~refused'
    <3>1. ~raced => Owes(mem[w].user)
      BY <1>1 DEF Fair, Owed
    <3>2. ~raced => RealUse >= Quota
      BY <1>1, <1>3, <3>1, Entitled
    <3>3. RealUse \in Nat
      BY PaidIsUsed DEF Fair
    <3>4. ~(~raced /\ RealUse < Quota)
      BY <3>2, <3>3, UsageAssumption
    <3>5. QED BY <2>1, <3>4, Zenon DEF Fair
  <2>3. Copies /\ Runners
    <3>1. Goes(w, "idle", None) /\ "idle" \notin Knows
      BY <2>1 DEF Ends, Knows, Holding, Checking
    <3>2. QED BY <1>1, <3>1, GoesCopies, GoesRunners
  <2>4. /\ to \in Row /\ to.bill = f.bill /\ to.beat = f.beat /\ to.cost = f.cost
        /\ to.status = q
    BY <1>1 DEF Row
  <2> HIDE DEF to
  <2>5. /\ r \in Row /\ r.bill = task[t].bill /\ r.beat = task[t].beat
        /\ r.status \in {q, task[t].status}
    BY <1>1, <2>4, FlushRow
  <2>6. task' = [task EXCEPT ![t] = r] /\ (raced => raced')
    BY <1>1, <2>1, <2>4, WritesRow
  <2>7. Unopened(t, r)
    BY <2>5 DEF Unopened, Over
  <2> HIDE DEF t, f, r
  <2>8. Attended'
    BY <1>1, <1>2, <2>3, <2>5, <2>6, <2>7, AttendedKept DEF Fair
  <2>9. Total \in Nat /\ Total' \in Nat /\ Total <= Total'
    BY <1>1, <1>2, <2>5, <2>6, WrittenPaid DEF Fair
  <2>10. /\ user' = user \/ user'.date = Today
         /\ Owes(user) => Owes(user)'
    BY <1>1, <1>2, <2>9, Checked
  <2>11. ~raced' => Owes(user)'
    BY <2>6, <2>10 DEF Fair, Owed
  <2>12. QED BY <1>1, <1>2, <2>2, <2>3, <2>5, <2>6, <2>8, <2>10, <2>11, WriteFair
<1>4. CASE ~UsedUp(mem[w].user)
  <2>1. Closes(w, "leased") /\ UNCHANGED <<task, raced, refused>>
    BY <1>4 DEF DispatchCommit
  <2>2. Copies /\ Runners
    <3>1. Goes(w, "leased", [task |-> mem[w].task]) /\ "leased" \notin Knows
      BY <2>1 DEF Closes, Knows, Holding, Checking
    <3>2. QED BY <1>1, <3>1, GoesCopies, GoesRunners
  <2>3. Total \in Nat /\ Total' = Total
    BY <1>2, <2>1, SamePaid DEF Fair
  <2>4. /\ user.date <= user'.date /\ user'.date <= Today
        /\ user' = user \/ user'.date = Today
        /\ Owes(user) => Owes(user)'
    BY <1>1, <1>2, <2>3, Checked
  <2>5. QED BY <1>2, <2>1, <2>2, <2>4, LapseFair
<1>5. QED BY <1>3, <1>4

LEMMA StartCommitFair ==
  ASSUME Types, Types', Fair, NEW c \in Request, StartCommit(c)
  PROVE  Fair'
<1> DEFINE t == mem[c].task
           f == mem[c].row
           to == [f EXCEPT !.status = "queued", !.cancel = FALSE, !.bill = None]
           r == Flush(task[t], f, to)
<1>1. /\ c \in Actor /\ pc[c] \in Holding /\ f \in Row /\ t \in Task /\ task[t] \in Row
      /\ c \notin Worker
  BY Roles, HeldBy DEF StartCommit, Holding, Types, Tables
<1>2. Copies /\ Runners
  <2>1. Goes(c, "idle", None) /\ "idle" \notin Knows
    BY DEF StartCommit, Ends, Knows, Holding, Checking
  <2>2. QED BY <1>1, <2>1, GoesCopies, GoesRunners
<1>3. to \in Row /\ to.bill = None /\ to.beat = f.beat /\ to.cost = f.cost /\ to.status = "queued"
  BY <1>1 DEF Row
<1>4. Writes(c, to) /\ UNCHANGED <<now, user, real, refused>>
  BY DEF StartCommit
<1> HIDE DEF to
<1>5. /\ r \in Row /\ r.bill \in {None, task[t].bill} /\ r.beat = task[t].beat
      /\ r.status \in {"queued", task[t].status}
  BY <1>1, <1>3, FlushRow
<1>6. task' = [task EXCEPT ![t] = r] /\ (raced => raced')
  BY <1>1, <1>3, <1>4, WritesRow
<1>7. Unopened(t, r)
  BY <1>5 DEF Unopened
<1> HIDE DEF t, f, r
<1>8. Attended'
  BY <1>1, <1>2, <1>4, <1>5, <1>6, <1>7, AttendedKept DEF Fair
<1>9. ~refused'
  BY <1>4 DEF Fair
<1>10. QED BY <1>1, <1>2, <1>4, <1>5, <1>6, <1>8, <1>9, WriteFair

LEMMA LeaveCommitFair ==
  ASSUME Types, Types', Fair, NEW w \in Worker, LeaveCommit(w)
  PROVE  Fair'
<1> DEFINE t == mem[w].task
           f == mem[w].row
           to == [f EXCEPT !.status = "over"]
           r == Flush(task[t], f, to)
<1>1. /\ w \in Actor /\ pc[w] = "begin" /\ pc[w] \in Holding /\ f \in Row /\ t \in Task /\ task[t] \in Row
  BY Roles, HeldBy DEF LeaveCommit, Holding, Types, Tables
<1>2. Copies /\ Runners
  <2>1. Goes(w, "idle", None) /\ "idle" \notin Knows
    BY DEF LeaveCommit, Ends, Knows, Holding, Checking
  <2>2. QED BY <1>1, <2>1, GoesCopies, GoesRunners
<1>3. to \in Row /\ to.bill = f.bill /\ to.beat = f.beat /\ to.cost = f.cost /\ to.status = "over"
  BY <1>1 DEF Row, Over
<1>4. Writes(w, to) /\ UNCHANGED <<now, user, real, refused>>
  BY DEF LeaveCommit
<1> HIDE DEF to
<1>5. /\ r \in Row /\ r.bill \in {None, task[t].bill} /\ r.beat = task[t].beat
      /\ r.status \in {"over", task[t].status}
  BY <1>1, <1>3, FlushRow
<1>6. task' = [task EXCEPT ![t] = r] /\ (raced => raced')
  BY <1>1, <1>3, <1>4, WritesRow
<1>7. Unopened(t, r)
  BY <1>5 DEF Unopened
<1> HIDE DEF t, f, r
<1>8. Attended'
  BY <1>1, <1>2, <1>4, <1>5, <1>6, <1>7, AttendedKept DEF Fair
<1>9. ~refused'
  BY <1>4 DEF Fair
<1>10. QED BY <1>1, <1>2, <1>4, <1>5, <1>6, <1>8, <1>9, WriteFair

\* A session that had loaded a task settles its run.
LEMMA SettlesFair ==
  ASSUME Types, Types', Fair, NEW a \in Actor, pc[a] \in Holding, Copies,
         UNCHANGED <<now, real, refused>>,
         NEW to \in Row, to.bill = mem[a].row.bill, to.beat = mem[a].row.beat,
         to.cost = mem[a].row.cost, to.status \in Over, WritesSettled(a, to),
         ASSUME NEW t \in Task, NEW r \in Row, t = mem[a].task,
                task' = [task EXCEPT ![t] = r], Unopened(t, r), raced => raced',
                ~raced' => mem[a].row.bill \in {None, task[t].bill},
                mem[a].row.bill # None => r.bill = None
         PROVE  Attended'
  PROVE  Fair'
<1> DEFINE t == mem[a].task
           f == mem[a].row
           s == Settled(to, now)
           r == Flush(task[t], f, s)
           v == mem[a].user
<1>1. /\ t \in Task /\ f \in Row /\ task[t] \in Row /\ v \in User /\ Sane(f)
      /\ now \in Time /\ Tables /\ user.date <= Today /\ v.date <= user.date
  BY HeldBy DEF Types, Tables, Fair, Dated, Knows
<1>2. f.bill # None => f.bill <= now
  BY <1>1, DueRow
<1>3. s \in Row /\ s.bill = None /\ s.beat = f.beat /\ s.status \in Over
  BY <1>1, <1>2, SettledRow
<1>4. /\ r \in Row
      /\ r.bill = IF f.bill = None THEN task[t].bill ELSE None
      /\ r.beat = task[t].beat
      /\ r.status \in Over \cup {task[t].status}
  BY <1>1, <1>3, FlushRow
<1>5. /\ task' = [task EXCEPT ![t] = r] /\ (raced => raced')
      /\ ~raced' => f.bill \in {None, task[t].bill}
  BY <1>1, <1>3, WritesRow DEF WritesSettled
<1>6. user' = IF f.bill = None THEN user ELSE Owner(v, Charged(v, f, now))
  BY DEF WritesSettled
<1>7. ~raced => Owes(v)
  BY DEF Fair, Owed
<1>8. Unopened(t, r)
  BY <1>4 DEF Unopened, Over
<1> HIDE DEF s, r
<1>9. Attended'
  BY <1>1, <1>4, <1>5, <1>8
<1> HIDE DEF t, f, v
<1>10. ASSUME f.bill # None
       PROVE  user'.date = Today /\ (~raced' => Owes(user)')
  <2>1. /\ user'.used = Reset(v).used + SecondsOfDay(f, now)
        /\ user'.date = Today
    BY <1>1, <1>2, <1>6, <1>10, OwnerIs
  <2>2. ASSUME ~raced' PROVE Owes(user)'
    <3>1. f.bill = task[t].bill /\ r.bill = None
      BY <1>4, <1>5, <1>10, <2>2
    <3>2. SecondsOfDay(f, now) = SecondsOfDay(task[t], now)
      BY <3>1 DEF SecondsOfDay
    <3>3. SecondsOfDay(f, now) \in Nat
      BY <1>1, <1>2, RunSeconds
    <3> DEFINE n == SecondsOfDay(f, now)
    <3>4. n \in Nat /\ n <= SecondsOfDay(task[t], now) /\ user'.used = Reset(v).used + n
      BY <2>1, <3>2, <3>3
    <3> HIDE DEF n
    <3>5. QED BY <1>1, <1>4, <1>5, <1>7, <2>1, <2>2, <3>1, <3>4, SettledOwes DEF Fair
  <2>3. QED BY <2>1, <2>2
<1>11. /\ user' = user \/ (user'.date = Today /\ (~raced' => Owes(user)'))
       /\ r.bill \in {None, task[t].bill} /\ ~refused'
  BY <1>4, <1>6, <1>10 DEF Fair
<1>12. QED BY <1>1, <1>4, <1>5, <1>9, <1>11, WriteFair

LEMMA EndCommitFair ==
  ASSUME Types, Types', Fair, NEW w \in Worker, EndCommit(w)
  PROVE  Fair'
<1>1. w \in Actor /\ pc[w] = "end" /\ pc[w] \in Holding /\ mem[w].row \in Row
  BY Roles, HeldBy DEF EndCommit, Holding
<1>p. PICK q \in Over : WritesSettled(w, [mem[w].row EXCEPT !.status = q])
  BY DEF EndCommit
<1> DEFINE to == [mem[w].row EXCEPT !.status = q]
<1>2. /\ to \in Row /\ to.bill = mem[w].row.bill /\ to.beat = mem[w].row.beat
      /\ to.cost = mem[w].row.cost /\ to.status \in Over
  BY <1>1 DEF Row
<1>3. WritesSettled(w, to) /\ UNCHANGED <<now, real, refused>> /\ Closes(w, "finally")
  BY <1>p DEF EndCommit
<1> HIDE DEF to
<1>4. Goes(w, "finally", [task |-> mem[w].task]) /\ "finally" \notin Knows
  BY <1>3 DEF Closes, Knows, Holding, Checking
<1>5. Copies
  BY <1>1, <1>4, GoesCopies
<1>6. \A v \in Worker \ {w} : pc'[v] = pc[v] /\ mem'[v] = mem[v]
  BY <1>4, Roles DEF Goes, Types, Sessions
<1>7. ASSUME NEW t \in Task, NEW r \in Row, t = mem[w].task,
             task' = [task EXCEPT ![t] = r], Unopened(t, r), raced => raced',
             ~raced' => mem[w].row.bill \in {None, task[t].bill},
             mem[w].row.bill # None => r.bill = None
      PROVE  Attended'
  <2>1. Attends(w, t) => r.bill = None
    BY <1>1, <1>7 DEF Attends, Unopened
  <2>2. QED BY <1>3, <1>6, <1>7, <2>1, AttendedLeft DEF Fair
<1>8. QED BY <1>1, <1>2, <1>3, <1>5, <1>7, SettlesFair

LEMMA CancelCommitFair ==
  ASSUME Types, Types', Fair, NEW c \in Request, CancelCommit(c)
  PROVE  Fair'
<1>1. c \in Actor /\ c \notin Worker /\ pc[c] \in Holding /\ mem[c].row \in Row
  BY Roles, HeldBy DEF CancelCommit, Holding
<1> DEFINE to == [mem[c].row EXCEPT !.status = "over", !.cancel = TRUE]
<1>2. /\ to \in Row /\ to.bill = mem[c].row.bill /\ to.beat = mem[c].row.beat
      /\ to.cost = mem[c].row.cost /\ to.status \in Over
  BY <1>1 DEF Row, Over
<1>3. WritesSettled(c, to) /\ UNCHANGED <<now, real, refused>> /\ Ends(c)
  BY DEF CancelCommit
<1> HIDE DEF to
<1>4. Goes(c, "idle", None) /\ "idle" \notin Knows
  BY <1>3 DEF Ends, Knows, Holding, Checking
<1>5. Copies /\ Runners
  BY <1>1, <1>4, GoesCopies, GoesRunners
<1>7. ASSUME NEW t \in Task, NEW r \in Row, t = mem[c].task,
             task' = [task EXCEPT ![t] = r], Unopened(t, r), raced => raced',
             ~raced' => mem[c].row.bill \in {None, task[t].bill},
             mem[c].row.bill # None => r.bill = None
      PROVE  Attended'
  BY <1>3, <1>5, <1>7, AttendedKept DEF Fair
<1>8. QED BY <1>1, <1>2, <1>3, <1>5, <1>7, SettlesFair

\* A run is settled by who has just read task and user.
LEMMA ReadSettled ==
  ASSUME Types, Types', Fair, Copies, Runners, UNCHANGED <<now, real, raced, refused>>,
         NEW t \in Task, NEW r \in Row, task' = [task EXCEPT ![t] = r], r.bill = None,
         Unopened(t, r), NEW end \in Time, end <= now, task[t].bill # None => task[t].bill <= end,
         ~raced /\ task[t].bill # None => DayOf(end) = Today, user' = Charged(user, task[t], end)
  PROVE  Fair'
<1>1. Attended'
  BY AttendedKept DEF Fair
<1>2. CASE task[t].bill = None
  <2>1. user' = user
    BY <1>2 DEF Charged
  <2>2. QED BY <1>1, <2>1, WriteFair DEF Fair
<1>3. CASE task[t].bill # None
  <2>1. /\ task[t] \in Row /\ user \in User /\ now \in Time /\ Tables
    BY DEF Types, Tables
  <2>2. /\ user'.used = Reset(user).used + SecondsOfDay(task[t], end)
        /\ user'.date = Today
    BY <1>3, <2>1, ChargedIs
  <2>3. ASSUME ~raced' PROVE Owes(user)'
    <3>1. SecondsOfDay(task[t], end) \in Nat
          /\ SecondsOfDay(task[t], end) <= SecondsOfDay(task[t], now)
      BY <1>3, <2>1, <2>3, DaySeconds DEF Today
    <3>2. Owes(user)
      BY <2>3 DEF Fair, Owed
    <3> DEFINE n == SecondsOfDay(task[t], end)
    <3>3. n \in Nat /\ n <= SecondsOfDay(task[t], now) /\ user'.used = Reset(user).used + n
      BY <2>2, <3>1
    <3> HIDE DEF n
    <3>4. QED BY <2>1, <2>2, <3>2, <3>3, SettledOwes DEF Fair
  <2>4. QED BY <1>1, <2>2, <2>3, WriteFair DEF Fair
<1>4. QED BY <1>2, <1>3

LEMMA FinallyFair ==
  ASSUME Types, Types', Fair, NEW w \in Worker, Finally(w)
  PROVE  Fair'
<1> DEFINE t == mem[w].task
           r == Settled(task[t], now)
<1>1. /\ w \in Actor /\ t \in Task /\ pc[w] = "finally"
      /\ UNCHANGED <<now, real, raced, refused>>
  BY Roles, WorkerTask DEF Finally, ghosts
<1>2. Copies /\ Runners
  <2>1. Goes(w, "idle", None) /\ "idle" \notin Knows
    BY DEF Finally, Ends, Knows, Holding, Checking
  <2>2. QED BY <1>1, <2>1, GoesCopies, GoesRunners
<1>3. CASE UNCHANGED rows
  BY <1>1, <1>2, <1>3, ReadsFair DEF rows
<1>4. CASE task' = [task EXCEPT ![t] = r] /\ user' = Charged(user, task[t], now)
  <2>1. /\ task[t] \in Row /\ Sane(task[t]) /\ Tables /\ now \in Time /\ now \in Nat
        /\ task[t].bill # None => task[t].bill <= now
    BY <1>1, DueRow, UsageAssumption DEF Types, Tables, Timely, Time
  <2>2. r \in Row /\ r.bill = None /\ Unopened(t, r)
    BY <2>1, SettledRow DEF Unopened
  <2>3. DayOf(now) = Today /\ now <= now
    BY <2>1 DEF Today
  <2> HIDE DEF r, t
  <2>4. QED BY <1>1, <1>2, <1>4, <2>1, <2>2, <2>3, ReadSettled
<1>5. QED BY <1>3, <1>4 DEF Finally

LEMMA RecoverFair ==
  ASSUME Types, Types', Fair, NEW t \in Task, NEW next \in {"queued"} \cup Over, Recover(t, next)
  PROVE  Fair'
<1> DEFINE f == task[t]
           s == Settled(f, f.beat)
           r == [s EXCEPT !.status = next]
<1>1. /\ f \in Row /\ Sane(f) /\ f.beat \in Time /\ f.beat <= now
      /\ f.bill # None => f.bill <= f.beat
  BY DEF Types, Tables, Timely, Sane, Row
<1>2. s \in Row /\ s.bill = None /\ s.beat = f.beat
  BY <1>1, SettledRow
<1>3. user' = Charged(user, f, f.beat) /\ task' = [task EXCEPT ![t] = r]
  BY DEF Recover
<1>4. r \in Row /\ r.bill = None /\ Unopened(t, r)
  BY <1>2 DEF Row, Unopened, Over
<1>5. UNCHANGED <<now, real, raced, refused, pc, mem>>
  BY DEF Recover, ghosts, work
<1>6. Copies /\ Runners
  BY <1>5 DEF Copies, Runners
<1>7. ~raced /\ task[t].bill # None => DayOf(f.beat) = Today
  BY DEF Recover, Fair, Attended, Attends
<1> HIDE DEF r, s
<1>8. QED BY <1>1, <1>3, <1>4, <1>5, <1>6, <1>7, ReadSettled

LEMMA CrashFair ==
  ASSUME QuietMidnight, Types, Types', Fair, NEW w \in Worker, Crash(w)
  PROVE  Fair'
<1> DEFINE t == mem[w].task
<1>1. /\ w \in Actor /\ t \in Task /\ task[t] \in Row /\ DayOf(task[t].beat) = Today
      /\ UNCHANGED <<now, user, task, real, raced, refused>>
  BY Roles, WorkerTask DEF Crash, Today, Types, Tables, rows, ghosts
<1>2. Goes(w, "idle", None) /\ "idle" \notin Knows
  BY DEF Crash, Ends, Knows, Holding, Checking
<1>3. Copies
  BY <1>1, <1>2, GoesCopies
<1>4. \A v \in Worker \ {w} : pc'[v] = pc[v] /\ mem'[v] = mem[v]
  BY <1>2, Roles DEF Goes, Types, Sessions
<1>5. task' = [task EXCEPT ![t] = task[t]] /\ Unopened(t, task[t])
  BY <1>1 DEF Types, Tables, Unopened
<1>6. Attended'
  <2> HIDE DEF t
  <2>1. t = mem[w].task
    BY DEF t
  <2>2. QED BY <1>1, <1>4, <1>5, <2>1, AttendedLeft DEF Fair
<1>7. task[t].bill \in {None, task[t].bill}
  OBVIOUS
<1> HIDE DEF t
<1>8. QED BY <1>1, <1>3, <1>5, <1>6, <1>7, WriteFair DEF Fair

\* Billing is opened: today's second is not charged for before it counts as used.
LEMMA BeginCommitFair ==
  ASSUME Types, Types', Fair, NEW w \in Worker, BeginCommit(w)
  PROVE  Fair'
<1> DEFINE t == mem[w].task
           f == mem[w].row
           to == [f EXCEPT !.status = "processing", !.bill = now, !.beat = now]
           r == Flush(task[t], f, to)
<1>1. /\ w \in Actor /\ pc[w] = "begin" /\ pc[w] \in Holding /\ f \in Row /\ t \in Task
      /\ task[t] \in Row /\ Tables /\ now \in Time /\ now \in Nat /\ Sane(f)
      /\ f.beat <= task[t].beat /\ Sane(task[t]) /\ task[t].beat \in Nat /\ f.beat \in Nat
  BY Roles, HeldBy, UsageAssumption DEF BeginCommit, Holding, Types, Tables, Timely, Row, Time
<1>2. UNCHANGED <<now, user, refused>> /\ Closes(w, "run") /\ Writes(w, to)
      /\ real' = [real EXCEPT ![t] = @ + 1]
  BY DEF BeginCommit
<1>3. to \in Row /\ to.bill = now /\ to.beat = now
  BY <1>1 DEF Row
<1> HIDE DEF to
<1>4. /\ r \in Row /\ r.bill = IF f.bill = now THEN task[t].bill ELSE now
      /\ r.beat = IF f.beat = now THEN task[t].beat ELSE now
  BY <1>1, <1>3, FlushRow
<1>5. task' = [task EXCEPT ![t] = r] /\ (raced => raced')
  BY <1>1, <1>2, <1>3, WritesRow
<1> HIDE DEF r
<1>6. r.beat = now
  BY <1>1, <1>4 DEF Sane
<1>7. Copies /\ Runners
  <2>1. Goes(w, "run", [task |-> mem[w].task]) /\ "run" \notin Knows
    BY <1>2 DEF Closes, Knows, Holding, Checking
  <2>2. QED BY <1>1, <2>1, GoesCopies, GoesRunners
<1> HIDE DEF t, f
<1>8. /\ task'[t] = r /\ \A u \in Task : u # t => task'[u] = task[u] /\ real'[u] = real[u]
      /\ real'[t] = real[t] + 1
  BY <1>1, <1>2, <1>5 DEF Types, Tables, Ghosts
<1>9. /\ Paid \in [Task -> Nat] /\ Total \in Nat
      /\ \A u \in Task : /\ Paid[u] = real[u] - SecondsOfDay(task[u], now)
                         /\ SecondsOfDay(task[u], now) \in Nat /\ real[u] \in Nat
                         /\ SecondsOfDay(task[u], now) <= real[u]
  BY PaidTypes DEF Fair
<1>10. SecondsOfDay(r, now) \in {0, 1, SecondsOfDay(task[t], now)}
  <2>1. CASE r.bill = now
    <3>1. DayStart(now) \in Nat /\ DayStart(now) <= now
      BY <1>1, Days
    <3>2. QED BY <1>1, <2>1, <3>1 DEF SecondsOfDay
  <2>2. CASE r.bill = task[t].bill
    BY <2>2 DEF SecondsOfDay
  <2>3. QED BY <1>4, <2>1, <2>2
<1>11. Reserved'
  <2>1. \A u \in Task : SecondsOfDay(task'[u], now) <= real'[u]
    BY <1>1, <1>8, <1>9, <1>10
  <2>2. QED BY <1>2, <2>1 DEF Reserved
<1>12. Total' \in Nat /\ Total <= Total'
  <2>1. Paid' = [u \in Task |-> real'[u] - SecondsOfDay(task'[u], now)]
    BY <1>2 DEF Paid
  <2>2. \A u \in Task : Paid[u] <= Paid'[u]
    <3> TAKE u \in Task
    <3>1. Paid'[u] = real'[u] - SecondsOfDay(task'[u], now)
      BY <2>1
    <3>2. CASE u = t
      BY <1>1, <1>8, <1>9, <1>10, <3>1, <3>2
    <3>3. CASE u # t
      BY <1>8, <1>9, <3>1, <3>3
    <3>4. QED BY <3>2, <3>3
  <2>3. (Types /\ Reserved => Paid \in [Task -> Nat])'
    BY PaidNat, PTL
  <2>4. Paid' \in [Task -> Nat]
    BY <1>11, <2>3
  <2>5. QED BY <1>9, <2>2, <2>4, SumMonotone, UsageAssumption DEF Total
<1>13. user \in User /\ user.date \in Nat /\ user.date <= Today /\ Reset(user)' = Reset(user)
       /\ Reset(user).used \in Nat
  <2>1. Reset(user)' = Reset(user)
    BY <1>2 DEF Reset
  <2>2. QED BY <2>1, ResetIs DEF Fair, Dated, Types, Tables, User
<1>14. Dated' /\ Fresh'
  BY <1>2, <1>7, <1>13, CopiesKept DEF Fair
<1>15. Owed'
  <2>1. ~raced' => Owes(user)'
    BY <1>5, <1>9, <1>12, <1>13 DEF Fair, Owed, Owes
  <2>2. QED BY <1>2, <1>5, <1>7, <1>9, <1>12, <2>1, OwedKept DEF Fair
<1>16. Attended'
  <2> SUFFICES ASSUME ~raced', NEW u \in Task, task'[u].status = "processing",
                      task'[u].bill # None
               PROVE  DayOf(task'[u].beat) = Today' \/ \E v \in Worker : Attends(v, u)'
    BY DEF Attended
  <2>1. CASE u = t
    BY <1>2, <1>6, <1>8, <2>1 DEF Today
  <2>2. CASE u # t
    <3>1. task'[u] = task[u] /\ Today' = Today
      BY <1>2, <1>8, <2>2 DEF Today
    <3>2. CASE DayOf(task[u].beat) # Today
      <4>1. PICK v \in Worker : Attends(v, u)
        BY <1>5, <3>1, <3>2 DEF Fair, Attended
      <4>2. Attends(v, u)'
        BY <1>7, <3>1, <4>1 DEF Attends, AtRun, Runners
      <4>3. QED BY <4>2
    <3>3. QED BY <3>1, <3>2
  <2>3. QED BY <2>1, <2>2
<1>17. QED BY <1>2, <1>11, <1>14, <1>15, <1>16 DEF Fair

\* A second passes: each run that is billed has used it. At midnight everybody starts anew.
LEMMA TickFair ==
  ASSUME QuietMidnight, Types, Types', Fair, Tick
  PROVE  Fair'
<1>1. /\ now \in Nat /\ now' = now + 1 /\ now' \in Time /\ now' \in Nat /\ now \in Time
      /\ Today \in Nat /\ Today' \in Nat /\ Today <= Today'
      /\ Today = DayOf(now) /\ Today' = DayOf(now')
  <2>1. now \in Nat /\ now' = now + 1 /\ now' \in Time /\ now' \in Nat /\ now \in Time
    BY UsageAssumption DEF Tick, Types, Tables, Time
  <2>2. QED BY <2>1, DaysGrow DEF Today
<1>2. UNCHANGED <<user, pc, mem, raced, refused>>
  BY DEF Tick, work
<1>3. ASSUME NEW t \in Task
      PROVE  /\ task'[t].beat \in {now', task[t].beat} /\ task'[t].bill = task[t].bill
             /\ task'[t].status = task[t].status
             /\ real'[t] = Open(t) + IF Today' = Today THEN real[t] ELSE 0
             /\ Open(t) \in Nat /\ (task[t].bill # None => Open(t) >= 1)
             /\ task[t].bill # None => task[t].bill \in Nat /\ task[t].bill <= now
             /\ task'[t] \in Row /\ task[t] \in Row
  <2>1. task[t] \in Row /\ task'[t] = IF Beats(t) THEN [task[t] EXCEPT !.beat = now'] ELSE task[t]
    BY DEF Tick, Types, Tables
  <2>2. real'[t] = Open(t) + IF Today' = Today THEN real[t] ELSE 0
    BY DEF Tick, Today
  <2>3. task[t].bill # None => task[t].bill \in Nat /\ task[t].bill <= now
    <3>1. Tables /\ Sane(task[t])
      BY DEF Types, Timely
    <3>2. QED BY <2>1, <3>1, DueRow
  <2>4. task'[t] \in Row
    BY DEF Types, Tables
  <2>5. QED BY <2>1, <2>2, <2>3, <2>4, OpenRuns DEF Row
<1>4. /\ Paid \in [Task -> Nat] /\ Total \in Nat
      /\ \A u \in Task : /\ Paid[u] = real[u] - SecondsOfDay(task[u], now)
                         /\ SecondsOfDay(task[u], now) \in Nat /\ real[u] \in Nat
                         /\ SecondsOfDay(task[u], now) <= real[u]
  BY PaidTypes DEF Fair
<1>5. DayStart(now') \in Nat /\ DayStart(now') <= now' /\ DayStart(now) <= now /\ DayStart(now) \in Nat
  BY <1>1, Days
<1>6. Reserved' /\ (Today' = Today => \A t \in Task : Paid[t] <= Paid'[t])
  <2>1. ASSUME NEW t \in Task
        PROVE  /\ SecondsOfDay(task'[t], now') <= real'[t]
               /\ Today' = Today =>
                    real[t] - SecondsOfDay(task[t], now) <= real'[t] - SecondsOfDay(task'[t], now')
    <3>1. CASE task[t].bill = None
      <4>1. SecondsOfDay(task'[t], now') = 0 /\ SecondsOfDay(task[t], now) = 0
        BY <1>3, <3>1 DEF SecondsOfDay
      <4>2. QED BY <1>3, <1>4, <4>1
    <3>2. CASE task[t].bill # None
      <4>1. CASE Today' = Today
        <5>1. DayStart(now') = DayStart(now)
          BY <1>1, <4>1 DEF DayStart
        <5>2. SecondsOfDay(task'[t], now') = SecondsOfDay(task[t], now) + 1
          BY <1>1, <1>3, <1>5, <3>2, <5>1 DEF SecondsOfDay
        <5>3. QED BY <1>3, <1>4, <3>2, <4>1, <5>2
      <4>2. CASE Today' # Today
        <5>1. DayStart(now') = now'
          BY <1>1, <4>2, Midnight
        <5>2. SecondsOfDay(task'[t], now') = 1
          BY <1>1, <1>3, <3>2, <5>1 DEF SecondsOfDay
        <5>3. QED BY <1>3, <3>2, <4>2, <5>2
      <4>3. QED BY <4>1, <4>2
    <3>3. QED BY <3>1, <3>2
  <2>2. Paid' = [t \in Task |-> real'[t] - SecondsOfDay(task'[t], now')]
    BY DEF Paid
  <2>3. QED BY <1>4, <2>1, <2>2 DEF Reserved
<1>7. Total' \in Nat /\ (Today' = Today => Total <= Total')
  <2>1. (Types /\ Reserved => Paid \in [Task -> Nat])'
    BY PaidNat, PTL
  <2>2. Paid' \in [Task -> Nat]
    BY <1>6, <2>1
  <2>3. QED BY <1>4, <1>6, <2>2, SumMonotone, UsageAssumption DEF Total
<1>8. ASSUME NEW a \in Actor, pc[a] \in Knows
      PROVE  mem[a].user \in User /\ mem[a].user.date \in Nat /\ mem[a].user.date <= Today
  <2>1. mem[a].user \in User /\ user \in User /\ mem[a].user.date <= user.date /\ user.date <= Today
    BY <1>8, Remembered DEF Fair, Dated, Types, Tables
  <2>2. QED BY <1>1, <2>1 DEF User
<1>9. user \in User /\ user.date \in Nat /\ user.date <= Today
  BY DEF Fair, Dated, Types, Tables, User
<1>10. Dated'
  BY <1>1, <1>2, <1>9 DEF Fair, Dated
<1>11. CASE Today' = Today
  <2>1. \A u \in User : Reset(u)' = Reset(u) /\ Reset(u).used \in Nat
    <3>1. \A u \in User : Reset(u).used \in Nat
      BY ResetIs DEF Types, User
    <3>2. QED BY <1>1, <1>11, <3>1 DEF Reset
  <2>2. Reset(user)' = Reset(user) /\ Reset(user).used \in Nat
    BY <1>1, <1>2, <1>9, <1>11, <2>1 DEF Reset
  <2>3. ASSUME NEW a \in Actor, pc[a] \in Knows
        PROVE  Reset(mem[a].user)' = Reset(mem[a].user) /\ Reset(mem[a].user).used \in Nat
    BY <1>1, <1>2, <1>8, <1>11, <2>1, <2>3 DEF Reset
  <2>4. Fresh'
    BY <1>2, <1>11, <2>3 DEF Fair, Fresh, Knows, Checking
  <2>5. Owed'
    BY <1>2, <1>4, <1>7, <1>11, <2>2, <2>3 DEF Fair, Owed, Owes, Knows
  <2>6. Attended'
    <3> SUFFICES ASSUME ~raced, NEW u \in Task, task[u].status = "processing",
                        task[u].bill # None
                 PROVE  DayOf(task'[u].beat) = Today' \/ \E v \in Worker : Attends(v, u)'
      BY <1>2, <1>3 DEF Attended
    <3>1. CASE DayOf(task[u].beat) = Today
      BY <1>1, <1>3, <1>11, <3>1
    <3>2. CASE DayOf(task[u].beat) # Today
      <4>1. PICK v \in Worker : Attends(v, u)
        BY <3>2 DEF Fair, Attended
      <4>2. Attends(v, u)'
        BY <1>2, <1>3, <4>1 DEF Attends, AtRun
      <4>3. QED BY <4>2
    <3>3. QED BY <3>1, <3>2
  <2>7. QED BY <1>2, <1>6, <1>10, <2>4, <2>5, <2>6 DEF Fair
<1>12. CASE Today' # Today
  <2>1. Quiet
    BY <1>1, <1>12 DEF Tick
  <2>2. Fresh'
    BY <1>2, <2>1 DEF Fresh, Quiet, Checking
  <2>3. Reset(user)'.used = 0 /\ \A a \in Actor : pc[a] \in Knows => Reset(mem[a].user)'.used = 0
    BY <1>1, <1>2, <1>8, <1>9, <1>12 DEF Reset
  <2>4. Owed'
    BY <1>2, <1>7, <2>3 DEF Owed, Owes, Knows
  <2>5. Attended'
    <3> SUFFICES ASSUME NEW u \in Task, task[u].status = "processing"
                 PROVE  \E v \in Worker : Attends(v, u)'
      BY <1>2, <1>3 DEF Attended
    <3>1. PICK v \in AtRun(u) : pc[v] = "end" => mem[v].row.bill = task[u].bill
      BY <2>1 DEF Quiet
    <3>2. v \in Worker /\ Attends(v, u)'
      BY <1>2, <1>3, <3>1 DEF Attends, AtRun
    <3>3. QED BY <3>2
  <2>6. QED BY <1>2, <1>6, <1>10, <2>2, <2>4, <2>5 DEF Fair
<1>13. QED BY <1>11, <1>12

-----------------------------------------------------------------------------
(* Charges are fair: theorems *)

LEMMA NextFair ==
  ASSUME QuietMidnight, Types, Types', Fair, Next
  PROVE  Fair'
<1>1. CASE Tick \/ BeatLoad \/ AdminReset
  BY <1>1, TickFair, BeatLoadFair, AdminResetFair
<1>2. CASE \E a \in Actor : Commit(a)
  <2>1. PICK a \in Actor : Commit(a)
    BY <1>2
  <2>2. CASE a \in Worker
    <3>1. \/ DispatchCommit(a) \/ RunLoad(a) \/ RunLeaves(a) \/ LeaveCommit(a)
          \/ BeginCommit(a) \/ EndLoad(a) \/ EndCommit(a) \/ Finally(a)
      BY <2>1, <2>2, Roles DEF Commit
    <3>2. QED BY <2>2, <3>1, DispatchCommitFair, RunLeavesFair, LeaveCommitFair,
               BeginCommitFair, LoadsFair, EndCommitFair, FinallyFair
  <2>3. CASE a \in Request
    <3>1. StartCommit(a) \/ CancelCommit(a) \/ UsageCommit(a)
      BY <2>1, <2>3, Roles DEF Commit
    <3>2. QED BY <2>3, <3>1, StartCommitFair, CancelCommitFair, UsageCommitFair
  <2>4. CASE a = Beat
    <3>1. BeatCommit
      BY <2>1, <2>4, Roles DEF Commit
    <3>2. QED BY <3>1, BeatCommitFair
  <2>5. QED BY <2>1, <2>2, <2>3, <2>4 DEF Commit
<1>3. CASE \E w \in Worker : Crash(w) \/ \E t \in Task : DispatchLoad(w, t)
  BY <1>3, CrashFair, LoadsFair
<1>4. CASE \E t \in Task, next \in {"queued"} \cup Over : Recover(t, next)
  BY <1>4, RecoverFair
<1>5. CASE \E c \in Request : UsageLoad(c) \/ \E t \in Task : StartLoad(c, t) \/ CancelLoad(c, t)
  BY <1>5, UsageLoadFair, LoadsFair
<1>6. QED BY <1>1, <1>2, <1>3, <1>4, <1>5 DEF Next

LEMMA InitFair == Init => Fair
<1> SUFFICES ASSUME Init PROVE Fair
  OBVIOUS
<1>1. IInv
  BY InitInv
<1>2. /\ now = 0 /\ user.used = 0 /\ user.date = 0 /\ Today = 0 /\ refused = FALSE
      /\ \A t \in Task : task[t].bill = None /\ real[t] = 0
      /\ \A a \in Actor : pc[a] = "idle"
  BY UsageAssumption DEF Init, Queued, Today, DayOf
<1>3. \A t \in Task : SecondsOfDay(task[t], now) = 0
  BY <1>2 DEF SecondsOfDay
<1>4. Reserved /\ Dated /\ Fresh /\ Attended
  BY <1>2, <1>3 DEF Reserved, Dated, Fresh, Attended, Knows, Checking, Holding
<1>5. Total \in Nat
  BY <1>1, <1>4, PaidTypes DEF IInv
<1>6. Owed
  BY <1>2, <1>5 DEF Owed, Owes, Reset, Holding, Today
<1>7. QED BY <1>2, <1>4, <1>6 DEF Fair

LEMMA StutterFair == Types /\ Fair /\ UNCHANGED vars => Fair'
<1> SUFFICES ASSUME Types, Fair, UNCHANGED vars PROVE Fair'
  OBVIOUS
<1>1. UNCHANGED <<now, user, task, pc, mem, real, raced, refused>>
  BY DEF vars, rows, work, ghosts
<1>2. Today' = Today /\ Paid' = Paid /\ \A t \in Task : AtRun(t)' = AtRun(t)
  BY <1>1 DEF Today, Paid, AtRun
<1>3. Total' = Total
  BY <1>2 DEF Total
<1>4. Owed'
  BY <1>1, <1>3 DEF Fair, Owed, Owes, Reset
<1>5. Reserved' /\ Dated' /\ Fresh'
  BY <1>1, <1>2 DEF Fair, Reserved, Dated, Fresh, Reset
<1>6. Attended'
  BY <1>1, <1>2 DEF Fair, Attended, Attends
<1>7. QED BY <1>1, <1>4, <1>5, <1>6 DEF Fair

\* Charges are always fair, when nothing dies around midnight.
LEMMA FairAlways ==
  ASSUME QuietMidnight
  PROVE  Spec => [](Types /\ Fair)
<1>1. Init => Fair
  BY InitFair
<1>2. Types /\ Types' /\ Fair /\ [Next]_vars => Fair'
  BY NextFair, StutterFair
<1>3. IInv => Types
  BY DEF IInv
<1>4. QED BY <1>1, <1>2, <1>3, Inductive, PTL DEF Spec

\* NotOvercharged: whoever settles a run, resets the user or is late with either, the user is
\* never charged for more seconds of today than runs took today, if no run dies around
\* midnight and no session that only checks spans it (settle_gpu_usage, which adds to what its
\* session has loaded; reset_daily_gpu_usage_if_needed).
THEOREM FairCharge ==
  ASSUME QuietMidnight
  PROVE  Spec => []NotOvercharged
<1>1. Types /\ Fair => NotOvercharged
  <2> SUFFICES ASSUME Types, Fair, ~raced, user.date = DayOf(now) PROVE user.used <= RealUse
    BY DEF NotOvercharged
  <2>1. Total \in Nat /\ RealUse \in Nat /\ Total <= RealUse
    BY PaidIsUsed DEF Fair
  <2>2. Reset(user) = user /\ user.used \in Nat /\ Owes(user)
    BY DEF Reset, Types, Tables, User, Fair, Owed
  <2>3. QED BY <2>1, <2>2 DEF Owes
<1>2. QED BY <1>1, FairAlways, PTL

\* NotRefused: nobody is refused a start whose runs have not used up the day's quota
\* (ensure_gpu_daily_quota_available), under the same assumption.
THEOREM FairRefusal ==
  ASSUME QuietMidnight
  PROVE  Spec => []NotRefused
<1>1. Types /\ Fair => NotRefused
  BY DEF Fair, NotRefused
<1>2. QED BY <1>1, FairAlways, PTL
=============================================================================
