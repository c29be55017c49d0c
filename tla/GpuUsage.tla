------------------------------- MODULE GpuUsage -------------------------------
(***************************************************************************)
(* What a user's GPU time costs: settle_gpu_usage and the daily reset of   *)
(* app/services/user_service.py, where reconstruction.py, task_service.py  *)
(* and cleanup_tasks.py call them.                                         *)
(*                                                                         *)
(* The rows are those of `users` (seconds used, and the day they belong    *)
(* to) and `reconstruction_tasks` (start of billing, cost).  A session     *)
(* loads a task together with its owner (get_by_public_id), works for a    *)
(* while, and settles.  get_for_update locks the user's row then, but the  *)
(* session has the user already, and SELECT ... FOR UPDATE does not        *)
(* refresh what it has: the charge is added to the amount that was loaded. *)
(* So a session is two steps, a load and a commit, and what it commits are *)
(* the columns it changed.  Only the recovery and the administrator read   *)
(* the user under the lock.                                                *)
(*                                                                         *)
(* The clock counts seconds, a few of which make a day.  A charge is       *)
(* rounded up: each second that a run touches counts.  The queue, the      *)
(* broker and the leases are ReconTask's and GpuLease's.                   *)
(***************************************************************************)
EXTENDS Integers, FiniteSetsExt

CONSTANTS
  Task,         \* tasks of one user
  Worker,       \* GPU workers
  Request,      \* API requests
  Beat,         \* the daily reset of Celery Beat
  Quota,        \* gpu_quota: seconds a day
  Day,          \* seconds of a day
  QuietMidnight, \* TRUE: no run dies around midnight, and no session that only checks
                 \* spans it
  MaxTime,      \* bound: the clock
  MaxEvents,    \* bound: requests, messages delivered twice and workers that die
  None

ASSUME UsageAssumption ==
  /\ IsFiniteSet(Task) /\ IsFiniteSet(Worker)
  /\ Quota \in Nat /\ Day \in Nat \ {0}
  /\ QuietMidnight \in BOOLEAN
  /\ {MaxTime, MaxEvents} \subseteq Nat
  /\ Worker \cap Request = {} /\ Beat \notin Worker \cup Request
  /\ None \notin Task \cup Nat

VARIABLES
  now,      \* the clock
  user,     \* the user's row
  task,     \* the tasks' rows
  pc, mem,  \* sessions: next step, what they have loaded
  events, crashes,  \* so far; workers that died
  real,     \* seconds of today that each task's runs took: each worker's that is at one, and
            \* a dead run's until it is found out
  spent,    \* seconds that each task's runs took
  raced,    \* a session wrote a start of billing that had changed since it was loaded
  refused   \* the daily quota was held against a user who had not used it up

rows   == <<user, task>>
work   == <<pc, mem>>
counts == <<events, crashes>>
ghosts == <<real, spent, raced, refused>>
vars   == <<now, rows, work, counts, ghosts>>

Actor == Worker \cup Request \cup {Beat}
Time  == 0..MaxTime

DayOf(t)   == t \div Day      \* gpu_usage_date
DayStart(t) == DayOf(t) * Day  \* midnight in gpu_quota_timezone

User == [used: Nat, date: 0..DayOf(MaxTime)]

\* No longer active: completed, failed, to be reviewed or cancelled; and partially
\* completed, as a failed run leaves a task that has a PLY.
Over == {"over", "partial"}

Row == [status: {"queued", "processing"} \cup Over,
        cancel: BOOLEAN,         \* cancel_requested
        bill: Time \cup {None},  \* gpu_billing_started_at
        beat: Time,              \* heartbeat_at
        cost: Nat]               \* gpu_seconds_cost

\* A task that was started for the first time.
Queued == [status |-> "queued", cancel |-> FALSE, bill |-> None, beat |-> 0, cost |-> 0]

Init ==
  /\ now = 0
  /\ user = [used |-> 0, date |-> 0]
  /\ task = [t \in Task |-> Queued]
  /\ pc = [a \in Actor |-> "idle"] /\ mem = [a \in Actor |-> None]
  /\ events = 0 /\ crashes = 0
  /\ real = [t \in Task |-> 0] /\ spent = [t \in Task |-> 0]
  /\ raced = FALSE /\ refused = FALSE

-----------------------------------------------------------------------------
(* Sessions *)

\* The row after a commit: the columns that were changed, the others as they are.
Flush(row, from, to) ==
  [c \in DOMAIN row |-> IF to[c] = from[c] THEN row[c] ELSE to[c]]

\* reset_daily_gpu_usage_if_needed
Reset(u) == IF u.date = DayOf(now) THEN u ELSE [used |-> 0, date |-> DayOf(now)]

\* Mutant: the whole run is charged to the day it ended on.
SecondsOfDay_Whole(r, end) == IF r.bill = None THEN 0 ELSE end - r.bill + 1

\* settle_gpu_usage: seconds of the day the run ended on, ...
SecondsOfDay(r, end) ==
  IF r.bill = None THEN 0
  ELSE end - (IF r.bill > DayStart(end) THEN r.bill ELSE DayStart(end)) + 1

\* Mutants: the run costs what its last day did; start and end are swapped.
Seconds_Today(r, end) == SecondsOfDay(r, end)
Seconds_Swapped(r, end) == IF r.bill = None THEN 0 ELSE r.bill - end

\* ... and of the whole run.
Seconds(r, end) == IF r.bill = None THEN 0 ELSE end - r.bill + 1

\* Mutant: the start of billing is not cleared.
Settled_StaysOpen(r, end) == [r EXCEPT !.cost = @ + Seconds(r, end)]

Settled(r, end) == [r EXCEPT !.cost = @ + Seconds(r, end), !.bill = None]

Charged(u, r, end) ==
  IF r.bill = None THEN u ELSE [Reset(u) EXCEPT !.used = @ + SecondsOfDay(r, end)]

Goes(a, step, m) ==
  /\ pc'  = [pc EXCEPT ![a] = step]
  /\ mem' = [mem EXCEPT ![a] = m]

Ends(a) == Goes(a, "idle", None)

Event ==
  /\ events < MaxEvents
  /\ events' = events + 1

\* Worker w closes its session and goes on with its task.
Closes(w, step) == Goes(w, step, [task |-> mem[w].task])

\* Session a loads task t and its owner.
Loads(a, step, t) == Goes(a, step, [task |-> t, row |-> task[t], user |-> user])

\* The user's row after a session that loaded u has reset it, flushed, and charged it.
Owner(u, charged) == Flush(Flush(user, u, Reset(u)), Reset(u), charged)

\* Session a commits its task as `to`.
Writes(a, to) ==
  LET m == mem[a]
  IN  /\ task' = [task EXCEPT ![m.task] = Flush(@, m.row, to)]
      /\ raced' = (raced \/ (to.bill # m.row.bill /\ task[m.task].bill # m.row.bill))

\* ... having settled a run that ends now.
WritesSettled(a, to) ==
  LET m == mem[a]
  IN  /\ Writes(a, Settled(to, now))
      /\ user' = IF m.row.bill = None THEN user ELSE Owner(m.user, Charged(m.user, m.row, now))

-----------------------------------------------------------------------------
(* Workers *)

\* prepare_gpu_dispatch loads a task that waits.  Its message has been delivered before
\* if another worker is at work on it ...
DispatchLoad(w, t) ==
  /\ pc[w] = "idle"
  /\ task[t].status = "queued"
  /\ IF \E v \in Worker : pc[v] # "idle" /\ mem[v].task = t THEN Event ELSE UNCHANGED events
  /\ Loads(w, "dispatch", t)
  /\ UNCHANGED <<now, rows, crashes, ghosts>>

\* Seconds of today that runs of the user's tasks took.
RealUse == LET Of(t) == real[t] IN MapThenSumSet(Of, Task)

\* Mutant: yesterday's seconds count as today's.
UsedUp_Stale(u) == u.used >= Quota

\* gpu_quota_status, ensure_gpu_daily_quota_available
UsedUp(u) == Reset(u).used >= Quota

\* ... and refuses it if the day's quota is used up.
DispatchCommit(w) ==
  /\ pc[w] = "dispatch"
  /\ LET m == mem[w]
     IN  IF UsedUp(m.user)
           THEN /\ \E s \in Over : Writes(w, [m.row EXCEPT !.status = s])
                /\ refused' = (refused \/ (~raced /\ RealUse < Quota))
                /\ Ends(w)
           ELSE /\ Closes(w, "leased")
                /\ UNCHANGED <<task, raced, refused>>
  /\ user' = Flush(user, mem[w].user, Reset(mem[w].user))
  /\ UNCHANGED <<now, counts, real, spent>>

AtRun(t) == {w \in Worker : pc[w] \in {"run", "end"} /\ mem[w].task = t}

\* Which tasks a run begins of: those that wait, those a failed run left partially
\* completed, and those of a run whose heartbeat is old.
Begins(t) ==
  \/ task[t].status \in {"queued", "partial"}
  \/ task[t].status = "processing" /\ AtRun(t) = {}

\* run_reconstruction_algorithm loads the task, ...
RunLoad(w) ==
  /\ pc[w] = "leased"
  /\ LET t == mem[w].task
     IN  /\ task[t].cancel \/ Begins(t)
         /\ Loads(w, "begin", t)
  /\ UNCHANGED <<now, rows, counts, ghosts>>

\* ... and leaves it alone if it is over, or runs with a heartbeat that is not old.
RunLeaves(w) ==
  /\ pc[w] = "leased"
  /\ ~task[mem[w].task].cancel
  /\ task[mem[w].task].status \in {"over", "processing"}
  /\ Ends(w)
  /\ UNCHANGED <<now, rows, counts, ghosts>>

\* A cancelled one is set so; what it may owe is not settled.
LeaveCommit(w) ==
  /\ pc[w] = "begin" /\ mem[w].row.cancel
  /\ Writes(w, [mem[w].row EXCEPT !.status = "over"])
  /\ Ends(w)
  /\ UNCHANGED <<now, user, counts, real, spent, refused>>

BeginCommit(w) ==
  /\ pc[w] = "begin" /\ ~mem[w].row.cancel
  /\ Writes(w, [mem[w].row EXCEPT !.status = "processing", !.bill = now, !.beat = now])
  /\ Closes(w, "run")
  /\ real' = [real EXCEPT ![mem[w].task] = @ + 1]
  /\ spent' = [spent EXCEPT ![mem[w].task] = @ + 1]
  /\ UNCHANGED <<now, user, counts, refused>>

\* The poll loop beats, every second here ...
Beats(t) == ~task[t].cancel /\ \E w \in Worker : pc[w] = "run" /\ mem[w].task = t

\* ... until the run is cancelled, ends or raises, and its task is loaded: results are
\* registered, or the failure.
EndLoad(w) ==
  /\ pc[w] = "run"
  /\ Loads(w, "end", mem[w].task)
  /\ UNCHANGED <<now, rows, counts, ghosts>>

EndCommit(w) ==
  /\ pc[w] = "end"
  /\ \E s \in Over : WritesSettled(w, [mem[w].row EXCEPT !.status = s])
  /\ Closes(w, "finally")
  /\ UNCHANGED <<now, counts, real, spent, refused>>

\* finally: what is still open is settled, in a session that does nothing else.
Finally(w) ==
  /\ pc[w] = "finally"
  /\ LET r == task[mem[w].task]
     IN  IF r.status # "processing" /\ r.bill # None
           THEN /\ task' = [task EXCEPT ![mem[w].task] = Settled(r, now)]
                /\ user' = Charged(user, r, now)
           ELSE UNCHANGED rows
  /\ Ends(w)
  /\ UNCHANGED <<now, counts, ghosts>>

\* The worker dies; what it had loaded is lost.
Crash(w) ==
  /\ pc[w] \in {"run", "end"}
  /\ QuietMidnight => DayOf(task[mem[w].task].beat) = DayOf(now)
  /\ Event
  /\ crashes' = crashes + 1
  /\ Ends(w)
  /\ UNCHANGED <<now, rows, ghosts>>

-----------------------------------------------------------------------------
(* The recovery, the daily reset and the administrator *)

\* recover_stale_tasks settles up to the last heartbeat and queues the task again, or
\* gives it up.  It reads task and user under their locks, when the heartbeat is stale.
Recover(t, next) ==
  /\ task[t].status = "processing"
  /\ AtRun(t) = {}
  /\ LET r == task[t]
     IN  /\ task' = [task EXCEPT ![t] = [Settled(r, r.beat) EXCEPT !.status = next]]
         /\ user' = Charged(user, r, r.beat)
  /\ UNCHANGED <<now, work, counts, ghosts>>

\* Mutant: only users without a date are reset.
Outdated_NoDate(u) == u.date \notin 0..MaxTime

\* reset_daily_gpu_usage_for_all: its selection.
Outdated(u) == u.date # DayOf(now)

\* It reads users without a lock, and has looked at the clock before.
BeatLoad ==
  /\ pc[Beat] = "idle"
  /\ Outdated(user)
  /\ Goes(Beat, "reset", [user |-> user, to |-> Reset(user)])
  /\ UNCHANGED <<now, rows, counts, ghosts>>

BeatCommit ==
  /\ pc[Beat] = "reset"
  /\ user' = Flush(user, mem[Beat].user, mem[Beat].to)
  /\ Ends(Beat)
  /\ UNCHANGED <<now, task, counts, ghosts>>

\* POST /users/{id}/gpu-usage/reset
AdminReset ==
  /\ Event
  /\ user' = [used |-> 0, date |-> DayOf(now)]
  /\ UNCHANGED <<now, task, work, crashes, ghosts>>

-----------------------------------------------------------------------------
(* Requests of the user *)

\* start_reconstruction and start_mesh_reconstruction, of a task that is over
StartLoad(c, t) ==
  /\ pc[c] = "idle"
  /\ Event
  /\ task[t].status \in Over
  /\ Loads(c, "start", t)
  /\ UNCHANGED <<now, rows, crashes, ghosts>>

\* What was still open is forgotten.
StartCommit(c) ==
  /\ pc[c] = "start"
  /\ Writes(c, [mem[c].row EXCEPT !.status = "queued", !.cancel = FALSE, !.bill = None])
  /\ Ends(c)
  /\ UNCHANGED <<now, user, counts, real, spent, refused>>

\* request_cancel, of an active task
CancelLoad(c, t) ==
  /\ pc[c] = "idle"
  /\ Event
  /\ task[t].status \in {"queued", "processing"}
  /\ Loads(c, "cancel", t)
  /\ UNCHANGED <<now, rows, crashes, ghosts>>

CancelCommit(c) ==
  /\ pc[c] = "cancel"
  /\ WritesSettled(c, [mem[c].row EXCEPT !.status = "over", !.cancel = TRUE])
  /\ Ends(c)
  /\ UNCHANGED <<now, counts, real, spent, refused>>

\* GET /users/me/usage
UsageLoad(c) ==
  /\ pc[c] = "idle"
  /\ Event
  /\ Outdated(user)
  /\ Goes(c, "usage", [user |-> user])
  /\ UNCHANGED <<now, rows, crashes, ghosts>>

UsageCommit(c) ==
  /\ pc[c] = "usage"
  /\ user' = Flush(user, mem[c].user, Reset(mem[c].user))
  /\ Ends(c)
  /\ UNCHANGED <<now, task, counts, ghosts>>

-----------------------------------------------------------------------------

\* No run that is dead and not yet recovered (who is at work on its task has not ended a run
\* before it), and no session that does nothing between its load and its commit.
Quiet ==
  /\ \A t \in Task : task[t].status = "processing" =>
       \E w \in AtRun(t) : pc[w] = "end" => mem[w].row.bill = task[t].bill
  /\ \A a \in Actor : pc[a] \notin {"dispatch", "usage", "reset"}

\* Runs of task t that are under way, or dead and not found out.
Open(t) == IF AtRun(t) = {} /\ task[t].bill # None THEN 1 ELSE Cardinality(AtRun(t))

Tick ==
  /\ now < MaxTime
  /\ QuietMidnight /\ DayOf(now + 1) # DayOf(now) => Quiet
  /\ now' = now + 1
  /\ real' = [t \in Task |-> Open(t) + IF DayOf(now') = DayOf(now) THEN real[t] ELSE 0]
  /\ spent' = [t \in Task |-> spent[t] + Open(t)]
  /\ task' = [t \in Task |-> IF Beats(t) THEN [task[t] EXCEPT !.beat = now'] ELSE task[t]]
  /\ UNCHANGED <<user, work, counts, raced, refused>>

Commit(a) ==
  \/ a \in Worker /\ \/ DispatchCommit(a) \/ RunLoad(a) \/ RunLeaves(a) \/ LeaveCommit(a)
                     \/ BeginCommit(a) \/ EndLoad(a) \/ EndCommit(a) \/ Finally(a)
  \/ a \in Request /\ (StartCommit(a) \/ CancelCommit(a) \/ UsageCommit(a))
  \/ a = Beat /\ BeatCommit

Next ==
  \/ Tick \/ BeatLoad \/ AdminReset
  \/ \E a \in Actor : Commit(a)
  \/ \E w \in Worker : Crash(w) \/ \E t \in Task : DispatchLoad(w, t)
  \/ \E t \in Task, next \in {"queued"} \cup Over : Recover(t, next)
  \/ \E c \in Request : UsageLoad(c) \/ \E t \in Task : StartLoad(c, t) \/ CancelLoad(c, t)

Spec == Init /\ [][Next]_vars

\* Sessions go on, runs end, Beat resets every day and recovers every minute.  Nothing here
\* goes on for ever, so it is enough that some session, and some recovery, is not held up.
Fairness ==
  /\ WF_vars(\E a \in Actor : Commit(a))
  /\ WF_vars(BeatLoad)
  /\ WF_vars(\E t \in Task, next \in {"queued"} \cup Over : Recover(t, next))

FairSpec == Spec /\ Fairness

-----------------------------------------------------------------------------
(* Properties *)

\* Types.
TypeOK ==
  /\ now \in Time /\ user \in User /\ task \in [Task -> Row]
  /\ pc \in [Actor -> {"idle", "dispatch", "leased", "begin", "run", "end", "finally",
                       "start", "cancel", "usage", "reset"}]
  /\ \A a \in Actor : pc[a] \in {"dispatch", "begin", "end", "start", "cancel"} =>
       mem[a] \in [task: Task, row: Row, user: User]
  /\ {events, crashes} \subseteq 0..MaxEvents
  /\ {real, spent} \subseteq [Task -> Nat] /\ {raced, refused} \subseteq BOOLEAN

\* If midnight is quiet (QuietMidnight), a user is not charged for more seconds of today
\* than runs of the user's tasks took today, whoever settles, resets or is late, across
\* midnight too; unless two sessions settled the same run.
NotOvercharged == ~raced /\ user.date = DayOf(now) => user.used <= RealUse

\* The cost of a task that nobody is at work on is the time its runs took; less, if one
\* of them died between two heartbeats, or was cancelled and took a moment to stop.
CostExact ==
  \A t \in Task :
    ~raced /\ task[t].bill = None /\ AtRun(t) = {} =>
      /\ task[t].cost <= spent[t]
      /\ events = 0 => task[t].cost = spent[t]

\* If midnight is quiet, nobody is refused for the quota who has not used it up today.
NotRefused == ~refused

\* Billing that was opened is closed.
BillCloses == \A t \in Task : (task[t].bill # None) ~> (task[t].bill = None)

\* Each day the seconds of the day before are dropped.
ResetComes == (user.date # DayOf(now)) ~> (user.date = DayOf(now))
=============================================================================
