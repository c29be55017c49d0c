------------------------------ MODULE GpuLease ------------------------------
(***************************************************************************)
(* The GPU lease protocol of app/services/gpu_scheduler.py, one action per *)
(* Redis command, with the part of run_reconstruction and                  *)
(* run_reconstruction_algorithm that takes, renews and gives back a lease, *)
(* and the part of recover_stale_reconstruction_tasks that clears the      *)
(* leases of a task whose worker went silent.                              *)
(*                                                                         *)
(* Redis holds, per lease scope (a node in local mode, a pod in k8s mode), *)
(*   gpu-lease:<scope>:<device>      a string key with a TTL, and          *)
(*   gpu-user-leases:<scope>:<user>  a sorted set, member -> expiry time.  *)
(* Time is counted down: a key or member carries the ticks it has left.    *)
(* The device token and the user token of one acquire call are one Token   *)
(* here: both are drawn by that call, and the lease value holds both.      *)
(***************************************************************************)
EXTENDS Integers, FiniteSets

CONSTANTS
  Worker,      \* Celery worker slots of the "reconstruction" queue
  Task,        \* reconstruction tasks
  User,        \* their owners
  Owner,       \* [Task -> User]
  Scope,       \* lease scopes
  ScopeOf,     \* [Worker -> Scope], settings.worker_node_id / worker_executor_id
  Device,      \* GPU_DEVICE_IDS in their configured order
  Quota,       \* [User -> Nat], gpu_concurrency_quota
  TTL,         \* gpu_lease_ttl_seconds, in ticks
  Token,       \* uuid4 values
  Recoverer,   \* processes that run recover_stale_reconstruction_tasks
  Timely,      \* TRUE: a supervised process is renewed before its lease runs out
  Free,        \* no device lease
  None         \* no claim, device or placement

ASSUME OwnerAssumption   == Owner \in [Task -> User]
ASSUME ScopeAssumption   == ScopeOf \in [Worker -> Scope]
ASSUME DeviceAssumption  == Device \subseteq Nat
ASSUME QuotaAssumption   == Quota \in [User -> Nat]
ASSUME TTLAssumption     == TTL \in Nat \ {0}
ASSUME TimelyAssumption  == Timely \in BOOLEAN
ASSUME MarkerAssumption  ==
  /\ Free \notin [task: Task, token: Token]
  /\ None \notin [task: Task, token: Token] \cup Device
  /\ None \notin [task: Task, place: [scope: Scope, device: Device]]
  /\ None \notin [device: Device, user: User]

VARIABLES
  device,   \* Redis: the claim stored under each device key, or Free
  left,     \* Redis: ticks until the device key expires
  slots,    \* Redis: the members of each user's sorted set
  score,    \* Redis: ticks until the member with this token expires
  pc,       \* where each worker is
  claim,    \* the claim the worker drew in acquire
  at,       \* the device of the worker's lease
  todo,     \* devices acquire has still to try
  ok,       \* device_result of the renew call under way
  proc,     \* is the worker's algorithm process running?
  placed,   \* database: worker_node_id / executor_id / cuda_device of the task
  rpc,      \* where each recoverer is
  job       \* the task and placement it has read

redis  == <<device, left, slots, score>>
worker == <<pc, claim, at, todo, ok, proc>>
recov  == <<rpc, job>>
vars   == <<redis, worker, placed, recov>>

\* A lease value, and a member "<task_id>:<token>" of a user's set.
Claim == [task: Task, token: Token]

\* What release_stale gets from the task row.
Placement == [scope: Scope, device: Device]

\* The Redis user set a claim made by worker w belongs to.
SlotsOf(w) == slots[ScopeOf[w]][Owner[claim[w].task]]

\* Mutant: a token derived from the task instead of uuid4.
Fresh_Derived(k) == TRUE

\* uuid4: a token nobody holds and Redis does not store.
Fresh(k) ==
  /\ \A w \in Worker : claim[w] # None => claim[w].token # k
  /\ \A s \in Scope, d \in Device : device[s][d] # Free => device[s][d].token # k
  /\ \A s \in Scope, u \in User : \A m \in slots[s][u] : m.token # k

Init ==
  /\ device = [s \in Scope |-> [d \in Device |-> Free]]
  /\ left   = [s \in Scope |-> [d \in Device |-> 0]]
  /\ slots  = [s \in Scope |-> [u \in User |-> {}]]
  /\ score  = [k \in Token |-> 0]
  /\ pc     = [w \in Worker |-> "idle"]
  /\ claim  = [w \in Worker |-> None]
  /\ at     = [w \in Worker |-> None]
  /\ todo   = [w \in Worker |-> {}]
  /\ ok     = [w \in Worker |-> FALSE]
  /\ proc   = [w \in Worker |-> FALSE]
  /\ placed = [t \in Task |-> None]
  /\ rpc    = [r \in Recoverer |-> "idle"]
  /\ job    = [r \in Recoverer |-> None]

-----------------------------------------------------------------------------
(* GPUScheduler.acquire *)

\* zremrangebyscore: the members of user u in scope s that have not expired.
Unexpired(s, u) == {m \in slots[s][u] : score[m.token] > 0}

\* Mutant: zcard > limit refuses, zcard = limit does not.
HasRoom_OffByOne(s, u) == Cardinality(Unexpired(s, u)) <= Quota[u]

HasRoom(s, u) == Cardinality(Unexpired(s, u)) < Quota[u]

\* The script of _acquire_user_slot returns 1: purge, count, add.
AcquireSlot(w, t, k) ==
  LET s == ScopeOf[w]
      u == Owner[t]
      c == [task |-> t, token |-> k]
  IN  /\ pc[w] = "idle"
      /\ Fresh(k)
      /\ HasRoom(s, u)
      /\ slots' = [slots EXCEPT ![s][u] = Unexpired(s, u) \cup {c}]
      /\ score' = [score EXCEPT ![k] = TTL]
      /\ claim' = [claim EXCEPT ![w] = c]
      /\ pc'    = [pc EXCEPT ![w] = "inspect"]
      /\ UNCHANGED <<device, left, at, todo, ok, proc, placed, recov>>

\* It returns 0: queue_reason "user_gpu_concurrency". The purge stays done.
RefuseSlot(w, t) ==
  LET s == ScopeOf[w]
      u == Owner[t]
  IN  /\ pc[w] = "idle"
      /\ ~HasRoom(s, u)
      /\ slots' = [slots EXCEPT ![s][u] = Unexpired(s, u)]
      /\ UNCHANGED <<device, left, score, worker, placed, recov>>

\* _memory_used_mb: the devices nvidia-smi reports as not busy. When it raises,
\* acquire removes the slot and raises: the path of an empty set.
Inspect(w, idle) ==
  /\ pc[w] = "inspect"
  /\ pc'   = [pc EXCEPT ![w] = "probe"]
  /\ todo' = [todo EXCEPT ![w] = idle]
  /\ UNCHANGED <<redis, claim, at, ok, proc, placed, recov>>

\* The device the loop of acquire reaches next.
NextDevice(w, d) == d \in todo[w] /\ \A e \in todo[w] : d <= e

\* Mutant: SET without NX.
Vacant_Overwrite(s, d) == TRUE

Vacant(s, d) == device[s][d] = Free

\* SET key value NX EX ttl succeeds.
TakeDevice(w, d) ==
  LET s == ScopeOf[w]
  IN  /\ pc[w] = "probe"
      /\ NextDevice(w, d)
      /\ Vacant(s, d)
      /\ device' = [device EXCEPT ![s][d] = claim[w]]
      /\ left'   = [left EXCEPT ![s][d] = TTL]
      /\ at'     = [at EXCEPT ![w] = d]
      /\ todo'   = [todo EXCEPT ![w] = {}]
      /\ pc'     = [pc EXCEPT ![w] = "held"]
      /\ UNCHANGED <<slots, score, claim, ok, proc, placed, recov>>

\* SET NX finds the key: try the next device.
SkipDevice(w, d) ==
  /\ pc[w] = "probe"
  /\ NextDevice(w, d)
  /\ ~Vacant(ScopeOf[w], d)
  /\ todo' = [todo EXCEPT ![w] = @ \ {d}]
  /\ UNCHANGED <<redis, pc, claim, at, ok, proc, placed, recov>>

\* No device left: zrem the slot; queue_reason "gpu_capacity" (or raise).
GiveBack(w) ==
  /\ pc[w] = "probe"
  /\ todo[w] = {}
  /\ slots' = [slots EXCEPT ![ScopeOf[w]][Owner[claim[w].task]] = @ \ {claim[w]}]
  /\ pc'    = [pc EXCEPT ![w] = "idle"]
  /\ claim' = [claim EXCEPT ![w] = None]
  /\ UNCHANGED <<device, left, score, at, todo, ok, proc, placed, recov>>

-----------------------------------------------------------------------------
(* run_reconstruction_algorithm, as far as the lease goes *)

\* The row goes to PROCESSING with the lease's placement.
Begin(w) ==
  /\ pc[w] = "held"
  /\ pc'     = [pc EXCEPT ![w] = "working"]
  /\ placed' = [placed EXCEPT ![claim[w].task] =
                  [scope |-> ScopeOf[w], device |-> at[w]]]
  /\ UNCHANGED <<redis, claim, at, todo, ok, proc, recov>>

\* The task was cancelled, is finished, or runs elsewhere.
Decline(w) ==
  /\ pc[w] = "held"
  /\ pc' = [pc EXCEPT ![w] = "release"]
  /\ UNCHANGED <<redis, claim, at, todo, ok, proc, placed, recov>>

\* Mutant: whatever lease is stored passes for the worker's own.
OwnsKey_AnyLease(w) == device[ScopeOf[w]][at[w]] # Free

\* GET equals the lease value.
OwnsKey(w) == device[ScopeOf[w]][at[w]] = claim[w]

\* Mutant: a renewal adds the TTL to what is left.
Renewed_Adds(n) == n + TTL

\* EXPIRE key ttl, for a key with n ticks left.
Renewed(n) == TTL

\* First script of renew: EXPIRE when GET equals the lease value.
RenewDevice(w) ==
  LET s == ScopeOf[w]
  IN  /\ pc[w] = "working"
      /\ ok'   = [ok EXCEPT ![w] = OwnsKey(w)]
      /\ left' = IF OwnsKey(w) THEN [left EXCEPT ![s][at[w]] = Renewed(@)] ELSE left
      /\ pc'   = [pc EXCEPT ![w] = "renewing"]
      /\ UNCHANGED <<device, slots, score, claim, at, todo, proc, placed, recov>>

\* Mutant: renew returns device_result alone.
RenewGood_DeviceOnly(w) == ok[w]

\* What renew returns.
RenewGood(w) == ok[w] /\ claim[w] \in SlotsOf(w)

\* Second script: a member that is still in the set gets a new score, expired
\* or not. Both scripts must have succeeded for the process to start or go on.
RenewSlot(w) ==
  /\ pc[w] = "renewing"
  /\ score' = IF claim[w] \in SlotsOf(w)
                THEN [score EXCEPT ![claim[w].token] = TTL] ELSE score
  /\ proc'  = [proc EXCEPT ![w] = RenewGood(w)]
  /\ ok'    = [ok EXCEPT ![w] = FALSE]
  /\ pc'    = [pc EXCEPT ![w] = IF RenewGood(w) THEN "working" ELSE "release"]
  /\ UNCHANGED <<device, left, slots, claim, at, todo, placed, recov>>

\* The process exited, was cancelled, hit its deadline, or an exception was
\* raised; the process is down before the finally block releases the lease.
Finish(w) ==
  /\ pc[w] = "working"
  /\ proc' = [proc EXCEPT ![w] = FALSE]
  /\ pc'   = [pc EXCEPT ![w] = "release"]
  /\ UNCHANGED <<redis, claim, at, todo, ok, placed, recov>>

\* First command of release: DEL when GET equals the lease value.
ReleaseDevice(w) ==
  LET s == ScopeOf[w]
  IN  /\ pc[w] = "release"
      /\ device' = IF OwnsKey(w) THEN [device EXCEPT ![s][at[w]] = Free] ELSE device
      /\ left'   = IF OwnsKey(w) THEN [left EXCEPT ![s][at[w]] = 0] ELSE left
      /\ pc'     = [pc EXCEPT ![w] = "drop"]
      /\ UNCHANGED <<slots, score, claim, at, todo, ok, proc, placed, recov>>

\* Second command of release: zrem the member.
ReleaseSlot(w) ==
  /\ pc[w] = "drop"
  /\ slots' = [slots EXCEPT ![ScopeOf[w]][Owner[claim[w].task]] = @ \ {claim[w]}]
  /\ pc'    = [pc EXCEPT ![w] = "idle"]
  /\ claim' = [claim EXCEPT ![w] = None]
  /\ at'    = [at EXCEPT ![w] = None]
  /\ UNCHANGED <<device, left, score, todo, ok, proc, placed, recov>>

\* The worker dies, or loses Redis in acquire or release: it forgets its lease
\* and leaves it in Redis. Its process dies with it (PR_SET_PDEATHSIG).
Crash(w) ==
  /\ pc[w] # "idle"
  /\ pc'    = [pc EXCEPT ![w] = "idle"]
  /\ claim' = [claim EXCEPT ![w] = None]
  /\ at'    = [at EXCEPT ![w] = None]
  /\ todo'  = [todo EXCEPT ![w] = {}]
  /\ ok'    = [ok EXCEPT ![w] = FALSE]
  /\ proc'  = [proc EXCEPT ![w] = FALSE]
  /\ UNCHANGED <<redis, placed, recov>>

-----------------------------------------------------------------------------
(* recover_stale_reconstruction_tasks, as far as the lease goes *)

\* heartbeat_at is written with each renewal and goes stale after a time longer
\* than the lease TTL: while the lease of the run that placed t lives, t is not
\* stale. A lease taken for t but not yet committed to the row does not count.
Reporting(t) ==
  \E w \in Worker :
    /\ pc[w] \in {"working", "renewing", "release"}
    /\ claim[w].task = t
    /\ device[ScopeOf[w]][at[w]] = claim[w]

\* The row of t is stale: read its placement.
PickStale(r, t) ==
  /\ rpc[r] = "idle"
  /\ placed[t] # None
  /\ ~Reporting(t)
  /\ job' = [job EXCEPT ![r] = [task |-> t, place |-> placed[t]]]
  /\ rpc' = [rpc EXCEPT ![r] = "device"]
  /\ UNCHANGED <<redis, worker, placed>>

\* release_stale, device: DEL when the value mentions the task, whatever token.
StaleDevice(r) ==
  LET p == job[r].place
      hit == device[p.scope][p.device] # Free
               /\ device[p.scope][p.device].task = job[r].task
  IN  /\ rpc[r] = "device"
      /\ device' = IF hit THEN [device EXCEPT ![p.scope][p.device] = Free] ELSE device
      /\ left'   = IF hit THEN [left EXCEPT ![p.scope][p.device] = 0] ELSE left
      /\ rpc'    = [rpc EXCEPT ![r] = "slots"]
      /\ UNCHANGED <<slots, score, worker, placed, job>>

\* release_stale, user set: zrem every member of the task. The row forgets its
\* placement.
StaleSlots(r) ==
  LET t == job[r].task
      s == job[r].place.scope
  IN  /\ rpc[r] = "slots"
      /\ slots'  = [slots EXCEPT ![s][Owner[t]] = {m \in @ : m.task # t}]
      /\ placed' = [placed EXCEPT ![t] = None]
      /\ rpc'    = [rpc EXCEPT ![r] = "idle"]
      /\ job'    = [job EXCEPT ![r] = None]
      /\ UNCHANGED <<device, left, score, worker>>

-----------------------------------------------------------------------------
(* Redis and the clock *)

\* Timely only: a process under supervision is renewed before its lease expires.
InTime ==
  \A w \in Worker :
    /\ proc[w] \/ ok[w] => left[ScopeOf[w]][at[w]] > 1
    /\ proc[w] => score[claim[w].token] > 1

\* Mutant: a key set without EX never runs out.
KeyAged_NoExpiry(n) == n

\* A device key with n ticks left, one tick later; 0 is no key.
KeyAged(n) == IF n > 1 THEN n - 1 ELSE 0

\* Mutant: a member without a score in the future and a set without EXPIRE.
MemberAged_NoExpiry(n) == n

\* A member with n ticks left, one tick later; at 0 it is expired but stored.
MemberAged(n) == IF n > 0 THEN n - 1 ELSE 0

\* One tick: device keys that run out disappear, members only grow older.
Tick ==
  /\ Timely => InTime
  /\ device' = [s \in Scope |-> [d \in Device |->
                  IF KeyAged(left[s][d]) > 0 THEN device[s][d] ELSE Free]]
  /\ left'   = [s \in Scope |-> [d \in Device |-> KeyAged(left[s][d])]]
  /\ score'  = [k \in Token |-> MemberAged(score[k])]
  /\ UNCHANGED <<slots, worker, placed, recov>>

\* EXPIRE key ttl*2 of a user set nobody touches: by then every member is past
\* its score, since each script that sets a score sets the key's expiry too.
SlotsKeyExpires(s, u) ==
  /\ slots[s][u] # {}
  /\ Unexpired(s, u) = {}
  /\ slots' = [slots EXCEPT ![s][u] = {}]
  /\ UNCHANGED <<device, left, score, worker, placed, recov>>

-----------------------------------------------------------------------------
\* What worker w does by itself once it has a claim.
WorkerStep(w) ==
  \/ \E idle \in SUBSET Device : Inspect(w, idle)
  \/ \E d \in Device : TakeDevice(w, d) \/ SkipDevice(w, d)
  \/ GiveBack(w) \/ Begin(w) \/ Decline(w)
  \/ RenewDevice(w) \/ RenewSlot(w) \/ Finish(w)
  \/ ReleaseDevice(w) \/ ReleaseSlot(w)

Next ==
  \/ \E w \in Worker, t \in Task :
       (\E k \in Token : AcquireSlot(w, t, k)) \/ RefuseSlot(w, t)
  \/ \E w \in Worker : WorkerStep(w) \/ Crash(w)
  \/ \E r \in Recoverer :
       (\E t \in Task : PickStale(r, t)) \/ StaleDevice(r) \/ StaleSlots(r)
  \/ Tick
  \/ \E s \in Scope, u \in User : SlotsKeyExpires(s, u)

Spec == Init /\ [][Next]_vars

\* The clock runs, Redis expires keys, and a worker takes its next step; the
\* deadline in the poll loop ends every run, however often it is renewed.
Fairness ==
  /\ WF_vars(Tick)
  /\ \A s \in Scope, u \in User : WF_vars(SlotsKeyExpires(s, u))
  /\ \A w \in Worker : WF_vars(WorkerStep(w)) /\ SF_vars(Finish(w))

FairSpec == Spec /\ Fairness

-----------------------------------------------------------------------------
(* Properties *)

TypeOK ==
  /\ device \in [Scope -> [Device -> Claim \cup {Free}]]
  /\ left   \in [Scope -> [Device -> 0..TTL]]
  /\ slots  \in [Scope -> [User -> SUBSET Claim]]
  /\ score  \in [Token -> 0..TTL]
  /\ pc     \in [Worker -> {"idle", "inspect", "probe", "held", "working",
                            "renewing", "release", "drop"}]
  /\ claim  \in [Worker -> Claim \cup {None}]
  /\ at     \in [Worker -> Device \cup {None}]
  /\ todo   \in [Worker -> SUBSET Device]
  /\ ok     \in [Worker -> BOOLEAN]
  /\ proc   \in [Worker -> BOOLEAN]
  /\ placed \in [Task -> Placement \cup {None}]
  /\ rpc    \in [Recoverer -> {"idle", "device", "slots"}]
  /\ job    \in [Recoverer -> [task: Task, place: Placement] \cup {None}]

\* Within one scope a user never has more slots than gpu_concurrency_quota,
\* expired and revived ones included: purging, counting and adding is one
\* script, and renew only touches members that are already there.
SlotsWithinQuota ==
  \A s \in Scope, u \in User : Cardinality(slots[s][u]) <= Quota[u]

\* A stored lease is stored once: two device keys never hold the same claim, and
\* two workers never believe they own the same one, after any sequence of
\* expiries, crashes and re-acquisitions.
LeaseHeldOnce ==
  /\ \A s1, s2 \in Scope, d1, d2 \in Device :
       device[s1][d1] # Free /\ device[s1][d1] = device[s2][d2]
         => s1 = s2 /\ d1 = d2
  /\ \A v, w \in Worker : claim[v] # None /\ claim[v] = claim[w] => v = w

\* What a worker does with a lease in its hands can only touch its own: a device
\* key another claim holds is left alone, its TTL too, by late renewals and late
\* releases of workers that lost theirs long ago.
OwnLeaseStep ==
  \A w \in Worker : pc'[w] # pc[w] =>
    \A s \in Scope, d \in Device :
      device[s][d] \notin {Free, claim[w]} =>
        device'[s][d] = device[s][d] /\ left'[s][d] = left[s][d]

OnlyOwnLease == [][OwnLeaseStep]_vars

\* Under timely renewal: no two supervised algorithm processes share a GPU, and
\* the key of the GPU a process runs on holds its worker's claim.
OneProcessPerDevice ==
  /\ \A w \in Worker : proc[w] => device[ScopeOf[w]][at[w]] = claim[w]
  /\ \A v, w \in Worker :
       proc[v] /\ proc[w] /\ ScopeOf[v] = ScopeOf[w] /\ at[v] = at[w] => v = w

\* Under timely renewal: in one scope, the processes running for a user are never
\* more than the user's gpu_concurrency_quota.
Running(s, u) ==
  {w \in Worker : proc[w] /\ ScopeOf[w] = s /\ Owner[claim[w].task] = u}

RunningWithinQuota ==
  \A s \in Scope, u \in User : Cardinality(Running(s, u)) <= Quota[u]

\* Whoever crashes wherever: every device is free again and again, and no member
\* stays in a user's set for ever.
DeviceComesBack ==
  \A s \in Scope, d \in Device : []<>(device[s][d] = Free)

SlotComesBack ==
  \A k \in Token :
    []<>(\A s \in Scope, u \in User : \A m \in slots[s][u] : m.token # k)

-----------------------------------------------------------------------------
(* The promise, and that it is kept *)

\* The device and the user of each worker's algorithm process.
Run == [w \in Worker |-> IF proc[w] THEN [device |-> at[w], user |-> Owner[claim[w].task]]
                                   ELSE None]

Promise == INSTANCE ExclusiveGpu WITH run <- Run

\* Under timely renewal: the leases implement exclusive GPUs within the users' quotas.  A
\* process starts only where and when it may, and it is the same until it stops: the
\* worker's lease does not change under it.
KeepsPromise == Promise!Spec

-----------------------------------------------------------------------------
(* The inductive invariant behind the safety properties, by parts *)

\* Who has a claim, a device, a running process, a job.
Shape ==
  /\ \A w \in Worker :
       /\ claim[w] = None <=> pc[w] = "idle"
       /\ at[w] = None <=> pc[w] \in {"idle", "inspect", "probe"}
       /\ ok[w] => pc[w] = "renewing"
       /\ proc[w] => pc[w] \in {"working", "renewing"}
  /\ \A r \in Recoverer : job[r] = None <=> rpc[r] = "idle"

\* A token names one claim: one worker, one device key, one member.
TokensApart ==
  /\ \A v, w \in Worker :
       claim[v] # None /\ claim[w] # None /\ claim[v].token = claim[w].token => v = w
  /\ \A s1, s2 \in Scope, d1, d2 \in Device :
       device[s1][d1] # Free /\ device[s2][d2] # Free
         /\ device[s1][d1].token = device[s2][d2].token => s1 = s2 /\ d1 = d2
  /\ \A w \in Worker, s \in Scope, d \in Device :
       claim[w] # None /\ device[s][d] # Free /\ device[s][d].token = claim[w].token
         => device[s][d] = claim[w] /\ s = ScopeOf[w] /\ d = at[w]
  /\ \A w \in Worker, s \in Scope, u \in User : \A m \in slots[s][u] :
       claim[w] # None /\ m.token = claim[w].token
         => m = claim[w] /\ s = ScopeOf[w] /\ u = Owner[m.task]

\* The members of a set are finitely many and within the quota.
SlotsBounded ==
  \A s \in Scope, u \in User :
    IsFiniteSet(slots[s][u]) /\ Cardinality(slots[s][u]) <= Quota[u]

\* A supervised process is covered by a device key and a member in Redis, both
\* with time left (Timely, no recoverers).
Covered ==
  /\ \A s \in Scope, d \in Device : device[s][d] = Free <=> left[s][d] = 0
  /\ \A w \in Worker : proc[w] \/ ok[w] => device[ScopeOf[w]][at[w]] = claim[w]
  /\ \A w \in Worker : proc[w] => claim[w] \in SlotsOf(w) /\ score[claim[w].token] > 0

LeaseInv == TypeOK /\ Shape /\ TokensApart /\ SlotsBounded
=============================================================================
