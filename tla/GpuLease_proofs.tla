--------------------------- MODULE GpuLease_proofs ---------------------------
(***************************************************************************)
(* Proofs about GpuLease, for every number of workers, tasks, users,       *)
(* scopes, devices and tokens, every quota and every TTL.                  *)
(***************************************************************************)
EXTENDS GpuLease, FiniteSetTheorems, TLAPS

USE DEF redis, worker, recov, vars, Claim, Placement, HasRoom, Vacant, OwnsKey,
        Renewed, RenewGood, KeyAged, MemberAged

-----------------------------------------------------------------------------
(* Type correctness, with the shape of the workers' and recoverers' state *)

\* Redis starts empty and every worker idle: types and shape hold at the start.
LEMMA InitType == Init => TypeOK /\ Shape
BY TTLAssumption DEF Init, TypeOK, Shape

\* No Redis command, crash, tick or recovery step breaks types or shape.
LEMMA NextType == TypeOK /\ Shape /\ [Next]_vars => TypeOK' /\ Shape'
<1> SUFFICES ASSUME TypeOK, Shape, [Next]_vars PROVE TypeOK' /\ Shape'
  OBVIOUS
<1> USE TTLAssumption, ScopeAssumption, OwnerAssumption, MarkerAssumption
<1>1. CASE UNCHANGED vars
  BY <1>1 DEF TypeOK, Shape
<1>2. ASSUME NEW w \in Worker, NEW t \in Task,
             (\E k \in Token : AcquireSlot(w, t, k)) \/ RefuseSlot(w, t)
      PROVE  TypeOK' /\ Shape'
  <2>1. ScopeOf[w] \in Scope /\ Owner[t] \in User
    OBVIOUS
  <2>2. Unexpired(ScopeOf[w], Owner[t]) \in SUBSET [task: Task, token: Token]
    BY <2>1 DEF Unexpired, TypeOK
  <2>3. ASSUME NEW k \in Token, AcquireSlot(w, t, k) PROVE TypeOK' /\ Shape'
    <3> DEFINE c == [task |-> t, token |-> k]
    <3>1. c \in [task: Task, token: Token] /\ c # None
      OBVIOUS
    <3>2. slots' \in [Scope -> [User -> SUBSET [task: Task, token: Token]]]
      BY <2>1, <2>2, <2>3, <3>1 DEF AcquireSlot, TypeOK
    <3>3. TypeOK'
      BY <2>3, <3>1, <3>2 DEF AcquireSlot, TypeOK
    <3>4. Shape'
      BY <2>3, <3>1 DEF AcquireSlot, TypeOK, Shape
    <3>5. QED BY <3>3, <3>4
  <2>4. CASE RefuseSlot(w, t)
    BY <2>1, <2>2, <2>4 DEF RefuseSlot, TypeOK, Shape
  <2>5. QED BY <1>2, <2>3, <2>4
<1>3. ASSUME NEW w \in Worker, WorkerStep(w) \/ Crash(w)
      PROVE  TypeOK' /\ Shape'
  <2> claim[w] \in [task: Task, token: Token] \cup {None} /\ ScopeOf[w] \in Scope
    BY DEF TypeOK
  <2>a. at[w] \in Device \/ pc[w] \in {"idle", "inspect", "probe"}
    BY DEF TypeOK, Shape
  <2>b. 0 \in 0..TTL /\ TTL \in 0..TTL
    OBVIOUS
  <2>1. ASSUME NEW idle \in SUBSET Device, Inspect(w, idle) PROVE TypeOK' /\ Shape'
    <3>1. TypeOK'
      BY <2>1 DEF Inspect, TypeOK, Shape
    <3>2. Shape'
      BY <2>1 DEF Inspect, TypeOK, Shape
    <3>3. QED BY <3>1, <3>2
  <2>2. ASSUME NEW d \in Device, TakeDevice(w, d) PROVE TypeOK' /\ Shape'
    <3>1. TypeOK'
      BY <2>2 DEF TakeDevice, TypeOK, Shape
    <3>2. Shape'
      BY <2>2 DEF TakeDevice, TypeOK, Shape
    <3>3. QED BY <3>1, <3>2
  <2>3. ASSUME NEW d \in Device, SkipDevice(w, d) PROVE TypeOK' /\ Shape'
    <3>1. TypeOK'
      BY <2>3 DEF SkipDevice, TypeOK, Shape
    <3>2. Shape'
      BY <2>3 DEF SkipDevice, TypeOK, Shape
    <3>3. QED BY <3>1, <3>2
  <2>4. CASE GiveBack(w)
    <3>1. TypeOK'
      BY <2>4 DEF GiveBack, TypeOK, Shape
    <3>2. Shape'
      BY <2>4 DEF GiveBack, TypeOK, Shape
    <3>3. QED BY <3>1, <3>2
  <2>5. CASE Begin(w)
    <3>1. TypeOK'
      BY <2>5 DEF Begin, TypeOK, Shape
    <3>2. Shape'
      BY <2>5 DEF Begin, TypeOK, Shape
    <3>3. QED BY <3>1, <3>2
  <2>6. CASE Decline(w)
    <3>1. TypeOK'
      BY <2>6 DEF Decline, TypeOK, Shape
    <3>2. Shape'
      BY <2>6 DEF Decline, TypeOK, Shape
    <3>3. QED BY <3>1, <3>2
  <2>7. CASE RenewDevice(w)
    <3>1. TypeOK'
      <4>1. at[w] \in Device /\ TTL \in 0..TTL
        BY <2>7, <2>a, <2>b DEF RenewDevice
      <4>2. ok' \in [Worker -> BOOLEAN]
        BY <2>7 DEF RenewDevice, TypeOK
      <4>3. left' \in [Scope -> [Device -> 0..TTL]]
        <5>1. CASE device[ScopeOf[w]][at[w]] = claim[w]
          <6>1. left' = [left EXCEPT ![ScopeOf[w]][at[w]] = TTL]
            BY <2>7, <5>1 DEF RenewDevice
          <6>2. QED BY <6>1, <4>1 DEF TypeOK
        <5>2. CASE device[ScopeOf[w]][at[w]] # claim[w]
          BY <2>7, <5>2 DEF RenewDevice, TypeOK
        <5>3. QED BY <5>1, <5>2
      <4>4. /\ pc' = [pc EXCEPT ![w] = "renewing"]
            /\ UNCHANGED <<device, slots, score, claim, at, todo, proc, placed, recov>>
        BY <2>7 DEF RenewDevice
      <4>5. QED BY <4>2, <4>3, <4>4 DEF TypeOK
    <3>2. Shape'
      BY <2>7 DEF RenewDevice, TypeOK, Shape
    <3>3. QED BY <3>1, <3>2
  <2>8. CASE RenewSlot(w)
    <3>1. TypeOK'
      BY <2>8 DEF RenewSlot, SlotsOf, TypeOK, Shape
    <3>2. Shape'
      BY <2>8 DEF RenewSlot, SlotsOf, TypeOK, Shape
    <3>3. QED BY <3>1, <3>2
  <2>9. CASE Finish(w)
    <3>1. TypeOK'
      BY <2>9 DEF Finish, TypeOK, Shape
    <3>2. Shape'
      BY <2>9 DEF Finish, TypeOK, Shape
    <3>3. QED BY <3>1, <3>2
  <2>10. CASE ReleaseDevice(w)
    <3>1. TypeOK'
      <4>1. at[w] \in Device /\ 0 \in 0..TTL
        BY <2>10, <2>a, <2>b DEF ReleaseDevice
      <4>2. device' \in [Scope -> [Device -> Claim \cup {Free}]]
        BY <2>10, <4>1 DEF ReleaseDevice, TypeOK
      <4>3. left' \in [Scope -> [Device -> 0..TTL]]
        <5>1. CASE device[ScopeOf[w]][at[w]] = claim[w]
          <6>1. left' = [left EXCEPT ![ScopeOf[w]][at[w]] = 0]
            BY <2>10, <5>1 DEF ReleaseDevice
          <6>2. QED BY <6>1, <4>1 DEF TypeOK
        <5>2. CASE device[ScopeOf[w]][at[w]] # claim[w]
          BY <2>10, <5>2 DEF ReleaseDevice, TypeOK
        <5>3. QED BY <5>1, <5>2
      <4>4. /\ pc' = [pc EXCEPT ![w] = "drop"]
            /\ UNCHANGED <<slots, score, claim, at, todo, ok, proc, placed, recov>>
        BY <2>10 DEF ReleaseDevice
      <4>5. QED BY <4>2, <4>3, <4>4 DEF TypeOK
    <3>2. Shape'
      BY <2>10 DEF ReleaseDevice, TypeOK, Shape
    <3>3. QED BY <3>1, <3>2
  <2>11. CASE ReleaseSlot(w)
    <3>1. TypeOK'
      BY <2>11 DEF ReleaseSlot, TypeOK, Shape
    <3>2. Shape'
      BY <2>11 DEF ReleaseSlot, TypeOK, Shape
    <3>3. QED BY <3>1, <3>2
  <2>12. CASE Crash(w)
    <3>1. TypeOK'
      BY <2>12 DEF Crash, TypeOK, Shape
    <3>2. Shape'
      BY <2>12 DEF Crash, TypeOK, Shape
    <3>3. QED BY <3>1, <3>2
  <2>13. QED
    BY <1>3, <2>1, <2>2, <2>3, <2>4, <2>5, <2>6, <2>7, <2>8, <2>9, <2>10, <2>11, <2>12
       DEF WorkerStep
<1>4. ASSUME NEW r \in Recoverer, NEW t \in Task, PickStale(r, t)
      PROVE  TypeOK' /\ Shape'
  BY <1>4 DEF PickStale, TypeOK, Shape
<1>5. ASSUME NEW r \in Recoverer, StaleDevice(r) PROVE TypeOK' /\ Shape'
  BY <1>5 DEF StaleDevice, TypeOK, Shape
<1>6. ASSUME NEW r \in Recoverer, StaleSlots(r) PROVE TypeOK' /\ Shape'
  BY <1>6 DEF StaleSlots, TypeOK, Shape
<1>7. CASE Tick
  BY <1>7 DEF Tick, TypeOK, Shape
<1>8. ASSUME NEW s \in Scope, NEW u \in User, SlotsKeyExpires(s, u)
      PROVE  TypeOK' /\ Shape'
  BY <1>8 DEF SlotsKeyExpires, TypeOK, Shape
<1>9. QED
  BY <1>1, <1>2, <1>3, <1>4, <1>5, <1>6, <1>7, <1>8 DEF Next

\* The state of the lease protocol keeps its shape, whatever order its Redis
\* commands, crashes, expiries and recoveries come in.
THEOREM TypeCorrect == Spec => [](TypeOK /\ Shape)
<1>1. QED BY InitType, NextType, PTL DEF Spec

-----------------------------------------------------------------------------
(* A token names one claim *)

\* No token is in use at the start.
LEMMA InitApart == Init => TokensApart
BY DEF Init, TokensApart

\* Steps that neither store, draw nor forget a claim.
QuietStep == UNCHANGED <<claim, device, slots, at>>

\* A step that leaves claims, keys, members and devices alone keeps tokens apart.
LEMMA QuietApart == TokensApart /\ QuietStep => TokensApart'
BY DEF TokensApart, QuietStep

\* Inspecting, skipping, renewing and finishing are such steps.
LEMMA WorkerQuiet ==
  ASSUME NEW w \in Worker, WorkerStep(w)
  PROVE  \/ QuietStep
         \/ \E d \in Device : TakeDevice(w, d)
         \/ GiveBack(w) \/ ReleaseDevice(w) \/ ReleaseSlot(w)
BY DEF WorkerStep, QuietStep, Inspect, SkipDevice, Begin, Decline, RenewDevice,
       RenewSlot, Finish

\* acquire draws a token nobody has, and every other step only moves or drops it.
LEMMA NextApart ==
  ASSUME TypeOK, Shape, TokensApart, [Next]_vars
  PROVE  TokensApart'
<1> USE ScopeAssumption, OwnerAssumption, MarkerAssumption
<1>1. CASE UNCHANGED vars
  BY <1>1, QuietApart DEF QuietStep
<1>2. ASSUME NEW w \in Worker, NEW t \in Task, NEW k \in Token,
             AcquireSlot(w, t, k)
      PROVE  TokensApart'
  <2> DEFINE c == [task |-> t, token |-> k]
             s == ScopeOf[w]
             u == Owner[t]
  <2>1. /\ Fresh(k) /\ c.token = k /\ c.task = t /\ s \in Scope /\ u \in User
        /\ c # None
    BY <1>2 DEF AcquireSlot
  <2>2. /\ claim' = [claim EXCEPT ![w] = c]
        /\ slots' = [slots EXCEPT ![s][u] = Unexpired(s, u) \cup {c}]
        /\ UNCHANGED <<device, at>>
    BY <1>2 DEF AcquireSlot
  <2>3. \A v \in Worker : claim'[v] = IF v = w THEN c ELSE claim[v]
    BY <2>2 DEF TypeOK
  <2>4. \A s2 \in Scope, u2 \in User : \A m \in slots'[s2][u2] :
          m \in slots[s2][u2] \/ (m = c /\ s2 = s /\ u2 = u)
    BY <2>1, <2>2 DEF TypeOK, Unexpired
  <2>5. \A v, x \in Worker :
          claim'[v] # None /\ claim'[x] # None /\ claim'[v].token = claim'[x].token
            => v = x
    BY <2>1, <2>3 DEF TokensApart, Fresh
  <2>6. \A v \in Worker, s2 \in Scope, d \in Device :
          claim'[v] # None /\ device[s2][d] # Free
            /\ device[s2][d].token = claim'[v].token
              => device[s2][d] = claim'[v] /\ s2 = ScopeOf[v] /\ d = at[v]
    BY <2>1, <2>3 DEF TokensApart, Fresh
  <2>7. \A v \in Worker, s2 \in Scope, u2 \in User : \A m \in slots'[s2][u2] :
          claim'[v] # None /\ m.token = claim'[v].token
            => m = claim'[v] /\ s2 = ScopeOf[v] /\ u2 = Owner[m.task]
    BY <2>1, <2>3, <2>4 DEF TokensApart, Fresh
  <2>8. QED BY <2>2, <2>5, <2>6, <2>7 DEF TokensApart
<1>3. ASSUME NEW w \in Worker, NEW t \in Task, RefuseSlot(w, t)
      PROVE  TokensApart'
  <2>1. \A s \in Scope, u \in User : slots'[s][u] \subseteq slots[s][u]
    BY <1>3 DEF RefuseSlot, Unexpired, TypeOK
  <2>2. UNCHANGED <<device, claim, at>>
    BY <1>3 DEF RefuseSlot
  <2>3. QED BY <2>1, <2>2 DEF TokensApart
<1>4. ASSUME NEW w \in Worker, NEW d \in Device, TakeDevice(w, d)
      PROVE  TokensApart'
  <2> DEFINE s == ScopeOf[w]
  <2>1. /\ s \in Scope /\ claim[w] # None /\ at[w] = None
        /\ claim[w] \in [task: Task, token: Token] /\ claim[w] # Free
    BY <1>4 DEF TakeDevice, Shape, TypeOK
  <2>2. /\ device' = [device EXCEPT ![s][d] = claim[w]]
        /\ at' = [at EXCEPT ![w] = d]
        /\ UNCHANGED <<claim, slots>>
    BY <1>4 DEF TakeDevice
  <2>3. /\ \A s2 \in Scope, d2 \in Device : device'[s2][d2] =
               IF s2 = s /\ d2 = d THEN claim[w] ELSE device[s2][d2]
        /\ \A v \in Worker : at'[v] = IF v = w THEN d ELSE at[v]
    BY <2>1, <2>2 DEF TypeOK
  <2>4. \A s2 \in Scope, d2 \in Device :
          device[s2][d2] # Free => device[s2][d2].token # claim[w].token
    BY <2>1 DEF TokensApart
  <2>5. \A s1, s2 \in Scope, d1, d2 \in Device :
          device'[s1][d1] # Free /\ device'[s2][d2] # Free
            /\ device'[s1][d1].token = device'[s2][d2].token => s1 = s2 /\ d1 = d2
    BY <2>3, <2>4 DEF TokensApart
  <2>6. \A v \in Worker, s2 \in Scope, d2 \in Device :
          claim[v] # None /\ device'[s2][d2] # Free
            /\ device'[s2][d2].token = claim[v].token
              => device'[s2][d2] = claim[v] /\ s2 = ScopeOf[v] /\ d2 = at'[v]
    BY <2>1, <2>3, <2>4 DEF TokensApart
  <2>7. QED BY <2>2, <2>5, <2>6 DEF TokensApart
<1>5. ASSUME NEW w \in Worker, GiveBack(w) \/ ReleaseSlot(w) \/ Crash(w)
      PROVE  TokensApart'
  <2>1. /\ device' = device
        /\ \A v \in Worker : claim'[v] \in {None, claim[v]}
        /\ \A v \in Worker : claim'[v] # None => at'[v] = at[v]
    BY <1>5 DEF GiveBack, ReleaseSlot, Crash, TypeOK
  <2>2. \A s \in Scope, u \in User : slots'[s][u] \subseteq slots[s][u]
    <3>1. CASE Crash(w)
      BY <3>1 DEF Crash
    <3>2. CASE GiveBack(w) \/ ReleaseSlot(w)
      <4>1. slots' = [slots EXCEPT ![ScopeOf[w]][Owner[claim[w].task]] =
                        @ \ {claim[w]}]
        BY <3>2 DEF GiveBack, ReleaseSlot
      <4>2. QED BY <4>1 DEF TypeOK
    <3>3. QED BY <1>5, <3>1, <3>2
  <2>3. QED BY <2>1, <2>2 DEF TokensApart
<1>6. ASSUME UNCHANGED <<claim, at>>,
             \A s \in Scope, u \in User : slots'[s][u] \subseteq slots[s][u],
             \A s \in Scope, d \in Device : device'[s][d] \in {Free, device[s][d]}
      PROVE  TokensApart'
  BY <1>6 DEF TokensApart
<1>7. ASSUME NEW w \in Worker, ReleaseDevice(w) PROVE TokensApart'
  <2>1. \A s \in Scope, d \in Device : device'[s][d] \in {Free, device[s][d]}
    BY <1>7 DEF ReleaseDevice, TypeOK
  <2>2. UNCHANGED <<claim, at, slots>>
    BY <1>7 DEF ReleaseDevice
  <2>3. QED BY <1>6, <2>1, <2>2
<1>8. ASSUME NEW r \in Recoverer, StaleDevice(r) PROVE TokensApart'
  <2>1. \A s \in Scope, d \in Device : device'[s][d] \in {Free, device[s][d]}
    BY <1>8 DEF StaleDevice, TypeOK
  <2>2. UNCHANGED <<claim, at, slots>>
    BY <1>8 DEF StaleDevice
  <2>3. QED BY <1>6, <2>1, <2>2
<1>9. ASSUME NEW r \in Recoverer, StaleSlots(r) PROVE TokensApart'
  <2>1. \A s \in Scope, u \in User : slots'[s][u] \subseteq slots[s][u]
    BY <1>9 DEF StaleSlots, TypeOK
  <2>2. UNCHANGED <<claim, at, device>>
    BY <1>9 DEF StaleSlots
  <2>3. QED BY <1>6, <2>1, <2>2
<1>10. CASE Tick
  <2>1. \A s \in Scope, d \in Device : device'[s][d] \in {Free, device[s][d]}
    BY <1>10 DEF Tick
  <2>2. UNCHANGED <<claim, at, slots>>
    BY <1>10 DEF Tick
  <2>3. QED BY <1>6, <2>1, <2>2
<1>11. ASSUME NEW s \in Scope, NEW u \in User, SlotsKeyExpires(s, u)
       PROVE  TokensApart'
  <2>1. \A s2 \in Scope, u2 \in User : slots'[s2][u2] \subseteq slots[s2][u2]
    BY <1>11 DEF SlotsKeyExpires, TypeOK
  <2>2. UNCHANGED <<claim, at, device>>
    BY <1>11 DEF SlotsKeyExpires
  <2>3. QED BY <1>6, <2>1, <2>2
<1>12. ASSUME NEW r \in Recoverer, NEW t \in Task, PickStale(r, t)
       PROVE  TokensApart'
  BY <1>12, QuietApart DEF PickStale, QuietStep
<1>13. ASSUME NEW w \in Worker, WorkerStep(w) PROVE TokensApart'
  BY <1>13, <1>4, <1>5, <1>7, WorkerQuiet, QuietApart
<1>14. QED
  BY <1>1, <1>2, <1>3, <1>5, <1>8, <1>9, <1>10, <1>11, <1>12, <1>13 DEF Next

\* Two device keys never hold the same claim and two workers never believe they
\* own the same one.
THEOREM LeaseOwnership == Spec => []LeaseHeldOnce
<1>1. TokensApart /\ TypeOK => LeaseHeldOnce
  BY DEF TokensApart, LeaseHeldOnce, TypeOK
<1>2. TypeOK /\ Shape /\ TokensApart /\ [Next]_vars
        => TypeOK' /\ Shape' /\ TokensApart'
  BY NextType, NextApart
<1>3. QED BY InitType, InitApart, <1>1, <1>2, PTL DEF Spec

-----------------------------------------------------------------------------
(* The user sets stay within the quota *)

\* The sets of user slots start empty.
LEMMA InitBounded == Init => SlotsBounded
BY QuotaAssumption, FS_EmptySet DEF Init, SlotsBounded

\* Removing members, in whatever way, keeps a set within the quota.
LEMMA ShrinkBounded ==
  ASSUME SlotsBounded,
         \A s \in Scope, u \in User : slots'[s][u] \subseteq slots[s][u]
  PROVE  SlotsBounded'
<1> SUFFICES ASSUME NEW s \in Scope, NEW u \in User
             PROVE  IsFiniteSet(slots'[s][u]) /\ Cardinality(slots'[s][u]) <= Quota[u]
  BY DEF SlotsBounded
<1>1. IsFiniteSet(slots[s][u]) /\ Cardinality(slots[s][u]) <= Quota[u]
  BY DEF SlotsBounded
<1>2. /\ IsFiniteSet(slots'[s][u])
      /\ Cardinality(slots'[s][u]) <= Cardinality(slots[s][u])
  BY <1>1, FS_Subset
<1>3. /\ Cardinality(slots'[s][u]) \in Nat /\ Cardinality(slots[s][u]) \in Nat
      /\ Quota[u] \in Nat
  BY <1>1, <1>2, FS_CardinalityType, QuotaAssumption
<1>4. QED BY <1>1, <1>2, <1>3

\* The script of _acquire_user_slot adds a member only when zcard is below the limit.
LEMMA AcquireBounded ==
  ASSUME TypeOK, SlotsBounded,
         NEW w \in Worker, NEW t \in Task, NEW k \in Token, AcquireSlot(w, t, k)
  PROVE  SlotsBounded'
<1> DEFINE s == ScopeOf[w]
           u == Owner[t]
           c == [task |-> t, token |-> k]
           live == Unexpired(s, u)
<1>1. s \in Scope /\ u \in User
  BY ScopeAssumption, OwnerAssumption
<1>2. slots' = [slots EXCEPT ![s][u] = live \cup {c}] /\ Cardinality(live) < Quota[u]
  BY DEF AcquireSlot
<1>3. live \subseteq slots[s][u]
  BY DEF Unexpired
<1>4. IsFiniteSet(live)
  BY <1>1, <1>3, FS_Subset DEF SlotsBounded
<1>5. /\ IsFiniteSet(live \cup {c})
      /\ Cardinality(live \cup {c}) \in {Cardinality(live), Cardinality(live) + 1}
  BY <1>4, FS_AddElement
<1>6. Cardinality(live) \in Nat /\ Quota[u] \in Nat
  BY <1>1, <1>4, FS_CardinalityType, QuotaAssumption
<1>7. Cardinality(live \cup {c}) <= Quota[u]
  BY <1>2, <1>5, <1>6
<1>8. \A s2 \in Scope, u2 \in User :
        slots'[s2][u2] = IF s2 = s /\ u2 = u THEN live \cup {c} ELSE slots[s2][u2]
  BY <1>1, <1>2 DEF TypeOK
<1>9. QED BY <1>5, <1>7, <1>8 DEF SlotsBounded

\* Every other step of the protocol leaves a user's set alone or shrinks it.
LEMMA NextBounded ==
  ASSUME TypeOK, Shape, SlotsBounded, [Next]_vars
  PROVE  SlotsBounded'
<1> DEFINE Shrinks == \A s \in Scope, u \in User : slots'[s][u] \subseteq slots[s][u]
<1> USE QuotaAssumption, ScopeAssumption, OwnerAssumption
<1>1. CASE UNCHANGED vars
  BY <1>1 DEF SlotsBounded
<1>2. ASSUME NEW w \in Worker, NEW t \in Task, NEW k \in Token,
             AcquireSlot(w, t, k)
      PROVE  SlotsBounded'
  BY <1>2, AcquireBounded
<1>3. ASSUME NEW w \in Worker, NEW t \in Task, RefuseSlot(w, t) PROVE Shrinks
  BY <1>3 DEF RefuseSlot, Unexpired, TypeOK
<1>4. ASSUME NEW w \in Worker, GiveBack(w) \/ ReleaseSlot(w) PROVE Shrinks
  <2>1. slots' = [slots EXCEPT ![ScopeOf[w]][Owner[claim[w].task]] = @ \ {claim[w]}]
    BY <1>4 DEF GiveBack, ReleaseSlot
  <2>2. QED BY <2>1 DEF TypeOK
<1>5. ASSUME NEW w \in Worker, WorkerStep(w) \/ Crash(w) PROVE Shrinks
  BY <1>4, <1>5 DEF WorkerStep, Inspect, TakeDevice, SkipDevice, Begin, Decline,
     RenewDevice, RenewSlot, Finish, ReleaseDevice, Crash
<1>6. ASSUME NEW r \in Recoverer,
             (\E t \in Task : PickStale(r, t)) \/ StaleDevice(r) \/ StaleSlots(r)
      PROVE  Shrinks
  <2>1. CASE StaleSlots(r)
    BY <2>1 DEF StaleSlots, TypeOK
  <2>2. CASE (\E t \in Task : PickStale(r, t)) \/ StaleDevice(r)
    BY <2>2 DEF PickStale, StaleDevice
  <2>3. QED BY <1>6, <2>1, <2>2
<1>7. CASE Tick
  BY <1>7 DEF Tick, SlotsBounded
<1>8. ASSUME NEW s \in Scope, NEW u \in User, SlotsKeyExpires(s, u) PROVE Shrinks
  BY <1>8 DEF SlotsKeyExpires, TypeOK
<1>9. Shrinks => SlotsBounded'
  BY ShrinkBounded
<1>10. QED
  BY <1>1, <1>2, <1>3, <1>5, <1>6, <1>7, <1>8, <1>9 DEF Next

\* Within one lease scope a user never has more slots than the quota, with
\* expired and revived members counted.
THEOREM SlotQuota == Spec => []SlotsWithinQuota
<1>1. SlotsBounded => SlotsWithinQuota
  BY DEF SlotsBounded, SlotsWithinQuota
<1>2. TypeOK /\ Shape /\ SlotsBounded /\ [Next]_vars
        => TypeOK' /\ Shape' /\ SlotsBounded'
  BY NextType, NextBounded
<1>3. QED BY InitType, InitBounded, <1>1, <1>2, PTL DEF Spec

-----------------------------------------------------------------------------
(* Renewal in time: a supervised process is covered by Redis *)

\* What the theorems below assume of the environment, beside Spec: processes are
\* renewed in time and no recoverer removes leases.
Calm == Timely /\ Recoverer = {}

\* No process runs at the start and no device key has time left.
LEMMA InitCovered == Init => Covered
BY DEF Init, Covered

\* A tick that waits for renewals in time takes no lease from a running process.
LEMMA TickCovered ==
  ASSUME Calm, TypeOK, Shape, Covered, Tick
  PROVE  Covered'
<1> USE MarkerAssumption, ScopeAssumption, TTLAssumption
<1>1. InTime
  BY DEF Tick, Calm
<1>2. /\ \A s \in Scope, d \in Device :
           /\ device'[s][d] = IF left[s][d] > 1 THEN device[s][d] ELSE Free
           /\ left'[s][d] = IF left[s][d] > 1 THEN left[s][d] - 1 ELSE 0
           /\ left[s][d] \in Nat
      /\ \A k \in Token :
           /\ score'[k] = IF score[k] > 0 THEN score[k] - 1 ELSE 0
           /\ score[k] \in Nat
      /\ UNCHANGED <<slots, claim, at, ok, proc, pc>>
  BY DEF Tick, TypeOK
<1>3. \A s \in Scope, d \in Device : device'[s][d] = Free <=> left'[s][d] = 0
  BY <1>2 DEF Covered
<1>4. ASSUME NEW w \in Worker, proc[w] \/ ok[w]
      PROVE  device'[ScopeOf[w]][at[w]] = claim[w]
  <2>1. at[w] \in Device /\ ScopeOf[w] \in Scope
    BY <1>4 DEF Shape, TypeOK
  <2>2. QED BY <1>1, <1>2, <1>4, <2>1 DEF InTime, Covered
<1>5. ASSUME NEW w \in Worker, proc[w]
      PROVE  claim[w] \in slots[ScopeOf[w]][Owner[claim[w].task]]
               /\ score'[claim[w].token] > 0
  <2>1. claim[w].token \in Token
    BY <1>5 DEF Shape, TypeOK
  <2>2. QED BY <1>1, <1>2, <1>5, <2>1 DEF InTime, Covered, SlotsOf
<1>6. QED BY <1>2, <1>3, <1>4, <1>5 DEF Covered, SlotsOf

\* Taking or refusing a user slot, with its purge of expired members, leaves the
\* members of running processes in place.
LEMMA AcquireCovered ==
  ASSUME TypeOK, Shape, TokensApart, Covered,
         NEW w \in Worker, NEW t \in Task,
         (\E k \in Token : AcquireSlot(w, t, k)) \/ RefuseSlot(w, t)
  PROVE  Covered'
<1> USE MarkerAssumption, ScopeAssumption, OwnerAssumption, TTLAssumption
<1> DEFINE s == ScopeOf[w]
           u == Owner[t]
<1>1. /\ UNCHANGED <<device, left, at, ok, proc>>
      /\ pc[w] = "idle" /\ ~proc[w] /\ ~ok[w]
      /\ \A v \in Worker : v # w => claim'[v] = claim[v]
  BY DEF AcquireSlot, RefuseSlot, Shape, TypeOK
<1>2. \A s2 \in Scope, u2 \in User : \A m \in slots[s2][u2] :
        score[m.token] > 0 => m \in slots'[s2][u2]
  <2>1. PICK c : \/ slots' = [slots EXCEPT ![s][u] = Unexpired(s, u) \cup {c}]
                 \/ slots' = [slots EXCEPT ![s][u] = Unexpired(s, u)]
    BY DEF AcquireSlot, RefuseSlot
  <2>2. s \in Scope /\ u \in User
    OBVIOUS
  <2>3. Unexpired(s, u) \subseteq slots'[s][u]
    BY <2>1, <2>2 DEF TypeOK
  <2>4. \A s2 \in Scope, u2 \in User :
          ~(s2 = s /\ u2 = u) => slots'[s2][u2] = slots[s2][u2]
    BY <2>1, <2>2 DEF TypeOK
  <2>5. QED BY <2>3, <2>4 DEF Unexpired
<1>3. \A v \in Worker : proc[v] => score'[claim[v].token] > 0
  <2> SUFFICES ASSUME NEW v \in Worker, proc[v] PROVE score'[claim[v].token] > 0
    OBVIOUS
  <2>1. claim[v] # None /\ claim[v].token \in Token /\ score[claim[v].token] > 0
    BY DEF Shape, TypeOK, Covered
  <2>2. CASE RefuseSlot(w, t)
    BY <2>1, <2>2 DEF RefuseSlot
  <2>3. ASSUME NEW k \in Token, AcquireSlot(w, t, k)
        PROVE  score'[claim[v].token] > 0
    <3>1. claim[v].token # k
      BY <2>1, <2>3 DEF AcquireSlot, Fresh
    <3>2. QED BY <2>1, <2>3, <3>1 DEF AcquireSlot, TypeOK
  <2>4. QED BY <2>2, <2>3
<1>4. \A v \in Worker : proc[v] => claim'[v] \in SlotsOf(v)'
  <2> SUFFICES ASSUME NEW v \in Worker, proc[v]
               PROVE  claim'[v] \in slots'[ScopeOf[v]][Owner[claim'[v].task]]
    BY DEF SlotsOf
  <2>1. /\ claim'[v] = claim[v] /\ claim[v].task \in Task
        /\ claim[v] \in slots[ScopeOf[v]][Owner[claim[v].task]]
        /\ score[claim[v].token] > 0
    BY <1>1 DEF Covered, SlotsOf, Shape, TypeOK
  <2>2. QED BY <1>2, <2>1
<1>5. \A v \in Worker : proc'[v] \/ ok'[v] => device'[ScopeOf[v]][at'[v]] = claim'[v]
  BY <1>1 DEF Covered
<1>6. QED BY <1>1, <1>3, <1>4, <1>5 DEF Covered

\* A worker starts or continues its process only on a renewal that covers it, and no
\* command of another worker touches the cover.
LEMMA WorkerCovered ==
  ASSUME TypeOK, Shape, TokensApart, Covered,
         NEW w \in Worker, WorkerStep(w) \/ Crash(w)
  PROVE  Covered'
<1> USE MarkerAssumption, ScopeAssumption, OwnerAssumption, TTLAssumption
<1>1. \A v \in Worker : v # w => UNCHANGED <<pc[v], claim[v], at[v], ok[v], proc[v]>>
  BY DEF WorkerStep, Inspect, TakeDevice, SkipDevice, GiveBack, Begin, Decline,
     RenewDevice, RenewSlot, Finish, ReleaseDevice, ReleaseSlot, Crash, TypeOK
<1>2. \A v \in Worker : proc[v] \/ ok[v] =>
        /\ claim[v] # None /\ claim[v] \in [task: Task, token: Token]
        /\ at[v] \in Device /\ ScopeOf[v] \in Scope
        /\ device[ScopeOf[v]][at[v]] = claim[v]
        /\ pc[v] \in {"working", "renewing"}
  BY DEF Shape, TypeOK, Covered
<1>3. CASE UNCHANGED <<device, left, slots, score, claim, at>>
             /\ proc'[w] \in {FALSE, proc[w]} /\ ok'[w] \in {FALSE, ok[w]}
  BY <1>1, <1>3 DEF Covered, SlotsOf
<1>4. ASSUME NEW d \in Device, TakeDevice(w, d) PROVE Covered'
  <2> DEFINE s == ScopeOf[w]
  <2>1. /\ device' = [device EXCEPT ![s][d] = claim[w]]
        /\ left' = [left EXCEPT ![s][d] = TTL]
        /\ device[s][d] = Free /\ s \in Scope
        /\ ~proc[w] /\ ~ok[w]
        /\ UNCHANGED <<slots, score, claim, ok, proc>>
    BY <1>4 DEF TakeDevice, Shape, TypeOK
  <2>2. claim[w] # Free /\ TTL # 0
    BY <1>4 DEF TakeDevice, Shape, TypeOK
  <2>3. \A s2 \in Scope, d2 \in Device :
          /\ device'[s2][d2] = IF s2 = s /\ d2 = d THEN claim[w] ELSE device[s2][d2]
          /\ left'[s2][d2] = IF s2 = s /\ d2 = d THEN TTL ELSE left[s2][d2]
    BY <2>1 DEF TypeOK
  <2>4. \A s2 \in Scope, d2 \in Device : device'[s2][d2] = Free <=> left'[s2][d2] = 0
    BY <2>2, <2>3 DEF Covered
  <2>5. ASSUME NEW v \in Worker, proc[v] \/ ok[v]
        PROVE  device'[ScopeOf[v]][at'[v]] = claim[v]
    <3>1. v # w /\ claim[v] # Free
      BY <1>2, <2>1, <2>5
    <3>2. QED BY <1>1, <1>2, <2>1, <2>3, <2>5, <3>1
  <2>6. QED BY <2>1, <2>4, <2>5 DEF Covered, SlotsOf
<1>5. CASE RenewDevice(w)
  <2> DEFINE mine == device[ScopeOf[w]][at[w]] = claim[w]
  <2>1. /\ at[w] \in Device /\ ScopeOf[w] \in Scope
        /\ claim[w] \in [task: Task, token: Token] /\ claim[w] # Free
    <3>1. pc[w] = "working"
      BY <1>5 DEF RenewDevice
    <3>2. at[w] # None /\ claim[w] # None
      BY <3>1 DEF Shape
    <3>3. QED BY <3>2 DEF TypeOK
  <2>2. ok' = [ok EXCEPT ![w] = mine]
    BY <1>5, Zenon DEF RenewDevice
  <2>3. ok'[w] => mine
    BY <2>2, Zenon DEF TypeOK
  <2>4. /\ UNCHANGED <<device, slots, score, claim, at, proc>>
        /\ ~mine => left' = left
        /\ mine => left' = [left EXCEPT ![ScopeOf[w]][at[w]] = TTL]
    BY <1>5 DEF RenewDevice
  <2>5. \A s \in Scope, d \in Device : device'[s][d] = Free <=> left'[s][d] = 0
    <3>1. CASE ~mine
      BY <2>4, <3>1 DEF Covered
    <3>2. CASE mine
      <4>1. \A s \in Scope, d \in Device :
              left'[s][d] = IF s = ScopeOf[w] /\ d = at[w] THEN TTL ELSE left[s][d]
        BY <2>1, <2>4, <3>2 DEF TypeOK
      <4>2. QED BY <2>1, <2>4, <3>2, <4>1 DEF Covered
    <3>3. QED BY <3>1, <3>2
  <2>6. QED BY <1>1, <2>3, <2>4, <2>5 DEF Covered, SlotsOf
<1>6. CASE RenewSlot(w)
  <2> DEFINE mine == claim[w] \in SlotsOf(w)
  <2>1. /\ UNCHANGED <<device, left, slots, claim, at>>
        /\ proc'[w] <=> ok[w] /\ mine
        /\ ok'[w] = FALSE
        /\ claim[w] # None /\ claim[w].token \in Token
        /\ ~mine => score' = score
        /\ mine => score' = [score EXCEPT ![claim[w].token] = TTL]
    BY <1>6 DEF RenewSlot, Shape, TypeOK
  <2>2. \A v \in Worker : proc'[v] \/ ok'[v] => device'[ScopeOf[v]][at'[v]] = claim'[v]
    BY <1>1, <2>1 DEF Covered
  <2>3. \A v \in Worker : proc'[v] => claim'[v] \in SlotsOf(v)'
    BY <1>1, <2>1 DEF Covered, SlotsOf
  <2>4. \A k \in Token : score'[k] \in {score[k], TTL}
    BY <2>1 DEF TypeOK
  <2>5. ASSUME NEW v \in Worker, proc'[v] PROVE score'[claim'[v].token] > 0
    <3>1. CASE v = w
      BY <2>1, <2>5, <3>1 DEF TypeOK
    <3>2. CASE v # w
      <4>1. proc[v] /\ claim'[v] = claim[v] /\ claim[v].token \in Token
        BY <1>1, <1>2, <2>1, <2>5, <3>2
      <4>2. score[claim[v].token] > 0
        BY <4>1 DEF Covered
      <4>3. QED BY <2>4, <4>1, <4>2
    <3>3. QED BY <3>1, <3>2
  <2>6. QED BY <2>1, <2>2, <2>3, <2>5 DEF Covered
<1>7. CASE ReleaseDevice(w)
  <2> DEFINE mine == device[ScopeOf[w]][at[w]] = claim[w]
  <2>1. /\ at[w] \in Device /\ ScopeOf[w] \in Scope /\ claim[w] # None
        /\ ~proc[w] /\ ~ok[w]
    BY <1>7 DEF ReleaseDevice, Shape, TypeOK
  <2>2. /\ UNCHANGED <<slots, score, claim, at, ok, proc>>
        /\ ~mine => UNCHANGED <<device, left>>
        /\ mine => /\ device' = [device EXCEPT ![ScopeOf[w]][at[w]] = Free]
                   /\ left' = [left EXCEPT ![ScopeOf[w]][at[w]] = 0]
    BY <1>7 DEF ReleaseDevice
  <2>3. CASE ~mine
    BY <2>2, <2>3 DEF Covered, SlotsOf
  <2>4. CASE mine
    <3>1. \A s \in Scope, d \in Device :
            /\ device'[s][d] = IF s = ScopeOf[w] /\ d = at[w] THEN Free ELSE device[s][d]
            /\ left'[s][d] = IF s = ScopeOf[w] /\ d = at[w] THEN 0 ELSE left[s][d]
      BY <2>1, <2>2, <2>4 DEF TypeOK
    <3>2. ASSUME NEW v \in Worker, proc[v] \/ ok[v]
          PROVE  device'[ScopeOf[v]][at[v]] = claim[v]
      <4>1. v # w /\ claim[v] # claim[w]
        BY <1>2, <2>1, <3>2 DEF TokensApart
      <4>2. ~(ScopeOf[v] = ScopeOf[w] /\ at[v] = at[w])
        BY <1>2, <2>4, <3>2, <4>1
      <4>3. QED BY <1>2, <3>1, <3>2, <4>2
    <3>3. QED BY <2>2, <3>1, <3>2 DEF Covered, SlotsOf
  <2>5. QED BY <2>3, <2>4
<1>8. CASE GiveBack(w) \/ ReleaseSlot(w)
  <2>1. /\ ~proc[w] /\ ~ok[w] /\ claim[w] # None
        /\ claim[w].task \in Task
        /\ UNCHANGED <<device, left, score, ok, proc>>
        /\ slots' = [slots EXCEPT ![ScopeOf[w]][Owner[claim[w].task]] = @ \ {claim[w]}]
    BY <1>8 DEF GiveBack, ReleaseSlot, Shape, TypeOK
  <2>2. \A s \in Scope, u \in User : \A m \in slots[s][u] :
          m # claim[w] => m \in slots'[s][u]
    BY <2>1 DEF TypeOK
  <2>3. ASSUME NEW v \in Worker, proc[v] \/ ok[v]
        PROVE  /\ v # w
               /\ claim'[v] = claim[v] /\ at'[v] = at[v]
               /\ claim[v] # claim[w] /\ Owner[claim[v].task] \in User
    BY <1>1, <1>2, <2>1, <2>3 DEF TokensApart
  <2>4. \A v \in Worker : proc[v] =>
          claim'[v] \in slots'[ScopeOf[v]][Owner[claim'[v].task]]
    BY <2>2, <2>3 DEF Covered, SlotsOf
  <2>5. QED BY <2>1, <2>3, <2>4 DEF Covered, SlotsOf
<1>9. CASE Crash(w)
  <2>1. /\ ~proc'[w] /\ ~ok'[w]
        /\ UNCHANGED redis
    BY <1>9 DEF Crash, TypeOK
  <2>2. QED BY <1>1, <2>1 DEF Covered, SlotsOf
<1>10. CASE (\E idle \in SUBSET Device : Inspect(w, idle))
              \/ (\E d \in Device : SkipDevice(w, d))
              \/ Begin(w) \/ Decline(w) \/ Finish(w)
  BY <1>3, <1>10 DEF Inspect, SkipDevice, Begin, Decline, Finish, TypeOK
<1>11. QED
  BY <1>4, <1>5, <1>6, <1>7, <1>8, <1>9, <1>10 DEF WorkerStep

\* The cover of running processes survives every step, if renewal is in time and
\* nobody runs the recovery.
LEMMA NextCovered ==
  ASSUME Calm, TypeOK, Shape, TokensApart, Covered, [Next]_vars
  PROVE  Covered'
<1>1. CASE UNCHANGED vars
  BY <1>1 DEF Covered, SlotsOf
<1>2. CASE Tick
  BY <1>2, TickCovered
<1>3. ASSUME NEW s \in Scope, NEW u \in User, SlotsKeyExpires(s, u) PROVE Covered'
  <2>1. /\ \A m \in slots[s][u] : ~(score[m.token] > 0)
        /\ slots' = [slots EXCEPT ![s][u] = {}]
        /\ UNCHANGED <<device, left, score, claim, at, ok, proc>>
    BY <1>3 DEF SlotsKeyExpires, Unexpired
  <2>2. \A s2 \in Scope, u2 \in User : \A m \in slots[s2][u2] :
          score[m.token] > 0 => m \in slots'[s2][u2]
    BY <2>1 DEF TypeOK
  <2>3. \A v \in Worker : proc[v] => ScopeOf[v] \in Scope /\ Owner[claim[v].task] \in User
    BY ScopeAssumption, OwnerAssumption DEF Shape, TypeOK
  <2>4. QED BY <2>1, <2>2, <2>3 DEF Covered, SlotsOf
<1>4. QED
  BY <1>1, <1>2, <1>3, AcquireCovered, WorkerCovered DEF Next, Calm

\* With renewal in time and no recoverer, two supervised algorithm processes
\* never share a GPU, and the GPU's key holds the claim of the one that runs.
THEOREM Exclusion ==
  ASSUME Timely, Recoverer = {}
  PROVE  Spec => []OneProcessPerDevice
<1> DEFINE Inv == TypeOK /\ Shape /\ TokensApart /\ Covered
<1>1. Init => Inv
  BY InitType, InitApart, InitCovered
<1>2. Inv /\ [Next]_vars => Inv'
  BY NextType, NextApart, NextCovered DEF Calm
<1>3. Inv => OneProcessPerDevice
  BY DEF Shape, TypeOK, TokensApart, Covered, OneProcessPerDevice
<1>4. QED BY <1>1, <1>2, <1>3, PTL DEF Spec

\* RunningWithinQuota, of sets that are known to be finite.
FewRunning ==
  \A s \in Scope, u \in User :
    IsFiniteSet(Running(s, u)) /\ Cardinality(Running(s, u)) <= Quota[u]

\* The processes running for a user in a scope hold different members of one set.
LEMMA RunningBounded ==
  ASSUME TypeOK, Shape, TokensApart, SlotsBounded, Covered
  PROVE  FewRunning
<1> SUFFICES ASSUME NEW s \in Scope, NEW u \in User
             PROVE  IsFiniteSet(Running(s, u)) /\ Cardinality(Running(s, u)) <= Quota[u]
  BY DEF FewRunning
<1> DEFINE R == Running(s, u)
           f == [w \in R |-> claim[w]]
<1>1. IsFiniteSet(slots[s][u]) /\ Cardinality(slots[s][u]) <= Quota[u]
  BY DEF SlotsBounded
<1>2. f \in Injection(R, slots[s][u])
  <2>1. \A w \in R : w \in Worker /\ claim[w] # None /\ claim[w] \in slots[s][u]
    BY DEF Running, Covered, SlotsOf, Shape
  <2>2. \A v, w \in R : claim[v] = claim[w] => v = w
    BY <2>1 DEF TokensApart
  <2>3. QED BY <2>1, <2>2 DEF Injection, IsInjective
<1>3. IsFiniteSet(R) /\ Cardinality(R) <= Cardinality(slots[s][u])
  BY <1>1, <1>2, FS_Injection
<1>4. /\ Cardinality(R) \in Nat /\ Cardinality(slots[s][u]) \in Nat
      /\ Quota[u] \in Nat
  BY <1>1, <1>3, FS_CardinalityType, QuotaAssumption
<1>5. QED BY <1>1, <1>3, <1>4

\* With renewal in time and no recoverer, no more than gpu_concurrency_quota
\* processes of a user run in one lease scope.
THEOREM RunningQuota ==
  ASSUME Timely, Recoverer = {}
  PROVE  Spec => []RunningWithinQuota
<1> DEFINE Inv == TypeOK /\ Shape /\ TokensApart /\ SlotsBounded /\ Covered
<1>1. Init => Inv
  BY InitType, InitApart, InitBounded, InitCovered
<1>2. Inv /\ [Next]_vars => Inv'
  BY NextType, NextApart, NextBounded, NextCovered DEF Calm
<1>3. Inv => RunningWithinQuota
  BY RunningBounded DEF FewRunning, RunningWithinQuota
<1>4. QED BY <1>1, <1>2, <1>3, PTL DEF Spec

-----------------------------------------------------------------------------
(* Late commands of a worker that lost its lease *)

\* A step of the worker leaves device keys with another claim as they are.
LEMMA NextOwnLease ==
  ASSUME TypeOK, Shape, [Next]_vars
  PROVE  OwnLeaseStep
<1> SUFFICES ASSUME NEW w \in Worker, pc'[w] # pc[w],
                    NEW s \in Scope, NEW d \in Device,
                    device[s][d] \notin {Free, claim[w]}
             PROVE  device'[s][d] = device[s][d] /\ left'[s][d] = left[s][d]
  BY DEF OwnLeaseStep
<1> USE ScopeAssumption
<1>1. \/ \E t \in Task, k \in Token : AcquireSlot(w, t, k)
      \/ WorkerStep(w) \/ Crash(w)
  <2>1. ASSUME NEW v \in Worker,
               \/ \E t \in Task : (\E k \in Token : AcquireSlot(v, t, k)) \/ RefuseSlot(v, t)
               \/ WorkerStep(v) \/ Crash(v)
        PROVE  v = w
    BY <2>1 DEF AcquireSlot, RefuseSlot, WorkerStep, Inspect, TakeDevice, SkipDevice,
       GiveBack, Begin, Decline, RenewDevice, RenewSlot, Finish, ReleaseDevice,
       ReleaseSlot, Crash, TypeOK
  <2>2. ~(UNCHANGED vars \/ Tick)
    BY DEF Tick
  <2>3. \A r \in Recoverer, t \in Task :
          ~(PickStale(r, t) \/ StaleDevice(r) \/ StaleSlots(r))
    BY DEF PickStale, StaleDevice, StaleSlots
  <2>4. \A s2 \in Scope, u2 \in User : ~SlotsKeyExpires(s2, u2)
    BY DEF SlotsKeyExpires
  <2>5. \A t \in Task : ~RefuseSlot(w, t)
    BY DEF RefuseSlot
  <2>6. \A r \in Recoverer : ~(StaleDevice(r) \/ StaleSlots(r))
    BY DEF StaleDevice, StaleSlots
  <2>7. QED BY <2>1, <2>2, <2>3, <2>4, <2>5, <2>6 DEF Next
<1>2. ASSUME NEW e \in Device, TakeDevice(w, e)
      PROVE  device'[s][d] = device[s][d] /\ left'[s][d] = left[s][d]
  <2>1. ~(s = ScopeOf[w] /\ d = e)
    BY <1>2 DEF TakeDevice
  <2>2. QED BY <1>2, <2>1 DEF TakeDevice, TypeOK
<1>3. CASE RenewDevice(w)
  <2>1. CASE device[ScopeOf[w]][at[w]] = claim[w]
    <3>1. left' = [left EXCEPT ![ScopeOf[w]][at[w]] = TTL] /\ device' = device
      BY <1>3, <2>1 DEF RenewDevice
    <3>2. QED BY <2>1, <3>1 DEF TypeOK
  <2>2. CASE device[ScopeOf[w]][at[w]] # claim[w]
    BY <1>3, <2>2 DEF RenewDevice
  <2>3. QED BY <2>1, <2>2
<1>4. CASE ReleaseDevice(w)
  <2>1. CASE device[ScopeOf[w]][at[w]] = claim[w]
    <3>1. /\ left' = [left EXCEPT ![ScopeOf[w]][at[w]] = 0]
          /\ device' = [device EXCEPT ![ScopeOf[w]][at[w]] = Free]
      BY <1>4, <2>1 DEF ReleaseDevice
    <3>2. QED BY <2>1, <3>1 DEF TypeOK
  <2>2. CASE device[ScopeOf[w]][at[w]] # claim[w]
    BY <1>4, <2>2 DEF ReleaseDevice
  <2>3. QED BY <2>1, <2>2
<1>5. CASE UNCHANGED <<device, left>>
  BY <1>5
<1>6. QED
  BY <1>1, <1>2, <1>3, <1>4, <1>5 DEF AcquireSlot, WorkerStep, Inspect, SkipDevice,
     GiveBack, Begin, Decline, RenewSlot, Finish, ReleaseSlot, Crash

\* A worker's renew and release, however late, never extend or delete a device
\* key that holds another claim.
THEOREM OwnLease == Spec => OnlyOwnLease
<1>1. TypeOK /\ Shape /\ [Next]_vars => [OwnLeaseStep]_vars
  BY NextOwnLease
<1>2. TypeOK /\ Shape /\ [Next]_vars => TypeOK' /\ Shape'
  BY NextType
<1>3. QED BY InitType, <1>1, <1>2, PTL DEF Spec, OnlyOwnLease

-----------------------------------------------------------------------------
(* The leases implement exclusive GPUs *)

\* What the promise needs of a state: types, a process has a device and a claim, no two
\* share a GPU, and a user has few of them.
Kept == TypeOK /\ Shape /\ OneProcessPerDevice /\ FewRunning

\* A worker's process is the one it had.
Same(v) == proc'[v] = proc[v] /\ (proc[v] => at'[v] = at[v] /\ claim'[v] = claim[v])

\* If every worker's process is the one it had, nothing happens to the promise.
LEMMA SameRun == (\A v \in Worker : Same(v)) => Run' = Run
BY DEF Same, Run

\* A process that ends stops in the promise.
LEMMA StopRun ==
  ASSUME TypeOK, Shape, NEW w \in Worker, proc[w], ~proc'[w],
         \A v \in Worker : v # w => Same(v)
  PROVE  Promise!Stop(w)
<1>1. Run[w] = [device |-> at[w], user |-> Owner[claim[w].task]]
  BY DEF Run
<1>2. Run[w] # None
  <2>1. at[w] \in Device /\ claim[w] \in Claim
    BY DEF TypeOK, Shape
  <2>2. Owner[claim[w].task] \in User
    BY <2>1, OwnerAssumption DEF Claim
  <2>3. QED BY <1>1, <2>1, <2>2, MarkerAssumption
<1>3. Run' = [Run EXCEPT ![w] = None]
  BY DEF Run, Same
<1>4. QED BY <1>2, <1>3 DEF Promise!Stop

\* A process that begins starts in the promise: no other is on its GPU, and its user has
\* one less than the quota.
LEMMA StartRun ==
  ASSUME Kept, Kept', NEW w \in Worker, ~proc[w], proc'[w],
         \A v \in Worker : v # w => Same(v)
  PROVE  \E d \in Device, u \in User : Promise!Start(w, d, u)
<1> DEFINE s == ScopeOf[w]
<1>1. PICK d \in Device, u \in User : d = at'[w] /\ u = Owner[claim'[w].task]
  <2>1. at'[w] \in Device /\ claim'[w] \in Claim
    BY DEF Kept, TypeOK, Shape
  <2>2. QED BY <2>1, OwnerAssumption DEF Claim
<1> DEFINE Mine == {v \in Promise!Inside(s) : Run[v].user = u}
<1>2. Run[w] = None
  BY DEF Run
<1>3. \A v \in Promise!Inside(s) :
        /\ v \in Worker /\ v # w /\ ScopeOf[v] = s
        /\ proc[v] /\ proc'[v] /\ at'[v] = at[v] /\ claim'[v] = claim[v]
        /\ Run[v].device = at[v] /\ Run[v].user = Owner[claim[v].task]
  <2> SUFFICES ASSUME NEW v \in Worker, Run[v] # None, ScopeOf[v] = s
               PROVE  /\ v # w /\ proc[v] /\ proc'[v]
                      /\ at'[v] = at[v] /\ claim'[v] = claim[v]
                      /\ Run[v].device = at[v] /\ Run[v].user = Owner[claim[v].task]
    BY DEF Promise!Inside
  <2>1. v # w
    BY <1>2
  <2>2. proc[v]
    BY DEF Run
  <2>3. Run[v].device = at[v] /\ Run[v].user = Owner[claim[v].task]
    BY <2>2 DEF Run
  <2>4. proc'[v] /\ at'[v] = at[v] /\ claim'[v] = claim[v]
    BY <2>1, <2>2 DEF Same
  <2>5. QED BY <2>1, <2>2, <2>3, <2>4
<1>4. ASSUME NEW v \in Promise!Inside(s) PROVE Run[v].device # d
  <2>1. Run[v].device = at[v] /\ at'[v] = at[v]
    BY <1>3
  <2>2. v \in Worker /\ v # w /\ ScopeOf[v] = ScopeOf[w] /\ proc'[v] /\ proc'[w]
    BY <1>3
  <2>3. at'[v] # at'[w]
    BY <2>2 DEF Kept, OneProcessPerDevice
  <2>4. QED BY <1>1, <2>1, <2>3
<1>5. Cardinality(Mine) < Quota[u]
  <2> DEFINE R == Running(s, u)'
  <2>1. IsFiniteSet(R) /\ Cardinality(R) <= Quota[u]
    BY <1>1, ScopeAssumption DEF Kept, FewRunning
  <2>2. w \in R
    BY <1>1 DEF Running
  <2>3. Mine \subseteq R \ {w}
    <3>1. ASSUME NEW v \in Mine PROVE v \in R \ {w}
      <4>1. v \in Promise!Inside(s) /\ Run[v].user = u
        OBVIOUS
      <4>2. /\ v \in Worker /\ v # w /\ ScopeOf[v] = s /\ proc'[v]
            /\ Run[v].user = Owner[claim'[v].task]
        BY <1>3, <4>1
      <4>3. QED BY <4>1, <4>2 DEF Running
    <3>2. QED BY <3>1
  <2>4. /\ IsFiniteSet(R \ {w})
        /\ Cardinality(R \ {w}) = Cardinality(R) - 1
    BY <2>1, <2>2, FS_RemoveElement
  <2>5. Cardinality(Mine) <= Cardinality(R \ {w}) /\ IsFiniteSet(Mine)
    BY <2>3, <2>4, FS_Subset
  <2>6. /\ Cardinality(R) \in Nat /\ Cardinality(Mine) \in Nat
        /\ Quota[u] \in Nat
    BY <1>1, <2>1, <2>5, FS_CardinalityType, QuotaAssumption
  <2>7. QED BY <2>1, <2>4, <2>5, <2>6
<1>6. Run' = [Run EXCEPT ![w] = [device |-> d, user |-> u]]
  BY <1>1 DEF Run, Same
<1>7. Promise!Start(w, d, u)
  <2>1. \A S : Promise!Cardinality(S) = Cardinality(S)
    BY DEF Promise!Cardinality, Promise!IsFiniteSet, Cardinality, IsFiniteSet
  <2>2. QED BY <1>2, <1>4, <1>5, <1>6, <2>1 DEF Promise!Start
<1>8. QED BY <1>1, <1>7

\* In every step all workers' processes are the ones they had, but for one at most.
LEMMA OneChanges ==
  ASSUME TypeOK, Shape, [Next]_vars
  PROVE  \/ \A v \in Worker : Same(v)
         \/ \E w \in Worker : /\ proc'[w] # proc[w]
                               /\ \A v \in Worker : v # w => Same(v)
<1>1. CASE UNCHANGED <<proc, at, claim>>
  BY <1>1 DEF Same
<1>2. ASSUME NEW w \in Worker, NEW t \in Task, NEW k \in Token, AcquireSlot(w, t, k)
      PROVE  \A v \in Worker : Same(v)
  BY <1>2 DEF AcquireSlot, TypeOK, Shape, Same
<1>3. ASSUME NEW w \in Worker, WorkerStep(w) \/ Crash(w)
      PROVE  /\ \A v \in Worker : v # w => Same(v)
             /\ proc'[w] = proc[w] => Same(w)
  BY <1>3 DEF WorkerStep, Inspect, TakeDevice, SkipDevice, GiveBack, Begin, Decline,
     RenewDevice, RenewSlot, Finish, ReleaseDevice, ReleaseSlot, Crash, TypeOK, Shape,
     Same
<1>4. QED
  BY <1>1, <1>2, <1>3 DEF Next, vars, worker, RefuseSlot, Tick, SlotsKeyExpires, PickStale,
     StaleDevice, StaleSlots

\* A step of the leases is a step of the promise, or none.
LEMMA NextKept ==
  ASSUME Kept, Kept', [Next]_vars
  PROVE  [Promise!Next]_Run
<1>1. CASE \A v \in Worker : Same(v)
  BY <1>1, SameRun
<1>2. ASSUME NEW w \in Worker, proc'[w] # proc[w], \A v \in Worker : v # w => Same(v)
      PROVE  Promise!Next
  <2>1. proc[w] \in BOOLEAN /\ proc'[w] \in BOOLEAN
    BY DEF Kept, TypeOK
  <2>2. CASE proc[w] /\ ~proc'[w]
    <3>1. Promise!Stop(w)
      BY <1>2, <2>2, StopRun DEF Kept
    <3>2. QED BY <3>1 DEF Promise!Next
  <2>3. CASE ~proc[w] /\ proc'[w]
    <3>1. \E d \in Device, u \in User : Promise!Start(w, d, u)
      BY <1>2, <2>3, StartRun
    <3>2. QED BY <3>1 DEF Promise!Next
  <2>4. QED BY <1>2, <2>1, <2>2, <2>3
<1>3. TypeOK /\ Shape
  BY DEF Kept
<1>4. QED BY <1>1, <1>2, <1>3, OneChanges

\* With renewal in time and no recoverer, the leases implement exclusive GPUs within the
\* users' quotas.
THEOREM Implements ==
  ASSUME Timely, Recoverer = {}
  PROVE  Spec => KeepsPromise
<1> DEFINE Inv == TypeOK /\ Shape /\ TokensApart /\ SlotsBounded /\ Covered
<1>1. Init => Inv /\ Promise!Init
  <2>1. Init => Promise!Init
    BY DEF Init, Promise!Init, Run
  <2>2. QED BY <2>1, InitType, InitApart, InitBounded, InitCovered
<1>2. Inv /\ [Next]_vars => Inv'
  BY NextType, NextApart, NextBounded, NextCovered DEF Calm
<1>3. Inv => Kept
  <2>1. Inv => FewRunning
    BY RunningBounded
  <2>2. Inv => OneProcessPerDevice
    BY DEF Shape, TypeOK, TokensApart, Covered, OneProcessPerDevice
  <2>3. QED BY <2>1, <2>2 DEF Kept
<1>4. Kept /\ Kept' /\ [Next]_vars => [Promise!Next]_Run
  BY NextKept
<1>5. QED BY <1>1, <1>2, <1>3, <1>4, PTL DEF Spec, KeepsPromise, Promise!Spec
=============================================================================
