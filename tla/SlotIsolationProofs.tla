------------------------ MODULE SlotIsolationProofs ------------------------
(***************************************************************************)
(* Theorems about SlotIsolation, for any number of loops, slots, tasks and *)
(* scopes, any bounds, and stores that may fail at every step.             *)
(***************************************************************************)
EXTENDS SlotIsolation, TLAPS

\* What a slot is prepared for is a task of the queue.  It says where a task's write set is
\* defined, which the type of the scope lock registry rests on.
SlotsHaveTasks ==
  \A p \in Jobs : slot[p].at \in Preparing \cup {"running"} => slot[p].task \in Tasks

Typed == TypeOK /\ SlotsHaveTasks

\* The empty slot and the absent lease are well typed.
LEMMA EmptyTyped ==
  /\ NoLease \in Lease
  /\ \A place \in Places : EmptySlot(place) \in Slot
BY DEF NoLease, EmptySlot, Slot, Lease

\* The ways a step moves on in a slot keep the slots well typed.
LEMMA GotoTyped ==
  ASSUME Typed, NEW p \in Jobs, NEW place \in Places, Goto(p, place),
         place \in Preparing \cup {"running"} => slot[p].task \in Tasks
  PROVE  slot' \in [Jobs -> Slot] /\ SlotsHaveTasks'
BY DEF Typed, TypeOK, SlotsHaveTasks, Goto, Slot

LEMMA HoldTyped ==
  ASSUME Typed, NEW p \in Jobs, NEW place \in Places, NEW lease \in Lease, Hold(p, place, lease),
         place \in Preparing \cup {"running"} => slot[p].task \in Tasks
  PROVE  slot' \in [Jobs -> Slot] /\ SlotsHaveTasks'
BY DEF Typed, TypeOK, SlotsHaveTasks, Hold, Slot

LEMMA LeaveTyped ==
  ASSUME Typed, NEW p \in Jobs, Leave(p)
  PROVE  slot' \in [Jobs -> Slot] /\ SlotsHaveTasks'
<1>1. EmptySlot("idle") \in Slot /\ EmptySlot("idle").at = "idle"
  BY EmptyTyped DEF EmptySlot, Places
<1>2. "idle" \notin Preparing \cup {"running"}
  BY DEF Preparing
<1> QED
  BY <1>1, <1>2 DEF Typed, TypeOK, SlotsHaveTasks, Leave

LEMMA ReturnTyped ==
  ASSUME Typed, NEW p \in Jobs, releaseHeldLease(p)
  PROVE  slot' \in [Jobs -> Slot] /\ SlotsHaveTasks'
BY LeaveTyped, GotoTyped DEF releaseHeldLease, Places, Preparing

\* Leases stay leases when they are renewed, released, given a copy or succeeded.
LEMMA LeaseTyped ==
  ASSUME NEW lease \in Lease, NEW at \in Nat
  PROVE  /\ renewWorkerLease(lease, at) \in Lease
         /\ releasedWorkerLease(lease) \in Lease
         /\ [lease EXCEPT !.copy = TRUE] \in Lease
         /\ [lease EXCEPT !.locked = at + TTL] \in Lease
         /\ nextFencingToken(lease) \in Nat
<1>1. at + TTL \in Nat
  BY SlotTiming
<1>2. renewWorkerLease(lease, at) \in Lease
  BY <1>1 DEF Lease, renewWorkerLease
<1>3. /\ releasedWorkerLease(lease) \in Lease
      /\ [lease EXCEPT !.copy = TRUE] \in Lease
      /\ [lease EXCEPT !.locked = at + TTL] \in Lease
  BY <1>1 DEF Lease, releasedWorkerLease
<1>4. nextFencingToken(lease) \in Nat
  BY DEF Lease, nextFencingToken
<1> QED
  BY <1>2, <1>3, <1>4

LEMMA NewLeaseTyped ==
  ASSUME Typed, NEW p \in Jobs, NEW at \in Nat
  PROVE  newLease(p, at) \in Lease
<1>1. p[1] \in Loops /\ p[2] \in Workers
  BY DEF Jobs
<1>2. leases[p[2]] \in Lease /\ slot[p].task \in Tasks \cup {NoTask} /\ issued \in Nat
  BY <1>1 DEF Typed, TypeOK, Slot
<1>3. nextFencingToken(leases[p[2]]) \in Nat
  BY <1>2, LeaseTyped
<1> QED
  BY <1>1, <1>2, <1>3, SlotTiming, 0 \in Nat DEF newLease, Lease

\* The times a step may have read from the clock are times.
LEMMA ClockTyped ==
  ASSUME Typed, NEW p \in Jobs
  PROVE  \A at \in ClockReads(p) : at \in Nat /\ at <= now
BY DEF Typed, TypeOK, ClockReads, Slot

\* Types that a single place in a function disturbs.
LEMMA SetLeaseTyped ==
  ASSUME Typed, NEW p \in Jobs, NEW lease \in Lease, SetLease(p[2], lease)
  PROVE  leases' \in [Workers -> Lease]
BY DEF Typed, TypeOK, SetLease, Jobs

LEMMA TypedInit == Init => Typed
<1> SUFFICES ASSUME Init PROVE Typed
  OBVIOUS
<1>1. EmptySlot("off") \in Slot /\ EmptySlot("off").at = "off"
  BY EmptyTyped DEF EmptySlot, Places
<1>2. "off" \notin Preparing \cup {"running"}
  BY DEF Preparing
<1> QED
  BY <1>1, <1>2, EmptyTyped DEF Init, Typed, TypeOK, SlotsHaveTasks

LEMMA TypedStep == Typed /\ [Next]_vars => Typed'
<1> SUFFICES ASSUME Typed, [Next]_vars PROVE Typed'
  OBVIOUS
<1> USE DEF Typed
<1>1. ASSUME Tick PROVE Typed'
  BY <1>1 DEF Tick, TypeOK, SlotsHaveTasks
<1>2. ASSUME NEW l \in Loops, Start(l) PROVE Typed'
  <2>1. [at |-> "reap", lease |-> NoLease, task |-> NoTask, since |-> now] \in Slot
    BY EmptyTyped DEF TypeOK, Slot, Places
  <2>2. slot' \in [Jobs -> Slot]
    BY <1>2, <2>1 DEF Start, TypeOK
  <2>3. SlotsHaveTasks'
    BY <1>2 DEF Start, TypeOK, SlotsHaveTasks, Preparing
  <2> QED
    BY <1>2, <2>2, <2>3 DEF Start, TypeOK
<1>3. ASSUME NEW l \in Loops, Crash(l) PROVE Typed'
  <2>1. EmptySlot("off") \in Slot /\ EmptySlot("off").at = "off"
    BY EmptyTyped DEF EmptySlot, Places
  <2>2. slot' \in [Jobs -> Slot]
    BY <1>3, <2>1 DEF Crash, TypeOK
  <2>3. SlotsHaveTasks'
    BY <1>3, <2>1 DEF Crash, TypeOK, SlotsHaveTasks, Preparing
  <2> QED
    BY <1>3, <2>2, <2>3 DEF Crash, TypeOK
<1>4. ASSUME NEW p \in Jobs, Reap(p) PROVE Typed'
  <2>1. leases[p[2]] \in Lease
    BY DEF TypeOK, Jobs
  <2>2. CASE SetLease(p[2], releasedWorkerLease(leases[p[2]])) /\ Hold(p, "unlock", leases[p[2]])
    <3>1. leases' \in [Workers -> Lease]
      BY <2>1, <2>2, LeaseTyped, SetLeaseTyped, 0 \in Nat
    <3>2. slot' \in [Jobs -> Slot] /\ SlotsHaveTasks'
      BY <2>1, <2>2, HoldTyped DEF Places, Preparing
    <3> QED
      BY <1>4, <3>1, <3>2 DEF Reap, TypeOK
  <2>3. CASE Leave(p) /\ UNCHANGED leases
    BY <1>4, <2>3, LeaveTyped DEF Reap, TypeOK
  <2> QED
    BY <1>4, <2>2, <2>3 DEF Reap
<1>5. ASSUME NEW p \in Jobs, NEW t \in Tasks, NEW place \in Preparing, NEW lease \in Lease,
             Pick(p, t, place, lease)
      PROVE  Typed'
  <2>1. [at |-> place, lease |-> lease, task |-> t, since |-> now] \in Slot
    BY DEF TypeOK, Slot, Places
  <2>2. slot' \in [Jobs -> Slot] /\ SlotsHaveTasks'
    BY <1>5, <2>1 DEF Pick, TypeOK, SlotsHaveTasks
  <2> QED
    BY <1>5, <2>2 DEF Pick, TypeOK
<1>6. ASSUME NEW p \in Jobs, Plan(p) PROVE Typed'
  <2>1. PICK t \in Tasks : PlanProvision(p, t) \/ \E w \in Workers : PlanGranted(p, t, w)
    BY <1>6 DEF Plan
  <2>2. CASE PlanProvision(p, t)
    BY <2>2, <1>5, EmptyTyped DEF PlanProvision, Preparing
  <2>3. ASSUME NEW w \in Workers, PlanGranted(p, t, w) PROVE Typed'
    BY <2>3, <1>5 DEF PlanGranted, Preparing, TypeOK
  <2> QED
    BY <2>1, <2>2, <2>3
<1>7. ASSUME NEW p \in Jobs, acquireWorkerLease(p) PROVE Typed'
  <2> DEFINE previous == leases[p[2]]
  <2>1. previous \in Lease /\ slot[p].task \in Tasks
    BY <1>7 DEF acquireWorkerLease, TypeOK, SlotsHaveTasks, Jobs, Preparing
  <2>2. PICK at \in ClockReads(p) :
          \/ Leave(p) /\ UNCHANGED <<leases, issued>>
          \/ /\ SetLease(p[2], renewWorkerLease(previous, at))
             /\ Hold(p, "locks", renewWorkerLease(previous, at)) \/ Leave(p)
             /\ UNCHANGED issued
          \/ /\ issued' = issued + 1
             /\ SetLease(p[2], newLease(p, at))
             /\ Hold(p, "locks", newLease(p, at))
    BY <1>7 DEF acquireWorkerLease
  <2>3. at \in Nat
    BY ClockTyped
  <2>4. renewWorkerLease(previous, at) \in Lease /\ newLease(p, at) \in Lease
    BY <2>1, <2>3, LeaseTyped, NewLeaseTyped
  <2>5. issued' \in Nat
    BY <2>2 DEF TypeOK
  <2>6. leases' \in [Workers -> Lease]
    BY <2>2, <2>4, SetLeaseTyped DEF TypeOK
  <2>7. slot' \in [Jobs -> Slot] /\ SlotsHaveTasks'
    BY <2>1, <2>2, <2>4, HoldTyped, LeaveTyped DEF Places, Preparing
  <2> QED
    BY <1>7, <2>5, <2>6, <2>7 DEF acquireWorkerLease, TypeOK
<1>8. ASSUME NEW p \in Jobs, acquireScopeLocks(p) PROVE Typed'
  <2> DEFINE id == slot[p].lease.id
             scopes == WriteSet[slot[p].task]
  <2>1. id \in Nat /\ slot[p].task \in Tasks /\ scopes \subseteq Scopes
    BY <1>8, SlotScopes DEF acquireScopeLocks, TypeOK, SlotsHaveTasks, Preparing, Slot, Lease
  <2>2. PICK at \in ClockReads(p) :
          \/ releaseHeldLease(p) /\ UNCHANGED registry
          \/ /\ registry' = IF scopes = {} THEN registry
                            ELSE retainedLocks(id, scopes, at) \cup scopeLocksOf(id, scopes, at)
             /\ Hold(p, "worktree", [slot[p].lease EXCEPT !.locked = at + TTL])
    BY <1>8 DEF acquireScopeLocks
  <2>3. at \in Nat /\ at + TTL \in Nat
    BY ClockTyped, SlotTiming
  <2>4. registry' \subseteq [lease: Nat, scope: Scopes, expires: Nat]
    BY <2>1, <2>2, <2>3 DEF TypeOK, retainedLocks, scopeLocksOf
  <2>5. [slot[p].lease EXCEPT !.locked = at + TTL] \in Lease
    BY <2>3, LeaseTyped DEF TypeOK, Slot
  <2>6. slot' \in [Jobs -> Slot] /\ SlotsHaveTasks'
    BY <2>1, <2>2, <2>5, HoldTyped, ReturnTyped DEF Places, Preparing
  <2> QED
    BY <1>8, <2>4, <2>6 DEF acquireScopeLocks, TypeOK
<1>9. ASSUME NEW p \in Jobs, createWorktree(p) PROVE Typed'
  <2>1. slot[p].lease \in Lease /\ slot[p].task \in Tasks
    BY <1>9 DEF createWorktree, TypeOK, SlotsHaveTasks, Preparing, Slot
  <2>2. [slot[p].lease EXCEPT !.copy = TRUE] \in Lease
    BY <2>1, LeaseTyped, 0 \in Nat
  <2>3. slot' \in [Jobs -> Slot] /\ SlotsHaveTasks'
    BY <1>9, <2>1, <2>2, HoldTyped DEF createWorktree, Places, Preparing
  <2> QED
    BY <1>9, <2>3 DEF createWorktree, TypeOK
<1>10. ASSUME NEW p \in Jobs, attachWorktree(p) PROVE Typed'
  <2>1. slot[p].lease \in Lease /\ slot[p].task \in Tasks
    BY <1>10 DEF attachWorktree, TypeOK, SlotsHaveTasks, Preparing, Slot
  <2>2. slot' \in [Jobs -> Slot] /\ SlotsHaveTasks'
    BY <1>10, <2>1, GotoTyped DEF attachWorktree, Places, Preparing
  <2>3. leases' \in [Workers -> Lease]
    BY <1>10, <2>1, SetLeaseTyped DEF attachWorktree
  <2> QED
    BY <1>10, <2>2, <2>3 DEF attachWorktree, TypeOK
<1>11. ASSUME NEW p \in Jobs, ProvisionFails(p) PROVE Typed'
  <2>1. slot' \in [Jobs -> Slot] /\ SlotsHaveTasks'
    BY <1>11, LeaveTyped, ReturnTyped DEF ProvisionFails
  <2> QED
    BY <1>11, <2>1 DEF ProvisionFails, TypeOK
<1>12. ASSUME NEW p \in Jobs, releaseWaveProvisionLease(p) PROVE Typed'
  <2>1. leases[p[2]] \in Lease
    BY DEF TypeOK, Jobs
  <2>2. slot' \in [Jobs -> Slot] /\ SlotsHaveTasks'
    BY <1>12, <2>1, HoldTyped, LeaveTyped DEF releaseWaveProvisionLease, Places, Preparing
  <2> QED
    BY <1>12, <2>2 DEF releaseWaveProvisionLease, TypeOK
<1>13. ASSUME NEW p \in Jobs, verifyOwnership(p) PROVE Typed'
  <2>1. leases[p[2]] \in Lease /\ slot[p].task \in Tasks /\ p[1] \in Loops
    BY <1>13 DEF verifyOwnership, TypeOK, SlotsHaveTasks, Preparing, Jobs
  <2>2. started' \in [Loops -> SUBSET Tasks]
    BY <1>13, <2>1 DEF verifyOwnership, Dispatch, TypeOK
  <2>3. CASE Leave(p) /\ UNCHANGED leases
    BY <1>13, <2>2, <2>3, LeaveTyped DEF verifyOwnership, TypeOK
  <2>4. ASSUME NEW at \in ClockReads(p),
               SetLease(p[2], renewWorkerLease(leases[p[2]], at)),
               slot' = [slot EXCEPT ![p] = [at |-> "running", lease |-> leases[p[2]],
                                            task |-> @.task, since |-> now]]
        PROVE  Typed'
    <3>1. leases' \in [Workers -> Lease]
      BY <2>1, <2>4, ClockTyped, LeaseTyped, SetLeaseTyped
    <3>2. slot' \in [Jobs -> Slot]
      BY <2>1, <2>4 DEF TypeOK, Slot, Places
    <3>3. SlotsHaveTasks'
      BY <2>1, <2>4 DEF TypeOK, SlotsHaveTasks
    <3> QED
      BY <1>13, <2>2, <3>1, <3>2, <3>3 DEF verifyOwnership, TypeOK
  <2> QED
    BY <1>13, <2>3, <2>4 DEF verifyOwnership
<1>14. ASSUME NEW p \in Jobs, FinishChild(p) PROVE Typed'
  <2>1. ASSUME Goto(p, "giveback") PROVE slot' \in [Jobs -> Slot] /\ SlotsHaveTasks'
    BY <2>1, GotoTyped DEF Places, Preparing
  <2>2. ASSUME slot' = [slot EXCEPT ![p] = EmptySlot("off")]
        PROVE  slot' \in [Jobs -> Slot] /\ SlotsHaveTasks'
    <3>1. EmptySlot("off") \in Slot /\ EmptySlot("off").at = "off"
      BY EmptyTyped DEF EmptySlot, Places
    <3>2. "off" \notin Preparing \cup {"running"}
      BY DEF Preparing
    <3> QED
      BY <2>2, <3>1, <3>2 DEF TypeOK, SlotsHaveTasks
  <2>3. slot' \in [Jobs -> Slot] /\ SlotsHaveTasks'
    BY <1>14, <2>1, <2>2 DEF FinishChild
  <2> QED
    BY <1>14, <2>3 DEF FinishChild, TypeOK
<1>15. ASSUME NEW p \in Jobs, releaseWorkerLease(p) PROVE Typed'
  <2>1. leases[p[2]] \in Lease
    BY DEF TypeOK, Jobs
  <2>2. leases' \in [Workers -> Lease]
    BY <1>15, <2>1, LeaseTyped, SetLeaseTyped, 0 \in Nat DEF releaseWorkerLease, TypeOK
  <2>3. slot' \in [Jobs -> Slot] /\ SlotsHaveTasks'
    BY <1>15, GotoTyped, LeaveTyped DEF releaseWorkerLease, Places, Preparing
  <2> QED
    BY <1>15, <2>2, <2>3 DEF releaseWorkerLease, TypeOK
<1>16. ASSUME NEW p \in Jobs, releaseScopeLocksInStore(p) PROVE Typed'
  <2>1. slot' \in [Jobs -> Slot] /\ SlotsHaveTasks'
    BY <1>16, LeaveTyped DEF releaseScopeLocksInStore
  <2>2. registry' \subseteq registry
    BY <1>16 DEF releaseScopeLocksInStore, releaseScopeLocks
  <2> QED
    BY <1>16, <2>1, <2>2 DEF releaseScopeLocksInStore, TypeOK
<1>17. CASE UNCHANGED vars
  BY <1>17 DEF vars, TypeOK, SlotsHaveTasks
<1> QED
  BY <1>1, <1>2, <1>3, <1>4, <1>6, <1>7, <1>8, <1>9, <1>10, <1>11, <1>12, <1>13, <1>14, <1>15,
     <1>16, <1>17 DEF Next, Provision, Run

\* Every variable keeps its type, and write sets are only ever asked for tasks.
THEOREM TypeCorrect == Spec => []TypeOK
<1>1. Typed => TypeOK
  BY DEF Typed
<1> QED
  BY <1>1, TypedInit, TypedStep, PTL DEF Spec

--------------------------------------------------------------------------------
\* An acquisition keeps the registry free of clashing scopes: what it keeps was active, and
\* what it adds clashes with no active lock of another lease.
LEMMA AcquisitionKeepsDisjoint ==
  ASSUME TypeOK, ScopeLocksDisjoint, NEW id \in Nat, NEW scopes \in SUBSET Scopes, NEW at \in Nat,
         conflictingLocks(id, scopes, at) = {}
  PROVE  \A a, b \in retainedLocks(id, scopes, at) \cup scopeLocksOf(id, scopes, at) :
           a.lease # b.lease => ~scopesConflict(a.scope, b.scope)
<1> SUFFICES ASSUME NEW a \in retainedLocks(id, scopes, at) \cup scopeLocksOf(id, scopes, at),
                    NEW b \in retainedLocks(id, scopes, at) \cup scopeLocksOf(id, scopes, at),
                    a.lease # b.lease
             PROVE  ~scopesConflict(a.scope, b.scope)
  OBVIOUS
<1>1. ASSUME NEW new \in scopeLocksOf(id, scopes, at), NEW old \in retainedLocks(id, scopes, at),
             new.lease # old.lease
      PROVE  ~scopesConflict(new.scope, old.scope) /\ ~scopesConflict(old.scope, new.scope)
  <2>1. new.lease = id /\ new.scope \in scopes
    BY DEF scopeLocksOf
  <2>2. old \in registry /\ isScopeLockActive(old, at) /\ old.scope \in Scopes
    BY DEF retainedLocks, TypeOK
  <2>3. ~scopesConflict(new.scope, old.scope)
    BY <1>1, <2>1, <2>2 DEF conflictingLocks
  <2> QED
    BY <2>1, <2>2, <2>3, SlotScopes DEF scopesConflict
<1>2. CASE a \in retainedLocks(id, scopes, at) /\ b \in retainedLocks(id, scopes, at)
  BY <1>2 DEF retainedLocks, ScopeLocksDisjoint
<1>3. CASE a \in scopeLocksOf(id, scopes, at) /\ b \in scopeLocksOf(id, scopes, at)
  BY <1>3 DEF scopeLocksOf
<1> QED
  BY <1>1, <1>2, <1>3

LEMMA DisjointStep == Typed /\ ScopeLocksDisjoint /\ [Next]_vars => ScopeLocksDisjoint'
<1> SUFFICES ASSUME Typed, ScopeLocksDisjoint, [Next]_vars PROVE ScopeLocksDisjoint'
  OBVIOUS
<1>1. CASE UNCHANGED registry
  BY <1>1 DEF ScopeLocksDisjoint, scopesConflict
<1>2. ASSUME NEW p \in Jobs, acquireScopeLocks(p) PROVE ScopeLocksDisjoint'
  <2> DEFINE id == slot[p].lease.id
             scopes == WriteSet[slot[p].task]
  <2>1. id \in Nat /\ scopes \subseteq Scopes
    BY <1>2, SlotScopes
    DEF acquireScopeLocks, Typed, TypeOK, SlotsHaveTasks, Preparing, Slot, Lease
  <2>2. CASE UNCHANGED registry
    BY <1>1, <2>2
  <2>3. ASSUME NEW at \in ClockReads(p), conflictingLocks(id, scopes, at) = {},
               registry' = retainedLocks(id, scopes, at) \cup scopeLocksOf(id, scopes, at)
        PROVE  ScopeLocksDisjoint'
    <3>1. at \in Nat
      BY ClockTyped
    <3> QED
      BY <2>1, <2>3, <3>1, AcquisitionKeepsDisjoint DEF Typed, ScopeLocksDisjoint, scopesConflict
  <2> QED
    BY <1>2, <2>2, <2>3 DEF acquireScopeLocks
<1>3. ASSUME NEW p \in Jobs, releaseScopeLocksInStore(p) PROVE ScopeLocksDisjoint'
  <2>1. registry' \subseteq registry
    BY <1>3 DEF releaseScopeLocksInStore, releaseScopeLocks
  <2> QED
    BY <2>1 DEF ScopeLocksDisjoint, scopesConflict
<1>4. CASE Tick \/ (\E l \in Loops : Start(l) \/ Crash(l)) \/ UNCHANGED vars
  BY <1>1, <1>4 DEF Tick, Start, Crash, vars
<1>5. ASSUME NEW p \in Jobs, Reap(p) \/ Plan(p) PROVE ScopeLocksDisjoint'
  BY <1>1, <1>5 DEF Reap, Plan, PlanProvision, PlanGranted, Pick
<1>6. ASSUME NEW p \in Jobs, Provision(p) PROVE ScopeLocksDisjoint'
  BY <1>1, <1>2, <1>6 DEF Provision, acquireWorkerLease, createWorktree, attachWorktree,
     ProvisionFails, releaseWaveProvisionLease
<1>7. ASSUME NEW p \in Jobs, Run(p) PROVE ScopeLocksDisjoint'
  BY <1>1, <1>3, <1>7 DEF Run, verifyOwnership, FinishChild, releaseWorkerLease
<1> QED
  BY <1>4, <1>5, <1>6, <1>7 DEF Next

\* The registry never holds clashing scopes for two leases, whatever fails or crashes between
\* the steps of a provisioning or a release, and however late a lock's clock was read.
THEOREM ScopeIsolation == Spec => []ScopeLocksDisjoint
<1>1. Init => ScopeLocksDisjoint
  BY DEF Init, ScopeLocksDisjoint
<1> QED
  BY <1>1, DisjointStep, TypedInit, TypedStep, PTL DEF Spec

--------------------------------------------------------------------------------
(***************************************************************************)
(* Fencing when loops follow one another.  The lease that a provisioning   *)
(* writes back at the end, without a lock, must still be the lease in the  *)
(* store; no type or timing says so, only that nobody else was there.      *)
(***************************************************************************)
\* A loop that has something to do with a slot is alive, and no other loop is; what a dead
\* loop may leave behind is a child.
LoopsTakeTurns ==
  /\ \A p \in Jobs : slot[p].at \notin {"off", "running"} => life[p[1]] = "alive"
  /\ \A k, l \in Loops : life[k] = "alive" /\ life[l] = "alive" => k = l

\* A lease in the store is one that was issued; the one being provisioned is still there.
LeaseInHand ==
  /\ \A w \in Workers : leases[w].id <= issued
  /\ \A p \in Jobs : slot[p].at \in {"locks", "worktree", "attach"} =>
       /\ slot[p].lease.id = leases[p[2]].id
       /\ slot[p].lease.token = leases[p[2]].token
       /\ slot[p].lease.held /\ leases[p[2]].held

Fenced == Typed /\ LoopsTakeTurns /\ LeaseInHand

LEMMA TurnsStep == OneLoop /\ Typed /\ LoopsTakeTurns /\ [Next]_vars => LoopsTakeTurns'
<1> SUFFICES ASSUME OneLoop, Typed, LoopsTakeTurns, [Next]_vars PROVE LoopsTakeTurns'
  OBVIOUS
<1> USE DEF Typed, TypeOK, LoopsTakeTurns, Jobs
<1>1. ASSUME NEW l \in Loops, Start(l) PROVE LoopsTakeTurns'
  <2>1. \A k, m \in Loops : life'[k] = "alive" /\ life'[m] = "alive" => k = m
    BY <1>1 DEF Start
  <2>2. \A p \in Jobs : slot'[p].at \notin {"off", "running"} => life'[p[1]] = "alive"
    BY <1>1 DEF Start
  <2> QED
    BY <2>1, <2>2
<1>2. ASSUME NEW l \in Loops, Crash(l) PROVE LoopsTakeTurns'
  <2>1. \A p \in Jobs : p[1] = l => slot'[p].at \in {"off", "running"}
    BY <1>2 DEF Crash, EmptySlot
  <2>2. \A p \in Jobs : p[1] # l => slot'[p] = slot[p] /\ life'[p[1]] = life[p[1]]
    BY <1>2 DEF Crash
  <2>3. \A k \in Loops : life'[k] = "alive" => life[k] = "alive"
    BY <1>2 DEF Crash
  <2> QED
    BY <2>1, <2>2, <2>3
<1>3. ASSUME NEW p \in Jobs, UNCHANGED life, life[p[1]] = "alive" \/ slot'[p].at = "off",
             \A q \in Jobs : q # p => slot'[q] = slot[q]
      PROVE  LoopsTakeTurns'
  BY <1>3
<1>4. ASSUME NEW p \in Jobs, Reap(p) \/ Plan(p) PROVE LoopsTakeTurns'
  BY <1>3, <1>4 DEF Reap, Plan, PlanProvision, PlanGranted, Pick, Leave, Hold
<1>5. ASSUME NEW p \in Jobs, Provision(p) PROVE LoopsTakeTurns'
  BY <1>3, <1>5 DEF Provision, acquireWorkerLease, acquireScopeLocks, createWorktree,
     attachWorktree, ProvisionFails, releaseWaveProvisionLease, releaseHeldLease, Leave, Hold, Goto
<1>6. ASSUME NEW p \in Jobs, Run(p) PROVE LoopsTakeTurns'
  BY <1>3, <1>6 DEF EmptySlot, Run, verifyOwnership, FinishChild, releaseWorkerLease,
     releaseScopeLocksInStore, Leave, Hold, Goto
<1>7. CASE Tick \/ UNCHANGED vars
  BY <1>7 DEF Tick, vars
<1> QED
  BY <1>1, <1>2, <1>4, <1>5, <1>6, <1>7 DEF Next

\* A step in one slot leaves the leases of the other slots, and what is provisioned in them.
LEMMA OtherSlots ==
  ASSUME Fenced, NEW p \in Jobs, life[p[1]] = "alive", issued' >= issued,
         leases' \in [Workers -> Lease], slot' \in [Jobs -> Slot],
         \A q \in Jobs : q # p => slot'[q] = slot[q],
         \A w \in Workers : w # p[2] => leases'[w] = leases[w],
         leases'[p[2]].id <= issued', issued' \in Nat,
         slot'[p].at \in {"locks", "worktree", "attach"} =>
           /\ slot'[p].lease.id = leases'[p[2]].id
           /\ slot'[p].lease.token = leases'[p[2]].token
           /\ slot'[p].lease.held /\ leases'[p[2]].held
  PROVE  LeaseInHand'
<1>1. \A w \in Workers : leases'[w].id <= issued'
  BY DEF Fenced, Typed, TypeOK, LeaseInHand, Lease
<1>2. ASSUME NEW q \in Jobs, q # p, slot'[q].at \in {"locks", "worktree", "attach"}
      PROVE  leases'[q[2]] = leases[q[2]] /\ slot'[q] = slot[q]
  <2>1. q[1] = p[1]
    BY <1>2 DEF Fenced, LoopsTakeTurns, Jobs
  <2>2. q[2] # p[2]
    BY <1>2, <2>1 DEF Jobs
  <2> QED
    BY <1>2, <2>2 DEF Jobs
<1> QED
  BY <1>1, <1>2 DEF Fenced, LeaseInHand

\* What a step may do to the leases.
LeasesKeepOrder ==
  \A w \in Workers :
    /\ leases'[w].token >= leases[w].token
    /\ leases'[w].id # leases[w].id => leases'[w].token > leases[w].token
    /\ leases'[w].id = leases[w].id /\ leases'[w].held => leases[w].held

LEMMA UnchangedLeases ==
  ASSUME Typed, UNCHANGED leases
  PROVE  LeasesKeepOrder
BY DEF Typed, TypeOK, LeasesKeepOrder, Lease

\* One lease replaced by a version of itself with the same token, or by its successor.
LEMMA OneLease ==
  ASSUME Fenced, NEW p \in Jobs, NEW lease \in Lease, SetLease(p[2], lease),
         \/ /\ lease.id = leases[p[2]].id /\ lease.token = leases[p[2]].token
            /\ lease.held => leases[p[2]].held
         \/ /\ lease.id = issued + 1
            /\ lease.token = leases[p[2]].token + 1
  PROVE  /\ LeasesKeepOrder
         /\ leases'[p[2]] = lease
         /\ \A w \in Workers : w # p[2] => leases'[w] = leases[w]
<1>1. p[2] \in Workers /\ leases[p[2]] \in Lease /\ issued \in Nat
  BY DEF Jobs, Fenced, Typed, TypeOK
<1>2. leases'[p[2]] = lease /\ \A w \in Workers : w # p[2] => leases'[w] = leases[w]
  BY <1>1 DEF SetLease, Fenced, Typed, TypeOK
<1>3. leases[p[2]].id <= issued /\ leases[p[2]].id \in Nat /\ leases[p[2]].token \in Nat
  BY <1>1 DEF Fenced, LeaseInHand, Lease
<1>4. \A w \in Workers : leases[w].token \in Nat
  BY DEF Fenced, Typed, TypeOK, Lease
<1> QED
  BY <1>1, <1>2, <1>3, <1>4 DEF LeasesKeepOrder

LEMMA SlotStep ==
  ASSUME Fenced, Typed', NEW p \in Jobs, life[p[1]] = "alive",
         Reap(p) \/ Plan(p) \/ Provision(p) \/ Run(p)
  PROVE  LeaseInHand' /\ LeasesKeepOrder
<1> DEFINE lease == leases[p[2]]
           InHand == slot'[p].at \in {"locks", "worktree", "attach"} =>
                       /\ slot'[p].lease.id = leases'[p[2]].id
                       /\ slot'[p].lease.token = leases'[p[2]].token
                       /\ slot'[p].lease.held /\ leases'[p[2]].held
<1>1. /\ leases \in [Workers -> Lease] /\ leases' \in [Workers -> Lease]
      /\ slot \in [Jobs -> Slot] /\ slot' \in [Jobs -> Slot]
      /\ issued \in Nat /\ issued' \in Nat
  BY DEF Fenced, Typed, TypeOK
<1>2. p[2] \in Workers /\ lease \in Lease /\ lease.id <= issued
  BY <1>1 DEF Jobs, Fenced, LeaseInHand
<1>3. slot[p].at \in {"locks", "worktree", "attach"} =>
        /\ slot[p].lease.id = lease.id /\ slot[p].lease.token = lease.token
        /\ slot[p].lease.held /\ lease.held
  BY DEF Fenced, LeaseInHand
<1>a. Leave(p) => slot'[p].at = "idle" /\ \A q \in Jobs : q # p => slot'[q] = slot[q]
  BY <1>1 DEF Leave, EmptySlot
<1>b. ASSUME NEW place, Goto(p, place)
      PROVE  /\ slot'[p].at = place /\ slot'[p].lease = slot[p].lease
             /\ \A q \in Jobs : q # p => slot'[q] = slot[q]
  BY <1>1, <1>b DEF Goto, Slot
<1>c. ASSUME NEW place, NEW held, Hold(p, place, held)
      PROVE  /\ slot'[p].at = place /\ slot'[p].lease = held
             /\ \A q \in Jobs : q # p => slot'[q] = slot[q]
  BY <1>1, <1>c DEF Hold
<1> HIDE DEF lease
<1>4. ASSUME UNCHANGED <<leases, issued>>,
             \A q \in Jobs : q # p => slot'[q] = slot[q], InHand
      PROVE  LeaseInHand' /\ LeasesKeepOrder
  <2>1. LeaseInHand'
    BY <1>1, <1>2, <1>4, OtherSlots DEF lease
  <2> QED
    BY <1>4, <2>1, UnchangedLeases DEF Fenced
<1>5. ASSUME NEW new \in Lease, SetLease(p[2], new),
             \A q \in Jobs : q # p => slot'[q] = slot[q], InHand,
             \/ /\ new.id = lease.id /\ new.token = lease.token /\ issued' = issued
                /\ new.held => lease.held
             \/ new.id = issued + 1 /\ new.token = lease.token + 1 /\ issued' = issued + 1
      PROVE  LeaseInHand' /\ LeasesKeepOrder
  <2>1. /\ LeasesKeepOrder /\ leases'[p[2]] = new
        /\ \A w \in Workers : w # p[2] => leases'[w] = leases[w]
    BY <1>5, OneLease DEF lease
  <2>2. new.id <= issued' /\ issued' >= issued
    BY <1>1, <1>2, <1>5 DEF Lease
  <2>3. LeaseInHand'
    BY <1>1, <1>5, <2>1, <2>2, OtherSlots
  <2> QED
    BY <2>1, <2>3
<1>6. ASSUME NEW at \in ClockReads(p)
      PROVE  /\ renewWorkerLease(lease, at) \in Lease
             /\ renewWorkerLease(lease, at).id = lease.id
             /\ renewWorkerLease(lease, at).token = lease.token
             /\ renewWorkerLease(lease, at).held = lease.held
  <2>1. at \in Nat
    BY ClockTyped DEF Fenced
  <2> QED
    BY <1>2, <2>1, LeaseTyped DEF renewWorkerLease, Lease
<1>7. /\ releasedWorkerLease(lease) \in Lease
      /\ releasedWorkerLease(lease).id = lease.id
      /\ releasedWorkerLease(lease).token = lease.token
      /\ ~releasedWorkerLease(lease).held
  BY <1>2, LeaseTyped, 0 \in Nat DEF releasedWorkerLease, Lease
<1>8. CASE Reap(p)
  <2>1. CASE SetLease(p[2], releasedWorkerLease(lease)) /\ Hold(p, "unlock", lease)
    BY <1>1, <1>5, <1>7, <1>8, <2>1 DEF Reap, Hold
  <2>2. CASE Leave(p) /\ UNCHANGED leases
    BY <1>1, <1>4, <1>8, <2>2 DEF Reap, Leave, EmptySlot
  <2> QED
    BY <1>8, <2>1, <2>2 DEF Reap, lease
<1>9. CASE Plan(p)
  BY <1>1, <1>4, <1>9 DEF Plan, PlanProvision, PlanGranted, Pick
<1>10. CASE acquireWorkerLease(p)
  <2>1. PICK at \in ClockReads(p) :
          \/ Leave(p) /\ UNCHANGED <<leases, issued>>
          \/ /\ isLeaseActive(lease, at)
             /\ SetLease(p[2], renewWorkerLease(lease, at))
             /\ Hold(p, "locks", renewWorkerLease(lease, at)) \/ Leave(p)
             /\ UNCHANGED issued
          \/ /\ issued' = issued + 1
             /\ SetLease(p[2], newLease(p, at))
             /\ Hold(p, "locks", newLease(p, at))
    BY <1>10 DEF acquireWorkerLease, lease
  <2>2. newLease(p, at) \in Lease
    BY <2>1, ClockTyped, NewLeaseTyped DEF Fenced
  <2>3. /\ newLease(p, at).id = issued + 1 /\ newLease(p, at).held
        /\ newLease(p, at).token = lease.token + 1
    BY DEF newLease, nextFencingToken, lease
  <2>4. slot[p].at = "acquire"
    BY <1>10 DEF acquireWorkerLease
  <2>5. CASE Leave(p) /\ UNCHANGED <<leases, issued>>
    BY <1>1, <1>4, <2>4, <2>5 DEF Leave, EmptySlot
  <2>6. CASE /\ isLeaseActive(lease, at)
             /\ SetLease(p[2], renewWorkerLease(lease, at))
             /\ Hold(p, "locks", renewWorkerLease(lease, at)) \/ Leave(p)
             /\ UNCHANGED issued
    <3>1. leases'[p[2]] = renewWorkerLease(lease, at) /\ lease.held
      BY <1>1, <1>2, <2>6 DEF SetLease, isLeaseActive
    <3>2. CASE Hold(p, "locks", renewWorkerLease(lease, at))
      <4>1. InHand /\ \A q \in Jobs : q # p => slot'[q] = slot[q]
        BY <1>3, <1>6, <1>c, <3>1, <3>2
      <4> QED
        BY <1>5, <1>6, <2>4, <2>6, <4>1
    <3>3. CASE Leave(p)
      <4>1. InHand /\ \A q \in Jobs : q # p => slot'[q] = slot[q]
        BY <1>a, <3>3
      <4> QED
        BY <1>5, <1>6, <2>4, <2>6, <4>1
    <3> QED
      BY <2>6, <3>2, <3>3
  <2>7. CASE /\ issued' = issued + 1
             /\ SetLease(p[2], newLease(p, at))
             /\ Hold(p, "locks", newLease(p, at))
    <3>1. leases'[p[2]] = newLease(p, at)
      BY <1>1, <1>2, <2>7 DEF SetLease
    <3>2. InHand /\ \A q \in Jobs : q # p => slot'[q] = slot[q]
      BY <1>1, <2>3, <2>7, <3>1 DEF Hold
    <3> QED
      BY <1>5, <2>2, <2>3, <2>4, <2>7, <3>2
  <2> QED
    BY <2>1, <2>5, <2>6, <2>7
<1>11. CASE acquireScopeLocks(p)
  <2>1. /\ slot[p].at = "locks" /\ UNCHANGED <<leases, issued>>
        /\ \/ Leave(p) \/ Goto(p, "giveback")
           \/ \E at \in Int : Hold(p, "worktree", [slot[p].lease EXCEPT !.locked = at])
    BY <1>11, SlotTiming, ClockTyped DEF acquireScopeLocks, releaseHeldLease, Fenced
  <2>2. InHand /\ \A q \in Jobs : q # p => slot'[q] = slot[q]
    <3>1. ASSUME Leave(p) \/ Goto(p, "giveback")
          PROVE  InHand /\ \A q \in Jobs : q # p => slot'[q] = slot[q]
      BY <1>a, <1>b, <3>1
    <3>2. ASSUME NEW at \in Int, Hold(p, "worktree", [slot[p].lease EXCEPT !.locked = at])
          PROVE  InHand /\ \A q \in Jobs : q # p => slot'[q] = slot[q]
      <4>0. /\ slot'[p].lease.id = slot[p].lease.id /\ slot'[p].lease.token = slot[p].lease.token
            /\ slot'[p].lease.held = slot[p].lease.held
        BY <1>1, <3>2 DEF Hold, Slot, Lease
      <4>1. slot'[p].lease.id = lease.id /\ slot'[p].lease.token = lease.token
        BY <1>3, <2>1, <4>0
      <4>2. slot'[p].lease.held /\ lease.held
        BY <1>3, <2>1, <4>0
      <4>3. leases'[p[2]] = lease
        BY <2>1 DEF lease
      <4> QED
        BY <1>c, <3>2, <4>1, <4>2, <4>3
    <3> QED
      BY <2>1, <3>1, <3>2
  <2> QED
    BY <1>4, <2>1, <2>2
<1>12. CASE createWorktree(p)
  <2>1. [slot[p].lease EXCEPT !.copy = TRUE].id = slot[p].lease.id
        /\ [slot[p].lease EXCEPT !.copy = TRUE].token = slot[p].lease.token
        /\ [slot[p].lease EXCEPT !.copy = TRUE].held = slot[p].lease.held
    BY <1>1 DEF Slot, Lease
  <2> QED
    BY <1>1, <1>3, <1>4, <1>12, <2>1 DEF createWorktree, Hold, lease
<1>13. CASE attachWorktree(p)
  <2>1. slot[p].lease \in Lease
    BY <1>1 DEF Slot
  <2> QED
    BY <1>1, <1>3, <1>5, <1>13, <2>1 DEF attachWorktree, Goto
<1>14. CASE ProvisionFails(p)
  <2>1. /\ UNCHANGED <<leases, issued>>
        /\ Leave(p) \/ Goto(p, "giveback")
    BY <1>14 DEF ProvisionFails, releaseHeldLease
  <2>2. InHand /\ \A q \in Jobs : q # p => slot'[q] = slot[q]
    BY <1>a, <1>b, <2>1
  <2> QED
    BY <1>4, <2>1, <2>2
<1>15. CASE releaseWaveProvisionLease(p)
  BY <1>1, <1>4, <1>15 DEF releaseWaveProvisionLease, Leave, EmptySlot, Hold
<1>16. CASE verifyOwnership(p)
  <2>1. CASE Leave(p) /\ UNCHANGED leases
    BY <1>1, <1>4, <1>16, <2>1 DEF verifyOwnership, Leave, EmptySlot
  <2>2. ASSUME NEW at \in ClockReads(p), SetLease(p[2], renewWorkerLease(lease, at)),
               slot' = [slot EXCEPT ![p] = [at |-> "running", lease |-> lease,
                                            task |-> @.task, since |-> now]]
        PROVE  LeaseInHand' /\ LeasesKeepOrder
    BY <1>1, <1>5, <1>6, <1>16, <2>2 DEF verifyOwnership
  <2> QED
    BY <1>16, <2>1, <2>2 DEF verifyOwnership, lease
<1>17. CASE FinishChild(p)
  <2>1. Goto(p, "giveback") /\ UNCHANGED <<leases, issued>>
    BY <1>17 DEF FinishChild
  <2>2. InHand /\ \A q \in Jobs : q # p => slot'[q] = slot[q]
    BY <1>b, <2>1
  <2> QED
    BY <1>4, <2>1, <2>2
<1>18. CASE releaseWorkerLease(p)
  <2>1. CASE SetLease(p[2], releasedWorkerLease(lease)) /\ Goto(p, "unlock")
    BY <1>1, <1>5, <1>7, <1>18, <2>1 DEF releaseWorkerLease, Goto
  <2>2. CASE Leave(p) /\ UNCHANGED leases
    BY <1>1, <1>4, <1>18, <2>2 DEF releaseWorkerLease, Leave, EmptySlot
  <2> QED
    BY <1>18, <2>1, <2>2 DEF releaseWorkerLease, lease
<1>19. CASE releaseScopeLocksInStore(p)
  BY <1>1, <1>4, <1>19 DEF releaseScopeLocksInStore, Leave, EmptySlot
<1> QED
  BY <1>8, <1>9, <1>10, <1>11, <1>12, <1>13, <1>14, <1>15, <1>16, <1>17, <1>18, <1>19
  DEF Provision, Run

\* All that happens in the slots of a dead loop is that its children end.
LEMMA DeadLoopActs ==
  ASSUME Fenced, NEW p \in Jobs, life[p[1]] # "alive",
         Reap(p) \/ Plan(p) \/ Provision(p) \/ Run(p)
  PROVE  FinishChild(p)
<1>1. slot[p].at \in {"off", "running"}
  BY DEF Fenced, LoopsTakeTurns
<1> QED
  BY <1>1 DEF Reap, Plan, PlanProvision, PlanGranted, Pick, Provision, acquireWorkerLease,
     acquireScopeLocks, createWorktree, attachWorktree, ProvisionFails, releaseWaveProvisionLease,
     Run, verifyOwnership, releaseWorkerLease, releaseScopeLocksInStore

LEMMA FencedStep == OneLoop /\ Fenced /\ [Next]_vars => Fenced' /\ LeasesKeepOrder
<1> SUFFICES ASSUME OneLoop, Fenced, [Next]_vars PROVE Fenced' /\ LeasesKeepOrder
  OBVIOUS
<1>1. Typed' /\ LoopsTakeTurns'
  BY TypedStep, TurnsStep DEF Fenced
<1>2. CASE UNCHANGED <<leases, issued>> /\
           (\A p \in Jobs : slot'[p].at \in {"locks", "worktree", "attach"} => slot'[p] = slot[p])
  <2>1. LeaseInHand'
    BY <1>2 DEF Fenced, LeaseInHand
  <2> QED
    BY <1>1, <1>2, <2>1, UnchangedLeases DEF Fenced
<1>3. ASSUME NEW l \in Loops, Start(l) \/ Crash(l) PROVE Fenced' /\ LeasesKeepOrder
  BY <1>2, <1>3 DEF Start, Crash, EmptySlot
<1>4. CASE Tick \/ UNCHANGED vars
  BY <1>2, <1>4 DEF Tick, vars
<1>5. ASSUME NEW p \in Jobs, Reap(p) \/ Plan(p) \/ Provision(p) \/ Run(p)
      PROVE  Fenced' /\ LeasesKeepOrder
  <2>1. CASE life[p[1]] = "alive"
    BY <1>1, <1>5, <2>1, SlotStep DEF Fenced
  <2>2. CASE life[p[1]] # "alive"
    <3>1. FinishChild(p)
      BY <1>5, <2>2, DeadLoopActs
    <3>2. UNCHANGED <<leases, issued>> /\ slot' = [slot EXCEPT ![p] = EmptySlot("off")]
      BY <2>2, <3>1 DEF FinishChild
    <3> QED
      BY <1>2, <3>2 DEF Fenced, Typed, TypeOK, EmptySlot
  <2> QED
    BY <2>1, <2>2
<1> QED
  BY <1>3, <1>4, <1>5 DEF Next

LEMMA FencedInit == Init => Fenced
<1> SUFFICES ASSUME Init PROVE Fenced
  OBVIOUS
<1>1. \A p \in Jobs : slot[p].at = "off"
  BY DEF Init, EmptySlot
<1>2. LoopsTakeTurns
  BY <1>1 DEF Init, LoopsTakeTurns
<1>3. LeaseInHand
  BY <1>1 DEF Init, LeaseInHand, NoLease
<1> QED
  BY <1>2, <1>3, TypedInit DEF Fenced

\* When a loop starts only after the one before it has gone, a slot's fencing token never
\* goes down and grows with every new lease - with any crashes and store failures, however
\* long a provisioning takes before it writes its lease back.
THEOREM FencingTheorem == OneLoop /\ Spec => FencingGrows
<1> DEFINE Order == \A w \in Workers :
             /\ leases'[w].token >= leases[w].token
             /\ leases'[w].id # leases[w].id => leases'[w].token > leases[w].token
<1>1. LeasesKeepOrder => Order
  BY DEF LeasesKeepOrder
<1>2. CASE OneLoop
  <2>1. Fenced /\ [Next]_vars => Fenced' /\ [Order]_vars
    BY <1>1, <1>2, FencedStep
  <2>2. Spec => [][Order]_vars
    BY <2>1, FencedInit, PTL DEF Spec
  <2> QED
    BY <2>2 DEF FencingGrows
<1> QED
  BY <1>2

\* Under the same condition a lease that was given back or reaped stays so.
THEOREM ReleaseTheorem == OneLoop /\ Spec => ReleasedStaysReleased
<1> DEFINE Order == \A w \in Workers :
             leases'[w].id = leases[w].id /\ leases'[w].held => leases[w].held
<1>1. LeasesKeepOrder => Order
  BY DEF LeasesKeepOrder
<1>2. CASE OneLoop
  <2>1. Fenced /\ [Next]_vars => Fenced' /\ [Order]_vars
    BY <1>1, <1>2, FencedStep
  <2>2. Spec => [][Order]_vars
    BY <2>1, FencedInit, PTL DEF Spec
  <2> QED
    BY <2>2 DEF ReleasedStaysReleased
<1> QED
  BY <1>2
============================================================================
