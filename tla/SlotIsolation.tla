---------------------------- MODULE SlotIsolation ----------------------------
(***************************************************************************)
(* How loop processes share worker slots: one worker lease per slot, the   *)
(* scope locks that lease holds on the paths of its task, and the child    *)
(* process that runs in the slot's copy of the repository.  The child is a *)
(* process of its own: it outlives a loop that dies, and the next loop     *)
(* knows nothing of it.                                                    *)
(*                                                                         *)
(* Both stores are read and rewritten under their own OwnedLock (see that  *)
(* module for what that protocol gives), so each store operation is one    *)
(* step.  What is not one step is everything around them: the lease is     *)
(* taken, then the scope locks, then the copy is made, then the lease is   *)
(* written again with no lock at all, and a lease is released before its   *)
(* scope locks are.                                                        *)
(***************************************************************************)
EXTENDS Integers

CONSTANTS
  Loops,          \* loop processes; a restarted loop is a new member (a new pid)
  Workers,        \* slots: one lease file each
  Tasks,
  Scopes,         \* what a scope lock can be taken on
  WriteSet,       \* the scopes a task asks for
  Clash,          \* the pairs of scopes for which scopesConflict is true
  NoLoop, NoTask, \* the owner and the task of a lease file that does not exist
  TTL,            \* WAVE_SLOT_LEASE_TTL_MS, of leases and of scope locks
  MaxWait,        \* longest wait between reading the clock and committing to a store
  MaxPrepare,     \* longest time from planning a slot to starting its child
  MaxRun,         \* longest run of a child; it may outlast the lease and its locks
  OneLoop,        \* whether a loop starts only when no other is alive
  StoreFailures,  \* whether a store operation may throw (lock wait timeout, I/O)
  MaxLeases, MaxNow

ASSUME SlotTiming ==
  /\ {TTL, MaxPrepare, MaxRun} \subseteq Nat \ {0}
  /\ {MaxWait, MaxLeases, MaxNow} \subseteq Nat
  /\ MaxWait + MaxPrepare < TTL
  /\ {OneLoop, StoreFailures} \subseteq BOOLEAN

ASSUME SlotScopes ==
  /\ WriteSet \in [Tasks -> SUBSET Scopes]
  /\ Clash \subseteq Scopes \X Scopes
  /\ \A s, t \in Scopes : <<s, t>> \in Clash => <<t, s>> \in Clash
  /\ NoLoop \notin Loops /\ NoTask \notin Tasks

VARIABLES
  now,      \* the clock
  life,     \* per loop: not started, alive or gone
  leases,   \* per worker: its lease file
  issued,   \* lease identifiers handed out (randomUUID)
  registry, \* the scope locks in scope-locks.json
  slot,     \* per <<loop, worker>>: where the loop stands with that slot, the lease it works
            \* with as it last saw it, the task, and when the slot was planned or its child began
  started   \* per loop: the tasks it has dispatched in this run

vars == <<now, life, leases, issued, registry, slot, started>>

Jobs == Loops \X Workers

\* `locked` is not in the file: until when the scope locks taken with the lease last.
Lease == [id: Nat, loop: Loops \cup {NoLoop}, task: Tasks \cup {NoTask}, token: Nat,
          held: BOOLEAN, copy: BOOLEAN, expires: Nat, locked: Nat]

\* A missing lease file: never active, and the next fencing token after it is 1.
NoLease == [id |-> 0, loop |-> NoLoop, task |-> NoTask, token |-> 0,
            held |-> FALSE, copy |-> FALSE, expires |-> 0, locked |-> 0]

Preparing == {"acquire", "locks", "worktree", "attach", "provisioned", "granted"}
Places == Preparing \cup {"off", "reap", "idle", "running", "giveback", "unlock"}

Slot == [at: Places, lease: Lease, task: Tasks \cup {NoTask}, since: Nat]

EmptySlot(place) == [at |-> place, lease |-> NoLease, task |-> NoTask, since |-> 0]

Init ==
  /\ now = 0 /\ issued = 0 /\ registry = {}
  /\ life = [l \in Loops |-> "new"]
  /\ leases = [w \in Workers |-> NoLease]
  /\ slot = [p \in Jobs |-> EmptySlot("off")]
  /\ started = [l \in Loops |-> {}]

--------------------------------------------------------------------------------
(***************************************************************************)
(* The rules of worker-lease-rules.ts and scope-lock-rules.ts.             *)
(***************************************************************************)
isLeaseExpired(lease, at) == at >= lease.expires

isLeaseActive(lease, at) == lease.held /\ ~isLeaseExpired(lease, at)

\* Mutant: whoever holds a lease counts as dead.
AnyOwnerIsDead(lease) == lease.loop \in Loops

isLeaseOwnerProcessDead(lease) == lease.loop \in Loops /\ life[lease.loop] = "gone"

\* The claim is the identity of a lease; whoever presents one may change that lease only.
authorizeRuntimeMutation(lease, claim, at) ==
  /\ lease.id = claim.id /\ lease.loop = claim.loop /\ lease.token = claim.token
  /\ isLeaseActive(lease, at)

\* Mutants: a token that counts down; a released lease starts the count again.
TokenCountsDown(previous) == previous.token - 1

TokenRestarts(previous) == IF previous.held THEN previous.token + 1 ELSE 1

nextFencingToken(previous) == previous.token + 1

renewWorkerLease(lease, at) == [lease EXCEPT !.expires = at + TTL]

releasedWorkerLease(lease) == [lease EXCEPT !.held = FALSE]

isScopeLockActive(lock, at) == at < lock.expires

scopesConflict(s, t) == <<s, t>> \in Clash

\* Mutant: a scope lock that outlives nothing but its own instant.
ShortScopeLocks(id, scopes, at) == {[lease |-> id, scope |-> s, expires |-> at + 1] : s \in scopes}

\* The requests of a task are the scopes it writes; their locks belong to its lease.
scopeLocksOf(id, scopes, at) == {[lease |-> id, scope |-> s, expires |-> at + TTL] : s \in scopes}

conflictingLocks(id, scopes, at) ==
  {lock \in registry : /\ isScopeLockActive(lock, at)
                       /\ lock.lease # id
                       /\ \E s \in scopes : scopesConflict(s, lock.scope)}

\* Mutant: expired locks stay in the registry.
KeepsExpired(id, scopes, at) == {lock \in registry : ~(lock.lease = id /\ lock.scope \in scopes)}

\* What an acquisition keeps: active locks, minus the ones it renews.
retainedLocks(id, scopes, at) ==
  {lock \in registry : /\ isScopeLockActive(lock, at)
                       /\ ~(lock.lease = id /\ lock.scope \in scopes)}

releaseScopeLocks(id) == {lock \in registry : lock.lease # id}

--------------------------------------------------------------------------------
(***************************************************************************)
(* The loops.                                                              *)
(***************************************************************************)
Goto(p, place) == slot' = [slot EXCEPT ![p].at = place]

Hold(p, place, lease) ==
  slot' = [slot EXCEPT ![p] = [at |-> place, lease |-> lease, task |-> @.task, since |-> @.since]]

\* The loop is done with the slot and remembers nothing of it.
Leave(p) == slot' = [slot EXCEPT ![p] = EmptySlot("idle")]

\* The clock is read before the wait for the store lock, never before the slot was planned.
ClockReads(p) == {at \in slot[p].since .. now : now <= at + MaxWait}

SetLease(w, lease) == leases' = [leases EXCEPT ![w] = lease]

\* A loop starts; before it plans anything it reaps what dead loops left behind.
Start(l) ==
  /\ life[l] = "new"
  /\ OneLoop => \A k \in Loops : life[k] # "alive"
  /\ life' = [life EXCEPT ![l] = "alive"]
  /\ slot' = [p \in Jobs |-> IF p[1] = l THEN [at |-> "reap", lease |-> NoLease, task |-> NoTask,
                                          since |-> now]
                             ELSE slot[p]]
  /\ UNCHANGED <<now, leases, issued, registry, started>>

\* The reaper takes a dead loop's lease away with that lease's own claim.  An expired
\* lease is a candidate too, but its claim no longer authorizes anything: it is left.
Reap(p) ==
  /\ slot[p].at = "reap"
  /\ LET lease == leases[p[2]] IN
     \/ \E at \in ClockReads(p) :
          /\ isLeaseOwnerProcessDead(lease)
          /\ authorizeRuntimeMutation(lease, lease, at)
          /\ SetLease(p[2], releasedWorkerLease(lease))
          /\ Hold(p, "unlock", lease)
     \/ /\ \/ StoreFailures
           \/ ~lease.held
           \/ ~isLeaseOwnerProcessDead(lease)
           \/ \E at \in ClockReads(p) : isLeaseExpired(lease, at)
        /\ Leave(p)
        /\ UNCHANGED leases
  /\ UNCHANGED <<now, life, issued, registry, started>>

\* The planner picks a task that is not under way and not yet dispatched in this run.
Pick(p, t, place, lease) ==
  /\ slot[p].at = "idle" /\ life[p[1]] = "alive"
  /\ \A q \in Jobs : q[1] = p[1] => slot[q].at # "reap" /\ slot[q].task # t
  /\ t \notin started[p[1]]
  /\ slot' = [slot EXCEPT ![p] = [at |-> place, lease |-> lease, task |-> t, since |-> now]]
  /\ UNCHANGED <<now, life, leases, issued, registry, started>>

liveLeaseOf(t, w) == leases[w].task = t /\ isLeaseActive(leases[w], now)

\* A task with no live lease is a missing-lease rejection: its slot is provisioned.
PlanProvision(p, t) ==
  /\ \A w \in Workers : ~liveLeaseOf(t, w)
  /\ Pick(p, t, "acquire", NoLease)

\* A task that has a live lease with a copy is granted a slot at once, whoever took that
\* lease: the lease is looked up by task, and the slot carries its identifier.
PlanGranted(p, t, w) ==
  /\ liveLeaseOf(t, w) /\ leases[w].copy
  /\ Pick(p, t, "granted", leases[w])

newLease(p, at) ==
  [id |-> issued + 1, loop |-> p[1], task |-> slot[p].task, token |-> nextFencingToken(leases[p[2]]),
   held |-> TRUE, copy |-> FALSE, expires |-> at + TTL, locked |-> 0]

\* A live lease of another loop is a conflict; its own is renewed, and used only when it is
\* for the same task; a released or expired one is succeeded by a new lease.
acquireWorkerLease(p) ==
  /\ slot[p].at = "acquire"
  /\ \E at \in ClockReads(p) :
       LET previous == leases[p[2]] IN
       \/ /\ isLeaseActive(previous, at) /\ previous.loop # p[1]
          /\ Leave(p)
          /\ UNCHANGED <<leases, issued>>
       \/ /\ isLeaseActive(previous, at) /\ previous.loop = p[1]
          /\ SetLease(p[2], renewWorkerLease(previous, at))
          /\ IF previous.task = slot[p].task
             THEN Hold(p, "locks", renewWorkerLease(previous, at))
             ELSE Leave(p)
          /\ UNCHANGED issued
       \/ /\ ~isLeaseActive(previous, at)
          /\ issued < MaxLeases
          /\ issued' = issued + 1
          /\ SetLease(p[2], newLease(p, at))
          /\ Hold(p, "locks", newLease(p, at))
  /\ UNCHANGED <<now, life, registry, started>>

\* A failed provisioning gives its lease back, unless a copy already stands behind it.
releaseHeldLease(p) == IF slot[p].lease.copy THEN Leave(p) ELSE Goto(p, "giveback")

\* All the scopes of the task, or none of them and the lease goes back.
acquireScopeLocks(p) ==
  /\ slot[p].at = "locks"
  /\ \E at \in ClockReads(p) :
       LET id == slot[p].lease.id
           scopes == WriteSet[slot[p].task]
       IN \/ /\ conflictingLocks(id, scopes, at) # {}
             /\ releaseHeldLease(p)
             /\ UNCHANGED registry
          \/ /\ conflictingLocks(id, scopes, at) = {}
             /\ registry' = IF scopes = {} THEN registry
                            ELSE retainedLocks(id, scopes, at) \cup scopeLocksOf(id, scopes, at)
             /\ Hold(p, "worktree", [slot[p].lease EXCEPT !.locked = at + TTL])
  /\ UNCHANGED <<now, life, leases, issued, started>>

\* The copy of the repository is made; from here the lease must not be given back.
createWorktree(p) ==
  /\ slot[p].at = "worktree"
  /\ Hold(p, "attach", [slot[p].lease EXCEPT !.copy = TRUE])
  /\ UNCHANGED <<now, life, leases, issued, registry, started>>

\* The lease taken some steps ago is written back with the copy: no lock, no check.
attachWorktree(p) ==
  /\ slot[p].at = "attach"
  /\ SetLease(p[2], slot[p].lease)
  /\ Goto(p, "provisioned")
  /\ UNCHANGED <<now, life, issued, registry, started>>

\* A provisioning step fails; before there is a lease, nothing is owed.
ProvisionFails(p) ==
  /\ \/ slot[p].at = "acquire" /\ StoreFailures /\ Leave(p)
     \/ slot[p].at \in {"locks", "attach"} /\ StoreFailures /\ releaseHeldLease(p)
     \/ slot[p].at = "worktree" /\ releaseHeldLease(p)
  /\ UNCHANGED <<now, life, leases, issued, registry, started>>

\* The wave did not issue the provisioned slot: its task's held lease is released.
releaseWaveProvisionLease(p) ==
  /\ slot[p].at = "provisioned"
  /\ LET lease == leases[p[2]] IN
     IF lease.held /\ lease.task = slot[p].task
     THEN Hold(p, "giveback", lease)
     ELSE Leave(p)
  /\ UNCHANGED <<now, life, leases, issued, registry, started>>

Dispatch(p) == started' = [started EXCEPT ![p[1]] = @ \cup {slot[p].task}]

\* The slot's lease must still be there, held and for this task; one heartbeat, and the
\* child starts.  The claim is made from the lease that was read.
verifyOwnership(p) ==
  /\ slot[p].at \in {"provisioned", "granted"}
  /\ Dispatch(p)
  /\ LET lease == leases[p[2]] IN
     \/ \E at \in ClockReads(p) :
          /\ lease.id = slot[p].lease.id /\ lease.task = slot[p].task
          /\ authorizeRuntimeMutation(lease, lease, at)
          /\ SetLease(p[2], renewWorkerLease(lease, at))
          /\ slot' = [slot EXCEPT ![p] = [at |-> "running", lease |-> lease,
                                          task |-> @.task, since |-> now]]
     \/ /\ \/ StoreFailures
           \/ lease.id # slot[p].lease.id \/ lease.task # slot[p].task \/ ~lease.held
           \/ \E at \in ClockReads(p) : isLeaseExpired(lease, at)
        /\ Leave(p)
        /\ UNCHANGED leases
  /\ UNCHANGED <<now, life, issued, registry>>

\* The child ends, or never starts because its task file or its copy could not be prepared.
\* The end of one whose loop is gone is nobody's business.
FinishChild(p) ==
  /\ slot[p].at = "running"
  /\ IF life[p[1]] = "alive" THEN Goto(p, "giveback")
     ELSE slot' = [slot EXCEPT ![p] = EmptySlot("off")]
  /\ UNCHANGED <<now, life, leases, issued, registry, started>>

releaseWorkerLease(p) ==
  /\ slot[p].at = "giveback"
  /\ LET lease == leases[p[2]] IN
     \/ \E at \in ClockReads(p) :
          /\ authorizeRuntimeMutation(lease, slot[p].lease, at)
          /\ SetLease(p[2], releasedWorkerLease(lease))
          /\ Goto(p, "unlock")
     \/ /\ \/ StoreFailures
           \/ \E at \in ClockReads(p) : ~authorizeRuntimeMutation(lease, slot[p].lease, at)
        /\ Leave(p)
        /\ UNCHANGED leases
  /\ UNCHANGED <<now, life, issued, registry, started>>

\* The released lease's scope locks go afterwards, outside the lease lock, best effort.
releaseScopeLocksInStore(p) ==
  /\ slot[p].at = "unlock"
  /\ \/ registry' = releaseScopeLocks(slot[p].lease.id)
     \/ StoreFailures /\ UNCHANGED registry
  /\ Leave(p)
  /\ UNCHANGED <<now, life, leases, issued, started>>

\* A loop dies anywhere; its stores' contents stay, and its children go on.
Crash(l) ==
  /\ life[l] = "alive"
  /\ life' = [life EXCEPT ![l] = "gone"]
  /\ slot' = [p \in Jobs |-> IF p[1] = l /\ slot[p].at # "running" THEN EmptySlot("off")
                             ELSE slot[p]]
  /\ UNCHANGED <<now, leases, issued, registry, started>>

\* Time passes, but no faster than slots are prepared and children end, and not within a
\* release: between its two store operations a tick, the better part of an hour, is long.
Tick ==
  /\ now < MaxNow
  /\ \A p \in Jobs : slot[p].at \notin {"reap", "giveback", "unlock"}
  /\ \A p \in Jobs : /\ slot[p].at \in Preparing => now < slot[p].since + MaxPrepare
                     /\ slot[p].at = "running" => now < slot[p].since + MaxRun
  /\ now' = now + 1
  /\ UNCHANGED <<life, leases, issued, registry, slot, started>>

Provision(p) ==
  \/ acquireWorkerLease(p) \/ acquireScopeLocks(p) \/ createWorktree(p)
  \/ attachWorktree(p) \/ ProvisionFails(p) \/ releaseWaveProvisionLease(p)

Run(p) ==
  \/ verifyOwnership(p) \/ FinishChild(p)
  \/ releaseWorkerLease(p) \/ releaseScopeLocksInStore(p)

Plan(p) ==
  \E t \in Tasks : PlanProvision(p, t) \/ \E w \in Workers : PlanGranted(p, t, w)

Next ==
  \/ Tick
  \/ \E l \in Loops : Start(l) \/ Crash(l)
  \/ \E p \in Jobs : Reap(p) \/ Plan(p) \/ Provision(p) \/ Run(p)

Spec == Init /\ [][Next]_vars

--------------------------------------------------------------------------------
(***************************************************************************)
(* Properties.                                                             *)
(***************************************************************************)
\* Every variable keeps its type.
TypeOK ==
  /\ {now, issued} \subseteq Nat
  /\ life \in [Loops -> {"new", "alive", "gone"}]
  /\ leases \in [Workers -> Lease]
  /\ registry \subseteq [lease: Nat, scope: Scopes, expires: Nat]
  /\ slot \in [Jobs -> Slot]
  /\ started \in [Loops -> SUBSET Tasks]

\* A slot's fencing token never goes down, and a new lease has a larger one than the lease
\* it succeeds (worker-lease-rules.ts, rule 1) - with a lease file that is also written
\* without the store lock when the copy is attached.
FencingGrows ==
  [][\A w \in Workers : /\ leases'[w].token >= leases[w].token
                        /\ leases'[w].id # leases[w].id => leases'[w].token > leases[w].token]_vars

\* A lease that was given back or reaped is never held again: whoever released it has told
\* the other loops that the slot is free.
ReleasedStaysReleased ==
  [][\A w \in Workers :
       leases'[w].id = leases[w].id /\ leases'[w].held => leases[w].held]_vars

\* The registry never holds clashing scopes for two leases, expired locks included: an
\* acquisition drops what has expired and is refused by what has not.
ScopeLocksDisjoint ==
  \A a, b \in registry : a.lease # b.lease => ~scopesConflict(a.scope, b.scope)

\* As long as a lease file says that its lease is held and the term of its scope locks runs,
\* the registry has them, though only the lease is renewed when the child starts
\* (slot-task-runner.ts) and releases, reapers and expiry take locks out.  A slot is granted,
\* and a child started, on the strength of the lease alone: nobody looks at the locks again.
HeldLeaseHasLocks ==
  \A w \in Workers : leases[w].held /\ now < leases[w].locked =>
    \A s \in WriteSet[leases[w].task] : \E lock \in registry :
      lock.lease = leases[w].id /\ lock.scope = s /\ isScopeLockActive(lock, now)

Apart(p, q) ==
  \A s \in WriteSet[slot[p].task], t \in WriteSet[slot[q].task] : ~scopesConflict(s, t)

\* slot-task-runner.ts:16-18: the life of a child begins with its renewed lease, and no reaper
\* has anything to cut off.  So no two children that run at once may write clashing scopes.
\* They may when a loop died under one of them: see the README.
ChildrenApart ==
  \A p, q \in Jobs : slot[p].at = "running" /\ slot[q].at = "running" /\ p # q => Apart(p, q)

\* The child runs on the lease in its slot's file, held, and the term of its locks still runs.
InTerm(p) ==
  /\ slot[p].at = "running" /\ slot[p].lease.id = leases[p[2]].id
  /\ leases[p[2]].held /\ now < leases[p[2]].locked

\* What is left of that promise: children on two leases that stand never clash, whoever died.
LeasedChildrenApart ==
  \A p, q \in Jobs : InTerm(p) /\ InTerm(q) /\ slot[p].lease.id # slot[q].lease.id => Apart(p, q)

\* And the lease of a child stands as long as its loop lives.
LivingChildKeepsLease ==
  \A p \in Jobs : slot[p].at = "running" /\ life[p[1]] = "alive" =>
    slot[p].lease.id = leases[p[2]].id /\ leases[p[2]].held
================================================================================
