------------------------- MODULE SlotChildrenProofs -------------------------
(***************************************************************************)
(* What keeps the children of successive loops apart, for any number of    *)
(* loops, slots, tasks and scopes, any crashes and store failures, however *)
(* long a preparation or a child takes: a lease file that says its lease   *)
(* is held has its scope locks in the registry for the term they were      *)
(* taken for, and the leases of two slots are never the same.  The only    *)
(* premise is that a loop starts when no other is alive.                   *)
(***************************************************************************)
EXTENDS SlotIsolationProofs

\* The registry has a lock of the lease, good until `end`, on all that the task writes.
LocksStand(id, task, end) ==
  \A s \in WriteSet[task] : \E lock \in registry :
    lock.lease = id /\ lock.scope = s /\ lock.expires >= end

\* A held lease was issued, for a task; for the term of its scope locks it has them.
FileInv(w) ==
  leases[w].held =>
    /\ leases[w].id > 0 /\ leases[w].task \in Tasks
    /\ now < leases[w].locked => LocksStand(leases[w].id, leases[w].task, leases[w].locked)

\* No two lease files hold the same lease.
Distinct ==
  \A v, w \in Workers : leases[v].id = leases[w].id /\ v # w => leases[w].id = 0

\* A slot is provisioned for a task that had no live lease, so that the lease it takes is a new
\* one; until it is written back the file knows nothing of its locks.  A release only drops the
\* locks of a lease that is no longer held.  The lease a child was started on is for its task, and
\* stays in the file as long as the loop lives.
JobInv(p) ==
  LET file == leases[p[2]]
      own == slot[p].lease
  IN
  /\ slot[p].at = "acquire" /\ isLeaseActive(file, slot[p].since) => file.task # slot[p].task
  /\ slot[p].at \in {"locks", "worktree", "attach"} =>
       file.task = slot[p].task /\ own.task = slot[p].task /\ file.locked = 0
  /\ slot[p].at \in {"worktree", "attach"} /\ now < own.locked =>
       LocksStand(own.id, slot[p].task, own.locked)
  /\ slot[p].at = "unlock" => own.id = file.id /\ ~file.held
  /\ slot[p].at = "running" =>
       /\ own.id <= issued
       /\ own.id = file.id => file.task = slot[p].task
       /\ life[p[1]] = "alive" => own.id = file.id /\ file.held

ChildInv ==
  /\ Fenced /\ Distinct
  /\ \A w \in Workers : FileInv(w)
  /\ \A p \in Jobs : JobInv(p)

LEMMA ChildInit == Init => ChildInv
<1> SUFFICES ASSUME Init PROVE ChildInv
  OBVIOUS
<1>1. \A p \in Jobs : slot[p].at = "off"
  BY DEF Init, EmptySlot
<1>2. \A w \in Workers : leases[w].id = 0 /\ ~leases[w].held
  BY DEF Init, NoLease
<1>3. \A p \in Jobs : JobInv(p)
  BY <1>1 DEF JobInv
<1> QED
  BY <1>2, <1>3, FencedInit DEF ChildInv, Distinct, FileInv

\* What the invariant and the types give a step of a living loop in slot p.
LEMMA InSlot ==
  ASSUME ChildInv, NEW p \in Jobs
  PROVE  /\ p[1] \in Loops /\ p[2] \in Workers
         /\ slot[p].at \notin {"off", "running"} => life[p[1]] = "alive"
         /\ slot[p] \in Slot /\ leases[p[2]] \in Lease /\ slot[p].lease \in Lease
         /\ slot \in [Jobs -> Slot] /\ leases \in [Workers -> Lease]
         /\ now \in Nat /\ issued \in Nat /\ slot[p].since \in Nat
         /\ slot[p].at \in Preparing \cup {"running"} => slot[p].task \in Tasks
         /\ leases[p[2]].expires \in Nat /\ leases[p[2]].id <= issued
         /\ leases[p[2]].id \in Nat
         /\ JobInv(p) /\ FileInv(p[2])
BY DEF ChildInv, Fenced, LoopsTakeTurns, LeaseInHand, Typed, TypeOK, SlotsHaveTasks, Jobs, Slot,
   Lease

\* The only slots in use besides a living loop's are those of children that dead loops left.
LEMMA Elsewhere ==
  ASSUME ChildInv, NEW p \in Jobs, NEW q \in Jobs, q # p, life[p[1]] = "alive"
  PROVE  \/ q[1] = p[1] /\ q[2] # p[2]
         \/ life[q[1]] # "alive" /\ slot[q].at \in {"off", "running"}
<1>1. CASE q[1] = p[1]
  BY <1>1 DEF Jobs
<1>2. CASE q[1] # p[1]
  <2>1. life[q[1]] # "alive"
    BY <1>2 DEF ChildInv, Fenced, LoopsTakeTurns, Jobs
  <2> QED
    BY <2>1 DEF ChildInv, Fenced, LoopsTakeTurns
<1> QED
  BY <1>1, <1>2

\* Locks that a step keeps: those of other leases that have not expired.
LEMMA LocksKept ==
  ASSUME ChildInv, NEW id, NEW task, NEW end \in Nat, now < end, LocksStand(id, task, end),
         \A lock \in registry : lock.lease = id /\ now < lock.expires => lock \in registry'
  PROVE  \A s \in WriteSet[task] : \E lock \in registry' :
           lock.lease = id /\ lock.scope = s /\ lock.expires >= end
<1> SUFFICES ASSUME NEW s \in WriteSet[task]
             PROVE  \E lock \in registry' :
                      lock.lease = id /\ lock.scope = s /\ lock.expires >= end
  OBVIOUS
<1>1. PICK lock \in registry : lock.lease = id /\ lock.scope = s /\ lock.expires >= end
  BY DEF LocksStand
<1>2. now \in Nat /\ lock.expires \in Nat
  BY DEF ChildInv, Fenced, Typed, TypeOK
<1>3. lock \in registry'
  BY <1>1, <1>2
<1> QED
  BY <1>1, <1>3

\* What a step in slot p does to the slot's lease file: nothing to the others.
OneFile(p) ==
  /\ issued' \in Nat /\ issued' >= issued
  /\ \A w \in Workers : w # p[2] => leases'[w] = leases[w]
  /\ \/ leases'[p[2]].id = leases[p[2]].id /\ leases'[p[2]].task = leases[p[2]].task
     \/ leases'[p[2]].id = issued + 1

\* A step of a living loop in slot p keeps the invariant of the other slots and lease files: a
\* registry it rewrites keeps the live locks of other leases.
LEMMA OtherJobs ==
  ASSUME ChildInv, Fenced', NEW p \in Jobs, life[p[1]] = "alive", UNCHANGED <<now, life>>,
         \A q \in Jobs : q # p => slot'[q] = slot[q], OneFile(p),
         \/ registry' = registry
         \/ /\ slot[p].lease.id = leases[p[2]].id
            /\ \A lock \in registry :
                 lock.lease # slot[p].lease.id /\ now < lock.expires => lock \in registry',
         FileInv(p[2])', JobInv(p)'
  PROVE  ChildInv'
<1>1. /\ leases \in [Workers -> Lease] /\ leases' \in [Workers -> Lease] /\ p[2] \in Workers
      /\ issued \in Nat /\ now \in Nat
      /\ \A w \in Workers : leases[w].id \in Nat /\ leases[w].id <= issued
                            /\ leases[w].locked \in Nat
  BY InSlot DEF ChildInv, Fenced, Typed, TypeOK, LeaseInHand, Lease, Jobs
<1>2. Distinct'
  <2>1. CASE leases'[p[2]].id = leases[p[2]].id
    <3>1. \A w \in Workers : leases'[w].id = leases[w].id
      BY <2>1 DEF OneFile
    <3> QED
      BY <3>1 DEF ChildInv, Distinct
  <2>2. CASE leases'[p[2]].id = issued + 1
    <3>1. \A w \in Workers : w # p[2] => leases'[w].id = leases[w].id /\ leases[w].id # issued + 1
      BY <1>1 DEF OneFile
    <3> QED
      BY <2>2, <3>1 DEF ChildInv, Distinct
  <2> QED
    BY <2>1, <2>2 DEF OneFile
<1>3. ASSUME NEW w \in Workers, w # p[2], NEW task, NEW end \in Nat, now < end, leases[w].id > 0,
             LocksStand(leases[w].id, task, end)
      PROVE  LocksStand(leases[w].id, task, end)'
  <2>1. leases'[w] = leases[w]
    BY <1>3 DEF OneFile
  <2>2. \A lock \in registry : lock.lease = leases[w].id /\ now < lock.expires => lock \in registry'
    <3>1. leases[p[2]].id # leases[w].id
      BY <1>1, <1>3 DEF ChildInv, Distinct
    <3> QED
      BY <3>1
  <2>3. \A s \in WriteSet[task] : \E lock \in registry' :
          lock.lease = leases[w].id /\ lock.scope = s /\ lock.expires >= end
    BY <1>3, <2>2, LocksKept
  <2> QED
    BY <2>1, <2>3 DEF LocksStand
<1>4. ASSUME NEW w \in Workers PROVE FileInv(w)'
  <2>1. CASE w = p[2]
    BY <2>1
  <2>2. CASE w # p[2]
    <3>1. leases'[w] = leases[w] /\ FileInv(w)
      BY <2>2 DEF OneFile, ChildInv
    <3>2. ASSUME leases[w].held, now < leases[w].locked
          PROVE  LocksStand(leases[w].id, leases[w].task, leases[w].locked)'
      <4>1. /\ leases[w].id > 0 /\ leases[w].locked \in Nat
            /\ LocksStand(leases[w].id, leases[w].task, leases[w].locked)
        BY <1>1, <3>1, <3>2 DEF FileInv
      <4> DEFINE task == leases[w].task
                 end == leases[w].locked
      <4>2. LocksStand(leases[w].id, task, end)
        BY <4>1
      <4>3. \A s \in WriteSet[task] : \E lock \in registry' :
              lock.lease = leases[w].id /\ lock.scope = s /\ lock.expires >= end
        <5> HIDE DEF task, end
        <5>1. \A lock \in registry :
                lock.lease = leases[w].id /\ now < lock.expires => lock \in registry'
          <6>1. leases[p[2]].id # leases[w].id
            BY <1>1, <2>2, <4>1 DEF ChildInv, Distinct
          <6> QED
            BY <6>1
        <5>2. end \in Nat /\ now < end
          BY <3>2, <4>1 DEF end
        <5> QED
          BY <4>2, <5>1, <5>2, LocksKept
      <4> QED
        BY <3>1, <4>3 DEF LocksStand
    <3> QED
      BY <3>1, <3>2 DEF FileInv
  <2> QED
    BY <2>1, <2>2
<1>5. ASSUME NEW q \in Jobs, q # p PROVE JobInv(q)'
  <2>1. slot'[q] = slot[q] /\ JobInv(q) /\ q[1] \in Loops /\ q[2] \in Workers
    BY <1>5 DEF ChildInv, Jobs
  <2>2. CASE q[2] # p[2]
    <3>1. leases'[q[2]] = leases[q[2]] /\ slot[q].lease.id \in Nat /\ issued' >= issued
          /\ issued' \in Nat /\ slot[q].lease.locked \in Nat
      BY <2>1, <2>2, InSlot DEF OneFile, Lease
    <3>2. ASSUME slot[q].at \in {"worktree", "attach"}, now < slot[q].lease.locked
          PROVE  LocksStand(slot[q].lease.id, slot[q].task, slot[q].lease.locked)'
      <4>1. slot[q].lease.id = leases[q[2]].id /\ leases[q[2]].held
        BY <3>2 DEF ChildInv, Fenced, LeaseInHand
      <4>2. leases[q[2]].id > 0
        BY <2>1, <4>1 DEF ChildInv, FileInv
      <4>3. LocksStand(slot[q].lease.id, slot[q].task, slot[q].lease.locked)
        BY <2>1, <3>2 DEF JobInv
      <4>4. \A lock \in registry :
              lock.lease = slot[q].lease.id /\ now < lock.expires => lock \in registry'
        <5>1. leases[p[2]].id # leases[q[2]].id
          BY <1>1, <2>1, <2>2, <4>2 DEF ChildInv, Distinct
        <5> QED
          BY <4>1, <5>1
      <4>5. \A s \in WriteSet[slot[q].task] : \E lock \in registry' :
              /\ lock.lease = slot[q].lease.id /\ lock.scope = s
              /\ lock.expires >= slot[q].lease.locked
        BY <3>1, <3>2, <4>3, <4>4, LocksKept
      <4> QED
        BY <2>1, <4>5 DEF LocksStand
    <3>3. life'[q[1]] = life[q[1]] /\ now' = now
      OBVIOUS
    <3>4. slot[q].at = "running" => slot[q].lease.id <= issued'
      <4>1. issued \in Nat
        BY <1>1
      <4> QED
        BY <2>1, <3>1, <4>1 DEF JobInv
    <3> QED
      BY <2>1, <3>1, <3>2, <3>3, <3>4, SMTT(30) DEF JobInv, isLeaseActive, isLeaseExpired
  <2>3. CASE q[2] = p[2]
    <3>1. life[q[1]] # "alive" /\ slot[q].at \in {"off", "running"}
      BY <1>5, <2>3, Elsewhere
    <3>2. slot[q].lease.id \in Nat /\ issued \in Nat /\ issued' \in Nat /\ issued' >= issued
      BY InSlot DEF OneFile, Lease
    <3> QED
      BY <2>1, <2>3, <3>1, <3>2 DEF JobInv, OneFile
  <2> QED
    BY <2>2, <2>3
<1> QED
  BY <1>2, <1>4, <1>5 DEF ChildInv

\* A step that changes nothing but slot p, which needs no promise where it goes.
LEMMA SlotOnly ==
  ASSUME ChildInv, Fenced', NEW p \in Jobs, life[p[1]] = "alive",
         UNCHANGED <<now, life, leases, issued, registry>>,
         \A q \in Jobs : q # p => slot'[q] = slot[q],
         JobInv(p)'
  PROVE  ChildInv'
<1>1. FileInv(p[2])'
  BY InSlot DEF FileInv, LocksStand
<1>2. OneFile(p)
  BY InSlot DEF OneFile
<1> QED
  BY <1>1, <1>2, OtherJobs

\* No promise is made to a slot that the loop has left, gives back or is granted.
Unpromised == Places \ {"acquire", "locks", "worktree", "attach", "unlock", "running"}

LEMMA Left ==
  ASSUME ChildInv, NEW p \in Jobs, Leave(p)
  PROVE  slot'[p].at = "idle" /\ JobInv(p)' /\ \A q \in Jobs : q # p => slot'[q] = slot[q]
<1>1. slot'[p].at = "idle" /\ \A q \in Jobs : q # p => slot'[q] = slot[q]
  BY InSlot DEF Leave, EmptySlot
<1> QED
  BY <1>1 DEF JobInv

LEMMA WentTo ==
  ASSUME ChildInv, NEW p \in Jobs, NEW place, Goto(p, place)
  PROVE  /\ slot'[p].at = place /\ slot'[p].lease = slot[p].lease
         /\ slot'[p].task = slot[p].task /\ slot'[p].since = slot[p].since
         /\ \A q \in Jobs : q # p => slot'[q] = slot[q]
         /\ place \in Unpromised => JobInv(p)'
<1>1. /\ slot'[p].at = place /\ slot'[p].lease = slot[p].lease
      /\ slot'[p].task = slot[p].task /\ slot'[p].since = slot[p].since
      /\ \A q \in Jobs : q # p => slot'[q] = slot[q]
  BY InSlot DEF Goto, Slot
<1> QED
  BY <1>1 DEF JobInv, Unpromised

LEMMA Holds ==
  ASSUME ChildInv, NEW p \in Jobs, NEW place, NEW lease, Hold(p, place, lease)
  PROVE  /\ slot'[p].at = place /\ slot'[p].lease = lease
         /\ slot'[p].task = slot[p].task /\ slot'[p].since = slot[p].since
         /\ \A q \in Jobs : q # p => slot'[q] = slot[q]
         /\ place \in Unpromised => JobInv(p)'
<1>1. /\ slot'[p].at = place /\ slot'[p].lease = lease
      /\ slot'[p].task = slot[p].task /\ slot'[p].since = slot[p].since
      /\ \A q \in Jobs : q # p => slot'[q] = slot[q]
  BY InSlot DEF Hold
<1> QED
  BY <1>1 DEF JobInv, Unpromised

\* A lease file rewritten with a version of the same lease, which needs the locks it needed.
LEMMA SameLease ==
  ASSUME ChildInv, NEW p \in Jobs, NEW lease \in Lease, SetLease(p[2], lease),
         UNCHANGED <<now, issued, registry>>,
         lease.id = leases[p[2]].id, lease.task = leases[p[2]].task,
         lease.locked = leases[p[2]].locked, lease.held => leases[p[2]].held
  PROVE  leases'[p[2]] = lease /\ OneFile(p) /\ FileInv(p[2])'
<1>1. p[2] \in Workers /\ leases \in [Workers -> Lease] /\ issued \in Nat /\ FileInv(p[2])
  BY InSlot
<1>2. leases'[p[2]] = lease /\ \A w \in Workers : w # p[2] => leases'[w] = leases[w]
  BY <1>1 DEF SetLease
<1>3. OneFile(p)
  BY <1>1, <1>2 DEF OneFile
<1>4. FileInv(p[2])'
  BY <1>1, <1>2 DEF FileInv, LocksStand
<1> QED
  BY <1>2, <1>3, <1>4

--------------------------------------------------------------------------------
(***************************************************************************)
(* The steps, one by one.                                                  *)
(***************************************************************************)
\* The reaper's slot has the released lease's identifier, and leads to its locks.
LEMMA ReapKeeps ==
  ASSUME ChildInv, Fenced', NEW p \in Jobs, Reap(p)
  PROVE  ChildInv'
<1> DEFINE lease == leases[p[2]]
<1>1. slot[p].at = "reap" /\ UNCHANGED <<now, life, issued, registry, started>>
  BY DEF Reap
<1>2. life[p[1]] = "alive" /\ lease \in Lease
  BY <1>1, InSlot
<1>3. CASE SetLease(p[2], releasedWorkerLease(lease)) /\ Hold(p, "unlock", lease)
  <2> DEFINE new == releasedWorkerLease(lease)
  <2>1. /\ new \in Lease /\ ~new.held /\ new.id = lease.id /\ new.task = lease.task
        /\ new.locked = lease.locked
    BY <1>2, LeaseTyped, 0 \in Nat DEF releasedWorkerLease, Lease
  <2> HIDE DEF new
  <2>2. leases'[p[2]] = new /\ OneFile(p) /\ FileInv(p[2])'
    BY <1>1, <1>3, <2>1, SameLease DEF new
  <2>3. /\ slot'[p].at = "unlock" /\ slot'[p].lease = lease
        /\ \A q \in Jobs : q # p => slot'[q] = slot[q]
    BY <1>3, Holds
  <2>4. JobInv(p)'
    BY <2>1, <2>2, <2>3 DEF JobInv
  <2> QED
    BY <1>1, <1>2, <2>2, <2>3, <2>4, OtherJobs
<1>4. CASE Leave(p) /\ UNCHANGED leases
  BY <1>1, <1>2, <1>4, Left, SlotOnly
<1> QED
  BY <1>3, <1>4 DEF Reap

\* A slot is planned for a task without a live lease, or granted one that is looked at later.
LEMMA PlanKeeps ==
  ASSUME ChildInv, Fenced', NEW p \in Jobs, Plan(p)
  PROVE  ChildInv'
<1>1. PICK t \in Tasks : PlanProvision(p, t) \/ \E w \in Workers : PlanGranted(p, t, w)
  BY DEF Plan
<1>2. life[p[1]] = "alive" /\ UNCHANGED <<now, life, leases, issued, registry, started>>
  BY <1>1 DEF PlanProvision, PlanGranted, Pick
<1>3. CASE PlanProvision(p, t)
  <2>1. /\ slot'[p] = [at |-> "acquire", lease |-> NoLease, task |-> t, since |-> now]
        /\ \A q \in Jobs : q # p => slot'[q] = slot[q]
    BY <1>3, InSlot DEF PlanProvision, Pick
  <2>2. isLeaseActive(leases[p[2]], now) => leases[p[2]].task # t
    BY <1>3, InSlot DEF PlanProvision, liveLeaseOf
  <2>3. JobInv(p)'
    BY <1>2, <2>1, <2>2 DEF JobInv, isLeaseActive, isLeaseExpired
  <2> QED
    BY <1>2, <2>1, <2>3, SlotOnly
<1>4. ASSUME NEW w \in Workers, PlanGranted(p, t, w) PROVE ChildInv'
  <2>1. slot'[p].at = "granted" /\ \A q \in Jobs : q # p => slot'[q] = slot[q]
    BY <1>4, InSlot DEF PlanGranted, Pick
  <2>2. JobInv(p)'
    BY <2>1 DEF JobInv
  <2> QED
    BY <1>2, <2>1, <2>2, SlotOnly
<1> QED
  BY <1>1, <1>3, <1>4

\* An own lease that is still live is another task's: it is renewed and left.  A lease that a
\* provisioning works with is therefore a new one, which has no scope locks yet.
LEMMA AcquireKeeps ==
  ASSUME ChildInv, Fenced', NEW p \in Jobs, acquireWorkerLease(p)
  PROVE  ChildInv'
<1> DEFINE previous == leases[p[2]]
<1>1. slot[p].at = "acquire" /\ UNCHANGED <<now, life, registry, started>>
  BY DEF acquireWorkerLease
<1>2. /\ life[p[1]] = "alive" /\ previous \in Lease /\ slot[p].task \in Tasks
      /\ issued \in Nat /\ previous.expires \in Nat /\ slot[p].since \in Nat /\ p[2] \in Workers
      /\ leases \in [Workers -> Lease]
  BY <1>1, InSlot DEF Preparing
<1>3. PICK at \in ClockReads(p) :
        \/ Leave(p) /\ UNCHANGED <<leases, issued>>
        \/ /\ isLeaseActive(previous, at)
           /\ SetLease(p[2], renewWorkerLease(previous, at))
           /\ IF previous.task = slot[p].task
              THEN Hold(p, "locks", renewWorkerLease(previous, at))
              ELSE Leave(p)
           /\ UNCHANGED issued
        \/ /\ issued' = issued + 1
           /\ SetLease(p[2], newLease(p, at))
           /\ Hold(p, "locks", newLease(p, at))
  BY DEF acquireWorkerLease
<1>4. at \in Nat /\ slot[p].since <= at
  BY <1>1, ClockTyped, InSlot DEF ChildInv, Fenced, ClockReads
<1>5. isLeaseActive(previous, at) => previous.task # slot[p].task
  <2>1. isLeaseActive(previous, at) => isLeaseActive(previous, slot[p].since)
    BY <1>2, <1>4 DEF isLeaseActive, isLeaseExpired
  <2> QED
    BY <1>1, <2>1, InSlot DEF JobInv
<1>6. CASE Leave(p) /\ UNCHANGED <<leases, issued>>
  BY <1>1, <1>2, <1>6, Left, SlotOnly
<1>7. CASE /\ Leave(p) /\ SetLease(p[2], renewWorkerLease(previous, at)) /\ UNCHANGED issued
  <2> DEFINE lease == renewWorkerLease(previous, at)
  <2>1. /\ lease \in Lease /\ lease.id = previous.id /\ lease.held = previous.held
        /\ lease.task = previous.task /\ lease.locked = previous.locked
    BY <1>2, <1>4, LeaseTyped DEF renewWorkerLease, Lease
  <2> HIDE DEF lease
  <2>2. leases'[p[2]] = lease /\ OneFile(p) /\ FileInv(p[2])'
    BY <1>1, <1>7, <2>1, SameLease DEF lease
  <2>3. JobInv(p)' /\ \A q \in Jobs : q # p => slot'[q] = slot[q]
    BY <1>7, Left
  <2> QED
    BY <1>1, <1>2, <2>2, <2>3, OtherJobs
<1>8. CASE /\ issued' = issued + 1 /\ SetLease(p[2], newLease(p, at))
           /\ Hold(p, "locks", newLease(p, at))
  <2> DEFINE lease == newLease(p, at)
  <2>1. /\ lease \in Lease /\ lease.id = issued + 1 /\ lease.task = slot[p].task
        /\ lease.locked = 0
    BY <1>4, NewLeaseTyped DEF newLease, ChildInv, Fenced
  <2> HIDE DEF lease
  <2>2. SetLease(p[2], lease) /\ Hold(p, "locks", lease)
    BY <1>8 DEF lease
  <2>3. leases'[p[2]] = lease /\ \A w \in Workers : w # p[2] => leases'[w] = leases[w]
    BY <1>2, <2>2 DEF SetLease
  <2>4. OneFile(p)
    BY <1>2, <1>8, <2>1, <2>3 DEF OneFile
  <2>5. FileInv(p[2])'
    <3>1. lease.id > 0 /\ ~(now' < lease.locked)
      BY <1>1, <1>2, <2>1, InSlot
    <3> QED
      BY <1>2, <2>1, <2>3, <3>1 DEF FileInv
  <2>6. /\ slot'[p].at = "locks" /\ slot'[p].lease = lease /\ slot'[p].task = slot[p].task
        /\ \A q \in Jobs : q # p => slot'[q] = slot[q]
    BY <2>2, Holds
  <2>7. JobInv(p)'
    BY <2>1, <2>3, <2>6 DEF JobInv
  <2> QED
    BY <1>1, <1>2, <2>4, <2>5, <2>6, <2>7, OtherJobs
<1> QED
  BY <1>3, <1>5, <1>6, <1>7, <1>8

\* A provisioning that fails keeps its lease when a copy stands behind it, or gives it back.
LEMMA GiveBackKeeps ==
  ASSUME ChildInv, Fenced', NEW p \in Jobs, slot[p].at \in {"locks", "worktree", "attach"},
         releaseHeldLease(p), UNCHANGED <<now, life, leases, issued, registry, started>>
  PROVE  ChildInv'
<1>1. life[p[1]] = "alive"
  BY InSlot
<1>2. CASE Leave(p)
  BY <1>1, <1>2, Left, SlotOnly
<1>3. CASE Goto(p, "giveback")
  <2>1. "giveback" \in Unpromised
    BY DEF Unpromised, Places
  <2> QED
    BY <1>1, <1>3, <2>1, WentTo, SlotOnly
<1> QED
  BY <1>2, <1>3 DEF releaseHeldLease

\* The locks are taken for a whole term; live locks of other leases stay.
LEMMA ScopeLocksKeep ==
  ASSUME ChildInv, Fenced', NEW p \in Jobs, acquireScopeLocks(p)
  PROVE  ChildInv'
<1> DEFINE id == slot[p].lease.id
           scopes == WriteSet[slot[p].task]
<1>1. slot[p].at = "locks" /\ UNCHANGED <<now, life, leases, issued, started>>
  BY DEF acquireScopeLocks
<1>2. /\ life[p[1]] = "alive" /\ slot[p].lease \in Lease /\ id = leases[p[2]].id
      /\ JobInv(p) /\ FileInv(p[2]) /\ now \in Nat
  BY <1>1, InSlot DEF ChildInv, Fenced, LeaseInHand
<1>3. PICK at \in ClockReads(p) :
        \/ releaseHeldLease(p) /\ UNCHANGED registry
        \/ /\ registry' = IF scopes = {} THEN registry
                          ELSE retainedLocks(id, scopes, at) \cup scopeLocksOf(id, scopes, at)
           /\ Hold(p, "worktree", [slot[p].lease EXCEPT !.locked = at + TTL])
  BY DEF acquireScopeLocks
<1>4. at \in Nat /\ at <= now /\ at + TTL \in Nat
  BY ClockTyped, SlotTiming DEF ChildInv, Fenced
<1>5. CASE releaseHeldLease(p) /\ UNCHANGED registry
  BY <1>1, <1>5, GiveBackKeeps
<1>6. CASE /\ registry' = IF scopes = {} THEN registry
                          ELSE retainedLocks(id, scopes, at) \cup scopeLocksOf(id, scopes, at)
           /\ Hold(p, "worktree", [slot[p].lease EXCEPT !.locked = at + TTL])
  <2> DEFINE lease == [slot[p].lease EXCEPT !.locked = at + TTL]
  <2>1. lease.id = id /\ lease.locked = at + TTL /\ lease.task = slot[p].lease.task
    BY <1>2 DEF Lease
  <2> HIDE DEF lease
  <2>2. /\ slot'[p].at = "worktree" /\ slot'[p].lease = lease /\ slot'[p].task = slot[p].task
        /\ \A q \in Jobs : q # p => slot'[q] = slot[q]
    BY <1>6, Holds DEF lease
  <2>3. \A lock \in registry : lock.lease # id /\ now < lock.expires => lock \in registry'
    <3>1. \A lock \in registry : lock.expires \in Nat
      BY DEF ChildInv, Fenced, Typed, TypeOK
    <3> QED
      BY <1>2, <1>4, <1>6, <3>1 DEF retainedLocks, isScopeLockActive
  <2>4. \A s \in scopes : [lease |-> id, scope |-> s, expires |-> at + TTL] \in registry'
    BY <1>6 DEF scopeLocksOf
  <2>5. LocksStand(slot[p].lease.id, slot[p].task, slot[p].lease.locked)'
    <3> SUFFICES ASSUME NEW s \in scopes
                 PROVE  \E lock \in registry' : /\ lock.lease = id /\ lock.scope = s
                                                /\ lock.expires >= at + TTL
      BY <2>1, <2>2 DEF LocksStand
    <3>1. at + TTL >= at + TTL
      BY <1>4
    <3> QED
      BY <2>4, <3>1
  <2>6. JobInv(p)'
    BY <1>1, <1>2, <2>1, <2>2, <2>5 DEF JobInv, LocksStand
  <2>7. FileInv(p[2])'
    <3>1. leases[p[2]].locked = 0
      BY <1>1, <1>2 DEF JobInv
    <3>2. ~(now' < leases[p[2]].locked)
      BY <1>1, <1>2, <3>1
    <3> QED
      BY <1>1, <1>2, <3>2 DEF FileInv
  <2>8. OneFile(p)
    BY <1>1, InSlot DEF OneFile
  <2> QED
    BY <1>1, <1>2, <2>2, <2>3, <2>6, <2>7, <2>8, OtherJobs
<1> QED
  BY <1>3, <1>5, <1>6

\* The copy is noted in the loop's own view of the lease.
LEMMA WorktreeKeeps ==
  ASSUME ChildInv, Fenced', NEW p \in Jobs, createWorktree(p)
  PROVE  ChildInv'
<1> DEFINE lease == [slot[p].lease EXCEPT !.copy = TRUE]
<1>1. slot[p].at = "worktree" /\ UNCHANGED <<now, life, leases, issued, registry, started>>
  BY DEF createWorktree
<1>2. /\ lease.id = slot[p].lease.id /\ lease.task = slot[p].lease.task
      /\ lease.locked = slot[p].lease.locked /\ life[p[1]] = "alive" /\ JobInv(p)
  BY <1>1, InSlot DEF Lease
<1> HIDE DEF lease
<1>3. /\ slot'[p].at = "attach" /\ slot'[p].lease = lease /\ slot'[p].task = slot[p].task
      /\ \A q \in Jobs : q # p => slot'[q] = slot[q]
  BY Holds DEF createWorktree, lease
<1>4. JobInv(p)'
  BY <1>1, <1>2, <1>3 DEF JobInv, LocksStand
<1> QED
  BY <1>1, <1>2, <1>3, <1>4, SlotOnly

\* The unlocked write puts back the lease that stands there, now with its locks.
LEMMA AttachKeeps ==
  ASSUME ChildInv, Fenced', NEW p \in Jobs, attachWorktree(p)
  PROVE  ChildInv'
<1> DEFINE lease == slot[p].lease
<1>1. /\ slot[p].at = "attach" /\ UNCHANGED <<now, life, issued, registry, started>>
      /\ SetLease(p[2], lease) /\ Goto(p, "provisioned")
  BY DEF attachWorktree
<1>2. /\ life[p[1]] = "alive" /\ JobInv(p) /\ FileInv(p[2]) /\ p[2] \in Workers
      /\ leases \in [Workers -> Lease] /\ issued \in Nat
  BY <1>1, InSlot
<1>3. /\ lease.id = leases[p[2]].id /\ leases[p[2]].held
      /\ lease.task = slot[p].task /\ leases[p[2]].task = slot[p].task
  BY <1>1, <1>2 DEF JobInv, ChildInv, Fenced, LeaseInHand
<1>4. leases'[p[2]] = lease /\ \A w \in Workers : w # p[2] => leases'[w] = leases[w]
  BY <1>1, <1>2 DEF SetLease
<1>5. OneFile(p)
  BY <1>1, <1>2, <1>3, <1>4 DEF OneFile
<1>6. FileInv(p[2])'
  <2>1. lease.id > 0 /\ lease.task \in Tasks
    BY <1>2, <1>3 DEF FileInv
  <2>2. now < lease.locked => LocksStand(lease.id, lease.task, lease.locked)
    BY <1>1, <1>2, <1>3 DEF JobInv
  <2> QED
    BY <1>1, <1>4, <2>1, <2>2 DEF FileInv, LocksStand
<1>7. JobInv(p)' /\ \A q \in Jobs : q # p => slot'[q] = slot[q]
  <2>1. "provisioned" \in Unpromised
    BY DEF Unpromised, Places, Preparing
  <2> QED
    BY <1>1, <2>1, WentTo
<1> QED
  BY <1>1, <1>2, <1>5, <1>6, <1>7, OtherJobs

\* A provisioned slot that was not issued gives back its lease, or there is none to give back.
LEMMA UnissuedKeeps ==
  ASSUME ChildInv, Fenced', NEW p \in Jobs, releaseWaveProvisionLease(p)
  PROVE  ChildInv'
<1>1. /\ slot[p].at = "provisioned" /\ UNCHANGED <<now, life, leases, issued, registry, started>>
      /\ Leave(p) \/ Hold(p, "giveback", leases[p[2]])
  BY DEF releaseWaveProvisionLease
<1>2. life[p[1]] = "alive" /\ "giveback" \in Unpromised
  BY <1>1, InSlot DEF Unpromised, Places
<1> QED
  BY <1>1, <1>2, Left, Holds, SlotOnly

\* The child starts on the lease that stands in the file, and is for its task.
LEMMA VerifyKeeps ==
  ASSUME ChildInv, Fenced', NEW p \in Jobs, verifyOwnership(p)
  PROVE  ChildInv'
<1> DEFINE lease == leases[p[2]]
<1>1. /\ slot[p].at \in {"provisioned", "granted"}
      /\ UNCHANGED <<now, life, issued, registry>>
  BY DEF verifyOwnership
<1>2. /\ life[p[1]] = "alive" /\ lease \in Lease /\ lease.id <= issued
      /\ slot \in [Jobs -> Slot]
  BY <1>1, InSlot
<1>3. ASSUME NEW at \in ClockReads(p), SetLease(p[2], renewWorkerLease(lease, at)),
             lease.task = slot[p].task, lease.held,
             slot' = [slot EXCEPT ![p] = [at |-> "running", lease |-> lease,
                                          task |-> @.task, since |-> now]]
      PROVE  ChildInv'
  <2> DEFINE new == renewWorkerLease(lease, at)
  <2>1. at \in Nat
    BY ClockTyped DEF ChildInv, Fenced
  <2>2. /\ new \in Lease /\ new.id = lease.id /\ new.held = lease.held /\ new.task = lease.task
        /\ new.locked = lease.locked
    BY <1>2, <2>1, LeaseTyped DEF renewWorkerLease, Lease
  <2> HIDE DEF new
  <2>3. leases'[p[2]] = new /\ OneFile(p) /\ FileInv(p[2])'
    BY <1>1, <1>3, <2>2, SameLease DEF new
  <2>4. /\ slot'[p].at = "running" /\ slot'[p].lease = lease /\ slot'[p].task = slot[p].task
        /\ \A q \in Jobs : q # p => slot'[q] = slot[q]
    BY <1>2, <1>3
  <2>5. JobInv(p)'
    BY <1>1, <1>2, <1>3, <2>2, <2>3, <2>4 DEF JobInv
  <2> QED
    BY <1>1, <1>2, <2>3, <2>4, <2>5, OtherJobs
<1>4. CASE Leave(p) /\ UNCHANGED leases
  BY <1>1, <1>2, <1>4, Left, SlotOnly
<1> QED
  BY <1>3, <1>4 DEF verifyOwnership, authorizeRuntimeMutation, isLeaseActive

\* The child is over; what a dead loop left behind vanishes with it.
LEMMA FinishKeeps ==
  ASSUME ChildInv, Fenced', NEW p \in Jobs, FinishChild(p)
  PROVE  ChildInv'
<1>1. slot[p].at = "running" /\ UNCHANGED <<now, life, leases, issued, registry, started>>
  BY DEF FinishChild
<1>2. CASE life[p[1]] = "alive"
  <2>1. Goto(p, "giveback") /\ "giveback" \in Unpromised
    BY <1>2 DEF FinishChild, Unpromised, Places
  <2> QED
    BY <1>1, <1>2, <2>1, WentTo, SlotOnly
<1>3. CASE life[p[1]] # "alive"
  <2>1. slot'[p].at = "off" /\ \A q \in Jobs : q # p => slot'[q] = slot[q]
    BY <1>3, InSlot DEF FinishChild, EmptySlot
  <2>2. ASSUME NEW q \in Jobs PROVE JobInv(q)'
    BY <1>1, <2>1, <2>2 DEF ChildInv, JobInv, LocksStand, isLeaseActive, isLeaseExpired
  <2>3. Distinct' /\ \A w \in Workers : FileInv(w)'
    BY <1>1 DEF ChildInv, Distinct, FileInv, LocksStand
  <2> QED
    BY <2>2, <2>3 DEF ChildInv
<1> QED
  BY <1>2, <1>3

\* A lease that is given back takes its promise with it, before its locks go.
LEMMA ReleaseKeeps ==
  ASSUME ChildInv, Fenced', NEW p \in Jobs, releaseWorkerLease(p)
  PROVE  ChildInv'
<1> DEFINE lease == leases[p[2]]
<1>1. slot[p].at = "giveback" /\ UNCHANGED <<now, life, issued, registry, started>>
  BY DEF releaseWorkerLease
<1>2. life[p[1]] = "alive" /\ lease \in Lease
  BY <1>1, InSlot
<1>3. CASE /\ SetLease(p[2], releasedWorkerLease(lease)) /\ Goto(p, "unlock")
           /\ lease.id = slot[p].lease.id
  <2> DEFINE new == releasedWorkerLease(lease)
  <2>1. /\ new \in Lease /\ new.id = lease.id /\ new.task = lease.task /\ ~new.held
        /\ new.locked = lease.locked
    BY <1>2, LeaseTyped, 0 \in Nat DEF releasedWorkerLease, Lease
  <2> HIDE DEF new
  <2>2. leases'[p[2]] = new /\ OneFile(p) /\ FileInv(p[2])'
    BY <1>1, <1>3, <2>1, SameLease DEF new
  <2>3. /\ slot'[p].at = "unlock" /\ slot'[p].lease = slot[p].lease
        /\ \A q \in Jobs : q # p => slot'[q] = slot[q]
    BY <1>3, WentTo
  <2>4. JobInv(p)'
    BY <1>3, <2>1, <2>2, <2>3 DEF JobInv
  <2> QED
    BY <1>1, <1>2, <2>2, <2>3, <2>4, OtherJobs
<1>4. CASE Leave(p) /\ UNCHANGED leases
  BY <1>1, <1>2, <1>4, Left, SlotOnly
<1> QED
  BY <1>3, <1>4 DEF releaseWorkerLease, authorizeRuntimeMutation

\* The locks that go are those of a lease that is not held, which is no other slot's.
LEMMA UnlockKeeps ==
  ASSUME ChildInv, Fenced', NEW p \in Jobs, releaseScopeLocksInStore(p)
  PROVE  ChildInv'
<1>1. /\ slot[p].at = "unlock" /\ UNCHANGED <<now, life, leases, issued, started>> /\ Leave(p)
      /\ registry' = releaseScopeLocks(slot[p].lease.id) \/ registry' = registry
  BY DEF releaseScopeLocksInStore
<1>2. /\ life[p[1]] = "alive" /\ ~leases[p[2]].held /\ slot[p].lease.id = leases[p[2]].id
  BY <1>1, InSlot DEF JobInv
<1>3. JobInv(p)' /\ \A q \in Jobs : q # p => slot'[q] = slot[q]
  BY <1>1, Left
<1>4. \A lock \in registry : lock.lease # slot[p].lease.id => lock \in registry'
  BY <1>1 DEF releaseScopeLocks
<1>5. FileInv(p[2])'
  BY <1>1, <1>2 DEF FileInv
<1>6. OneFile(p)
  BY <1>1, InSlot DEF OneFile
<1> QED
  BY <1>1, <1>2, <1>3, <1>4, <1>5, <1>6, OtherJobs

\* A loop that starts knows of no slot.
LEMMA StartKeeps ==
  ASSUME OneLoop, ChildInv, Fenced', NEW l \in Loops, Start(l)
  PROVE  ChildInv'
<1>1. /\ life[l] = "new" /\ life' = [life EXCEPT ![l] = "alive"]
      /\ UNCHANGED <<now, leases, issued, registry, started>>
  BY DEF Start
<1>2. Distinct' /\ \A w \in Workers : FileInv(w)'
  BY <1>1 DEF ChildInv, Distinct, FileInv, LocksStand
<1>3. ASSUME NEW p \in Jobs PROVE JobInv(p)'
  <2>1. CASE p[1] = l
    <3>1. slot'[p].at = "reap"
      BY <2>1 DEF Start
    <3> QED
      BY <3>1 DEF JobInv
  <2>2. CASE p[1] # l
    <3>1. slot'[p] = slot[p] /\ life'[p[1]] = life[p[1]] /\ JobInv(p)
      BY <1>1, <2>2 DEF Start, Jobs, ChildInv, Fenced, Typed, TypeOK
    <3> QED
      BY <1>1, <3>1 DEF JobInv, LocksStand, isLeaseActive, isLeaseExpired
  <2> QED
    BY <2>1, <2>2
<1> QED
  BY <1>2, <1>3 DEF ChildInv

\* A loop that dies leaves its leases and locks to the reaper, and its children to themselves.
LEMMA CrashKeeps ==
  ASSUME ChildInv, Fenced', NEW l \in Loops, Crash(l)
  PROVE  ChildInv'
<1>1. life' = [life EXCEPT ![l] = "gone"] /\ UNCHANGED <<now, leases, issued, registry, started>>
  BY DEF Crash
<1>2. Distinct' /\ \A w \in Workers : FileInv(w)'
  BY <1>1 DEF ChildInv, Distinct, FileInv, LocksStand
<1>3. ASSUME NEW p \in Jobs PROVE JobInv(p)'
  <2>1. slot'[p].at = "off" \/ slot'[p] = slot[p]
    BY DEF Crash, EmptySlot
  <2>2. life'[p[1]] = "alive" => life[p[1]] = "alive"
    BY <1>1 DEF Jobs, ChildInv, Fenced, Typed, TypeOK
  <2>3. JobInv(p)
    BY DEF ChildInv
  <2>4. CASE slot'[p].at = "off"
    BY <2>4 DEF JobInv
  <2>5. CASE slot'[p] = slot[p]
    BY <1>1, <2>2, <2>3, <2>5 DEF JobInv, LocksStand, isLeaseActive, isLeaseExpired
  <2> QED
    BY <2>1, <2>4, <2>5
<1> QED
  BY <1>2, <1>3 DEF ChildInv

\* Time only brings terms to their end.
LEMMA TickKeeps ==
  ASSUME ChildInv, Fenced', Tick
  PROVE  ChildInv'
<1>1. /\ now' = now + 1 /\ now \in Nat
      /\ UNCHANGED <<life, leases, issued, registry, slot, started>>
  BY DEF Tick, ChildInv, Fenced, Typed, TypeOK
<1>2. ASSUME NEW w \in Workers PROVE FileInv(w)'
  <2>1. FileInv(w) /\ leases[w].locked \in Nat
    BY DEF ChildInv, Fenced, Typed, TypeOK, Lease
  <2>2. now' < leases[w].locked => now < leases[w].locked
    BY <1>1, <2>1
  <2> QED
    BY <1>1, <2>1, <2>2 DEF FileInv, LocksStand
<1>3. ASSUME NEW p \in Jobs PROVE JobInv(p)'
  <2>1. JobInv(p) /\ slot[p].lease.locked \in Nat
    BY InSlot DEF Lease
  <2>2. now' < slot[p].lease.locked => now < slot[p].lease.locked
    BY <1>1, <2>1
  <2> QED
    BY <1>1, <2>1, <2>2 DEF JobInv, LocksStand, isLeaseActive, isLeaseExpired
<1>4. Distinct'
  BY <1>1 DEF ChildInv, Distinct
<1> QED
  BY <1>2, <1>3, <1>4 DEF ChildInv

\* The inductive step.
LEMMA ChildStep == OneLoop /\ ChildInv /\ [Next]_vars => ChildInv'
<1> SUFFICES ASSUME OneLoop, ChildInv, [Next]_vars PROVE ChildInv'
  OBVIOUS
<1>1. Fenced'
  BY FencedStep DEF ChildInv
<1>2. CASE UNCHANGED vars
  <2>1. Distinct' /\ \A w \in Workers : FileInv(w)'
    BY <1>2 DEF vars, ChildInv, Distinct, FileInv, LocksStand
  <2>2. \A p \in Jobs : JobInv(p)'
    BY <1>2 DEF vars, ChildInv, JobInv, LocksStand, isLeaseActive, isLeaseExpired
  <2> QED
    BY <1>1, <2>1, <2>2 DEF ChildInv
<1>3. ASSUME NEW p \in Jobs, Provision(p) PROVE ChildInv'
  <2>1. CASE ProvisionFails(p)
    <3>1. CASE slot[p].at = "acquire" /\ Leave(p)
      BY <1>1, <2>1, <3>1, InSlot, Left, SlotOnly DEF ProvisionFails
    <3>2. CASE slot[p].at \in {"locks", "worktree", "attach"} /\ releaseHeldLease(p)
      BY <1>1, <2>1, <3>2, GiveBackKeeps DEF ProvisionFails
    <3> QED
      BY <2>1, <3>1, <3>2 DEF ProvisionFails
  <2> QED
    BY <1>1, <1>3, <2>1, AcquireKeeps, ScopeLocksKeep, WorktreeKeeps, AttachKeeps, UnissuedKeeps
    DEF Provision
<1>4. ASSUME NEW p \in Jobs, Run(p) PROVE ChildInv'
  BY <1>1, <1>4, VerifyKeeps, FinishKeeps, ReleaseKeeps, UnlockKeeps DEF Run
<1> QED
  BY <1>1, <1>2, <1>3, <1>4, StartKeeps, CrashKeeps, TickKeeps, ReapKeeps, PlanKeeps DEF Next

--------------------------------------------------------------------------------
LEMMA FilesHaveLocks ==
  ASSUME ChildInv
  PROVE  HeldLeaseHasLocks
<1> SUFFICES ASSUME NEW w \in Workers, leases[w].held, now < leases[w].locked,
                    NEW s \in WriteSet[leases[w].task]
             PROVE  \E lock \in registry : /\ lock.lease = leases[w].id /\ lock.scope = s
                                           /\ isScopeLockActive(lock, now)
  BY DEF HeldLeaseHasLocks
<1>1. PICK lock \in registry : /\ lock.lease = leases[w].id /\ lock.scope = s
                               /\ lock.expires >= leases[w].locked
  BY DEF ChildInv, FileInv, LocksStand
<1>2. now \in Nat /\ lock.expires \in Nat /\ leases[w].locked \in Nat
  BY DEF ChildInv, Fenced, Typed, TypeOK, Lease
<1> QED
  BY <1>1, <1>2 DEF isScopeLockActive

LEMMA LeasedMeetNot ==
  ASSUME ChildInv, ScopeLocksDisjoint
  PROVE  LeasedChildrenApart
<1> SUFFICES ASSUME NEW p \in Jobs, NEW q \in Jobs, InTerm(p), InTerm(q),
                    slot[p].lease.id # slot[q].lease.id,
                    NEW s \in WriteSet[slot[p].task], NEW t \in WriteSet[slot[q].task]
             PROVE  ~scopesConflict(s, t)
  BY DEF LeasedChildrenApart, Apart
<1>1. ASSUME NEW r \in Jobs, InTerm(r), NEW u \in WriteSet[slot[r].task]
      PROVE  \E lock \in registry : lock.lease = slot[r].lease.id /\ lock.scope = u
  <2>1. /\ slot[r].lease.id = leases[r[2]].id /\ leases[r[2]].task = slot[r].task
        /\ leases[r[2]].held /\ now < leases[r[2]].locked /\ r[2] \in Workers
    BY <1>1, InSlot DEF InTerm, JobInv
  <2> QED
    BY <1>1, <2>1, FilesHaveLocks DEF HeldLeaseHasLocks
<1>2. PICK a \in registry : a.lease = slot[p].lease.id /\ a.scope = s
  BY <1>1
<1>3. PICK b \in registry : b.lease = slot[q].lease.id /\ b.scope = t
  BY <1>1
<1> QED
  BY <1>2, <1>3 DEF ScopeLocksDisjoint

\* A lease file that says its lease is held never lacks a scope lock before the term of the
\* locks is over - whatever stores fail, whoever dies and is reaped, however long children run.
THEOREM HeldLeasesHaveLocks == OneLoop /\ Spec => []HeldLeaseHasLocks
<1>1. CASE OneLoop
  <2>1. ChildInv /\ [Next]_vars => ChildInv'
    BY <1>1, ChildStep
  <2>2. ChildInv => HeldLeaseHasLocks
    BY FilesHaveLocks
  <2> QED
    BY <2>1, <2>2, ChildInit, PTL DEF Spec
<1> QED
  BY <1>1

\* Children on leases that stand never write clashing scopes while the term of their locks runs,
\* the children of loops that died included.  Nothing is said of a child whose lease the next
\* loop's reaper took (ChildrenApart is false), or whose term is over.
THEOREM LeasedChildrenNeverClash == OneLoop /\ Spec => []LeasedChildrenApart
<1>1. CASE OneLoop
  <2>1. ChildInv /\ [Next]_vars => ChildInv'
    BY <1>1, ChildStep
  <2>2. ChildInv /\ ScopeLocksDisjoint => LeasedChildrenApart
    BY LeasedMeetNot
  <2> QED
    BY <2>1, <2>2, ChildInit, ScopeIsolation, PTL DEF Spec
<1> QED
  BY <1>1

\* Nobody takes a child's lease while its loop lives (slot-task-runner.ts:16-18).
THEOREM LivingChildrenKeepLeases == OneLoop /\ Spec => []LivingChildKeepsLease
<1>1. CASE OneLoop
  <2>1. ChildInv /\ [Next]_vars => ChildInv'
    BY <1>1, ChildStep
  <2>2. ChildInv => LivingChildKeepsLease
    BY DEF ChildInv, JobInv, LivingChildKeepsLease
  <2> QED
    BY <2>1, <2>2, ChildInit, PTL DEF Spec
<1> QED
  BY <1>1
============================================================================
