--------------------------- MODULE OwnedLockProofs ---------------------------
(***************************************************************************)
(* Theorems about OwnedLock: its types, for any constants, and what it     *)
(* promises in undisturbed operation, for any number of processes and any  *)
(* timing in which the heartbeat and the pauses of a process fit in the    *)
(* stale limit.  What happens to a lock that was left behind, or whose     *)
(* holder dies, depends on how many processes meet there, and is checked   *)
(* by the runs.                                                            *)
(***************************************************************************)
EXTENDS OwnedLock, FiniteSetTheorems, TLAPS

-----------------------------------------------------------------------------
(* The types.                                                              *)

\* The steps of a process.

Places == Steal!StealSteps \union
  {"idle", "mkdir", "write", "confirm", "readowner", "retry", "wait", "work", "relread", "remove", "dead"}

\* The type of every variable.
Typed ==
    /\ now \in Nat
    /\ lockDir \in Lock \union {NoDir}
    /\ stolen \in [Procs -> Lock \union {NoDir}]
    /\ pc \in [Procs -> Places]
    /\ seen \in [Procs -> OwnerRecord \union {NoOwner}]
    /\ seenMtime \in [Procs -> Int]
    /\ claim \in [Procs -> OwnerRecord \union {NoOwner}]
    /\ ourClaims \in [Procs -> SUBSET LockId]
    /\ nextId \in [Procs -> Nat]
    /\ stepAt \in [Procs -> Nat]
    /\ beat \in [Procs -> {"off", "armed", "writing"}]
    /\ beatDue \in [Procs -> Nat]
    /\ beatRec \in [Procs -> OwnerRecord \union {NoOwner}]
    /\ lateBeats \subseteq OwnerRecord

\* Whoever holds has a record of its own, and so has a beat that is being written.
Claimed(p) ==
    /\ pc[p] \in {"write", "confirm", "work"} => claim[p] \in OwnerRecord
    /\ beat[p] # "off" => pc[p] = "work"
    /\ beat[p] = "writing" => beatRec[p] \in OwnerRecord

Well == Typed /\ \A p \in Procs : Claimed(p)

LEMMA WellInit == Init => Well
BY LockValues DEF Init, Well, Typed, Claimed, Places

\* Records, directories and ids that the steps make are of their types.
LEMMA ReadingsTyped ==
  ASSUME NEW dir \in Lock \union {NoDir}
  PROVE  Readings(dir) \subseteq OwnerRecord \union {NoOwner}
BY DEF Readings, OwnerAt, Lock

LEMMA Interval == HeartbeatIntervalMs \in Nat \ {0} /\ MarginMs \in Nat
BY LockTiming DEF HeartbeatIntervalMs, MarginMs

LEMMA Made ==
  ASSUME NEW id \in LockId, NEW at \in Int
  PROVE  [id |-> id, created_at |-> at] \in OwnerRecord
BY DEF OwnerRecord

LEMMA MadeDir ==
  ASSUME NEW owner \in OwnerRecord \union {NoOwner}, NEW at \in Int
  PROVE  [owner |-> owner, mtime |-> at] \in Lock
BY DEF Lock

LEMMA OwnId ==
  ASSUME Typed, NEW p \in Procs
  PROVE  <<p, nextId[p]>> \in LockId
BY DEF Typed, LockId

\* Every step keeps the types.
LEMMA WellCall ==
  ASSUME Well, NEW p \in Procs, Call(p)
  PROVE  Well'
BY DEF Well, Typed, Claimed, Call, Goto, fsVars, beatVars, Places

LEMMA WellCreate ==
  ASSUME Well, NEW p \in Procs, CreateLockDirectory(p)
  PROVE  Well'
<1> DEFINE id == <<p, nextId[p]>>
           record == [id |-> id, created_at |-> now]
           dir == [owner |-> NoOwner, mtime |-> now]
<1>1. id \in LockId /\ now \in Int
  BY OwnId DEF Well, Typed
<1>2. record \in OwnerRecord /\ dir \in Lock
  <2> HIDE DEF id
  <2> QED
    BY <1>1, Made, MadeDir
<1>3. CASE lockDir = NoDir
  <2>1. /\ lockDir' = dir /\ claim' = [claim EXCEPT ![p] = record]
        /\ ourClaims' = [ourClaims EXCEPT ![p] = @ \union {id}]
        /\ nextId' = [nextId EXCEPT ![p] = @ + 1] /\ Goto(p, "write")
    BY <1>3 DEF CreateLockDirectory
  <2> HIDE DEF id, record, dir
  <2> QED
    BY <1>1, <1>2, <2>1 DEF Well, Typed, Claimed, CreateLockDirectory, Goto, beatVars, Places
<1>4. CASE lockDir # NoDir
  BY <1>4 DEF Well, Typed, Claimed, CreateLockDirectory, Goto, beatVars, Places
<1> QED
  BY <1>3, <1>4

LEMMA WellWrite ==
  ASSUME Well, NEW p \in Procs, WriteOwner(p)
  PROVE  Well'
<1>1. [owner |-> claim[p], mtime |-> now] \in Lock
  BY MadeDir, SMTT(20) DEF Well, Typed
<1> QED
  BY <1>1 DEF Well, Typed, Claimed, WriteOwner, Goto, callVars, beatVars, Places

LEMMA WellWriteFails ==
  ASSUME Well, NEW p \in Procs, WriteOwnerFails(p)
  PROVE  Well'
BY DEF Well, Typed, Claimed, WriteOwnerFails, EndCall, fsVars, beatVars, Places

LEMMA WellStart ==
  ASSUME Well, NEW p \in Procs, StartWork(p), claim' \in [Procs -> OwnerRecord \union {NoOwner}],
         claim'[p] \in OwnerRecord, \A q \in Procs \ {p} : claim'[q] = claim[q], pc[p] # "work",
         UNCHANGED <<now, fsVars, ourClaims, nextId>>
  PROVE  Well'
<1>1. now + HeartbeatIntervalMs \in Nat
  BY Interval DEF Well, Typed
<1>2. beat[p] = "off"
  BY DEF Well, Claimed, Typed
<1>3. /\ beat' \in [Procs -> {"off", "armed", "writing"}] /\ beatDue' \in [Procs -> Nat]
      /\ beat'[p] # "writing" /\ \A q \in Procs \ {p} : beat'[q] = beat[q]
      /\ UNCHANGED <<beatRec, lateBeats>>
  BY <1>1, <1>2 DEF Well, Typed, StartWork
<1>4. /\ pc' \in [Procs -> Places] /\ pc'[p] = "work" /\ \A q \in Procs \ {p} : pc'[q] = pc[q]
      /\ stepAt' \in [Procs -> Nat]
  BY DEF Well, Typed, StartWork, Goto, Places
<1>5. Typed'
  BY <1>3, <1>4 DEF Well, Typed, fsVars
<1>6. \A q \in Procs : Claimed(q)'
  BY <1>3, <1>4 DEF Well, Claimed
<1> QED
  BY <1>5, <1>6 DEF Well

LEMMA WellConfirm ==
  ASSUME Well, NEW p \in Procs, ConfirmOwner(p)
  PROVE  Well'
<1>1. CASE StartWork(p)
  BY <1>1, WellStart DEF Well, Typed, Claimed, ConfirmOwner, callVars
<1>2. CASE Goto(p, "retry") /\ UNCHANGED beatVars
  BY <1>2 DEF Well, Typed, Claimed, ConfirmOwner, Goto, callVars, fsVars, beatVars, Places
<1> QED
  BY <1>1, <1>2 DEF ConfirmOwner

LEMMA WellReadHolder ==
  ASSUME Well, NEW p \in Procs, ReadHolder(p)
  PROVE  Well'
<1>1. PICK current \in Readings(lockDir) :
        IF current # NoOwner /\ current.id \in ourClaims[p]
           THEN StartWork(p) /\ claim' = [claim EXCEPT ![p] = current]
           ELSE Goto(p, "stat") /\ UNCHANGED <<claim, beatVars>>
  BY DEF ReadHolder
<1>2. current \in OwnerRecord \union {NoOwner}
  BY <1>1, ReadingsTyped DEF Well, Typed
<1>3. UNCHANGED <<now, fsVars, ourClaims, nextId>> /\ pc[p] = "readowner"
  BY DEF ReadHolder
<1>4. CASE current # NoOwner /\ current.id \in ourClaims[p]
  BY <1>1, <1>2, <1>3, <1>4, WellStart DEF Well, Typed
<1>5. CASE ~(current # NoOwner /\ current.id \in ourClaims[p])
  BY <1>1, <1>3, <1>5 DEF Well, Typed, Claimed, Goto, fsVars, beatVars, Places, Steal!StealSteps
<1> QED
  BY <1>4, <1>5

LEMMA WellSteal ==
  ASSUME Well, NEW p \in Procs, StealStale(p)
  PROVE  Well'
<1>1. /\ UNCHANGED <<now, claim, ourClaims, nextId, beat, beatDue, beatRec, lateBeats>>
      /\ stepAt' \in [Procs -> Nat] /\ Steal!StealStep(p)
  BY DEF StealStale, callVars, beatVars, Well, Typed
<1>2. \A place \in {"retry", "identify", "rename", "inspect", "lookback", "restore", "discard"} :
        place \in Places /\ place \notin {"write", "confirm", "work"}
  BY DEF Places, Steal!StealSteps
<1>3. ASSUME NEW place \in {"retry", "identify", "rename", "inspect", "lookback", "restore", "discard"},
             pc[p] # "work", pc' = [pc EXCEPT ![p] = place]
      PROVE  pc' \in [Procs -> Places] /\ \A q \in Procs : Claimed(q)'
  BY <1>1, <1>2, <1>3 DEF Well, Typed, Claimed
<1>4. CASE Steal!Stat(p)
  BY <1>1, <1>3, <1>4 DEF Steal!Stat, Steal!Goto, Lock, Well, Typed
<1>5. CASE Steal!Identify(p)
  <2>1. PICK owner \in Readings(lockDir) :
          /\ seen' = [seen EXCEPT ![p] = owner]
          /\ Steal!Goto(p, IF IsStaleOwner(owner, seenMtime[p], now) THEN "rename" ELSE "retry")
    BY <1>5 DEF Steal!Identify
  <2>2. owner \in OwnerRecord \union {NoOwner}
    BY <2>1, ReadingsTyped DEF Well, Typed
  <2> QED
    BY <1>1, <1>3, <1>5, <2>1, <2>2 DEF Steal!Identify, Steal!Goto, Well, Typed
<1>6. CASE Steal!RenameAway(p)
  BY <1>1, <1>3, <1>6 DEF Steal!RenameAway, Steal!Goto, Well, Typed
<1>7. CASE Steal!Inspect(p)
  BY <1>1, <1>3, <1>7 DEF Steal!Inspect, Steal!Goto, Well, Typed
<1>8. CASE Steal!LookBack(p)
  BY <1>1, <1>3, <1>8 DEF Steal!LookBack, Steal!Goto, Well, Typed
<1>9. CASE Steal!RestoreSucceeds(p)
  BY <1>1, <1>3, <1>9 DEF Steal!RestoreSucceeds, Steal!Goto, Well, Typed
<1>10. CASE Steal!RestoreFails(p)
  BY <1>1, <1>3, <1>10 DEF Steal!RestoreFails, Steal!Goto, Well, Typed
<1>11. CASE Steal!Discard(p)
  BY <1>1, <1>3, <1>11 DEF Steal!Discard, Steal!Goto, Well, Typed
<1> QED
  BY <1>1, <1>4, <1>5, <1>6, <1>7, <1>8, <1>9, <1>10, <1>11 DEF Steal!StealStep

LEMMA WellRetry ==
  ASSUME Well, NEW p \in Procs, GiveUp(p) \/ Sleep(p) \/ WakeUp(p)
  PROVE  Well'
<1>1. CASE GiveUp(p)
  BY <1>1 DEF Well, Typed, Claimed, GiveUp, EndCall, beatVars, Places
<1>2. CASE Sleep(p)
  BY <1>2 DEF Well, Typed, Claimed, Sleep, Goto, beatVars, Places
<1>3. CASE WakeUp(p)
  BY <1>3 DEF Well, Typed, Claimed, WakeUp, Goto, callVars, fsVars, beatVars, Places
<1> QED
  BY <1>1, <1>2, <1>3

LEMMA WellFinish ==
  ASSUME Well, NEW p \in Procs, FinishWork(p)
  PROVE  Well'
<1>1. lateBeats' \subseteq OwnerRecord
  BY DEF Well, Typed, Claimed, FinishWork
<1>2. CASE Fenced(p)
  BY <1>1, <1>2 DEF Well, Typed, Claimed, FinishWork, EndCall, fsVars, Places
<1>3. CASE ~Fenced(p)
  BY <1>1, <1>3 DEF Well, Typed, Claimed, FinishWork, Goto, fsVars, callVars, Places
<1> QED
  BY <1>2, <1>3

LEMMA WellRelease ==
  ASSUME Well, NEW p \in Procs, ReleaseRead(p) \/ ReleaseRemove(p)
  PROVE  Well'
<1>1. CASE ReleaseRead(p) /\ Goto(p, "remove") /\ UNCHANGED callVars
  BY <1>1 DEF Well, Typed, Claimed, ReleaseRead, Goto, callVars, fsVars, beatVars, Places
<1>2. CASE ReleaseRead(p) /\ EndCall(p)
  BY <1>2 DEF Well, Typed, Claimed, ReleaseRead, EndCall, fsVars, beatVars, Places
<1>3. CASE ReleaseRemove(p)
  BY <1>3 DEF Well, Typed, Claimed, ReleaseRemove, EndCall, beatVars, Places
<1> QED
  BY <1>1, <1>2, <1>3 DEF ReleaseRead

LEMMA WellBeat ==
  ASSUME Well, NEW p \in Procs, Beat(p)
  PROVE  Well'
<1>1. ASSUME BeatRead(p)
      PROVE  Well'
  <2>1. pc[p] = "work" /\ claim[p] \in OwnerRecord /\ now + HeartbeatIntervalMs \in Nat
    BY <1>1, Interval DEF BeatRead, Well, Typed, Claimed
  <2>2. [claim[p] EXCEPT !.created_at = now] \in OwnerRecord
    BY <2>1 DEF Well, Typed, OwnerRecord
  <2> QED
    BY <1>1, <2>1, <2>2 DEF Well, Typed, Claimed, BeatRead, fsVars, callVars
<1>2. ASSUME BeatWrite(p)
      PROVE  Well'
  <2>1. beatRec[p] \in OwnerRecord /\ [owner |-> beatRec[p], mtime |-> now] \in Lock
    BY <1>2, MadeDir DEF BeatWrite, Well, Typed, Claimed
  <2> QED
    BY <1>2, <2>1 DEF Well, Typed, Claimed, BeatWrite
<1>3. ASSUME BeatWriteFails(p)
      PROVE  Well'
  BY <1>3 DEF Well, Typed, Claimed, BeatWriteFails, fsVars, callVars
<1> QED
  BY <1>1, <1>2, <1>3 DEF Beat

LEMMA WellElse ==
  ASSUME Well, LateBeatWrite \/ Tick \/ (\E p \in Procs : Crash(p)) \/ UNCHANGED vars
  PROVE  Well'
<1>1. ASSUME LateBeatWrite
      PROVE  Well'
  <2>1. PICK rec \in lateBeats : lockDir' = [owner |-> rec, mtime |-> now] /\ lateBeats' = lateBeats \ {rec}
    BY <1>1 DEF LateBeatWrite
  <2>2. lockDir' \in Lock
    BY <2>1, MadeDir DEF Well, Typed
  <2> QED
    BY <1>1, <2>1, <2>2 DEF Well, Typed, Claimed, LateBeatWrite, callVars
<1>2. ASSUME Tick
      PROVE  Well'
  BY <1>2 DEF Well, Typed, Claimed, Tick, fsVars, callVars, beatVars
<1>3. ASSUME NEW p \in Procs, Crash(p)
      PROVE  Well'
  BY <1>3 DEF Well, Typed, Claimed, Crash, Goto, fsVars, callVars, Places
<1>4. ASSUME UNCHANGED vars
      PROVE  Well'
  BY <1>4 DEF Well, Typed, Claimed, vars, fsVars, callVars, beatVars
<1> QED
  BY <1>1, <1>2, <1>3, <1>4

LEMMA WellStep == Well /\ [Next]_vars => Well'
<1> SUFFICES ASSUME Well, [Next]_vars
             PROVE  Well'
  OBVIOUS
<1>1. ASSUME NEW p \in Procs, Step(p)
      PROVE  Well'
  BY <1>1, WellCreate, WellWrite, WellWriteFails, WellConfirm, WellReadHolder, WellSteal,
     WellRetry, WellFinish, WellRelease DEF Step
<1> QED
  BY <1>1, WellCall, WellBeat, WellElse DEF Next

LEMMA WellTyped == Well => TypeOK
BY DEF Well, Typed, TypeOK, Places, Lock

\* Locks and records keep to their types through takeovers, restored locks, late
\* heartbeats, failing reads and writes and deaths (withOwnedLock and all it calls).
THEOREM TypeCorrect == Spec => []TypeOK
BY WellInit, WellStep, WellTyped, PTL DEF Spec
-----------------------------------------------------------------------------
(* Undisturbed operation.                                                   *)

\* Nothing was left behind, nobody dies, reads and writes succeed, holds have a
\* heartbeat, and the beat and the pauses around it fit in the stale limit.
Undisturbed ==
    /\ Leftovers = {NoDir} /\ Beating = Procs /\ MaxCrashes = 0
    /\ ~WriteErrors /\ ~ReadErrors /\ ~LateBeats
    /\ HeartbeatIntervalMs + 6 * MaxPause < StaleMs

Hold == {"write", "confirm", "work", "relread", "remove"}

Holding(p) == pc[p] \in Hold

\* Nobody gets as far as renaming a lock away.
PlaceInv(p) ==
    /\ pc[p] \notin {"rename", "inspect", "lookback", "restore", "discard", "dead"}
    /\ beat[p] # "off" <=> pc[p] = "work"
    /\ ~Holding(p) => ourClaims[p] = {}

\* The lock of a holder stands at the lock path, with its record once that is written.
HeldInv(p) ==
    Holding(p) =>
        /\ claim[p] \in OwnerRecord /\ lockDir \in Lock
        /\ lockDir.mtime >= claim[p].created_at
        /\ lockDir.owner = IF pc[p] = "write" THEN NoOwner ELSE claim[p]
        /\ \A q \in Procs : Holding(q) => q = p

\* The clock has not run past what the steps since the last beat may take.
YoungInv(p) ==
    LET born == claim[p].created_at
        sent == beatRec[p].created_at
        H == HeartbeatIntervalMs
    IN
    /\ pc[p] \in Hold => born =< now
    /\ pc[p] \in {"write", "confirm", "relread", "remove", "identify"} =>
           stepAt[p] =< now /\ now =< stepAt[p] + MaxPause
    /\ pc[p] = "write" => stepAt[p] = born
    /\ pc[p] = "confirm" => stepAt[p] =< born + MaxPause
    /\ beat[p] = "armed" => beatDue[p] =< born + H + 2 * MaxPause /\ now =< beatDue[p] + MaxPause
    /\ beat[p] = "writing" =>
           /\ born =< sent /\ sent =< born + H + 3 * MaxPause
           /\ sent =< now /\ now =< sent + MaxPause /\ beatDue[p] = sent + H
    /\ pc[p] = "relread" => stepAt[p] =< born + H + 3 * MaxPause
    /\ pc[p] = "remove" => stepAt[p] =< born + H + 4 * MaxPause
    /\ pc[p] = "identify" => seenMtime[p] >= stepAt[p] - (H + 5 * MaxPause)

Healthy ==
    /\ Well
    /\ \A p \in Procs : PlaceInv(p) /\ HeldInv(p) /\ YoungInv(p)
    /\ lockDir # NoDir => \E p \in Procs : Holding(p)
    /\ lateBeats = {}

LEMMA HealthyInit == Undisturbed /\ Init => Healthy
BY WellInit DEF Undisturbed, Init, Healthy, PlaceInv, HeldInv, YoungInv, Holding, Hold

\* What the timing gives, with the interval taken as a number.
LEMMA Timing ==
  ASSUME Undisturbed
  PROVE  /\ HeartbeatIntervalMs \in Nat /\ MaxPause \in Nat /\ StaleMs \in Nat /\ MarginMs \in Nat
         /\ HeartbeatIntervalMs + 6 * MaxPause < StaleMs
         /\ HeartbeatIntervalMs + 3 * MaxPause + MarginMs < StaleMs
<1>1. /\ MaxPause \in Nat /\ StaleMs \in Nat \ {0} /\ HeartbeatIntervalMs + 6 * MaxPause < StaleMs
  BY LockTiming DEF Undisturbed
<1>2. HeartbeatIntervalMs \in Nat \ {0} /\ MarginMs \in Nat
  BY Interval
<1>3. 4 * MarginMs =< StaleMs
  BY <1>1 DEF MarginMs
<1>4. HeartbeatIntervalMs = 1 \/ 3 * HeartbeatIntervalMs =< StaleMs
  BY <1>1 DEF HeartbeatIntervalMs
<1>5. 2 * HeartbeatIntervalMs =< StaleMs
  BY <1>1, <1>2, <1>4
<1> QED
  BY <1>1, <1>2, <1>3, <1>5

LEMMA HolderIsTyped ==
  ASSUME Healthy, NEW p \in Procs, Holding(p)
  PROVE  /\ claim[p] \in OwnerRecord /\ claim[p] # NoOwner /\ claim[p].created_at \in Int
         /\ lockDir \in Lock /\ lockDir # NoDir /\ lockDir.mtime \in Int
BY LockValues DEF Healthy, HeldInv, OwnerRecord, Lock

\* A holder's record is younger than a heartbeat and five pauses.
LEMMA HolderIsYoung ==
  ASSUME Undisturbed, Healthy, NEW p \in Procs, Holding(p)
  PROVE  now =< claim[p].created_at + HeartbeatIntervalMs + 5 * MaxPause
<1>1. /\ now \in Nat /\ stepAt[p] \in Nat /\ beatDue[p] \in Nat /\ beat[p] \in {"off", "armed", "writing"}
      /\ beat[p] = "writing" => beatRec[p] \in OwnerRecord
  BY DEF Healthy, Well, Typed, Claimed
<1>2. ASSUME beat[p] = "writing"
      PROVE  beatRec[p].created_at \in Int
  <2>1. beatRec[p] \in OwnerRecord
    BY <1>1, <1>2
  <2> QED
    BY <2>1 DEF OwnerRecord
<1>3. claim[p].created_at \in Int /\ PlaceInv(p) /\ YoungInv(p)
  BY HolderIsTyped DEF Healthy
<1> QED
  BY <1>1, <1>2, <1>3, Timing DEF PlaceInv, YoungInv, Holding, Hold

\* A step of p that leaves the others alone, and moves the lock only with its holder.
LEMMA Frame ==
  ASSUME Healthy, NEW p \in Procs, Well', UNCHANGED <<now, lateBeats>>,
         \A q \in Procs \ {p} :
           /\ pc'[q] = pc[q] /\ claim'[q] = claim[q] /\ ourClaims'[q] = ourClaims[q]
           /\ stepAt'[q] = stepAt[q] /\ seenMtime'[q] = seenMtime[q]
           /\ beat'[q] = beat[q] /\ beatDue'[q] = beatDue[q] /\ beatRec'[q] = beatRec[q],
         PlaceInv(p)', YoungInv(p)',
         Holding(p)' => /\ claim'[p] \in OwnerRecord /\ lockDir' \in Lock
                        /\ lockDir'.mtime >= claim'[p].created_at
                        /\ lockDir'.owner = IF pc'[p] = "write" THEN NoOwner ELSE claim'[p],
         \/ lockDir' = lockDir /\ (Holding(p)' <=> Holding(p))
         \/ Holding(p) /\ Holding(p)'
         \/ lockDir = NoDir /\ Holding(p)'
         \/ Holding(p) /\ ~Holding(p)' /\ lockDir' = NoDir
  PROVE  Healthy'
<1>1. \A q \in Procs \ {p} : /\ PlaceInv(q)' /\ YoungInv(q)' /\ (Holding(q)' <=> Holding(q))
  BY DEF Healthy, PlaceInv, YoungInv, Holding
<1>2. \A q \in Procs : Holding(q) => lockDir \in Lock /\ lockDir # NoDir /\ \A r \in Procs : Holding(r) => r = q
  BY LockValues DEF Healthy, HeldInv
<1>3. \A q \in Procs \ {p} : HeldInv(q)'
  BY <1>1, <1>2 DEF Healthy, HeldInv, Holding
<1>4. HeldInv(p)'
  BY <1>1, <1>2 DEF HeldInv
<1>5. lockDir' # NoDir => \E q \in Procs : Holding(q)'
  BY <1>1 DEF Healthy
<1> QED
  BY <1>1, <1>3, <1>4, <1>5 DEF Healthy

\* Every step keeps the invariant; those that cannot happen are excluded first.
LEMMA HealthyCall ==
  ASSUME Healthy, NEW p \in Procs, Call(p) \/ WakeUp(p) \/ Sleep(p) \/ GiveUp(p)
  PROVE  Healthy'
<1>1. Well'
  BY WellCall, WellRetry DEF Healthy
<1>2. /\ UNCHANGED <<now, lockDir, beatVars>> /\ pc[p] \in {"idle", "wait", "retry"}
      /\ \A q \in Procs \ {p} :
           /\ pc'[q] = pc[q] /\ claim'[q] = claim[q] /\ ourClaims'[q] = ourClaims[q]
           /\ stepAt'[q] = stepAt[q] /\ seenMtime'[q] = seenMtime[q]
      /\ pc'[p] \in {"idle", "mkdir", "wait"} /\ ourClaims'[p] \in {{}, ourClaims[p]}
  BY DEF Healthy, Well, Typed, Call, WakeUp, Sleep, GiveUp, Goto, EndCall, callVars, fsVars
<1>3. PlaceInv(p) /\ ~Holding(p) /\ beat[p] = "off"
  BY <1>2 DEF Healthy, PlaceInv, Holding, Hold
<1>4. PlaceInv(p)' /\ YoungInv(p)' /\ ~Holding(p)'
  BY <1>2, <1>3 DEF PlaceInv, YoungInv, Holding, Hold, beatVars
<1> QED
  BY <1>1, <1>2, <1>3, <1>4, Frame DEF beatVars

LEMMA HealthyCreate ==
  ASSUME Undisturbed, Healthy, NEW p \in Procs, CreateLockDirectory(p)
  PROVE  Healthy'
<1>1. Well'
  BY WellCreate DEF Healthy
<1>2. /\ UNCHANGED <<now, seenMtime, beatVars>> /\ pc[p] = "mkdir"
      /\ \A q \in Procs \ {p} :
           /\ pc'[q] = pc[q] /\ claim'[q] = claim[q] /\ ourClaims'[q] = ourClaims[q]
           /\ stepAt'[q] = stepAt[q]
  BY DEF Healthy, Well, Typed, CreateLockDirectory, Goto
<1>3. PlaceInv(p) /\ ~Holding(p) /\ beat[p] = "off" /\ ourClaims[p] = {} /\ now \in Nat
  BY <1>2 DEF Healthy, PlaceInv, Holding, Hold, Well, Typed
<1>4. CASE lockDir = NoDir
  <2> DEFINE record == [id |-> <<p, nextId[p]>>, created_at |-> now]
             dir == [owner |-> NoOwner, mtime |-> now]
  <2>1. /\ lockDir' = dir /\ claim'[p] = record /\ pc'[p] = "write" /\ stepAt'[p] = now
    BY <1>4 DEF CreateLockDirectory, Goto, Healthy, Well, Typed
  <2>2. record \in OwnerRecord /\ record.created_at = now
    BY <1>3, OwnId, Made DEF Healthy, Well
  <2>3. dir \in Lock /\ dir.mtime = now /\ dir.owner = NoOwner
    BY <1>3, MadeDir
  <2> HIDE DEF record, dir
  <2>4. PlaceInv(p)' /\ YoungInv(p)' /\ Holding(p)'
    BY <1>2, <1>3, <2>1, <2>2, Timing DEF PlaceInv, YoungInv, Holding, Hold, beatVars
  <2> QED
    BY <1>1, <1>2, <1>3, <1>4, <2>1, <2>2, <2>3, <2>4, Frame DEF beatVars
<1>5. CASE lockDir # NoDir
  <2>1. UNCHANGED <<lockDir, claim, ourClaims>> /\ pc'[p] = "readowner"
    BY <1>5 DEF CreateLockDirectory, Goto, Healthy, Well, Typed
  <2>2. PlaceInv(p)' /\ YoungInv(p)' /\ ~Holding(p)'
    BY <1>2, <1>3, <2>1 DEF PlaceInv, YoungInv, Holding, Hold, beatVars
  <2> QED
    BY <1>1, <1>2, <1>3, <2>1, <2>2, Frame DEF beatVars
<1> QED
  BY <1>4, <1>5

LEMMA HealthyWrite ==
  ASSUME Undisturbed, Healthy, NEW p \in Procs, WriteOwner(p)
  PROVE  Healthy'
<1>1. Well'
  BY WellWrite DEF Healthy
<1> DEFINE dir == [owner |-> claim[p], mtime |-> now]
<1>2. /\ UNCHANGED <<now, seenMtime, claim, ourClaims, beatVars>> /\ pc[p] = "write"
      /\ \A q \in Procs \ {p} : pc'[q] = pc[q] /\ stepAt'[q] = stepAt[q]
      /\ pc'[p] = "confirm" /\ stepAt'[p] = now /\ lockDir' = dir
  BY DEF Healthy, Well, Typed, WriteOwner, Goto, callVars
<1>3. /\ PlaceInv(p) /\ YoungInv(p) /\ Holding(p) /\ beat[p] = "off" /\ now \in Nat /\ stepAt[p] \in Nat
  BY <1>2 DEF Healthy, PlaceInv, Holding, Hold, Well, Typed
<1>4. /\ dir \in Lock /\ dir.mtime = now /\ dir.owner = claim[p]
      /\ claim[p] \in OwnerRecord /\ claim[p].created_at \in Int
  BY <1>3, HolderIsTyped, MadeDir
<1> HIDE DEF dir
<1>5. PlaceInv(p)' /\ YoungInv(p)' /\ Holding(p)' /\ now >= claim[p].created_at
  BY <1>2, <1>3, <1>4, Timing DEF PlaceInv, YoungInv, Holding, Hold, beatVars
<1> QED
  BY <1>1, <1>2, <1>3, <1>4, <1>5, Frame DEF beatVars

\* A holder that reads its record back finds it.
LEMMA ReadsTrue ==
  ASSUME Undisturbed, Healthy, NEW p \in Procs, Holding(p), pc[p] # "write",
         NEW current \in Readings(lockDir)
  PROVE  IsOurs(p, current)
<1>1. Readings(lockDir) = {OwnerAt(lockDir)}
  BY DEF Undisturbed, Readings
<1>2. lockDir.owner = claim[p] /\ lockDir # NoDir /\ claim[p] # NoOwner
  BY HolderIsTyped DEF Healthy, HeldInv
<1> QED
  BY <1>1, <1>2 DEF OwnerAt, IsOurs

LEMMA HealthyConfirm ==
  ASSUME Undisturbed, Healthy, NEW p \in Procs, ConfirmOwner(p)
  PROVE  Healthy'
<1>1. Well'
  BY WellConfirm DEF Healthy
<1>2. pc[p] = "confirm" /\ Holding(p)
  BY DEF ConfirmOwner, Holding, Hold
<1>3. StartWork(p) /\ UNCHANGED <<now, fsVars, callVars>>
  BY <1>2, ReadsTrue DEF ConfirmOwner
<1>4. /\ UNCHANGED <<now, lockDir, seenMtime, claim, ourClaims, beatRec, lateBeats>>
      /\ \A q \in Procs \ {p} : /\ pc'[q] = pc[q] /\ stepAt'[q] = stepAt[q]
                                /\ beat'[q] = beat[q] /\ beatDue'[q] = beatDue[q]
      /\ pc'[p] = "work" /\ beat'[p] = "armed" /\ beatDue'[p] = now + HeartbeatIntervalMs
  BY <1>3 DEF Healthy, Well, Typed, StartWork, Goto, callVars, fsVars, Undisturbed
<1>5. /\ YoungInv(p) /\ PlaceInv(p) /\ now \in Nat /\ stepAt[p] \in Nat /\ claim[p].created_at \in Int
      /\ HeldInv(p)
  BY <1>2, HolderIsTyped DEF Healthy, Well, Typed
<1>6. PlaceInv(p)' /\ YoungInv(p)' /\ Holding(p)'
  BY <1>2, <1>4, <1>5, Timing DEF PlaceInv, YoungInv, Holding, Hold
<1> QED
  BY <1>1, <1>2, <1>4, <1>5, <1>6, Frame DEF HeldInv

LEMMA HealthyReadHolder ==
  ASSUME Undisturbed, Healthy, NEW p \in Procs, ReadHolder(p)
  PROVE  Healthy'
<1>1. Well'
  BY WellReadHolder DEF Healthy
<1>2. pc[p] = "readowner" /\ ~Holding(p) /\ ourClaims[p] = {} /\ PlaceInv(p)
  BY DEF ReadHolder, Holding, Hold, Healthy, PlaceInv
<1>3. Goto(p, "stat") /\ UNCHANGED <<now, fsVars, ourClaims, claim, beatVars>>
  BY <1>2 DEF ReadHolder
<1>4. /\ pc'[p] = "stat" /\ \A q \in Procs \ {p} : pc'[q] = pc[q] /\ stepAt'[q] = stepAt[q]
  BY <1>3 DEF Goto, Healthy, Well, Typed
<1>5. PlaceInv(p)' /\ YoungInv(p)' /\ ~Holding(p)'
  BY <1>2, <1>3, <1>4 DEF PlaceInv, YoungInv, Holding, Hold, beatVars
<1> QED
  BY <1>1, <1>2, <1>3, <1>4, <1>5, Frame DEF beatVars, fsVars

LEMMA HealthySteal ==
  ASSUME Undisturbed, Healthy, NEW p \in Procs, StealStale(p)
  PROVE  Healthy'
<1>1. Well'
  BY WellSteal DEF Healthy
<1>2. /\ UNCHANGED <<now, claim, ourClaims, beatVars>> /\ Steal!StealStep(p) /\ stepAt'[p] = now
      /\ \A q \in Procs \ {p} : stepAt'[q] = stepAt[q]
  BY DEF StealStale, callVars, Healthy, Well, Typed
<1>3. PlaceInv(p) /\ YoungInv(p) /\ now \in Nat /\ seenMtime[p] \in Int /\ stepAt[p] \in Nat
  BY DEF Healthy, Well, Typed
<1>4. CASE Steal!Stat(p)
  <2>1. pc[p] = "stat" /\ ~Holding(p) /\ beat[p] = "off" /\ UNCHANGED lockDir
    BY <1>3, <1>4 DEF Steal!Stat, PlaceInv, Holding, Hold
  <2>2. \A q \in Procs \ {p} : pc'[q] = pc[q] /\ seenMtime'[q] = seenMtime[q]
    BY <1>4 DEF Steal!Stat, Steal!Goto, Healthy, Well, Typed
  <2>3. CASE lockDir = NoDir
    <3>1. pc'[p] = "retry"
      BY <1>4, <2>3 DEF Steal!Stat, Steal!Goto, Healthy, Well, Typed
    <3>2. PlaceInv(p)' /\ YoungInv(p)' /\ ~Holding(p)'
      BY <1>2, <1>3, <2>1, <3>1 DEF PlaceInv, YoungInv, Holding, Hold, beatVars
    <3> QED
      BY <1>1, <1>2, <2>1, <2>2, <3>2, Frame DEF beatVars
  <2>4. CASE lockDir # NoDir
    <3>1. pc'[p] = "identify" /\ seenMtime'[p] = lockDir.mtime
      BY <1>4, <2>4 DEF Steal!Stat, Steal!Goto, Healthy, Well, Typed
    <3>2. PICK h \in Procs : Holding(h)
      BY <2>4 DEF Healthy
    <3>3. lockDir.mtime >= now - (HeartbeatIntervalMs + 5 * MaxPause)
      BY <1>3, <3>2, HolderIsYoung, HolderIsTyped, Timing DEF Healthy, HeldInv
    <3>4. PlaceInv(p)' /\ YoungInv(p)' /\ ~Holding(p)'
      BY <1>2, <1>3, <2>1, <3>1, <3>3, Timing DEF PlaceInv, YoungInv, Holding, Hold, beatVars
    <3> QED
      BY <1>1, <1>2, <2>1, <2>2, <3>4, Frame DEF beatVars
  <2> QED
    BY <2>3, <2>4
<1>5. CASE Steal!Identify(p)
  <2>1. pc[p] = "identify" /\ ~Holding(p) /\ beat[p] = "off" /\ UNCHANGED <<lockDir, seenMtime>>
    BY <1>3, <1>5 DEF Steal!Identify, PlaceInv, Holding, Hold
  <2>2. PICK owner \in Readings(lockDir) :
          Steal!Goto(p, IF IsStaleOwner(owner, seenMtime[p], now) THEN "rename" ELSE "retry")
    BY <1>5 DEF Steal!Identify
  <2>3. owner = OwnerAt(lockDir)
    BY <2>2 DEF Undisturbed, Readings
  <2>4. ~IsStaleOwner(owner, seenMtime[p], now)
    <3>1. CASE owner = NoOwner
      BY <1>3, <2>1, <3>1, Timing DEF IsStaleOwner, YoungInv
    <3>2. CASE owner # NoOwner
      <4>1. PICK h \in Procs : Holding(h)
        BY <2>3, <3>2 DEF OwnerAt, Healthy
      <4>2. owner = claim[h]
        BY <2>3, <3>2, <4>1, HolderIsTyped DEF OwnerAt, Healthy, HeldInv
      <4> QED
        BY <1>3, <3>2, <4>1, <4>2, HolderIsYoung, HolderIsTyped, Timing DEF IsStaleOwner
    <3> QED
      BY <3>1, <3>2
  <2>5. pc'[p] = "retry" /\ \A q \in Procs \ {p} : pc'[q] = pc[q]
    BY <2>2, <2>4 DEF Steal!Goto, Healthy, Well, Typed
  <2>6. PlaceInv(p)' /\ YoungInv(p)' /\ ~Holding(p)'
    BY <1>2, <1>3, <2>1, <2>5 DEF PlaceInv, YoungInv, Holding, Hold, beatVars
  <2> QED
    BY <1>1, <1>2, <2>1, <2>5, <2>6, Frame DEF beatVars
<1> QED
  BY <1>2, <1>3, <1>4, <1>5 DEF Steal!StealStep, Steal!RenameAway, Steal!Inspect, Steal!LookBack,
     Steal!RestoreSucceeds, Steal!RestoreFails, Steal!Discard, PlaceInv

LEMMA HealthyFinish ==
  ASSUME Undisturbed, Healthy, NEW p \in Procs, FinishWork(p)
  PROVE  Healthy'
<1>1. Well'
  BY WellFinish DEF Healthy
<1>2. /\ pc[p] = "work" /\ Holding(p) /\ beat[p] = "armed"
      /\ PlaceInv(p) /\ YoungInv(p) /\ HeldInv(p)
  BY DEF FinishWork, Undisturbed, Healthy, PlaceInv, Holding, Hold, Well, Typed
<1>3. /\ now \in Nat /\ beatDue[p] \in Nat /\ claim[p].created_at \in Int
  BY <1>2, HolderIsTyped DEF Healthy, Well, Typed
<1>4. ~Fenced(p) /\ now =< claim[p].created_at + HeartbeatIntervalMs + 3 * MaxPause
  BY <1>2, <1>3, Timing DEF Fenced, YoungInv
<1>5. /\ Goto(p, "relread") /\ UNCHANGED <<now, fsVars, callVars, lateBeats>>
      /\ beat' = [beat EXCEPT ![p] = "off"] /\ beatDue' = [beatDue EXCEPT ![p] = 0]
      /\ beatRec' = [beatRec EXCEPT ![p] = NoOwner]
  BY <1>2, <1>4 DEF FinishWork
<1>6. /\ pc'[p] = "relread" /\ stepAt'[p] = now /\ beat'[p] = "off"
      /\ UNCHANGED <<lockDir, claim, ourClaims, seenMtime>>
      /\ \A q \in Procs \ {p} :
           /\ pc'[q] = pc[q] /\ stepAt'[q] = stepAt[q]
           /\ beat'[q] = beat[q] /\ beatDue'[q] = beatDue[q] /\ beatRec'[q] = beatRec[q]
  BY <1>5 DEF Goto, Healthy, Well, Typed, fsVars, callVars
<1>7. PlaceInv(p)' /\ YoungInv(p)' /\ Holding(p)'
  BY <1>2, <1>3, <1>4, <1>5, <1>6, Timing DEF PlaceInv, YoungInv, Holding, Hold
<1> QED
  BY <1>1, <1>2, <1>5, <1>6, <1>7, Frame DEF HeldInv

LEMMA HealthyRelease ==
  ASSUME Undisturbed, Healthy, NEW p \in Procs, ReleaseRead(p)
  PROVE  Healthy'
<1>1. Well'
  BY WellRelease DEF Healthy
<1>2. pc[p] = "relread" /\ Holding(p) /\ PlaceInv(p) /\ YoungInv(p) /\ HeldInv(p)
  BY DEF ReleaseRead, Healthy, Holding, Hold
<1>3. now \in Nat /\ stepAt[p] \in Nat /\ claim[p].created_at \in Int
  BY <1>2, HolderIsTyped DEF Healthy, Well, Typed
<1>4. Goto(p, "remove") /\ UNCHANGED <<now, fsVars, callVars, beatVars>>
  BY <1>2, ReadsTrue DEF ReleaseRead
<1>5. /\ pc'[p] = "remove" /\ stepAt'[p] = now
      /\ UNCHANGED <<lockDir, claim, ourClaims, seenMtime, beat, beatDue, beatRec, lateBeats>>
      /\ \A q \in Procs \ {p} : pc'[q] = pc[q] /\ stepAt'[q] = stepAt[q]
  BY <1>4 DEF Goto, Healthy, Well, Typed, fsVars, callVars, beatVars
<1>6. PlaceInv(p)' /\ YoungInv(p)' /\ Holding(p)'
  BY <1>2, <1>3, <1>4, <1>5, Timing DEF PlaceInv, YoungInv, Holding, Hold
<1> QED
  BY <1>1, <1>2, <1>4, <1>5, <1>6, Frame DEF HeldInv

LEMMA HealthyRemove ==
  ASSUME Undisturbed, Healthy, NEW p \in Procs, ReleaseRemove(p)
  PROVE  Healthy'
<1>1. Well'
  BY WellRelease DEF Healthy
<1>2. pc[p] = "remove" /\ Holding(p) /\ PlaceInv(p) /\ beat[p] = "off"
  BY DEF ReleaseRemove, Healthy, Holding, Hold, PlaceInv
<1>3. /\ pc'[p] = "idle" /\ ourClaims'[p] = {} /\ lockDir' = NoDir
      /\ UNCHANGED <<now, seenMtime, beat, beatDue, beatRec, lateBeats>>
      /\ \A q \in Procs \ {p} : /\ pc'[q] = pc[q] /\ stepAt'[q] = stepAt[q]
                                /\ claim'[q] = claim[q] /\ ourClaims'[q] = ourClaims[q]
  BY DEF ReleaseRemove, EndCall, Healthy, Well, Typed, beatVars
<1>4. PlaceInv(p)' /\ YoungInv(p)' /\ ~Holding(p)'
  BY <1>2, <1>3 DEF PlaceInv, YoungInv, Holding, Hold
<1> QED
  BY <1>1, <1>2, <1>3, <1>4, Frame

LEMMA HealthyBeatRead ==
  ASSUME Undisturbed, Healthy, NEW p \in Procs, BeatRead(p)
  PROVE  Healthy'
<1>1. Well'
  BY WellBeat DEF Healthy, Beat
<1>2. /\ pc[p] = "work" /\ beat[p] = "armed" /\ now >= beatDue[p]
      /\ Holding(p) /\ PlaceInv(p) /\ YoungInv(p) /\ HeldInv(p)
  BY DEF BeatRead, Healthy, Holding, Hold, PlaceInv
<1>3. /\ now \in Nat /\ beatDue[p] \in Nat /\ claim[p] \in OwnerRecord /\ claim[p].created_at \in Int
  BY <1>2, HolderIsTyped DEF Healthy, Well, Typed
<1> DEFINE record == [claim[p] EXCEPT !.created_at = now]
<1>4. record.created_at = now
  BY <1>3 DEF OwnerRecord
<1>5. /\ beat' = [beat EXCEPT ![p] = "writing"] /\ beatRec' = [beatRec EXCEPT ![p] = record]
      /\ beatDue' = [beatDue EXCEPT ![p] = now + HeartbeatIntervalMs]
      /\ UNCHANGED <<now, fsVars, pc, stepAt, callVars, lateBeats>>
  BY <1>2, ReadsTrue DEF BeatRead
<1> HIDE DEF record
<1>6. /\ beat'[p] = "writing" /\ beatRec'[p] = record /\ beatDue'[p] = now + HeartbeatIntervalMs
      /\ UNCHANGED <<lockDir, claim, ourClaims, seenMtime, pc, stepAt>>
      /\ \A q \in Procs \ {p} : beat'[q] = beat[q] /\ beatDue'[q] = beatDue[q] /\ beatRec'[q] = beatRec[q]
  BY <1>5 DEF Healthy, Well, Typed, fsVars, callVars
<1>7. beatDue[p] =< claim[p].created_at + HeartbeatIntervalMs + 2 * MaxPause /\ now =< beatDue[p] + MaxPause
  BY <1>2 DEF YoungInv
<1>8. claim[p].created_at =< now
  BY <1>2 DEF YoungInv, Holding
<1>9. PlaceInv(p)' /\ YoungInv(p)' /\ Holding(p)'
  BY <1>2, <1>3, <1>4, <1>5, <1>6, <1>7, <1>8, Timing DEF PlaceInv, YoungInv, Holding, Hold
<1> QED
  BY <1>1, <1>2, <1>5, <1>6, <1>9, Frame DEF HeldInv

LEMMA HealthyBeatWrite ==
  ASSUME Undisturbed, Healthy, NEW p \in Procs, BeatWrite(p)
  PROVE  Healthy'
<1>1. Well'
  BY WellBeat DEF Healthy, Beat
<1>2. /\ pc[p] = "work" /\ beat[p] = "writing" /\ beatRec[p] \in OwnerRecord
      /\ Holding(p) /\ PlaceInv(p) /\ YoungInv(p) /\ HeldInv(p)
  BY DEF BeatWrite, Healthy, Holding, Hold, PlaceInv, Well, Claimed
<1>3. /\ now \in Nat /\ beatDue[p] \in Nat /\ beatRec[p].created_at \in Int /\ beatRec[p] # NoOwner
  BY <1>2, LockValues DEF Healthy, Well, Typed, OwnerRecord
<1> DEFINE dir == [owner |-> beatRec[p], mtime |-> now]
<1>4. dir \in Lock /\ dir.mtime = now /\ dir.owner = beatRec[p]
  BY <1>2, <1>3, MadeDir
<1>5. /\ lockDir' = dir /\ claim'[p] = beatRec[p] /\ beat'[p] = "armed"
      /\ UNCHANGED <<now, seenMtime, pc, stepAt, ourClaims, beatDue, lateBeats>>
      /\ \A q \in Procs \ {p} : beat'[q] = beat[q] /\ claim'[q] = claim[q] /\ beatRec'[q] = beatRec[q]
  BY DEF BeatWrite, Healthy, Well, Typed
<1> HIDE DEF dir
<1>6. PlaceInv(p)' /\ YoungInv(p)' /\ Holding(p)' /\ now >= beatRec[p].created_at
  BY <1>2, <1>3, <1>5, Timing DEF PlaceInv, YoungInv, Holding, Hold
<1> QED
  BY <1>1, <1>2, <1>4, <1>5, <1>6, Frame

LEMMA HealthyTick ==
  ASSUME Undisturbed, Healthy, Tick
  PROVE  Healthy'
<1>1. Well'
  BY WellElse DEF Healthy
<1>2. /\ now' = now + 1 /\ now \in Nat
      /\ UNCHANGED <<lockDir, seenMtime, pc, stepAt, claim, ourClaims, beat, beatDue, beatRec, lateBeats>>
  BY DEF Tick, Healthy, Well, Typed, fsVars, callVars, beatVars
<1>3. ASSUME NEW p \in Procs
      PROVE  PlaceInv(p)' /\ HeldInv(p)' /\ YoungInv(p)'
  <2>1. /\ pc[p] \in {"write", "confirm", "relread", "remove", "identify"} => now - stepAt[p] < MaxPause
        /\ beat[p] = "armed" => now - beatDue[p] < MaxPause
        /\ beat[p] = "writing" => now - beatRec[p].created_at < MaxPause
    BY DEF Tick, Protocol
  <2>2. /\ stepAt[p] \in Nat /\ beatDue[p] \in Nat
        /\ beat[p] = "writing" => beatRec[p].created_at \in Int
        /\ pc[p] \in Hold => claim[p].created_at \in Int
    BY HolderIsTyped DEF Healthy, Well, Typed, Claimed, OwnerRecord, Holding
  <2>3. YoungInv(p)'
    BY <1>2, <2>1, <2>2, Timing DEF Healthy, YoungInv
  <2>4. PlaceInv(p)' /\ HeldInv(p)'
    BY <1>2 DEF Healthy, PlaceInv, HeldInv, Holding
  <2> QED
    BY <2>3, <2>4
<1>4. (lockDir # NoDir => \E p \in Procs : Holding(p))'
  BY <1>2 DEF Healthy, Holding
<1> QED
  BY <1>1, <1>2, <1>3, <1>4 DEF Healthy

\* What undisturbed operation leaves out.
LEMMA NobodyDies ==
  ASSUME Undisturbed, Healthy, NEW p \in Procs
  PROVE  ~Crash(p) /\ ~WriteOwnerFails(p) /\ ~BeatWriteFails(p) /\ ~LateBeatWrite
<1>1. {q \in Procs : pc[q] = "dead"} = {}
  BY DEF Healthy, PlaceInv
<1>2. Cardinality({q \in Procs : pc[q] = "dead"}) = 0
  BY <1>1, FS_EmptySet
<1> QED
  BY <1>2 DEF Undisturbed, Healthy, Crash, WriteOwnerFails, BeatWriteFails, LateBeatWrite

LEMMA HealthyStep ==
  ASSUME Undisturbed, Healthy, [Next]_vars
  PROVE  Healthy'
<1>1. ASSUME NEW p \in Procs, Step(p)
      PROVE  Healthy'
  BY <1>1, NobodyDies, HealthyCall, HealthyCreate, HealthyWrite, HealthyConfirm, HealthyReadHolder,
     HealthySteal, HealthyFinish, HealthyRelease, HealthyRemove DEF Step
<1>2. ASSUME NEW p \in Procs, Beat(p)
      PROVE  Healthy'
  BY <1>2, NobodyDies, HealthyBeatRead, HealthyBeatWrite DEF Beat
<1>3. ASSUME LateBeatWrite
      PROVE  FALSE
  BY <1>3 DEF LateBeatWrite, Healthy
<1>4. CASE UNCHANGED vars
  BY <1>4, WellElse DEF Healthy, PlaceInv, HeldInv, YoungInv, Holding, vars, fsVars, callVars, beatVars
<1> QED
  BY <1>1, <1>2, <1>3, <1>4, HealthyCall, HealthyTick, NobodyDies DEF Next

LEMMA HealthyExcludes ==
  ASSUME Healthy
  PROVE  AtMostOneInside
BY DEF Healthy, HeldInv, AtMostOneInside, Inside, Holding, Hold

LEMMA HealthyKeeps ==
  ASSUME Undisturbed, Healthy
  PROVE  HolderKeepsItsLock
<1> SUFFICES ASSUME NEW p \in Procs, Inside(p)
             PROVE  Owns(p, lockDir) /\ ~IsStaleOwner(lockDir.owner, lockDir.mtime, now)
  BY DEF HolderKeepsItsLock
<1>1. Holding(p) /\ lockDir.owner = claim[p] /\ lockDir # NoDir /\ claim[p] # NoOwner
  BY HolderIsTyped DEF Inside, Holding, Hold, Healthy, HeldInv
<1>2. now \in Nat /\ claim[p].created_at \in Int
  BY <1>1, HolderIsTyped DEF Healthy, Well, Typed
<1>3. ~IsStaleOwner(lockDir.owner, lockDir.mtime, now)
  BY <1>1, <1>2, HolderIsYoung, Timing DEF IsStaleOwner
<1> QED
  BY <1>1, <1>3 DEF Owns, IsOurs, OwnerAt

LEMMA HealthyReleases ==
  ASSUME Healthy, NEW p \in Procs, ReleaseRemove(p)
  PROVE  Owns(p, lockDir)
<1>1. Holding(p) /\ lockDir.owner = claim[p] /\ lockDir # NoDir /\ claim[p] # NoOwner
  BY HolderIsTyped DEF ReleaseRemove, Holding, Hold, Healthy, HeldInv
<1> QED
  BY <1>1 DEF Owns, IsOurs, OwnerAt

\* In undisturbed operation the lock at the path belongs to the only process
\* between its mkdir and its removal, and is young (withOwnedLock, startHeartbeat).
THEOREM HealthyAlways == Undisturbed /\ Spec => []Healthy
<1>1. CASE Undisturbed
  BY <1>1, HealthyInit, HealthyStep, PTL DEF Spec
<1> QED
  BY <1>1

\* In undisturbed operation any number of processes exclude each other, for as
\* long as each of them works (withOwnedLock, startHeartbeat).
THEOREM Exclusion == Undisturbed /\ Spec => []AtMostOneInside
BY HealthyAlways, HealthyExcludes, PTL

\* Whoever works inside owns the lock at the path, and the lock never looks stale
\* (isStaleOwner): the heartbeat keeps ahead of the limit.
THEOREM HolderKeeps == Undisturbed /\ Spec => []HolderKeepsItsLock
<1>1. CASE Undisturbed
  <2>1. Healthy => HolderKeepsItsLock
    BY <1>1, HealthyKeeps
  <2> QED
    BY <1>1, <2>1, HealthyAlways, PTL
<1> QED
  BY <1>1

\* A release removes the lock it has read to be its own (releaseOwnedLock), although
\* nothing ties the removal to the reading.
THEOREM ReleaseIsOwn == Undisturbed /\ Spec => ReleaseRemovesOnlyOwn
<1>1. CASE Undisturbed
  <2>1. Healthy /\ [Next]_vars
          => [\A p \in Procs : ReleaseRemove(p) => lockDir = NoDir \/ Owns(p, lockDir)]_vars
    BY HealthyReleases
  <2> QED
    BY <1>1, <2>1, HealthyAlways, PTL DEF Spec, ReleaseRemovesOnlyOwn
<1> QED
  BY <1>1
=============================================================================
