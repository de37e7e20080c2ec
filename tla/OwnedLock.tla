----------------------------- MODULE OwnedLock -----------------------------
(***************************************************************************)
(* The interprocess lock with an ownership token: withOwnedLock,           *)
(* releaseOwnedLock, stealStaleOwnedLock and the heartbeat of              *)
(* src/shared/owned-lock.ts, over the file system operations of            *)
(* src/infrastructure/fs/node-fs-adapter.ts.                               *)
(*                                                                         *)
(* A process creates the lock directory, writes its owner record into it,  *)
(* reads the record back and only then enters.  While it works a heartbeat *)
(* keeps created_at of the record fresh.  It releases only while it is     *)
(* young and the record is still its own.  A directory whose record is old *)
(* is taken over (LockSteal).                                              *)
(*                                                                         *)
(* The clock is an absolute number of units.  A process that is not inside *)
(* its work or asleep, a sleep that is over, and a beat that is due or in  *)
(* flight take their next step within MaxPause units: 0 is a machine that  *)
(* is fast compared with the stale limit, more is one that may suspend a   *)
(* process between two awaits.                                             *)
(***************************************************************************)
EXTENDS Integers, FiniteSets

CONSTANTS
    Procs,       \* the processes that call withOwnedLock
    NoDir, NoOwner,
    Leftovers,   \* what may be at the lock path at the start
    StaleMs,     \* timing.staleMs
    RetryMs,     \* timing.retryMs
    TimeoutMs,   \* timing.timeoutMs
    Beating,     \* the processes whose io has scheduleHeartbeat
    WriteErrors, \* whether the write of an owner record may throw
    ReadErrors,  \* whether the read of an owner record may fail
    MissedBeats, \* bound: beats in a row whose write throws
    LateBeats,   \* whether a hold may end while one of its beats is in flight
    MaxPause,    \* bound: units between two steps of a protocol
    MaxWork,     \* bound: units one work() lasts
    MaxCalls,    \* bound: calls per process
    MaxCrashes,  \* bound: processes that die
    MaxNow       \* bound: the clock

ASSUME LockTiming ==
    /\ {StaleMs, RetryMs, TimeoutMs} \subseteq Nat \ {0}
    /\ {MissedBeats, MaxPause, MaxWork, MaxCalls, MaxCrashes, MaxNow} \subseteq Nat
    /\ {WriteErrors, ReadErrors, LateBeats} \subseteq BOOLEAN
    /\ Beating \subseteq Procs

VARIABLES
    now, lockDir, stolen, pc, seen, seenMtime,  \* see LockSteal
    claim,     \* per process, the owner record it wrote or adopted
    ourClaims, \* per process, the lock ids the current call has written
    deadline,  \* per process, deadlineMs of the current call
    wakeAt,    \* per process, when its sleep(retryMs) ends
    stepAt,    \* per process, when it took its last step
    calls,     \* per process, the calls made
    nextId,    \* per process, the number of its next lock id
    beat,      \* per process, the heartbeat: "off", "armed" or "writing"
    beatDue,   \* per process, when the timer fires next
    beatRec,   \* per process, the record a beat in flight will write
    lateBeats  \* beats in flight whose hold has already ended

callVars == <<claim, ourClaims, deadline, wakeAt, calls, nextId>>
beatVars == <<beat, beatDue, beatRec, lateBeats>>
fsVars   == <<lockDir, stolen, seen, seenMtime>>
vars     == <<now, fsVars, pc, stepAt, callVars, beatVars>>

MarginMs == StaleMs \div 4
HeartbeatIntervalMs == IF StaleMs \div 3 > 1 THEN StaleMs \div 3 ELSE 1

\* The age counts from the record's created_at; the modification time of the
\* directory is the fallback for a record that cannot be read.
IsStaleOwner(owner, mtime, at) ==
    at - (IF owner = NoOwner THEN mtime ELSE owner.created_at) > StaleMs

\* Ownership that is not confirmed is foreign.
IsForeignOwner(observed, taken) ==
    /\ taken # NoOwner
    /\ observed = NoOwner \/ taken.id # observed.id

OwnerAt(dir) == IF dir = NoDir THEN NoOwner ELSE dir.owner

\* Lock ids: those of the processes, and those of the records left behind.
LockId == (Procs \X Nat) \union {OwnerAt(d).id : d \in {l \in Leftovers : OwnerAt(l) # NoOwner}}

OwnerRecord == [id : LockId, created_at : Int]

Lock == [owner : OwnerRecord \union {NoOwner}, mtime : Int]

ASSUME LockValues ==
    /\ Leftovers \subseteq Lock \union {NoDir}
    /\ NoOwner \notin OwnerRecord /\ NoDir \notin Lock

\* readOwner never throws: a record it cannot read is no record.
Readings(dir) == {OwnerAt(dir)} \union IF ReadErrors THEN {NoOwner} ELSE {}

Steal == INSTANCE LockSteal WITH IsStale <- IsStaleOwner, IsForeign <- IsForeignOwner

IsOurs(p, owner) == owner # NoOwner /\ owner.id = claim[p].id

Owns(p, dir) == IsOurs(p, OwnerAt(dir))

----------------------------------------------------------------------------

Init ==
    /\ now = 0
    /\ lockDir \in Leftovers
    /\ stolen = [p \in Procs |-> NoDir]
    /\ pc = [p \in Procs |-> "idle"]
    /\ seen = [p \in Procs |-> NoOwner]
    /\ seenMtime = [p \in Procs |-> 0]
    /\ claim = [p \in Procs |-> NoOwner]
    /\ ourClaims = [p \in Procs |-> {}]
    /\ deadline = [p \in Procs |-> 0]
    /\ wakeAt = [p \in Procs |-> 0]
    /\ stepAt = [p \in Procs |-> 0]
    /\ calls = [p \in Procs |-> 0]
    /\ nextId = [p \in Procs |-> 0]
    /\ beat = [p \in Procs |-> "off"]
    /\ beatDue = [p \in Procs |-> 0]
    /\ beatRec = [p \in Procs |-> NoOwner]
    /\ lateBeats = {}

\* p goes on to `step`, and the clock is noted.
Goto(p, step) ==
    /\ pc' = [pc EXCEPT ![p] = step]
    /\ stepAt' = [stepAt EXCEPT ![p] = now]

\* The call returns or throws: what was local to it is forgotten.
EndCall(p) ==
    /\ pc' = [pc EXCEPT ![p] = "idle"]
    /\ stepAt' = [stepAt EXCEPT ![p] = 0]
    /\ claim' = [claim EXCEPT ![p] = NoOwner]
    /\ ourClaims' = [ourClaims EXCEPT ![p] = {}]
    /\ deadline' = [deadline EXCEPT ![p] = 0]
    /\ UNCHANGED <<wakeAt, calls, nextId>>

\* holdAndWork: the heartbeat starts with the work.
StartWork(p) ==
    /\ Goto(p, "work")
    /\ IF p \in Beating
         THEN /\ beat' = [beat EXCEPT ![p] = "armed"]
              /\ beatDue' = [beatDue EXCEPT ![p] = now + HeartbeatIntervalMs]
         ELSE UNCHANGED <<beat, beatDue>>
    /\ UNCHANGED <<beatRec, lateBeats>>

----------------------------------------------------------------------------
(* withOwnedLock                                                           *)

Call(p) ==
    /\ pc[p] = "idle"
    /\ calls[p] < MaxCalls
    /\ now + TimeoutMs + RetryMs =< MaxNow
    /\ Goto(p, "mkdir")
    /\ calls' = [calls EXCEPT ![p] = @ + 1]
    /\ deadline' = [deadline EXCEPT ![p] = now + TimeoutMs]
    /\ UNCHANGED <<now, fsVars, claim, ourClaims, wakeAt, nextId, beatVars>>

CreateLockDirectory(p) ==
    /\ pc[p] = "mkdir"
    /\ IF lockDir = NoDir
         THEN LET id == <<p, nextId[p]>> IN
              /\ lockDir' = [owner |-> NoOwner, mtime |-> now]
              /\ claim' = [claim EXCEPT ![p] = [id |-> id, created_at |-> now]]
              /\ ourClaims' = [ourClaims EXCEPT ![p] = @ \union {id}]
              /\ nextId' = [nextId EXCEPT ![p] = @ + 1]
              /\ Goto(p, "write")
         ELSE /\ Goto(p, "readowner")
              /\ UNCHANGED <<lockDir, claim, ourClaims, nextId>>
    /\ UNCHANGED <<now, stolen, seen, seenMtime, deadline, wakeAt, calls, beatVars>>

\* writeTextFileAtomic makes the parent directory before it writes: a lock
\* directory that was taken away is created again, and the record of another
\* process that stands there is replaced.
WriteOwner(p) ==
    /\ pc[p] = "write"
    /\ lockDir' = [owner |-> claim[p], mtime |-> now]
    /\ Goto(p, "confirm")
    /\ UNCHANGED <<now, stolen, seen, seenMtime, callVars, beatVars>>

\* The write throws (the directory vanished under it, a full disk), and so does
\* the call: nothing releases the directory it created.
WriteOwnerFails(p) ==
    /\ WriteErrors
    /\ pc[p] = "write"
    /\ EndCall(p)
    /\ UNCHANGED <<now, fsVars, beatVars>>

ConfirmOwner(p) ==
    /\ pc[p] = "confirm"
    /\ \E confirmed \in Readings(lockDir) :
         IF IsOurs(p, confirmed)
           THEN StartWork(p)
           ELSE Goto(p, "retry") /\ UNCHANGED beatVars
    /\ UNCHANGED <<now, fsVars, callVars>>

\* Mutant: the whole directory is adopted where its record is meant.
AdoptDirectory(p) ==
    /\ pc[p] = "readowner"
    /\ IF OwnerAt(lockDir) # NoOwner /\ OwnerAt(lockDir).id \in ourClaims[p]
         THEN StartWork(p) /\ claim' = [claim EXCEPT ![p] = lockDir]
         ELSE Goto(p, "stat") /\ UNCHANGED <<claim, beatVars>>
    /\ UNCHANGED <<now, fsVars, ourClaims, deadline, wakeAt, calls, nextId>>

\* The directory is taken: by an earlier attempt of this very call, whose
\* confirming read failed, or not.
ReadHolder(p) ==
    /\ pc[p] = "readowner"
    /\ \E current \in Readings(lockDir) :
         IF current # NoOwner /\ current.id \in ourClaims[p]
           THEN StartWork(p) /\ claim' = [claim EXCEPT ![p] = current]
           ELSE Goto(p, "stat") /\ UNCHANGED <<claim, beatVars>>
    /\ UNCHANGED <<now, fsVars, ourClaims, deadline, wakeAt, calls, nextId>>

StealStale(p) ==
    /\ Steal!StealStep(p)
    /\ stepAt' = [stepAt EXCEPT ![p] = now]
    /\ UNCHANGED <<now, callVars, beatVars>>

\* The deadline is looked at after the attempt, then the call sleeps.
GiveUp(p) ==
    /\ pc[p] = "retry"
    /\ now >= deadline[p]
    /\ EndCall(p)
    /\ seen' = [seen EXCEPT ![p] = NoOwner]
    /\ seenMtime' = [seenMtime EXCEPT ![p] = 0]
    /\ UNCHANGED <<now, lockDir, stolen, beatVars>>

\* Mutant: every sleep grants the call its whole timeout again.
SleepAnew(p) ==
    /\ pc[p] = "retry"
    /\ now < deadline[p]
    /\ Goto(p, "wait")
    /\ wakeAt' = [wakeAt EXCEPT ![p] = now + RetryMs]
    /\ deadline' = [deadline EXCEPT ![p] = now + TimeoutMs]
    /\ seen' = [seen EXCEPT ![p] = NoOwner]
    /\ seenMtime' = [seenMtime EXCEPT ![p] = 0]
    /\ UNCHANGED <<now, lockDir, stolen, claim, ourClaims, calls, nextId, beatVars>>

Sleep(p) ==
    /\ pc[p] = "retry"
    /\ now < deadline[p]
    /\ Goto(p, "wait")
    /\ wakeAt' = [wakeAt EXCEPT ![p] = now + RetryMs]
    /\ seen' = [seen EXCEPT ![p] = NoOwner]
    /\ seenMtime' = [seenMtime EXCEPT ![p] = 0]
    /\ UNCHANGED <<now, lockDir, stolen, claim, ourClaims, deadline, calls, nextId, beatVars>>

WakeUp(p) ==
    /\ pc[p] = "wait"
    /\ now >= wakeAt[p]
    /\ Goto(p, "mkdir")
    /\ UNCHANGED <<now, fsVars, callVars, beatVars>>

----------------------------------------------------------------------------
(* releaseOwnedLock                                                        *)

\* Mutant: a release without a fence.
Unfenced(p) == FALSE

\* Old enough, with a margin, for another process to take the lock over.
Fenced(p) == now - claim[p].created_at + MarginMs >= StaleMs

\* The work ends.  stopHeartbeat stops the timer and does not wait for a beat
\* in flight; the fence follows in the same synchronous run.
FinishWork(p) ==
    /\ pc[p] = "work"
    /\ beat[p] = "writing" => LateBeats
    /\ beat' = [beat EXCEPT ![p] = "off"]
    /\ beatDue' = [beatDue EXCEPT ![p] = 0]
    /\ beatRec' = [beatRec EXCEPT ![p] = NoOwner]
    /\ lateBeats' = IF beat[p] = "writing" THEN lateBeats \union {beatRec[p]} ELSE lateBeats
    /\ IF Fenced(p)
         THEN EndCall(p)
         ELSE Goto(p, "relread") /\ UNCHANGED callVars
    /\ UNCHANGED <<now, fsVars>>

ReleaseRead(p) ==
    /\ pc[p] = "relread"
    /\ \E current \in Readings(lockDir) :
         IF IsOurs(p, current)
           THEN Goto(p, "remove") /\ UNCHANGED callVars
           ELSE EndCall(p)
    /\ UNCHANGED <<now, fsVars, beatVars>>

ReleaseRemove(p) ==
    /\ pc[p] = "remove"
    /\ lockDir' = NoDir
    /\ EndCall(p)
    /\ UNCHANGED <<now, stolen, seen, seenMtime, beatVars>>

----------------------------------------------------------------------------
(* startHeartbeat                                                          *)

\* A timer tick that finds no beat in progress reads the owner record; a record
\* that is not ours, or that could not be read, stops the heartbeat for good.
BeatRead(p) ==
    /\ beat[p] = "armed"
    /\ now >= beatDue[p]
    /\ \E current \in Readings(lockDir) :
         IF IsOurs(p, current)
           THEN /\ beat' = [beat EXCEPT ![p] = "writing"]
                /\ beatRec' = [beatRec EXCEPT ![p] = [claim[p] EXCEPT !.created_at = now]]
                /\ beatDue' = [beatDue EXCEPT ![p] = now + HeartbeatIntervalMs]
           ELSE /\ beat' = [beat EXCEPT ![p] = "off"]
                /\ UNCHANGED <<beatRec, beatDue>>
    /\ UNCHANGED <<now, fsVars, pc, stepAt, callVars, lateBeats>>

BeatWrite(p) ==
    /\ beat[p] = "writing"
    /\ lockDir' = [owner |-> beatRec[p], mtime |-> now]
    /\ claim' = [claim EXCEPT ![p] = beatRec[p]]
    /\ beat' = [beat EXCEPT ![p] = "armed"]
    /\ beatRec' = [beatRec EXCEPT ![p] = NoOwner]
    /\ UNCHANGED <<now, stolen, seen, seenMtime, pc, stepAt, ourClaims, deadline,
                   wakeAt, calls, nextId, beatDue, lateBeats>>


\* A beat that throws is skipped; the timer goes on.
BeatWriteFails(p) ==
    /\ WriteErrors
    /\ beat[p] = "writing"
    /\ now - claim[p].created_at =< MissedBeats * HeartbeatIntervalMs
    /\ beat' = [beat EXCEPT ![p] = "armed"]
    /\ beatRec' = [beatRec EXCEPT ![p] = NoOwner]
    /\ UNCHANGED <<now, fsVars, pc, stepAt, callVars, beatDue, lateBeats>>

\* The write of a beat whose hold has ended.
LateBeatWrite ==
    \E rec \in lateBeats :
        /\ lockDir' = [owner |-> rec, mtime |-> now]
        /\ lateBeats' = lateBeats \ {rec}
        /\ UNCHANGED <<now, stolen, seen, seenMtime, pc, stepAt, callVars,
                       beat, beatDue, beatRec>>

----------------------------------------------------------------------------
(* the environment                                                         *)

\* The process dies where it stands: its directories stay, its timers do not.
Crash(p) ==
    /\ pc[p] \notin {"idle", "dead"}
    /\ Cardinality({q \in Procs : pc[q] = "dead"}) < MaxCrashes
    /\ Goto(p, "dead")
    /\ beat' = [beat EXCEPT ![p] = "off"]
    /\ beatDue' = [beatDue EXCEPT ![p] = 0]
    /\ beatRec' = [beatRec EXCEPT ![p] = NoOwner]
    /\ lateBeats' = {rec \in lateBeats : rec.id[1] # p}
    /\ UNCHANGED <<now, fsVars, callVars>>

Protocol(p) == pc[p] \notin {"idle", "dead", "wait", "work"}

Tick ==
    /\ now < MaxNow
    /\ \A p \in Procs :
         /\ Protocol(p) => now - stepAt[p] < MaxPause
         /\ pc[p] = "wait" => now - wakeAt[p] < MaxPause
         /\ pc[p] = "work" => now - stepAt[p] < MaxWork
         /\ beat[p] = "armed" => now - beatDue[p] < MaxPause
         /\ beat[p] = "writing" => now - beatRec[p].created_at < MaxPause
    /\ \A rec \in lateBeats : now - rec.created_at < MaxPause
    /\ now' = now + 1
    /\ UNCHANGED <<fsVars, pc, stepAt, callVars, beatVars>>

Step(p) ==
    \/ CreateLockDirectory(p) \/ WriteOwner(p) \/ WriteOwnerFails(p) \/ ConfirmOwner(p)
    \/ ReadHolder(p) \/ StealStale(p) \/ GiveUp(p) \/ Sleep(p) \/ WakeUp(p)
    \/ FinishWork(p) \/ ReleaseRead(p) \/ ReleaseRemove(p)

Beat(p) == BeatRead(p) \/ BeatWrite(p) \/ BeatWriteFails(p)

Next ==
    \/ \E p \in Procs : Call(p) \/ Step(p) \/ Beat(p) \/ Crash(p)
    \/ LateBeatWrite
    \/ Tick

\* A process that is alive goes on, its work ends, its timers fire and time
\* passes.  Nobody has to call, and nobody has to crash.
Fairness ==
    /\ \A p \in Procs : WF_vars(Step(p)) /\ WF_vars(Beat(p))
    /\ WF_vars(LateBeatWrite)
    /\ WF_vars(Tick)

Spec == Init /\ [][Next]_vars

FairSpec == Spec /\ Fairness

----------------------------------------------------------------------------
(* Properties                                                              *)

\* The type invariant.
TypeOK ==
    /\ now \in Nat
    /\ \A d \in {lockDir} \union {stolen[p] : p \in Procs} :
         d # NoDir => d.owner \in OwnerRecord \union {NoOwner} /\ d.mtime \in Int
    /\ \A p \in Procs :
         /\ pc[p] \in Steal!StealSteps \union
              {"idle", "mkdir", "write", "confirm", "readowner", "retry", "wait",
               "work", "relread", "remove", "dead"}
         /\ {seen[p], claim[p], beatRec[p]} \subseteq OwnerRecord \union {NoOwner}
         /\ beat[p] \in {"off", "armed", "writing"}
    /\ lateBeats \subseteq OwnerRecord

Inside(p) == pc[p] = "work"

\* owned-lock.ts:18-20, 198-202: at most one process is inside its work at a time;
\* a race for a lock that looks stale becomes another attempt and never two
\* processes inside.  The code does not keep this promise: see the README.
AtMostOneInside == \A p, q \in Procs : Inside(p) /\ Inside(q) => p = q


\* lock-steal.ts:70-72: a lock whose owner is inside is never destroyed.  Its
\* record stands at the lock path, or a process that took the directory by
\* mistake still has it and is about to put it back.  Like the exclusion it holds
\* as long as nobody disturbs the lock (OwnedLockProofs), and no longer.
HolderKeepsItsLock ==
    \A p \in Procs : Inside(p) =>
        \/ Owns(p, lockDir) /\ (p \in Beating => ~ IsStaleOwner(lockDir.owner, lockDir.mtime, now))
        \/ \E q \in Procs : Owns(p, stolen[q]) /\ pc[q] \in {"inspect", "lookback", "restore"}

\* A release removes the directory of the releasing process and no other
\* (owned-lock.ts:7-14, the race the module was written for).
ReleaseRemovesOnlyOwn ==
    [][\A p \in Procs : ReleaseRemove(p) => lockDir = NoDir \/ Owns(p, lockDir)]_vars

\* Every call returns or throws: a lock nobody releases costs a caller its
\* timeout and no more.
CallsReturn == \A p \in Procs : pc[p] = "mkdir" ~> pc[p] \in {"idle", "dead"}

=============================================================================
