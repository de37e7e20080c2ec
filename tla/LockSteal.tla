----------------------------- MODULE LockSteal -----------------------------
(***************************************************************************)
(* Taking over the lock of a crashed process: stealStaleLock of            *)
(* src/shared/lock-steal.ts.  The algorithm is shared by the owned lock    *)
(* (OwnedLock) and by the task-move lock (TaskStateStore); they instantiate*)
(* this module with their own staleness and ownership tests.               *)
(*                                                                         *)
(* Every await of the function is a step of its own, so other processes    *)
(* run between any two of them.  A lock is a directory that may hold an    *)
(* owner record; renaming it to a private path is won by one process.      *)
(***************************************************************************)
EXTENDS Naturals

CONSTANTS
    Procs,              \* the processes that share the lock
    NoDir,              \* the value of a path at which nothing exists
    NoOwner,            \* a directory whose owner record is absent or unreadable
    Readings(_),        \* what reading the owner record of a path may return
    IsStale(_, _, _),   \* owner record seen, modification time, now
    IsForeign(_, _)     \* owner record seen before the rename, and after it

VARIABLES
    now,       \* the clock of the machine
    lockDir,   \* the lock path: NoDir or [owner, mtime]
    stolen,    \* per process, its private steal path: NoDir or [owner, mtime]
    pc,        \* per process, the step it is about to take
    seen,      \* per process, `observed`: the owner record it judged
    seenMtime  \* per process, `observedMtimeMs`

stealVars == <<lockDir, stolen, pc, seen, seenMtime>>

StealSteps == {"stat", "identify", "rename", "inspect", "lookback", "restore", "discard"}

OwnerAt(dir) == IF dir = NoDir THEN NoOwner ELSE dir.owner

Goto(p, step) == pc' = [pc EXCEPT ![p] = step]

----------------------------------------------------------------------------

\* `statMtimeMs`; a lock that is gone ends the attempt.
Stat(p) ==
    /\ pc[p] = "stat"
    /\ IF lockDir = NoDir
         THEN Goto(p, "retry") /\ UNCHANGED seenMtime
         ELSE Goto(p, "identify") /\ seenMtime' = [seenMtime EXCEPT ![p] = lockDir.mtime]
    /\ UNCHANGED <<lockDir, stolen, seen>>

\* `readIdentity` and the staleness test on what it returned.
Identify(p) ==
    /\ pc[p] = "identify"
    /\ \E owner \in Readings(lockDir) :
         /\ seen' = [seen EXCEPT ![p] = owner]
         /\ Goto(p, IF IsStale(owner, seenMtime[p], now) THEN "rename" ELSE "retry")
    /\ UNCHANGED <<lockDir, stolen, seenMtime>>

\* `rename(lockPath, stealPath)`: takes whatever is at the path NOW.
RenameAway(p) ==
    /\ pc[p] = "rename"
    /\ IF lockDir = NoDir
         THEN Goto(p, "retry") /\ UNCHANGED <<lockDir, stolen>>
         ELSE /\ stolen' = [stolen EXCEPT ![p] = lockDir]
              /\ lockDir' = NoDir
              /\ Goto(p, "inspect")
    /\ UNCHANGED <<seen, seenMtime>>

\* `readIdentity(stealPath)` and `isForeign`.
Inspect(p) ==
    /\ pc[p] = "inspect"
    /\ \E taken \in Readings(stolen[p]) :
         Goto(p, IF IsForeign(seen[p], taken) THEN "lookback" ELSE "discard")
    /\ UNCHANGED <<lockDir, stolen, seen, seenMtime>>

\* `exists(lockPath)`.
LookBack(p) ==
    /\ pc[p] = "lookback"
    /\ Goto(p, IF lockDir = NoDir THEN "restore" ELSE "discard")
    /\ UNCHANGED <<lockDir, stolen, seen, seenMtime>>

\* `rename(stealPath, lockPath)`.  Renaming onto a directory fails when it
\* holds a file and replaces it when it is empty: a directory without an owner
\* record may hold the temporary file of the write in progress, or nothing.
RestoreSucceeds(p) ==
    /\ pc[p] = "restore"
    /\ OwnerAt(lockDir) = NoOwner
    /\ lockDir' = stolen[p]
    /\ stolen' = [stolen EXCEPT ![p] = NoDir]
    /\ Goto(p, "retry")
    /\ UNCHANGED <<seen, seenMtime>>

RestoreFails(p) ==
    /\ pc[p] = "restore"
    /\ lockDir # NoDir
    /\ Goto(p, "discard")
    /\ UNCHANGED <<lockDir, stolen, seen, seenMtime>>

\* `remove(stealPath)`.
Discard(p) ==
    /\ pc[p] = "discard"
    /\ stolen' = [stolen EXCEPT ![p] = NoDir]
    /\ Goto(p, "retry")
    /\ UNCHANGED <<lockDir, seen, seenMtime>>

StealStep(p) ==
    \/ Stat(p)
    \/ Identify(p)
    \/ RenameAway(p)
    \/ Inspect(p)
    \/ LookBack(p)
    \/ RestoreSucceeds(p)
    \/ RestoreFails(p)
    \/ Discard(p)

=============================================================================
