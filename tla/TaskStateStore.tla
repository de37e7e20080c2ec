--------------------------- MODULE TaskStateStore --------------------------
(***************************************************************************)
(* Moving task files between buckets under the task-move lock:             *)
(* withTaskMoveLock, moveTaskState, finishTaskState and activateTaskFile   *)
(* of src/infrastructure/state/task-state-store.ts, with the history they  *)
(* append to (state-history.ts).                                           *)
(*                                                                         *)
(* The folder a task file stands in is the state of the task.  A move      *)
(* looks for a free name, renames, and appends to the history by reading   *)
(* the whole file and writing it back: neither is safe on its own, the     *)
(* lock is what makes them so.  This lock has no heartbeat and no release  *)
(* fence, and its ownership test differs from the one of OwnedLock.        *)
(*                                                                         *)
(* Time passes while every process is idle, asleep between two attempts,   *)
(* dead, or inside its move for at most MaxHold units; the steps of the    *)
(* lock itself are fast compared with the stale limit.                     *)
(***************************************************************************)
EXTENDS Integers, Sequences, FiniteSets, SequencesExt

CONSTANTS
    Procs,       \* the loop, workers, the operator's command line
    NoDir, NoOwner,
    Leftovers,   \* what may be at the lock path at the start
    StaleMs,     \* taskMoveLockTiming.staleMs
    TimeoutMs,   \* taskMoveLockTiming.timeoutMs
    WriteErrors, \* whether the write of an owner record may throw
    MinRetryMs,  \* the shortest backoff between two attempts, 0 if below a unit
    RetryMs,     \* the longest
    Buckets,     \* the task folders
    Names,       \* task names
    Contents,    \* what distinguishes one task file from another
    NoFile,
    StartFiles,  \* the files at the start: a function from paths to contents
    MaxHold,     \* bound: units between making the lock and the end of a move
    MaxCopies,   \* bound: numbered copies of one name in a folder
    MaxCalls,    \* bound: moves per process
    MaxCrashes,  \* bound: processes that die
    MaxNow       \* bound: the clock

Paths == [bucket : Buckets, name : Names, copy : 1 .. MaxCopies]

ASSUME MoveTiming ==
    /\ {StaleMs, TimeoutMs, RetryMs, MaxCopies} \subseteq Nat \ {0}
    /\ {MinRetryMs, MaxHold, MaxCalls, MaxCrashes, MaxNow} \subseteq Nat
    /\ WriteErrors \in BOOLEAN

\* No two task files are equal, and the folders that moves lead to exist.
ASSUME TaskFiles ==
    /\ StartFiles \in [Paths -> Contents \union {NoFile}]
    /\ \A at, other \in Paths : StartFiles[at] = StartFiles[other] /\ at # other => StartFiles[at] = NoFile
    /\ {"active", "human-review"} \subseteq Buckets

VARIABLES
    now, lockDir, stolen, pc, seen, seenMtime,  \* see LockSteal
    lock,      \* per process, the owner record of its current attempt
    deadline,  \* per process, deadlineAtMs
    wakeAt,    \* per process, when its backoff ends
    calls,     \* per process, the moves begun
    nextId,    \* per process, the number of its next lock id
    job,       \* per process, the move: [kind, from, to]
    target,    \* per process, the free path it found
    snapshot,  \* per process, the history it read
    outcome,   \* per process, how its last move ended
    files,     \* the task files
    history,   \* state-history.json
    marker     \* the current-task-file marker: a path, or NoFile

fsVars   == <<lockDir, stolen, seen, seenMtime>>
callVars == <<deadline, wakeAt, calls, job>>
dataVars == <<files, history, marker>>
vars     == <<now, fsVars, pc, lock, callVars, nextId, target, snapshot, outcome, dataVars>>

\* Mutant: a stale limit longer than the timeout.
IsVeryStaleLock(owner, mtime, at) ==
    at - (IF owner = NoOwner THEN mtime ELSE owner.created_at) > StaleMs + 2 * TimeoutMs

\* Mutant: a lock counts as stale at half its limit.
IsHalfStaleLock(owner, mtime, at) ==
    at - (IF owner = NoOwner THEN mtime ELSE owner.created_at) >= StaleMs \div 2

\* lockAgeMs: created_at of the record, else the directory's modification time.
IsStaleLock(owner, mtime, at) ==
    at - (IF owner = NoOwner THEN mtime ELSE owner.created_at) > StaleMs

\* A record that could not be read when the lock was judged stale is NOT
\* taken for a foreign one.
IsForeignLock(observed, taken) ==
    /\ observed # NoOwner
    /\ taken # NoOwner
    /\ taken.id # observed.id

\* A read that meets contention is repeated, and taken to succeed.
OwnerAt(dir) == IF dir = NoDir THEN NoOwner ELSE dir.owner

Readings(dir) == {OwnerAt(dir)}

\* Lock ids: those of the processes, and those of the records left behind.
LockId == (Procs \X Nat) \union {OwnerAt(d).id : d \in {l \in Leftovers : OwnerAt(l) # NoOwner}}

OwnerRecord == [id : LockId, created_at : Int]

Lock == [owner : OwnerRecord \union {NoOwner}, mtime : Int]

\* What may be left behind is a lock, and "nothing" is neither a record nor a lock.
ASSUME LockValues ==
    /\ Leftovers \subseteq Lock \union {NoDir}
    /\ NoOwner \notin OwnerRecord /\ NoDir \notin Lock

Steal == INSTANCE LockSteal WITH IsStale <- IsStaleLock, IsForeign <- IsForeignLock

Owns(p, dir) == OwnerAt(dir) # NoOwner /\ OwnerAt(dir).id = lock[p].id

Goto(p, step) == pc' = [pc EXCEPT ![p] = step]

\* p is between taking the lock and giving it back.
Inside(p) == pc[p] \in {"unique", "renamefile", "readhistory", "writehistory"}

----------------------------------------------------------------------------

Init ==
    /\ now = 0
    /\ lockDir \in Leftovers
    /\ stolen = [p \in Procs |-> NoDir]
    /\ pc = [p \in Procs |-> "idle"]
    /\ seen = [p \in Procs |-> NoOwner]
    /\ seenMtime = [p \in Procs |-> 0]
    /\ lock = [p \in Procs |-> NoOwner]
    /\ deadline = [p \in Procs |-> 0]
    /\ wakeAt = [p \in Procs |-> 0]
    /\ calls = [p \in Procs |-> 0]
    /\ nextId = [p \in Procs |-> 0]
    /\ job = [p \in Procs |-> NoFile]
    /\ target = [p \in Procs |-> NoFile]
    /\ snapshot = [p \in Procs |-> <<>>]
    /\ outcome = [p \in Procs |-> "none"]
    /\ files = StartFiles
    /\ history = <<>>
    /\ marker = NoFile

Occupied == {at \in Paths : files[at] # NoFile}

\* A move into `failed` lands in `human-review`.
NormalizeTerminalTaskDir(bucket) == IF bucket = "failed" THEN "human-review" ELSE bucket

\* Every kind of move has checked its authority before this point and goes on
\* to take the lock.  Activation only ever takes a queued file to `active` and
\* leaves no trace in the history.
Begin(p, kind, from, toDir) ==
    /\ pc[p] = "idle"
    /\ calls[p] < MaxCalls
    /\ now + TimeoutMs + RetryMs =< MaxNow
    /\ Goto(p, "mkdir")
    /\ calls' = [calls EXCEPT ![p] = @ + 1]
    /\ deadline' = [deadline EXCEPT ![p] = now + TimeoutMs]
    /\ job' = [job EXCEPT ![p] =
                 [kind |-> kind, from |-> from,
                  to |-> [from EXCEPT !.bucket = NormalizeTerminalTaskDir(toDir)]]]
    /\ outcome' = [outcome EXCEPT ![p] = "none"]
    /\ UNCHANGED <<now, fsVars, lock, wakeAt, nextId, target, snapshot, dataVars>>

MoveTask(p) ==
    \E from \in Occupied, toDir \in Buckets : Begin(p, "move", from, toDir)

ActivateTask(p) ==
    \E from \in Occupied : from.bucket = "queue" /\ Begin(p, "activate", from, "active")

----------------------------------------------------------------------------
(* withTaskMoveLock                                                        *)

\* Each attempt makes a lock id of its own.
CreateLockDirectory(p) ==
    /\ pc[p] = "mkdir"
    /\ IF lockDir = NoDir
         THEN /\ lockDir' = [owner |-> NoOwner, mtime |-> now]
              /\ lock' = [lock EXCEPT ![p] = [id |-> <<p, nextId[p]>>, created_at |-> now]]
              /\ nextId' = [nextId EXCEPT ![p] = @ + 1]
              /\ Goto(p, "write")
         ELSE /\ Goto(p, "stat")
              /\ UNCHANGED <<lockDir, lock, nextId>>
    /\ UNCHANGED <<now, stolen, seen, seenMtime, callVars, target, snapshot, outcome, dataVars>>

WriteOwner(p) ==
    /\ pc[p] = "write"
    /\ lockDir' = [owner |-> lock[p], mtime |-> now]
    /\ Goto(p, "confirm")
    /\ UNCHANGED <<now, stolen, seen, seenMtime, lock, callVars, nextId, target, snapshot,
                   outcome, dataVars>>

\* The write throws; the release that follows finds no record and keeps the
\* directory.
WriteOwnerFails(p) ==
    /\ WriteErrors
    /\ pc[p] = "write"
    /\ outcome' = [outcome EXCEPT ![p] = "error"]
    /\ Goto(p, "relread")
    /\ UNCHANGED <<now, fsVars, lock, callVars, nextId, target, snapshot, dataVars>>

\* Ownership is read back; an attempt that lost the directory is released too.
ConfirmOwner(p) ==
    /\ pc[p] = "confirm"
    /\ Goto(p, IF Owns(p, lockDir) THEN "unique" ELSE "relread")
    /\ UNCHANGED <<now, fsVars, lock, callVars, nextId, target, snapshot, outcome, dataVars>>

StealStale(p) ==
    /\ Steal!StealStep(p)
    /\ UNCHANGED <<now, lock, callVars, nextId, target, snapshot, outcome, dataVars>>

Sleep(p) ==
    /\ pc[p] = "retry"
    /\ now < deadline[p]
    /\ Goto(p, "wait")
    /\ \E at \in now + MinRetryMs .. now + RetryMs :
         at =< deadline[p] /\ wakeAt' = [wakeAt EXCEPT ![p] = at]
    /\ seen' = [seen EXCEPT ![p] = NoOwner]
    /\ seenMtime' = [seenMtime EXCEPT ![p] = 0]
    /\ UNCHANGED <<now, lockDir, stolen, lock, deadline, calls, job, nextId, target, snapshot,
                   outcome, dataVars>>

WakeUp(p) ==
    /\ pc[p] = "wait"
    /\ now >= wakeAt[p]
    /\ Goto(p, "mkdir")
    /\ UNCHANGED <<now, fsVars, lock, callVars, nextId, target, snapshot, outcome, dataVars>>

\* The call returns or throws: what was local to it is forgotten.
EndCall(p) ==
    /\ deadline' = [deadline EXCEPT ![p] = 0]
    /\ wakeAt' = [wakeAt EXCEPT ![p] = 0]
    /\ job' = [job EXCEPT ![p] = NoFile]
    /\ target' = [target EXCEPT ![p] = NoFile]
    /\ snapshot' = [snapshot EXCEPT ![p] = <<>>]
    /\ UNCHANGED calls

GiveUp(p) ==
    /\ pc[p] = "retry"
    /\ now >= deadline[p]
    /\ Goto(p, "idle")
    /\ outcome' = [outcome EXCEPT ![p] = "timeout"]
    /\ lock' = [lock EXCEPT ![p] = NoOwner]
    /\ seen' = [seen EXCEPT ![p] = NoOwner]
    /\ seenMtime' = [seenMtime EXCEPT ![p] = 0]
    /\ EndCall(p)
    /\ UNCHANGED <<now, lockDir, stolen, nextId, dataVars>>

\* releaseTaskMoveLock: the directory goes only when the record read is ours.
\* Afterwards the call ends, or an attempt that never entered is repeated.
AfterRelease(p) ==
    /\ lock' = [lock EXCEPT ![p] = NoOwner]
    /\ CASE outcome[p] = "none"  -> Goto(p, "retry") /\ UNCHANGED <<callVars, target, snapshot>>
         [] outcome[p] = "moved" -> Goto(p, "mark") /\ UNCHANGED <<callVars, target, snapshot>>
         [] OTHER                -> Goto(p, "idle") /\ EndCall(p)

ReleaseRead(p) ==
    /\ pc[p] = "relread"
    /\ IF Owns(p, lockDir)
         THEN Goto(p, "remove") /\ UNCHANGED <<lock, callVars, target, snapshot>>
         ELSE AfterRelease(p)
    /\ UNCHANGED <<now, fsVars, nextId, outcome, dataVars>>

ReleaseRemove(p) ==
    /\ pc[p] = "remove"
    /\ lockDir' = NoDir
    /\ AfterRelease(p)
    /\ UNCHANGED <<now, stolen, seen, seenMtime, nextId, outcome, dataVars>>

----------------------------------------------------------------------------
(* moveWithUniqueName, inside the lock                                     *)

\* candidateCollisionPath: the name that was asked for, then numbered copies of
\* it (a copy of a copy takes a later number).
Candidates(to) == {[to EXCEPT !.copy = n] : n \in to.copy .. MaxCopies}

\* The source must exist; the first candidate that does not is the target.
FindUniquePath(p) ==
    /\ pc[p] = "unique"
    /\ LET free == {at \in Candidates(job[p].to) : files[at] = NoFile}
       IN IF files[job[p].from] = NoFile \/ free = {}
            THEN /\ outcome' = [outcome EXCEPT ![p] = "error"]
                 /\ Goto(p, "relread")
                 /\ UNCHANGED target
            ELSE /\ \E at \in free : /\ \A other \in free : at.copy =< other.copy
                                     /\ target' = [target EXCEPT ![p] = at]
                 /\ Goto(p, "renamefile")
                 /\ UNCHANGED outcome
    /\ UNCHANGED <<now, fsVars, lock, callVars, nextId, snapshot, dataVars>>

\* rename replaces what stands at the target, and fails without a source.
RenameFile(p) ==
    /\ pc[p] = "renamefile"
    /\ LET from == job[p].from IN
         IF files[from] = NoFile
           THEN /\ outcome' = [outcome EXCEPT ![p] = "error"]
                /\ Goto(p, "relread")
                /\ UNCHANGED files
           ELSE /\ files' = [files EXCEPT ![target[p]] = files[from], ![from] = NoFile]
                /\ outcome' = [outcome EXCEPT ![p] = "moved"]
                /\ Goto(p, IF job[p].kind = "move" THEN "readhistory" ELSE "relread")
    /\ UNCHANGED <<now, fsVars, lock, callVars, nextId, target, snapshot, history, marker>>

\* Mutant: arriving in review is a move like any other.
PlainResult(previous, next) == IF previous = "human-review" THEN "resolved" ELSE "moved"

\* stateHistoryResult
Result(previous, next) ==
    IF next = "human-review" THEN "routed"
    ELSE IF previous = "human-review" THEN "resolved"
    ELSE "moved"

\* appendStateHistory reads the whole history and writes it back, longer.
ReadHistory(p) ==
    /\ pc[p] = "readhistory"
    /\ snapshot' = [snapshot EXCEPT ![p] = history]
    /\ Goto(p, "writehistory")
    /\ UNCHANGED <<now, fsVars, lock, callVars, nextId, target, outcome, dataVars>>

WriteHistory(p) ==
    /\ pc[p] = "writehistory"
    /\ LET from == job[p].from IN
         history' = Append(snapshot[p],
                      [task |-> <<from.name, from.copy>>, next |-> target[p].bucket,
                       result |-> Result(from.bucket, target[p].bucket)])
    /\ Goto(p, "relread")
    /\ UNCHANGED <<now, fsVars, lock, callVars, nextId, target, snapshot, outcome, files, marker>>

\* Mutant: the marker takes the file where its path is meant.
MarkContents(p) ==
    /\ pc[p] = "mark"
    /\ marker' = files[target[p]]
    /\ Goto(p, "idle")
    /\ EndCall(p)
    /\ UNCHANGED <<now, fsVars, lock, nextId, outcome, files, history>>

\* The marker of the current task is written after the lock is gone; a move on
\* behalf of another slot leaves it alone (updateCurrent).
SetCurrentTaskFile(p) ==
    /\ pc[p] = "mark"
    /\ \/ marker' = target[p]
       \/ job[p].kind = "move" /\ UNCHANGED marker
    /\ Goto(p, "idle")
    /\ EndCall(p)
    /\ UNCHANGED <<now, fsVars, lock, nextId, outcome, files, history>>

----------------------------------------------------------------------------
(* the environment                                                         *)

Crash(p) ==
    /\ pc[p] \notin {"idle", "dead"}
    /\ Cardinality({q \in Procs : pc[q] = "dead"}) < MaxCrashes
    /\ Goto(p, "dead")
    /\ UNCHANGED <<now, fsVars, lock, callVars, nextId, target, snapshot, outcome, dataVars>>

Tick ==
    /\ now < MaxNow
    /\ \A p \in Procs :
         \/ pc[p] \in {"idle", "dead"}
         \/ pc[p] = "wait" /\ now < wakeAt[p]
         \/ Inside(p) /\ now - lock[p].created_at < MaxHold
    /\ now' = now + 1
    /\ UNCHANGED <<fsVars, pc, lock, callVars, nextId, target, snapshot, outcome, dataVars>>

Step(p) ==
    \/ CreateLockDirectory(p) \/ WriteOwner(p) \/ WriteOwnerFails(p) \/ ConfirmOwner(p)
    \/ StealStale(p) \/ Sleep(p) \/ WakeUp(p) \/ GiveUp(p)
    \/ FindUniquePath(p) \/ RenameFile(p) \/ ReadHistory(p) \/ WriteHistory(p)
    \/ ReleaseRead(p) \/ ReleaseRemove(p) \/ SetCurrentTaskFile(p)

Next ==
    \/ \E p \in Procs : MoveTask(p) \/ ActivateTask(p) \/ Step(p) \/ Crash(p)
    \/ Tick

Spec == Init /\ [][Next]_vars

----------------------------------------------------------------------------
(* Properties                                                              *)

\* The type invariant.
TypeOK ==
    /\ now \in Nat
    /\ \A d \in {lockDir} \union {stolen[p] : p \in Procs} :
         d # NoDir => d.owner \in OwnerRecord \union {NoOwner} /\ d.mtime \in Int
    /\ \A p \in Procs :
         /\ {seen[p], lock[p]} \subseteq OwnerRecord \union {NoOwner}
         /\ target[p] \in Paths \union {NoFile}
         /\ outcome[p] \in {"none", "moved", "error", "timeout"}
    /\ files \in [Paths -> Contents \union {NoFile}]
    /\ marker \in Paths \union {NoFile}

\* task-state-store.ts:4-7: no move loses a task file, whoever else moves files
\* at the same time and wherever a process dies; a task stands in one folder.
NoTaskLost ==
    \A at \in Paths : StartFiles[at] # NoFile =>
        Cardinality({now_at \in Paths : files[now_at] = StartFiles[at]}) = 1

\* state-history.ts:9-11: the append reads and rewrites the whole history under
\* the move lock; no record that was written is ever lost.
HistoryOnlyGrows == [][IsPrefix(history, history')]_vars

\* resolveHumanReviewStatus: the last routing or resolution of a task decides.
Resolved(task) ==
    \E i \in 1 .. Len(history) :
        /\ history[i].task = task /\ history[i].result = "resolved"
        /\ \A j \in i + 1 .. Len(history) : history[j].task = task => history[j].result = "moved"

ReviewStatus(task) == IF Resolved(task) THEN "resolved" ELSE "pending"

\* No move is between its rename and its append, and none died there.
HistoryCaughtUp ==
    \A p \in Procs : pc[p] \notin {"readhistory", "writehistory"} /\ ~ (pc[p] = "dead" /\ outcome[p] = "moved")

OpenInReview(at) ==
    at.bucket = "human-review" /\ files[at] # NoFile => ReviewStatus(<<at.name, at.copy>>) = "pending"

\* task-state-store.ts:303-311: a task that stands in human-review is open for
\* the final audit, however often it was resolved before.  Stated for the files
\* that kept the name they asked for: one that had to take a numbered name is
\* recorded under the name it asked for.
ReviewStaysOpenForOwnName ==
    HistoryCaughtUp => \A at \in Paths : at.copy = 1 => OpenInReview(at)

\* task-state-store.ts:29-30: the timeout is longer than the stale limit so that
\* the lock of a dead process is taken over before a waiter gives up.  A waiter
\* gives up only over a lock that was made after its own call began.
DeadHolderNeverTimesOut ==
    [][\A p \in Procs :
         GiveUp(p) => lockDir = NoDir \/ lockDir.mtime > deadline[p] - TimeoutMs]_vars

=============================================================================
