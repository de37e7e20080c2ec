------------------------ MODULE TaskStateStoreProofs ------------------------
(***************************************************************************)
(* Theorems about TaskStateStore, in three parts: the types; what the lock *)
(* is for, that is, what moves preserve as long as at most one of them is  *)
(* under way; and that the lock provides this in undisturbed operation.    *)
(* The second part allows everything else: leftovers, crashes, failures,   *)
(* timeouts, and any number of movers, folders, names and copies.          *)
(***************************************************************************)
EXTENDS TaskStateStore, SequenceTheorems, FiniteSetTheorems, TLAPS

-----------------------------------------------------------------------------
(* The types.                                                              *)

\* The steps of a process.
Places == Steal!StealSteps \union
  {"idle", "mkdir", "write", "confirm", "retry", "wait", "unique", "renamefile",
   "readhistory", "writehistory", "relread", "remove", "mark", "dead"}

\* A move, and a record of the history.
Job == [kind : {"move", "activate"}, from : Paths, to : Paths]

Entry == [task : Names \X (1 .. MaxCopies), next : Buckets, result : {"routed", "resolved", "moved"}]

Outcomes == {"none", "moved", "error", "timeout"}

\* The type of every variable, those of the lock and those of the moves.
LockTyped ==
    /\ now \in Nat
    /\ lockDir \in Lock \union {NoDir}
    /\ stolen \in [Procs -> Lock \union {NoDir}]
    /\ pc \in [Procs -> Places]
    /\ seen \in [Procs -> OwnerRecord \union {NoOwner}]
    /\ seenMtime \in [Procs -> Int]
    /\ lock \in [Procs -> OwnerRecord \union {NoOwner}]
    /\ nextId \in [Procs -> Nat]

DataTyped ==
    /\ job \in [Procs -> Job \union {NoFile}]
    /\ target \in [Procs -> Paths \union {NoFile}]
    /\ snapshot \in [Procs -> Seq(Entry)]
    /\ outcome \in [Procs -> Outcomes]
    /\ files \in [Paths -> Contents \union {NoFile}]
    /\ history \in Seq(Entry)
    /\ marker \in Paths \union {NoFile}

\* What a process carries through its call.
Carried(p) ==
    /\ pc[p] \notin {"idle", "dead"} =>
           /\ job[p] \in Job
           /\ job[p].to = [job[p].from EXCEPT !.bucket = job[p].to.bucket]
           /\ job[p].kind = "activate" => job[p].to.bucket = "active"
    /\ pc[p] \in {"renamefile", "readhistory", "writehistory"} => target[p] \in Candidates(job[p].to)
    /\ pc[p] \in {"readhistory", "writehistory"} => outcome[p] = "moved" /\ job[p].kind = "move"

Well == LockTyped /\ DataTyped /\ \A p \in Procs : Carried(p)

LEMMA WellInit == Init => Well
BY LockValues, TaskFiles, EmptySeq, MoveTiming DEF Init, Well, LockTyped, DataTyped, Carried, Places, Outcomes

\* Records, directories and ids that the steps make are of their types.
LEMMA ReadingsTyped ==
  ASSUME NEW dir \in Lock \union {NoDir}
  PROVE  Readings(dir) \subseteq OwnerRecord \union {NoOwner}
BY DEF Readings, OwnerAt, Lock

LEMMA Made ==
  ASSUME NEW id \in LockId, NEW at \in Int
  PROVE  [id |-> id, created_at |-> at] \in OwnerRecord
BY DEF OwnerRecord

LEMMA MadeDir ==
  ASSUME NEW owner \in OwnerRecord \union {NoOwner}, NEW at \in Int
  PROVE  [owner |-> owner, mtime |-> at] \in Lock
BY DEF Lock

LEMMA OwnId ==
  ASSUME LockTyped, NEW p \in Procs
  PROVE  <<p, nextId[p]>> \in LockId
BY DEF LockTyped, LockId

\* A step of p leaves what the others carry alone.
LEMMA Frame ==
  ASSUME Well, NEW p \in Procs, LockTyped', DataTyped', Carried(p)',
         \A q \in Procs \ {p} : /\ pc'[q] = pc[q] /\ job'[q] = job[q]
                                /\ target'[q] = target[q] /\ outcome'[q] = outcome[q]
  PROVE  Well'
BY DEF Well, Carried

\* So does one that moves the lock only.
LEMMA LockStep ==
  ASSUME Well, NEW p \in Procs, NEW place \in Places \ {"renamefile", "readhistory", "writehistory"},
         pc' = [pc EXCEPT ![p] = place], pc[p] \notin {"idle", "dead"},
         LockTyped', UNCHANGED <<job, target, snapshot, outcome, dataVars>>
  PROVE  Well'
BY Frame DEF Well, LockTyped, DataTyped, Carried, dataVars

LEMMA EndTyped ==
  ASSUME DataTyped, NEW p \in Procs, EndCall(p)
  PROVE  /\ job' \in [Procs -> Job \union {NoFile}]
         /\ target' \in [Procs -> Paths \union {NoFile}]
         /\ snapshot' \in [Procs -> Seq(Entry)]
         /\ \A q \in Procs \ {p} : job'[q] = job[q] /\ target'[q] = target[q]
BY EmptySeq DEF DataTyped, EndCall

\* Every step keeps the types and what a process carries.
LEMMA WellBegin ==
  ASSUME Well, NEW p \in Procs, MoveTask(p) \/ ActivateTask(p)
  PROVE  Well'
<1>1. PICK kind \in {"move", "activate"}, from \in Paths, toDir \in Buckets :
        Begin(p, kind, from, toDir) /\ (kind = "activate" => toDir = "active")
  BY TaskFiles DEF MoveTask, ActivateTask, Occupied
<1> DEFINE b == NormalizeTerminalTaskDir(toDir)
           to == [from EXCEPT !.bucket = b]
           j == [kind |-> kind, from |-> from, to |-> to]
<1>2. b \in Buckets /\ (kind = "activate" => b = "active")
  BY <1>1, TaskFiles DEF NormalizeTerminalTaskDir
<1> HIDE DEF b
<1>3. to \in Paths /\ to.bucket = b /\ to = [from EXCEPT !.bucket = to.bucket]
  BY <1>2 DEF Paths
<1> HIDE DEF to
<1>4. j \in Job /\ j.kind = kind /\ j.from = from /\ j.to = to
  BY <1>3 DEF Job
<1>5. job' = [job EXCEPT ![p] = j]
  BY <1>1 DEF Begin, to, b
<1> HIDE DEF j
<1>6. /\ pc' = [pc EXCEPT ![p] = "mkdir"] /\ outcome' = [outcome EXCEPT ![p] = "none"]
      /\ UNCHANGED <<now, fsVars, lock, nextId, target, snapshot, dataVars>>
  BY <1>1 DEF Begin, Goto
<1>7. LockTyped' /\ DataTyped'
  BY <1>4, <1>5, <1>6 DEF Well, LockTyped, DataTyped, fsVars, dataVars, Places, Outcomes
<1>8. Carried(p)'
  BY <1>2, <1>3, <1>4, <1>5, <1>6 DEF Carried, Well, LockTyped, DataTyped
<1> QED
  BY <1>5, <1>6, <1>7, <1>8, Frame DEF Well, LockTyped, DataTyped

LEMMA WellCreate ==
  ASSUME Well, NEW p \in Procs, CreateLockDirectory(p)
  PROVE  Well'
<1> DEFINE id == <<p, nextId[p]>>
           record == [id |-> id, created_at |-> now]
           dir == [owner |-> NoOwner, mtime |-> now]
<1>1. id \in LockId /\ now \in Int
  BY OwnId DEF Well, LockTyped
<1>2. record \in OwnerRecord /\ dir \in Lock
  <2> HIDE DEF id
  <2> QED
    BY <1>1, Made, MadeDir
<1>3. CASE lockDir = NoDir
  <2>1. /\ lockDir' = dir /\ lock' = [lock EXCEPT ![p] = record]
        /\ nextId' = [nextId EXCEPT ![p] = @ + 1] /\ pc' = [pc EXCEPT ![p] = "write"]
    BY <1>3 DEF CreateLockDirectory, Goto
  <2> HIDE DEF id, record, dir
  <2>2. LockTyped'
    BY <1>2, <2>1 DEF Well, LockTyped, CreateLockDirectory, Places
  <2> QED
    BY <2>1, <2>2, LockStep DEF CreateLockDirectory, callVars, Places
<1>4. CASE lockDir # NoDir
  <2>1. pc' = [pc EXCEPT ![p] = "stat"] /\ UNCHANGED <<lockDir, lock, nextId>>
    BY <1>4 DEF CreateLockDirectory, Goto
  <2>2. "stat" \in Places \ {"renamefile", "readhistory", "writehistory"}
    BY DEF Places, Steal!StealSteps
  <2>3. LockTyped'
    BY <2>1, <2>2 DEF Well, LockTyped, CreateLockDirectory
  <2> QED
    BY <2>1, <2>2, <2>3, LockStep DEF CreateLockDirectory, callVars
<1> QED
  BY <1>3, <1>4

LEMMA WellWrite ==
  ASSUME Well, NEW p \in Procs, WriteOwner(p)
  PROVE  Well'
<1>1. [owner |-> lock[p], mtime |-> now] \in Lock
  BY MadeDir DEF Well, LockTyped
<1>2. LockTyped'
  BY <1>1 DEF Well, LockTyped, WriteOwner, Goto, Places
<1> QED
  BY <1>2, LockStep DEF WriteOwner, Goto, callVars, Places

LEMMA WellWriteFails ==
  ASSUME Well, NEW p \in Procs, WriteOwnerFails(p)
  PROVE  Well'
BY DEF Well, LockTyped, DataTyped, Carried, WriteOwnerFails, Goto, fsVars, callVars, dataVars, Places, Outcomes

LEMMA WellConfirm ==
  ASSUME Well, NEW p \in Procs, ConfirmOwner(p)
  PROVE  Well'
<1>1. PICK place \in {"unique", "relread"} : pc' = [pc EXCEPT ![p] = place]
  BY DEF ConfirmOwner, Goto
<1>2. LockTyped'
  BY <1>1 DEF Well, LockTyped, ConfirmOwner, fsVars, Places
<1> QED
  BY <1>1, <1>2, LockStep DEF ConfirmOwner, callVars, Places

LEMMA WellSteal ==
  ASSUME Well, NEW p \in Procs, StealStale(p)
  PROVE  Well'
<1>1. UNCHANGED <<now, lock, job, nextId, target, snapshot, outcome, dataVars>> /\ Steal!StealStep(p)
  BY DEF StealStale, callVars
<1>2. ASSUME NEW place \in {"retry", "identify", "rename", "inspect", "lookback", "restore", "discard"},
             pc[p] \notin {"idle", "dead"}, pc' = [pc EXCEPT ![p] = place],
             lockDir' \in Lock \union {NoDir}, stolen' \in [Procs -> Lock \union {NoDir}],
             seen' \in [Procs -> OwnerRecord \union {NoOwner}], seenMtime' \in [Procs -> Int]
      PROVE  Well'
  <2>1. place \in Places \ {"renamefile", "readhistory", "writehistory"}
    BY <1>2 DEF Places, Steal!StealSteps
  <2>2. LockTyped'
    BY <1>1, <1>2, <2>1 DEF Well, LockTyped
  <2> QED
    BY <1>1, <1>2, <2>1, <2>2, LockStep
<1>3. CASE Steal!Stat(p)
  BY <1>1, <1>2, <1>3 DEF Steal!Stat, Steal!Goto, Lock, Well, LockTyped
<1>4. CASE Steal!Identify(p)
  <2>1. PICK owner \in Readings(lockDir) :
          /\ seen' = [seen EXCEPT ![p] = owner]
          /\ Steal!Goto(p, IF IsStaleLock(owner, seenMtime[p], now) THEN "rename" ELSE "retry")
    BY <1>4 DEF Steal!Identify
  <2>2. owner \in OwnerRecord \union {NoOwner}
    BY <2>1, ReadingsTyped DEF Well, LockTyped
  <2> QED
    BY <1>1, <1>2, <1>4, <2>1, <2>2 DEF Steal!Identify, Steal!Goto, Well, LockTyped
<1>5. CASE Steal!RenameAway(p)
  BY <1>1, <1>2, <1>5 DEF Steal!RenameAway, Steal!Goto, Well, LockTyped
<1>6. CASE Steal!Inspect(p)
  BY <1>1, <1>2, <1>6 DEF Steal!Inspect, Steal!Goto, Well, LockTyped
<1>7. CASE Steal!LookBack(p)
  BY <1>1, <1>2, <1>7 DEF Steal!LookBack, Steal!Goto, Well, LockTyped
<1>8. CASE Steal!RestoreSucceeds(p)
  BY <1>1, <1>2, <1>8 DEF Steal!RestoreSucceeds, Steal!Goto, Well, LockTyped
<1>9. CASE Steal!RestoreFails(p)
  BY <1>1, <1>2, <1>9 DEF Steal!RestoreFails, Steal!Goto, Well, LockTyped
<1>10. CASE Steal!Discard(p)
  BY <1>1, <1>2, <1>10 DEF Steal!Discard, Steal!Goto, Well, LockTyped
<1> QED
  BY <1>1, <1>3, <1>4, <1>5, <1>6, <1>7, <1>8, <1>9, <1>10 DEF Steal!StealStep

LEMMA WellRetry ==
  ASSUME Well, NEW p \in Procs, Sleep(p) \/ WakeUp(p) \/ GiveUp(p)
  PROVE  Well'
<1>1. CASE Sleep(p)
  <2>1. LockTyped'
    BY <1>1 DEF Well, LockTyped, Sleep, Goto, Places
  <2> QED
    BY <1>1, <2>1, LockStep DEF Sleep, Goto, Places
<1>2. CASE WakeUp(p)
  <2>1. LockTyped'
    BY <1>2 DEF Well, LockTyped, WakeUp, Goto, Places, fsVars
  <2> QED
    BY <1>2, <2>1, LockStep DEF WakeUp, Goto, Places, callVars
<1>3. CASE GiveUp(p)
  <2>1. LockTyped'
    BY <1>3 DEF Well, LockTyped, GiveUp, Goto, Places
  <2>2. DataTyped' /\ \A q \in Procs \ {p} : job'[q] = job[q] /\ target'[q] = target[q]
    BY <1>3, EndTyped DEF Well, DataTyped, GiveUp, Outcomes, dataVars
  <2>3. /\ pc'[p] = "idle" /\ \A q \in Procs \ {p} : pc'[q] = pc[q] /\ outcome'[q] = outcome[q]
    BY <1>3 DEF GiveUp, Goto, Well, LockTyped, DataTyped
  <2> QED
    BY <2>1, <2>2, <2>3, Frame DEF Carried
<1> QED
  BY <1>1, <1>2, <1>3

LEMMA WellAfter ==
  ASSUME Well, NEW p \in Procs, AfterRelease(p), pc[p] \in {"relread", "remove"},
         now' = now, lockDir' \in Lock \union {NoDir},
         UNCHANGED <<stolen, seen, seenMtime, nextId, outcome, dataVars>>
  PROVE  Well'
<1>1. lock' \in [Procs -> OwnerRecord \union {NoOwner}]
  BY DEF AfterRelease, Well, LockTyped
<1>2. ASSUME NEW place \in {"retry", "mark"}, pc' = [pc EXCEPT ![p] = place],
             UNCHANGED <<callVars, target, snapshot>>
      PROVE  Well'
  <2>1. LockTyped'
    BY <1>1, <1>2 DEF Well, LockTyped, Places
  <2> QED
    BY <1>2, <2>1, LockStep DEF callVars, Places
<1>3. ASSUME pc' = [pc EXCEPT ![p] = "idle"], EndCall(p)
      PROVE  Well'
  <2>1. LockTyped'
    BY <1>1, <1>3 DEF Well, LockTyped, Places
  <2>2. DataTyped' /\ \A q \in Procs \ {p} : job'[q] = job[q] /\ target'[q] = target[q]
    BY <1>3, EndTyped DEF Well, DataTyped, dataVars
  <2>3. /\ pc'[p] = "idle" /\ \A q \in Procs \ {p} : pc'[q] = pc[q] /\ outcome'[q] = outcome[q]
    BY <1>3 DEF Well, LockTyped
  <2> QED
    BY <2>1, <2>2, <2>3, Frame DEF Carried
<1> QED
  BY <1>2, <1>3 DEF AfterRelease, Goto

LEMMA WellRelease ==
  ASSUME Well, NEW p \in Procs, ReleaseRead(p) \/ ReleaseRemove(p)
  PROVE  Well'
<1>1. CASE ReleaseRead(p) /\ Owns(p, lockDir)
  <2>1. pc' = [pc EXCEPT ![p] = "remove"] /\ UNCHANGED <<now, fsVars, lock, callVars, nextId, target, snapshot, outcome, dataVars>>
    BY <1>1 DEF ReleaseRead, Goto
  <2>2. LockTyped'
    BY <2>1 DEF Well, LockTyped, Places, fsVars
  <2> QED
    BY <1>1, <2>1, <2>2, LockStep DEF ReleaseRead, callVars, Places
<1>2. CASE ReleaseRead(p) /\ ~Owns(p, lockDir)
  BY <1>2, WellAfter DEF ReleaseRead, fsVars, Well, LockTyped
<1>3. CASE ReleaseRemove(p)
  BY <1>3, WellAfter DEF ReleaseRemove
<1> QED
  BY <1>1, <1>2, <1>3

LEMMA PlaceOf ==
  ASSUME Well, NEW p \in Procs, NEW place \in Places, pc' = [pc EXCEPT ![p] = place],
         UNCHANGED <<now, fsVars, lock, nextId>>
  PROVE  /\ LockTyped' /\ pc'[p] = place /\ \A q \in Procs \ {p} : pc'[q] = pc[q]
BY DEF Well, LockTyped, fsVars

LEMMA WellFind ==
  ASSUME Well, NEW p \in Procs, FindUniquePath(p)
  PROVE  Well'
<1>1. job[p] \in Job /\ job[p].to \in Paths
  BY DEF Well, Carried, FindUniquePath, Job
<1>2. Candidates(job[p].to) \subseteq Paths
  BY <1>1, MoveTiming DEF Candidates, Paths
<1>3. CASE outcome' = [outcome EXCEPT ![p] = "error"] /\ Goto(p, "relread") /\ UNCHANGED target
  <2>1. LockTyped' /\ pc'[p] = "relread" /\ \A q \in Procs \ {p} : pc'[q] = pc[q]
    BY <1>3, PlaceOf DEF FindUniquePath, Goto, Places
  <2>2. DataTyped'
    BY <1>3 DEF Well, DataTyped, FindUniquePath, callVars, dataVars, Outcomes
  <2> QED
    BY <1>3, <2>1, <2>2, Frame DEF Well, Carried, FindUniquePath, callVars, DataTyped
<1>4. ASSUME NEW at \in Candidates(job[p].to), target' = [target EXCEPT ![p] = at],
             Goto(p, "renamefile"), UNCHANGED outcome
      PROVE  Well'
  <2>1. LockTyped' /\ pc'[p] = "renamefile" /\ \A q \in Procs \ {p} : pc'[q] = pc[q]
    BY <1>4, PlaceOf DEF FindUniquePath, Goto, Places
  <2>2. DataTyped'
    BY <1>2, <1>4 DEF Well, DataTyped, FindUniquePath, callVars, dataVars
  <2>3. Carried(p)'
    BY <1>4, <2>1, ZenonT(60) DEF Well, Carried, FindUniquePath, callVars, DataTyped, Candidates
  <2> QED
    BY <1>4, <2>1, <2>2, <2>3, Frame DEF Well, FindUniquePath, callVars, DataTyped
<1> QED
  BY <1>3, <1>4 DEF FindUniquePath

LEMMA WellRename ==
  ASSUME Well, NEW p \in Procs, RenameFile(p)
  PROVE  Well'
<1>1. job[p] \in Job /\ job[p].from \in Paths
  BY DEF Well, Carried, RenameFile, Job
<1>2. PICK place \in {"relread", "readhistory"}, result \in {"error", "moved"} :
        /\ pc' = [pc EXCEPT ![p] = place] /\ outcome' = [outcome EXCEPT ![p] = result]
        /\ place = "readhistory" => result = "moved" /\ job[p].kind = "move"
  BY DEF RenameFile, Goto
<1>3. LockTyped' /\ pc'[p] = place /\ \A q \in Procs \ {p} : pc'[q] = pc[q]
  BY <1>2, PlaceOf DEF RenameFile, Places
<1>4. files' \in [Paths -> Contents \union {NoFile}]
  BY <1>1 DEF RenameFile, Well, DataTyped
<1>5. DataTyped'
  BY <1>2, <1>4 DEF Well, DataTyped, RenameFile, callVars, Outcomes
<1>6. outcome'[p] = result /\ UNCHANGED <<job, target>> /\ pc[p] = "renamefile"
  BY <1>2 DEF RenameFile, callVars, Well, DataTyped
<1>7. target[p] \in Candidates(job[p].to)
  BY <1>6 DEF Well, Carried
<1>8. Carried(p)'
  <2>1. /\ job'[p] \in Job /\ job'[p].to = [job'[p].from EXCEPT !.bucket = job'[p].to.bucket]
        /\ job'[p].kind = "activate" => job'[p].to.bucket = "active"
    BY <1>6 DEF Well, Carried
  <2>2. target'[p] \in Candidates(job'[p].to)
    BY <1>6, <1>7
  <2> QED
    BY <1>2, <1>3, <1>6, <2>1, <2>2 DEF Carried, Candidates
<1> QED
  BY <1>2, <1>3, <1>5, <1>8, Frame DEF Well, RenameFile, callVars, DataTyped

\* The record of a move, as WriteHistory makes it.
Record(p) ==
  LET from == job[p].from IN
  [task |-> <<from.name, from.copy>>, next |-> target[p].bucket,
   result |-> Result(from.bucket, target[p].bucket)]

LEMMA RecordTyped ==
  ASSUME Well, NEW p \in Procs, pc[p] = "writehistory"
  PROVE  /\ Record(p) \in Entry /\ target[p] \in Paths
         /\ Record(p).task = <<job[p].from.name, job[p].from.copy>>
         /\ Record(p).result = Result(job[p].from.bucket, target[p].bucket)
<1>1. job[p] \in Job /\ job[p].from \in Paths /\ job[p].to \in Paths /\ target[p] \in Candidates(job[p].to)
  BY DEF Well, Carried, Job
<1>2. target[p] \in Paths
  BY <1>1, MoveTiming DEF Candidates, Paths
<1>3. job[p].from.name \in Names /\ job[p].from.copy \in 1 .. MaxCopies /\ target[p].bucket \in Buckets
  BY <1>1, <1>2 DEF Paths
<1>4. Result(job[p].from.bucket, target[p].bucket) \in {"routed", "resolved", "moved"}
  BY DEF Result
<1> QED
  BY <1>2, <1>3, <1>4 DEF Record, Entry

LEMMA WellHistory ==
  ASSUME Well, NEW p \in Procs, ReadHistory(p) \/ WriteHistory(p)
  PROVE  Well'
<1>1. CASE ReadHistory(p)
  <2>1. LockTyped' /\ pc'[p] = "writehistory" /\ \A q \in Procs \ {p} : pc'[q] = pc[q]
    BY <1>1, PlaceOf DEF ReadHistory, Goto, Places
  <2>2. DataTyped'
    BY <1>1 DEF Well, DataTyped, ReadHistory, callVars, dataVars
  <2>3. Carried(p)'
    BY <1>1, <2>1 DEF Well, Carried, ReadHistory, callVars, Candidates
  <2> QED
    BY <1>1, <2>1, <2>2, <2>3, Frame DEF ReadHistory, callVars
<1>2. CASE WriteHistory(p)
  <2>1. LockTyped' /\ pc'[p] = "relread" /\ \A q \in Procs \ {p} : pc'[q] = pc[q]
    BY <1>2, PlaceOf DEF WriteHistory, Goto, Places
  <2>2. history' = Append(snapshot[p], Record(p)) /\ pc[p] = "writehistory"
    BY <1>2 DEF WriteHistory, Record
  <2>3. history' \in Seq(Entry)
    BY <2>2, RecordTyped, AppendProperties DEF Well, DataTyped
  <2>4. DataTyped'
    BY <1>2, <2>3 DEF Well, DataTyped, WriteHistory, callVars
  <2>5. Carried(p)'
    BY <1>2, <2>1 DEF Well, Carried, WriteHistory, callVars
  <2> QED
    BY <1>2, <2>1, <2>4, <2>5, Frame DEF WriteHistory, callVars
<1> QED
  BY <1>1, <1>2

LEMMA WellMark ==
  ASSUME Well, NEW p \in Procs, SetCurrentTaskFile(p)
  PROVE  Well'
<1>1. LockTyped' /\ pc'[p] = "idle" /\ \A q \in Procs \ {p} : pc'[q] = pc[q]
  BY PlaceOf DEF SetCurrentTaskFile, Goto, Places
<1>2. DataTyped' /\ \A q \in Procs \ {p} : job'[q] = job[q] /\ target'[q] = target[q]
  BY EndTyped DEF Well, DataTyped, SetCurrentTaskFile
<1> QED
  BY <1>1, <1>2, Frame DEF Carried, SetCurrentTaskFile

LEMMA WellElse ==
  ASSUME Well, Tick \/ (\E p \in Procs : Crash(p)) \/ UNCHANGED vars
  PROVE  Well'
<1>1. ASSUME Tick
      PROVE  Well'
  BY <1>1 DEF Well, LockTyped, DataTyped, Carried, Tick, fsVars, callVars, dataVars, Candidates
<1>2. ASSUME NEW p \in Procs, Crash(p)
      PROVE  Well'
  <2>1. LockTyped' /\ pc'[p] = "dead" /\ \A q \in Procs \ {p} : pc'[q] = pc[q]
    BY <1>2, PlaceOf DEF Crash, Goto, Places
  <2>2. DataTyped'
    BY <1>2 DEF Well, DataTyped, Crash, callVars, dataVars
  <2> QED
    BY <1>2, <2>1, <2>2, Frame DEF Carried, Crash, callVars
<1>3. ASSUME UNCHANGED vars
      PROVE  Well'
  BY <1>3 DEF Well, LockTyped, DataTyped, Carried, vars, fsVars, callVars, dataVars, Candidates
<1> QED
  BY <1>1, <1>2, <1>3

LEMMA WellStep == Well /\ [Next]_vars => Well'
<1> SUFFICES ASSUME Well, [Next]_vars
             PROVE  Well'
  OBVIOUS
<1>1. ASSUME NEW p \in Procs, Step(p)
      PROVE  Well'
  BY <1>1, WellCreate, WellWrite, WellWriteFails, WellConfirm, WellSteal, WellRetry,
     WellFind, WellRename, WellHistory, WellRelease, WellMark DEF Step
<1> QED
  BY <1>1, WellBegin, WellElse DEF Next

LEMMA WellTyped == Well => TypeOK
BY DEF Well, LockTyped, DataTyped, TypeOK, Lock, Outcomes

\* The lock, the moves, the files and the history keep to their types, with any
\* leftover lock, failing writes and processes that die (withTaskMoveLock, moveTaskState).
THEOREM TypeCorrect == Spec => []TypeOK
BY WellInit, WellStep, WellTyped, PTL DEF Spec
-----------------------------------------------------------------------------
(* What the lock is for.                                                    *)

\* The lock excludes: at most one process is inside its move.
OneMover == \A p, q \in Procs : Inside(p) /\ Inside(q) => p = q

\* The file is moved, its record is not written yet.
Appending(p) == pc[p] \in {"readhistory", "writehistory"}

\* A process died and may have left a move without its record.
Broken == \E p \in Procs : pc[p] = "dead" /\ outcome[p] = "moved"

\* What a mover found when it looked still holds when it acts.
MoverInv(p) ==
    /\ pc[p] = "renamefile" => files[target[p]] = NoFile
    /\ Appending(p) => files[job[p].from] = NoFile
    /\ pc[p] = "writehistory" => snapshot[p] = history

\* Every task file of the start stands at one path.
AllHere ==
    /\ \A at, other \in Paths : files[at] = files[other] /\ at # other => files[at] = NoFile
    /\ \A at \in Paths : StartFiles[at] # NoFile => \E b \in Paths : files[b] = StartFiles[at]

TaskAt(at) == <<at.name, at.copy>>

Review == {at \in Paths : at.copy = 1 /\ at.bucket = "human-review"}

\* A file waits in review unresolved, or the record of its routing is about to be written.
ReviewInv ==
    ~Broken => \A at \in Review : files[at] # NoFile /\ Resolved(TaskAt(at)) =>
                   \E p \in Procs : Appending(p) /\ target[p] = at

DataInv == Well /\ (\A p \in Procs : MoverInv(p)) /\ AllHere /\ ReviewInv

LEMMA DataInit == Init => DataInv
<1> SUFFICES ASSUME Init
             PROVE  DataInv
  OBVIOUS
<1>1. \A p \in Procs : MoverInv(p)
  BY DEF Init, MoverInv, Appending
<1>2. AllHere
  BY TaskFiles DEF Init, AllHere
<1>3. \A task : ~Resolved(task)
  BY EmptySeq DEF Init, Resolved
<1> QED
  BY <1>1, <1>2, <1>3, WellInit DEF DataInv, ReviewInv

\* A step that touches neither files nor history, and does not enter a move.
LEMMA QuietStep ==
  ASSUME DataInv, Well', UNCHANGED <<files, history>>, NEW p \in Procs, pc[p] # "dead",
         \A q \in Procs \ {p} : /\ pc'[q] = pc[q] /\ job'[q] = job[q] /\ target'[q] = target[q]
                                /\ snapshot'[q] = snapshot[q] /\ outcome'[q] = outcome[q],
         pc'[p] \notin {"renamefile", "readhistory", "writehistory"},
         ~Appending(p) \/ Broken'
  PROVE  DataInv'
<1>1. \A q \in Procs : MoverInv(q)'
  BY DEF DataInv, MoverInv, Appending
<1>2. AllHere'
  BY DEF DataInv, AllHere
<1>3. Broken => Broken'
  BY DEF Broken
<1>4. \A task : Resolved(task)' <=> Resolved(task)
  BY DEF Resolved
<1>5. ReviewInv'
  BY <1>3, <1>4 DEF DataInv, ReviewInv, Appending
<1> QED
  BY <1>1, <1>2, <1>5 DEF DataInv

\* The steps of the lock and of the call around the move.
LEMMA DataQuiet ==
  ASSUME DataInv, NEW p \in Procs,
         \/ MoveTask(p) \/ ActivateTask(p)
         \/ CreateLockDirectory(p) \/ WriteOwner(p) \/ WriteOwnerFails(p) \/ ConfirmOwner(p)
         \/ StealStale(p) \/ Sleep(p) \/ WakeUp(p) \/ GiveUp(p)
         \/ ReleaseRead(p) \/ ReleaseRemove(p) \/ SetCurrentTaskFile(p)
  PROVE  DataInv'
<1>1. Well'
  BY WellBegin, WellCreate, WellWrite, WellWriteFails, WellConfirm, WellSteal, WellRetry,
     WellRelease, WellMark DEF DataInv
<1> DEFINE Quiet ==
      /\ UNCHANGED <<files, history>> /\ pc[p] # "dead" /\ ~Appending(p)
      /\ \A q \in Procs \ {p} : /\ pc'[q] = pc[q] /\ job'[q] = job[q] /\ target'[q] = target[q]
                                /\ snapshot'[q] = snapshot[q] /\ outcome'[q] = outcome[q]
      /\ pc'[p] \notin {"renamefile", "readhistory", "writehistory"}
<1> USE DEF Appending, dataVars, callVars, Goto
<1>2. LockTyped /\ DataTyped
  BY DEF DataInv, Well
<1>3. ASSUME MoveTask(p) \/ ActivateTask(p)
      PROVE  Quiet
  BY <1>2, <1>3 DEF MoveTask, ActivateTask, Begin, LockTyped, DataTyped
<1>4. ASSUME CreateLockDirectory(p)
      PROVE  Quiet
  BY <1>2, <1>4 DEF CreateLockDirectory, LockTyped, DataTyped
<1>5. ASSUME WriteOwner(p) \/ WriteOwnerFails(p) \/ ConfirmOwner(p)
      PROVE  Quiet
  BY <1>2, <1>5 DEF WriteOwner, WriteOwnerFails, ConfirmOwner, LockTyped, DataTyped
<1>6. ASSUME StealStale(p)
      PROVE  Quiet
  BY <1>2, <1>6 DEF StealStale, Steal!StealStep, Steal!Stat, Steal!Identify, Steal!RenameAway,
     Steal!Inspect, Steal!LookBack, Steal!RestoreSucceeds, Steal!RestoreFails, Steal!Discard,
     Steal!Goto, LockTyped
<1>7. ASSUME Sleep(p) \/ WakeUp(p)
      PROVE  Quiet
  BY <1>2, <1>7 DEF Sleep, WakeUp, LockTyped
<1>8. ASSUME GiveUp(p)
      PROVE  Quiet
  BY <1>2, <1>8 DEF GiveUp, EndCall, LockTyped, DataTyped
<1>9. ASSUME ReleaseRead(p) \/ ReleaseRemove(p)
      PROVE  Quiet
  BY <1>2, <1>9 DEF ReleaseRead, ReleaseRemove, AfterRelease, EndCall, LockTyped, DataTyped
<1>10. ASSUME SetCurrentTaskFile(p)
       PROVE  Quiet
  BY <1>2, <1>10 DEF SetCurrentTaskFile, EndCall, LockTyped, DataTyped
<1>11. Quiet
  BY <1>3, <1>4, <1>5, <1>6, <1>7, <1>8, <1>9, <1>10
<1> QED
  BY <1>1, <1>11, QuietStep

LEMMA DataElse ==
  ASSUME DataInv, Tick \/ (\E p \in Procs : Crash(p)) \/ UNCHANGED vars
  PROVE  DataInv'
<1>1. Well'
  BY WellElse DEF DataInv
<1>2. ASSUME NEW p \in Procs, Crash(p)
      PROVE  DataInv'
  <2>1. /\ pc[p] # "dead" /\ pc'[p] = "dead" /\ \A q \in Procs \ {p} : pc'[q] = pc[q]
        /\ UNCHANGED <<files, history, job, target, snapshot, outcome>>
    BY <1>2 DEF Crash, Goto, callVars, dataVars, DataInv, Well, LockTyped
  <2>2. ~Appending(p) \/ Broken'
    BY <2>1 DEF DataInv, Well, Carried, Appending, Broken
  <2> QED
    BY <1>1, <2>1, <2>2, QuietStep
<1>3. ASSUME Tick \/ UNCHANGED vars
      PROVE  DataInv'
  <2>1. UNCHANGED <<pc, files, history, job, target, snapshot, outcome>>
    BY <1>3 DEF Tick, vars, callVars, dataVars
  <2>2. /\ (Broken' <=> Broken) /\ (\A p \in Procs : Appending(p)' <=> Appending(p))
        /\ \A task : Resolved(task)' <=> Resolved(task)
    BY <2>1 DEF Broken, Appending, Resolved
  <2> QED
    BY <1>1, <2>1, <2>2 DEF DataInv, MoverInv, AllHere, ReviewInv
<1> QED
  BY <1>2, <1>3

LEMMA DataFind ==
  ASSUME DataInv, NEW p \in Procs, FindUniquePath(p)
  PROVE  DataInv'
<1>1. Well' /\ LockTyped /\ DataTyped
  BY WellFind DEF DataInv, Well
<1>2. /\ pc[p] = "unique" /\ UNCHANGED <<files, history, job, snapshot>>
      /\ \A q \in Procs \ {p} : /\ pc'[q] = pc[q] /\ target'[q] = target[q] /\ outcome'[q] = outcome[q]
  BY <1>1 DEF FindUniquePath, Goto, callVars, dataVars, LockTyped, DataTyped
<1>3. CASE pc'[p] = "relread"
  BY <1>1, <1>2, <1>3, QuietStep DEF Appending
<1>4. CASE pc'[p] = "renamefile" /\ files[target'[p]] = NoFile
  <2>1. \A q \in Procs : MoverInv(q)'
    BY <1>2, <1>4 DEF DataInv, MoverInv, Appending
  <2>2. /\ Broken => Broken'
        /\ \A q \in Procs : Appending(q) => Appending(q)' /\ target'[q] = target[q]
        /\ \A task : Resolved(task)' <=> Resolved(task)
    BY <1>2 DEF Broken, Appending, Resolved
  <2> QED
    BY <1>1, <1>2, <2>1, <2>2 DEF DataInv, AllHere, ReviewInv
<1> QED
  BY <1>1, <1>3, <1>4 DEF FindUniquePath, Goto, LockTyped, DataTyped

LEMMA DataRename ==
  ASSUME DataInv, OneMover, NEW p \in Procs, RenameFile(p)
  PROVE  DataInv'
<1>1. Well' /\ LockTyped /\ DataTyped
  BY WellRename DEF DataInv, Well
<1>2. /\ pc[p] = "renamefile" /\ UNCHANGED <<history, job, target, snapshot>>
      /\ \A q \in Procs \ {p} : pc'[q] = pc[q] /\ outcome'[q] = outcome[q]
  BY <1>1 DEF RenameFile, Goto, callVars, LockTyped, DataTyped
<1> DEFINE from == job[p].from
           to == target[p]
<1>3. /\ job[p] \in Job /\ from \in Paths /\ to \in Candidates(job[p].to) /\ to \in Paths
      /\ job[p].to = [from EXCEPT !.bucket = job[p].to.bucket]
      /\ job[p].kind = "activate" => job[p].to.bucket = "active"
  <2>1. job[p] \in Job /\ to \in Candidates(job[p].to)
    BY <1>2 DEF DataInv, Well, Carried
  <2>2. job[p].to \in Paths /\ from \in Paths
    BY <2>1 DEF Job
  <2>3. to \in Paths
    BY <2>1, <2>2, MoveTiming DEF Candidates, Paths
  <2> QED
    BY <1>2, <2>1, <2>2, <2>3 DEF DataInv, Well, Carried
<1>4. files[to] = NoFile
  BY <1>2 DEF DataInv, MoverInv
<1>5. CASE files[from] = NoFile
  <2>1. pc'[p] = "relread" /\ UNCHANGED files
    BY <1>1, <1>5 DEF RenameFile, Goto, LockTyped
  <2> QED
    BY <1>1, <1>2, <2>1, QuietStep DEF Appending
<1>6. CASE files[from] # NoFile
  <2>1. files' = [files EXCEPT ![to] = files[from], ![from] = NoFile]
    BY <1>6 DEF RenameFile
  <2>2. /\ files'[to] = files[from] /\ files'[from] = NoFile /\ to # from
        /\ \A at \in Paths \ {to, from} : files'[at] = files[at]
    BY <1>1, <1>3, <1>4, <1>6, <2>1 DEF DataTyped
  <2>3. pc'[p] = IF job[p].kind = "move" THEN "readhistory" ELSE "relread"
    BY <1>1, <1>6 DEF RenameFile, Goto, LockTyped
  <2>4. \A q \in Procs \ {p} : ~Inside(q) /\ ~Appending(q) /\ pc'[q] = pc[q]
    BY <1>2 DEF OneMover, Inside, Appending
  <2>5. \A q \in Procs : MoverInv(q)'
    BY <1>2, <2>2, <2>3, <2>4 DEF MoverInv, Appending, Inside
  <2> HIDE DEF from, to
  <2>6. AllHere'
    <3>1. \A at, other \in Paths : files'[at] = files'[other] /\ at # other => files'[at] = NoFile
      BY <1>3, <2>2 DEF DataInv, AllHere
    <3>2. ASSUME NEW at \in Paths, StartFiles[at] # NoFile
          PROVE  \E b \in Paths : files'[b] = StartFiles[at]
      <4>1. PICK b \in Paths : files[b] = StartFiles[at]
        BY <3>2 DEF DataInv, AllHere
      <4>2. CASE b = from
        BY <1>3, <2>2, <4>1, <4>2
      <4>3. CASE b # from
        BY <1>4, <2>2, <3>2, <4>1, <4>3
      <4> QED
        BY <4>2, <4>3
    <3> QED
      BY <3>1, <3>2 DEF AllHere
  <2>7. ReviewInv'
    <3> SUFFICES ASSUME ~Broken', NEW at \in Review, files'[at] # NoFile, Resolved(TaskAt(at))'
                 PROVE  Appending(p)' /\ target'[p] = at
      BY DEF ReviewInv
    <3>1. ~Broken
      BY <1>2 DEF Broken
    <3>2. Resolved(TaskAt(at)) /\ at \in Paths
      BY <1>2 DEF Resolved, Review
    <3>3. at = to
      <4>1. CASE at # to
        <5>1. files[at] # NoFile
          BY <2>2, <3>2, <4>1
        <5> QED
          BY <1>2, <2>4, <3>1, <3>2, <5>1 DEF DataInv, ReviewInv, Appending
      <4> QED
        BY <4>1
    <3>4. job[p].kind = "move"
      BY <1>3, <3>3 DEF Review, Candidates, Job, Paths
    <3> QED
      BY <1>2, <2>3, <3>3, <3>4 DEF Appending, to
  <2> QED
    BY <1>1, <2>5, <2>6, <2>7 DEF DataInv
<1> QED
  BY <1>5, <1>6

LEMMA DataRead ==
  ASSUME DataInv, NEW p \in Procs, ReadHistory(p)
  PROVE  DataInv'
<1>1. Well' /\ LockTyped /\ DataTyped
  BY WellHistory DEF DataInv, Well
<1>2. /\ pc[p] = "readhistory" /\ pc'[p] = "writehistory" /\ snapshot'[p] = history
      /\ UNCHANGED <<files, history, job, target, outcome>>
      /\ \A q \in Procs \ {p} : pc'[q] = pc[q] /\ snapshot'[q] = snapshot[q]
  BY <1>1 DEF ReadHistory, Goto, callVars, dataVars, LockTyped, DataTyped
<1>3. \A q \in Procs : MoverInv(q)'
  BY <1>2 DEF DataInv, MoverInv, Appending
<1>4. /\ Broken => Broken'
      /\ \A q \in Procs : Appending(q)' <=> Appending(q)
      /\ \A task : Resolved(task)' <=> Resolved(task)
  BY <1>2 DEF Broken, Appending, Resolved
<1> QED
  BY <1>1, <1>2, <1>3, <1>4 DEF DataInv, AllHere, ReviewInv

\* A record at the end of the history decides, unless it is a plain move.
LEMMA ResolvedAppend ==
  ASSUME NEW h \in Seq(Entry), NEW e \in Entry, history = h, history' = Append(h, e), NEW task,
         Resolved(task)'
  PROVE  \/ e.task = task /\ e.result = "resolved"
         \/ Resolved(task) /\ (e.task = task => e.result = "moved")
<1> DEFINE n == Len(h)
<1>1. /\ n \in Nat /\ Len(history) = n /\ Len(history') = n + 1 /\ history'[n + 1] = e
      /\ \A i \in 1 .. n : history'[i] = history[i]
  BY AppendProperties, LenProperties
<1> HIDE DEF n
<1>2. PICK i \in 1 .. n + 1 :
        /\ history'[i].task = task /\ history'[i].result = "resolved"
        /\ \A j \in i + 1 .. n + 1 : history'[j].task = task => history'[j].result = "moved"
  BY <1>1 DEF Resolved
<1>3. CASE i = n + 1
  BY <1>1, <1>2, <1>3
<1>4. CASE i \in 1 .. n
  <2>1. history[i].task = task /\ history[i].result = "resolved"
    BY <1>1, <1>2, <1>4
  <2>2. \A j \in i + 1 .. n : history[j].task = task => history[j].result = "moved"
    BY <1>1, <1>2, <1>4
  <2>3. e.task = task => e.result = "moved"
    BY <1>1, <1>2, <1>4
  <2> QED
    BY <1>1, <1>4, <2>1, <2>2, <2>3 DEF Resolved
<1> QED
  BY <1>1, <1>2, <1>3, <1>4

LEMMA DataWrite ==
  ASSUME DataInv, OneMover, NEW p \in Procs, WriteHistory(p)
  PROVE  DataInv' /\ history' = Append(history, Record(p)) /\ Record(p) \in Entry
<1>1. Well' /\ LockTyped /\ DataTyped
  BY WellHistory DEF DataInv, Well
<1>2. /\ pc[p] = "writehistory" /\ pc'[p] = "relread"
      /\ UNCHANGED <<files, job, target, snapshot, outcome>>
      /\ \A q \in Procs \ {p} : pc'[q] = pc[q]
  BY <1>1 DEF WriteHistory, Goto, callVars, LockTyped, DataTyped
<1> DEFINE from == job[p].from
           to == target[p]
           e == Record(p)
<1>3. /\ job[p] \in Job /\ from \in Paths /\ to \in Candidates(job[p].to) /\ to \in Paths
      /\ job[p].to = [from EXCEPT !.bucket = job[p].to.bucket]
      /\ e \in Entry /\ e.task = TaskAt(from) /\ e.result = Result(from.bucket, to.bucket)
  BY <1>2, RecordTyped DEF DataInv, Well, Carried, Job, TaskAt
<1>4. history' = Append(history, e) /\ files[from] = NoFile
  BY <1>2 DEF WriteHistory, Record, DataInv, MoverInv, Appending
<1>5. \A q \in Procs \ {p} : ~Inside(q) /\ ~Appending(q)
  BY <1>2 DEF OneMover, Inside, Appending
<1>6. \A q \in Procs : MoverInv(q)'
  BY <1>2, <1>5 DEF MoverInv, Appending, Inside
<1>7. AllHere'
  BY <1>2 DEF DataInv, AllHere
<1> HIDE DEF from, to, e
<1>8. ReviewInv'
  <2> SUFFICES ASSUME ~Broken', NEW at \in Review, files[at] # NoFile, Resolved(TaskAt(at))'
               PROVE  FALSE
    BY <1>2 DEF ReviewInv
  <2>1. ~Broken /\ at \in Paths /\ at.copy = 1 /\ at.bucket = "human-review"
    BY <1>2 DEF Broken, Review
  <2>2. \/ e.task = TaskAt(at) /\ e.result = "resolved"
        \/ Resolved(TaskAt(at)) /\ (e.task = TaskAt(at) => e.result = "moved")
    BY <1>1, <1>3, <1>4, ResolvedAppend DEF DataTyped
  <2>3. CASE e.task = TaskAt(at) /\ e.result = "resolved"
    <3>1. from.bucket = "human-review" /\ from.name = at.name /\ from.copy = at.copy
      BY <1>3, <2>3 DEF Result, TaskAt
    <3>2. from = at
      BY <1>3, <2>1, <3>1 DEF Paths
    <3> QED
      BY <1>4, <3>2
  <2>4. CASE Resolved(TaskAt(at)) /\ (e.task = TaskAt(at) => e.result = "moved")
    <3>1. at = to
      BY <1>2, <1>5, <2>1, <2>4 DEF DataInv, ReviewInv, to
    <3>2. from.name = at.name /\ from.copy = 1
      BY <1>3, <2>1, <3>1 DEF Candidates, Paths
    <3>3. TaskAt(from) = TaskAt(at)
      BY <2>1, <3>2 DEF TaskAt
    <3>4. to.bucket = "human-review"
      BY <2>1, <3>1
    <3>5. Result(from.bucket, to.bucket) = "routed"
      BY <3>4 DEF Result
    <3>6. e.task = TaskAt(at) /\ e.result = "routed"
      BY <1>3, <3>3, <3>5
    <3> QED
      BY <2>4, <3>6
  <2> QED
    BY <2>2, <2>3, <2>4
<1> QED
  BY <1>1, <1>3, <1>4, <1>6, <1>7, <1>8 DEF DataInv, e

\* So every step keeps the invariant, while one move at a time is under way.
LEMMA DataStep == DataInv /\ OneMover /\ [Next]_vars => DataInv'
<1> SUFFICES ASSUME DataInv, OneMover, [Next]_vars
             PROVE  DataInv'
  OBVIOUS
<1>1. ASSUME NEW p \in Procs, Step(p)
      PROVE  DataInv'
  BY <1>1, DataQuiet, DataFind, DataRename, DataRead, DataWrite DEF Step
<1> QED
  BY <1>1, DataQuiet, DataElse DEF Next

\* What the invariant means for the properties.
LEMMA KeptMeansNotLost ==
  ASSUME DataInv
  PROVE  NoTaskLost
<1> SUFFICES ASSUME NEW at \in Paths, StartFiles[at] # NoFile
             PROVE  Cardinality({b \in Paths : files[b] = StartFiles[at]}) = 1
  BY DEF NoTaskLost
<1>1. PICK b \in Paths : files[b] = StartFiles[at]
  BY DEF DataInv, AllHere
<1>2. {other \in Paths : files[other] = StartFiles[at]} = {b}
  BY <1>1 DEF DataInv, AllHere
<1> QED
  BY <1>2, FS_Singleton

LEMMA PrefixOfAppend ==
  ASSUME NEW S, NEW s \in Seq(S), NEW e \in S
  PROVE  IsPrefix(s, Append(s, e))
<1> DEFINE t == Append(s, e)
<1>1. Len(s) \in Nat /\ Len(t) = Len(s) + 1 /\ t \in Seq(S)
  BY AppendProperties, LenProperties
<1>2. \A i \in 1 .. Len(s) : t[i] = s[i]
  BY AppendProperties
<1>3. SubSeq(s, 1, Len(s)) = s
  BY SubSeqFull
<1> QED
  BY <1>1, <1>2, <1>3, SubSeqProperties, SeqEqual DEF IsPrefix

LEMMA HistoryStep == DataInv /\ OneMover /\ [Next]_vars => [IsPrefix(history, history')]_vars
<1> SUFFICES ASSUME DataInv, OneMover, Next
             PROVE  IsPrefix(history, history')
  OBVIOUS
<1>1. history \in Seq(Entry)
  BY DEF DataInv, Well, DataTyped
<1>2. CASE history' = history
  BY <1>1, <1>2, SubSeqFull, LenProperties DEF IsPrefix
<1>3. ASSUME NEW p \in Procs, WriteHistory(p)
      PROVE  IsPrefix(history, history')
  BY <1>1, <1>3, DataWrite, PrefixOfAppend
<1>4. history' = history \/ \E p \in Procs : WriteHistory(p)
  BY ZenonT(60) DEF Next, Step, MoveTask, ActivateTask, Begin, CreateLockDirectory, WriteOwner, WriteOwnerFails,
     ConfirmOwner, StealStale, Sleep, WakeUp, GiveUp, FindUniquePath, RenameFile, ReadHistory,
     ReleaseRead, ReleaseRemove, SetCurrentTaskFile, Crash, Tick, dataVars
<1> QED
  BY <1>2, <1>3, <1>4

LEMMA ReviewIsOpen ==
  ASSUME DataInv
  PROVE  ReviewStaysOpenForOwnName
BY DEF DataInv, ReviewInv, ReviewStaysOpenForOwnName, HistoryCaughtUp, OpenInReview, ReviewStatus,
   Review, TaskAt, Appending, Broken

\* As long as one move at a time is under way, no rename replaces a task file and
\* none is doubled, wherever processes die (moveWithUniqueName).
THEOREM NothingIsLost == Spec /\ []OneMover => []NoTaskLost
BY DataInit, DataStep, KeptMeansNotLost, PTL DEF Spec

\* As long as one move at a time is under way, the history that is read whole and
\* written back loses no record (appendStateHistory).
THEOREM HistoryGrows == Spec /\ []OneMover => HistoryOnlyGrows
BY DataInit, DataStep, HistoryStep, PTL DEF Spec, HistoryOnlyGrows

\* As long as one move at a time is under way, a task in human-review is open for
\* the final audit: its last record is its routing (stateHistoryResult).
THEOREM ReviewStaysOpen == Spec /\ []OneMover => []ReviewStaysOpenForOwnName
BY DataInit, DataStep, ReviewIsOpen, PTL DEF Spec
-----------------------------------------------------------------------------
(* Undisturbed operation: the lock excludes.                                *)

\* Nothing was left behind, nobody dies, records are written, and a move takes
\* no longer than the stale limit.
Undisturbed ==
    /\ Leftovers = {NoDir} /\ MaxCrashes = 0 /\ ~WriteErrors
    /\ MaxHold =< StaleMs

\* From the directory it makes to the directory it removes.
Hold == {"write", "confirm", "unique", "renamefile", "readhistory", "writehistory", "relread", "remove"}

Holding(p) == pc[p] \in Hold

\* Nobody gets as far as renaming a lock away.
PlaceInv(p) ==
    /\ pc[p] \notin {"rename", "inspect", "lookback", "restore", "discard", "dead"}
    /\ pc[p] = "identify" => seenMtime[p] >= now - MaxHold

\* The lock of a holder stands at the lock path, with its record once that is
\* written, and is not older than a move may be.
OwnLock(p) ==
    /\ lock[p] \in OwnerRecord /\ lockDir \in Lock
    /\ lockDir.owner = IF pc[p] = "write" THEN NoOwner ELSE lock[p]
    /\ lockDir.mtime >= lock[p].created_at
    /\ lock[p].created_at =< now /\ now =< lock[p].created_at + MaxHold

HeldInv(p) == Holding(p) => OwnLock(p) /\ \A q \in Procs : Holding(q) => q = p

Safe ==
    /\ Well
    /\ \A p \in Procs : PlaceInv(p) /\ HeldInv(p)
    /\ lockDir # NoDir => \E p \in Procs : Holding(p)

LEMMA SafeInit == Undisturbed /\ Init => Safe
BY WellInit DEF Undisturbed, Init, Safe, PlaceInv, HeldInv, Holding, Hold

\* A step of p that moves the lock only with its holder.
LEMMA SafeFrame ==
  ASSUME Safe, NEW p \in Procs, Well', now' = now,
         \A q \in Procs \ {p} : pc'[q] = pc[q] /\ lock'[q] = lock[q] /\ seenMtime'[q] = seenMtime[q],
         PlaceInv(p)', Holding(p)' => OwnLock(p)',
         \/ lockDir' = lockDir /\ (Holding(p)' <=> Holding(p))
         \/ Holding(p) /\ Holding(p)'
         \/ lockDir = NoDir /\ Holding(p)'
         \/ Holding(p) /\ ~Holding(p)' /\ lockDir' = NoDir
  PROVE  Safe'
<1>1. \A q \in Procs \ {p} : PlaceInv(q)' /\ (Holding(q)' <=> Holding(q))
  BY DEF Safe, PlaceInv, Holding
<1>2. \A q \in Procs : Holding(q) => lockDir # NoDir /\ \A r \in Procs : Holding(r) => r = q
  BY LockValues DEF Safe, HeldInv, OwnLock
<1>3. \A q \in Procs \ {p} : HeldInv(q)'
  BY <1>1, <1>2 DEF Safe, HeldInv, OwnLock, Holding
<1>4. HeldInv(p)'
  BY <1>1, <1>2 DEF HeldInv
<1>5. (lockDir # NoDir => \E q \in Procs : Holding(q))'
  BY <1>1 DEF Safe
<1> QED
  BY <1>1, <1>3, <1>4, <1>5 DEF Safe

LEMMA HolderTyped ==
  ASSUME Safe, NEW p \in Procs, Holding(p)
  PROVE  /\ OwnLock(p) /\ lock[p] # NoOwner /\ lockDir # NoDir
         /\ lock[p].created_at \in Int /\ lockDir.mtime \in Int /\ now \in Nat
BY LockValues DEF Safe, HeldInv, OwnLock, OwnerRecord, Lock, Well, LockTyped

LEMMA HolderOwns ==
  ASSUME Safe, NEW p \in Procs, Holding(p), pc[p] # "write"
  PROVE  Owns(p, lockDir)
BY HolderTyped DEF OwnLock, Owns, OwnerAt

\* Steps outside the lock, and steps inside it.
LEMMA SafeOutside ==
  ASSUME Safe, NEW p \in Procs,
         MoveTask(p) \/ ActivateTask(p) \/ Sleep(p) \/ WakeUp(p) \/ GiveUp(p) \/ SetCurrentTaskFile(p)
  PROVE  Safe'
<1>1. Well'
  BY WellBegin, WellRetry, WellMark DEF Safe
<1>2. /\ UNCHANGED <<now, lockDir>> /\ pc[p] \in {"idle", "retry", "wait", "mark"}
      /\ \A q \in Procs \ {p} : pc'[q] = pc[q] /\ lock'[q] = lock[q] /\ seenMtime'[q] = seenMtime[q]
      /\ pc'[p] \in {"mkdir", "wait", "idle"}
  BY DEF Safe, Well, LockTyped, MoveTask, ActivateTask, Begin, Sleep, WakeUp, GiveUp,
     SetCurrentTaskFile, Goto, fsVars
<1>3. PlaceInv(p)' /\ ~Holding(p)' /\ ~Holding(p)
  BY <1>2 DEF PlaceInv, Holding, Hold
<1> QED
  BY <1>1, <1>2, <1>3, SafeFrame

LEMMA SafeInside ==
  ASSUME Safe, NEW p \in Procs,
         FindUniquePath(p) \/ RenameFile(p) \/ ReadHistory(p) \/ WriteHistory(p)
           \/ ConfirmOwner(p) \/ ReleaseRead(p)
  PROVE  Safe'
<1>1. Well'
  BY WellFind, WellRename, WellHistory, WellConfirm, WellRelease DEF Safe
<1>2. Holding(p) /\ pc[p] # "write"
  BY DEF FindUniquePath, RenameFile, ReadHistory, WriteHistory, ConfirmOwner, ReleaseRead, Holding, Hold
<1>3. Owns(p, lockDir)
  BY <1>2, HolderOwns
<1>4. /\ UNCHANGED <<now, lockDir, lock, seenMtime>>
      /\ \A q \in Procs \ {p} : pc'[q] = pc[q]
      /\ pc'[p] \in Hold \ {"write"}
  BY <1>3 DEF Safe, Well, LockTyped, FindUniquePath, RenameFile, ReadHistory, WriteHistory,
     ConfirmOwner, ReleaseRead, Goto, fsVars, Hold
<1>5. PlaceInv(p)' /\ Holding(p)' /\ OwnLock(p)'
  BY <1>2, <1>4, HolderTyped DEF PlaceInv, Holding, Hold, OwnLock
<1> QED
  BY <1>1, <1>2, <1>4, <1>5, SafeFrame

\* The steps that make, mark and remove the lock, and those that look at it.
LEMMA SafeCreate ==
  ASSUME Safe, NEW p \in Procs, CreateLockDirectory(p)
  PROVE  Safe'
<1>1. Well'
  BY WellCreate DEF Safe
<1>2. /\ UNCHANGED <<now, seenMtime>> /\ pc[p] = "mkdir" /\ ~Holding(p) /\ now \in Nat
      /\ \A q \in Procs \ {p} : pc'[q] = pc[q] /\ lock'[q] = lock[q]
  BY DEF Safe, Well, LockTyped, CreateLockDirectory, Goto, Holding, Hold
<1>3. CASE lockDir = NoDir
  <2> DEFINE record == [id |-> <<p, nextId[p]>>, created_at |-> now]
             dir == [owner |-> NoOwner, mtime |-> now]
  <2>1. lockDir' = dir /\ lock'[p] = record /\ pc'[p] = "write"
    BY <1>3 DEF CreateLockDirectory, Goto, Safe, Well, LockTyped
  <2>2. record \in OwnerRecord /\ record.created_at = now
    BY <1>2, OwnId, Made DEF Safe, Well
  <2>3. dir \in Lock /\ dir.mtime = now /\ dir.owner = NoOwner
    BY <1>2, MadeDir
  <2> HIDE DEF record, dir
  <2>4. PlaceInv(p)' /\ Holding(p)' /\ OwnLock(p)'
    BY <1>2, <2>1, <2>2, <2>3, MoveTiming DEF PlaceInv, Holding, Hold, OwnLock
  <2> QED
    BY <1>1, <1>2, <1>3, <2>4, SafeFrame
<1>4. CASE lockDir # NoDir
  <2>1. UNCHANGED lockDir /\ pc'[p] = "stat"
    BY <1>4 DEF CreateLockDirectory, Goto, Safe, Well, LockTyped
  <2>2. PlaceInv(p)' /\ ~Holding(p)'
    BY <2>1 DEF PlaceInv, Holding, Hold
  <2> QED
    BY <1>1, <1>2, <2>1, <2>2, SafeFrame
<1> QED
  BY <1>3, <1>4

LEMMA SafeWrite ==
  ASSUME Safe, NEW p \in Procs, WriteOwner(p)
  PROVE  Safe'
<1>1. Well'
  BY WellWrite DEF Safe
<1> DEFINE dir == [owner |-> lock[p], mtime |-> now]
<1>2. /\ UNCHANGED <<now, seenMtime, lock>> /\ pc[p] = "write" /\ pc'[p] = "confirm"
      /\ \A q \in Procs \ {p} : pc'[q] = pc[q]
      /\ lockDir' = dir
  BY DEF Safe, Well, LockTyped, WriteOwner, Goto
<1>3. Holding(p) /\ OwnLock(p) /\ now \in Nat
  BY <1>2, HolderTyped DEF Holding, Hold
<1>4. dir \in Lock /\ dir.mtime = now /\ dir.owner = lock[p]
  BY <1>3, MadeDir DEF OwnLock
<1> HIDE DEF dir
<1>5. PlaceInv(p)' /\ Holding(p)' /\ OwnLock(p)'
  BY <1>2, <1>3, <1>4 DEF PlaceInv, Holding, Hold, OwnLock
<1> QED
  BY <1>1, <1>2, <1>3, <1>5, SafeFrame

LEMMA SafeRemove ==
  ASSUME Safe, NEW p \in Procs, ReleaseRemove(p)
  PROVE  Safe'
<1>1. Well'
  BY WellRelease DEF Safe
<1>2. /\ UNCHANGED <<now, seenMtime>> /\ pc[p] = "remove" /\ lockDir' = NoDir
      /\ pc'[p] \in {"retry", "mark", "idle"}
      /\ \A q \in Procs \ {p} : pc'[q] = pc[q] /\ lock'[q] = lock[q]
  BY DEF Safe, Well, LockTyped, ReleaseRemove, AfterRelease, Goto
<1>3. PlaceInv(p)' /\ ~Holding(p)' /\ Holding(p)
  BY <1>2 DEF PlaceInv, Holding, Hold
<1> QED
  BY <1>1, <1>2, <1>3, SafeFrame

LEMMA SafeSteal ==
  ASSUME Undisturbed, Safe, NEW p \in Procs, StealStale(p)
  PROVE  Safe'
<1>1. Well'
  BY WellSteal DEF Safe
<1>2. /\ UNCHANGED <<now, lock>> /\ Steal!StealStep(p) /\ now \in Nat /\ PlaceInv(p)
      /\ seenMtime[p] \in Int
  BY DEF StealStale, Safe, Well, LockTyped
<1>3. MaxHold \in Nat /\ StaleMs \in Nat /\ MaxHold =< StaleMs
  BY MoveTiming DEF Undisturbed
<1>4. CASE Steal!Stat(p)
  <2>1. /\ UNCHANGED lockDir /\ pc[p] = "stat" /\ ~Holding(p)
        /\ \A q \in Procs \ {p} : pc'[q] = pc[q] /\ seenMtime'[q] = seenMtime[q]
    BY <1>4 DEF Steal!Stat, Steal!Goto, Safe, Well, LockTyped, Holding, Hold
  <2>2. CASE lockDir = NoDir
    <3>1. pc'[p] = "retry"
      BY <1>4, <2>2 DEF Steal!Stat, Steal!Goto, Safe, Well, LockTyped
    <3>2. PlaceInv(p)' /\ ~Holding(p)'
      BY <3>1 DEF PlaceInv, Holding, Hold
    <3> QED
      BY <1>1, <1>2, <2>1, <3>2, SafeFrame
  <2>3. CASE lockDir # NoDir
    <3>1. pc'[p] = "identify" /\ seenMtime'[p] = lockDir.mtime
      BY <1>4, <2>3 DEF Steal!Stat, Steal!Goto, Safe, Well, LockTyped
    <3>2. PICK h \in Procs : Holding(h)
      BY <2>3 DEF Safe
    <3>3. lockDir.mtime >= now - MaxHold
      BY <1>3, <3>2, HolderTyped DEF OwnLock
    <3>4. PlaceInv(p)' /\ ~Holding(p)'
      BY <1>2, <3>1, <3>3 DEF PlaceInv, Holding, Hold
    <3> QED
      BY <1>1, <1>2, <2>1, <3>4, SafeFrame
  <2> QED
    BY <2>2, <2>3
<1>5. CASE Steal!Identify(p)
  <2>1. /\ UNCHANGED <<lockDir, seenMtime>> /\ pc[p] = "identify" /\ ~Holding(p)
    BY <1>5 DEF Steal!Identify, Holding, Hold
  <2>2. Steal!Goto(p, IF IsStaleLock(OwnerAt(lockDir), seenMtime[p], now) THEN "rename" ELSE "retry")
    BY <1>5 DEF Steal!Identify, Readings
  <2>3. ~IsStaleLock(OwnerAt(lockDir), seenMtime[p], now)
    <3>1. CASE OwnerAt(lockDir) = NoOwner
      BY <1>2, <1>3, <2>1, <3>1 DEF IsStaleLock, PlaceInv
    <3>2. CASE OwnerAt(lockDir) # NoOwner
      <4>1. PICK h \in Procs : Holding(h)
        BY <3>2 DEF OwnerAt, Safe
      <4>2. OwnerAt(lockDir) = lock[h] /\ now =< lock[h].created_at + MaxHold
        BY <3>2, <4>1, HolderTyped DEF OwnerAt, OwnLock
      <4> QED
        BY <1>2, <1>3, <3>2, <4>1, <4>2, HolderTyped DEF IsStaleLock
    <3> QED
      BY <3>1, <3>2
  <2>4. pc'[p] = "retry" /\ \A q \in Procs \ {p} : pc'[q] = pc[q]
    BY <2>2, <2>3 DEF Steal!Goto, Safe, Well, LockTyped
  <2>5. PlaceInv(p)' /\ ~Holding(p)'
    BY <2>4 DEF PlaceInv, Holding, Hold
  <2> QED
    BY <1>1, <1>2, <2>1, <2>4, <2>5, SafeFrame
<1> QED
  BY <1>2, <1>4, <1>5 DEF Steal!StealStep, Steal!RenameAway, Steal!Inspect, Steal!LookBack,
     Steal!RestoreSucceeds, Steal!RestoreFails, Steal!Discard, PlaceInv

\* Time passes while the holder is inside its move, and no longer than MaxHold.
LEMMA SafeTick ==
  ASSUME Safe, Tick
  PROVE  Safe'
<1>1. Well'
  BY WellElse DEF Safe
<1>2. now' = now + 1 /\ UNCHANGED <<lockDir, pc, lock, seenMtime>>
  BY DEF Tick, fsVars
<1>3. ASSUME NEW p \in Procs
      PROVE  PlaceInv(p)' /\ HeldInv(p)'
  <2>1. pc[p] # "identify" /\ (Holding(p) => now - lock[p].created_at < MaxHold)
    BY DEF Tick, Holding, Hold, Inside
  <2>2. PlaceInv(p)'
    BY <1>2, <2>1 DEF Safe, PlaceInv
  <2>3. HeldInv(p)'
    <3>1. CASE ~Holding(p)
      BY <1>2, <3>1 DEF HeldInv, Holding
    <3>2. CASE Holding(p)
      <4>1. OwnLock(p)'
        BY <1>2, <2>1, <3>2, HolderTyped, MoveTiming DEF OwnLock
      <4> QED
        BY <1>2, <3>2, <4>1 DEF Safe, HeldInv, Holding
    <3> QED
      BY <3>1, <3>2
  <2> QED
    BY <2>2, <2>3
<1>4. (lockDir # NoDir => \E p \in Procs : Holding(p))'
  BY <1>2 DEF Safe, Holding
<1> QED
  BY <1>1, <1>3, <1>4 DEF Safe

\* What undisturbed operation leaves out.
LEMMA NobodyDies ==
  ASSUME Undisturbed, Safe, NEW p \in Procs
  PROVE  ~Crash(p) /\ ~WriteOwnerFails(p)
<1>1. {q \in Procs : pc[q] = "dead"} = {}
  BY DEF Safe, PlaceInv
<1>2. Cardinality({q \in Procs : pc[q] = "dead"}) = 0
  BY <1>1, FS_EmptySet
<1> QED
  BY <1>2 DEF Undisturbed, Crash, WriteOwnerFails

LEMMA SafeStep ==
  ASSUME Undisturbed, Safe, [Next]_vars
  PROVE  Safe'
<1>1. ASSUME NEW p \in Procs, Step(p)
      PROVE  Safe'
  BY <1>1, NobodyDies, SafeOutside, SafeInside, SafeCreate, SafeWrite, SafeSteal, SafeRemove DEF Step
<1>2. CASE UNCHANGED vars
  BY <1>2, WellElse DEF Safe, PlaceInv, HeldInv, OwnLock, Holding, vars, fsVars
<1> QED
  BY <1>1, <1>2, NobodyDies, SafeOutside, SafeTick DEF Next

LEMMA SafeExcludes ==
  ASSUME Safe
  PROVE  OneMover
BY DEF Safe, HeldInv, OneMover, Inside, Holding, Hold

\* In undisturbed operation the lock excludes, for any number of processes: one
\* move at a time is between its lookup and its history record.
THEOREM MovesExclude == Undisturbed /\ Spec => []OneMover
<1>1. CASE Undisturbed
  BY <1>1, SafeInit, SafeStep, SafeExcludes, PTL DEF Spec
<1> QED
  BY <1>1

\* So in undisturbed operation the three promises of the store hold without a
\* condition.
THEOREM UndisturbedStore ==
  Undisturbed /\ Spec => [](NoTaskLost /\ ReviewStaysOpenForOwnName) /\ HistoryOnlyGrows
BY MovesExclude, NothingIsLost, HistoryGrows, ReviewStaysOpen, PTL
=============================================================================
