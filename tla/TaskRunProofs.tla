--------------------------- MODULE TaskRunProofs ---------------------------
(***************************************************************************)
(* Theorems about TaskRun, for every retry limit and any number of copies, *)
(* runs and crashes.  The inductive invariant has one part per theorem:    *)
(* the prompt that is dispatched is in the file, what is counted runs      *)
(* ahead of what is dispatched, arming runs ahead of the cheap finish,     *)
(* what a run has learnt of its gates still holds, and a file stands where *)
(* the place of its run says.                                              *)
(***************************************************************************)
EXTENDS TaskRun, TLAPS

\* The parts of a well typed state.
LEMMA FileParts ==
  ASSUME file \in File
  PROVE  file.bucket \in Buckets /\ file.name \in Ids /\ file.body \in Bodies
BY DEF File

LEMMA RunParts ==
  ASSUME run \in Run
  PROVE  /\ run.pc \in Pcs /\ run.id \in Ids /\ run.before \in Bodies
         /\ run.goal.bucket \in Buckets /\ run.goal.state \in States
BY DEF Run

\* What a move does to the file.
LEMMA MovedTyped ==
  ASSUME file \in File, NEW bucket \in Buckets, NEW name \in Ids
  PROVE  /\ Moved(bucket, name) \in File
         /\ Moved(bucket, name).bucket = bucket
         /\ Moved(bucket, name).body = file.body
<1>1. Copy(name) \in Ids
  BY TaskRunAssumption DEF Copy, Ids
<1> DEFINE next == IF file.bucket = bucket /\ file.name = name THEN Copy(name) ELSE name
<1>2. next \in Ids
  BY <1>1
<1>3. Moved(bucket, name) = [file EXCEPT !.bucket = bucket, !.name = next]
  BY DEF Moved
<1> HIDE DEF next
<1> QED
  BY <1>2, <1>3 DEF File

LEMMA MovedName ==
  ASSUME file \in File, NEW bucket \in Buckets, NEW name \in Ids, file.bucket # bucket
  PROVE  Moved(bucket, name).name = name
BY DEF Moved, File

LEMMA BodyTyped ==
  ASSUME file \in File, NEW body \in Bodies
  PROVE  /\ [file EXCEPT !.body = body] \in File
         /\ [file EXCEPT !.body = body].bucket = file.bucket
         /\ [file EXCEPT !.body = body].name = file.name
         /\ [file EXCEPT !.body = body].body = body
BY DEF File

\* What is written into the ledger.
LEMMA EntryTyped ==
  /\ \A s \in States, b \in Bodies : Entry(b, s) \in Entries
  /\ NoEntry \in Entries
BY DEF Entry, NoEntry, Entries, States, NoBody

LEMMA RecordedTyped ==
  ASSUME TypeOK, NEW s \in States
  PROVE  Recorded(s) \in [Ids -> Entries] /\ Recorded(s)[run.id].state = s
BY EntryTyped, RunParts, FileParts DEF TypeOK, Recorded, Entry

\* The ways a run moves on.
LEMMA GoTyped ==
  ASSUME run \in Run, NEW pc \in Pcs, Go(pc)
  PROVE  /\ run' \in Run /\ run'.pc = pc
         /\ run'.id = run.id /\ run'.mode = run.mode /\ run'.green = run.green
         /\ run'.vetoed = run.vetoed /\ run'.goal = run.goal
BY DEF Go, Run

LEMMA EndTyped ==
  ASSUME run \in Run, NEW bucket \in Buckets, NEW s \in States, End(bucket, s)
  PROVE  /\ run' \in Run /\ run'.pc = "finish"
         /\ run'.id = run.id /\ run'.goal.bucket = bucket /\ run'.goal.state = s
BY DEF End, Run, Pcs

LEMMA IdleTyped ==
  Idle \in Run /\ Idle.pc = "idle"
BY TaskRunAssumption DEF Idle, Run, Pcs, Ids, Bodies, Buckets, States

LEMMA NotArmedTyped ==
  ASSUME run \in Run, run' = NotArmed(run)
  PROVE  /\ run' \in Run /\ run'.id = run.id
         /\ \/ run'.pc = "guard" /\ ~run.vetoed
            \/ /\ run'.pc = "finish"
               /\ run'.goal.bucket = "human-review" /\ run'.goal.state = "human-review"
BY ZenonT(60) DEF NotArmed, Run, Pcs, Buckets, States

LEMMA SessionTyped ==
  ASSUME run \in Run, Session
  PROVE  run' \in Run /\ run'.id = run.id /\ run'.pc \in {"toActive", "stop", "split"}
BY ZenonT(60) DEF Session, Run, Pcs

LEMMA StartTyped ==
  ASSUME TypeOK, NEW entry \in {"loop", "child", "resume"}, Start(entry)
  PROVE  /\ run' \in Run /\ run'.id = file.name /\ run'.mode = "task"
         /\ \/ run'.pc = "activate"
            \/ run'.pc = "finish" /\ run'.goal.bucket = "human-review" /\ run'.goal.state = "duplicate"
<1>1. file.name \in Ids
  BY FileParts DEF TypeOK
<1>2. (Evidence(file.name) /\ ~dirty) \in BOOLEAN
  BY Zenon
<1> DEFINE skip == Evidence(file.name) /\ ~dirty
           seen == ledger[file.name] = Entry(file.body, "done")
<1> HIDE DEF skip, seen
<1> QED
  BY <1>1, <1>2, ZenonT(60) DEF Start, Idle, Run, Pcs, Bodies, Buckets, States

LEMMA CheapBodyTyped ==
  ASSUME run \in Run, NEW body \in Bodies, NEW vetoed \in BOOLEAN,
         run' = [run EXCEPT !.pc = "cheapBody", !.before = body, !.vetoed = vetoed]
  PROVE  run' \in Run /\ run'.id = run.id /\ run'.pc = "cheapBody" /\ run'.vetoed = vetoed
BY DEF Run, Pcs

LEMMA PreparedTyped ==
  ASSUME run \in Run, run' = [run EXCEPT !.pc = "preGates", !.mode = "cheap"]
  PROVE  run' \in Run /\ run'.id = run.id /\ run'.pc = "preGates" /\ run'.mode = "cheap"
BY DEF Run, Pcs

LEMMA AgainTyped ==
  ASSUME run \in Run, run' = [run EXCEPT !.pc = "stopWait", !.rechecked = TRUE]
  PROVE  run' \in Run /\ run'.id = run.id /\ run'.pc = "stopWait"
BY DEF Run, Pcs

LEMMA RefusedTyped ==
  ASSUME run \in Run, Refused
  PROVE  /\ run' \in Run /\ run'.id = run.id /\ run'.pc = "finish"
         /\ run'.goal.bucket = "human-review" /\ run'.goal.state = "human-review"
<1> DEFINE cheapOne == run.used \/ run.mode = "cheap"
<1>1. cheapOne \in BOOLEAN
  BY Zenon DEF Run
<1>2. run' = [run EXCEPT !.pc = "finish", !.used = cheapOne,
                         !.goal = [bucket |-> "human-review", state |-> "human-review"]]
  BY DEF Refused
<1> HIDE DEF cheapOne
<1> QED
  BY <1>1, <1>2 DEF Run, Pcs, Buckets, States

\* The histories and counters by id.
LEMMA TallyTyped ==
  ASSUME NEW history \in [Ids -> Nat], NEW id \in Ids, NEW here \in BOOLEAN
  PROVE  /\ Tally(history, id, here) \in [Ids -> Nat]
         /\ \A n \in Ids : n # id \/ ~here => Tally(history, id, here)[n] = history[n]
         /\ here => Tally(history, id, here)[id] = history[id] + 1
BY DEF Tally

LEMMA CountTyped ==
  ASSUME run \in Run, NEW history \in [Ids -> Nat], NEW here \in BOOLEAN
  PROVE  /\ Count(history, here) \in [Ids -> Nat]
         /\ \A n \in Ids : n # run.id \/ ~here => Count(history, here)[n] = history[n]
         /\ here => Count(history, here)[run.id] = history[run.id] + 1
BY RunParts, TallyTyped DEF Count

LEMMA RecordErrorTyped ==
  ASSUME run \in Run, run' = [run EXCEPT !.pc = "preGates", !.mode = "repair"]
  PROVE  run' \in Run /\ run'.id = run.id /\ run'.pc = "preGates" /\ run'.mode = "repair"
BY DEF Run, Pcs

LEMMA ErrorTyped ==
  ASSUME run \in Run, NEW body \in Bodies, run' = [run EXCEPT !.pc = "rewrite", !.before = body]
  PROVE  run' \in Run /\ run'.id = run.id /\ run'.pc = "rewrite"
BY DEF Run, Pcs

LEMMA ArmedTyped ==
  ASSUME run \in Run, run' = [run EXCEPT !.pc = "cheapPrepare", !.armed = TRUE]
  PROVE  run' \in Run /\ run'.id = run.id /\ run'.pc = "cheapPrepare" /\ run'.vetoed = run.vetoed
BY DEF Run, Pcs

LEMMA GatedTyped ==
  ASSUME run \in Run, NEW green \in BOOLEAN, run' = [run EXCEPT !.pc = "diagnose", !.green = green]
  PROVE  run' \in Run /\ run'.id = run.id /\ run'.pc = "diagnose" /\ run'.green = green
BY DEF Run, Pcs


\* Every step keeps the types.
LEMMA TypedStep ==
  ASSUME TypeOK, Next
  PROVE  TypeOK'
<1> USE DEF TypeOK, Pcs, Buckets, States, Review, kept, counts, work, sessions, left, bounds
<1>1. CASE Activate
  BY <1>1, GoTyped, MovedTyped, FileParts
  DEF Activate
<1>2. CASE RecordActive
  BY <1>2, GoTyped, RecordedTyped, RunParts
  DEF RecordActive
<1>3. CASE SkipGates
  BY <1>3, GoTyped, EndTyped
  DEF SkipGates
<1>4. CASE PreflightGuard
  BY <1>4, GoTyped, EndTyped, RunParts
  DEF PreflightGuard
<1>5. CASE Preflight
  BY <1>5, GoTyped, EndTyped, RunParts, FileParts
  DEF Preflight, Verdicts
<1>6. CASE PreflightVerdict
  BY <1>6, GoTyped, EndTyped
  DEF PreflightVerdict
<1>7. CASE Delegate
  BY <1>7, GoTyped, MovedTyped, RunParts
  DEF Delegate
<1>8. CASE RecordDelegated
  BY <1>8, GoTyped, RecordedTyped
  DEF RecordDelegated
<1>9. CASE PassGates
  BY <1>9, GoTyped
  DEF PassGates
<1>10. ASSUME NEW infrastructure \in BOOLEAN, Veto(infrastructure) PROVE TypeOK'
  BY <1>10, GoTyped, EndTyped, BodyTyped, RunParts, EntryTyped
  DEF Veto
<1>11. CASE Session
  BY <1>11, SessionTyped, CountTyped
  DEF Session
<1>12. CASE Refused
  BY <1>12, RefusedTyped
  DEF Refused
<1>13. CASE Split
  BY <1>13, EndTyped, BodyTyped
  DEF Split, Bodies
<1>14. CASE ReturnToActive
  BY <1>14, GoTyped, MovedTyped, RunParts
  DEF ReturnToActive
<1>15. CASE RecordBack
  BY <1>15, GoTyped, RecordedTyped
  DEF RecordBack
<1>16. CASE QualityGates
  BY <1>16, GoTyped, GatedTyped
  DEF QualityGates
<1>17. CASE Diagnose
  BY <1>17, GoTyped, EndTyped, RunParts
  DEF Diagnose, Verdicts
<1>18. CASE ClassifyDone
  BY <1>18, GoTyped, EndTyped
  DEF ClassifyDone
<1>19. CASE IntegrationGate
  BY <1>19, GoTyped, EndTyped
  DEF IntegrationGate
<1>20. CASE RestoreTree
  BY <1>20, EndTyped
  DEF RestoreTree, RolledBack
<1>21. CASE Rollback
  BY <1>21, EndTyped
  DEF Rollback, RolledBack
<1>22. CASE RetryGuard
  BY <1>22, GoTyped, RunParts
  DEF RetryGuard
<1>23. CASE WithoutPrompt
  BY <1>23, EndTyped, AgainTyped
  DEF WithoutPrompt
<1>24. CASE MoveToError
  BY <1>24, MovedTyped, RunParts, FileParts, ErrorTyped
  DEF MoveToError
<1>25. CASE WriteRepairPrompt
  BY <1>25, GoTyped, BodyTyped
  DEF WriteRepairPrompt, Bodies
<1>26. CASE RecordError
  BY <1>26, RecordedTyped, RecordErrorTyped
  DEF RecordError
<1>27. CASE BeforeRepair
  <2>1. run' \in Run
    BY <1>27, GoTyped, EndTyped, FileParts, CheapBodyTyped DEF BeforeRepair
  <2>2. file' \in File
    BY <1>27, MovedTyped, RunParts DEF BeforeRepair
  <2> QED
    BY <1>27, <2>1, <2>2 DEF BeforeRepair
<1>28. CASE AfterVeto
  BY <1>28, EndTyped, FileParts, CheapBodyTyped
  DEF AfterVeto
<1>29. CASE WriteCheapPrompt
  BY <1>29, GoTyped, BodyTyped, RunParts, EntryTyped, NotArmedTyped
  DEF WriteCheapPrompt, Body, Bodies
<1>30. CASE ArmCheapFinish
  <2>1. run' \in Run
    BY <1>30, ArmedTyped DEF ArmCheapFinish
  <2>2. marker' \in [Ids -> BOOLEAN]
    BY <1>30, RunParts DEF ArmCheapFinish
  <2>3. lost' \in [Ids -> Nat]
    BY <1>30, RunParts DEF ArmCheapFinish, Count, Tally
  <2> QED
    BY <1>30, <2>1, <2>2, <2>3 DEF ArmCheapFinish
<1>31. CASE PrepareCheapFinish
  <2>1. run' \in Run
    BY <1>31, NotArmedTyped, PreparedTyped DEF PrepareCheapFinish
  <2>2. file' \in File /\ ledger' \in [Ids -> Entries]
    <3>1. CASE Body(run.before)
      BY <3>1, BodyTyped, EntryTyped, RunParts DEF Body
    <3>2. CASE UNCHANGED <<file, ledger>>
      BY <3>2
    <3> QED
      BY <1>31, <3>1, <3>2 DEF PrepareCheapFinish
  <2>3. retries' \in [Ids -> Nat]
    BY <1>31, CountTyped DEF PrepareCheapFinish
  <2> QED
    BY <1>31, <2>1, <2>2, <2>3 DEF PrepareCheapFinish
<1>32. CASE StopRun
  BY <1>32, GoTyped, MovedTyped, RecordedTyped, RunParts, IdleTyped
  DEF StopRun
<1>33. CASE ClearEntry
  BY <1>33, EntryTyped, RunParts, IdleTyped
  DEF ClearEntry
<1>34. CASE Finish
  BY <1>34, GoTyped, MovedTyped, RunParts
  DEF Finish
<1>35. CASE RecordEnd
  BY <1>35, RecordedTyped, RunParts, IdleTyped
  DEF RecordEnd
<1>36. CASE StopHook
  BY <1>36
  DEF StopHook
<1>37. CASE Crash
  BY <1>37, IdleTyped, TaskRunAssumption
  DEF Crash
<1>38. CASE Resubmit
  BY <1>38, MovedTyped, FileParts
  DEF Resubmit
<1>39. ASSUME NEW entry \in {"loop", "child", "resume"}, Start(entry) PROVE TypeOK'
  <2>1. starts' \in 0 .. MaxStarts
    BY <1>39, TaskRunAssumption DEF Start
  <2>2. run' \in Run
    BY <1>39, StartTyped
  <2>3. commits' \subseteq {"run", "window"}
    BY <1>39 DEF Start
  <2>4. leftRepair' \in [Ids -> Nat] /\ leftCheap' \in [Ids -> Nat]
    BY <1>39, FileParts, TallyTyped DEF Start
  <2> QED
    BY <1>39, <2>1, <2>2, <2>3, <2>4 DEF Start
<1>40. CASE AwaitStopHook
  BY <1>40, GoTyped
  DEF AwaitStopHook
<1> QED
  BY <1>1, <1>2, <1>3, <1>4, <1>5, <1>6, <1>7, <1>8, <1>9, <1>10, <1>11, <1>12, <1>13, <1>14, <1>15, <1>16, <1>17, <1>18, <1>19, <1>20, <1>21, <1>22, <1>23, <1>24, <1>25, <1>26, <1>27, <1>28, <1>29, <1>30, <1>31, <1>32, <1>33, <1>34, <1>35, <1>36, <1>37, <1>38, <1>39, <1>40
  DEF Next, Begin, Coordinator

-----------------------------------------------------------------------------
\* Where a run stands before any session: only the task's own prompt can be dispatched.
Opening ==
  {"activate", "recordActive", "skipGates", "memo", "preflight", "verdict", "toDelegated", "recordDelegated"}

OpeningAsTask == run.pc \in Opening => run.mode = "task"

\* A repair that has been counted and will be dispatched.
AwaitsRepair ==
  \/ run.pc = "prompt" /\ prompt[run.id]
  \/ run.pc \in {"rewrite", "recordError"}
  \/ run.pc \in {"preGates", "session"} /\ run.mode = "repair"

\* Where the prompt of the last diagnosis has not yet been looked at.
Deciding == {"beforeRepair", "guard", "prompt", "cheapBody", "cheapArm", "cheapPrepare"}

\* A run that was started on a prompt another run left behind and has not dispatched it.
StartedOn(body) ==
  run.pc \in Opening \cup {"preGates", "session"} /\ run.mode = "task" /\ file.body = body

\* The prompt of a repair, and that of the cheap finish, is in the file when it is dispatched.
BodyInv ==
  /\ OpeningAsTask
  /\ run.pc = "recordError" => file.body = "repair"
  /\ run.pc \in {"cheapArm", "cheapPrepare"} => file.body = "cheap"
  /\ run.pc \in {"preGates", "session"} /\ run.mode = "repair" => file.body = "repair"
  /\ run.pc \in {"preGates", "session"} /\ run.mode = "cheap" => file.body = "cheap"

\* The repairs that have been allowed to a task id: the counted ones short of the limit, and the
\* left-over ones.
Allowed(n) ==
  (IF retries[n] < MaxRetries THEN retries[n] ELSE MaxRetries - 1) + leftRepair[n]

\* The retry counter runs ahead of the repairs: what is counted is dispatched at most once, and
\* a prompt that was written without being counted does not exist.
BudgetInv ==
  /\ \A n \in Ids : repairs[n] <= Allowed(n)
  /\ AwaitsRepair \/ StartedOn("repair") => repairs[run.id] < Allowed(run.id)
  /\ run.pc \in Deciding /\ prompt[run.id] => verdict = "repair"

\* A cheap finish that is armed and will be dispatched.
AwaitsCheap ==
  \/ run.pc = "cheapPrepare"
  \/ run.pc \in {"preGates", "session"} /\ run.mode = "cheap"

\* What has been armed for a task id, with a marker or without, and what was left over.
Armed(n) == (IF marker[n] THEN 1 ELSE 0) + lost[n] + leftCheap[n]

\* Arming runs ahead of the cheap finish.
CheapInv ==
  /\ \A n \in Ids : cheap[n] <= Armed(n)
  /\ AwaitsCheap \/ StartedOn("cheap") => cheap[run.id] < Armed(run.id)
  /\ run.pc \in {"cheapBody", "cheapArm"} => ~marker[run.id]

\* What a run has learnt of its gates still holds where it matters.
CheckedInv ==
  /\ file.bucket = "done" => run.pc \in {"idle", "record"}
  /\ file.bucket = "done" /\ file.body # "superseded" => checked
  /\ run.pc = "finish" /\ run.goal.bucket = "done" /\ file.body # "superseded" => checked
  /\ run.pc \in {"diagnose", "classify"} /\ run.green => checked
  /\ run.pc \in {"integration", "restore"} => checked

\* Every step keeps the prompt that is dispatched in the file.
LEMMA BodyStep ==
  ASSUME TypeOK, BodyInv, Next
  PROVE  BodyInv'
<1> USE RunParts DEF TypeOK, BodyInv, OpeningAsTask, Opening, Review, kept, counts, work, sessions, left, bounds, At, Pcs, Buckets, States
<1>1. CASE Activate
  BY <1>1, GoTyped, FileParts, MovedTyped
  DEF Activate
<1>2. CASE RecordActive
  BY <1>2, GoTyped, RunParts
  DEF RecordActive
<1>3. CASE SkipGates
  BY <1>3, GoTyped, EndTyped
  DEF SkipGates
<1>4. CASE PreflightGuard
  BY <1>4, GoTyped, EndTyped, RunParts
  DEF PreflightGuard
<1>5. CASE Preflight
  BY <1>5, GoTyped, EndTyped, RunParts, FileParts
  DEF Preflight
<1>6. CASE PreflightVerdict
  BY <1>6, GoTyped, EndTyped
  DEF PreflightVerdict
<1>7. CASE Delegate
  BY <1>7, GoTyped, RunParts, MovedTyped
  DEF Delegate
<1>8. CASE RecordDelegated
  BY <1>8, GoTyped
  DEF RecordDelegated
<1>9. CASE PassGates
  BY <1>9, GoTyped
  DEF PassGates
<1>10. ASSUME NEW infrastructure \in BOOLEAN, Veto(infrastructure) PROVE BodyInv'
  BY <1>10, GoTyped, EndTyped, RunParts
  DEF Veto
<1>11. CASE Session
  BY <1>11, SessionTyped
  DEF Session
<1>12. CASE Refused
  BY <1>12, RefusedTyped
  DEF Refused
<1>13. CASE Split
  BY <1>13, EndTyped
  DEF Split
<1>14. CASE ReturnToActive
  BY <1>14, GoTyped, RunParts
  DEF ReturnToActive
<1>15. CASE RecordBack
  BY <1>15, GoTyped
  DEF RecordBack
<1>16. CASE QualityGates
  BY <1>16, GoTyped, GatedTyped
  DEF QualityGates
<1>17. CASE Diagnose
  BY <1>17, GoTyped, EndTyped, RunParts
  DEF Diagnose
<1>18. CASE ClassifyDone
  BY <1>18, GoTyped, EndTyped
  DEF ClassifyDone
<1>19. CASE IntegrationGate
  BY <1>19, GoTyped, EndTyped
  DEF IntegrationGate
<1>20. CASE RestoreTree
  BY <1>20, EndTyped
  DEF RestoreTree
<1>21. CASE Rollback
  BY <1>21, EndTyped
  DEF Rollback
<1>22. CASE RetryGuard
  BY <1>22, GoTyped, RunParts
  DEF RetryGuard
<1>23. CASE WithoutPrompt
  BY <1>23, EndTyped, AgainTyped
  DEF WithoutPrompt
<1>24. CASE MoveToError
  BY <1>24, RunParts, FileParts, ErrorTyped
  DEF MoveToError
<1>25. CASE WriteRepairPrompt
  BY <1>25, GoTyped, BodyTyped
  DEF WriteRepairPrompt, Bodies
<1>26. CASE RecordError
  BY <1>26, RecordErrorTyped
  DEF RecordError
<1>27. CASE BeforeRepair
  BY <1>27, GoTyped, EndTyped, RunParts, FileParts, CheapBodyTyped
  DEF BeforeRepair, MayFinishCheaply
<1>28. CASE AfterVeto
  BY <1>28, EndTyped, FileParts, CheapBodyTyped
  DEF AfterVeto, MayFinishCheaply
<1>29. CASE WriteCheapPrompt
  BY <1>29, GoTyped, NotArmedTyped, BodyTyped
  DEF WriteCheapPrompt, Body, Bodies
<1>30. CASE ArmCheapFinish
  BY <1>30, ArmedTyped
  DEF ArmCheapFinish
<1>31. CASE PrepareCheapFinish
  BY <1>31, NotArmedTyped, PreparedTyped
  DEF PrepareCheapFinish
<1>32. CASE StopRun
  BY <1>32, GoTyped, RunParts, IdleTyped
  DEF StopRun
<1>33. CASE ClearEntry
  BY <1>33, RunParts, IdleTyped
  DEF ClearEntry
<1>34. CASE Finish
  BY <1>34, GoTyped, RunParts
  DEF Finish
<1>35. CASE RecordEnd
  BY <1>35, RunParts, IdleTyped
  DEF RecordEnd
<1>36. CASE StopHook
  BY <1>36
  DEF StopHook
<1>37. CASE Crash
  BY <1>37, IdleTyped
  DEF Crash
<1>38. CASE Resubmit
  BY <1>38, FileParts
  DEF Resubmit
<1>39. ASSUME NEW entry \in {"loop", "child", "resume"}, Start(entry) PROVE BodyInv'
  BY <1>39, StartTyped
  DEF Start
<1>40. CASE AwaitStopHook
  BY <1>40, GoTyped
  DEF AwaitStopHook
<1> QED
  BY <1>1, <1>2, <1>3, <1>4, <1>5, <1>6, <1>7, <1>8, <1>9, <1>10, <1>11, <1>12, <1>13, <1>14, <1>15, <1>16, <1>17, <1>18, <1>19, <1>20, <1>21, <1>22, <1>23, <1>24, <1>25, <1>26, <1>27, <1>28, <1>29, <1>30, <1>31, <1>32, <1>33, <1>34, <1>35, <1>36, <1>37, <1>38, <1>39, <1>40
  DEF Next, Begin, Coordinator

\* Every step keeps the retry counter ahead of the repairs.
LEMMA BudgetStep ==
  ASSUME TypeOK, BodyInv, BudgetInv, Next
  PROVE  BudgetInv'
<1> USE RunParts, TaskRunAssumption DEF TypeOK, BudgetInv, Allowed, StartedOn, BodyInv, OpeningAsTask, Opening, AwaitsRepair, Deciding, Review, kept, counts, work, sessions, left, bounds, At, Pcs, Buckets, States
<1>1. CASE Activate
  BY <1>1, GoTyped, FileParts, MovedTyped
  DEF Activate
<1>2. CASE RecordActive
  BY <1>2, GoTyped, RunParts
  DEF RecordActive
<1>3. CASE SkipGates
  BY <1>3, GoTyped, EndTyped
  DEF SkipGates
<1>4. CASE PreflightGuard
  BY <1>4, GoTyped, EndTyped, RunParts
  DEF PreflightGuard
<1>5. CASE Preflight
  BY <1>5, GoTyped, EndTyped, RunParts, FileParts
  DEF Preflight
<1>6. CASE PreflightVerdict
  BY <1>6, GoTyped, EndTyped
  DEF PreflightVerdict
<1>7. CASE Delegate
  BY <1>7, GoTyped, RunParts, MovedTyped
  DEF Delegate
<1>8. CASE RecordDelegated
  BY <1>8, GoTyped
  DEF RecordDelegated
<1>9. CASE PassGates
  BY <1>9, GoTyped
  DEF PassGates
<1>10. ASSUME NEW infrastructure \in BOOLEAN, Veto(infrastructure) PROVE BudgetInv'
  BY <1>10, GoTyped, EndTyped, RunParts
  DEF Veto
<1>11. CASE Session
  <2>1. run' \in Run /\ run'.id = run.id /\ run'.pc \in {"toActive", "stop", "split"}
    BY <1>11, SessionTyped
  <2>2. repairs' = Count(repairs, file.body = "repair") /\ UNCHANGED <<retries, leftRepair>>
    BY <1>11 DEF Session
  <2>3. CASE file.body = "repair"
    <3>1. AwaitsRepair \/ StartedOn("repair")
      BY <1>11, <2>3 DEF Session, Run
    <3>2. \A n \in Ids : n # run.id => repairs'[n] = repairs[n]
      BY <2>2, <2>3, CountTyped, ZenonT(60)
    <3>3. repairs'[run.id] = repairs[run.id] + 1
      BY <2>2, <2>3, CountTyped
    <3>4. \A n \in Ids : repairs'[n] <= Allowed(n)
      BY <3>1, <3>2, <3>3
    <3> QED
      BY <2>1, <2>2, <3>4
  <2>4. CASE file.body # "repair"
    <3>1. \A n \in Ids : repairs'[n] = repairs[n]
      BY <2>2, <2>4 DEF Count, Tally
    <3> QED
      BY <2>1, <2>2, <3>1
  <2> QED
    BY <2>3, <2>4
<1>12. CASE Refused
  BY <1>12, RefusedTyped
  DEF Refused
<1>13. CASE Split
  BY <1>13, EndTyped
  DEF Split
<1>14. CASE ReturnToActive
  BY <1>14, GoTyped, RunParts
  DEF ReturnToActive
<1>15. CASE RecordBack
  BY <1>15, GoTyped
  DEF RecordBack
<1>16. CASE QualityGates
  BY <1>16, GoTyped, GatedTyped
  DEF QualityGates
<1>17. CASE Diagnose
  BY <1>17, GoTyped, EndTyped, RunParts
  DEF Diagnose
<1>18. CASE ClassifyDone
  BY <1>18, GoTyped, EndTyped
  DEF ClassifyDone
<1>19. CASE IntegrationGate
  BY <1>19, GoTyped, EndTyped
  DEF IntegrationGate
<1>20. CASE RestoreTree
  BY <1>20, EndTyped
  DEF RestoreTree
<1>21. CASE Rollback
  BY <1>21, EndTyped
  DEF Rollback
<1>22. CASE RetryGuard
  BY <1>22, GoTyped, RunParts
  DEF RetryGuard
<1>23. CASE WithoutPrompt
  BY <1>23, EndTyped, AgainTyped
  DEF WithoutPrompt
<1>24. CASE MoveToError
  BY <1>24, RunParts, FileParts, ErrorTyped
  DEF MoveToError
<1>25. CASE WriteRepairPrompt
  BY <1>25, GoTyped
  DEF WriteRepairPrompt
<1>26. CASE RecordError
  BY <1>26, RecordErrorTyped
  DEF RecordError
<1>27. CASE BeforeRepair
  BY <1>27, GoTyped, EndTyped, RunParts, FileParts, CheapBodyTyped
  DEF BeforeRepair
<1>28. CASE AfterVeto
  BY <1>28, EndTyped, FileParts, CheapBodyTyped
  DEF AfterVeto, MayFinishCheaply
<1>29. CASE WriteCheapPrompt
  BY <1>29, GoTyped, RunParts, NotArmedTyped
  DEF WriteCheapPrompt
<1>30. CASE ArmCheapFinish
  BY <1>30, ArmedTyped, RunParts
  DEF ArmCheapFinish
<1>31. CASE PrepareCheapFinish
  <2>1. /\ run' \in Run /\ run'.id = run.id
        /\ run'.pc \in {"guard", "finish"} \/ (run'.pc = "preGates" /\ run'.mode = "cheap")
    BY <1>31, NotArmedTyped, PreparedTyped DEF PrepareCheapFinish
  <2>2. \A n \in Ids : retries'[n] \in Nat /\ retries[n] <= retries'[n]
    <3>1. CASE UNCHANGED retries
      BY <3>1
    <3>2. CASE retries' = Count(retries, TRUE)
      <4>1. retries' \in [Ids -> Nat]
        BY <3>2, CountTyped
      <4>2. \A n \in Ids : n # run.id => retries'[n] = retries[n]
        BY <3>2, CountTyped
      <4>3. retries'[run.id] = retries[run.id] + 1
        BY <3>2, CountTyped
      <4> QED
        BY <4>1, <4>2, <4>3
    <3> QED
      BY <1>31, <3>1, <3>2 DEF PrepareCheapFinish
  <2>3. UNCHANGED <<repairs, leftRepair, prompt, verdict>> /\ run.pc = "cheapPrepare"
    BY <1>31 DEF PrepareCheapFinish
  <2> QED
    BY <2>1, <2>2, <2>3
<1>32. CASE StopRun
  BY <1>32, GoTyped, RunParts, IdleTyped
  DEF StopRun
<1>33. CASE ClearEntry
  BY <1>33, RunParts, IdleTyped
  DEF ClearEntry
<1>34. CASE Finish
  BY <1>34, GoTyped, RunParts
  DEF Finish
<1>35. CASE RecordEnd
  BY <1>35, RunParts, IdleTyped
  DEF RecordEnd
<1>36. CASE StopHook
  BY <1>36
  DEF StopHook
<1>37. CASE Crash
  BY <1>37, IdleTyped
  DEF Crash
<1>38. CASE Resubmit
  BY <1>38, FileParts
  DEF Resubmit
<1>39. ASSUME NEW entry \in {"loop", "child", "resume"}, Start(entry) PROVE BudgetInv'
  <2>1. /\ run' \in Run /\ run'.id = file.name /\ file.name \in Ids
        /\ run'.pc \in {"activate", "finish"} /\ run'.mode = "task"
    BY <1>39, StartTyped, FileParts
  <2>2. leftRepair' = Tally(leftRepair, file.name, file.body = "repair") /\ UNCHANGED <<file, retries, repairs, prompt, verdict>>
    BY <1>39 DEF Start
  <2>3. CASE file.body = "repair"
    <3>1. \A n \in Ids : n # file.name => leftRepair'[n] = leftRepair[n]
      BY <2>1, <2>2, <2>3 DEF Tally
    <3>2. leftRepair'[file.name] = leftRepair[file.name] + 1
      BY <2>1, <2>2, <2>3, TallyTyped
    <3> QED
      BY <2>1, <2>2, <3>1, <3>2
  <2>4. CASE file.body # "repair"
    <3>1. \A n \in Ids : leftRepair'[n] = leftRepair[n]
      BY <2>2, <2>4 DEF Tally
    <3> QED
      BY <2>1, <2>2, <2>4, <3>1
  <2> QED
    BY <2>3, <2>4
<1>40. CASE AwaitStopHook
  BY <1>40, GoTyped
  DEF AwaitStopHook
<1> QED
  BY <1>1, <1>2, <1>3, <1>4, <1>5, <1>6, <1>7, <1>8, <1>9, <1>10, <1>11, <1>12, <1>13, <1>14, <1>15, <1>16, <1>17, <1>18, <1>19, <1>20, <1>21, <1>22, <1>23, <1>24, <1>25, <1>26, <1>27, <1>28, <1>29, <1>30, <1>31, <1>32, <1>33, <1>34, <1>35, <1>36, <1>37, <1>38, <1>39, <1>40
  DEF Next, Begin, Coordinator

\* Every step keeps the marker ahead of the cheap finish.
LEMMA CheapStep ==
  ASSUME TypeOK, BodyInv, CheapInv, Next
  PROVE  CheapInv'
<1> USE RunParts, TaskRunAssumption DEF TypeOK, CheapInv, Armed, StartedOn, BodyInv, OpeningAsTask, Opening, AwaitsCheap, Review, kept, counts, work, sessions, left, bounds, At, Pcs, Buckets, States
<1>1. CASE Activate
  BY <1>1, GoTyped, FileParts, MovedTyped
  DEF Activate
<1>2. CASE RecordActive
  BY <1>2, GoTyped, RunParts
  DEF RecordActive
<1>3. CASE SkipGates
  BY <1>3, GoTyped, EndTyped
  DEF SkipGates
<1>4. CASE PreflightGuard
  BY <1>4, GoTyped, EndTyped, RunParts
  DEF PreflightGuard
<1>5. CASE Preflight
  BY <1>5, GoTyped, EndTyped, RunParts, FileParts
  DEF Preflight
<1>6. CASE PreflightVerdict
  BY <1>6, GoTyped, EndTyped
  DEF PreflightVerdict
<1>7. CASE Delegate
  BY <1>7, GoTyped, RunParts, MovedTyped
  DEF Delegate
<1>8. CASE RecordDelegated
  BY <1>8, GoTyped
  DEF RecordDelegated
<1>9. CASE PassGates
  BY <1>9, GoTyped
  DEF PassGates
<1>10. ASSUME NEW infrastructure \in BOOLEAN, Veto(infrastructure) PROVE CheapInv'
  BY <1>10, GoTyped, EndTyped, RunParts
  DEF Veto
<1>11. CASE Session
  <2>1. run' \in Run /\ run'.id = run.id /\ run'.pc \in {"toActive", "stop", "split"}
    BY <1>11, SessionTyped
  <2>2. cheap' = Count(cheap, file.body = "cheap") /\ UNCHANGED <<marker, lost, leftCheap>>
    BY <1>11 DEF Session
  <2>3. CASE file.body = "cheap"
    <3>1. AwaitsCheap \/ StartedOn("cheap")
      BY <1>11, <2>3 DEF Session, Run
    <3>2. \A n \in Ids : n # run.id => cheap'[n] = cheap[n]
      BY <2>2, <2>3, CountTyped, ZenonT(60)
    <3>3. cheap'[run.id] = cheap[run.id] + 1
      BY <2>2, <2>3, CountTyped
    <3>4. \A n \in Ids : cheap'[n] <= Armed(n)
      BY <3>1, <3>2, <3>3
    <3> QED
      BY <2>1, <2>2, <3>4
  <2>4. CASE file.body # "cheap"
    <3>1. \A n \in Ids : cheap'[n] = cheap[n]
      BY <2>2, <2>4 DEF Count, Tally
    <3> QED
      BY <2>1, <2>2, <3>1
  <2> QED
    BY <2>3, <2>4
<1>12. CASE Refused
  BY <1>12, RefusedTyped
  DEF Refused
<1>13. CASE Split
  BY <1>13, EndTyped
  DEF Split
<1>14. CASE ReturnToActive
  BY <1>14, GoTyped, RunParts
  DEF ReturnToActive
<1>15. CASE RecordBack
  BY <1>15, GoTyped
  DEF RecordBack
<1>16. CASE QualityGates
  BY <1>16, GoTyped, GatedTyped
  DEF QualityGates
<1>17. CASE Diagnose
  BY <1>17, GoTyped, EndTyped, RunParts
  DEF Diagnose
<1>18. CASE ClassifyDone
  BY <1>18, GoTyped, EndTyped
  DEF ClassifyDone
<1>19. CASE IntegrationGate
  BY <1>19, GoTyped, EndTyped
  DEF IntegrationGate
<1>20. CASE RestoreTree
  BY <1>20, EndTyped
  DEF RestoreTree
<1>21. CASE Rollback
  BY <1>21, EndTyped
  DEF Rollback
<1>22. CASE RetryGuard
  BY <1>22, GoTyped, RunParts
  DEF RetryGuard
<1>23. CASE WithoutPrompt
  BY <1>23, EndTyped, AgainTyped
  DEF WithoutPrompt
<1>24. CASE MoveToError
  BY <1>24, RunParts, FileParts, ErrorTyped
  DEF MoveToError
<1>25. CASE WriteRepairPrompt
  BY <1>25, GoTyped
  DEF WriteRepairPrompt
<1>26. CASE RecordError
  BY <1>26, RecordErrorTyped
  DEF RecordError
<1>27. CASE BeforeRepair
  BY <1>27, GoTyped, EndTyped, RunParts, FileParts, CheapBodyTyped
  DEF BeforeRepair, MayFinishCheaply
<1>28. CASE AfterVeto
  BY <1>28, EndTyped, FileParts, CheapBodyTyped
  DEF AfterVeto, MayFinishCheaply
<1>29. CASE WriteCheapPrompt
  BY <1>29, GoTyped, RunParts, NotArmedTyped
  DEF WriteCheapPrompt
<1>30. CASE ArmCheapFinish
  <2>1. run' \in Run /\ run'.id = run.id /\ run'.pc = "cheapPrepare"
    BY <1>30, ArmedTyped DEF ArmCheapFinish
  <2>2. UNCHANGED <<cheap, leftCheap>> /\ run.pc = "cheapArm" /\ ~marker[run.id]
    BY <1>30 DEF ArmCheapFinish
  <2>3. CASE marker' = [marker EXCEPT ![run.id] = TRUE] /\ UNCHANGED lost
    <3>1. marker'[run.id] /\ \A n \in Ids : n # run.id => marker'[n] = marker[n]
      BY <2>3
    <3> QED
      BY <2>1, <2>2, <2>3, <3>1
  <2>4. CASE lost' = Count(lost, TRUE) /\ UNCHANGED marker
    <3>1. lost'[run.id] = lost[run.id] + 1 /\ \A n \in Ids : n # run.id => lost'[n] = lost[n]
      BY <2>4 DEF Count, Tally
    <3>2. \A n \in Ids : lost[n] <= lost'[n] /\ lost'[n] \in Nat
      BY <3>1
    <3>3. \A n \in Ids : marker'[n] = marker[n]
      BY <2>4
    <3>4. \A n \in Ids : cheap'[n] <= Armed(n)'
      BY <2>2, <3>2, <3>3
    <3>5. cheap'[run.id] < Armed(run.id)' /\ run'.id = run.id
      BY <2>1, <2>2, <3>1, <3>3
    <3> QED
      BY <2>1, <3>4, <3>5
  <2>5. \/ marker' = [marker EXCEPT ![run.id] = TRUE] /\ UNCHANGED lost
        \/ lost' = Count(lost, TRUE) /\ UNCHANGED marker
    BY <1>30 DEF ArmCheapFinish
  <2> QED
    BY <2>3, <2>4, <2>5
<1>31. CASE PrepareCheapFinish
  BY <1>31, RunParts, NotArmedTyped, CountTyped, PreparedTyped
  DEF PrepareCheapFinish
<1>32. CASE StopRun
  BY <1>32, GoTyped, RunParts, IdleTyped
  DEF StopRun
<1>33. CASE ClearEntry
  BY <1>33, RunParts, IdleTyped
  DEF ClearEntry
<1>34. CASE Finish
  BY <1>34, GoTyped, RunParts
  DEF Finish
<1>35. CASE RecordEnd
  BY <1>35, RunParts, IdleTyped
  DEF RecordEnd
<1>36. CASE StopHook
  BY <1>36
  DEF StopHook
<1>37. CASE Crash
  BY <1>37, IdleTyped
  DEF Crash
<1>38. CASE Resubmit
  BY <1>38, FileParts
  DEF Resubmit
<1>39. ASSUME NEW entry \in {"loop", "child", "resume"}, Start(entry) PROVE CheapInv'
  <2>1. /\ run' \in Run /\ run'.id = file.name /\ file.name \in Ids
        /\ run'.pc \in {"activate", "finish"} /\ run'.mode = "task"
    BY <1>39, StartTyped, FileParts
  <2>2. leftCheap' = Tally(leftCheap, file.name, file.body = "cheap") /\ UNCHANGED <<file, marker, lost, cheap>>
    BY <1>39 DEF Start
  <2>3. CASE file.body = "cheap"
    <3>1. \A n \in Ids : n # file.name => leftCheap'[n] = leftCheap[n]
      BY <2>1, <2>2, <2>3 DEF Tally
    <3>2. leftCheap'[file.name] = leftCheap[file.name] + 1
      BY <2>1, <2>2, <2>3, TallyTyped
    <3> QED
      BY <2>1, <2>2, <3>1, <3>2
  <2>4. CASE file.body # "cheap"
    <3>1. \A n \in Ids : leftCheap'[n] = leftCheap[n]
      BY <2>2, <2>4 DEF Tally
    <3> QED
      BY <2>1, <2>2, <2>4, <3>1
  <2> QED
    BY <2>3, <2>4
<1>40. CASE AwaitStopHook
  BY <1>40, GoTyped
  DEF AwaitStopHook
<1> QED
  BY <1>1, <1>2, <1>3, <1>4, <1>5, <1>6, <1>7, <1>8, <1>9, <1>10, <1>11, <1>12, <1>13, <1>14, <1>15, <1>16, <1>17, <1>18, <1>19, <1>20, <1>21, <1>22, <1>23, <1>24, <1>25, <1>26, <1>27, <1>28, <1>29, <1>30, <1>31, <1>32, <1>33, <1>34, <1>35, <1>36, <1>37, <1>38, <1>39, <1>40
  DEF Next, Begin, Coordinator

\* Every step keeps what a run has learnt of its gates.
LEMMA CheckedStep ==
  ASSUME TypeOK, CheckedInv, Next
  PROVE  CheckedInv'
<1> USE RunParts DEF TypeOK, CheckedInv, Review, kept, counts, work, sessions, left, bounds, At, Pcs, Buckets, States
<1>1. CASE Activate
  BY <1>1, GoTyped, FileParts, MovedTyped
  DEF Activate
<1>2. CASE RecordActive
  BY <1>2, GoTyped, RunParts
  DEF RecordActive
<1>3. CASE SkipGates
  BY <1>3, GoTyped, EndTyped
  DEF SkipGates
<1>4. CASE PreflightGuard
  BY <1>4, GoTyped, EndTyped, RunParts
  DEF PreflightGuard
<1>5. CASE Preflight
  BY <1>5, GoTyped, EndTyped, RunParts, FileParts
  DEF Preflight
<1>6. CASE PreflightVerdict
  BY <1>6, GoTyped, EndTyped
  DEF PreflightVerdict
<1>7. CASE Delegate
  BY <1>7, GoTyped, RunParts, MovedTyped
  DEF Delegate
<1>8. CASE RecordDelegated
  BY <1>8, GoTyped
  DEF RecordDelegated
<1>9. CASE PassGates
  BY <1>9, GoTyped
  DEF PassGates
<1>10. ASSUME NEW infrastructure \in BOOLEAN, Veto(infrastructure) PROVE CheckedInv'
  BY <1>10, GoTyped, EndTyped, RunParts, BodyTyped, ZenonT(60)
  DEF Veto
<1>11. CASE Session
  BY <1>11, SessionTyped, CountTyped
  DEF Session
<1>12. CASE Refused
  BY <1>12, RefusedTyped
  DEF Refused
<1>13. CASE Split
  <2>1. CASE Review /\ UNCHANGED file
    BY <1>13, <2>1, EndTyped DEF Split
  <2>2. CASE End("done", "superseded") /\ file' = [file EXCEPT !.body = "superseded"]
    BY <1>13, <2>2, EndTyped, BodyTyped DEF Split, Bodies
  <2> QED
    BY <1>13, <2>1, <2>2 DEF Split
<1>14. CASE ReturnToActive
  BY <1>14, GoTyped, RunParts, MovedTyped
  DEF ReturnToActive
<1>15. CASE RecordBack
  BY <1>15, GoTyped
  DEF RecordBack
<1>16. CASE QualityGates
  <2>1. CASE Go("stop") /\ UNCHANGED checked
    BY <1>16, <2>1, GoTyped DEF QualityGates
  <2>2. ASSUME NEW green \in BOOLEAN, checked' = green,
               run' = [run EXCEPT !.pc = "diagnose", !.green = green]
        PROVE  CheckedInv'
    BY <1>16, <2>2, GatedTyped DEF QualityGates
  <2> QED
    BY <1>16, <2>1, <2>2 DEF QualityGates
<1>17. CASE Diagnose
  BY <1>17, GoTyped, EndTyped, RunParts
  DEF Diagnose
<1>18. CASE ClassifyDone
  BY <1>18, GoTyped, EndTyped
  DEF ClassifyDone
<1>19. CASE IntegrationGate
  BY <1>19, GoTyped, EndTyped
  DEF IntegrationGate
<1>20. CASE RestoreTree
  BY <1>20, EndTyped
  DEF RestoreTree
<1>21. CASE Rollback
  BY <1>21, EndTyped
  DEF Rollback
<1>22. CASE RetryGuard
  BY <1>22, GoTyped, RunParts
  DEF RetryGuard
<1>23. CASE WithoutPrompt
  BY <1>23, EndTyped, AgainTyped
  DEF WithoutPrompt
<1>24. CASE MoveToError
  BY <1>24, RunParts, FileParts, ErrorTyped, MovedTyped
  DEF MoveToError
<1>25. CASE WriteRepairPrompt
  BY <1>25, GoTyped, BodyTyped
  DEF WriteRepairPrompt
<1>26. CASE RecordError
  BY <1>26, RecordErrorTyped
  DEF RecordError
<1>27. CASE BeforeRepair
  <2>1. run' \in Run /\ (run'.pc = "finish" => run'.goal.bucket = "human-review")
    BY <1>27, EndTyped, GoTyped, CheapBodyTyped, FileParts DEF BeforeRepair
  <2>2. run'.pc \in {"finish", "guard", "cheapBody"}
    BY <1>27, EndTyped, GoTyped, CheapBodyTyped, FileParts DEF BeforeRepair
  <2>3. file'.bucket # "done"
    BY <1>27, MovedTyped DEF BeforeRepair
  <2> QED
    BY <1>27, <2>1, <2>2, <2>3 DEF BeforeRepair
<1>28. CASE AfterVeto
  BY <1>28, EndTyped, FileParts, CheapBodyTyped
  DEF AfterVeto
<1>29. CASE WriteCheapPrompt
  <2>1. file'.bucket # "done"
    BY <1>29, BodyTyped DEF WriteCheapPrompt, Body, Bodies
  <2>2. /\ run' \in Run /\ run'.pc \in {"cheapArm", "guard", "finish"}
        /\ run'.pc = "finish" => run'.goal.bucket = "human-review"
    BY <1>29, GoTyped, NotArmedTyped DEF WriteCheapPrompt
  <2> QED
    BY <1>29, <2>1, <2>2 DEF WriteCheapPrompt
<1>30. CASE ArmCheapFinish
  BY <1>30, ArmedTyped, RunParts
  DEF ArmCheapFinish
<1>31. CASE PrepareCheapFinish
  BY <1>31, RunParts, NotArmedTyped, CountTyped, PreparedTyped, BodyTyped, ZenonT(60)
  DEF PrepareCheapFinish, Body
<1>32. CASE StopRun
  BY <1>32, GoTyped, RunParts, IdleTyped, MovedTyped
  DEF StopRun
<1>33. CASE ClearEntry
  BY <1>33, RunParts, IdleTyped
  DEF ClearEntry
<1>34. CASE Finish
  BY <1>34, GoTyped, RunParts, MovedTyped
  DEF Finish
<1>35. CASE RecordEnd
  BY <1>35, RunParts, IdleTyped
  DEF RecordEnd
<1>36. CASE StopHook
  BY <1>36
  DEF StopHook
<1>37. CASE Crash
  BY <1>37, IdleTyped
  DEF Crash
<1>38. CASE Resubmit
  BY <1>38, FileParts, MovedTyped
  DEF Resubmit
<1>39. ASSUME NEW entry \in {"loop", "child", "resume"}, Start(entry) PROVE CheckedInv'
  BY <1>39, StartTyped
  DEF Start
<1>40. CASE AwaitStopHook
  BY <1>40, GoTyped
  DEF AwaitStopHook
<1> QED
  BY <1>1, <1>2, <1>3, <1>4, <1>5, <1>6, <1>7, <1>8, <1>9, <1>10, <1>11, <1>12, <1>13, <1>14, <1>15, <1>16, <1>17, <1>18, <1>19, <1>20, <1>21, <1>22, <1>23, <1>24, <1>25, <1>26, <1>27, <1>28, <1>29, <1>30, <1>31, <1>32, <1>33, <1>34, <1>35, <1>36, <1>37, <1>38, <1>39, <1>40
  DEF Next, Begin, Coordinator

-----------------------------------------------------------------------------
\* The states that go with the bucket a run ends in.
GoalOK ==
  \/ run.goal.bucket = "human-review" /\ run.goal.state \in {"human-review", "duplicate"}
  \/ run.goal.bucket = "done" /\ run.goal.state \in {"done", "superseded"}

\* A cheap finish in place of a repair that would reach the limit.
AtLimit == file.bucket = "error" /\ verdict = "repair" /\ retries[run.id] + 1 >= MaxRetries

InActive ==
  {"recordActive", "skipGates", "memo", "preflight", "verdict", "toDelegated", "recordBack", "stopWait", "gates",
   "diagnose", "classify", "integration", "restore", "beforeRepair", "prompt"}

\* Where the file of a run stands.
Placed ==
  /\ file.name = run.id
  /\ run.pc = "activate" => file.bucket \in {"queue", "error"}
  /\ run.pc \in InActive => file.bucket = "active"
  /\ run.pc = "recordDelegated" => file.bucket = "delegated"
  /\ run.pc \in {"preGates", "session", "toActive", "split"} => file.bucket \in {"delegated", "error"}
  /\ run.pc = "preGates" /\ run.mode = "repair" => file.bucket = "error"
  /\ run.pc = "guard" => file.bucket = "active" \/ AtLimit
  /\ run.pc \in {"rewrite", "recordError", "afterVeto"} => file.bucket = "error"
  /\ run.pc \in {"cheapBody", "cheapArm", "cheapPrepare"} => file.bucket = "error"
  /\ run.pc \in {"cheapBody", "cheapArm", "cheapPrepare"} /\ ~run.vetoed => AtLimit
  /\ run.pc \in {"rollback", "stop"} => file.bucket \in {"active", "delegated", "error"}
  /\ run.pc = "clear" => file.bucket = "queue"
  /\ run.pc = "finish" => GoalOK /\ file.bucket \notin {"human-review", "done"}
  /\ run.pc = "record" => GoalOK /\ file.bucket = run.goal.bucket

\* A file meets its own name nowhere, and keeps it, as long as no run has died.
RestInv == crashes = 0 => IF run.pc = "idle" THEN Resting ELSE Placed

\* Every step of a run that has not died keeps its file where it belongs.
LEMMA RestStep ==
  ASSUME TypeOK, BodyInv, RestInv, Next
  PROVE  RestInv'
<1> USE RunParts, TaskRunAssumption DEF TypeOK, RestInv, Placed, AtLimit, InActive, BodyInv, OpeningAsTask, Opening, Review, kept, counts, work, sessions, left, bounds, At, Pcs, Buckets, States
<1>1. CASE Activate
  BY <1>1, GoTyped, MovedTyped, FileParts, MovedName
  DEF Activate
<1>2. CASE RecordActive
  BY <1>2, GoTyped, RecordedTyped, RunParts
  DEF RecordActive
<1>3. CASE SkipGates
  BY <1>3, GoTyped, EndTyped
  DEF SkipGates, GoalOK
<1>4. CASE PreflightGuard
  BY <1>4, GoTyped, EndTyped, RunParts
  DEF PreflightGuard, GoalOK
<1>5. CASE Preflight
  BY <1>5, GoTyped, EndTyped, RunParts, FileParts
  DEF Preflight, GoalOK
<1>6. CASE PreflightVerdict
  BY <1>6, GoTyped, EndTyped
  DEF PreflightVerdict, GoalOK
<1>7. CASE Delegate
  BY <1>7, GoTyped, MovedTyped, RunParts, MovedName
  DEF Delegate
<1>8. CASE RecordDelegated
  BY <1>8, GoTyped, RecordedTyped
  DEF RecordDelegated
<1>9. CASE PassGates
  BY <1>9, GoTyped
  DEF PassGates
<1>10. ASSUME NEW infrastructure \in BOOLEAN, Veto(infrastructure) PROVE RestInv'
  <2>1. UNCHANGED crashes /\ run.pc = "preGates"
    BY <1>10 DEF Veto
  <2>2. /\ run' \in Run /\ run'.id = run.id
        /\ \/ run'.pc = "stop"
           \/ run'.pc = "afterVeto" /\ run.mode = "repair"
           \/ run'.pc = "finish" /\ GoalOK'
    BY <1>10, GoTyped, EndTyped DEF Veto, GoalOK
  <2>3. file'.bucket = file.bucket /\ file'.name = file.name
    <3>1. CASE run.mode = "task"
      BY <1>10, <3>1 DEF Veto
    <3>2. CASE run.mode # "task"
      <4>1. file' = [file EXCEPT !.body = run.before]
        BY <1>10, <3>2 DEF Veto
      <4> QED
        BY <4>1, BodyTyped
    <3> QED
      BY <3>1, <3>2
  <2> QED
    BY <2>1, <2>2, <2>3
<1>11. CASE Session
  BY <1>11, SessionTyped, CountTyped
  DEF Session
<1>12. CASE Refused
  BY <1>12, RefusedTyped
  DEF Refused, GoalOK
<1>13. CASE Split
  <2>1. UNCHANGED crashes /\ run.pc = "split"
    BY <1>13 DEF Split
  <2>2. run' \in Run /\ run'.id = run.id /\ run'.pc = "finish" /\ GoalOK'
    BY <1>13, EndTyped DEF Split, GoalOK
  <2>3. file'.bucket = file.bucket /\ file'.name = file.name
    BY <1>13, BodyTyped DEF Split, Bodies
  <2> QED
    BY <2>1, <2>2, <2>3
<1>14. CASE ReturnToActive
  BY <1>14, GoTyped, MovedTyped, RunParts, MovedName
  DEF ReturnToActive
<1>15. CASE RecordBack
  BY <1>15, GoTyped, RecordedTyped
  DEF RecordBack
<1>16. CASE QualityGates
  BY <1>16, GoTyped, GatedTyped
  DEF QualityGates
<1>17. CASE Diagnose
  BY <1>17, GoTyped, EndTyped, RunParts
  DEF Diagnose, GoalOK
<1>18. CASE ClassifyDone
  BY <1>18, GoTyped, EndTyped
  DEF ClassifyDone, GoalOK
<1>19. CASE IntegrationGate
  BY <1>19, GoTyped, EndTyped
  DEF IntegrationGate, GoalOK
<1>20. CASE RestoreTree
  BY <1>20, EndTyped
  DEF RestoreTree, GoalOK
<1>21. CASE Rollback
  BY <1>21, EndTyped
  DEF Rollback, GoalOK
<1>22. CASE RetryGuard
  BY <1>22, GoTyped, RunParts
  DEF RetryGuard
<1>23. CASE WithoutPrompt
  BY <1>23, EndTyped, AgainTyped
  DEF WithoutPrompt, GoalOK
<1>24. CASE MoveToError
  <2>1. UNCHANGED crashes /\ run.pc = "prompt"
    BY <1>24 DEF MoveToError
  <2>2. run' \in Run /\ run'.id = run.id /\ run'.pc = "rewrite"
    BY <1>24, ErrorTyped, FileParts DEF MoveToError
  <2>3. crashes = 0 => file'.bucket = "error" /\ file'.name = run.id
    BY <1>24, <2>1, MovedTyped, MovedName DEF MoveToError
  <2> QED
    BY <2>1, <2>2, <2>3
<1>25. CASE WriteRepairPrompt
  BY <1>25, GoTyped, BodyTyped
  DEF WriteRepairPrompt, Bodies
<1>26. CASE RecordError
  BY <1>26, RecordedTyped, RecordErrorTyped
  DEF RecordError
<1>27. CASE BeforeRepair
  <2>1. UNCHANGED <<verdict, retries, crashes>> /\ run.pc = "beforeRepair"
    BY <1>27 DEF BeforeRepair
  <2>2. CASE Review /\ UNCHANGED file
    BY <2>1, <2>2, EndTyped DEF GoalOK
  <2>3. CASE Go("guard") /\ UNCHANGED file
    BY <2>1, <2>3, GoTyped
  <2>4. ASSUME MayFinishCheaply, retries[run.id] + 1 >= MaxRetries,
               file' = IF file.bucket = "error" THEN file ELSE Moved("error", run.id),
               run' = [run EXCEPT !.pc = "cheapBody", !.before = file.body, !.vetoed = FALSE]
        PROVE  RestInv'
    <3>1. run' \in Run /\ run'.id = run.id /\ run'.pc = "cheapBody"
      BY <2>4, CheapBodyTyped, FileParts
    <3>2. crashes = 0 => file'.bucket = "error" /\ file'.name = run.id
      BY <2>1, <2>4, MovedTyped, MovedName
    <3> QED
      BY <2>1, <2>4, <3>1, <3>2 DEF MayFinishCheaply
  <2> QED
    BY <1>27, <2>2, <2>3, <2>4 DEF BeforeRepair
<1>28. CASE AfterVeto
  BY <1>28, EndTyped, FileParts, CheapBodyTyped
  DEF AfterVeto, GoalOK
<1>29. CASE WriteCheapPrompt
  <2>1. /\ run' \in Run /\ run'.id = run.id
        /\ \/ run'.pc = "cheapArm" /\ run'.vetoed = run.vetoed
           \/ run'.pc = "guard" /\ ~run.vetoed
           \/ run'.pc = "finish" /\ GoalOK'
    BY <1>29, GoTyped, NotArmedTyped DEF WriteCheapPrompt, GoalOK
  <2>2. file'.bucket = file.bucket /\ file'.name = file.name
    BY <1>29, BodyTyped, ZenonT(60) DEF WriteCheapPrompt, Body, Bodies
  <2>3. UNCHANGED <<verdict, retries, crashes>> /\ run.pc = "cheapBody"
    BY <1>29 DEF WriteCheapPrompt
  <2> QED
    BY <2>1, <2>2, <2>3
<1>30. CASE ArmCheapFinish
  BY <1>30, ArmedTyped, RunParts
  DEF ArmCheapFinish
<1>31. CASE PrepareCheapFinish
  <2>1. /\ run' \in Run /\ run'.id = run.id
        /\ \/ run'.pc = "guard" /\ ~run.vetoed
           \/ run'.pc = "finish" /\ GoalOK'
           \/ run'.pc = "preGates" /\ run'.mode = "cheap"
    BY <1>31, NotArmedTyped, PreparedTyped DEF PrepareCheapFinish, GoalOK
  <2>2. file'.bucket = file.bucket /\ file'.name = file.name
    <3>1. CASE Body(run.before)
      BY <3>1, BodyTyped DEF Body
    <3>2. CASE UNCHANGED <<file, ledger>>
      BY <3>2
    <3> QED
      BY <1>31, <3>1, <3>2 DEF PrepareCheapFinish
  <2>3. retries'[run.id] >= retries[run.id] /\ retries'[run.id] \in Nat
    <3>1. CASE UNCHANGED retries
      BY <3>1
    <3>2. CASE retries' = Count(retries, TRUE)
      <4>1. retries'[run.id] = retries[run.id] + 1
        BY <3>2, CountTyped
      <4> QED
        BY <4>1
    <3> QED
      BY <1>31, <3>1, <3>2 DEF PrepareCheapFinish
  <2>4. UNCHANGED <<verdict, crashes>> /\ run.pc = "cheapPrepare"
    BY <1>31 DEF PrepareCheapFinish
  <2> QED
    BY <2>1, <2>2, <2>3, <2>4
<1>32. CASE StopRun
  BY <1>32, GoTyped, MovedTyped, RecordedTyped, RunParts, IdleTyped, MovedName
  DEF StopRun, Resting
<1>33. CASE ClearEntry
  <2>1. run' = Idle /\ UNCHANGED <<file, prompt, crashes>> /\ run.pc = "clear"
    BY <1>33 DEF ClearEntry
  <2>2. ledger'[run.id].state = "none"
    BY <1>33 DEF ClearEntry, NoEntry, Entry
  <2>3. crashes = 0 => file.bucket = "queue" /\ file.name = run.id
    BY <2>1
  <2> QED
    BY <2>1, <2>2, <2>3, IdleTyped DEF Resting
<1>34. CASE Finish
  BY <1>34, GoTyped, MovedTyped, RunParts, MovedName
  DEF Finish, GoalOK
<1>35. CASE RecordEnd
  BY <1>35, RecordedTyped, RunParts, IdleTyped
  DEF RecordEnd, Resting, GoalOK
<1>36. CASE StopHook
  BY <1>36
  DEF StopHook, Resting, GoalOK
<1>37. CASE Crash
  BY <1>37, IdleTyped
  DEF Crash, Resting
<1>38. CASE Resubmit
  BY <1>38, MovedTyped, FileParts, MovedName
  DEF Resubmit, Resting
<1>39. ASSUME NEW entry \in {"loop", "child", "resume"}, Start(entry) PROVE RestInv'
  BY <1>39, StartTyped
  DEF Start, Resting, GoalOK
<1>40. CASE AwaitStopHook
  BY <1>40, GoTyped
  DEF AwaitStopHook
<1> QED
  BY <1>1, <1>2, <1>3, <1>4, <1>5, <1>6, <1>7, <1>8, <1>9, <1>10, <1>11, <1>12, <1>13, <1>14, <1>15, <1>16, <1>17, <1>18, <1>19, <1>20, <1>21, <1>22, <1>23, <1>24, <1>25, <1>26, <1>27, <1>28, <1>29, <1>30, <1>31, <1>32, <1>33, <1>34, <1>35, <1>36, <1>37, <1>38, <1>39, <1>40
  DEF Next, Begin, Coordinator

-----------------------------------------------------------------------------
(* The theorems.                                                            *)

IInv == TypeOK /\ BodyInv /\ BudgetInv /\ CheapInv /\ CheckedInv /\ RestInv

LEMMA InitIInv == Init => IInv
<1> SUFFICES ASSUME Init PROVE IInv
  OBVIOUS
<1>1. 0 \in Ids
  BY TaskRunAssumption DEF Ids
<1>2. run \in Run /\ run.pc = "idle"
  BY IdleTyped DEF Init
<1>3. file \in File /\ file.bucket = "queue"
  BY <1>1, TaskRunAssumption DEF Init, File, Buckets, Bodies
<1>4. ledger \in [Ids -> Entries]
  BY EntryTyped DEF Init
<1>5. TypeOK
  <2>1. starts \in 0 .. MaxStarts /\ crashes \in 0 .. MaxCrashes
    BY TaskRunAssumption DEF Init
  <2>2. /\ retries \in [Ids -> Nat] /\ repairs \in [Ids -> Nat] /\ cheap \in [Ids -> Nat]
        /\ lost \in [Ids -> Nat] /\ leftRepair \in [Ids -> Nat] /\ leftCheap \in [Ids -> Nat]
        /\ copy \in BOOLEAN
    BY DEF Init
  <2>3. marker \in [Ids -> BOOLEAN] /\ prompt \in [Ids -> BOOLEAN]
    BY DEF Init
  <2>4. memo \in [Ids -> Bodies \cup {NoBody}] /\ verdict \in Verdicts
    BY DEF Init, Verdicts
  <2>5. dirty \in BOOLEAN /\ hook \in BOOLEAN /\ commits \subseteq {"run", "window"} /\ checked \in BOOLEAN
    BY DEF Init
  <2>6. startOf \in Ids
    BY <1>1 DEF Init
  <2> QED
    BY <1>2, <1>3, <1>4, <2>1, <2>2, <2>3, <2>4, <2>5, <2>6 DEF TypeOK
<1>6. BudgetInv
  BY <1>2, TaskRunAssumption
  DEF Init, BudgetInv, Allowed, StartedOn, Opening, AwaitsRepair, Deciding
<1>7. CheapInv
  BY <1>2 DEF Init, CheapInv, Armed, StartedOn, Opening, AwaitsCheap
<1>8. CheckedInv
  BY <1>2, <1>3 DEF CheckedInv
<1>9. RestInv
  <2>1. ledger[file.name].state = "none"
    BY <1>1 DEF Init, NoEntry, Entry
  <2> QED
    BY <1>2, <1>3, <2>1 DEF RestInv, Resting
<1>10. BodyInv
  BY <1>2 DEF BodyInv, OpeningAsTask, Opening
<1> QED
  BY <1>5, <1>6, <1>7, <1>8, <1>9, <1>10 DEF IInv

LEMMA StutterIInv ==
  ASSUME IInv, UNCHANGED vars
  PROVE  IInv'
<1>1. TypeOK'
  BY DEF IInv, TypeOK, vars, kept, counts, work, sessions, left, bounds
<1>2. BudgetInv'
  BY DEF IInv, BudgetInv, Allowed, StartedOn, AwaitsRepair, vars, kept, counts, work, sessions, left, bounds
<1>3. CheapInv'
  BY DEF IInv, CheapInv, Armed, StartedOn, AwaitsCheap, vars, kept, counts, work, sessions, left, bounds
<1>4. CheckedInv'
  BY DEF IInv, CheckedInv, vars, kept, counts, work, sessions, left, bounds
<1>5. RestInv'
  BY DEF IInv, RestInv, Resting, Placed, AtLimit, GoalOK, vars, kept, counts, work, sessions, left, bounds
<1>6. BodyInv'
  BY DEF IInv, BodyInv, OpeningAsTask, vars, kept, counts, work, sessions, left, bounds
<1> QED
  BY <1>1, <1>2, <1>3, <1>4, <1>5, <1>6 DEF IInv

\* The inductive invariant of the run of a task.
THEOREM Invariance == Spec => []IInv
<1>1. Init => IInv
  BY InitIInv
<1>2. IInv /\ [Next]_vars => IInv'
  <2> SUFFICES ASSUME IInv, [Next]_vars PROVE IInv'
    OBVIOUS
  <2>1. CASE Next
    BY <2>1, TypedStep, BodyStep, BudgetStep, CheapStep, CheckedStep, RestStep DEF IInv
  <2>2. CASE UNCHANGED vars
    BY <2>2, StutterIInv
  <2> QED
    BY <2>1, <2>2
<1> QED
  BY <1>1, <1>2, PTL DEF Spec

\* The variables of a task run keep their types (TypeOK of run-coordinator.ts and its modules).
THEOREM TypeCorrect == Spec => []TypeOK
<1>1. IInv => TypeOK
  BY DEF IInv
<1> QED
  BY <1>1, Invariance, PTL

\* In one runtime root at most MaxRetries - 1 sessions get a repair prompt for one task id, and one
\* more for each run that was started on a left-over one, whatever dies or fails and for every
\* retry limit (retry-guard counts before the dispatch it allows, retry-guard.ts, repair-task.ts).
THEOREM RepairsAreBounded == Spec => []RepairsBounded
<1>1. IInv => RepairsBounded
  BY TaskRunAssumption DEF IInv, TypeOK, BudgetInv, Allowed, RepairsBounded
<1> QED
  BY <1>1, Invariance, PTL

\* In one runtime root there is at most one cheap finish per task id in any number of runs, crashes
\* included, beyond those whose marker could not be written and those left over as the task (the
\* marker is written before what it allows, run-coordinator-cheap-finish.ts, cheap-finish-adapters.ts).
THEOREM CheapFinishIsOnce == Spec => []CheapFinishOnce
<1>1. IInv => CheapFinishOnce
  BY DEF IInv, TypeOK, CheapInv, Armed, CheapFinishOnce
<1> QED
  BY <1>1, Invariance, PTL

\* A task rests in done only with green gates after its last session, or split (verify-task.ts,
\* skip-dispatch.ts), in any number of runs.
THEOREM DoneIsChecked == Spec => []DoneOnlyWhenChecked
<1>1. IInv => DoneOnlyWhenChecked
  BY DEF IInv, CheckedInv, DoneOnlyWhenChecked
<1> QED
  BY <1>1, Invariance, PTL

\* While no run has died, a task rests where its ledger says, in any number of runs (stopRun,
\* applyTerminal): a file of a run never meets its own name, so the id it is recorded under is its own.
THEOREM LedgerAgrees == Spec => []RestsWhereLedgerSays
<1>1. IInv => RestsWhereLedgerSays
  BY DEF IInv, RestInv, RestsWhereLedgerSays, At
<1> QED
  BY <1>1, Invariance, PTL

=============================================================================
