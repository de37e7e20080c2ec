------------------------------ MODULE TaskRun ------------------------------
(***************************************************************************)
(* The run of one task by its coordinator                                  *)
(* (src/application/task-execution/run-coordinator.ts and the modules it   *)
(* calls): activation, preflight, dispatch of an agent session,            *)
(* verification, repair rounds, the one cheap finish, and the terminal     *)
(* transitions; with crashes between any two steps, infrastructure         *)
(* failures and a stop hook that commits late.                             *)
(*                                                                         *)
(* There is one task file.  A move to a path that is taken appends a       *)
(* suffix, so a file has a copy number, and the task id follows the name:  *)
(* what is kept per id (ledger, retry count, cheap finish marker, repair   *)
(* prompt, preflight memo) is a function of the number.  A run that died   *)
(* is taken up again by start, the only entry the loop calls               *)
(* (src/composition/cli/commands-ops.ts:334).                              *)
(*                                                                         *)
(* The model is of ONE runtime root: the project's own, or that of a       *)
(* worktree copy, which a wave throws away with the copy.  Another attempt *)
(* in another copy begins with Init again, and with empty counters.        *)
(***************************************************************************)
EXTENDS Integers

CONSTANTS
    MaxRetries,  \* MAX_RETRIES_PER_ERROR
    CopyBodies,  \* what the task file of a worktree copy may hold at first
    MaxCopies,   \* bound: suffixes of the file name
    MaxStarts,   \* bound: runs
    MaxCrashes   \* bound: runs that die

ASSUME TaskRunAssumption ==
    /\ CopyBodies \subseteq {"task", "repair", "cheap"}
    /\ MaxRetries \in Nat \ {0} /\ MaxCopies \in Nat
    /\ MaxStarts \in Nat /\ MaxCrashes \in Nat

VARIABLES
    file,      \* the task file: bucket, copy number, kind of body
    ledger,    \* task-ledger.json, by id
    retries,   \* retry-counts.json, by id
    marker,    \* the cheap finish marker, by id
    prompt,    \* whether there is a task-scoped repair prompt, by id
    memo,      \* the body for which preflight failed, by id
    verdict,   \* of supervisor/decision.json
    dirty,     \* uncommitted product changes in the tree
    hook,      \* a stop hook that has not finished
    commits,   \* where a product commit is seen: since the head of this run, since the task start
    startOf,   \* the id task-start-status.json was written for
    run,       \* the coordinator
    copy,      \* the runtime root is that of a worktree copy
    starts, crashes,
    repairs,   \* history: sessions whose prompt is that of a repair, by id
    cheap,     \* history: sessions whose prompt is that of the cheap finish, by id
    leftRepair, leftCheap, \* history: runs started on such a prompt, left behind as the task
    lost,      \* history: cheap finish markers that could not be written, by id
    checked    \* history: quality gates have been green since the last session

kept == <<ledger, memo>>
counts == <<retries, marker>>
work == <<dirty, hook, commits, startOf>>
sessions == <<repairs, cheap, lost>>
left == <<leftRepair, leftCheap>>
bounds == <<copy, left, starts, crashes>>

vars == <<file, kept, counts, prompt, verdict, work, run, bounds, sessions, checked>>

Ids == 0 .. MaxCopies

Buckets == {"queue", "active", "delegated", "error", "human-review", "done"}

Bodies == {"task", "repair", "cheap", "superseded"}

File == [bucket : Buckets, name : Ids, body : Bodies]

NoBody == "none"

States == {"none", "active", "delegated", "error", "human-review", "done", "duplicate", "superseded"}

Verdicts == {"none", "delegate", "done", "repair", "rollback_stop", "invalid"}

Pcs == {"idle", "activate", "recordActive", "skipGates", "memo", "preflight", "verdict",
        "toDelegated", "recordDelegated", "preGates", "session", "split", "toActive",
        "recordBack", "stopWait", "gates", "diagnose", "classify", "integration", "restore", "beforeRepair",
        "guard", "prompt", "rewrite", "recordError", "afterVeto", "cheapBody", "cheapArm",
        "cheapPrepare", "rollback", "stop", "clear", "finish", "record"}

Entries == [state : States, body : Bodies \cup {NoBody}]

Entry(name, ledgerState) == [state |-> ledgerState, body |-> name]

NoEntry == Entry(NoBody, "none")

\* What TaskRunState holds besides the paths: mode says which prompt is dispatched.
Run == [pc : Pcs, id : Ids, mode : {"task", "repair", "cheap"}, entry : {"loop", "child", "resume"},
        goal : [bucket : Buckets, state : States], before : Bodies,
        skip : BOOLEAN, green : BOOLEAN, rechecked : BOOLEAN,
        armed : BOOLEAN, used : BOOLEAN, vetoed : BOOLEAN]

Idle == [pc |-> "idle", id |-> 0, mode |-> "task", entry |-> "resume",
         goal |-> [bucket |-> "queue", state |-> "none"], before |-> "task",
         skip |-> FALSE, green |-> FALSE, rechecked |-> FALSE,
         armed |-> FALSE, used |-> FALSE, vetoed |-> FALSE]

TypeOK ==
    /\ file \in File /\ ledger \in [Ids -> Entries]
    /\ retries \in [Ids -> Nat] /\ marker \in [Ids -> BOOLEAN] /\ prompt \in [Ids -> BOOLEAN]
    /\ memo \in [Ids -> Bodies \cup {NoBody}] /\ verdict \in Verdicts
    /\ dirty \in BOOLEAN /\ hook \in BOOLEAN /\ commits \subseteq {"run", "window"} /\ startOf \in Ids
    /\ run \in Run /\ starts \in 0 .. MaxStarts /\ crashes \in 0 .. MaxCrashes
    /\ repairs \in [Ids -> Nat] /\ cheap \in [Ids -> Nat] /\ lost \in [Ids -> Nat]
    /\ leftRepair \in [Ids -> Nat] /\ leftCheap \in [Ids -> Nat]
    /\ copy \in BOOLEAN /\ checked \in BOOLEAN

\* A copy gets the task file as it lies in the queue, with what an earlier attempt left in it.
Init ==
    /\ copy \in BOOLEAN
    /\ \E body \in (IF copy THEN CopyBodies ELSE {"task"}) :
          file = [bucket |-> "queue", name |-> 0, body |-> body]
    /\ ledger = [n \in Ids |-> NoEntry] /\ retries = [n \in Ids |-> 0]
    /\ marker = [n \in Ids |-> FALSE] /\ prompt = [n \in Ids |-> FALSE]
    /\ memo = [n \in Ids |-> NoBody] /\ verdict = "none"
    /\ dirty = FALSE /\ hook = FALSE /\ commits = {} /\ startOf = 0
    /\ run = Idle /\ starts = 0 /\ crashes = 0
    /\ repairs = [n \in Ids |-> 0] /\ cheap = [n \in Ids |-> 0] /\ lost = [n \in Ids |-> 0]
    /\ leftRepair = [n \in Ids |-> 0] /\ leftCheap = [n \in Ids |-> 0]
    /\ checked = FALSE

-----------------------------------------------------------------------------
(* Steps of a run.                                                          *)

At(pc) == run.pc = pc

Go(pc) == run' = [run EXCEPT !.pc = pc]

End(bucket, ledgerState) ==
    run' = [run EXCEPT !.pc = "finish", !.goal = [bucket |-> bucket, state |-> ledgerState]]

Review == End("human-review", "human-review")

\* uniquePathUnderLock: the target of a move that is the file itself is taken.
Copy(n) == IF n < MaxCopies THEN n + 1 ELSE n

Moved(bucket, name) ==
    [file EXCEPT !.bucket = bucket,
                 !.name = IF file.bucket = bucket /\ file.name = name THEN Copy(name) ELSE name]

Recorded(ledgerState) == [ledger EXCEPT ![run.id] = Entry(file.body, ledgerState)]

\* taskCommittedProductWorkSha: a product commit after the start recorded for this id.
Evidence(id) == startOf = id /\ "window" \in commits

-----------------------------------------------------------------------------
(* start: from the queue, or with a file that an earlier run left behind.   *)

Tally(history, n, here) == [history EXCEPT ![n] = IF here THEN @ + 1 ELSE @]

Count(history, here) == Tally(history, run.id, here)

\* createTaskRunState and seenBefore.  Only queued tasks have the cheap finish port, and only
\* those the loop runs in its own process the review of preserved work; a child runs in a copy,
\* where nothing is taken up again.
Start(entry) ==
    /\ At("idle") /\ starts < MaxStarts
    /\ file.bucket \in {"queue", "active", "delegated", "error"}
    /\ (entry = "resume") = (file.bucket # "queue")
    /\ (entry = "child") = copy
    /\ starts' = starts + 1
    /\ leftRepair' = Tally(leftRepair, file.name, file.body = "repair")
    /\ leftCheap' = Tally(leftCheap, file.name, file.body = "cheap")
    /\ commits' = commits \ {"run"}
    /\ LET seen == ledger[file.name] = Entry(file.body, "done") IN
       run' = [Idle EXCEPT !.pc = IF seen THEN "finish" ELSE "activate",
                           !.id = file.name, !.entry = entry,
                           !.goal = [bucket |-> "human-review", state |-> "duplicate"],
                           !.skip = Evidence(file.name) /\ ~dirty]
    /\ UNCHANGED <<file, kept, counts, prompt, verdict, dirty, hook, startOf, copy, crashes, sessions, checked>>

\* activateQueued: a file that is in active already gets a suffix.
Activate ==
    /\ At("activate")
    /\ file' = Moved("active", file.name)
    /\ Go("recordActive")
    /\ UNCHANGED <<kept, counts, prompt, verdict, work, bounds, sessions, checked>>

RecordActive ==
    /\ At("recordActive")
    /\ startOf' = run.id /\ commits' = commits \ {"window"}
    /\ ledger' = Recorded("active")
    /\ Go(IF run.skip THEN "skipGates" ELSE "memo")
    /\ UNCHANGED <<file, memo, counts, prompt, verdict, dirty, hook, bounds, sessions, checked>>

\* confirmSkippedDispatch: the committed work of an earlier attempt replaces the session, not
\* the checks.
SkipGates ==
    /\ At("skipGates")
    /\ \/ Go("stop") /\ UNCHANGED checked
       \/ End("done", "done") /\ checked' = TRUE
       \/ Go("memo") /\ checked' = FALSE
    /\ UNCHANGED <<file, kept, counts, prompt, verdict, work, bounds, sessions>>

\* preflightRetryGuard; a memo expires after a day.
PreflightGuard ==
    /\ At("memo")
    /\ \/ memo[run.id] = file.body /\ Review /\ UNCHANGED memo
       \/ memo[run.id] # file.body /\ Go("preflight") /\ UNCHANGED memo
       \/ memo[run.id] # NoBody /\ Go("preflight") /\ memo' = [memo EXCEPT ![run.id] = NoBody]
    /\ UNCHANGED <<file, ledger, counts, prompt, verdict, work, bounds, sessions, checked>>

Preflight ==
    /\ At("preflight")
    /\ \/ Go("stop") /\ UNCHANGED <<memo, verdict>>
       \/ Review /\ memo' = [memo EXCEPT ![run.id] = file.body] /\ UNCHANGED verdict
       \/ /\ Go("verdict") /\ memo' = [memo EXCEPT ![run.id] = NoBody]
          /\ verdict' \in {"delegate", "rollback_stop", "invalid"}
    /\ UNCHANGED <<file, ledger, counts, prompt, work, bounds, sessions, checked>>

\* handlePreflightVerdict; children the decision asks for may be refused.
PreflightVerdict ==
    /\ At("verdict")
    /\ \/ verdict = "delegate" /\ Go("toDelegated")
       \/ Review
    /\ UNCHANGED <<file, kept, counts, prompt, verdict, work, bounds, sessions, checked>>

Delegate ==
    /\ At("toDelegated")
    /\ file' = Moved("delegated", run.id)
    /\ Go("recordDelegated")
    /\ UNCHANGED <<kept, counts, prompt, verdict, work, bounds, sessions, checked>>

RecordDelegated ==
    /\ At("recordDelegated")
    /\ ledger' = Recorded("delegated")
    /\ Go("preGates")
    /\ UNCHANGED <<file, memo, counts, prompt, verdict, work, bounds, sessions, checked>>

-----------------------------------------------------------------------------
(* dispatchTask.                                                            *)

\* runPreDispatchGates passes.
PassGates ==
    /\ At("preGates")
    /\ Go("session")
    /\ UNCHANGED <<file, kept, counts, prompt, verdict, work, bounds, sessions, checked>>

\* A veto before the session.  A repair and a cheap finish put back the body they replaced;
\* a repair that the budget vetoed may still be finished cheaply.
Veto(infrastructure) ==
    /\ At("preGates")
    /\ IF run.mode = "task"
       THEN UNCHANGED <<file, ledger>>
       ELSE /\ file' = [file EXCEPT !.body = run.before]
            /\ ledger' = [ledger EXCEPT ![run.id] = Entry(run.before, "error")]
    /\ IF infrastructure THEN Go("stop")
       ELSE IF run.mode = "repair" THEN Go("afterVeto")
       ELSE Review
    /\ UNCHANGED <<memo, counts, prompt, verdict, work, bounds, sessions, checked>>

\* claude-dispatch runs the agent.  It may write, commit, and leave a stop hook behind; then it
\* ends well, or with a failure of the infrastructure, a timeout among them.
Session ==
    /\ At("session")
    /\ repairs' = Count(repairs, file.body = "repair")
    /\ cheap' = Count(cheap, file.body = "cheap")
    /\ dirty' \in {dirty, TRUE} /\ hook' \in BOOLEAN
    /\ commits' \in {commits, {"run", "window"}}
    /\ checked' = FALSE
    /\ \E next \in {"toActive", "stop", "split"} :
          /\ next = "split" => run.entry # "resume" /\ run.mode # "cheap" /\ retries[run.id] >= 2
          /\ run' = [run EXCEPT !.pc = next, !.used = @ \/ run.mode = "cheap"]
    /\ UNCHANGED <<file, kept, counts, prompt, verdict, startOf, lost, bounds>>

\* claude-dispatch refuses to start (a usage error): nothing ran, and the prompt stays.
Refused ==
    /\ At("session")
    /\ run' = [run EXCEPT !.pc = "finish", !.used = @ \/ run.mode = "cheap",
                          !.goal = [bucket |-> "human-review", state |-> "human-review"]]
    /\ UNCHANGED <<file, kept, counts, prompt, verdict, work, bounds, sessions, checked>>

\* routeRuntimeOversizeTimeout and applySplitSupersede: a second timeout ends the run, split
\* into children when the task can be divided.
Split ==
    /\ At("split")
    /\ \/ Review /\ UNCHANGED file
       \/ End("done", "superseded") /\ file' = [file EXCEPT !.body = "superseded"]
    /\ UNCHANGED <<kept, counts, prompt, verdict, work, bounds, sessions, checked>>

ReturnToActive ==
    /\ At("toActive")
    /\ file' = Moved("active", run.id)
    /\ Go("recordBack")
    /\ UNCHANGED <<kept, counts, prompt, verdict, work, bounds, sessions, checked>>

RecordBack ==
    /\ At("recordBack")
    /\ ledger' = Recorded("active")
    /\ Go("stopWait")
    /\ UNCHANGED <<file, memo, counts, prompt, verdict, work, bounds, sessions, checked>>

-----------------------------------------------------------------------------
(* verifyTask.                                                              *)

\* waitForOwnStopBridgeDone: the window closes when the hook of this session is done, and on
\* time if it is not.
AwaitStopHook ==
    /\ At("stopWait")
    /\ Go("gates")
    /\ UNCHANGED <<file, kept, counts, prompt, verdict, work, bounds, sessions, checked>>

\* quality-gates, which a session's own commits and a late hook may still change.
QualityGates ==
    /\ At("gates")
    /\ \/ Go("stop") /\ UNCHANGED checked
       \/ \E green \in BOOLEAN :
             /\ run' = [run EXCEPT !.pc = "diagnose", !.green = green]
             /\ checked' = green
    /\ UNCHANGED <<file, kept, counts, prompt, verdict, work, bounds, sessions>>

\* claude-diagnose writes the decision, then the repair prompt, empty unless it asks for a
\* repair.  The loop may go by a decision that is no longer current (repair-task.ts:50).
Diagnose ==
    /\ At("diagnose")
    /\ \/ Go("stop") /\ UNCHANGED <<prompt, verdict>>
       \/ Review /\ UNCHANGED <<prompt, verdict>>
       \/ /\ verdict' \in {"done", "repair", "rollback_stop", "invalid"}
          /\ \E written \in BOOLEAN :
                /\ written => verdict' = "repair"
                /\ prompt' = [prompt EXCEPT ![run.id] = written]
          /\ \/ verdict' = "done" /\ Go("classify")
             \/ verdict' \in {"repair", "done"} /\ Go("beforeRepair")
             \/ verdict' = "rollback_stop" /\ (IF run.used THEN Review ELSE Go("rollback"))
             \/ verdict' = "invalid" /\ Review
    /\ UNCHANGED <<file, kept, counts, work, bounds, sessions, checked>>

\* Mutant: the verdict of the diagnosis is enough, whatever the quality gates said.
ClassifyDoneUngated ==
    /\ At("classify")
    /\ \E stopFailed \in BOOLEAN :
          IF stopFailed THEN Review
          ELSE IF "run" \in commits THEN Go("integration")
          ELSE Go("restore")
    /\ UNCHANGED <<file, kept, counts, prompt, verdict, work, bounds, sessions, checked>>

\* classifyDoneVerdict, with resolveNoCommitDisposition: implemented and audit are the markers
\* in the session log, silent that it shows no writes.
ClassifyDone ==
    /\ At("classify")
    /\ \E stopFailed, implemented, audit, silent \in BOOLEAN :
          IF ~run.green \/ stopFailed THEN Review
          ELSE IF "run" \in commits THEN Go("integration")
          ELSE IF \/ audit /\ silent /\ ~dirty
                  \/ implemented /\ (Evidence(run.id) \/ (silent /\ ~dirty))
                  \/ ~implemented /\ ~dirty /\ Evidence(run.id)
               THEN End("done", "done")
               ELSE Go("restore")
    /\ UNCHANGED <<file, kept, counts, prompt, verdict, work, bounds, sessions, checked>>

\* runDoneIntegrationGate.
IntegrationGate ==
    /\ At("integration")
    /\ \/ Go("stop")
       \/ Review
       \/ End("done", "done")
    /\ UNCHANGED <<file, kept, counts, prompt, verdict, work, bounds, sessions, checked>>

\* rollback-stable, which keeps the changes under a ref of its own, or fails.
RolledBack ==
    /\ dirty' = FALSE
    /\ UNCHANGED <<hook, commits, startOf>>

\* The no-commit branch of classifyDoneVerdict: preserved work whose checks pass closes the task.
RestoreTree ==
    /\ At("restore")
    /\ \/ Review /\ UNCHANGED work
       \/ Review /\ RolledBack
       \/ dirty /\ run.entry = "loop" /\ End("done", "done") /\ RolledBack
    /\ UNCHANGED <<file, kept, counts, prompt, verdict, bounds, sessions, checked>>

\* The rollback of a diagnosis that stops the task, and of the retry limit.
Rollback ==
    /\ At("rollback")
    /\ \/ Review /\ UNCHANGED work
       \/ Review /\ RolledBack
    /\ UNCHANGED <<file, kept, counts, prompt, verdict, bounds, sessions, checked>>

-----------------------------------------------------------------------------
(* repairTask.                                                              *)

\* Mutant: the limit is passed, not reached.
RetryGuardLate ==
    /\ At("guard")
    /\ \/ Go("stop") /\ UNCHANGED retries
       \/ verdict # "repair" /\ Go("prompt") /\ UNCHANGED retries
       \/ /\ verdict = "repair"
          /\ retries' = [retries EXCEPT ![run.id] = @ + 1]
          /\ Go(IF retries[run.id] + 1 > MaxRetries THEN "rollback" ELSE "prompt")
       \/ Go("rollback") /\ UNCHANGED retries
    /\ UNCHANGED <<file, kept, marker, prompt, verdict, work, bounds, sessions, checked>>

\* retry-guard counts the dispatch that follows, before it; the limit rolls back, and so does a
\* decision that cannot be read or a task id that is missing.
RetryGuard ==
    /\ At("guard")
    /\ \/ Go("stop") /\ UNCHANGED retries
       \/ verdict # "repair" /\ Go("prompt") /\ UNCHANGED retries
       \/ /\ verdict = "repair"
          /\ retries' = [retries EXCEPT ![run.id] = @ + 1]
          /\ Go(IF retries[run.id] + 1 >= MaxRetries THEN "rollback" ELSE "prompt")
       \/ Go("rollback") /\ UNCHANGED retries
    /\ UNCHANGED <<file, kept, marker, prompt, verdict, work, bounds, sessions, checked>>

\* Mutant: the second look at a success is not remembered.
WithoutPromptAgain ==
    /\ At("prompt") /\ ~prompt[run.id]
    /\ IF run.green /\ verdict = "done" THEN Go("stopWait") ELSE Review
    /\ UNCHANGED <<file, kept, counts, prompt, verdict, work, bounds, sessions, checked>>

\* isMisroutedSuccess: without a prompt, a success is verified once more.
WithoutPrompt ==
    /\ At("prompt") /\ ~prompt[run.id]
    /\ IF run.green /\ ~run.rechecked /\ verdict = "done"
       THEN run' = [run EXCEPT !.pc = "stopWait", !.rechecked = TRUE]
       ELSE Review
    /\ UNCHANGED <<file, kept, counts, prompt, verdict, work, bounds, sessions, checked>>

\* The body is read, then the file moves.
MoveToError ==
    /\ At("prompt") /\ prompt[run.id]
    /\ file' = Moved("error", run.id)
    /\ run' = [run EXCEPT !.pc = "rewrite", !.before = file.body]
    /\ UNCHANGED <<kept, counts, prompt, verdict, work, bounds, sessions, checked>>

WriteRepairPrompt ==
    /\ At("rewrite")
    /\ file' = [file EXCEPT !.body = "repair"]
    /\ Go("recordError")
    /\ UNCHANGED <<kept, counts, prompt, verdict, work, bounds, sessions, checked>>

RecordError ==
    /\ At("recordError")
    /\ ledger' = Recorded("error")
    /\ run' = [run EXCEPT !.pc = "preGates", !.mode = "repair"]
    /\ UNCHANGED <<file, memo, counts, prompt, verdict, work, bounds, sessions, checked>>

-----------------------------------------------------------------------------
(* tryCheapFinish: one cheap session for a task that a limit stops with its *)
(* work nearly done.                                                        *)

\* decideCheapFinish, but for the reason of the diagnosis.
MayFinishCheaply ==
    /\ run.entry # "resume" /\ ~run.armed /\ ~run.used
    /\ verdict = "repair" /\ ~marker[run.id]
    /\ (dirty \/ Evidence(run.id))

\* The loop's own check, and the cheap finish in place of a repair that would reach the limit.
BeforeRepair ==
    /\ At("beforeRepair")
    /\ \/ run.used /\ Review /\ UNCHANGED file
       \/ ~run.used /\ Go("guard") /\ UNCHANGED file
       \/ /\ MayFinishCheaply /\ retries[run.id] + 1 >= MaxRetries
          /\ file' = IF file.bucket = "error" THEN file ELSE Moved("error", run.id)
          /\ run' = [run EXCEPT !.pc = "cheapBody", !.before = file.body, !.vetoed = FALSE]
    /\ UNCHANGED <<kept, counts, prompt, verdict, work, bounds, sessions, checked>>

\* After a budget veto the file stands in error with the body put back.
AfterVeto ==
    /\ At("afterVeto")
    /\ \/ Review
       \/ /\ MayFinishCheaply
          /\ run' = [run EXCEPT !.pc = "cheapBody", !.before = file.body, !.vetoed = TRUE]
    /\ UNCHANGED <<file, kept, counts, prompt, verdict, work, bounds, sessions, checked>>

\* The usual path when the cheap finish cannot be prepared.
NotArmed(r) ==
    IF run.vetoed
    THEN [r EXCEPT !.pc = "finish", !.goal = [bucket |-> "human-review", state |-> "human-review"]]
    ELSE [r EXCEPT !.pc = "guard"]

Body(body) ==
    /\ file' = [file EXCEPT !.body = body]
    /\ ledger' = [ledger EXCEPT ![run.id] = Entry(body, "error")]

\* publishTaskBody, and its context pack, without which the body is put back.
WriteCheapPrompt ==
    /\ At("cheapBody")
    /\ \/ Body("cheap") /\ Go("cheapArm")
       \/ Body(run.before) /\ run' = NotArmed(run)
    /\ UNCHANGED <<memo, counts, prompt, verdict, work, bounds, sessions, checked>>

\* Mutant: only the run remembers that it was armed.
ArmInMemory ==
    /\ At("cheapArm")
    /\ run' = [run EXCEPT !.pc = "cheapPrepare", !.armed = TRUE]
    /\ UNCHANGED <<file, kept, counts, prompt, verdict, work, bounds, sessions, checked>>

\* The durable marker comes before what it allows; when it cannot be written that is logged, and
\* the run goes on.
ArmCheapFinish ==
    /\ At("cheapArm")
    /\ \/ marker' = [marker EXCEPT ![run.id] = TRUE] /\ UNCHANGED lost
       \/ lost' = Count(lost, TRUE) /\ UNCHANGED marker
    /\ run' = [run EXCEPT !.pc = "cheapPrepare", !.armed = TRUE]
    /\ UNCHANGED <<file, kept, retries, prompt, verdict, work, bounds, repairs, cheap, checked>>

\* prepareDispatch counts a retry, and may fail before or after that.  The decision it writes is
\* the attempt's own; supervisor/decision.json, which the guard reads, stays.
PrepareCheapFinish ==
    /\ At("cheapPrepare")
    /\ \/ Body(run.before) /\ run' = NotArmed(run) /\ retries' \in {retries, Count(retries, TRUE)}
       \/ /\ run' = [run EXCEPT !.pc = "preGates", !.mode = "cheap"]
          /\ retries' = Count(retries, TRUE) /\ UNCHANGED <<file, ledger>>
    /\ UNCHANGED <<memo, marker, prompt, verdict, work, bounds, sessions, checked>>

-----------------------------------------------------------------------------
(* The ends of a run.                                                       *)

\* stopRun: a repair in error is kept there, anything else returns to the queue.
StopRun ==
    /\ At("stop")
    /\ IF file.bucket = "error" /\ prompt[run.id]
       THEN ledger' = Recorded("error") /\ run' = Idle /\ UNCHANGED file
       ELSE file' = Moved("queue", run.id) /\ Go("clear") /\ UNCHANGED ledger
    /\ UNCHANGED <<memo, counts, prompt, verdict, work, bounds, sessions, checked>>

\* Mutant: the bucket's name is recorded in place of a state.
RecordQueued ==
    /\ At("clear")
    /\ ledger' = Recorded("queue")
    /\ run' = Idle
    /\ UNCHANGED <<file, memo, counts, prompt, verdict, work, bounds, sessions, checked>>

\* Mutant: the entry of a task that returns to the queue stays.
KeepEntry ==
    /\ At("clear")
    /\ run' = Idle
    /\ UNCHANGED <<file, kept, counts, prompt, verdict, work, bounds, sessions, checked>>

ClearEntry ==
    /\ At("clear")
    /\ ledger' = [ledger EXCEPT ![run.id] = NoEntry]
    /\ run' = Idle
    /\ UNCHANGED <<file, memo, counts, prompt, verdict, work, bounds, sessions, checked>>

\* finishKnownTaskState; a duplicate is only moved.
Finish ==
    /\ At("finish")
    /\ file' = Moved(run.goal.bucket, run.id)
    /\ prompt' = IF run.goal.state = "duplicate" THEN prompt ELSE [prompt EXCEPT ![run.id] = FALSE]
    /\ Go("record")
    /\ UNCHANGED <<kept, counts, verdict, work, bounds, sessions, checked>>

RecordEnd ==
    /\ At("record")
    /\ ledger' = Recorded(run.goal.state)
    /\ run' = Idle
    /\ UNCHANGED <<file, memo, counts, prompt, verdict, work, bounds, sessions, checked>>

Coordinator ==
    \/ Activate \/ RecordActive \/ SkipGates \/ PreflightGuard \/ Preflight
    \/ PreflightVerdict \/ Delegate \/ RecordDelegated
    \/ PassGates \/ (\E infrastructure \in BOOLEAN : Veto(infrastructure))
    \/ Session \/ Refused \/ Split \/ ReturnToActive \/ RecordBack
    \/ AwaitStopHook
    \/ QualityGates \/ Diagnose \/ ClassifyDone \/ IntegrationGate \/ RestoreTree \/ Rollback
    \/ RetryGuard \/ WithoutPrompt \/ MoveToError \/ WriteRepairPrompt \/ RecordError
    \/ BeforeRepair \/ AfterVeto \/ WriteCheapPrompt \/ ArmCheapFinish \/ PrepareCheapFinish
    \/ StopRun \/ ClearEntry \/ Finish \/ RecordEnd

-----------------------------------------------------------------------------
(* The environment.                                                         *)

\* The stop hook of a session commits what it finds, or gives up, whenever it gets there.
StopHook ==
    /\ hook /\ hook' = FALSE
    /\ \/ dirty /\ dirty' = FALSE /\ commits' = {"run", "window"}
       \/ UNCHANGED <<dirty, commits>>
    /\ UNCHANGED <<file, kept, counts, prompt, verdict, startOf, run, bounds, sessions, checked>>

\* The process dies; what it held in memory is gone.
Crash ==
    /\ ~At("idle") /\ crashes < MaxCrashes
    /\ crashes' = crashes + 1
    /\ run' = Idle
    /\ UNCHANGED <<file, kept, counts, prompt, verdict, work, copy, left, starts, sessions, checked>>

\* A person returns the task from human review, or puts it into the queue a second time; nobody
\* does so in a copy.
Resubmit ==
    /\ At("idle") /\ starts < MaxStarts /\ ~copy
    /\ file.bucket \in {"human-review", "done"}
    /\ file' = Moved("queue", file.name)
    /\ UNCHANGED <<kept, counts, prompt, verdict, work, run, bounds, sessions, checked>>

Begin == \E entry \in {"loop", "child", "resume"} : Start(entry)

Next == Begin \/ Coordinator \/ StopHook \/ Crash \/ Resubmit

\* A coordinator that runs goes on: each call it awaits returns or times out.
Spec == Init /\ [][Next]_vars /\ WF_vars(Coordinator)

-----------------------------------------------------------------------------
(* Properties.                                                              *)

\* A task that is done without having been split was checked: its quality gates were green
\* after the last session that touched the tree (verify-task.ts, skip-dispatch.ts).
DoneOnlyWhenChecked ==
    \A n \in Ids : file.bucket = "done" /\ file.name = n /\ file.body # "superseded" => checked

\* The repair budget of a task id in one runtime root, whatever fails and whenever the process
\* dies: at most MaxRetries - 1 sessions get a repair prompt (retry-guard counts before the
\* dispatch), and one more for each run that was started on the prompt another run left in the
\* file, which is dispatched as a task and not counted.
RepairsBounded == \A n \in Ids : repairs[n] <= MaxRetries - 1 + leftRepair[n]

\* There is one cheap finish for a task id in one runtime root, across runs that die (the marker
\* comes first), and one more for each marker that could not be written (cheap-finish-adapters.ts
\* arm) and each run started on a left-over prompt.
CheapFinishOnce == \A n \in Ids : cheap[n] <= 1 + lost[n] + leftCheap[n]

\* Between runs the ledger agrees with the bucket, unless a run has died: a task rests in the
\* queue, not shown as one that runs, in error as a repair to take up, or at its end (stopRun,
\* applyTerminal).
Resting ==
    LET entry == ledger[file.name].state IN
    CASE file.bucket = "queue" -> entry \notin {"active", "delegated", "error"}
      [] file.bucket = "error" -> entry = "error" /\ prompt[file.name]
      [] file.bucket = "human-review" -> entry \in {"human-review", "duplicate"}
      [] file.bucket = "done" -> entry \in {"done", "superseded"}
      [] OTHER -> FALSE

RestsWhereLedgerSays == At("idle") /\ crashes = 0 => Resting

\* A run ends: the verification loop goes round only while a repair, the cheap finish or the
\* one second look at a success is left.
RunEnds == ~At("idle") ~> At("idle")

=============================================================================
