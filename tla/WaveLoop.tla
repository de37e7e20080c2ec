------------------------------ MODULE WaveLoop ------------------------------
(***************************************************************************)
(* The loop over the queue (src/application/scheduling): waves of at most  *)
(* two slots, refills, outcomes, the integration of finished copies into   *)
(* the primary tree, and the restart from snapshot and checkpoint.         *)
(*                                                                         *)
(* The first slot of a wave works in the primary tree, where the run of a  *)
(* task moves its file; every other slot works in a copy of the            *)
(* repository, and its file stays in the queue until the branch of the     *)
(* copy is merged.  What a run of a task does is TaskRun, what leases and  *)
(* scope locks do is SlotIsolation; here a run is its result.  A finished  *)
(* slot of the primary tree needs no integration: the code's map of        *)
(* finished slots is kept for copies only.                                 *)
(***************************************************************************)
EXTENDS Naturals

CONSTANTS
    Tasks,
    NoTask,
    Graphs,      \* the task graphs considered: who waits for whom, whose write sets clash
    Requested,   \* workers the operator asks for
    MaxStarts,   \* bound: starts of the loop
    MaxCrashes   \* bound: loops that die

ASSUME WaveLoopAssumption ==
    /\ NoTask \notin Tasks
    /\ Graphs \subseteq [before : SUBSET (Tasks \X Tasks), clash : SUBSET (Tasks \X Tasks)]
    /\ Requested \in {1, 2} /\ MaxStarts \in Nat /\ MaxCrashes \in Nat

VARIABLES
    graph,       \* the graph of this behaviour
    bucket,      \* where the task file stands in the primary tree
    inTree,      \* tasks whose accepted work is in the primary tree
    snapshot,    \* finished_slots of the wave snapshot on disk
    checkpoint,  \* the last checkpoint on disk
    stopFlag,    \* loop-stop.requested
    loop,        \* the loop: place and scheduler state
    live,        \* its live slots
    finished,    \* its finished copies that await integration
    lanes,       \* the lanes of the wave
    rec,         \* the serialized section: recordOutcome with its integration, refill
    starts, crashes

disk == <<bucket, inTree, snapshot, checkpoint, stopFlag>>
memory == <<loop, live, finished, lanes, rec>>
bounds == <<starts, crashes>>

vars == <<graph, disk, memory, bounds>>

Workers == {1, 2}

Buckets == {"queue", "active", "done", "human-review", "absent"}

Terminal == {"done", "human-review"}

Results == {"ok", "failed", "infra", "restored"}

Slots == [task : Tasks, copy : BOOLEAN]

Lane == [pc : {"none", "begin", "announce", "take", "running", "ended"},
         task : Tasks \cup {NoTask}, copy : BOOLEAN, result : Results]

NoLane == [pc |-> "none", task |-> NoTask, copy |-> FALSE, result |-> "ok"]

\* Outside of integrate, rec is NoRec; lane 0 is the integration of restored slots.
Rec == [pc : {"none", "mark", "integrate"}, lane : 0 .. 2,
        park : SUBSET Tasks, merge : SUBSET Tasks, merged : SUBSET Tasks]

NoRec == [pc |-> "none", lane |-> 0, park |-> {}, merge |-> {}, merged |-> {}]

Loop == [pc : {"off", "resume", "restored", "top", "plan", "wave"},
         started : SUBSET Tasks, completed : SUBSET Tasks, blocked : SUBSET Tasks,
         stop : BOOLEAN, infra : BOOLEAN, error : BOOLEAN]

Off == [pc |-> "off", started |-> {}, completed |-> {}, blocked |-> {},
        stop |-> FALSE, infra |-> FALSE, error |-> FALSE]

TypeOK ==
    /\ graph \in Graphs
    /\ bucket \in [Tasks -> Buckets] /\ inTree \subseteq Tasks /\ snapshot \subseteq Tasks
    /\ checkpoint \in [task : Tasks \cup {NoTask}, status : {"none", "started", "finished", "failed"}]
    /\ stopFlag \in BOOLEAN
    /\ loop \in Loop /\ live \subseteq Slots
    /\ finished \subseteq [task : Tasks, result : Results]
    /\ lanes \in [Workers -> Lane] /\ rec \in Rec
    /\ starts \in 0 .. MaxStarts /\ crashes \in 0 .. MaxCrashes

Init ==
    /\ graph \in Graphs
    /\ bucket = [t \in Tasks |-> "queue"] /\ inTree = {} /\ snapshot = {}
    /\ checkpoint = [task |-> NoTask, status |-> "none"] /\ stopFlag = FALSE
    /\ loop = Off /\ live = {} /\ finished = {}
    /\ lanes = [w \in Workers |-> NoLane] /\ rec = NoRec
    /\ starts = 0 /\ crashes = 0

-----------------------------------------------------------------------------
(* The plan.                                                                *)

Clash(t, u) == <<t, u>> \in graph.clash \/ <<u, t>> \in graph.clash

\* collectBlockedBranch: the task and all that depend on it.
Branch(t) ==
    LET closed == {S \in SUBSET Tasks : t \in S /\ \A e \in graph.before : e[1] \in S => e[2] \in S}
    IN {u \in Tasks : \A S \in closed : u \in S}

\* effectiveStatus: what this run completed or blocked overrides the bucket.
Satisfied(t) ==
    \/ t \in loop.completed
    \/ t \notin loop.blocked /\ bucket[t] = "done"

\* scheduleNextWave.
Ready ==
    {t \in Tasks : /\ bucket[t] = "queue"
                   /\ t \notin loop.completed \cup loop.blocked
                   /\ \A e \in graph.before : e[2] = t => Satisfied(e[1])}

FinishedTasks == {e.task : e \in finished}

\* selectNextWaveTask and planPool: not what this run started, nor what awaits integration.
Candidates == Ready \ (loop.started \cup FinishedTasks)

-----------------------------------------------------------------------------
(* Relocations.                                                             *)

\* Mutant: a task that waits for a person may be closed.
MovedAnyway(t, to) ==
    IF bucket[t] = "absent" THEN bucket ELSE [bucket EXCEPT ![t] = to]

\* relocateTask: nothing there is nothing moved, and what rests in human-review is kept there.
Relocated(t, to) ==
    IF bucket[t] = "absent" \/ (to = "done" /\ bucket[t] = "human-review")
    THEN bucket
    ELSE [bucket EXCEPT ![t] = to]

\* createHumanReviewPark: a failed move leaves the file where it is.
Parking(t) == bucket' \in {bucket, Relocated(t, "human-review")}

-----------------------------------------------------------------------------
(* The loop process.                                                        *)

\* The loop returns or throws; what it held is gone.
Exit ==
    /\ loop' = Off /\ live' = {} /\ finished' = {}
    /\ lanes' = [w \in Workers |-> NoLane] /\ rec' = NoRec

Start ==
    /\ loop.pc = "off" /\ starts < MaxStarts
    /\ starts' = starts + 1
    /\ loop' = [Off EXCEPT !.pc = "resume"]
    /\ stopFlag' = FALSE
    /\ UNCHANGED <<graph, bucket, inTree, snapshot, checkpoint, live, finished, lanes, rec, crashes>>

\* decideResume, as far as it acts; the other decisions are only logged.  Accepted work is seen
\* only in the tree, a graph that has changed makes a checkpoint stale.
Skips(t) ==
    /\ t # NoTask
    /\ \/ t \in inTree
       \/ bucket[t] \in Terminal
       \/ bucket[t] = "absent" /\ checkpoint.status = "finished"

MustSkip(t) == t # NoTask /\ bucket[t] \in Terminal

\* closeSkipCompletedTaskFile: moved, kept or restored is completed; a file that cannot be moved or
\* restored goes to a person.
Close(t) ==
    \/ /\ bucket' = IF bucket[t] = "absent" THEN [bucket EXCEPT ![t] = "done"] ELSE Relocated(t, "done")
       /\ loop' = [loop EXCEPT !.pc = "restored", !.started = {t}, !.completed = {t}]
    \/ /\ bucket[t] \notin Terminal /\ Parking(t)
       /\ loop' = [loop EXCEPT !.pc = "restored", !.started = {t}]

\* recoverFromCrash up to the integration of what it restored.
Resume ==
    /\ loop.pc = "resume"
    /\ finished' = [task : snapshot, result : {"restored"}]
    /\ \/ Skips(checkpoint.task) /\ Close(checkpoint.task)
       \/ ~MustSkip(checkpoint.task) /\ loop' = [loop EXCEPT !.pc = "restored"] /\ UNCHANGED bucket
    /\ UNCHANGED <<graph, inTree, snapshot, checkpoint, stopFlag, live, lanes, rec, bounds>>

\* Mutant: the whole of the map is written.
PersistWhole == snapshot' = finished'

\* persist: live slots, overrides and the plan are written too, but not read back.
Persist == snapshot' = {e.task : e \in finished'}

\* The top of the round.
StopAtTop ==
    /\ loop.pc = "top" /\ (loop.stop \/ stopFlag)
    /\ stopFlag' = (loop.stop /\ stopFlag)
    /\ Exit
    /\ UNCHANGED <<graph, bucket, inTree, snapshot, checkpoint, bounds>>

\* A task that was interrupted goes first.  It ends done, with a person, or by a failure of the
\* infrastructure, which ends the loop.
ResumeTask(t) ==
    /\ loop.pc = "top" /\ ~loop.stop /\ ~stopFlag /\ bucket[t] = "active"
    /\ \/ bucket' = [bucket EXCEPT ![t] = "done"] /\ inTree' = inTree \cup {t} /\ UNCHANGED memory
       \/ bucket' = [bucket EXCEPT ![t] = "human-review"] /\ UNCHANGED <<inTree, memory>>
       \/ bucket' \in {bucket, [bucket EXCEPT ![t] = "queue"]} /\ Exit /\ UNCHANGED inTree
    /\ UNCHANGED <<graph, snapshot, checkpoint, stopFlag, bounds>>

\* nextTask; with nothing to run the loop ends.
NextTask ==
    /\ loop.pc = "top" /\ ~loop.stop /\ ~stopFlag /\ \A t \in Tasks : bucket[t] # "active"
    /\ snapshot' = FinishedTasks
    /\ IF Candidates = {}
       THEN Exit
       ELSE loop' = [loop EXCEPT !.pc = "plan"] /\ UNCHANGED <<live, finished, lanes, rec>>
    /\ UNCHANGED <<graph, bucket, inTree, checkpoint, stopFlag, bounds>>

\* A dirty tree, a drained first slot or a request to stop ends the loop before the wave.
StopBeforeWave ==
    /\ loop.pc = "plan"
    /\ stopFlag' \in {stopFlag, FALSE}
    /\ Exit
    /\ UNCHANGED <<graph, bucket, inTree, snapshot, checkpoint, bounds>>

Assign(t, copy) == [NoLane EXCEPT !.pc = "begin", !.task = t, !.copy = copy]

\* planWorkerPool and planWaveDispatch: a second slot gets a task that clashes with no other one,
\* unless it is drained, a phantom, or gets no lease.
PlanWave ==
    /\ loop.pc = "plan" /\ ~stopFlag
    /\ \E t \in Candidates :
          \/ lanes' = [lanes EXCEPT ![1] = Assign(t, FALSE)]
          \/ /\ Requested = 2
             /\ \E u \in Candidates \ {t} :
                   /\ ~Clash(t, u)
                   /\ lanes' = [lanes EXCEPT ![1] = Assign(t, FALSE), ![2] = Assign(u, TRUE)]
    /\ loop' = [loop EXCEPT !.pc = "wave"]
    /\ UNCHANGED <<graph, disk, live, finished, rec, bounds>>

-----------------------------------------------------------------------------
(* dispatchWaveSlots.                                                       *)

Beginning == \E w \in Workers : lanes[w].pc \in {"begin", "announce"}

To(w, pc) == lanes' = [lanes EXCEPT ![w].pc = pc]

\* A lane whose step threw ends; the run is aborted when the other lanes have ended.
Fails(w) == lanes' = [lanes EXCEPT ![w] = NoLane] /\ loop' = [loop EXCEPT !.error = TRUE]

\* Mutant: the second lane waits for the success of the first.
MayBeginAfter(w) == lanes[w].pc = "begin" /\ (w = 2 => lanes[1].pc \in {"take", "running", "ended"})

\* beginInOrder: one after the other, whatever became of the one before.
MayBegin(w) == lanes[w].pc = "begin" /\ (w = 2 => lanes[1].pc \notin {"begin", "announce"})

\* beginTask up to persist, which may throw.
Begin(w) ==
    /\ MayBegin(w)
    /\ live' = live \cup {[task |-> lanes[w].task, copy |-> lanes[w].copy]}
    /\ LET begun == [loop EXCEPT !.started = @ \cup {lanes[w].task}] IN
       \/ /\ snapshot' = FinishedTasks /\ To(w, "announce") /\ loop' = begun
       \/ /\ lanes' = [lanes EXCEPT ![w] = NoLane] /\ loop' = [begun EXCEPT !.error = TRUE]
          /\ UNCHANGED snapshot
    /\ UNCHANGED <<graph, bucket, inTree, checkpoint, stopFlag, finished, rec, bounds>>

Announce(w) ==
    /\ lanes[w].pc = "announce"
    /\ \/ /\ checkpoint' = [task |-> lanes[w].task, status |-> "started"]
          /\ To(w, IF lanes[w].copy THEN "running" ELSE "take") /\ UNCHANGED loop
       \/ Fails(w) /\ UNCHANGED checkpoint
    /\ UNCHANGED <<graph, bucket, inTree, snapshot, stopFlag, live, finished, rec, bounds>>

\* In the primary tree the run of a task takes its file.
Take(w) ==
    /\ lanes[w].pc = "take"
    /\ bucket' = [bucket EXCEPT ![lanes[w].task] = "active"]
    /\ To(w, "running")
    /\ UNCHANGED <<graph, inTree, snapshot, checkpoint, stopFlag, loop, live, finished, rec, bounds>>

Ends(w, result) == lanes' = [lanes EXCEPT ![w].pc = "ended", ![w].result = result]

\* runTask of a copy: the child reports; a failure of the infrastructure aborts the run later.
EndCopy(w) ==
    /\ lanes[w].pc = "running" /\ lanes[w].copy
    /\ \E result \in {"ok", "failed", "infra"} :
          /\ Ends(w, result)
          /\ loop' = [loop EXCEPT !.infra = @ \/ result = "infra"]
    /\ UNCHANGED <<graph, disk, live, finished, rec, bounds>>

\* runTask in the primary tree; a failure of the infrastructure throws and leaves the live slot.
EndTree(w) ==
    /\ lanes[w].pc = "running" /\ ~lanes[w].copy
    /\ LET t == lanes[w].task IN
       \/ /\ bucket' = [bucket EXCEPT ![t] = "done"] /\ inTree' = inTree \cup {t}
          /\ Ends(w, "ok") /\ UNCHANGED loop
       \/ /\ bucket' = [bucket EXCEPT ![t] = "human-review"]
          /\ Ends(w, "failed") /\ UNCHANGED <<inTree, loop>>
       \/ /\ bucket' \in {bucket, [bucket EXCEPT ![t] = "queue"]}
          /\ Fails(w) /\ UNCHANGED inTree
    /\ UNCHANGED <<graph, snapshot, checkpoint, stopFlag, live, finished, rec, bounds>>

-----------------------------------------------------------------------------
(* recordOutcome.                                                           *)

\* The scheduler's state and persist, which may throw.
Record(w) ==
    /\ lanes[w].pc = "ended" /\ rec = NoRec /\ ~Beginning
    /\ LET t == lanes[w].task
           result == lanes[w].result
           recorded == CASE result = "ok" -> [loop EXCEPT !.completed = @ \cup {t}]
                         [] result = "failed" -> [loop EXCEPT !.blocked = @ \cup Branch(t)]
                         [] OTHER -> loop
       IN /\ live' = {s \in live : s.task # t}
          /\ finished' = IF lanes[w].copy THEN finished \cup {[task |-> t, result |-> result]} ELSE finished
          /\ \/ /\ Persist /\ rec' = [NoRec EXCEPT !.pc = "mark", !.lane = w]
                /\ loop' = recorded /\ UNCHANGED lanes
             \/ /\ lanes' = [lanes EXCEPT ![w] = NoLane] /\ loop' = [recorded EXCEPT !.error = TRUE]
                /\ UNCHANGED <<snapshot, rec>>
    /\ UNCHANGED <<graph, bucket, inTree, checkpoint, stopFlag, bounds>>

Quiescent == live = {}

\* Mutant: a copy is merged beside a live slot of the primary tree.
BesideAnyone(t) == \A s \in live : ~Clash(s.task, t)

\* planIncrementalStep: nobody works in the primary tree, and no live slot has a clashing write set.
MergesBesideLive(t) == \A s \in live : s.copy /\ ~Clash(s.task, t)

Parked == {e.task : e \in {f \in finished : \/ f.result = "failed"
                                            \/ f.result = "restored" /\ bucket[f.task] # "queue"}}

Merges == {e.task : e \in {f \in finished : f.result = "ok" /\ (Quiescent \/ MergesBesideLive(f.task))}}

\* planWorkerIntegration: what is neither parked nor merged is dropped when nobody works any more,
\* and waits otherwise.
PlanIntegration(lane) ==
    /\ rec' = [NoRec EXCEPT !.pc = "integrate", !.lane = lane, !.park = Parked, !.merge = Merges]
    /\ finished' = IF Quiescent THEN {e \in finished : e.task \in Parked \cup Merges} ELSE finished

\* Mutant: integration is considered for the outcome of a copy only.
MarkOfCopy(w) ==
    /\ rec.pc = "mark" /\ rec.lane = w
    /\ checkpoint' = [task |-> lanes[w].task,
                      status |-> IF lanes[w].result = "ok" THEN "finished" ELSE "failed"]
    /\ IF lanes[w].copy
       THEN PlanIntegration(w)
       ELSE rec' = [NoRec EXCEPT !.pc = "integrate", !.lane = w] /\ UNCHANGED finished
    /\ UNCHANGED <<graph, bucket, inTree, snapshot, stopFlag, live, lanes, loop, bounds>>

\* The checkpoint, whose write may throw, and the plan of the integration.
Mark(w) ==
    /\ rec.pc = "mark" /\ rec.lane = w
    /\ \/ /\ checkpoint' = [task |-> lanes[w].task,
                            status |-> IF lanes[w].result = "ok" THEN "finished" ELSE "failed"]
          /\ PlanIntegration(w) /\ UNCHANGED <<lanes, loop>>
       \/ Fails(w) /\ rec' = NoRec /\ UNCHANGED <<checkpoint, finished>>
    /\ UNCHANGED <<graph, bucket, inTree, snapshot, stopFlag, live, bounds>>

-----------------------------------------------------------------------------
(* integrateFinishedSlots.                                                  *)

\* integrateRestoredSlots: nobody works yet, the plan is that of a quiescent tree.
IntegrateRestored ==
    /\ loop.pc = "restored" /\ rec = NoRec
    /\ PlanIntegration(0)
    /\ UNCHANGED <<graph, disk, loop, live, lanes, bounds>>

Park(t) ==
    /\ rec.pc = "integrate" /\ t \in rec.park
    /\ Parking(t)
    /\ finished' = {e \in finished : e.task # t}
    /\ rec' = [rec EXCEPT !.park = @ \ {t}]
    /\ UNCHANGED <<graph, inTree, snapshot, checkpoint, stopFlag, loop, live, lanes, bounds>>

\* Mutant: a merge that was blocked is settled like one that was not.
MergeUnchecked(t) ==
    /\ rec.pc = "integrate" /\ rec.park = {} /\ rec.merged = {} /\ t \in rec.merge
    /\ \/ inTree' = inTree \cup {t}
       \/ UNCHANGED inTree
    /\ rec' = [rec EXCEPT !.merge = @ \ {t}, !.merged = {t}]
    /\ UNCHANGED <<graph, bucket, snapshot, checkpoint, stopFlag, loop, live, finished, lanes, bounds>>

\* A merge is blocked (a conflict, a refusal, no branch), or it brings the work into the tree and
\* may take the file out of the queue with it; dist is rebuilt, or the task is parked all the same.
Merge(t) ==
    /\ rec.pc = "integrate" /\ rec.park = {} /\ rec.merged = {} /\ t \in rec.merge
    /\ LET next == [rec EXCEPT !.merge = @ \ {t}] IN
       \/ rec' = [next EXCEPT !.park = {t}] /\ UNCHANGED <<bucket, inTree>>
       \/ /\ inTree' = inTree \cup {t}
          /\ bucket' \in {bucket, [bucket EXCEPT ![t] = "absent"]}
          /\ rec' \in {[next EXCEPT !.merged = {t}], [next EXCEPT !.park = {t}]}
    /\ UNCHANGED <<graph, snapshot, checkpoint, stopFlag, loop, live, finished, lanes, bounds>>

\* settleTaskFile: moved to done, or made anew from the history; else the task is parked.
Settle(t) ==
    /\ rec.pc = "integrate" /\ rec.park = {} /\ t \in rec.merged
    /\ \/ /\ bucket' = IF bucket[t] = "absent" THEN [bucket EXCEPT ![t] = "done"] ELSE Relocated(t, "done")
          /\ finished' = {e \in finished : e.task # t}
          /\ rec' = [rec EXCEPT !.merged = {}]
       \/ rec' = [rec EXCEPT !.merged = {}, !.park = {t}] /\ UNCHANGED <<bucket, finished>>
    /\ UNCHANGED <<graph, inTree, snapshot, checkpoint, stopFlag, loop, live, lanes, bounds>>

Integrated == rec.pc = "integrate" /\ rec.park = {} /\ rec.merge = {} /\ rec.merged = {}

\* The end of recoverFromCrash.
Recovered ==
    /\ Integrated /\ rec.lane = 0
    /\ snapshot' = FinishedTasks
    /\ loop' = [loop EXCEPT !.pc = "top"] /\ rec' = NoRec
    /\ UNCHANGED <<graph, bucket, inTree, checkpoint, stopFlag, live, finished, lanes, bounds>>

-----------------------------------------------------------------------------
(* Refill, and the end of the wave.                                         *)

\* admitWorkerCandidate.
Admitted == {t \in Candidates : \A s \in live : ~Clash(s.task, t)}

\* The last lane is not refilled.  A request to stop is taken from the disk and remembered.
LastLane(w) ==
    /\ Integrated /\ rec.lane = w /\ \A v \in Workers \ {w} : lanes[v].pc = "none"
    /\ lanes' = [lanes EXCEPT ![w] = NoLane] /\ rec' = NoRec
    /\ UNCHANGED <<graph, disk, loop, live, finished, bounds>>

Refill(w) ==
    /\ Integrated /\ rec.lane = w /\ \E v \in Workers \ {w} : lanes[v].pc # "none"
    /\ stopFlag' = (loop.stop /\ stopFlag) /\ rec' = NoRec
    /\ LET asked == [loop EXCEPT !.stop = @ \/ stopFlag] IN
       \/ /\ lanes' = [lanes EXCEPT ![w] = NoLane]
          /\ \/ loop' = asked /\ snapshot' = FinishedTasks
             \/ loop' = [asked EXCEPT !.error = TRUE] /\ UNCHANGED snapshot
       \/ /\ ~asked.stop /\ ~asked.infra
          /\ \E t \in Admitted : lanes' = [lanes EXCEPT ![w] = Assign(t, TRUE)]
          /\ loop' = asked /\ snapshot' = FinishedTasks
    /\ UNCHANGED <<graph, bucket, inTree, checkpoint, live, finished, bounds>>

WaveDone ==
    /\ loop.pc = "wave" /\ rec = NoRec /\ \A w \in Workers : lanes[w].pc = "none"
    /\ IF loop.error \/ loop.infra
       THEN Exit
       ELSE loop' = [loop EXCEPT !.pc = "top"] /\ UNCHANGED <<live, finished, lanes, rec>>
    /\ UNCHANGED <<graph, disk, bounds>>

-----------------------------------------------------------------------------
(* The environment.                                                         *)

RequestStop ==
    /\ loop.pc # "off" /\ ~stopFlag
    /\ stopFlag' = TRUE
    /\ UNCHANGED <<graph, bucket, inTree, snapshot, checkpoint, memory, bounds>>

\* The loop dies; the run of a task in the primary tree may have committed.
Crash ==
    /\ loop.pc # "off" /\ crashes < MaxCrashes
    /\ crashes' = crashes + 1
    /\ inTree' \in {inTree, inTree \cup {t \in Tasks : bucket[t] = "active"}}
    /\ Exit
    /\ UNCHANGED <<graph, bucket, snapshot, checkpoint, stopFlag, starts>>

Round ==
    \/ Resume \/ IntegrateRestored \/ Recovered
    \/ StopAtTop \/ (\E t \in Tasks : ResumeTask(t)) \/ NextTask \/ StopBeforeWave \/ PlanWave
    \/ \E w \in Workers : \/ Begin(w) \/ Announce(w) \/ Take(w) \/ EndCopy(w) \/ EndTree(w)
                          \/ Record(w) \/ Mark(w) \/ LastLane(w) \/ Refill(w)
    \/ \E t \in Tasks : Park(t) \/ Merge(t) \/ Settle(t)
    \/ WaveDone

Next == Start \/ Round \/ RequestStop \/ Crash

\* A loop that runs goes on: every call it awaits returns, and a child ends by its timeout.
Spec == Init /\ [][Next]_vars /\ WF_vars(Round)

-----------------------------------------------------------------------------
(* Properties.                                                              *)

\* A task stands in done only when its work is in the primary tree: a merge that was blocked, a
\* rebuild or a move that failed leads to human-review (wave-integration-step.ts).
DoneIsMerged == \A t \in Tasks : bucket[t] = "done" => t \in inTree

\* Nobody works on what another one changes: live slots have different tasks without common
\* paths, and none waits for the work of another, through refills and failing lanes too
\* (wave-refill.ts, slot-refill.ts); and while a branch is merged no live slot works in the
\* primary tree or on paths of the branch (planIncrementalStep, and the refill that waits for
\* the integration).
LiveApart ==
    /\ \A s, u \in live : s # u =>
           /\ s.task # u.task /\ ~Clash(s.task, u.task)
           /\ <<s.task, u.task>> \in graph.before => s.task \in inTree
    /\ \A t \in rec.merge \cup rec.merged : \A s \in live : s.copy /\ ~Clash(s.task, t)

\* Between waves no finished copy waits any more: whichever slot ends last sees a quiescent tree
\* and settles what had to wait for it (recordOutcome, integrateFinishedSlots).
NothingLeftBehind == loop.pc \in {"top", "plan"} => finished = {}

\* The loop never takes a task away from the person it waits for (relocateTask).
ReviewIsFinal ==
    [][\A t \in Tasks : bucket[t] = "human-review" => bucket'[t] = "human-review"]_vars

\* A loop ends by itself: a round runs something that this run has not started before, or it is
\* the last one (runLoopCycle).
LoopEnds == loop.pc # "off" ~> loop.pc = "off"

\* A task runs only on a tree that holds the work it depends on (wave-outcome.ts: dependents must
\* not run on work that is not there).
DependentsSeeTheirBlockers ==
    \A s \in live : \A e \in graph.before : e[2] = s.task => e[1] \in inTree

=============================================================================
