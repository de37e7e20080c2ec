-------------------------- MODULE MCTaskStateStore --------------------------
(* Instances of TaskStateStore for TLC.                                    *)
EXTENDS TaskStateStore, TLC

CONSTANTS A, B, task, another, third

OneProc == {A}

TwoProcs == {A, B}

FourFolders == {"queue", "active", "failed", "human-review"}

ThreeFolders == {"queue", "active", "human-review"}

OneName == {"t"}

At(bucket, copy) == [bucket |-> bucket, name |-> "t", copy |-> copy]

\* A task waits for review and another file of that name is queued.
TwoTasks ==
    [at \in Paths |-> CASE at = At("queue", 1)        -> task
                        [] at = At("human-review", 1) -> another
                        [] OTHER                      -> NoFile]

\* Two copies wait for review and a third file of that name is queued.
ThreeTasks ==
    [at \in Paths |-> CASE at = At("queue", 1)        -> task
                        [] at = At("human-review", 1) -> another
                        [] at = At("human-review", 2) -> third
                        [] OTHER                      -> NoFile]

ThreeContents == {task, another, third}

\* A process outside Procs died: after it wrote its record, or before.
Abandoned == [owner |-> [id |-> <<"gone", 0>>, created_at |-> 0 - (StaleMs + 1)], mtime |-> 0 - (StaleMs + 1)]

NoRecord == [owner |-> NoOwner, mtime |-> 0 - (StaleMs + 1)]

CleanStart == {NoDir}

\* A process outside Procs has just died.
JustDied == [owner |-> [id |-> <<"gone", 0>>, created_at |-> 0], mtime |-> 0]

AnyStart == {NoDir, Abandoned, NoRecord, JustDied}

AbandonedStart == {Abandoned}

Symmetric == Permutations(Procs)

=============================================================================
