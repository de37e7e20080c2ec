--------------------------- MODULE WaveLoopProofs ---------------------------
(***************************************************************************)
(* Theorems about WaveLoop, for any set of tasks, any graphs over it and   *)
(* any number of starts and crashes.  The inductive invariant has a part   *)
(* for every lane, every live slot and the serialized section, and says    *)
(* where the task of each stands; every step disturbs one lane, or the     *)
(* task an integration has in hand, and the rest is that what belongs to   *)
(* the others is not touched.                                              *)
(***************************************************************************)
EXTENDS WaveLoop, TLAPS

-----------------------------------------------------------------------------
(* The inductive invariant.                                                *)

\* The outcome of the lane is recorded, what follows is its integration.
Recorded(w) == rec.pc # "none" /\ rec.lane = w

\* The lane runs, or has run, a task that is not recorded yet.
Busy(w) == lanes[w].pc # "none" /\ ~Recorded(w)

\* The tasks of the integration in progress.
InHand == rec.park \cup rec.merge \cup rec.merged

\* Which parts of the process are at rest, by its place.
StageInv ==
    /\ loop.pc # "wave" => live = {} /\ \A w \in Workers : lanes[w].pc = "none"
    /\ loop.pc \notin {"wave", "restored"} => finished = {}
    /\ rec.pc # "integrate" => InHand = {}
    /\ rec.pc # "none" =>
           /\ \A w \in Workers : lanes[w].pc \notin {"begin", "announce"}
           /\ \/ rec.lane = 0 /\ rec.pc = "integrate" /\ loop.pc = "restored"
              \/ rec.lane \in Workers /\ lanes[rec.lane].pc = "ended" /\ loop.pc = "wave"

\* What is moved to done, or to absent by a merge, is in the tree.
TreeInv ==
    /\ \A t \in Tasks : bucket[t] \in {"done", "absent"} => t \in inTree
    /\ rec.merged \subseteq inTree

\* What the task waits for is done, as far as this loop knows.
Unblocked(t) == \A e \in graph.before : e[2] = t => e[1] \in loop.completed \cup inTree

\* A lane that has not begun yet: its task can be started.
BeginInv(w) ==
    lanes[w].pc = "begin" =>
        /\ Unblocked(lanes[w].task)
        /\ \A s \in live : ~Clash(s.task, lanes[w].task)
        /\ \A v \in Workers \ {w} : lanes[v].pc = "begin" => ~Clash(lanes[v].task, lanes[w].task)

\* A busy lane has a task of its own, whose file stands where the lane left it.
LaneInv(w) ==
    LET l == lanes[w] IN
    /\ l.pc # "none" =>
           /\ l.task \in Tasks
           /\ l.task \in loop.started <=> l.pc # "begin"
           /\ l.pc = "take" => ~l.copy
           /\ \A v \in Workers \ {w} : lanes[v].pc # "none" => lanes[v].task # l.task
    /\ Busy(w) =>
           /\ l.task \notin loop.completed /\ l.task \notin FinishedTasks
           /\ l.pc # "begin" => [task |-> l.task, copy |-> l.copy] \in live
           /\ l.copy \/ l.pc \in {"begin", "announce", "take"} => bucket[l.task] = "queue"
           /\ ~l.copy /\ l.pc = "running" => bucket[l.task] = "active"

\* A live slot belongs to a busy lane, unless a lane has failed.
LiveInv(s) ==
    /\ s.task \in loop.started /\ s.task \notin loop.completed
    /\ Unblocked(s.task)
    /\ \A u \in live \ {s} : s.task # u.task /\ ~Clash(s.task, u.task)
    /\ loop.error \/ \E w \in Workers : Busy(w) /\ lanes[w].pc # "begin" /\ lanes[w].task = s.task

\* A finished copy waits in the queue, and is merged beside nobody it could disturb.
FinishedInv ==
    /\ \A e, f \in finished : e.task = f.task => e = f
    /\ \A e \in finished : e.result # "restored" =>
           bucket[e.task] = "queue" \/ e.task \in rec.park \cup rec.merged
    /\ \A t \in rec.merge : bucket[t] = "queue" /\ t \notin rec.park \cup rec.merged
    /\ rec.park \cap rec.merged = {} /\ \A t, u \in rec.merged : t = u
    /\ InHand \subseteq FinishedTasks
    /\ \A t \in rec.merge \cup rec.merged : \A s \in live : s.copy /\ ~Clash(s.task, t)

\* Nobody is left that could settle what this integration leaves behind.
LastOne ==
    \/ rec.pc = "integrate" /\ rec.lane = 0
    \/ /\ loop.pc = "wave" /\ ~loop.error
       /\ \A w \in Workers : lanes[w].pc = "none" \/ (rec.pc = "integrate" /\ rec.lane = w)

SettledInv == LastOne => FinishedTasks \subseteq InHand

IInv ==
    /\ TypeOK /\ StageInv /\ TreeInv /\ FinishedInv /\ SettledInv
    /\ \A w \in Workers : BeginInv(w) /\ LaneInv(w)
    /\ \A s \in live : LiveInv(s)

-----------------------------------------------------------------------------
(* Types.                                                                   *)

LEMMA StateTyped ==
  ASSUME TypeOK
  PROVE  /\ loop \in Loop /\ rec \in Rec /\ live \subseteq Slots
         /\ loop.pc \in {"off", "resume", "restored", "top", "plan", "wave"}
         /\ loop.started \subseteq Tasks /\ loop.completed \subseteq Tasks /\ loop.blocked \subseteq Tasks
         /\ loop.stop \in BOOLEAN /\ loop.infra \in BOOLEAN /\ loop.error \in BOOLEAN
         /\ rec.pc \in {"none", "mark", "integrate"} /\ rec.lane \in 0 .. 2
         /\ rec.park \subseteq Tasks /\ rec.merge \subseteq Tasks /\ rec.merged \subseteq Tasks
         /\ FinishedTasks \subseteq Tasks
         /\ bucket \in [Tasks -> Buckets]
         /\ \A w \in Workers : lanes[w] \in Lane
BY DEF TypeOK, Loop, Rec, FinishedTasks

LEMMA LaneTyped ==
  ASSUME TypeOK, NEW w \in Workers
  PROVE  /\ lanes[w] \in Lane
         /\ lanes[w].pc \in {"none", "begin", "announce", "take", "running", "ended"}
         /\ lanes[w].task \in Tasks \cup {NoTask} /\ lanes[w].copy \in BOOLEAN
         /\ lanes[w].result \in Results
BY DEF TypeOK, Lane

\* A lane gets a new value; the others keep theirs.
LEMMA LaneSet ==
  ASSUME TypeOK, NEW w \in Workers, NEW l \in Lane, lanes' = [lanes EXCEPT ![w] = l]
  PROVE  /\ lanes' \in [Workers -> Lane] /\ lanes'[w] = l
         /\ \A v \in Workers \ {w} : lanes'[v] = lanes[v]
BY DEF TypeOK

LEMMA LaneTo ==
  ASSUME TypeOK, NEW w \in Workers,
         NEW pc \in {"announce", "take", "running", "ended"}, To(w, pc)
  PROVE  /\ lanes' \in [Workers -> Lane]
         /\ lanes'[w].pc = pc /\ lanes'[w].task = lanes[w].task
         /\ lanes'[w].copy = lanes[w].copy /\ lanes'[w].result = lanes[w].result
         /\ \A v \in Workers \ {w} : lanes'[v] = lanes[v]
<1> DEFINE l == [lanes[w] EXCEPT !.pc = pc]
<1>1. lanes' = [lanes EXCEPT ![w] = l]
  BY DEF To
<1>2. lanes[w] \in Lane
  BY LaneTyped
<1>3. /\ l \in Lane /\ l.pc = pc /\ l.task = lanes[w].task /\ l.copy = lanes[w].copy
      /\ l.result = lanes[w].result
  BY <1>2 DEF Lane
<1> HIDE DEF l
<1> QED
  BY <1>1, <1>3, LaneSet

LEMMA LaneEnds ==
  ASSUME TypeOK, NEW w \in Workers, NEW result \in Results, Ends(w, result)
  PROVE  /\ lanes' \in [Workers -> Lane]
         /\ lanes'[w].pc = "ended" /\ lanes'[w].task = lanes[w].task
         /\ lanes'[w].copy = lanes[w].copy /\ lanes'[w].result = result
         /\ \A v \in Workers \ {w} : lanes'[v] = lanes[v]
<1> DEFINE l == [lanes[w] EXCEPT !.pc = "ended", !.result = result]
<1>1. lanes' = [lanes EXCEPT ![w] = l]
  BY DEF Ends, TypeOK
<1>2. lanes[w] \in Lane
  BY LaneTyped
<1>3. /\ l \in Lane /\ l.pc = "ended" /\ l.task = lanes[w].task /\ l.copy = lanes[w].copy
      /\ l.result = result
  BY <1>2 DEF Lane
<1> HIDE DEF l
<1> QED
  BY <1>1, <1>3, LaneSet

LEMMA LaneLeft ==
  ASSUME TypeOK, NEW w \in Workers, lanes' = [lanes EXCEPT ![w] = NoLane]
  PROVE  /\ lanes' \in [Workers -> Lane] /\ lanes'[w].pc = "none"
         /\ \A v \in Workers \ {w} : lanes'[v] = lanes[v]
<1>1. NoLane \in Lane /\ NoLane.pc = "none"
  BY DEF NoLane, Lane, Results
<1> HIDE DEF NoLane
<1> QED
  BY <1>1, LaneSet

LEMMA LaneAssigned ==
  ASSUME NEW t \in Tasks, NEW copy \in BOOLEAN
  PROVE  /\ Assign(t, copy) \in Lane /\ Assign(t, copy).pc = "begin"
         /\ Assign(t, copy).task = t /\ Assign(t, copy).copy = copy
BY DEF Assign, NoLane, Lane, Results

\* A step that fails: the lane ends, the run is aborted later.
LEMMA LaneFails ==
  ASSUME TypeOK, NEW w \in Workers, Fails(w)
  PROVE  /\ lanes' \in [Workers -> Lane] /\ lanes'[w].pc = "none"
         /\ \A v \in Workers \ {w} : lanes'[v] = lanes[v]
         /\ loop' \in Loop /\ loop'.error
         /\ loop'.pc = loop.pc /\ loop'.started = loop.started /\ loop'.completed = loop.completed
<1>1. loop \in Loop
  BY DEF TypeOK
<1>2. loop' = [loop EXCEPT !.error = TRUE] /\ lanes' = [lanes EXCEPT ![w] = NoLane]
  BY DEF Fails
<1>3. /\ loop' \in Loop /\ loop'.error
      /\ loop'.pc = loop.pc /\ loop'.started = loop.started /\ loop'.completed = loop.completed
  BY <1>1, <1>2 DEF Loop
<1> QED
  BY <1>2, <1>3, LaneLeft

\* The integration goes on with one task less to merge, or another one to park or to settle.
LEMMA RecTyped ==
  ASSUME rec \in Rec, NEW park \in SUBSET Tasks, NEW merge \in SUBSET Tasks, NEW merged \in SUBSET Tasks,
         rec' = [rec EXCEPT !.park = park, !.merge = merge, !.merged = merged]
  PROVE  /\ rec' \in Rec /\ rec'.pc = rec.pc /\ rec'.lane = rec.lane
         /\ rec'.park = park /\ rec'.merge = merge /\ rec'.merged = merged
BY DEF Rec

LEMMA NoRecTyped ==
  NoRec \in Rec /\ NoRec.pc = "none" /\ NoRec.lane = 0
  /\ NoRec.park = {} /\ NoRec.merge = {} /\ NoRec.merged = {}
BY DEF NoRec, Rec

LEMMA RelocatedTyped ==
  ASSUME TypeOK, NEW t \in Tasks, NEW to \in {"done", "human-review"}, NEW b, b = Relocated(t, to)
  PROVE  /\ b \in [Tasks -> Buckets]
         /\ \A u \in Tasks \ {t} : b[u] = bucket[u]
         /\ b[t] = IF bucket[t] = "absent" \/ (to = "done" /\ bucket[t] = "human-review")
                   THEN bucket[t] ELSE to
BY DEF TypeOK, Relocated, Buckets

LEMMA ParkingTyped ==
  ASSUME TypeOK, NEW t \in Tasks, Parking(t)
  PROVE  /\ bucket' \in [Tasks -> Buckets]
         /\ \A u \in Tasks \ {t} : bucket'[u] = bucket[u]
         /\ bucket'[t] = bucket[t] \/ bucket'[t] = "human-review"
<1>1. CASE bucket' = bucket
  BY <1>1 DEF TypeOK
<1>2. CASE bucket' = Relocated(t, "human-review")
  BY <1>2, RelocatedTyped
<1> QED
  BY <1>1, <1>2 DEF Parking

\* A file that is closed: made anew where it is absent, else moved to done.
LEMMA ClosedTyped ==
  ASSUME TypeOK, NEW t \in Tasks,
         bucket' = IF bucket[t] = "absent" THEN [bucket EXCEPT ![t] = "done"] ELSE Relocated(t, "done")
  PROVE  /\ bucket' \in [Tasks -> Buckets]
         /\ \A u \in Tasks \ {t} : bucket'[u] = bucket[u]
         /\ bucket'[t] = IF bucket[t] = "human-review" THEN "human-review" ELSE "done"
<1>1. CASE bucket[t] = "absent"
  BY <1>1 DEF TypeOK, Buckets
<1>2. CASE bucket[t] # "absent"
  BY <1>2, RelocatedTyped
<1> QED
  BY <1>1, <1>2

LEMMA GraphTyped ==
  ASSUME TypeOK, NEW e \in graph.before
  PROVE  e[1] \in Tasks /\ e[2] \in Tasks
<1>1. graph.before \subseteq Tasks \X Tasks
  BY WaveLoopAssumption DEF TypeOK
<1> QED
  BY <1>1

LEMMA CandidateIs ==
  ASSUME TypeOK, TreeInv, NEW t \in Candidates
  PROVE  /\ t \in Tasks /\ bucket[t] = "queue" /\ Unblocked(t)
         /\ t \notin loop.completed /\ t \notin loop.started /\ t \notin FinishedTasks
<1>1. /\ t \in Tasks /\ bucket[t] = "queue" /\ \A e \in graph.before : e[2] = t => Satisfied(e[1])
      /\ t \notin loop.completed /\ t \notin loop.started /\ t \notin FinishedTasks
  BY DEF Candidates, Ready
<1>2. ASSUME NEW e \in graph.before, e[2] = t PROVE e[1] \in loop.completed \cup inTree
  BY <1>1, <1>2, GraphTyped DEF Satisfied, TreeInv
<1> QED
  BY <1>1, <1>2 DEF Unblocked

-----------------------------------------------------------------------------
(* The loop between two waves.                                              *)

\* Between waves only the files and what is known of earlier loops matter.
LEMMA AtRest ==
  ASSUME TypeOK', TreeInv', loop'.pc # "wave", live' = {},
         \A w \in Workers : lanes'[w].pc = "none",
         rec'.pc = "none", InHand' = {},
         \/ finished' = {}
         \/ /\ loop'.pc = "restored"
            /\ \A e, f \in finished' : e.task = f.task => e = f
            /\ \A e \in finished' : e.result = "restored"
  PROVE  IInv'
<1>1. StageInv'
  BY DEF StageInv
<1>2. SettledInv'
  BY DEF SettledInv, LastOne
<1>3. rec'.park = {} /\ rec'.merge = {} /\ rec'.merged = {}
  BY DEF InHand
<1>4. FinishedInv'
  BY <1>3 DEF FinishedInv, InHand
<1>5. \A w \in Workers : BeginInv(w)' /\ LaneInv(w)'
  BY DEF BeginInv, LaneInv, Busy
<1>6. \A s \in live' : LiveInv(s)'
  OBVIOUS
<1> QED
  BY <1>1, <1>2, <1>4, <1>5, <1>6 DEF IInv

LEMMA ExitDoes ==
  ASSUME Exit
  PROVE  /\ loop' \in Loop /\ loop'.pc = "off" /\ live' = {} /\ finished' = {}
         /\ lanes' \in [Workers -> Lane] /\ \A w \in Workers : lanes'[w].pc = "none"
         /\ rec' \in Rec /\ rec'.pc = "none" /\ InHand' = {} /\ rec'.merged = {}
BY NoRecTyped DEF Exit, Off, Loop, NoLane, Lane, Results, InHand

LEMMA ExitKeeps ==
  ASSUME Exit, TreeInv,
         graph' \in Graphs, bucket' \in [Tasks -> Buckets], inTree' \subseteq Tasks, snapshot' \subseteq Tasks,
         checkpoint' \in [task : Tasks \cup {NoTask}, status : {"none", "started", "finished", "failed"}],
         stopFlag' \in BOOLEAN, starts' \in 0 .. MaxStarts, crashes' \in 0 .. MaxCrashes,
         \A t \in Tasks : bucket'[t] \in {"done", "absent"} => t \in inTree'
  PROVE  IInv'
<1>1. /\ loop' \in Loop /\ loop'.pc = "off" /\ live' = {} /\ finished' = {}
      /\ lanes' \in [Workers -> Lane] /\ \A w \in Workers : lanes'[w].pc = "none"
      /\ rec' \in Rec /\ rec'.pc = "none" /\ InHand' = {} /\ rec'.merged = {}
  BY ExitDoes
<1>2. TypeOK'
  BY <1>1 DEF TypeOK
<1>3. TreeInv'
  BY <1>1 DEF TreeInv
<1> QED
  BY <1>1, <1>2, <1>3, AtRest

LEMMA InitIInv == Init => IInv
<1> SUFFICES ASSUME Init PROVE IInv
  OBVIOUS
<1>1. /\ loop.pc = "off" /\ live = {} /\ finished = {} /\ rec.pc = "none" /\ InHand = {}
      /\ rec.park = {} /\ rec.merge = {} /\ rec.merged = {}
      /\ \A w \in Workers : lanes[w].pc = "none"
  BY NoRecTyped DEF Init, Off, NoLane, InHand
<1>2. TypeOK
  <2>1. Off \in Loop /\ NoLane \in Lane /\ NoRec \in Rec
    BY NoRecTyped DEF Off, Loop, NoLane, Lane, Results
  <2>2. starts \in 0 .. MaxStarts /\ crashes \in 0 .. MaxCrashes
    BY WaveLoopAssumption DEF Init
  <2>3. /\ bucket \in [Tasks -> Buckets] /\ lanes \in [Workers -> Lane]
        /\ checkpoint \in [task : Tasks \cup {NoTask}, status : {"none", "started", "finished", "failed"}]
    BY <2>1 DEF Init, Buckets
  <2> QED
    BY <2>1, <2>2, <2>3 DEF Init, TypeOK
<1>3. TreeInv
  BY <1>1 DEF Init, TreeInv
<1>4. StageInv /\ SettledInv
  BY <1>1 DEF StageInv, SettledInv, LastOne
<1>5. FinishedInv
  BY <1>1 DEF FinishedInv, InHand
<1>6. \A w \in Workers : BeginInv(w) /\ LaneInv(w)
  BY <1>1 DEF BeginInv, LaneInv, Busy
<1> QED
  BY <1>1, <1>2, <1>3, <1>4, <1>5, <1>6 DEF IInv

\* A process that is at no wave and integrates nothing.
LEMMA RestIs ==
  ASSUME IInv, loop.pc \notin {"wave", "restored"}
  PROVE  /\ TypeOK /\ TreeInv /\ live = {} /\ finished = {} /\ rec.pc = "none" /\ InHand = {}
         /\ \A w \in Workers : lanes[w].pc = "none"
BY DEF IInv, StageInv

LEMMA StartKeeps ==
  ASSUME IInv, Start
  PROVE  IInv'
<1>1. loop.pc = "off"
  BY DEF Start
<1>2. /\ TypeOK /\ TreeInv /\ live = {} /\ finished = {} /\ rec.pc = "none" /\ InHand = {}
      /\ \A w \in Workers : lanes[w].pc = "none"
  BY <1>1, RestIs
<1>3. loop' \in Loop /\ loop'.pc = "resume"
  BY DEF Start, Off, Loop
<1>4. TypeOK'
  <2>1. starts' \in 0 .. MaxStarts
    BY <1>2, WaveLoopAssumption DEF TypeOK, Start
  <2> QED
    BY <1>2, <1>3, <2>1 DEF TypeOK, Start
<1>5. TreeInv' /\ InHand' = {}
  BY <1>2 DEF TreeInv, InHand, Start
<1> QED
  BY <1>2, <1>3, <1>4, <1>5, AtRest DEF Start

LEMMA ResumeKeeps ==
  ASSUME IInv, Resume
  PROVE  IInv'
<1>1. loop.pc = "resume"
  BY DEF Resume
<1>2. /\ TypeOK /\ TreeInv /\ live = {} /\ finished = {} /\ rec.pc = "none" /\ InHand = {}
      /\ \A w \in Workers : lanes[w].pc = "none"
  BY <1>1, RestIs
<1> DEFINE t == checkpoint.task
<1>3. /\ loop' \in Loop /\ loop'.pc = "restored"
      /\ bucket' \in [Tasks -> Buckets]
      /\ \A u \in Tasks : bucket'[u] \in {"done", "absent"} => u \in inTree
  <2>1. loop \in Loop /\ checkpoint.task \in Tasks \cup {NoTask} /\ bucket \in [Tasks -> Buckets]
    BY <1>2 DEF TypeOK
  <2>2. CASE loop' = [loop EXCEPT !.pc = "restored"] /\ bucket' = bucket
    BY <1>2, <2>1, <2>2 DEF Loop, TreeInv
  <2>3. CASE Skips(t) /\ Close(t)
    <3>1. t \in Tasks
      BY <2>1, <2>3 DEF Skips
    <3>2. loop' \in Loop /\ loop'.pc = "restored"
      <4>1. {t} \in SUBSET Tasks
        BY <3>1
      <4>2. CASE loop' = [loop EXCEPT !.pc = "restored", !.started = {t}, !.completed = {t}]
        BY <2>1, <4>1, <4>2 DEF Loop
      <4>3. CASE loop' = [loop EXCEPT !.pc = "restored", !.started = {t}]
        BY <2>1, <4>1, <4>3 DEF Loop
      <4> QED
        BY <2>3, <4>2, <4>3 DEF Close
    <3>3. CASE bucket' = IF bucket[t] = "absent" THEN [bucket EXCEPT ![t] = "done"] ELSE Relocated(t, "done")
      <4>1. /\ bucket' \in [Tasks -> Buckets]
            /\ \A u \in Tasks \ {t} : bucket'[u] = bucket[u]
            /\ bucket'[t] = IF bucket[t] = "human-review" THEN "human-review" ELSE "done"
        BY <1>2, <3>1, <3>3, ClosedTyped
      <4>2. bucket[t] = "human-review" \/ t \in inTree
        BY <1>2, <2>3, <3>1 DEF Skips, TreeInv, Terminal
      <4> QED
        BY <1>2, <3>2, <4>1, <4>2 DEF TreeInv
    <3>4. CASE Parking(t)
      <4>1. /\ bucket' \in [Tasks -> Buckets]
            /\ \A u \in Tasks \ {t} : bucket'[u] = bucket[u]
            /\ bucket'[t] = bucket[t] \/ bucket'[t] = "human-review"
        BY <1>2, <3>1, <3>4, ParkingTyped
      <4> QED
        BY <1>2, <3>1, <3>2, <4>1 DEF TreeInv
    <3> QED
      BY <2>3, <3>3, <3>4 DEF Close
  <2> QED
    BY <2>2, <2>3 DEF Resume
<1>4. /\ finished' = [task : snapshot, result : {"restored"}] /\ finished' \subseteq [task : Tasks, result : Results]
      /\ UNCHANGED <<graph, inTree, snapshot, checkpoint, stopFlag, live, lanes, rec, starts, crashes>>
  BY <1>2 DEF Resume, bounds, TypeOK, Results
<1>5. TypeOK'
  BY <1>2, <1>3, <1>4 DEF TypeOK
<1>6. TreeInv' /\ InHand' = {}
  BY <1>2, <1>3, <1>4 DEF TreeInv, InHand
<1>7. /\ \A e, f \in finished' : e.task = f.task => e = f
      /\ \A e \in finished' : e.result = "restored"
  BY <1>4
<1> QED
  BY <1>2, <1>3, <1>4, <1>5, <1>6, <1>7, AtRest

\* The steps of the loop at the top of a round that do not begin a wave.
LEMMA TopKeeps ==
  ASSUME IInv, loop.pc \in {"top", "plan"},
         graph' = graph, checkpoint' = checkpoint, starts' = starts, crashes' = crashes,
         snapshot' \subseteq Tasks, stopFlag' \in BOOLEAN, inTree' \subseteq Tasks,
         bucket' \in [Tasks -> Buckets], inTree \subseteq inTree',
         \A t \in Tasks : bucket'[t] \in {"done", "absent"} => t \in inTree',
         \/ Exit
         \/ /\ loop' \in Loop /\ loop'.pc \in {"top", "plan"}
            /\ UNCHANGED <<live, finished, lanes, rec>>
  PROVE  IInv'
<1>1. /\ TypeOK /\ TreeInv /\ live = {} /\ finished = {} /\ rec.pc = "none" /\ InHand = {}
      /\ \A w \in Workers : lanes[w].pc = "none"
  BY RestIs
<1>2. CASE Exit
  BY <1>1, <1>2, ExitKeeps DEF TypeOK
<1>3. CASE /\ loop' \in Loop /\ loop'.pc \in {"top", "plan"}
           /\ UNCHANGED <<live, finished, lanes, rec>>
  <2>1. TypeOK'
    BY <1>1, <1>3 DEF TypeOK
  <2>2. TreeInv' /\ InHand' = {}
    BY <1>1, <1>3 DEF TreeInv, InHand
  <2> QED
    BY <1>1, <1>3, <2>1, <2>2, AtRest
<1> QED
  BY <1>2, <1>3

LEMMA StopAtTopKeeps ==
  ASSUME IInv, StopAtTop
  PROVE  IInv'
<1>1. TypeOK /\ TreeInv
  BY DEF IInv
<1>2. stopFlag' \in BOOLEAN
  BY <1>1, StateTyped DEF StopAtTop, TypeOK
<1> QED
  BY <1>1, <1>2, TopKeeps DEF StopAtTop, bounds, TypeOK, TreeInv

LEMMA ResumeTaskKeeps ==
  ASSUME IInv, NEW t \in Tasks, ResumeTask(t)
  PROVE  IInv'
<1>1. TypeOK /\ TreeInv
  BY DEF IInv
<1>2. /\ loop.pc = "top" /\ bucket[t] = "active"
      /\ UNCHANGED <<graph, snapshot, checkpoint, stopFlag, starts, crashes>>
  BY DEF ResumeTask, bounds
<1>3. /\ \/ Exit
         \/ loop' \in Loop /\ loop'.pc = "top" /\ UNCHANGED <<live, finished, lanes, rec>>
      /\ inTree' \subseteq Tasks /\ inTree \subseteq inTree'
      /\ \/ bucket' = [bucket EXCEPT ![t] = "done"] /\ t \in inTree'
         \/ bucket' = [bucket EXCEPT ![t] = "human-review"]
         \/ bucket' = [bucket EXCEPT ![t] = "queue"]
         \/ bucket' = bucket
  BY <1>1, <1>2 DEF ResumeTask, memory, TypeOK
<1>4. /\ bucket' \in [Tasks -> Buckets]
      /\ \A u \in Tasks : bucket'[u] \in {"done", "absent"} => u \in inTree'
  BY <1>1, <1>3 DEF TypeOK, TreeInv, Buckets
<1> QED
  BY <1>1, <1>2, <1>3, <1>4, TopKeeps DEF TypeOK

LEMMA NextTaskKeeps ==
  ASSUME IInv, NextTask
  PROVE  IInv'
<1>1. TypeOK /\ TreeInv /\ FinishedTasks \subseteq Tasks /\ loop \in Loop
  BY StateTyped DEF IInv
<1>2. \/ Exit
      \/ loop' \in Loop /\ loop'.pc = "plan" /\ UNCHANGED <<live, finished, lanes, rec>>
  BY <1>1 DEF NextTask, Loop
<1> QED
  BY <1>1, <1>2, TopKeeps DEF NextTask, bounds, TypeOK, TreeInv

LEMMA StopBeforeWaveKeeps ==
  ASSUME IInv, StopBeforeWave
  PROVE  IInv'
<1>1. TypeOK /\ TreeInv
  BY DEF IInv
<1> QED
  BY <1>1, TopKeeps DEF StopBeforeWave, bounds, TypeOK, TreeInv

LEMMA CrashKeeps ==
  ASSUME IInv, Crash
  PROVE  IInv'
<1>1. TypeOK /\ TreeInv
  BY DEF IInv
<1>2. crashes' \in 0 .. MaxCrashes
  BY <1>1, WaveLoopAssumption DEF Crash, TypeOK
<1>3. inTree' \subseteq Tasks /\ inTree \subseteq inTree'
  BY <1>1 DEF Crash, TypeOK
<1> QED
  BY <1>1, <1>2, <1>3, ExitKeeps DEF Crash, TypeOK, TreeInv

-----------------------------------------------------------------------------
(* The lanes of a wave.                                                     *)

LEMMA ClashIs ==
  ASSUME graph' = graph, NEW t, NEW u
  PROVE  Clash(t, u)' <=> Clash(t, u)
BY DEF Clash

LEMMA ClashBoth ==
  ASSUME NEW t, NEW u
  PROVE  Clash(t, u) <=> Clash(u, t)
BY DEF Clash

LEMMA UnblockedGrows ==
  ASSUME NEW t, Unblocked(t), graph' = graph,
         loop.completed \subseteq loop'.completed, inTree \subseteq inTree'
  PROVE  Unblocked(t)'
BY DEF Unblocked

LEMMA PlanWaveKeeps ==
  ASSUME IInv, PlanWave
  PROVE  IInv'
<1>1. loop.pc = "plan" /\ UNCHANGED <<graph, disk, live, finished, rec, bounds>>
      /\ loop' = [loop EXCEPT !.pc = "wave"]
  BY DEF PlanWave
<1>2. /\ TypeOK /\ TreeInv /\ live = {} /\ finished = {} /\ rec.pc = "none" /\ InHand = {}
      /\ \A w \in Workers : lanes[w].pc = "none"
  BY <1>1, RestIs
<1>3. /\ lanes' \in [Workers -> Lane]
      /\ \A w \in Workers : \/ lanes'[w].pc = "none"
                            \/ lanes'[w].pc = "begin" /\ lanes'[w].task \in Candidates
      /\ \A v, w \in Workers : v # w /\ lanes'[v].pc # "none" /\ lanes'[w].pc # "none"
                                  => lanes'[v].task # lanes'[w].task /\ ~Clash(lanes'[v].task, lanes'[w].task)
  <2>1. PICK t \in Candidates :
          \/ lanes' = [lanes EXCEPT ![1] = Assign(t, FALSE)]
          \/ \E u \in Candidates \ {t} :
                   /\ ~Clash(t, u)
                   /\ lanes' = [lanes EXCEPT ![1] = Assign(t, FALSE), ![2] = Assign(u, TRUE)]
    BY DEF PlanWave
  <2>2. /\ Assign(t, FALSE) \in Lane /\ Assign(t, FALSE).pc = "begin" /\ Assign(t, FALSE).task = t
    BY <1>2, CandidateIs, LaneAssigned
  <2>3. CASE lanes' = [lanes EXCEPT ![1] = Assign(t, FALSE)]
    <3>1. /\ lanes' \in [Workers -> Lane] /\ lanes'[1] = Assign(t, FALSE)
          /\ \A v \in Workers \ {1} : lanes'[v] = lanes[v]
      BY <1>2, <2>2, <2>3, LaneSet DEF Workers
    <3>2. \A v \in Workers : v # 1 => lanes'[v].pc = "none"
      BY <1>2, <3>1
    <3> QED
      BY <2>2, <3>1, <3>2
  <2>4. ASSUME NEW u \in Candidates \ {t}, ~Clash(t, u),
               lanes' = [lanes EXCEPT ![1] = Assign(t, FALSE), ![2] = Assign(u, TRUE)]
        PROVE  <1>3!1 /\ <1>3!2 /\ <1>3!3
    <3>1. Assign(u, TRUE) \in Lane /\ Assign(u, TRUE).pc = "begin" /\ Assign(u, TRUE).task = u
      BY <1>2, CandidateIs, LaneAssigned
    <3>2. /\ lanes' \in [Workers -> Lane] /\ lanes'[1] = Assign(t, FALSE) /\ lanes'[2] = Assign(u, TRUE)
      <4>1. lanes \in [{1, 2} -> Lane]
        BY <1>2 DEF TypeOK, Workers
      <4>2. ASSUME NEW a \in Lane, NEW b \in Lane, lanes' = [lanes EXCEPT ![1] = a, ![2] = b]
            PROVE  lanes' \in [{1, 2} -> Lane] /\ lanes'[1] = a /\ lanes'[2] = b
        BY <4>1, <4>2
      <4> QED
        BY <2>2, <2>4, <3>1, <4>2 DEF Workers
    <3>3. ~Clash(u, t)
      BY <2>4, ClashBoth
    <3>4. Workers = {1, 2}
      BY DEF Workers
    <3> QED
      BY <2>2, <2>4, <3>1, <3>2, <3>3, <3>4
  <2> QED
    BY <2>1, <2>3, <2>4
<1>4. loop' \in Loop /\ loop'.pc = "wave" /\ loop'.started = loop.started /\ loop'.completed = loop.completed
  BY <1>1, <1>2 DEF TypeOK, Loop
<1>5. UNCHANGED <<graph, bucket, inTree, snapshot, checkpoint, stopFlag, live, finished, rec, starts, crashes>>
  BY <1>1 DEF disk, bounds
<1>6. TypeOK' /\ TreeInv' /\ InHand' = {} /\ StageInv'
  BY <1>2, <1>3, <1>4, <1>5 DEF TypeOK, TreeInv, InHand, StageInv
<1>7. FinishedInv' /\ SettledInv'
  BY <1>2, <1>5, <1>6 DEF FinishedInv, SettledInv, InHand, FinishedTasks
<1>8. ASSUME NEW w \in Workers PROVE BeginInv(w)' /\ LaneInv(w)'
  <2>1. CASE lanes'[w].pc = "none"
    BY <2>1 DEF BeginInv, LaneInv, Busy
  <2>2. CASE lanes'[w].pc = "begin" /\ lanes'[w].task \in Candidates
    <3> PICK t \in Candidates : t = lanes'[w].task
      BY <2>2
    <3>1. /\ t \in Tasks /\ bucket[t] = "queue" /\ Unblocked(t)
          /\ t \notin loop.completed /\ t \notin loop.started /\ t \notin FinishedTasks
      BY <1>2, <2>2, CandidateIs
    <3>2. Unblocked(t)'
      BY <1>4, <1>5, <3>1, UnblockedGrows DEF Unblocked
    <3>3. \A v \in Workers \ {w} : lanes'[v].pc # "none" => lanes'[v].task # t /\ ~Clash(lanes'[v].task, t)
      BY <1>3, <2>2
    <3>4. BeginInv(w)'
      <4>1. \A v \in Workers : Clash(lanes[v].task, lanes[w].task)' <=> Clash(lanes'[v].task, lanes'[w].task)
        BY <1>5 DEF Clash
      <4>2. Unblocked(lanes[w].task)'
        BY <3>2 DEF Unblocked
      <4> QED
        BY <1>2, <1>5, <3>3, <4>1, <4>2 DEF BeginInv
    <3>5. LaneInv(w)'
      BY <1>4, <1>5, <2>2, <3>1, <3>3 DEF LaneInv, FinishedTasks
    <3> QED
      BY <3>4, <3>5
  <2> QED
    BY <1>3, <2>1, <2>2
<1>9. \A s \in live' : LiveInv(s)'
  BY <1>2, <1>5
<1> QED
  BY <1>6, <1>7, <1>8, <1>9 DEF IInv

\* While a lane has a task the loop is in its wave.
LEMMA InWave ==
  ASSUME IInv, NEW w \in Workers, lanes[w].pc # "none"
  PROVE  /\ TypeOK /\ StageInv /\ TreeInv /\ FinishedInv /\ SettledInv /\ loop.pc = "wave"
         /\ lanes[w].task \in Tasks
         /\ rec.pc # "none" => /\ rec.lane \in Workers /\ lanes[rec.lane].pc = "ended"
                               /\ \A v \in Workers : lanes[v].pc \notin {"begin", "announce"}
<1>1. TypeOK /\ StageInv /\ TreeInv /\ FinishedInv /\ SettledInv /\ LaneInv(w)
  BY DEF IInv
<1>2. loop.pc = "wave"
  BY <1>1 DEF StageInv
<1> QED
  BY <1>1, <1>2 DEF StageInv, LaneInv

LEMMA BeginKeeps ==
  ASSUME IInv, NEW w \in Workers, Begin(w)
  PROVE  IInv'
<1>1. /\ lanes[w].pc = "begin" /\ (w = 2 => lanes[1].pc \notin {"begin", "announce"})
      /\ live' = live \cup {[task |-> lanes[w].task, copy |-> lanes[w].copy]}
      /\ UNCHANGED <<graph, bucket, inTree, checkpoint, stopFlag, finished, rec, starts, crashes>>
  BY DEF Begin, MayBegin, bounds
<1>2. /\ TypeOK /\ StageInv /\ TreeInv /\ FinishedInv /\ SettledInv /\ loop.pc = "wave"
      /\ lanes[w].task \in Tasks /\ rec.pc = "none"
  BY <1>1, InWave
<1>3. BeginInv(w) /\ LaneInv(w) /\ \A v \in Workers : BeginInv(v) /\ LaneInv(v)
  BY DEF IInv
<1>4. PICK t \in Tasks, c \in BOOLEAN : t = lanes[w].task /\ c = lanes[w].copy
  BY <1>2, LaneTyped
<1>5. /\ snapshot' \subseteq Tasks
      /\ lanes' \in [Workers -> Lane] /\ \A v \in Workers \ {w} : lanes'[v] = lanes[v]
      /\ loop' \in Loop /\ loop'.pc = "wave" /\ loop'.completed = loop.completed
      /\ loop'.started = loop.started \cup {t} /\ (loop.error => loop'.error)
      /\ \/ lanes'[w].pc = "announce" /\ lanes'[w].task = t /\ lanes'[w].copy = c
         \/ lanes'[w].pc = "none" /\ loop'.error
  <2> DEFINE begun == [loop EXCEPT !.started = @ \cup {t}]
  <2>1. /\ loop \in Loop /\ loop.started \in SUBSET Tasks /\ FinishedTasks \subseteq Tasks /\ snapshot \subseteq Tasks
        /\ loop.error \in BOOLEAN
    BY <1>2, StateTyped DEF TypeOK
  <2>2. /\ begun \in Loop /\ begun.pc = "wave" /\ begun.completed = loop.completed
        /\ begun.started = loop.started \cup {t} /\ begun.error = loop.error
    BY <1>2, <2>1 DEF Loop
  <2>3. \/ snapshot' = FinishedTasks /\ To(w, "announce") /\ loop' = begun
        \/ /\ lanes' = [lanes EXCEPT ![w] = NoLane] /\ loop' = [begun EXCEPT !.error = TRUE]
           /\ snapshot' = snapshot
    BY <1>4 DEF Begin
  <2> HIDE DEF begun
  <2>4. CASE snapshot' = FinishedTasks /\ To(w, "announce") /\ loop' = begun
    <3>1. /\ lanes' \in [Workers -> Lane] /\ lanes'[w].pc = "announce"
          /\ lanes'[w].task = t /\ lanes'[w].copy = c /\ \A v \in Workers \ {w} : lanes'[v] = lanes[v]
      BY <1>2, <1>4, <2>4, LaneTo
    <3> QED
      BY <2>1, <2>2, <2>4, <3>1
  <2>5. CASE /\ lanes' = [lanes EXCEPT ![w] = NoLane] /\ loop' = [begun EXCEPT !.error = TRUE]
             /\ snapshot' = snapshot
    <3>1. /\ lanes' \in [Workers -> Lane] /\ lanes'[w].pc = "none"
          /\ \A v \in Workers \ {w} : lanes'[v] = lanes[v]
      BY <1>2, <2>5, LaneLeft
    <3>2. /\ loop' \in Loop /\ loop'.pc = begun.pc /\ loop'.completed = begun.completed
          /\ loop'.started = begun.started /\ loop'.error
      BY <2>2, <2>5 DEF Loop
    <3> QED
      BY <2>1, <2>2, <2>5, <3>1, <3>2
  <2> QED
    BY <2>3, <2>4, <2>5
<1>6. InHand = {} /\ rec.park = {} /\ rec.merge = {} /\ rec.merged = {} /\ InHand' = {}
      /\ FinishedTasks' = FinishedTasks
  BY <1>1, <1>2 DEF StageInv, InHand, FinishedTasks
<1>7. /\ t \notin loop.started /\ t \notin loop.completed /\ t \notin FinishedTasks /\ bucket[t] = "queue"
      /\ Unblocked(t) /\ \A s \in live : ~Clash(s.task, t)
      /\ \A v \in Workers \ {w} : /\ lanes[v].pc # "none" => lanes[v].task # t
                                  /\ lanes[v].pc = "begin" => ~Clash(lanes[v].task, t)
  BY <1>1, <1>2, <1>3, <1>4 DEF BeginInv, LaneInv, Busy, Recorded
<1>8. TypeOK'
  <2>1. live' \subseteq Slots
    BY <1>1, <1>2, <1>4 DEF TypeOK, Slots
  <2> QED
    BY <1>1, <1>2, <1>5, <2>1 DEF TypeOK
<1>9. StageInv' /\ TreeInv'
  BY <1>1, <1>2, <1>5, <1>6 DEF StageInv, TreeInv
<1>10. FinishedInv' /\ SettledInv'
  <2>1. FinishedInv'
    BY <1>1, <1>2, <1>6 DEF FinishedInv
  <2>2. ~LastOne'
    BY <1>1, <1>2, <1>5 DEF LastOne
  <2> QED
    BY <2>1, <2>2 DEF SettledInv
<1>11. ASSUME NEW v \in Workers PROVE BeginInv(v)' /\ LaneInv(v)'
  <2>1. BeginInv(v) /\ LaneInv(v)
    BY <1>3
  <2>2. CASE v = w
    <3>1. [task |-> t, copy |-> c] \in live'
      BY <1>1, <1>4
    <3>2. BeginInv(v)'
      BY <1>5, <2>2 DEF BeginInv
    <3> QED
      BY <1>1, <1>2, <1>4, <1>5, <1>6, <1>7, <2>2, <3>1, <3>2 DEF LaneInv, Busy, Recorded
  <2>3. CASE v # w
    <3>1. lanes'[v] = lanes[v]
      BY <1>5, <2>3
    <3>2. ASSUME lanes[v].pc = "begin" PROVE \A s \in live' : ~Clash(s.task, lanes[v].task)
      <4>1. ~Clash(t, lanes[v].task)
        BY <1>7, <2>3, <3>2, ClashBoth
      <4>2. \A s \in live : ~Clash(s.task, lanes[v].task)
        BY <2>1, <3>2 DEF BeginInv
      <4> QED
        BY <1>1, <1>4, <4>1, <4>2
    <3>3. BeginInv(v)'
      <4>1. lanes[v].pc = "begin" => Unblocked(lanes[v].task) /\ Unblocked(lanes[v].task)'
        BY <1>1, <1>5, <2>1, <3>1 DEF BeginInv, Unblocked
      <4>2. \A u \in Workers : lanes'[u].pc = "begin" => u # w /\ lanes'[u] = lanes[u]
        BY <1>5
      <4>3. \A s : Clash(s, lanes[v].task)' <=> Clash(s, lanes[v].task)
        BY <1>1, <3>1 DEF Clash
      <4>4. \A s \in live' : lanes[v].pc = "begin" => ~Clash(s.task, lanes[v].task)'
        BY <1>1, <3>1, <3>2 DEF Clash
      <4>5. \A u \in Workers \ {v} : lanes[v].pc = "begin" /\ lanes'[u].pc = "begin"
                                        => ~Clash(lanes[u].task, lanes[v].task)'
        BY <1>1, <2>1, <3>1, <4>2 DEF BeginInv, Clash
      <4> QED
        BY <3>1, <4>1, <4>4, <4>5 DEF BeginInv
    <3>4. LaneInv(v)'
      BY <1>1, <1>2, <1>4, <1>5, <1>6, <1>7, <2>1, <2>3, <3>1 DEF LaneInv, Busy, Recorded
    <3> QED
      BY <3>3, <3>4
  <2> QED
    BY <2>2, <2>3
<1>12. ASSUME NEW s \in live' PROVE LiveInv(s)'
  <2> DEFINE new == [task |-> t, copy |-> c]
  <2>1. live' = live \cup {new} /\ new.task = t
    BY <1>1, <1>4
  <2> HIDE DEF new
  <2>2. \A u \in live : u.task # t /\ ~Clash(u.task, t) /\ ~Clash(t, u.task)
    BY <1>7, ClashBoth DEF IInv, LiveInv
  <2>3. CASE s \in live
    <3>1. LiveInv(s)
      BY <2>3 DEF IInv
    <3>2. \A u \in live' \ {s} : s.task # u.task /\ ~Clash(s.task, u.task)
      BY <2>1, <2>2, <2>3, <3>1 DEF LiveInv
    <3>3. loop'.error \/ \E v \in Workers : (Busy(v) /\ lanes[v].pc # "begin" /\ lanes[v].task = s.task)'
      <4>1. CASE loop.error
        BY <1>5, <4>1
      <4>2. ASSUME NEW v \in Workers, Busy(v), lanes[v].pc # "begin", lanes[v].task = s.task
            PROVE  (Busy(v) /\ lanes[v].pc # "begin" /\ lanes[v].task = s.task)'
        BY <1>1, <1>5, <4>2 DEF Busy, Recorded
      <4> QED
        BY <3>1, <4>1, <4>2 DEF LiveInv
    <3> QED
      BY <1>1, <1>5, <3>1, <3>2, <3>3 DEF LiveInv, Unblocked, Clash
  <2>4. CASE s = new
    <3>1. \A u \in live' \ {s} : s.task # u.task /\ ~Clash(s.task, u.task)
      BY <2>1, <2>2, <2>4
    <3>2. loop'.error \/ \E v \in Workers : (Busy(v) /\ lanes[v].pc # "begin" /\ lanes[v].task = s.task)'
      BY <1>1, <1>2, <1>5, <2>1, <2>4 DEF Busy, Recorded
    <3> QED
      BY <1>1, <1>5, <1>7, <2>1, <2>4, <3>1, <3>2 DEF LiveInv, Unblocked, Clash
  <2> QED
    BY <2>1, <2>3, <2>4
<1> QED
  BY <1>8, <1>9, <1>10, <1>11, <1>12 DEF IInv

\* A lane that has begun goes on, or fails, and moves no file but its own.
LEMMA LaneGoesOn ==
  ASSUME IInv, NEW w \in Workers, NEW t \in Tasks, t = lanes[w].task,
         lanes[w].pc \in {"announce", "take", "running"},
         UNCHANGED <<graph, snapshot, stopFlag, live, finished, rec, starts, crashes>>,
         checkpoint' \in [task : Tasks \cup {NoTask}, status : {"none", "started", "finished", "failed"}],
         lanes' \in [Workers -> Lane], \A v \in Workers \ {w} : lanes'[v] = lanes[v],
         loop' \in Loop, loop'.pc = loop.pc, loop'.started = loop.started,
         loop'.completed = loop.completed, loop.error => loop'.error,
         bucket' \in [Tasks -> Buckets], \A u \in Tasks \ {t} : bucket'[u] = bucket[u],
         inTree \subseteq inTree', inTree' \subseteq Tasks,
         bucket'[t] \in {"done", "absent"} => t \in inTree',
         \/ lanes'[w].pc = "none" /\ loop'.error
         \/ /\ lanes'[w].pc \in {"take", "running", "ended"}
            /\ lanes'[w].task = t /\ lanes'[w].copy = lanes[w].copy
            /\ lanes'[w].pc = "take" => ~lanes[w].copy
            /\ lanes[w].copy \/ lanes'[w].pc = "take" => bucket'[t] = "queue"
            /\ ~lanes[w].copy /\ lanes'[w].pc = "running" => bucket'[t] = "active"
  PROVE  IInv'
<1>1. /\ TypeOK /\ StageInv /\ TreeInv /\ FinishedInv /\ SettledInv /\ loop.pc = "wave"
      /\ rec.pc # "none" => /\ rec.lane \in Workers /\ lanes[rec.lane].pc = "ended"
                            /\ \A v \in Workers : lanes[v].pc \notin {"begin", "announce"}
  BY InWave
<1>2. /\ ~Recorded(w) /\ Busy(w) /\ \A v \in Workers \ {w} : Busy(v)' <=> Busy(v)
      /\ (Busy(w)' <=> lanes'[w].pc # "none")
  BY <1>1 DEF Recorded, Busy
<1>3. LaneInv(w) /\ \A v \in Workers : BeginInv(v) /\ LaneInv(v)
  BY DEF IInv
<1>4. /\ t \notin FinishedTasks /\ t \notin loop.completed /\ t \in loop.started
      /\ [task |-> t, copy |-> lanes[w].copy] \in live
      /\ \A v \in Workers \ {w} : lanes[v].pc # "none" => lanes[v].task # t
  BY <1>2, <1>3 DEF LaneInv
<1>5. FinishedTasks' = FinishedTasks /\ InHand' = InHand
  BY DEF FinishedTasks, InHand
<1>6. TypeOK'
  BY <1>1 DEF TypeOK
<1>7. StageInv'
  <2>1. loop'.pc = "wave" /\ (rec'.pc # "integrate" => InHand' = {})
    BY <1>1, <1>5 DEF StageInv
  <2>2. ASSUME rec'.pc # "none"
        PROVE  /\ \A v \in Workers : lanes'[v].pc \notin {"begin", "announce"}
               /\ rec'.lane \in Workers /\ lanes'[rec'.lane].pc = "ended"
    BY <1>1, <2>2
  <2> QED
    BY <2>1, <2>2 DEF StageInv
<1>8. TreeInv'
  BY <1>1 DEF TreeInv
<1>9. FinishedInv'
  <2>1. \A u \in FinishedTasks : bucket'[u] = bucket[u]
    BY <1>1, <1>4, StateTyped
  <2>2. \A e \in finished : e.task \in FinishedTasks
    BY DEF FinishedTasks
  <2>3. rec.merge \subseteq FinishedTasks
    BY <1>1 DEF FinishedInv, InHand
  <2>4. \A e \in finished' : e.result # "restored" =>
           bucket'[e.task] = "queue" \/ e.task \in rec'.park \cup rec'.merged
    BY <1>1, <2>1, <2>2 DEF FinishedInv
  <2>5. \A u \in rec'.merge : bucket'[u] = "queue" /\ u \notin rec'.park \cup rec'.merged
    BY <1>1, <2>1, <2>3 DEF FinishedInv
  <2> QED
    BY <1>1, <1>5, <2>4, <2>5 DEF FinishedInv, Clash
<1>10. SettledInv'
  <2>1. ~LastOne'
    BY <1>1, <1>2 DEF LastOne, Recorded, Busy, Workers
  <2> QED
    BY <2>1 DEF SettledInv
<1>11. ASSUME NEW v \in Workers PROVE BeginInv(v)' /\ LaneInv(v)'
  <2>1. BeginInv(v) /\ LaneInv(v)
    BY <1>3
  <2>2. CASE v = w
    <3>1. BeginInv(v)'
      BY <2>2 DEF BeginInv
    <3>2. CASE lanes'[w].pc = "none"
      BY <1>2, <2>2, <3>1, <3>2 DEF LaneInv
    <3>3. CASE lanes'[w].pc # "none"
      BY <1>2, <1>4, <1>5, <2>2, <3>1, <3>3 DEF LaneInv
    <3> QED
      BY <3>2, <3>3
  <2>3. CASE v # w
    <3>1. lanes'[v] = lanes[v]
      BY <2>3
    <3>2. \A u \in Workers : lanes'[u].pc = "begin" => lanes'[u] = lanes[u]
      BY <3>1
    <3>3. BeginInv(v)'
      BY <2>1, <3>1, <3>2 DEF BeginInv, Unblocked, Clash
    <3>4. lanes[v].pc # "none" => bucket'[lanes[v].task] = bucket[lanes[v].task]
      BY <1>4, <2>1, <2>3 DEF LaneInv
    <3>5. \A u \in Workers \ {v} : lanes[v].pc # "none" /\ lanes'[u].pc # "none" => lanes'[u].task # lanes[v].task
      BY <1>4, <2>1, <2>3 DEF LaneInv
    <3>6. lanes[v].pc # "none" =>
             /\ lanes[v].task \in Tasks
             /\ lanes[v].task \in loop'.started <=> lanes[v].pc # "begin"
             /\ lanes[v].pc = "take" => ~lanes[v].copy
      BY <2>1 DEF LaneInv
    <3>7. Busy(v)' => /\ Busy(v) /\ lanes[v].pc # "none"
                      /\ bucket'[lanes[v].task] = bucket[lanes[v].task]
      BY <1>2, <2>3, <3>4 DEF Busy
    <3>8. Busy(v)' =>
             /\ lanes[v].task \notin loop'.completed /\ lanes[v].task \notin FinishedTasks'
             /\ lanes[v].pc # "begin" => [task |-> lanes[v].task, copy |-> lanes[v].copy] \in live'
             /\ lanes[v].copy \/ lanes[v].pc \in {"begin", "announce", "take"} => bucket'[lanes[v].task] = "queue"
             /\ ~lanes[v].copy /\ lanes[v].pc = "running" => bucket'[lanes[v].task] = "active"
      BY <1>5, <2>1, <3>7 DEF LaneInv
    <3>9. LaneInv(v)'
      BY <3>1, <3>5, <3>6, <3>8 DEF LaneInv
    <3> QED
      BY <3>3, <3>9
  <2> QED
    BY <2>2, <2>3
<1>12. ASSUME NEW s \in live' PROVE LiveInv(s)'
  <2>1. LiveInv(s)
    BY <1>12 DEF IInv
  <2>2. loop'.error \/ \E v \in Workers : (Busy(v) /\ lanes[v].pc # "begin" /\ lanes[v].task = s.task)'
    <3>1. CASE loop.error
      BY <3>1
    <3>2. ASSUME NEW v \in Workers, Busy(v), lanes[v].pc # "begin", lanes[v].task = s.task, ~loop'.error
          PROVE  (Busy(v) /\ lanes[v].pc # "begin" /\ lanes[v].task = s.task)'
      BY <1>2, <3>2
    <3> QED
      BY <2>1, <3>1, <3>2 DEF LiveInv
  <2> QED
    BY <2>1, <2>2 DEF LiveInv, Unblocked, Clash
<1> QED
  BY <1>6, <1>7, <1>8, <1>9, <1>10, <1>11, <1>12 DEF IInv

LEMMA AnnounceKeeps ==
  ASSUME IInv, NEW w \in Workers, Announce(w)
  PROVE  IInv'
<1>1. lanes[w].pc = "announce"
      /\ UNCHANGED <<graph, bucket, inTree, snapshot, stopFlag, live, finished, rec, starts, crashes>>
  BY DEF Announce, bounds
<1>2. TypeOK /\ TreeInv /\ loop.pc = "wave" /\ lanes[w].task \in Tasks /\ rec.pc = "none"
  BY <1>1, InWave
<1>3. LaneInv(w) /\ lanes[w].copy \in BOOLEAN
  BY <1>2, LaneTyped DEF IInv
<1>4. PICK t \in Tasks : t = lanes[w].task
  BY <1>2
<1>5. bucket[t] = "queue"
  BY <1>1, <1>2, <1>3, <1>4 DEF LaneInv, Busy, Recorded
<1>6. CASE /\ checkpoint' = [task |-> t, status |-> "started"]
           /\ To(w, IF lanes[w].copy THEN "running" ELSE "take") /\ UNCHANGED loop
  <2>1. PICK pc \in {"take", "running"} : To(w, pc) /\ (pc = "take" <=> ~lanes[w].copy)
    <3>1. CASE lanes[w].copy
      BY <1>6, <3>1
    <3>2. CASE ~lanes[w].copy
      BY <1>6, <3>2
    <3> QED
      BY <3>1, <3>2
  <2>2. /\ lanes' \in [Workers -> Lane]
        /\ lanes'[w].pc = pc /\ lanes'[w].task = t /\ lanes'[w].copy = lanes[w].copy
        /\ \A v \in Workers \ {w} : lanes'[v] = lanes[v]
    BY <1>2, <1>4, <2>1, LaneTo
  <2>3. /\ checkpoint' \in [task : Tasks \cup {NoTask}, status : {"none", "started", "finished", "failed"}]
        /\ loop \in Loop /\ bucket \in [Tasks -> Buckets] /\ inTree \subseteq Tasks
    BY <1>2, <1>6 DEF TypeOK
  <2> QED
    BY <1>1, <1>3, <1>4, <1>5, <1>6, <2>1, <2>2, <2>3, LaneGoesOn
<1>7. CASE Fails(w) /\ UNCHANGED checkpoint
  <2>1. /\ lanes' \in [Workers -> Lane] /\ lanes'[w].pc = "none"
        /\ \A v \in Workers \ {w} : lanes'[v] = lanes[v]
        /\ loop' \in Loop /\ loop'.error
        /\ loop'.pc = loop.pc /\ loop'.started = loop.started /\ loop'.completed = loop.completed
    BY <1>2, <1>7, LaneFails
  <2>2. /\ checkpoint' \in [task : Tasks \cup {NoTask}, status : {"none", "started", "finished", "failed"}]
        /\ bucket \in [Tasks -> Buckets] /\ inTree \subseteq Tasks
    BY <1>2, <1>7 DEF TypeOK
  <2> QED
    BY <1>1, <1>4, <1>5, <2>1, <2>2, LaneGoesOn
<1> QED
  BY <1>4, <1>6, <1>7 DEF Announce

LEMMA TakeKeeps ==
  ASSUME IInv, NEW w \in Workers, Take(w)
  PROVE  IInv'
<1>1. /\ lanes[w].pc = "take" /\ To(w, "running") /\ loop' = loop
      /\ UNCHANGED <<graph, inTree, snapshot, checkpoint, stopFlag, live, finished, rec, starts, crashes>>
  BY DEF Take, bounds
<1>2. TypeOK /\ TreeInv /\ lanes[w].task \in Tasks
  BY <1>1, InWave
<1>3. LaneInv(w)
  BY DEF IInv
<1>4. PICK t \in Tasks : t = lanes[w].task
  BY <1>2
<1>5. /\ bucket' \in [Tasks -> Buckets] /\ \A u \in Tasks \ {t} : bucket'[u] = bucket[u]
      /\ bucket'[t] = "active"
  BY <1>2, <1>4 DEF Take, TypeOK, Buckets
<1>6. /\ lanes' \in [Workers -> Lane]
      /\ lanes'[w].pc = "running" /\ lanes'[w].task = t /\ lanes'[w].copy = lanes[w].copy
      /\ \A v \in Workers \ {w} : lanes'[v] = lanes[v]
  BY <1>1, <1>2, <1>4, LaneTo
<1>7. ~lanes[w].copy /\ loop \in Loop /\ inTree \subseteq Tasks
      /\ checkpoint \in [task : Tasks \cup {NoTask}, status : {"none", "started", "finished", "failed"}]
  BY <1>1, <1>2, <1>3 DEF LaneInv, TypeOK
<1> QED
  BY <1>1, <1>4, <1>5, <1>6, <1>7, LaneGoesOn

LEMMA EndCopyKeeps ==
  ASSUME IInv, NEW w \in Workers, EndCopy(w)
  PROVE  IInv'
<1>1. /\ lanes[w].pc = "running" /\ lanes[w].copy
      /\ UNCHANGED <<graph, bucket, inTree, snapshot, checkpoint, stopFlag, live, finished, rec, starts, crashes>>
  BY DEF EndCopy, disk, bounds
<1>2. PICK result \in {"ok", "failed", "infra"} :
        Ends(w, result) /\ loop' = [loop EXCEPT !.infra = @ \/ result = "infra"]
  BY DEF EndCopy
<1>3. TypeOK /\ TreeInv /\ loop.pc = "wave" /\ lanes[w].task \in Tasks
      /\ (rec.pc # "none" => lanes[rec.lane].pc = "ended")
  BY <1>1, InWave
<1>4. LaneInv(w)
  BY DEF IInv
<1>5. PICK t \in Tasks : t = lanes[w].task
  BY <1>3
<1>6. bucket[t] = "queue"
  BY <1>1, <1>3, <1>4, <1>5 DEF LaneInv, Busy, Recorded
<1>7. /\ lanes' \in [Workers -> Lane]
      /\ lanes'[w].pc = "ended" /\ lanes'[w].task = t /\ lanes'[w].copy = lanes[w].copy
      /\ \A v \in Workers \ {w} : lanes'[v] = lanes[v]
  BY <1>2, <1>3, <1>5, LaneEnds DEF Results
<1>8. /\ loop' \in Loop /\ loop'.pc = loop.pc /\ loop'.started = loop.started
      /\ loop'.completed = loop.completed /\ loop'.error = loop.error
  <2>1. PICK b \in BOOLEAN : loop' = [loop EXCEPT !.infra = b]
    <3>1. loop \in Loop /\ (loop.infra \/ result = "infra") \in BOOLEAN
      BY <1>3, StateTyped
    <3>2. loop' = [loop EXCEPT !.infra = (loop.infra \/ result = "infra")]
      BY <1>2, <3>1 DEF Loop
    <3> QED
      BY <3>1, <3>2
  <2> QED
    BY <1>3, <2>1 DEF TypeOK, Loop
<1>9. /\ checkpoint \in [task : Tasks \cup {NoTask}, status : {"none", "started", "finished", "failed"}]
      /\ bucket \in [Tasks -> Buckets] /\ inTree \subseteq Tasks
  BY <1>3 DEF TypeOK
<1> QED
  BY <1>1, <1>5, <1>6, <1>7, <1>8, <1>9, LaneGoesOn

LEMMA EndTreeKeeps ==
  ASSUME IInv, NEW w \in Workers, EndTree(w)
  PROVE  IInv'
<1>1. /\ lanes[w].pc = "running" /\ ~lanes[w].copy
      /\ UNCHANGED <<graph, snapshot, checkpoint, stopFlag, live, finished, rec, starts, crashes>>
  BY DEF EndTree, bounds
<1>2. TypeOK /\ TreeInv /\ loop.pc = "wave" /\ lanes[w].task \in Tasks /\ loop \in Loop
  BY <1>1, InWave, StateTyped
<1>3. PICK t \in Tasks : t = lanes[w].task
  BY <1>2
<1>4. /\ bucket \in [Tasks -> Buckets] /\ inTree \subseteq Tasks
      /\ checkpoint \in [task : Tasks \cup {NoTask}, status : {"none", "started", "finished", "failed"}]
  BY <1>2 DEF TypeOK
<1>5. /\ bucket' \in [Tasks -> Buckets] /\ \A u \in Tasks \ {t} : bucket'[u] = bucket[u]
      /\ inTree \subseteq inTree' /\ inTree' \subseteq Tasks
      /\ bucket'[t] \in {"done", "absent"} => t \in inTree'
  <2>1. \/ bucket' = [bucket EXCEPT ![t] = "done"] /\ inTree' = inTree \cup {t}
        \/ bucket' = [bucket EXCEPT ![t] = "human-review"] /\ inTree' = inTree
        \/ bucket' = [bucket EXCEPT ![t] = "queue"] /\ inTree' = inTree
        \/ bucket' = bucket /\ inTree' = inTree
    BY <1>3 DEF EndTree
  <2>2. inTree \subseteq inTree' /\ inTree' \subseteq Tasks
    BY <1>4, <2>1
  <2>3. bucket[t] \in {"done", "absent"} => t \in inTree
    BY <1>2 DEF TreeInv
  <2> QED
    BY <1>4, <2>1, <2>2, <2>3 DEF Buckets
<1>6. CASE \E result \in {"ok", "failed"} : Ends(w, result) /\ UNCHANGED loop
  <2>1. PICK result \in {"ok", "failed"} : Ends(w, result) /\ UNCHANGED loop
    BY <1>6
  <2>2. /\ lanes' \in [Workers -> Lane]
        /\ lanes'[w].pc = "ended" /\ lanes'[w].task = t /\ lanes'[w].copy = lanes[w].copy
        /\ \A v \in Workers \ {w} : lanes'[v] = lanes[v]
    BY <1>2, <1>3, <2>1, LaneEnds DEF Results
  <2> QED
    BY <1>1, <1>2, <1>3, <1>4, <1>5, <2>1, <2>2, LaneGoesOn
<1>7. CASE Fails(w)
  <2>1. /\ lanes' \in [Workers -> Lane] /\ lanes'[w].pc = "none"
        /\ \A v \in Workers \ {w} : lanes'[v] = lanes[v]
        /\ loop' \in Loop /\ loop'.error
        /\ loop'.pc = loop.pc /\ loop'.started = loop.started /\ loop'.completed = loop.completed
    BY <1>2, <1>7, LaneFails
  <2> QED
    BY <1>1, <1>3, <1>4, <1>5, <2>1, LaneGoesOn
<1> QED
  BY <1>3, <1>6, <1>7 DEF EndTree

-----------------------------------------------------------------------------
(* Outcomes and their integration.                                          *)

LEMMA RecordKeeps ==
  ASSUME IInv, NEW w \in Workers, Record(w)
  PROVE  IInv'
<1>1. /\ lanes[w].pc = "ended" /\ rec = NoRec /\ ~Beginning
      /\ UNCHANGED <<graph, bucket, inTree, checkpoint, stopFlag, starts, crashes>>
  BY DEF Record, bounds
<1>2. /\ TypeOK /\ StageInv /\ TreeInv /\ FinishedInv /\ SettledInv /\ loop.pc = "wave"
      /\ lanes[w].task \in Tasks /\ rec.pc = "none"
  BY <1>1, InWave, NoRecTyped
<1>3. LaneInv(w) /\ \A v \in Workers : BeginInv(v) /\ LaneInv(v)
  BY DEF IInv
<1>4. PICK t \in Tasks, c \in BOOLEAN, result \in Results :
        t = lanes[w].task /\ c = lanes[w].copy /\ result = lanes[w].result
  BY <1>2, LaneTyped
<1>5. /\ t \notin FinishedTasks /\ t \notin loop.completed /\ (c => bucket[t] = "queue")
      /\ \A v \in Workers \ {w} : lanes[v].pc # "none" => lanes[v].task # t
  BY <1>1, <1>2, <1>3, <1>4 DEF LaneInv, Busy, Recorded
<1>6. /\ live' = {s \in live : s.task # t}
      /\ finished' = IF c THEN finished \cup {[task |-> t, result |-> result]} ELSE finished
  BY <1>4 DEF Record
<1>7. /\ snapshot' \subseteq Tasks
      /\ lanes' \in [Workers -> Lane] /\ \A v \in Workers \ {w} : lanes'[v] = lanes[v]
      /\ loop' \in Loop /\ loop'.pc = "wave" /\ loop'.started = loop.started
      /\ loop.completed \subseteq loop'.completed /\ loop'.completed \subseteq loop.completed \cup {t}
      /\ (loop.error => loop'.error)
      /\ rec' \in Rec /\ InHand' = {} /\ rec'.merge = {} /\ rec'.merged = {} /\ rec'.park = {}
      /\ \/ lanes'[w] = lanes[w] /\ rec'.pc = "mark" /\ rec'.lane = w
         \/ lanes'[w].pc = "none" /\ loop'.error /\ rec'.pc = "none"
  <2> DEFINE recorded == CASE result = "ok" -> [loop EXCEPT !.completed = @ \cup {t}]
                           [] result = "failed" -> [loop EXCEPT !.blocked = @ \cup Branch(t)]
                           [] OTHER -> loop
  <2>1. /\ loop \in Loop /\ loop.completed \in SUBSET Tasks /\ loop.blocked \in SUBSET Tasks
        /\ snapshot \subseteq Tasks /\ loop.error \in BOOLEAN
    BY <1>2, StateTyped DEF TypeOK
  <2>2. /\ recorded \in Loop /\ recorded.pc = "wave" /\ recorded.started = loop.started
        /\ recorded.error = loop.error
        /\ loop.completed \subseteq recorded.completed /\ recorded.completed \subseteq loop.completed \cup {t}
    <3>1. CASE result = "ok"
      <4>1. loop.completed \cup {t} \in SUBSET Tasks
        BY <2>1
      <4>2. recorded = [loop EXCEPT !.completed = loop.completed \cup {t}]
        BY <3>1, <2>1 DEF Loop
      <4> HIDE DEF recorded
      <4> QED
        BY <1>2, <2>1, <4>1, <4>2 DEF Loop
    <3>2. CASE result = "failed"
      <4>1. PICK S \in SUBSET Tasks : S = loop.blocked \cup Branch(t)
        BY <2>1 DEF Branch
      <4>2. recorded = [loop EXCEPT !.blocked = S]
        BY <3>2, <2>1, <4>1 DEF Loop
      <4> HIDE DEF recorded
      <4> QED
        BY <1>2, <2>1, <4>2 DEF Loop
    <3>3. CASE result \notin {"ok", "failed"}
      <4>1. recorded = loop
        BY <3>3
      <4> HIDE DEF recorded
      <4> QED
        BY <1>2, <2>1, <4>1
    <3> QED
      BY <3>1, <3>2, <3>3
  <2>3. \/ /\ Persist /\ rec' = [NoRec EXCEPT !.pc = "mark", !.lane = w]
           /\ loop' = recorded /\ UNCHANGED lanes
        \/ /\ lanes' = [lanes EXCEPT ![w] = NoLane] /\ loop' = [recorded EXCEPT !.error = TRUE]
           /\ UNCHANGED <<snapshot, rec>>
    BY <1>4 DEF Record
  <2> HIDE DEF recorded
  <2>4. CASE /\ Persist /\ rec' = [NoRec EXCEPT !.pc = "mark", !.lane = w]
             /\ loop' = recorded /\ UNCHANGED lanes
    <3>1. snapshot' \subseteq Tasks
      <4>1. finished' \subseteq [task : Tasks, result : Results]
        BY <1>2, <1>6 DEF TypeOK
      <4> QED
        BY <2>4, <4>1 DEF Persist
    <3>2. /\ rec' \in Rec /\ rec'.merge = {} /\ rec'.merged = {} /\ rec'.park = {}
          /\ rec'.pc = "mark" /\ rec'.lane = w
      <4>1. w \in 0 .. 2
        BY DEF Workers
      <4> QED
        BY <2>4, <4>1, NoRecTyped DEF Rec
    <3>3. lanes' \in [Workers -> Lane]
      BY <1>2, <2>4 DEF TypeOK
    <3> QED
      BY <2>2, <2>4, <3>1, <3>2, <3>3 DEF InHand
  <2>5. CASE /\ lanes' = [lanes EXCEPT ![w] = NoLane] /\ loop' = [recorded EXCEPT !.error = TRUE]
             /\ UNCHANGED <<snapshot, rec>>
    <3>1. /\ lanes' \in [Workers -> Lane] /\ lanes'[w].pc = "none"
          /\ \A v \in Workers \ {w} : lanes'[v] = lanes[v]
      BY <1>2, <2>5, LaneLeft
    <3>2. /\ loop' \in Loop /\ loop'.pc = recorded.pc /\ loop'.completed = recorded.completed
          /\ loop'.started = recorded.started /\ loop'.error
      BY <2>2, <2>5 DEF Loop
    <3>3. /\ rec' \in Rec /\ rec'.merge = {} /\ rec'.merged = {} /\ rec'.park = {} /\ rec'.pc = "none"
      BY <1>1, <2>5, NoRecTyped
    <3> QED
      BY <2>1, <2>2, <2>5, <3>1, <3>2, <3>3 DEF InHand
  <2> QED
    BY <2>3, <2>4, <2>5
<1>8. TypeOK'
  <2>1. finished' \subseteq [task : Tasks, result : Results] /\ live' \subseteq Slots
    BY <1>2, <1>6 DEF TypeOK
  <2> QED
    BY <1>1, <1>2, <1>7, <2>1 DEF TypeOK
<1>9. StageInv' /\ TreeInv'
  <2>1. StageInv'
    BY <1>1, <1>4, <1>7 DEF StageInv, Beginning
  <2> QED
    BY <1>1, <1>2, <1>7, <2>1 DEF TreeInv
<1>10. FinishedInv'
  <2>1. \A e \in finished : e.task # t
    BY <1>5 DEF FinishedTasks
  <2>2. \A e, f \in finished' : e.task = f.task => e = f
    BY <1>2, <1>6, <2>1 DEF FinishedInv
  <2>3. \A e \in finished : e.result # "restored" => bucket[e.task] = "queue"
    BY <1>2 DEF FinishedInv, StageInv, InHand
  <2>4. \A e \in finished' : e.result # "restored" => bucket'[e.task] = "queue"
    BY <1>1, <1>5, <1>6, <2>3
  <2> QED
    BY <1>7, <2>2, <2>4 DEF FinishedInv
<1>11. SettledInv'
  <2>1. ~LastOne'
    BY <1>1, <1>7 DEF LastOne
  <2> QED
    BY <2>1 DEF SettledInv
<1>12. FinishedTasks' \subseteq FinishedTasks \cup {t}
  BY <1>6 DEF FinishedTasks
<1>13. ASSUME NEW v \in Workers PROVE BeginInv(v)' /\ LaneInv(v)'
  <2>1. LaneInv(v)
    BY <1>3
  <2>2. lanes'[v].pc # "begin"
    <3>1. lanes[v].pc # "begin"
      BY <1>1 DEF Beginning
    <3> QED
      BY <1>7, <3>1
  <2>3. BeginInv(v)'
    BY <2>2 DEF BeginInv
  <2>4. CASE v = w
    <3>1. ~Busy(v)'
      BY <1>7, <2>4 DEF Busy, Recorded
    <3>2. CASE lanes'[w].pc = "none"
      BY <2>3, <2>4, <3>1, <3>2 DEF LaneInv
    <3>3. CASE lanes'[w] = lanes[w] /\ lanes'[w].pc # "none"
      <4>1. \A u \in Workers \ {w} : lanes'[u] = lanes[u]
        BY <1>7
      <4> QED
        BY <1>7, <2>1, <2>3, <2>4, <3>1, <3>3, <4>1 DEF LaneInv
    <3> QED
      BY <1>1, <1>7, <3>2, <3>3
  <2>5. CASE v # w
    <3>1. lanes'[v] = lanes[v] /\ (lanes[v].pc # "none" => lanes[v].task # t)
      BY <1>5, <1>7, <2>5
    <3>2. \A u \in Workers \ {v} : lanes[v].pc # "none" /\ lanes'[u].pc # "none" => lanes'[u].task # lanes[v].task
      BY <1>7, <2>1 DEF LaneInv
    <3>3. lanes[v].pc # "none" =>
             /\ lanes[v].task \in Tasks
             /\ lanes[v].task \in loop'.started <=> lanes[v].pc # "begin"
             /\ lanes[v].pc = "take" => ~lanes[v].copy
      BY <1>7, <2>1 DEF LaneInv
    <3>4. Busy(v)' => Busy(v) /\ lanes[v].pc # "none"
      BY <1>2, <3>1 DEF Busy, Recorded
    <3>5. ASSUME Busy(v)'
          PROVE  /\ lanes[v].task \notin loop'.completed /\ lanes[v].task \notin FinishedTasks'
                 /\ lanes[v].pc # "begin" => [task |-> lanes[v].task, copy |-> lanes[v].copy] \in live'
                 /\ lanes[v].copy \/ lanes[v].pc \in {"begin", "announce", "take"} => bucket'[lanes[v].task] = "queue"
                 /\ ~lanes[v].copy /\ lanes[v].pc = "running" => bucket'[lanes[v].task] = "active"
      BY <1>1, <1>6, <1>7, <1>12, <2>1, <3>1, <3>4, <3>5 DEF LaneInv
    <3>6. LaneInv(v)'
      BY <3>1, <3>2, <3>3, <3>5 DEF LaneInv
    <3> QED
      BY <2>3, <3>6
  <2> QED
    BY <2>4, <2>5
<1>14. ASSUME NEW s \in live' PROVE LiveInv(s)'
  <2>1. s \in live /\ s.task # t /\ live' \subseteq live
    BY <1>6
  <2>2. LiveInv(s)
    BY <2>1 DEF IInv
  <2>3. loop'.error \/ \E v \in Workers : (Busy(v) /\ lanes[v].pc # "begin" /\ lanes[v].task = s.task)'
    <3>1. CASE loop.error
      BY <1>7, <3>1
    <3>2. ASSUME NEW v \in Workers, Busy(v), lanes[v].pc # "begin", lanes[v].task = s.task
          PROVE  (Busy(v) /\ lanes[v].pc # "begin" /\ lanes[v].task = s.task)'
      BY <1>4, <1>7, <2>1, <3>2 DEF Busy, Recorded
    <3> QED
      BY <2>2, <3>1, <3>2 DEF LiveInv
  <2> QED
    BY <1>1, <1>7, <2>1, <2>2, <2>3 DEF LiveInv, Unblocked, Clash
<1> QED
  BY <1>8, <1>9, <1>10, <1>11, <1>13, <1>14 DEF IInv

\* The plan of an integration: what is parked and what is merged have nothing in common, and in
\* a tree in which nobody works nothing is left waiting.
LEMMA PlanIntegrationIs ==
  ASSUME TypeOK, FinishedInv, InHand = {}, NEW lane \in 0 .. 2, PlanIntegration(lane),
         graph' = graph, bucket' = bucket, live' = live
  PROVE  /\ rec' \in Rec /\ rec'.pc = "integrate" /\ rec'.lane = lane /\ rec'.merged = {}
         /\ finished' \subseteq finished /\ FinishedTasks' \subseteq FinishedTasks
         /\ FinishedInv'
         /\ Quiescent => FinishedTasks' \subseteq InHand'
<1>1. rec.park = {} /\ rec.merge = {} /\ rec.merged = {}
  BY DEF InHand
<1>2. finished \subseteq [task : Tasks, result : Results]
  BY DEF TypeOK
<1>3. Parked \in SUBSET Tasks /\ Merges \in SUBSET Tasks
  BY <1>2 DEF Parked, Merges
<1>4. /\ rec' \in Rec /\ rec'.pc = "integrate" /\ rec'.lane = lane /\ rec'.merged = {}
      /\ rec'.park = Parked /\ rec'.merge = Merges
  <2>1. rec' = [NoRec EXCEPT !.pc = "integrate", !.lane = lane, !.park = Parked, !.merge = Merges]
    BY DEF PlanIntegration
  <2>2. ASSUME NEW park \in SUBSET Tasks, NEW merge \in SUBSET Tasks,
               rec' = [NoRec EXCEPT !.pc = "integrate", !.lane = lane, !.park = park, !.merge = merge]
        PROVE  /\ rec' \in Rec /\ rec'.pc = "integrate" /\ rec'.lane = lane /\ rec'.merged = {}
               /\ rec'.park = park /\ rec'.merge = merge
    BY <2>2, NoRecTyped DEF Rec
  <2> QED
    BY <1>3, <2>1, <2>2
<1>5. finished' = IF Quiescent THEN {e \in finished : e.task \in Parked \cup Merges} ELSE finished
  BY DEF PlanIntegration
<1>6. finished' \subseteq finished /\ FinishedTasks' \subseteq FinishedTasks
  BY <1>5 DEF FinishedTasks
<1>7. \A e \in finished : e.result # "restored" => bucket[e.task] = "queue"
  BY <1>1 DEF FinishedInv
<1>8. \A e, f \in finished : e.task = f.task => e = f
  BY DEF FinishedInv
<1>9. \A t \in Merges : \E e \in finished : /\ e.task = t /\ e.result = "ok"
                                            /\ Quiescent \/ MergesBesideLive(t)
  BY DEF Merges
<1>10. \A t \in Parked : \E e \in finished : e.task = t /\ e.result \in {"failed", "restored"}
  BY DEF Parked
<1>11. \A t \in Merges : bucket[t] = "queue" /\ t \notin Parked
  <2>1. TAKE t \in Merges
  <2>2. PICK e \in finished : e.task = t /\ e.result = "ok"
    BY <1>9
  <2>3. t \notin Parked
    BY <1>8, <1>10, <2>2
  <2> QED
    BY <1>7, <2>2, <2>3
<1>12. Parked \cup Merges \subseteq FinishedTasks'
  <2>1. SUFFICES ASSUME NEW t \in Parked \cup Merges PROVE t \in FinishedTasks'
    OBVIOUS
  <2>2. PICK e \in finished : e.task = t
    BY <1>9, <1>10
  <2>3. e \in finished'
    BY <1>5, <2>2
  <2> QED
    BY <2>2, <2>3 DEF FinishedTasks
<1>13. \A t \in Merges : \A s \in live : s.copy /\ ~Clash(s.task, t)
  BY <1>9 DEF Quiescent, MergesBesideLive
<1>14. InHand' = Parked \cup Merges
  BY <1>4 DEF InHand
<1>15. FinishedInv'
  <2>1. \A e, f \in finished' : e.task = f.task => e = f
    BY <1>6, <1>8
  <2>2. \A e \in finished' : e.result # "restored" => bucket'[e.task] = "queue"
    BY <1>6, <1>7
  <2>3. \A t \in rec'.merge : bucket'[t] = "queue" /\ t \notin rec'.park \cup rec'.merged
    BY <1>4, <1>11
  <2>4. \A t \in rec'.merge \cup rec'.merged : \A s \in live' : s.copy /\ ~Clash(s.task, t)
    BY <1>4, <1>13
  <2>5. InHand' \subseteq FinishedTasks'
    BY <1>12, <1>14
  <2>6. \A t \in rec'.merge \cup rec'.merged : \A s \in live' : s.copy /\ ~Clash(s.task, t)'
    BY <2>4 DEF Clash
  <2> QED
    BY <1>4, <2>1, <2>2, <2>3, <2>5, <2>6 DEF FinishedInv
<1>16. Quiescent => FinishedTasks' \subseteq InHand'
  BY <1>5, <1>14 DEF FinishedTasks
<1> QED
  BY <1>4, <1>6, <1>15, <1>16

\* The lanes when one of them has left the serialized section, or goes on in it: what belongs to
\* the others, and to the live slots, stays as it is.
LEMMA OthersKeep ==
  ASSUME IInv, NEW w \in Workers, rec.pc # "none", rec.lane = w,
         UNCHANGED <<graph, bucket, inTree, live>>,
         \A v \in Workers \ {w} : lanes'[v] = lanes[v],
         loop'.started = loop.started, loop'.completed = loop.completed, loop.error => loop'.error,
         finished' \subseteq finished,
         rec'.pc = "none" \/ rec'.lane = w,
         lanes'[w].pc # "none" => \A v \in Workers \ {w} : lanes[v].pc # "none" => lanes[v].task # lanes'[w].task
  PROVE  /\ \A v \in Workers \ {w} : BeginInv(v)' /\ LaneInv(v)'
         /\ \A s \in live' : LiveInv(s)'
<1>1. \A v \in Workers : LaneInv(v) /\ lanes[v].pc \notin {"begin", "announce"}
  BY DEF IInv, StageInv
<1>2. FinishedTasks' \subseteq FinishedTasks
  BY DEF FinishedTasks
<1>3. ASSUME NEW v \in Workers \ {w} PROVE BeginInv(v)' /\ LaneInv(v)' /\ (Busy(v) => Busy(v)')
  <2>1. lanes'[v] = lanes[v] /\ LaneInv(v) /\ (Busy(v)' <=> Busy(v))
    BY <1>1, <1>3 DEF Busy, Recorded
  <2>2. BeginInv(v)'
    BY <1>1, <2>1 DEF BeginInv
  <2>3. \A u \in Workers \ {v} : lanes[v].pc # "none" /\ lanes'[u].pc # "none" => lanes'[u].task # lanes[v].task
    BY <1>3, <2>1 DEF LaneInv
  <2>4. lanes[v].pc # "none" =>
           /\ lanes[v].task \in Tasks
           /\ lanes[v].task \in loop'.started <=> lanes[v].pc # "begin"
           /\ lanes[v].pc = "take" => ~lanes[v].copy
    BY <2>1 DEF LaneInv
  <2>5. Busy(v)' =>
           /\ lanes[v].task \notin loop'.completed /\ lanes[v].task \notin FinishedTasks'
           /\ lanes[v].pc # "begin" => [task |-> lanes[v].task, copy |-> lanes[v].copy] \in live'
           /\ lanes[v].copy \/ lanes[v].pc \in {"begin", "announce", "take"} => bucket'[lanes[v].task] = "queue"
           /\ ~lanes[v].copy /\ lanes[v].pc = "running" => bucket'[lanes[v].task] = "active"
    BY <1>2, <2>1 DEF LaneInv
  <2>6. LaneInv(v)'
    BY <2>1, <2>3, <2>4, <2>5 DEF LaneInv
  <2> QED
    BY <2>1, <2>2, <2>6
<1>4. ASSUME NEW s \in live' PROVE LiveInv(s)'
  <2>1. LiveInv(s)
    BY <1>4 DEF IInv
  <2>2. loop'.error \/ \E v \in Workers : (Busy(v) /\ lanes[v].pc # "begin" /\ lanes[v].task = s.task)'
    <3>1. CASE loop.error
      BY <3>1
    <3>2. ASSUME NEW v \in Workers, Busy(v), lanes[v].pc # "begin", lanes[v].task = s.task
          PROVE  (Busy(v) /\ lanes[v].pc # "begin" /\ lanes[v].task = s.task)'
      <4>1. v # w
        BY <3>2 DEF Busy, Recorded
      <4> QED
        BY <1>3, <3>2, <4>1
    <3> QED
      BY <2>1, <3>1, <3>2 DEF LiveInv
  <2> QED
    BY <2>1, <2>2 DEF LiveInv, Unblocked, Clash
<1> QED
  BY <1>3, <1>4

LEMMA MarkKeeps ==
  ASSUME IInv, NEW w \in Workers, Mark(w)
  PROVE  IInv'
<1>1. /\ rec.pc = "mark" /\ rec.lane = w
      /\ UNCHANGED <<graph, bucket, inTree, snapshot, stopFlag, live, starts, crashes>>
  BY DEF Mark, bounds
<1>2. /\ TypeOK /\ StageInv /\ TreeInv /\ FinishedInv /\ LaneInv(w)
  BY DEF IInv
<1>3. /\ loop.pc = "wave" /\ lanes[w].pc = "ended" /\ InHand = {} /\ w \in 0 .. 2 /\ w # 0
      /\ \A v \in Workers : lanes[v].pc \notin {"begin", "announce"}
  BY <1>1, <1>2 DEF StageInv, Workers
<1>4. lanes[w].task \in Tasks
  BY <1>2, <1>3 DEF LaneInv
<1>5. CASE /\ checkpoint' = [task |-> lanes[w].task,
                             status |-> IF lanes[w].result = "ok" THEN "finished" ELSE "failed"]
           /\ PlanIntegration(w) /\ UNCHANGED <<lanes, loop>>
  <2>1. /\ rec' \in Rec /\ rec'.pc = "integrate" /\ rec'.lane = w /\ rec'.merged = {}
        /\ finished' \subseteq finished /\ FinishedTasks' \subseteq FinishedTasks
        /\ FinishedInv'
        /\ Quiescent => FinishedTasks' \subseteq InHand'
    BY <1>1, <1>2, <1>3, <1>5, PlanIntegrationIs
  <2>2. TypeOK'
    <3>1. checkpoint' \in [task : Tasks \cup {NoTask}, status : {"none", "started", "finished", "failed"}]
      BY <1>4, <1>5
    <3> QED
      BY <1>1, <1>2, <1>5, <2>1, <3>1 DEF TypeOK
  <2>3. StageInv' /\ TreeInv'
    BY <1>1, <1>2, <1>3, <1>5, <2>1 DEF StageInv, TreeInv
  <2>4. SettledInv'
    <3>1. SUFFICES ASSUME LastOne' PROVE Quiescent
      BY <2>1 DEF SettledInv
    <3>2. ~loop.error /\ \A v \in Workers : lanes[v].pc = "none" \/ v = w
      BY <1>3, <1>5, <2>1, <3>1 DEF LastOne
    <3>3. \A v \in Workers : ~Busy(v)
      BY <1>1, <3>2 DEF Busy, Recorded
    <3> QED
      BY <3>2, <3>3 DEF IInv, LiveInv, Quiescent
  <2>5. /\ \A v \in Workers \ {w} : BeginInv(v)' /\ LaneInv(v)'
        /\ \A s \in live' : LiveInv(s)'
    <3>1. lanes'[w].pc # "none" => \A v \in Workers \ {w} : lanes[v].pc # "none" => lanes[v].task # lanes'[w].task
      BY <1>2, <1>5 DEF LaneInv
    <3> QED
      BY <1>1, <1>5, <2>1, <3>1, OthersKeep
  <2>6. BeginInv(w)' /\ LaneInv(w)'
    <3>1. ~Busy(w)'
      BY <2>1 DEF Busy, Recorded
    <3> QED
      BY <1>2, <1>3, <1>5, <3>1 DEF BeginInv, LaneInv
  <2> QED
    BY <2>1, <2>2, <2>3, <2>4, <2>5, <2>6 DEF IInv
<1>6. CASE Fails(w) /\ rec' = NoRec /\ UNCHANGED <<checkpoint, finished>>
  <2>1. /\ lanes' \in [Workers -> Lane] /\ lanes'[w].pc = "none"
        /\ \A v \in Workers \ {w} : lanes'[v] = lanes[v]
        /\ loop' \in Loop /\ loop'.error
        /\ loop'.pc = loop.pc /\ loop'.started = loop.started /\ loop'.completed = loop.completed
    BY <1>2, <1>6, LaneFails
  <2>2. /\ rec' \in Rec /\ rec'.pc = "none" /\ rec'.park = {} /\ rec'.merge = {} /\ rec'.merged = {}
        /\ InHand' = {}
    BY <1>6, NoRecTyped DEF InHand
  <2>3. TypeOK' /\ StageInv' /\ TreeInv'
    BY <1>1, <1>2, <1>3, <1>6, <2>1, <2>2 DEF TypeOK, StageInv, TreeInv
  <2>4. FinishedInv'
    <3>1. rec.park = {} /\ rec.merge = {} /\ rec.merged = {}
      BY <1>3 DEF InHand
    <3> QED
      BY <1>1, <1>2, <1>6, <2>2, <3>1 DEF FinishedInv
  <2>5. SettledInv'
    BY <2>1, <2>2 DEF SettledInv, LastOne
  <2>6. /\ \A v \in Workers \ {w} : BeginInv(v)' /\ LaneInv(v)'
        /\ \A s \in live' : LiveInv(s)'
    BY <1>1, <1>6, <2>1, <2>2, OthersKeep
  <2>7. BeginInv(w)' /\ LaneInv(w)'
    BY <2>1 DEF BeginInv, LaneInv, Busy
  <2> QED
    BY <2>3, <2>4, <2>5, <2>6, <2>7 DEF IInv
<1> QED
  BY <1>5, <1>6 DEF Mark

LEMMA IntegrateRestoredKeeps ==
  ASSUME IInv, IntegrateRestored
  PROVE  IInv'
<1>1. /\ loop.pc = "restored" /\ rec.pc = "none" /\ PlanIntegration(0)
      /\ UNCHANGED <<graph, bucket, inTree, snapshot, checkpoint, stopFlag, loop, live, lanes, starts, crashes>>
  BY NoRecTyped DEF IntegrateRestored, disk, bounds
<1>2. /\ TypeOK /\ StageInv /\ TreeInv /\ FinishedInv /\ InHand = {} /\ live = {}
      /\ \A w \in Workers : lanes[w].pc = "none"
  BY <1>1 DEF IInv, StageInv
<1>3. /\ rec' \in Rec /\ rec'.pc = "integrate" /\ rec'.lane = 0 /\ rec'.merged = {}
      /\ finished' \subseteq finished /\ FinishedInv' /\ FinishedTasks' \subseteq InHand'
  BY <1>1, <1>2, PlanIntegrationIs DEF Quiescent
<1>4. TypeOK' /\ StageInv' /\ TreeInv' /\ SettledInv'
  BY <1>1, <1>2, <1>3 DEF TypeOK, StageInv, TreeInv, SettledInv
<1>5. \A w \in Workers : BeginInv(w)' /\ LaneInv(w)'
  BY <1>1, <1>2 DEF BeginInv, LaneInv, Busy
<1>6. \A s \in live' : LiveInv(s)'
  BY <1>1, <1>2
<1> QED
  BY <1>3, <1>4, <1>5, <1>6 DEF IInv

\* A step of an integration: it goes on in its lane, moves no file but that of the task t it has
\* in hand, and settles what it takes out of hand.
LEMMA IntegrationKeeps ==
  ASSUME IInv, rec.pc = "integrate", NEW t \in InHand,
         UNCHANGED <<graph, snapshot, checkpoint, stopFlag, loop, live, lanes, starts, crashes>>,
         rec' \in Rec, rec'.pc = rec.pc, rec'.lane = rec.lane,
         bucket' \in [Tasks -> Buckets], \A u \in Tasks \ {t} : bucket'[u] = bucket[u],
         inTree \subseteq inTree', inTree' \subseteq Tasks,
         bucket'[t] \in {"done", "absent"} => t \in inTree',
         rec'.merged \subseteq inTree',
         finished' \subseteq finished,
         \A u \in InHand : u \in InHand' \/ u \notin FinishedTasks',
         FinishedInv'
  PROVE  IInv'
<1>1. TypeOK /\ StageInv /\ TreeInv /\ FinishedInv /\ SettledInv
  BY DEF IInv
<1>2. FinishedTasks' \subseteq FinishedTasks /\ t \in FinishedTasks /\ t \in Tasks
  BY <1>1, StateTyped DEF FinishedTasks, FinishedInv
<1>3. TypeOK' /\ TreeInv' /\ StageInv'
  <2>1. TypeOK'
    BY <1>1 DEF TypeOK
  <2>2. TreeInv'
    BY <1>1 DEF TreeInv
  <2>3. StageInv'
    <3>1. loop.pc \in {"wave", "restored"}
      BY <1>1 DEF StageInv
    <3> QED
      BY <1>1, <3>1 DEF StageInv
  <2> QED
    BY <2>1, <2>2, <2>3
<1>4. SettledInv'
  <2>1. LastOne' => LastOne
    BY DEF LastOne
  <2> QED
    BY <1>1, <1>2, <2>1 DEF SettledInv
<1>5. ASSUME NEW v \in Workers PROVE BeginInv(v)' /\ LaneInv(v)' /\ (Busy(v)' <=> Busy(v))
  <2>1. BeginInv(v) /\ LaneInv(v) /\ (Busy(v)' <=> Busy(v))
    BY DEF IInv, Busy, Recorded
  <2>2. BeginInv(v)'
    BY <2>1 DEF BeginInv, Unblocked, Clash
  <2>3. LaneInv(v)'
    <3>1. Busy(v) => lanes[v].task \in Tasks /\ lanes[v].task \notin FinishedTasks
      BY <2>1 DEF LaneInv, Busy
    <3>2. Busy(v) => bucket'[lanes[v].task] = bucket[lanes[v].task]
      BY <1>2, <3>1
    <3>3. lanes[v].pc # "none" =>
             /\ lanes[v].task \in Tasks
             /\ lanes[v].task \in loop'.started <=> lanes[v].pc # "begin"
             /\ lanes[v].pc = "take" => ~lanes[v].copy
             /\ \A u \in Workers \ {v} : lanes'[u].pc # "none" => lanes'[u].task # lanes[v].task
      BY <2>1 DEF LaneInv
    <3>4. Busy(v)' =>
             /\ lanes[v].task \notin loop'.completed /\ lanes[v].task \notin FinishedTasks'
             /\ lanes[v].pc # "begin" => [task |-> lanes[v].task, copy |-> lanes[v].copy] \in live'
             /\ lanes[v].copy \/ lanes[v].pc \in {"begin", "announce", "take"} => bucket'[lanes[v].task] = "queue"
             /\ ~lanes[v].copy /\ lanes[v].pc = "running" => bucket'[lanes[v].task] = "active"
      BY <1>2, <2>1, <3>2 DEF LaneInv
    <3> QED
      BY <3>3, <3>4 DEF LaneInv
  <2> QED
    BY <2>1, <2>2, <2>3
<1>6. ASSUME NEW s \in live' PROVE LiveInv(s)'
  <2>1. LiveInv(s)
    BY <1>6 DEF IInv
  <2>2. loop'.error \/ \E v \in Workers : (Busy(v) /\ lanes[v].pc # "begin" /\ lanes[v].task = s.task)'
    BY <1>5, <2>1 DEF LiveInv
  <2> QED
    BY <2>1, <2>2 DEF LiveInv, Unblocked, Clash
<1> QED
  BY <1>3, <1>4, <1>5, <1>6 DEF IInv

LEMMA ParkKeeps ==
  ASSUME IInv, NEW t \in Tasks, Park(t)
  PROVE  IInv'
<1>1. /\ rec.pc = "integrate" /\ t \in rec.park /\ Parking(t)
      /\ finished' = {e \in finished : e.task # t}
      /\ rec' = [rec EXCEPT !.park = @ \ {t}]
      /\ UNCHANGED <<graph, inTree, snapshot, checkpoint, stopFlag, loop, live, lanes, starts, crashes>>
  BY DEF Park, bounds
<1>2. TypeOK /\ TreeInv /\ FinishedInv /\ t \in InHand
  BY <1>1 DEF IInv, InHand
<1>3. /\ bucket' \in [Tasks -> Buckets]
      /\ \A u \in Tasks \ {t} : bucket'[u] = bucket[u]
      /\ bucket'[t] = bucket[t] \/ bucket'[t] = "human-review"
  BY <1>1, <1>2, ParkingTyped
<1>4. /\ rec' \in Rec /\ rec'.pc = rec.pc /\ rec'.lane = rec.lane
      /\ rec'.park = rec.park \ {t} /\ rec'.merge = rec.merge /\ rec'.merged = rec.merged
  BY <1>1, <1>2 DEF TypeOK, Rec
<1>5. /\ FinishedTasks' = FinishedTasks \ {t}
      /\ finished \subseteq [task : Tasks, result : Results]
      /\ rec.merge \subseteq Tasks /\ rec.merged \subseteq Tasks /\ rec.park \subseteq Tasks
      /\ inTree \subseteq Tasks
  BY <1>1, <1>2, StateTyped DEF FinishedTasks, TypeOK
<1>6. FinishedInv'
  <2>1. \A e \in finished : e.task \in Tasks
    BY <1>5
  <2>2. t \notin rec.merge /\ t \notin rec.merged
    BY <1>1, <1>2 DEF FinishedInv
  <2>3. \A e \in finished' : e.result # "restored" =>
           bucket'[e.task] = "queue" \/ e.task \in rec'.park \cup rec'.merged
    BY <1>1, <1>2, <1>3, <1>4, <2>1 DEF FinishedInv
  <2>4. \A u \in rec'.merge : bucket'[u] = "queue" /\ u \notin rec'.park \cup rec'.merged
    BY <1>2, <1>3, <1>4, <1>5, <2>2 DEF FinishedInv
  <2>5. InHand' \subseteq FinishedTasks'
    BY <1>2, <1>4, <1>5, <2>2 DEF InHand, FinishedInv
  <2>6. \A u \in rec'.merge \cup rec'.merged : \A s \in live' : s.copy /\ ~Clash(s.task, u)'
    BY <1>1, <1>2, <1>4 DEF FinishedInv, Clash
  <2>7. \A e, f \in finished' : e.task = f.task => e = f
    BY <1>1, <1>2 DEF FinishedInv
  <2>8. rec'.park \cap rec'.merged = {} /\ \A u, v \in rec'.merged : u = v
    BY <1>2, <1>4 DEF FinishedInv
  <2> QED
    BY <2>3, <2>4, <2>5, <2>6, <2>7, <2>8 DEF FinishedInv
<1>7. \A u \in InHand : u \in InHand' \/ u \notin FinishedTasks'
  BY <1>4, <1>5 DEF InHand
<1>8. /\ bucket'[t] \in {"done", "absent"} => t \in inTree'
      /\ rec'.merged \subseteq inTree' /\ finished' \subseteq finished
  BY <1>1, <1>2, <1>3, <1>4 DEF TreeInv
<1> QED
  BY <1>1, <1>2, <1>3, <1>4, <1>5, <1>6, <1>7, <1>8, IntegrationKeeps

LEMMA MergeKeeps ==
  ASSUME IInv, NEW t \in Tasks, Merge(t)
  PROVE  IInv'
<1>1. /\ rec.pc = "integrate" /\ rec.park = {} /\ rec.merged = {} /\ t \in rec.merge
      /\ UNCHANGED <<graph, snapshot, checkpoint, stopFlag, loop, live, finished, lanes, starts, crashes>>
  BY DEF Merge, bounds
<1>2. TypeOK /\ TreeInv /\ FinishedInv /\ t \in InHand
  BY <1>1 DEF IInv, InHand
<1>3. /\ bucket \in [Tasks -> Buckets] /\ inTree \subseteq Tasks /\ rec.merge \subseteq Tasks /\ rec \in Rec
      /\ \A e \in finished : e.task \in Tasks
  BY <1>2, StateTyped DEF TypeOK
<1>4. /\ bucket' \in [Tasks -> Buckets] /\ \A u \in Tasks \ {t} : bucket'[u] = bucket[u]
      /\ inTree \subseteq inTree' /\ inTree' \subseteq Tasks
      /\ bucket'[t] \in {"done", "absent"} => t \in inTree'
      /\ rec' \in Rec /\ rec'.pc = rec.pc /\ rec'.lane = rec.lane
      /\ rec'.merge = rec.merge \ {t}
      /\ \/ rec'.park = {t} /\ rec'.merged = {}
         \/ rec'.park = {} /\ rec'.merged = {t} /\ t \in inTree'
  <2> DEFINE next == [rec EXCEPT !.merge = @ \ {t}]
  <2>1. /\ next \in Rec /\ next.pc = rec.pc /\ next.lane = rec.lane /\ next.merge = rec.merge \ {t}
        /\ next.park = {} /\ next.merged = {}
    BY <1>1, <1>3 DEF Rec
  <2>2. \/ rec' = [next EXCEPT !.park = {t}] /\ UNCHANGED <<bucket, inTree>>
        \/ /\ inTree' = inTree \cup {t}
           /\ bucket' \in {bucket, [bucket EXCEPT ![t] = "absent"]}
           /\ rec' \in {[next EXCEPT !.merged = {t}], [next EXCEPT !.park = {t}]}
    BY DEF Merge
  <2> HIDE DEF next
  <2>3. {t} \in SUBSET Tasks
    OBVIOUS
  <2>4. CASE rec' = [next EXCEPT !.park = {t}]
    <3>1. /\ rec' \in Rec /\ rec'.pc = next.pc /\ rec'.lane = next.lane /\ rec'.merge = next.merge
          /\ rec'.park = {t} /\ rec'.merged = next.merged
      BY <2>1, <2>3, <2>4 DEF Rec
    <3>2. /\ bucket' \in [Tasks -> Buckets] /\ \A u \in Tasks \ {t} : bucket'[u] = bucket[u]
          /\ inTree \subseteq inTree' /\ inTree' \subseteq Tasks
          /\ bucket'[t] \in {"done", "absent"} => t \in inTree'
      <4>1. \/ UNCHANGED <<bucket, inTree>>
            \/ inTree' = inTree \cup {t} /\ bucket' \in {bucket, [bucket EXCEPT ![t] = "absent"]}
        BY <2>2
      <4> QED
        BY <1>2, <1>3, <4>1 DEF TreeInv, Buckets
    <3> QED
      BY <2>1, <3>1, <3>2
  <2>5. CASE /\ inTree' = inTree \cup {t}
             /\ bucket' \in {bucket, [bucket EXCEPT ![t] = "absent"]}
             /\ rec' = [next EXCEPT !.merged = {t}]
    <3>1. /\ rec' \in Rec /\ rec'.pc = next.pc /\ rec'.lane = next.lane /\ rec'.merge = next.merge
          /\ rec'.park = next.park /\ rec'.merged = {t}
      BY <2>1, <2>3, <2>5 DEF Rec
    <3>2. /\ bucket' \in [Tasks -> Buckets] /\ \A u \in Tasks \ {t} : bucket'[u] = bucket[u]
          /\ inTree \subseteq inTree' /\ inTree' \subseteq Tasks /\ t \in inTree'
      BY <1>3, <2>5 DEF Buckets
    <3> QED
      BY <2>1, <3>1, <3>2
  <2> QED
    BY <2>2, <2>4, <2>5
<1>5. InHand' = InHand /\ FinishedTasks' = FinishedTasks
  BY <1>1, <1>4 DEF InHand, FinishedTasks
<1>6. FinishedInv'
  <2>1. \A e \in finished : e.result # "restored" => bucket[e.task] = "queue"
    BY <1>1, <1>2 DEF FinishedInv
  <2>2. \A e \in finished' : e.result # "restored" =>
           bucket'[e.task] = "queue" \/ e.task \in rec'.park \cup rec'.merged
    BY <1>1, <1>3, <1>4, <2>1
  <2>3. \A u \in rec'.merge : bucket'[u] = "queue" /\ u \notin rec'.park \cup rec'.merged
    BY <1>2, <1>3, <1>4 DEF FinishedInv
  <2>4. InHand' \subseteq FinishedTasks'
    BY <1>2, <1>5 DEF FinishedInv
  <2>5. \A u \in rec'.merge \cup rec'.merged : \A s \in live' : s.copy /\ ~Clash(s.task, u)'
    <3>1. \A u \in rec.merge \cup rec.merged : \A s \in live : s.copy /\ ~Clash(s.task, u)
      BY <1>2 DEF FinishedInv
    <3>2. rec'.merge \cup rec'.merged \subseteq rec.merge \cup rec.merged /\ graph' = graph /\ live' = live
      BY <1>1, <1>4
    <3> QED
      BY <3>1, <3>2 DEF Clash
  <2>6. \A e, f \in finished' : e.task = f.task => e = f
    BY <1>1, <1>2 DEF FinishedInv
  <2>7. rec'.park \cap rec'.merged = {} /\ \A u, v \in rec'.merged : u = v
    BY <1>4
  <2> QED
    BY <2>2, <2>3, <2>4, <2>5, <2>6, <2>7 DEF FinishedInv
<1>7. rec'.merged \subseteq inTree' /\ finished' \subseteq finished
  BY <1>1, <1>4
<1> QED
  BY <1>1, <1>2, <1>4, <1>5, <1>6, <1>7, IntegrationKeeps

LEMMA SettleKeeps ==
  ASSUME IInv, NEW t \in Tasks, Settle(t)
  PROVE  IInv'
<1>1. /\ rec.pc = "integrate" /\ rec.park = {} /\ t \in rec.merged
      /\ UNCHANGED <<graph, inTree, snapshot, checkpoint, stopFlag, loop, live, lanes, starts, crashes>>
  BY DEF Settle, bounds
<1>2. TypeOK /\ TreeInv /\ FinishedInv /\ t \in InHand /\ t \in inTree
  BY <1>1 DEF IInv, InHand, TreeInv
<1>3. /\ bucket \in [Tasks -> Buckets] /\ inTree \subseteq Tasks /\ rec.merge \subseteq Tasks /\ rec \in Rec
      /\ \A e \in finished : e.task \in Tasks
      /\ rec.merged = {t} /\ t \notin rec.merge
  BY <1>1, <1>2, StateTyped DEF TypeOK, FinishedInv
<1>4. /\ bucket' \in [Tasks -> Buckets] /\ \A u \in Tasks \ {t} : bucket'[u] = bucket[u]
      /\ rec' \in Rec /\ rec'.pc = rec.pc /\ rec'.lane = rec.lane
      /\ rec'.merge = rec.merge /\ rec'.merged = {}
      /\ \/ rec'.park = {} /\ finished' = {e \in finished : e.task # t}
         \/ rec'.park = {t} /\ finished' = finished
  <2>1. CASE /\ bucket' = IF bucket[t] = "absent" THEN [bucket EXCEPT ![t] = "done"] ELSE Relocated(t, "done")
             /\ finished' = {e \in finished : e.task # t}
             /\ rec' = [rec EXCEPT !.merged = {}]
    <3>1. bucket' \in [Tasks -> Buckets] /\ \A u \in Tasks \ {t} : bucket'[u] = bucket[u]
      BY <1>2, <2>1, ClosedTyped
    <3>2. /\ rec' \in Rec /\ rec'.pc = rec.pc /\ rec'.lane = rec.lane
          /\ rec'.merge = rec.merge /\ rec'.merged = {} /\ rec'.park = {}
      BY <1>1, <1>3, <2>1 DEF Rec
    <3> QED
      BY <2>1, <3>1, <3>2
  <2>2. CASE rec' = [rec EXCEPT !.merged = {}, !.park = {t}] /\ UNCHANGED <<bucket, finished>>
    <3>1. {t} \in SUBSET Tasks
      OBVIOUS
    <3>2. /\ rec' \in Rec /\ rec'.pc = rec.pc /\ rec'.lane = rec.lane
          /\ rec'.merge = rec.merge /\ rec'.merged = {} /\ rec'.park = {t}
      BY <1>3, <2>2, <3>1 DEF Rec
    <3> QED
      BY <1>3, <2>2, <3>2
  <2> QED
    BY <2>1, <2>2 DEF Settle
<1>5. \/ InHand' = rec.merge /\ FinishedTasks' = FinishedTasks \ {t}
      \/ InHand' = InHand /\ FinishedTasks' = FinishedTasks
  BY <1>1, <1>3, <1>4 DEF InHand, FinishedTasks
<1>6. InHand = rec.merge \cup {t} /\ InHand \subseteq FinishedTasks
  BY <1>1, <1>2, <1>3 DEF InHand, FinishedInv
<1>7. FinishedInv'
  <2>1. \A e \in finished : e.result # "restored" => bucket[e.task] = "queue" \/ e.task = t
    BY <1>1, <1>2, <1>3 DEF FinishedInv
  <2>2. \A e \in finished' : e.result # "restored" =>
           bucket'[e.task] = "queue" \/ e.task \in rec'.park \cup rec'.merged
    BY <1>3, <1>4, <2>1
  <2>3. \A u \in rec'.merge : bucket'[u] = "queue" /\ u \notin rec'.park \cup rec'.merged
    BY <1>2, <1>3, <1>4 DEF FinishedInv
  <2>4. InHand' \subseteq FinishedTasks'
    BY <1>3, <1>5, <1>6
  <2>5. \A u \in rec'.merge \cup rec'.merged : \A s \in live' : s.copy /\ ~Clash(s.task, u)'
    <3>1. \A u \in rec.merge \cup rec.merged : \A s \in live : s.copy /\ ~Clash(s.task, u)
      BY <1>2 DEF FinishedInv
    <3>2. rec'.merge \cup rec'.merged \subseteq rec.merge \cup rec.merged /\ graph' = graph /\ live' = live
      BY <1>1, <1>4
    <3> QED
      BY <3>1, <3>2 DEF Clash
  <2>6. \A e, f \in finished' : e.task = f.task => e = f
    BY <1>2, <1>4 DEF FinishedInv
  <2>7. rec'.park \cap rec'.merged = {} /\ \A u, v \in rec'.merged : u = v
    BY <1>4
  <2> QED
    BY <2>2, <2>3, <2>4, <2>5, <2>6, <2>7 DEF FinishedInv
<1>8. \A u \in InHand : u \in InHand' \/ u \notin FinishedTasks'
  BY <1>5, <1>6
<1>9. rec'.merged \subseteq inTree' /\ finished' \subseteq finished
  BY <1>1, <1>4
<1> QED
  BY <1>1, <1>2, <1>3, <1>4, <1>7, <1>8, <1>9, IntegrationKeeps

-----------------------------------------------------------------------------
(* The end of an integration.                                               *)

LEMMA RecoveredKeeps ==
  ASSUME IInv, Recovered
  PROVE  IInv'
<1>1. /\ rec.pc = "integrate" /\ rec.park = {} /\ rec.merge = {} /\ rec.merged = {} /\ rec.lane = 0
      /\ snapshot' = FinishedTasks /\ loop' = [loop EXCEPT !.pc = "top"] /\ rec' = NoRec
      /\ UNCHANGED <<graph, bucket, inTree, checkpoint, stopFlag, live, finished, lanes, starts, crashes>>
  BY DEF Recovered, Integrated, bounds
<1>2. TypeOK /\ StageInv /\ TreeInv /\ SettledInv
  BY DEF IInv
<1>3. loop.pc = "restored" /\ live = {} /\ \A w \in Workers : lanes[w].pc = "none"
  BY <1>1, <1>2 DEF StageInv, Workers
<1>4. finished = {}
  BY <1>1, <1>2 DEF SettledInv, LastOne, InHand, FinishedTasks
<1>5. /\ rec' \in Rec /\ rec'.pc = "none" /\ rec'.merged = {} /\ InHand' = {}
      /\ loop' \in Loop /\ loop'.pc = "top"
  BY <1>1, <1>2, NoRecTyped DEF InHand, TypeOK, Loop
<1>6. TypeOK' /\ TreeInv'
  BY <1>1, <1>2, <1>5, StateTyped DEF TypeOK, TreeInv
<1> QED
  BY <1>1, <1>3, <1>4, <1>5, <1>6, AtRest

\* The lane whose outcome is settled leaves the serialized section.
LEMMA SettledIs ==
  ASSUME IInv, NEW w \in Workers, Integrated, rec.lane = w
  PROVE  /\ TypeOK /\ StageInv /\ TreeInv /\ FinishedInv /\ SettledInv /\ LaneInv(w)
         /\ loop.pc = "wave" /\ InHand = {} /\ w # 0
         /\ rec.pc = "integrate" /\ rec.park = {} /\ rec.merge = {} /\ rec.merged = {}
         /\ \A v \in Workers : lanes[v].pc \notin {"begin", "announce"}
BY DEF IInv, Integrated, InHand, StageInv, Workers

LEMMA LeavesKeeps ==
  ASSUME IInv, NEW w \in Workers, Integrated, rec.lane = w,
         UNCHANGED <<graph, bucket, inTree, checkpoint, live, finished, starts, crashes>>,
         snapshot' \subseteq Tasks, stopFlag' \in BOOLEAN, rec' = NoRec,
         loop' \in Loop, loop'.pc = loop.pc, loop'.started = loop.started,
         loop'.completed = loop.completed, loop.error => loop'.error,
         lanes' \in [Workers -> Lane], \A v \in Workers \ {w} : lanes'[v] = lanes[v],
         \/ lanes'[w].pc = "none"
         \/ lanes'[w].pc = "begin" /\ \E t \in Admitted : lanes'[w].task = t
  PROVE  IInv'
<1>1. /\ TypeOK /\ StageInv /\ TreeInv /\ FinishedInv /\ SettledInv /\ LaneInv(w)
      /\ loop.pc = "wave" /\ InHand = {} /\ w # 0
      /\ rec.pc = "integrate" /\ rec.park = {} /\ rec.merge = {} /\ rec.merged = {}
      /\ \A v \in Workers : lanes[v].pc \notin {"begin", "announce"}
  BY SettledIs
<1>2. /\ rec' \in Rec /\ rec'.pc = "none" /\ InHand' = {}
      /\ rec'.park = {} /\ rec'.merge = {} /\ rec'.merged = {}
  BY NoRecTyped DEF InHand
<1>3. TypeOK' /\ StageInv' /\ TreeInv'
  BY <1>1, <1>2 DEF TypeOK, StageInv, TreeInv
<1>4. FinishedInv'
  BY <1>1, <1>2 DEF FinishedInv
<1>5. SettledInv'
  <2>1. LastOne' => LastOne
    BY <1>1, <1>2 DEF LastOne
  <2>2. FinishedTasks' = FinishedTasks
    BY DEF FinishedTasks
  <2> QED
    BY <1>1, <1>2, <2>1, <2>2 DEF SettledInv
<1>6. ASSUME lanes'[w].pc # "none"
      PROVE  \E t \in Tasks :
               /\ lanes'[w].pc = "begin" /\ lanes'[w].task = t
               /\ bucket[t] = "queue" /\ Unblocked(t)
               /\ t \notin loop.completed /\ t \notin loop.started /\ t \notin FinishedTasks
               /\ \A s \in live : ~Clash(s.task, t)
               /\ \A v \in Workers \ {w} : lanes[v].pc # "none" => lanes[v].task # t
  <2>1. PICK t \in Admitted : lanes'[w].pc = "begin" /\ lanes'[w].task = t
    BY <1>6
  <2>2. t \in Candidates /\ \A s \in live : ~Clash(s.task, t)
    BY DEF Admitted
  <2>3. /\ t \in Tasks /\ bucket[t] = "queue" /\ Unblocked(t)
        /\ t \notin loop.completed /\ t \notin loop.started /\ t \notin FinishedTasks
    BY <1>1, <2>2, CandidateIs
  <2>4. \A v \in Workers : lanes[v].pc # "none" => lanes[v].task # t
    BY <1>1, <2>3 DEF IInv, LaneInv
  <2> QED
    BY <2>1, <2>2, <2>3, <2>4
<1>7. /\ \A v \in Workers \ {w} : BeginInv(v)' /\ LaneInv(v)'
      /\ \A s \in live' : LiveInv(s)'
  <2>1. lanes'[w].pc # "none" => \A v \in Workers \ {w} : lanes[v].pc # "none" => lanes[v].task # lanes'[w].task
    BY <1>6
  <2> QED
    BY <1>1, <1>2, <2>1, OthersKeep
<1>8. BeginInv(w)' /\ LaneInv(w)'
  <2>1. CASE lanes'[w].pc = "none"
    BY <2>1 DEF BeginInv, LaneInv, Busy
  <2>2. CASE lanes'[w].pc # "none"
    <3>1. PICK t \in Tasks :
               /\ lanes'[w].pc = "begin" /\ lanes'[w].task = t
               /\ bucket[t] = "queue" /\ Unblocked(t)
               /\ t \notin loop.completed /\ t \notin loop.started /\ t \notin FinishedTasks
               /\ \A s \in live : ~Clash(s.task, t)
               /\ \A v \in Workers \ {w} : lanes[v].pc # "none" => lanes[v].task # t
      BY <1>6, <2>2
    <3>2. \A v \in Workers \ {w} : lanes'[v].pc # "begin"
      BY <1>1
    <3>3. BeginInv(w)'
      BY <3>1, <3>2 DEF BeginInv, Unblocked, Clash
    <3>4. FinishedTasks' = FinishedTasks
      BY DEF FinishedTasks
    <3>5. LaneInv(w)'
      BY <3>1, <3>4 DEF LaneInv
    <3> QED
      BY <3>3, <3>5
  <2> QED
    BY <2>1, <2>2
<1> QED
  BY <1>3, <1>4, <1>5, <1>7, <1>8 DEF IInv

LEMMA LastLaneKeeps ==
  ASSUME IInv, NEW w \in Workers, LastLane(w)
  PROVE  IInv'
<1>1. /\ Integrated /\ rec.lane = w /\ lanes' = [lanes EXCEPT ![w] = NoLane] /\ rec' = NoRec
      /\ UNCHANGED <<graph, bucket, inTree, snapshot, checkpoint, stopFlag, loop, live, finished, starts, crashes>>
  BY DEF LastLane, disk, bounds
<1>2. TypeOK
  BY DEF IInv
<1>3. /\ lanes' \in [Workers -> Lane] /\ lanes'[w].pc = "none"
      /\ \A v \in Workers \ {w} : lanes'[v] = lanes[v]
  BY <1>1, <1>2, LaneLeft
<1>4. snapshot' \subseteq Tasks /\ stopFlag' \in BOOLEAN /\ loop' \in Loop
  BY <1>1, <1>2 DEF TypeOK
<1> QED
  BY <1>1, <1>3, <1>4, LeavesKeeps

LEMMA RefillKeeps ==
  ASSUME IInv, NEW w \in Workers, Refill(w)
  PROVE  IInv'
<1>1. /\ Integrated /\ rec.lane = w /\ stopFlag' = (loop.stop /\ stopFlag) /\ rec' = NoRec
      /\ UNCHANGED <<graph, bucket, inTree, checkpoint, live, finished, starts, crashes>>
  BY DEF Refill, bounds
<1>2. TypeOK /\ TreeInv
  BY DEF IInv
<1>3. /\ loop \in Loop /\ loop.stop \in BOOLEAN /\ stopFlag \in BOOLEAN
      /\ FinishedTasks \subseteq Tasks /\ snapshot \subseteq Tasks
  BY <1>2, StateTyped DEF TypeOK
<1> DEFINE asked == [loop EXCEPT !.stop = @ \/ stopFlag]
<1>4. /\ asked \in Loop /\ asked.pc = loop.pc /\ asked.started = loop.started
      /\ asked.completed = loop.completed /\ asked.error = loop.error
  <2>1. PICK b \in BOOLEAN : b = (loop.stop \/ stopFlag)
    BY <1>3
  <2>2. asked = [loop EXCEPT !.stop = b]
    BY <1>3, <2>1 DEF Loop
  <2> HIDE DEF asked
  <2> QED
    BY <1>3, <2>2 DEF Loop
<1>5. \/ /\ lanes' = [lanes EXCEPT ![w] = NoLane]
         /\ \/ loop' = asked /\ snapshot' = FinishedTasks
            \/ loop' = [asked EXCEPT !.error = TRUE] /\ UNCHANGED snapshot
      \/ /\ \E t \in Admitted : lanes' = [lanes EXCEPT ![w] = Assign(t, TRUE)]
         /\ loop' = asked /\ snapshot' = FinishedTasks
  BY DEF Refill
<1> HIDE DEF asked
<1>6. /\ loop' \in Loop /\ loop'.pc = loop.pc /\ loop'.started = loop.started
      /\ loop'.completed = loop.completed /\ (loop.error => loop'.error)
  <2>1. CASE loop' = asked
    BY <1>4, <2>1
  <2>2. CASE loop' = [asked EXCEPT !.error = TRUE]
    BY <1>4, <2>2 DEF Loop
  <2> QED
    BY <1>5, <2>1, <2>2
<1>7. snapshot' \subseteq Tasks /\ stopFlag' \in BOOLEAN
  BY <1>1, <1>3, <1>5
<1>8. /\ lanes' \in [Workers -> Lane] /\ \A v \in Workers \ {w} : lanes'[v] = lanes[v]
      /\ \/ lanes'[w].pc = "none"
         \/ lanes'[w].pc = "begin" /\ \E t \in Admitted : lanes'[w].task = t
  <2>1. CASE lanes' = [lanes EXCEPT ![w] = NoLane]
    BY <1>2, <2>1, LaneLeft
  <2>2. CASE \E t \in Admitted : lanes' = [lanes EXCEPT ![w] = Assign(t, TRUE)]
    <3>1. PICK t \in Admitted : lanes' = [lanes EXCEPT ![w] = Assign(t, TRUE)]
      BY <2>2
    <3>2. t \in Tasks
      BY <1>2, CandidateIs DEF Admitted
    <3>3. /\ Assign(t, TRUE) \in Lane /\ Assign(t, TRUE).pc = "begin" /\ Assign(t, TRUE).task = t
      BY <3>2, LaneAssigned
    <3>4. /\ lanes' \in [Workers -> Lane] /\ lanes'[w] = Assign(t, TRUE)
          /\ \A v \in Workers \ {w} : lanes'[v] = lanes[v]
      BY <1>2, <3>1, <3>3, LaneSet
    <3> QED
      BY <3>3, <3>4
  <2> QED
    BY <1>5, <2>1, <2>2
<1> QED
  BY <1>1, <1>6, <1>7, <1>8, LeavesKeeps

LEMMA WaveDoneKeeps ==
  ASSUME IInv, WaveDone
  PROVE  IInv'
<1>1. /\ loop.pc = "wave" /\ rec.pc = "none" /\ \A w \in Workers : lanes[w].pc = "none"
      /\ UNCHANGED <<graph, bucket, inTree, snapshot, checkpoint, stopFlag, starts, crashes>>
  BY NoRecTyped DEF WaveDone, disk, bounds
<1>2. TypeOK /\ StageInv /\ TreeInv /\ SettledInv
  BY DEF IInv
<1>3. CASE Exit
  BY <1>1, <1>2, <1>3, ExitKeeps DEF TypeOK, TreeInv
<1>4. CASE ~loop.error /\ loop' = [loop EXCEPT !.pc = "top"] /\ UNCHANGED <<live, finished, lanes, rec>>
  <2>1. InHand = {}
    BY <1>1, <1>2 DEF StageInv
  <2>2. finished = {}
    BY <1>1, <1>2, <1>4, <2>1 DEF SettledInv, LastOne, FinishedTasks
  <2>3. live = {}
    BY <1>1, <1>4 DEF IInv, LiveInv, Busy
  <2>4. loop' \in Loop /\ loop'.pc = "top"
    BY <1>2, <1>4 DEF TypeOK, Loop
  <2>5. TypeOK' /\ TreeInv' /\ InHand' = {}
    BY <1>1, <1>2, <1>4, <2>1, <2>4 DEF TypeOK, TreeInv, InHand
  <2> QED
    BY <1>1, <1>4, <2>2, <2>3, <2>4, <2>5, AtRest
<1> QED
  BY <1>3, <1>4 DEF WaveDone

-----------------------------------------------------------------------------
(* The invariant.                                                           *)

\* Nothing changes but, at most, the request to stop.
LEMMA FrameKeeps ==
  ASSUME IInv, stopFlag' \in BOOLEAN,
         UNCHANGED <<graph, bucket, inTree, snapshot, checkpoint, loop, live, finished, lanes, rec, starts, crashes>>
  PROVE  IInv'
<1>1. TypeOK' /\ StageInv' /\ TreeInv'
  BY DEF IInv, TypeOK, StageInv, TreeInv, InHand
<1>2. FinishedTasks' = FinishedTasks /\ InHand' = InHand
  BY DEF FinishedTasks, InHand
<1>3. FinishedInv' /\ SettledInv'
  BY <1>2 DEF IInv, FinishedInv, SettledInv, LastOne, Clash
<1>4. \A w \in Workers : Busy(w)' <=> Busy(w)
  BY DEF Busy, Recorded
<1>5. ASSUME NEW w \in Workers PROVE BeginInv(w)' /\ LaneInv(w)'
  <2>1. BeginInv(w) /\ LaneInv(w)
    BY DEF IInv
  <2>2. BeginInv(w)'
    BY <2>1 DEF BeginInv, Unblocked, Clash
  <2>3. LaneInv(w)'
    BY <1>2, <1>4, <2>1 DEF LaneInv
  <2> QED
    BY <2>2, <2>3
<1>6. ASSUME NEW s \in live' PROVE LiveInv(s)'
  <2>1. LiveInv(s)
    BY <1>6 DEF IInv
  <2> QED
    BY <1>4, <2>1 DEF LiveInv, Unblocked, Clash
<1> QED
  BY <1>1, <1>3, <1>5, <1>6 DEF IInv

LEMMA StepIInv == IInv /\ [Next]_vars => IInv'
<1> SUFFICES ASSUME IInv, [Next]_vars PROVE IInv'
  OBVIOUS
<1>1. CASE Start
  BY <1>1, StartKeeps
<1>2. CASE Resume \/ IntegrateRestored \/ Recovered
  BY <1>2, ResumeKeeps, IntegrateRestoredKeeps, RecoveredKeeps
<1>3. CASE StopAtTop \/ (\E t \in Tasks : ResumeTask(t)) \/ NextTask \/ StopBeforeWave \/ PlanWave
  BY <1>3, StopAtTopKeeps, ResumeTaskKeeps, NextTaskKeeps, StopBeforeWaveKeeps, PlanWaveKeeps
<1>4. CASE \E w \in Workers : Begin(w) \/ Announce(w) \/ Take(w) \/ EndCopy(w) \/ EndTree(w)
  BY <1>4, BeginKeeps, AnnounceKeeps, TakeKeeps, EndCopyKeeps, EndTreeKeeps
<1>5. CASE \E w \in Workers : Record(w) \/ Mark(w) \/ LastLane(w) \/ Refill(w)
  BY <1>5, RecordKeeps, MarkKeeps, LastLaneKeeps, RefillKeeps
<1>6. CASE \E t \in Tasks : Park(t) \/ Merge(t) \/ Settle(t)
  BY <1>6, ParkKeeps, MergeKeeps, SettleKeeps
<1>7. CASE WaveDone
  BY <1>7, WaveDoneKeeps
<1>8. CASE RequestStop
  BY <1>8, FrameKeeps DEF RequestStop, memory, bounds
<1>9. CASE Crash
  BY <1>9, CrashKeeps
<1>10. CASE UNCHANGED vars
  BY <1>10, FrameKeeps DEF vars, disk, memory, bounds, IInv, TypeOK
<1> QED
  BY <1>1, <1>2, <1>3, <1>4, <1>5, <1>6, <1>7, <1>8, <1>9, <1>10 DEF Next, Round

\* Through waves, refills, failing lanes, integrations, crashes and restarts the lanes, the live
\* slots, the finished copies and the files of the tasks agree (dispatchWaveSlots, recordOutcome,
\* integrateFinishedSlots, recoverFromCrash).
THEOREM Invariance == Spec => []IInv
<1>1. Init => IInv
  BY InitIInv
<1>2. IInv /\ [Next]_vars => IInv'
  BY StepIInv
<1> QED
  BY <1>1, <1>2, PTL DEF Spec

-----------------------------------------------------------------------------
(* The properties.                                                          *)

\* Every variable keeps to its type.
THEOREM TypeCorrect == Spec => []TypeOK
<1>1. IInv => TypeOK
  BY DEF IInv
<1> QED
  BY <1>1, Invariance, PTL

\* A task file reaches done only with the work in the primary tree: by the run of the task there,
\* by a merge that was not blocked, or by a restart that finds the work in the tree
\* (settleTaskFile, closeSkipCompletedTaskFile).
THEOREM DoneStaysMerged == Spec => []DoneIsMerged
<1>1. IInv => DoneIsMerged
  BY DEF IInv, TreeInv, DoneIsMerged
<1> QED
  BY <1>1, Invariance, PTL

\* Live slots have different tasks without common paths, of which none waits for another, and a
\* branch is merged beside copies only, on paths none of them works on (admitWorkerCandidate,
\* planIncrementalStep).
THEOREM LiveStaysApart == Spec => []LiveApart
<1>1. ASSUME IInv PROVE LiveApart
  <2>1. ASSUME NEW s \in live, NEW u \in live, s # u
        PROVE  /\ s.task # u.task /\ ~Clash(s.task, u.task)
               /\ <<s.task, u.task>> \in graph.before => s.task \in inTree
    <3>1. LiveInv(s) /\ LiveInv(u)
      BY <1>1 DEF IInv
    <3>2. s.task # u.task /\ ~Clash(s.task, u.task)
      BY <2>1, <3>1 DEF LiveInv
    <3>3. ASSUME <<s.task, u.task>> \in graph.before PROVE s.task \in inTree
      <4>1. s.task \in loop.completed \cup inTree
        BY <3>1, <3>3 DEF LiveInv, Unblocked
      <4> QED
        BY <3>1, <4>1 DEF LiveInv
    <3> QED
      BY <3>2, <3>3
  <2>2. \A t \in rec.merge \cup rec.merged : \A s \in live : s.copy /\ ~Clash(s.task, t)
    BY <1>1 DEF IInv, FinishedInv
  <2> QED
    BY <2>1, <2>2 DEF LiveApart
<1> QED
  BY <1>1, Invariance, PTL

\* Whichever lane ends last settles every finished copy that is still waiting, and a restart all
\* of those of the snapshot, before the next round is planned (recordOutcome,
\* integrateRestoredSlots).
THEOREM NothingIsLeftBehind == Spec => []NothingLeftBehind
<1>1. IInv => NothingLeftBehind
  BY DEF IInv, StageInv, NothingLeftBehind
<1> QED
  BY <1>1, Invariance, PTL

\* A run moves the file of a task that its lane holds in queue or active, a merge takes away one that
\* stands in queue, and every other move goes through relocateTask.
LEMMA StepKeepsReview ==
  ASSUME IInv, [Next]_vars, NEW t \in Tasks, bucket[t] = "human-review"
  PROVE  bucket'[t] = "human-review"
<1>1. TypeOK /\ bucket \in [Tasks -> Buckets]
  BY DEF IInv, TypeOK
<1>2. CASE UNCHANGED bucket
  BY <1>2
<1>3. ASSUME Resume PROVE bucket'[t] = "human-review"
  <2>1. CASE Skips(checkpoint.task) /\ Close(checkpoint.task)
    <3>1. PICK u \in Tasks : u = checkpoint.task
      BY <1>1, <2>1 DEF Skips, TypeOK
    <3>2. \/ bucket' = IF bucket[u] = "absent" THEN [bucket EXCEPT ![u] = "done"] ELSE Relocated(u, "done")
          \/ Parking(u)
      BY <2>1, <3>1 DEF Close
    <3>3. CASE u = t
      BY <1>1, <3>2, <3>3, ClosedTyped, ParkingTyped
    <3>4. CASE u # t
      BY <1>1, <3>2, <3>4, ClosedTyped, ParkingTyped
    <3> QED
      BY <3>3, <3>4
  <2> QED
    BY <1>2, <1>3, <2>1 DEF Resume
<1>4. ASSUME NEW u \in Tasks, ResumeTask(u) PROVE bucket'[t] = "human-review"
  BY <1>1, <1>4 DEF ResumeTask
<1>5. ASSUME NEW w \in Workers, Take(w) \/ EndTree(w) PROVE bucket'[t] = "human-review"
  <2>1. lanes[w].pc \in {"take", "running"} /\ (lanes[w].pc = "running" => ~lanes[w].copy)
    BY <1>5 DEF Take, EndTree
  <2>2. LaneInv(w) /\ Busy(w) /\ lanes[w].task \in Tasks
    <3>1. LaneInv(w) /\ lanes[w].task \in Tasks /\ (rec.pc # "none" => lanes[rec.lane].pc = "ended")
      BY <2>1, InWave DEF IInv
    <3> QED
      BY <2>1, <3>1 DEF Busy, Recorded
  <2>3. lanes[w].task # t
    BY <2>1, <2>2 DEF LaneInv
  <2> QED
    BY <1>1, <1>5, <2>2, <2>3 DEF Take, EndTree
<1>6. ASSUME NEW u \in Tasks, Park(u) \/ Settle(u) PROVE bucket'[t] = "human-review"
  <2>1. \/ bucket' = bucket
        \/ bucket' = IF bucket[u] = "absent" THEN [bucket EXCEPT ![u] = "done"] ELSE Relocated(u, "done")
        \/ Parking(u)
    BY <1>6 DEF Park, Settle
  <2>2. CASE u = t
    BY <1>1, <2>1, <2>2, ClosedTyped, ParkingTyped
  <2>3. CASE u # t
    BY <1>1, <2>1, <2>3, ClosedTyped, ParkingTyped
  <2> QED
    BY <2>2, <2>3
<1>7. ASSUME NEW u \in Tasks, Merge(u) PROVE bucket'[t] = "human-review"
  <2>1. bucket[u] = "queue"
    BY <1>7 DEF Merge, IInv, FinishedInv
  <2>2. bucket' \in {bucket, [bucket EXCEPT ![u] = "absent"]}
    BY <1>7 DEF Merge
  <2> QED
    BY <1>1, <2>1, <2>2
<1>8. CASE \/ Start \/ IntegrateRestored \/ Recovered \/ StopAtTop \/ NextTask \/ StopBeforeWave \/ PlanWave
           \/ WaveDone \/ RequestStop \/ Crash \/ UNCHANGED vars
  <2>1. UNCHANGED bucket
    BY <1>8 DEF Start, IntegrateRestored, Recovered, StopAtTop, NextTask, StopBeforeWave, PlanWave,
                WaveDone, RequestStop, Crash, vars, disk
  <2> QED
    BY <1>2, <2>1
<1>9. CASE \E w \in Workers : \/ Begin(w) \/ Announce(w) \/ EndCopy(w) \/ Record(w) \/ Mark(w)
                              \/ LastLane(w) \/ Refill(w)
  <2>1. UNCHANGED bucket
    BY <1>9 DEF Begin, Announce, EndCopy, Record, Mark, LastLane, Refill, disk
  <2> QED
    BY <1>2, <2>1
<1> QED
  BY <1>3, <1>4, <1>5, <1>6, <1>7, <1>8, <1>9 DEF Next, Round

\* No step of the loop takes a task file out of human-review, a close of a merged task and the
\* restart included (relocateTask, createHumanReviewPark).
THEOREM ReviewStaysFinal == Spec => ReviewIsFinal
<1>1. IInv /\ [Next]_vars => [\A t \in Tasks : bucket[t] = "human-review" => bucket'[t] = "human-review"]_vars
  BY StepKeepsReview
<1> QED
  BY <1>1, Invariance, PTL DEF Spec, ReviewIsFinal

=============================================================================
