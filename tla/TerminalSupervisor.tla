------------------------- MODULE TerminalSupervisor -------------------------
(***************************************************************************)
(* The one mobile terminal of a host: its creation, control and end in     *)
(* mobile-gateway/src/application/terminal-supervisor.ts, -runtime.ts and  *)
(* -local.ts, over the agent processes of node-pty                         *)
(* (infrastructure/node-pty-direct-agent-terminal-adapter.ts) and the      *)
(* durable session registry.                                               *)
(*                                                                         *)
(* Every operation runs in one queue (exclusively), so an operation is one *)
(* step, except where it awaits something that takes time: the creation of *)
(* a session and the probe of a forced close.  Processes exit at any time; *)
(* the handler of their exit waits in the same queue.                      *)
(***************************************************************************)
EXTENDS Naturals, FiniteSets

CONSTANTS
    Sessions,    \* the session ids that randomUUID gives, in that order
    Devices,     \* the paired devices
    Requests,    \* the request ids a device uses to create a session
    Inputs,      \* the input ids of a session, each with its text
    NoSession,   \* no session
    MaxRestarts  \* bound: deaths of the gateway

ASSUME SupervisorAssumption ==
    /\ Sessions \subseteq Nat /\ IsFiniteSet(Sessions) /\ NoSession \notin Sessions /\ NoSession \notin Devices
    /\ MaxRestarts \in Nat

VARIABLES
    durable,     \* composed with registry, processes and gatewayInstanceId
    runtime,     \* the sessions the gateway knows
    active,      \* activeSessionId
    requests,    \* createRequests, by device and request id
    op,          \* the operation that is waiting for something
    exits,       \* handleExit calls in the queue
    inputs,      \* the ledger of inputs of each session
    registry,    \* the record of each session on disk
    pty,         \* the agent processes of the operating system
    abandoned,   \* running processes that a failed creation could not close
    written,     \* how often a process was given an input
    told,        \* sessions whose creation was answered
    restarts

memory == <<runtime, active, requests, op, exits, inputs>>

system == <<pty, abandoned, written>>

vars == <<durable, memory, registry, system, told, restarts>>

\* Settled sessions only: interrupting and closing do not outlast an operation.
States == {"none", "starting", "live", "orphaned", "ended", "failed"}

Final == {"ended", "failed"}

Session == [state : States, owner : Devices \cup {NoSession}, revoked : BOOLEAN,
            expired : BOOLEAN, identified : BOOLEAN]

NoRuntime == [state |-> "none", owner |-> NoSession, revoked |-> FALSE,
              expired |-> FALSE, identified |-> FALSE]

NoRecord == [state |-> "none", identified |-> FALSE]

Record(r) == [state |-> r.state, identified |-> r.identified]

Keys == Devices \X Requests

NoKey == <<NoSession, NoSession>>

Operations == [at : {"allocate", "start", "identify", "record", "verified", "refuse"},
               session : Sessions, key : Keys \cup {NoKey}]

NoOp == [at |-> "none", session |-> NoSession, key |-> NoKey]

TypeOK ==
    /\ durable \in BOOLEAN
    /\ runtime \in [Sessions -> Session]
    /\ \A s \in Sessions : runtime[s].revoked => runtime[s].expired
    /\ active \in Sessions \cup {NoSession}
    /\ requests \in [Keys -> Sessions \cup {NoSession}]
    /\ op \in Operations \cup {NoOp}
    /\ exits \subseteq Sessions
    /\ inputs \in [Sessions -> [Inputs -> {"new", "written", "unknown"}]]
    /\ registry \in [Sessions -> [state : States, identified : BOOLEAN]]
    /\ pty \in [Sessions -> {"none", "running", "stopping", "gone"}]
    /\ abandoned \subseteq {s \in Sessions : pty[s] = "running"}
    /\ written \in [Sessions -> [Inputs -> Nat]]
    /\ told \subseteq Sessions
    /\ restarts \in 0 .. MaxRestarts

\* What a gateway that was just started has in memory.
NoRuntimes == [s \in Sessions |-> NoRuntime]

NoRequests == [k \in Keys |-> NoSession]

NewInputs == [s \in Sessions |-> [i \in Inputs |-> "new"]]

Init ==
    /\ durable \in BOOLEAN
    /\ runtime = NoRuntimes /\ active = NoSession /\ requests = NoRequests
    /\ op = NoOp /\ exits = {} /\ inputs = NewInputs
    /\ registry = [s \in Sessions |-> NoRecord]
    /\ pty = [s \in Sessions |-> "none"]
    /\ abandoned = {}
    /\ written = [s \in Sessions |-> [i \in Inputs |-> 0]]
    /\ told = {}
    /\ restarts = 0

Idle == op = NoOp

Known(s) == runtime[s].state # "none"

(***************************************************************************)
(* Leases, the registry and the process                                    *)
(***************************************************************************)

\* Mutant: a fence that compares owner and generation only.
FenceByGeneration(s, d) == Known(s) /\ runtime[s].owner = d

\* A device knows every generation: each is published as an event.  A revoked
\* lease has the next generation and expires at once.
Fence(s, d) == Known(s) /\ runtime[s].owner = d /\ ~runtime[s].expired

\* Mutant: the next generation, without the expiry.
RevokedUnexpired(r) == [r EXCEPT !.revoked = TRUE]

Revoked(r) == [r EXCEPT !.revoked = TRUE, !.expired = TRUE]

Become(s, r) == runtime' = [runtime EXCEPT ![s] = r]

To(s, state) == Revoked([runtime[s] EXCEPT !.state = state])

\* syncRegistry after a change: a write that fails is not noticed.
Sync(s, r) ==
    \/ durable /\ registry' = [registry EXCEPT ![s] = Record(r)]
    \/ UNCHANGED registry

Release(s) == active' = IF active = s THEN NoSession ELSE active

\* The adapter sends the signal and does not wait for the exit.
Stopped(s) ==
    /\ pty[s] = "running"
    /\ pty' = [pty EXCEPT ![s] = "stopping"]
    /\ abandoned' = abandoned \ {s}

\* It refuses a process that exited or was stopped, and kill may throw; a creation that failed
\* does not look at that.
LeftRunning(s) ==
    /\ abandoned' = IF pty[s] = "running" THEN abandoned \cup {s} ELSE abandoned
    /\ UNCHANGED pty

(***************************************************************************)
(* createSession                                                           *)
(***************************************************************************)

\* An id is new: no process and no record was ever made under it, or a later one.
Fresh(s) == \A t \in Sessions : t >= s => ~Known(t) /\ pty[t] = "none" /\ registry[t] = NoRecord

\* A key that is known only gets the snapshot of its session.
Reserve(s, k) ==
    /\ Idle /\ requests[k] = NoSession /\ active = NoSession
    /\ Fresh(s) /\ \A t \in Sessions : t < s => ~Fresh(t)
    /\ active' = s
    /\ op' = [at |-> "allocate", session |-> s, key |-> k]
    /\ UNCHANGED <<durable, runtime, requests, exits, inputs, registry, system, told, restarts>>

Goto(at) == op' = [op EXCEPT !.at = at]

AllocateFails ==
    /\ op.at = "allocate"
    /\ active' = NoSession /\ op' = NoOp
    /\ UNCHANGED <<durable, runtime, requests, exits, inputs, registry, system, told, restarts>>

Allocate ==
    /\ op.at = "allocate"
    /\ Become(op.session, [NoRuntime EXCEPT !.state = "starting", !.owner = op.key[1]])
    /\ Goto("start")
    /\ UNCHANGED <<durable, active, requests, exits, inputs, registry, system, told, restarts>>

\* Nothing was spawned: the session is failed.
StartFails ==
    /\ op.at = "start"
    /\ LET s == op.session IN Become(s, To(s, "failed")) /\ Sync(s, To(s, "failed"))
    /\ active' = NoSession /\ op' = NoOp
    /\ UNCHANGED <<durable, requests, exits, inputs, system, told, restarts>>

Start ==
    /\ op.at = "start"
    /\ LET s == op.session
       IN  /\ pty' = [pty EXCEPT ![s] = "running"]
           /\ Become(s, [runtime[s] EXCEPT !.state = "live"])
    /\ Goto("identify")
    /\ UNCHANGED <<durable, active, requests, exits, inputs, registry, abandoned, written,
                   told, restarts>>

\* The host may know nothing of a process that is already gone.
Identify ==
    /\ op.at = "identify"
    /\ \E known \in BOOLEAN :
          /\ known => durable /\ pty[op.session] # "gone"
          /\ Become(op.session, [runtime[op.session] EXCEPT !.identified = known])
    /\ Goto("record")
    /\ UNCHANGED <<durable, active, requests, exits, inputs, registry, system, told, restarts>>

\* Mutant: the first write is made as all others are.
PersistBestEffort ==
    /\ op.at = "record"
    /\ LET s == op.session
       IN  /\ Sync(s, runtime[s])
           /\ requests' = [requests EXCEPT ![op.key] = s]
           /\ told' = told \cup {s}
    /\ op' = NoOp
    /\ UNCHANGED <<durable, runtime, active, exits, inputs, system, restarts>>

\* The first write is required; only after it is the key known.
Persist ==
    /\ op.at = "record"
    /\ LET s == op.session
       IN  /\ registry' = IF durable THEN [registry EXCEPT ![s] = Record(runtime[s])]
                          ELSE registry
           /\ requests' = [requests EXCEPT ![op.key] = s]
           /\ told' = told \cup {s}
    /\ op' = NoOp
    /\ UNCHANGED <<durable, runtime, active, exits, inputs, system, restarts>>

\* Mutant: a start that failed leaves its process.
GiveUpUnclosed ==
    /\ op.at \in {"identify", "record"} /\ durable
    /\ LET s == op.session
       IN  Become(s, Revoked(runtime[s])) /\ Sync(s, Revoked(runtime[s]))
    /\ active' = NoSession /\ op' = NoOp
    /\ UNCHANGED <<durable, requests, exits, inputs, system, told, restarts>>

\* Mutant: a start that failed leaves its lease.
GiveUpUnrevoked ==
    /\ op.at \in {"identify", "record"} /\ durable
    /\ Stopped(op.session) \/ LeftRunning(op.session)
    /\ active' = NoSession /\ op' = NoOp
    /\ UNCHANGED <<durable, runtime, requests, exits, inputs, registry, written, told, restarts>>

\* The probe or the first write threw: the process is closed, and a close that
\* throws is ignored.  The host is free in either case.  The session is not
\* starting any more, so its state stays.
GiveUp ==
    /\ op.at \in {"identify", "record"} /\ durable
    /\ LET s == op.session
       IN  /\ Stopped(s) \/ LeftRunning(s)
           /\ Become(s, Revoked(runtime[s])) /\ Sync(s, Revoked(runtime[s]))
    /\ active' = NoSession /\ op' = NoOp
    /\ UNCHANGED <<durable, requests, exits, inputs, written, told, restarts>>

(***************************************************************************)
(* Operations of a device                                                  *)
(***************************************************************************)

\* An input that is in the ledger is answered from it.
MayWrite(s, d, i) ==
    /\ Idle /\ Fence(s, d) /\ inputs[s][i] = "new" /\ runtime[s].state = "live"

Given(s, i) == written' = [written EXCEPT ![s][i] = @ + 1]

Noted(s, i, status) == inputs' = [inputs EXCEPT ![s][i] = status]

InputWritten(s, d, i) ==
    /\ MayWrite(s, d, i) /\ pty[s] = "running"
    /\ Given(s, i) /\ Noted(s, i, "written")
    /\ UNCHANGED <<durable, runtime, active, requests, op, exits, registry, pty, abandoned,
                   told, restarts>>

\* Mutant: an input with an unknown outcome may be tried again.
InputForgotten(s, d, i) ==
    /\ MayWrite(s, d, i)
    /\ \/ pty[s] = "running" /\ Given(s, i)
       \/ UNCHANGED written
    /\ UNCHANGED <<durable, memory, registry, pty, abandoned, told, restarts>>

\* The write threw: a running process may have been given the input.
InputUnknown(s, d, i) ==
    /\ MayWrite(s, d, i)
    /\ \/ pty[s] = "running" /\ Given(s, i)
       \/ UNCHANGED written
    /\ Noted(s, i, "unknown")
    /\ UNCHANGED <<durable, runtime, active, requests, op, exits, registry, pty, abandoned,
                   told, restarts>>

\* RenewLease, and an interrupt that went through, leave a live session live
\* under the same lease; what they write may make up for a lost write.
RenewOrInterrupt(s, d) ==
    /\ Idle /\ Fence(s, d) /\ runtime[s].state = "live"
    /\ Sync(s, runtime[s])
    /\ UNCHANGED <<durable, memory, system, told, restarts>>

InterruptFails(s, d) ==
    /\ Idle /\ Fence(s, d) /\ runtime[s].state = "live"
    /\ Become(s, To(s, "orphaned")) /\ Sync(s, To(s, "orphaned"))
    /\ UNCHANGED <<durable, active, requests, op, exits, inputs, system, told, restarts>>

\* close and terminate.
EndSession(s, d) ==
    /\ Idle /\ Fence(s, d) /\ runtime[s].state = "live"
    /\ Stopped(s)
    /\ Become(s, To(s, "ended")) /\ Sync(s, To(s, "ended"))
    /\ Release(s)
    /\ UNCHANGED <<durable, requests, op, exits, inputs, written, told, restarts>>

\* The kill threw, so the outcome is unknown: the session keeps the host.
EndFails(s, d) ==
    /\ Idle /\ Fence(s, d) /\ runtime[s].state = "live"
    /\ Become(s, To(s, "orphaned")) /\ Sync(s, To(s, "orphaned"))
    /\ UNCHANGED <<durable, active, requests, op, exits, inputs, system, told, restarts>>

\* leaseTtlMs has passed.
Expire(s) ==
    /\ Known(s) /\ ~runtime[s].expired
    /\ Become(s, [runtime[s] EXCEPT !.expired = TRUE])
    /\ UNCHANGED <<durable, active, requests, op, exits, inputs, registry, system, told, restarts>>

(***************************************************************************)
(* Operations of the host's owner                                          *)
(***************************************************************************)

\* A request about an older revision of the session changes nothing.
ForceClose(s) ==
    /\ Idle /\ durable /\ runtime[s].state \in {"live", "orphaned"}
    /\ \E at \in {"verified", "refuse"} :
          /\ at = "verified" => runtime[s].identified /\ pty[s] # "gone"
          /\ op' = [at |-> at, session |-> s, key |-> NoKey]
    /\ UNCHANGED <<durable, runtime, active, requests, exits, inputs, registry, system, told, restarts>>

\* Nothing is stopped.  For an orphaned session the transition throws.
ForceRefused ==
    /\ op.at = "refuse"
    /\ LET s == op.session
       IN  IF runtime[s].state = "live"
           THEN Become(s, To(s, "orphaned")) /\ Sync(s, To(s, "orphaned"))
           ELSE UNCHANGED <<runtime, registry>>
    /\ op' = NoOp
    /\ UNCHANGED <<durable, active, requests, exits, inputs, system, told, restarts>>

ForceEnds ==
    /\ op.at = "verified"
    /\ LET s == op.session
       IN  /\ Stopped(s)
           /\ Become(s, To(s, "ended")) /\ Sync(s, To(s, "ended"))
           /\ Release(s)
    /\ op' = NoOp
    /\ UNCHANGED <<durable, requests, exits, inputs, written, told, restarts>>

ForceFails ==
    /\ op.at = "verified"
    /\ LET s == op.session
       IN  Become(s, To(s, "orphaned")) /\ Sync(s, To(s, "orphaned"))
    /\ op' = NoOp
    /\ UNCHANGED <<durable, active, requests, exits, inputs, system, told, restarts>>

\* revokeDeviceLeases: each session is written on its own, whatever its state.
RevokeDevice(d) ==
    LET owned == {s \in Sessions : runtime[s].owner = d}
    IN  /\ Idle /\ owned # {}
        /\ runtime' = [s \in Sessions |-> IF s \in owned THEN Revoked(runtime[s]) ELSE runtime[s]]
        /\ \E saved \in SUBSET owned :
              /\ saved # {} => durable
              /\ registry' = [s \in Sessions |->
                                 IF s \in saved THEN Record(runtime[s]) ELSE registry[s]]
        /\ UNCHANGED <<durable, active, requests, op, exits, inputs, system, told, restarts>>

(***************************************************************************)
(* Processes and the gateway's own                                         *)
(***************************************************************************)

\* The adapter of the gateway that spawned the process hears of its exit.
PtyExits(s) ==
    /\ pty[s] \in {"running", "stopping"}
    /\ pty' = [pty EXCEPT ![s] = "gone"] /\ abandoned' = abandoned \ {s}
    /\ exits' = IF Known(s) THEN exits \cup {s} ELSE exits
    /\ UNCHANGED <<durable, runtime, active, requests, op, inputs, registry, written, told, restarts>>

\* Mutant: an orphaned session stays one.
AfterExitUnlessOrphaned(state) == IF state \in {"starting", "live"} THEN "failed" ELSE state

\* What a session becomes when its process has exited.
AfterExit(state) ==
    CASE state \in {"starting", "live"} -> "failed"
      [] state = "orphaned" -> "ended"
      [] OTHER -> state

HandleExit(s) ==
    LET after == AfterExit(runtime[s].state)
    IN  /\ Idle /\ s \in exits
        /\ exits' = exits \ {s}
        /\ IF after # runtime[s].state
           THEN Become(s, To(s, after)) /\ Sync(s, To(s, after)) /\ Release(s)
           ELSE UNCHANGED <<runtime, registry, active>>
        /\ UNCHANGED <<durable, requests, op, inputs, system, told, restarts>>

\* decideReattachment; git or the gateway instance may speak against it.
Reconciled(s) ==
    LET r == registry[s]
    IN  IF r.state \in {"none"} \cup Final THEN {r}
        ELSE IF r.identified /\ pty[s] # "gone"
             THEN {[r EXCEPT !.state = "live"], [r EXCEPT !.state = "orphaned"]}
             ELSE {[r EXCEPT !.state = "orphaned"]}

\* The gateway dies, at any point of any operation, and is started again.
Restart ==
    /\ restarts < MaxRestarts
    /\ runtime' = NoRuntimes /\ active' = NoSession /\ requests' = NoRequests
    /\ op' = NoOp /\ exits' = {} /\ inputs' = NewInputs
    /\ registry' \in {f \in [Sessions -> UNION {Reconciled(s) : s \in Sessions}] :
                         \A s \in Sessions : f[s] \in Reconciled(s)}
    /\ restarts' = restarts + 1
    /\ UNCHANGED <<durable, system, told>>

Continue ==
    \/ AllocateFails \/ Allocate \/ StartFails \/ Start \/ Identify \/ Persist \/ GiveUp
    \/ ForceRefused \/ ForceEnds \/ ForceFails

Next ==
    \/ Continue \/ Restart
    \/ \E s \in Sessions :
          \/ \E k \in Keys : Reserve(s, k)
          \/ \E d \in Devices :
                \/ RenewOrInterrupt(s, d) \/ InterruptFails(s, d)
                \/ EndSession(s, d) \/ EndFails(s, d)
                \/ \E i \in Inputs : InputWritten(s, d, i) \/ InputUnknown(s, d, i)
          \/ Expire(s) \/ ForceClose(s) \/ PtyExits(s) \/ HandleExit(s)
    \/ \E d \in Devices : RevokeDevice(d)

\* What an operation awaits answers, and the queue reaches every handler.
Fairness == WF_vars(Continue) /\ \A s \in Sessions : SF_vars(HandleExit(s))

Spec == Init /\ [][Next]_vars

FairSpec == Spec /\ Fairness

(***************************************************************************)
(* Properties                                                              *)
(***************************************************************************)

\* A process that runs and was not signalled belongs to the session that holds
\* the host, so a second one is not started beside it, whoever tried to stop it in
\* vain (close, terminate, interrupt and the forced close leave an orphan that
\* keeps the host); the one exception is a process that a failed creation could
\* not close (the catch of createSession), which belongs to nobody.  And a session
\* that was answered and is not over holds the host, also when its end is unknown
\* (terminal-start-failure.test.ts).
OneTerminal ==
    \A s \in Sessions :
        /\ Known(s)
        /\ \/ pty[s] = "running" /\ s \notin abandoned
           \/ s \in told /\ runtime[s].state \notin Final
        => active = s

\* At most one lease controls a terminal: one that was not revoked belongs to
\* the session that holds the host, whatever failed on the way.
ControlIsReserved ==
    \A s \in Sessions : Known(s) /\ ~runtime[s].revoked => active = s

\* A process gets an input at most once, however often the device repeats it
\* because an answer was lost or the outcome is unknown (the ledger of writeInput).
InputAtMostOnce == \A s \in Sessions : \A i \in Inputs : written[s][i] <= 1

\* A process that runs and whose session was answered has a record that is not
\* final: after a restart reconcile can find it, whatever later write was lost.
RunningIsRecoverable ==
    \A s \in told : durable /\ pty[s] = "running" => registry[s].state \notin {"none"} \cup Final

\* Revocation is a barrier: no input that was waiting, is repeated or carries
\* the new generation reaches the process afterwards.
RevokedWritesNothing ==
    [][\A s \in Sessions : runtime[s].revoked => written'[s] = written[s]]_vars

\* A host whose process has exited becomes free again, in whatever state the
\* exit met the session (handleExit).
HostIsFreed ==
    \A s \in Sessions : (pty[s] = "gone" /\ active = s) ~> (active # s)

=============================================================================
