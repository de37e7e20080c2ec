----------------------- MODULE TerminalSupervisorProofs -----------------------
(***************************************************************************)
(* The safety of the one mobile terminal of a host, proved for any number  *)
(* of sessions, devices, requests, inputs and restarts.                    *)
(***************************************************************************)
EXTENDS TerminalSupervisor, TLAPS

Creating == {"allocate", "start", "identify", "record"}

\* What the operation in progress found when it began still holds: nothing
\* else runs in the queue meanwhile.
OpInv ==
    /\ op.at \in Creating => active = op.session /\ op.session \notin told
    /\ op.at = "allocate" => runtime[op.session].state = "none"
    /\ op.at = "start" => runtime[op.session].state = "starting"
    /\ op.at \in {"allocate", "start"} => pty[op.session] = "none"
    /\ op.at \in {"identify", "record"} =>
           runtime[op.session].state = "live" /\ pty[op.session] # "none"
    /\ op.at \in {"verified", "refuse"} => runtime[op.session].state \in {"live", "orphaned"}
    /\ \A s \in Sessions : runtime[s].state = "none" => runtime[s].owner = NoSession
    /\ \A s \in told : pty[s] # "none"

\* Who holds the host, and when a session gives it up.
HostInv ==
    /\ OneTerminal /\ ControlIsReserved
    /\ \A s \in exits : pty[s] = "gone"

\* What a process was given is in the ledger of its session.
InputInv ==
    \A s \in Sessions : \A i \in Inputs :
        /\ written[s][i] <= 1
        /\ pty[s] = "none" => written[s][i] = 0
        /\ Known(s) /\ inputs[s][i] = "new" => written[s][i] = 0

\* A final state, in memory or on disk, means that the process was stopped.
RecordInv ==
    /\ RunningIsRecoverable
    /\ \A s \in Sessions : runtime[s].state \in Final => pty[s] # "running"

IInv == TypeOK /\ OpInv /\ HostInv /\ InputInv /\ RecordInv

-----------------------------------------------------------------------------
LEMMA InitIInv == Init => IInv
<1> SUFFICES ASSUME Init PROVE IInv
  OBVIOUS
<1> USE SupervisorAssumption DEF Init, NoRuntimes, NoRequests, NewInputs, NoRuntime, NoOp, NoRecord, States, Known
<1>1. TypeOK
  BY DEF TypeOK, Session
<1>2. OpInv
  BY DEF OpInv, Creating
<1>3. HostInv
  BY DEF HostInv, OneTerminal, ControlIsReserved
<1>4. InputInv
  BY DEF InputInv
<1>5. RecordInv
  BY DEF RecordInv, RunningIsRecoverable, Final
<1> QED
  BY <1>1, <1>2, <1>3, <1>4, <1>5 DEF IInv

-----------------------------------------------------------------------------
(* What the helpers do.                                                    *)

LEMMA RevokedParts ==
  ASSUME NEW r \in Session
  PROVE  /\ Revoked(r) \in Session
         /\ Revoked(r).revoked /\ Revoked(r).expired
         /\ Revoked(r).state = r.state /\ Revoked(r).owner = r.owner
BY DEF Session, Revoked

LEMMA ToParts ==
  ASSUME TypeOK, NEW s \in Sessions, NEW state \in States
  PROVE  /\ To(s, state) \in Session
         /\ To(s, state).revoked /\ To(s, state).expired
         /\ To(s, state).state = state /\ To(s, state).owner = runtime[s].owner
<1>1. /\ runtime[s] \in Session
      /\ [runtime[s] EXCEPT !.state = state] \in Session
      /\ [runtime[s] EXCEPT !.state = state].state = state
      /\ [runtime[s] EXCEPT !.state = state].owner = runtime[s].owner
  BY DEF TypeOK, Session
<1> QED
  BY <1>1, RevokedParts DEF To

LEMMA FieldParts ==
  ASSUME NEW r \in Session, NEW state \in States, NEW b \in BOOLEAN
  PROVE  /\ [r EXCEPT !.state = state] \in Session
         /\ [r EXCEPT !.state = state].state = state
         /\ [r EXCEPT !.state = state].owner = r.owner
         /\ [r EXCEPT !.state = state].revoked = r.revoked
         /\ [r EXCEPT !.state = state].expired = r.expired
         /\ [r EXCEPT !.identified = b] \in Session
         /\ [r EXCEPT !.identified = b].revoked = r.revoked
         /\ [r EXCEPT !.identified = b].expired = r.expired
         /\ [r EXCEPT !.expired = TRUE] \in Session
         /\ [r EXCEPT !.expired = TRUE].expired
BY DEF Session

LEMMA BecomeTyped ==
  ASSUME TypeOK, NEW s \in Sessions, NEW r \in Session, r.revoked => r.expired, Become(s, r)
  PROVE  /\ runtime' \in [Sessions -> Session]
         /\ \A t \in Sessions : runtime'[t].revoked => runtime'[t].expired
         /\ runtime'[s] = r
         /\ \A t \in Sessions \ {s} : runtime'[t] = runtime[t]
BY DEF TypeOK, Become

LEMMA RecordParts ==
  ASSUME NEW r \in Session
  PROVE  /\ Record(r) \in [state : States, identified : BOOLEAN]
         /\ Record(r).state = r.state
BY DEF Session, Record

LEMMA SyncTyped ==
  ASSUME TypeOK, NEW s \in Sessions, NEW r \in Session, Sync(s, r)
  PROVE  /\ registry' \in [Sessions -> [state : States, identified : BOOLEAN]]
         /\ registry'[s].state \in {registry[s].state, r.state}
         /\ \A t \in Sessions \ {s} : registry'[t] = registry[t]
<1>1. Record(r) \in [state : States, identified : BOOLEAN] /\ Record(r).state = r.state
  BY RecordParts
<1>2. registry \in [Sessions -> [state : States, identified : BOOLEAN]]
  BY DEF TypeOK
<1>3. registry' = [registry EXCEPT ![s] = Record(r)] \/ registry' = registry
  BY DEF Sync
<1> QED
  BY <1>1, <1>2, <1>3

LEMMA OpParts ==
  ASSUME TypeOK, op # NoOp
  PROVE  /\ op.session \in Sessions /\ op.key \in Keys \cup {NoKey}
         /\ op.at \in {"allocate", "start", "identify", "record", "verified", "refuse"}
BY DEF TypeOK, Operations

LEMMA GotoTyped ==
  ASSUME TypeOK, op # NoOp, NEW at \in {"start", "identify", "record"}, Goto(at)
  PROVE  /\ op' \in Operations /\ op'.at = at
         /\ op'.session = op.session /\ op'.key = op.key
BY DEF TypeOK, Operations, Goto

LEMMA GivenTyped ==
  ASSUME TypeOK, NEW s \in Sessions, NEW i \in Inputs, Given(s, i)
  PROVE  /\ written' \in [Sessions -> [Inputs -> Nat]]
         /\ written'[s][i] = written[s][i] + 1
         /\ \A t \in Sessions : \A j \in Inputs :
                <<t, j>> # <<s, i>> => written'[t][j] = written[t][j]
<1>1. written \in [Sessions -> [Inputs -> Nat]]
  BY DEF TypeOK
<1>2. written' = [written EXCEPT ![s][i] = written[s][i] + 1]
  BY DEF Given
<1> DEFINE new == [written[s] EXCEPT ![i] = written[s][i] + 1]
<1>3. /\ new \in [Inputs -> Nat] /\ new[i] = written[s][i] + 1
      /\ \A j \in Inputs \ {i} : new[j] = written[s][j]
  BY <1>1
<1>4. written' = [written EXCEPT ![s] = new]
  BY <1>2
<1> HIDE DEF new
<1> QED
  BY <1>1, <1>3, <1>4

LEMMA NotedTyped ==
  ASSUME TypeOK, NEW s \in Sessions, NEW i \in Inputs, NEW status \in {"written", "unknown"},
         Noted(s, i, status)
  PROVE  /\ inputs' \in [Sessions -> [Inputs -> {"new", "written", "unknown"}]]
         /\ inputs'[s][i] = status
         /\ \A t \in Sessions : \A j \in Inputs :
                <<t, j>> # <<s, i>> => inputs'[t][j] = inputs[t][j]
<1>1. inputs \in [Sessions -> [Inputs -> {"new", "written", "unknown"}]]
  BY DEF TypeOK
<1> DEFINE new == [inputs[s] EXCEPT ![i] = status]
<1>2. /\ new \in [Inputs -> {"new", "written", "unknown"}] /\ new[i] = status
      /\ \A j \in Inputs \ {i} : new[j] = inputs[s][j]
  BY <1>1
<1>3. inputs' = [inputs EXCEPT ![s] = new]
  BY DEF Noted
<1> HIDE DEF new
<1> QED
  BY <1>1, <1>2, <1>3

LEMMA ReconciledParts ==
  ASSUME TypeOK, NEW s \in Sessions, NEW r \in Reconciled(s)
  PROVE  /\ r \in [state : States, identified : BOOLEAN]
         /\ r.state # registry[s].state => r.state \in {"live", "orphaned"}
<1>1. registry[s] \in [state : States, identified : BOOLEAN]
  BY DEF TypeOK
<1>2. \/ r = registry[s]
      \/ r = [registry[s] EXCEPT !.state = "live"]
      \/ r = [registry[s] EXCEPT !.state = "orphaned"]
  BY DEF Reconciled
<1> QED
  BY <1>1, <1>2 DEF States

\* Leases keep their types when a session moves to another state, and when its
\* state or the expiry of its lease is set alone.
LEMMA MovedTyped ==
  ASSUME TypeOK, NEW s \in Sessions, NEW state \in States,
         Become(s, To(s, state)), Sync(s, To(s, state))
  PROVE  /\ runtime' \in [Sessions -> Session]
         /\ \A t \in Sessions : runtime'[t].revoked => runtime'[t].expired
         /\ registry' \in [Sessions -> [state : States, identified : BOOLEAN]]
<1> DEFINE r == To(s, state)
<1>1. r \in Session /\ r.expired
  BY ToParts
<1>2. Become(s, r) /\ Sync(s, r)
  OBVIOUS
<1> HIDE DEF r
<1> QED
  BY <1>1, <1>2, BecomeTyped, SyncTyped

LEMMA FieldTyped ==
  ASSUME TypeOK, NEW s \in Sessions,
         \/ Become(s, [runtime[s] EXCEPT !.state = "live"])
         \/ Become(s, [runtime[s] EXCEPT !.expired = TRUE])
  PROVE  /\ runtime' \in [Sessions -> Session]
         /\ \A t \in Sessions : runtime'[t].revoked => runtime'[t].expired
<1>1. PICK old \in Session : old = runtime[s]
  BY DEF TypeOK
<1>2. old.revoked => old.expired
  BY <1>1 DEF TypeOK
<1> DEFINE live == [old EXCEPT !.state = "live"]
           expired == [old EXCEPT !.expired = TRUE]
<1>3. /\ live \in Session /\ (live.revoked => live.expired)
      /\ expired \in Session /\ expired.expired
  <2>1. "live" \in States
    BY DEF States
  <2>2. live \in Session /\ live.revoked = old.revoked /\ live.expired = old.expired
    BY <2>1 DEF Session
  <2>3. expired \in Session /\ expired.expired
    BY DEF Session
  <2> QED
    BY <1>2, <2>2, <2>3
<1>4. PICK r \in Session : Become(s, r) /\ (r.revoked => r.expired)
  <2>1. Become(s, live) \/ Become(s, expired)
    BY <1>1
  <2> HIDE DEF live, expired
  <2> QED
    BY <1>3, <2>1
<1> QED
  BY <1>4, BecomeTyped

\* The kill, and the close that fails, keep what is known of the processes.
LEMMA KillTyped ==
  ASSUME TypeOK, NEW s \in Sessions, Stopped(s) \/ LeftRunning(s)
  PROVE  /\ pty' \in [Sessions -> {"none", "running", "stopping", "gone"}]
         /\ abandoned' \subseteq {t \in Sessions : pty'[t] = "running"}
<1>1. /\ pty \in [Sessions -> {"none", "running", "stopping", "gone"}]
      /\ abandoned \subseteq {t \in Sessions : pty[t] = "running"}
  BY DEF TypeOK
<1>2. CASE Stopped(s)
  BY <1>1, <1>2 DEF Stopped
<1>3. CASE LeftRunning(s)
  BY <1>1, <1>3 DEF LeftRunning
<1> QED
  BY <1>2, <1>3

LEMMA AfterExitTyped ==
  ASSUME NEW state \in States, AfterExit(state) # state
  PROVE  AfterExit(state) \in Final
BY DEF States, AfterExit, Final

LEMMA RefusedParts ==
  ASSUME TypeOK, OpInv, ForceRefused
  PROVE  /\ op.session \in Sessions
         /\ \A t \in Sessions \ {op.session} : runtime'[t] = runtime[t] /\ registry'[t] = registry[t]
         /\ runtime[op.session].state \in {"live", "orphaned"}
         /\ runtime'[op.session].state = "orphaned"
         /\ runtime'[op.session].revoked \/ runtime'[op.session] = runtime[op.session]
         /\ runtime'[op.session].owner = runtime[op.session].owner
         /\ registry'[op.session].state \in {registry[op.session].state, "orphaned"}
<1>1. op.session \in Sessions
  BY OpParts DEF ForceRefused, NoOp
<1>2. runtime[op.session].state \in {"live", "orphaned"}
  BY DEF OpInv, ForceRefused
<1>3. CASE runtime[op.session].state = "live"
  <2>1. /\ To(op.session, "orphaned") \in Session
        /\ To(op.session, "orphaned").revoked /\ To(op.session, "orphaned").expired
        /\ To(op.session, "orphaned").state = "orphaned"
        /\ To(op.session, "orphaned").owner = runtime[op.session].owner
    BY <1>1, ToParts DEF States
  <2>2. Become(op.session, To(op.session, "orphaned")) /\ Sync(op.session, To(op.session, "orphaned"))
    BY <1>3 DEF ForceRefused
  <2> QED
    BY <1>1, <1>2, <2>1, <2>2, BecomeTyped, SyncTyped
<1>4. CASE runtime[op.session].state = "orphaned"
  BY <1>1, <1>2, <1>4 DEF ForceRefused
<1> QED
  BY <1>2, <1>3, <1>4

LEMMA ExitParts ==
  ASSUME TypeOK, NEW s \in Sessions, HandleExit(s)
  PROVE  /\ runtime' \in [Sessions -> Session]
         /\ \A t \in Sessions : runtime'[t].revoked => runtime'[t].expired
         /\ registry' \in [Sessions -> [state : States, identified : BOOLEAN]]
         /\ \A t \in Sessions \ {s} : runtime'[t] = runtime[t] /\ registry'[t] = registry[t]
         /\ \/ runtime'[s] = runtime[s] /\ registry'[s] = registry[s] /\ active' = active
            \/ /\ runtime[s].state # "none"
               /\ runtime'[s].state \in Final /\ runtime'[s].revoked
               /\ registry'[s].state \in {registry[s].state} \cup Final
               /\ active' = IF active = s THEN NoSession ELSE active
<1>1. CASE AfterExit(runtime[s].state) = runtime[s].state
  BY <1>1 DEF HandleExit, TypeOK
<1>2. CASE AfterExit(runtime[s].state) # runtime[s].state
  <2>1. runtime[s].state \in States
    BY DEF TypeOK, Session
  <2>2. AfterExit(runtime[s].state) \in Final /\ runtime[s].state # "none"
    BY <1>2, <2>1, AfterExitTyped DEF AfterExit
  <2>3. /\ To(s, AfterExit(runtime[s].state)) \in Session
        /\ To(s, AfterExit(runtime[s].state)).revoked
        /\ To(s, AfterExit(runtime[s].state)).expired
        /\ To(s, AfterExit(runtime[s].state)).state \in Final
    BY <2>2, ToParts DEF Final, States
  <2>4. /\ Become(s, To(s, AfterExit(runtime[s].state)))
        /\ Sync(s, To(s, AfterExit(runtime[s].state)))
        /\ active' = IF active = s THEN NoSession ELSE active
    BY <1>2 DEF HandleExit, Release
  <2> QED
    BY <2>2, <2>3, <2>4, BecomeTyped, SyncTyped
<1> QED
  BY <1>1, <1>2

LEMMA RevokeParts ==
  ASSUME TypeOK, NEW d \in Devices, RevokeDevice(d)
  PROVE  \A t \in Sessions :
           /\ runtime'[t].state = runtime[t].state /\ runtime'[t].owner = runtime[t].owner
           /\ runtime[t].revoked => runtime'[t].revoked
           /\ \/ registry'[t].state = registry[t].state
              \/ runtime[t].owner = d /\ registry'[t].state = runtime[t].state
<1> TAKE t \in Sessions
<1>1. runtime[t] \in Session
  BY DEF TypeOK
<1>2. runtime'[t] \in {runtime[t], Revoked(runtime[t])}
  BY DEF RevokeDevice
<1>3. registry'[t] = registry[t] \/ (runtime[t].owner = d /\ registry'[t] = Record(runtime[t]))
  <2> DEFINE owned == {s \in Sessions : runtime[s].owner = d}
  <2>1. PICK saved \in SUBSET owned :
            registry' = [s \in Sessions |-> IF s \in saved THEN Record(runtime[s]) ELSE registry[s]]
    BY DEF RevokeDevice
  <2>2. registry'[t] = IF t \in saved THEN Record(runtime[t]) ELSE registry[t]
    BY <2>1
  <2>3. t \in saved => runtime[t].owner = d
    BY <2>1
  <2> QED
    BY <2>2, <2>3
<1> QED
  BY <1>1, <1>2, <1>3, RevokedParts, RecordParts

-----------------------------------------------------------------------------
(* The steps.                                                              *)

\* Every step keeps the types.
LEMMA TypeStep ==
  ASSUME TypeOK, OpInv, Next
  PROVE  TypeOK'
<1> USE SupervisorAssumption DEF TypeOK, OpInv, Creating, NoOp, memory, system
<1>1. CASE AllocateFails
  BY <1>1
  DEF AllocateFails
<1>2. CASE Allocate
  <2>1. op # NoOp /\ op.session \in Sessions
    BY <1>2, OpParts DEF Allocate
  <2>2. op.key[1] \in Devices \cup {NoSession}
    BY <2>1, OpParts DEF Keys, NoKey
  <2>3. /\ [NoRuntime EXCEPT !.state = "starting", !.owner = op.key[1]] \in Session
        /\ ~[NoRuntime EXCEPT !.state = "starting", !.owner = op.key[1]].revoked
    BY <2>2 DEF NoRuntime, Session, States
  <2>4. /\ runtime' \in [Sessions -> Session]
        /\ \A t \in Sessions : runtime'[t].revoked => runtime'[t].expired
    BY <1>2, <2>1, <2>3, BecomeTyped DEF Allocate
  <2>5. op' \in Operations
    BY <1>2, <2>1, GotoTyped DEF Allocate
  <2> QED
    BY <1>2, <2>4, <2>5 DEF Allocate
<1>3. CASE StartFails
  <2>1. op.session \in Sessions
    BY <1>3, OpParts DEF StartFails
  <2>2. /\ runtime' \in [Sessions -> Session]
        /\ \A t \in Sessions : runtime'[t].revoked => runtime'[t].expired
        /\ registry' \in [Sessions -> [state : States, identified : BOOLEAN]]
    BY <1>3, <2>1, MovedTyped DEF StartFails, States
  <2> QED
    BY <1>3, <2>2 DEF StartFails
<1>4. CASE Start
  <2>1. op # NoOp /\ op.session \in Sessions
    BY <1>4, OpParts DEF Start
  <2>3. /\ runtime' \in [Sessions -> Session]
        /\ \A t \in Sessions : runtime'[t].revoked => runtime'[t].expired
    BY <1>4, <2>1, FieldTyped DEF Start
  <2>4. op' \in Operations
    BY <1>4, <2>1, GotoTyped DEF Start
  <2>5. pty' \in [Sessions -> {"none", "running", "stopping", "gone"}] /\ abandoned' \subseteq {s \in Sessions : pty'[s] = "running"}
    BY <1>4, <2>1 DEF Start
  <2> QED
    BY <1>4, <2>3, <2>4, <2>5 DEF Start
<1>5. CASE Identify
  <2>1. op # NoOp /\ op.session \in Sessions
    BY <1>5, OpParts DEF Identify
  <2>2. PICK known \in BOOLEAN : Become(op.session, [runtime[op.session] EXCEPT !.identified = known])
    BY <1>5 DEF Identify
  <2>3. /\ [runtime[op.session] EXCEPT !.identified = known] \in Session
        /\ [runtime[op.session] EXCEPT !.identified = known].revoked = runtime[op.session].revoked
        /\ [runtime[op.session] EXCEPT !.identified = known].expired = runtime[op.session].expired
    <3> DEFINE r == runtime[op.session]
    <3>1. r \in Session
      BY <2>1
    <3> HIDE DEF r
    <3>2. /\ [r EXCEPT !.identified = known] \in Session
          /\ [r EXCEPT !.identified = known].revoked = r.revoked
          /\ [r EXCEPT !.identified = known].expired = r.expired
      BY <3>1 DEF Session
    <3> QED
      BY <3>2 DEF r
  <2>4. /\ runtime' \in [Sessions -> Session]
        /\ \A t \in Sessions : runtime'[t].revoked => runtime'[t].expired
    BY <2>1, <2>2, <2>3, BecomeTyped
  <2>5. op' \in Operations
    BY <1>5, <2>1, GotoTyped DEF Identify
  <2> QED
    BY <1>5, <2>4, <2>5 DEF Identify
<1>6. CASE Persist
  <2>1. op # NoOp /\ op.session \in Sessions
    BY <1>6, OpParts DEF Persist
  <2>2. Record(runtime[op.session]) \in [state : States, identified : BOOLEAN]
    BY <2>1, RecordParts
  <2>3. registry' \in [Sessions -> [state : States, identified : BOOLEAN]]
    BY <1>6, <2>1, <2>2 DEF Persist
  <2>4. requests' \in [Keys -> Sessions \cup {NoSession}]
    BY <1>6, <2>1 DEF Persist
  <2> QED
    BY <1>6, <2>1, <2>3, <2>4 DEF Persist
<1>7. CASE GiveUp
  <2>1. op # NoOp /\ op.session \in Sessions
    BY <1>7, OpParts DEF GiveUp
  <2>2. Revoked(runtime[op.session]) \in Session /\ Revoked(runtime[op.session]).expired
    BY <2>1, RevokedParts
  <2>3. /\ runtime' \in [Sessions -> Session]
        /\ \A t \in Sessions : runtime'[t].revoked => runtime'[t].expired
        /\ registry' \in [Sessions -> [state : States, identified : BOOLEAN]]
    BY <1>7, <2>1, <2>2, BecomeTyped, SyncTyped DEF GiveUp
  <2>4. /\ pty' \in [Sessions -> {"none", "running", "stopping", "gone"}]
        /\ abandoned' \subseteq {s \in Sessions : pty'[s] = "running"}
    BY <1>7, <2>1, KillTyped DEF GiveUp
  <2> QED
    BY <1>7, <2>3, <2>4 DEF GiveUp
<1>8. CASE ForceRefused
  <2>1. op # NoOp /\ op.session \in Sessions
    BY <1>8, OpParts DEF ForceRefused
  <2>2. CASE runtime[op.session].state = "live"
    <3>1. /\ runtime' \in [Sessions -> Session]
          /\ \A t \in Sessions : runtime'[t].revoked => runtime'[t].expired
          /\ registry' \in [Sessions -> [state : States, identified : BOOLEAN]]
      BY <1>8, <2>1, <2>2, MovedTyped DEF ForceRefused, States
    <3> QED
      BY <1>8, <3>1 DEF ForceRefused
  <2>3. CASE runtime[op.session].state # "live"
    BY <1>8, <2>3 DEF ForceRefused
  <2> QED
    BY <2>2, <2>3
<1>9. CASE ForceEnds
  <2>1. op # NoOp /\ op.session \in Sessions
    BY <1>9, OpParts DEF ForceEnds
  <2>3. /\ runtime' \in [Sessions -> Session]
        /\ \A t \in Sessions : runtime'[t].revoked => runtime'[t].expired
        /\ registry' \in [Sessions -> [state : States, identified : BOOLEAN]]
    BY <1>9, <2>1, MovedTyped DEF ForceEnds, States
  <2>4. /\ pty' \in [Sessions -> {"none", "running", "stopping", "gone"}]
        /\ abandoned' \subseteq {s \in Sessions : pty'[s] = "running"}
    BY <1>9, <2>1, KillTyped DEF ForceEnds
  <2> QED
    BY <1>9, <2>3, <2>4 DEF ForceEnds, Release
<1>10. CASE ForceFails
  <2>1. op # NoOp /\ op.session \in Sessions
    BY <1>10, OpParts DEF ForceFails
  <2>3. /\ runtime' \in [Sessions -> Session]
        /\ \A t \in Sessions : runtime'[t].revoked => runtime'[t].expired
        /\ registry' \in [Sessions -> [state : States, identified : BOOLEAN]]
    BY <1>10, <2>1, MovedTyped DEF ForceFails, States
  <2> QED
    BY <1>10, <2>3 DEF ForceFails
<1>11. CASE Restart
  <2>1. \A s \in Sessions : Reconciled(s) \subseteq [state : States, identified : BOOLEAN]
    BY ReconciledParts
  <2>2. registry' \in [Sessions -> [state : States, identified : BOOLEAN]]
    BY <1>11, <2>1 DEF Restart
  <2>3. NoRuntimes \in [Sessions -> Session] /\ \A s \in Sessions : ~NoRuntimes[s].revoked
    BY DEF NoRuntimes, NoRuntime, Session, States
  <2>4. NoRequests \in [Keys -> Sessions \cup {NoSession}]
        /\ NewInputs \in [Sessions -> [Inputs -> {"new", "written", "unknown"}]]
    BY DEF NoRequests, NewInputs
  <2> QED
    BY <1>11, <2>2, <2>3, <2>4 DEF Restart
<1>12. CASE \E s \in Sessions : \E k \in Keys : Reserve(s, k)
  BY <1>12
  DEF Reserve, Operations, Idle
<1>13. CASE \E s \in Sessions : \E d \in Devices : \E i \in Inputs : InputWritten(s, d, i)
  <2>1. PICK s \in Sessions, d \in Devices, i \in Inputs : InputWritten(s, d, i)
    BY <1>13
  <2>2. written' \in [Sessions -> [Inputs -> Nat]]
    BY <2>1, GivenTyped DEF InputWritten
  <2>3. inputs' \in [Sessions -> [Inputs -> {"new", "written", "unknown"}]]
    BY <2>1, NotedTyped DEF InputWritten
  <2> QED
    BY <2>1, <2>2, <2>3 DEF InputWritten
<1>14. CASE \E s \in Sessions : \E d \in Devices : \E i \in Inputs : InputUnknown(s, d, i)
  <2>1. PICK s \in Sessions, d \in Devices, i \in Inputs : InputUnknown(s, d, i)
    BY <1>14
  <2>2. written' \in [Sessions -> [Inputs -> Nat]]
    BY <2>1, GivenTyped DEF InputUnknown
  <2>3. inputs' \in [Sessions -> [Inputs -> {"new", "written", "unknown"}]]
    BY <2>1, NotedTyped DEF InputUnknown
  <2> QED
    BY <2>1, <2>2, <2>3 DEF InputUnknown
<1>15. CASE \E s \in Sessions : \E d \in Devices : RenewOrInterrupt(s, d)
  BY <1>15, SyncTyped
  DEF RenewOrInterrupt
<1>16. CASE \E s \in Sessions : \E d \in Devices : InterruptFails(s, d)
  BY <1>16, ToParts, BecomeTyped, SyncTyped
  DEF InterruptFails, States
<1>17. CASE \E s \in Sessions : \E d \in Devices : EndSession(s, d)
  <2>1. PICK s \in Sessions, d \in Devices : EndSession(s, d)
    BY <1>17
  <2>3. /\ runtime' \in [Sessions -> Session]
        /\ \A t \in Sessions : runtime'[t].revoked => runtime'[t].expired
        /\ registry' \in [Sessions -> [state : States, identified : BOOLEAN]]
    BY <2>1, MovedTyped DEF EndSession, States
  <2>4. /\ pty' \in [Sessions -> {"none", "running", "stopping", "gone"}]
        /\ abandoned' \subseteq {t \in Sessions : pty'[t] = "running"}
    BY <2>1, KillTyped DEF EndSession
  <2> QED
    BY <2>1, <2>3, <2>4 DEF EndSession, Release
<1>18. CASE \E s \in Sessions : \E d \in Devices : EndFails(s, d)
  <2>1. PICK s \in Sessions, d \in Devices : EndFails(s, d)
    BY <1>18
  <2>3. /\ runtime' \in [Sessions -> Session]
        /\ \A t \in Sessions : runtime'[t].revoked => runtime'[t].expired
        /\ registry' \in [Sessions -> [state : States, identified : BOOLEAN]]
    BY <2>1, MovedTyped DEF EndFails, States
  <2> QED
    BY <2>1, <2>3 DEF EndFails
<1>19. CASE \E s \in Sessions : Expire(s)
  <2>1. PICK s \in Sessions : Expire(s)
    BY <1>19
  <2>3. /\ runtime' \in [Sessions -> Session]
        /\ \A t \in Sessions : runtime'[t].revoked => runtime'[t].expired
    BY <2>1, FieldTyped DEF Expire
  <2> QED
    BY <2>1, <2>3 DEF Expire
<1>20. CASE \E s \in Sessions : ForceClose(s)
  BY <1>20
  DEF ForceClose, Operations
<1>21. CASE \E s \in Sessions : PtyExits(s)
  BY <1>21
  DEF PtyExits
<1>22. CASE \E s \in Sessions : HandleExit(s)
  <2>1. PICK s \in Sessions : HandleExit(s)
    BY <1>22
  <2>2. /\ runtime' \in [Sessions -> Session]
        /\ \A t \in Sessions : runtime'[t].revoked => runtime'[t].expired
        /\ registry' \in [Sessions -> [state : States, identified : BOOLEAN]]
        /\ active' \in Sessions \cup {NoSession}
    BY <2>1, ExitParts
  <2> QED
    BY <2>1, <2>2 DEF HandleExit
<1>23. CASE \E d \in Devices : RevokeDevice(d)
  BY <1>23, RevokedParts, RecordParts
  DEF RevokeDevice
<1> QED
  BY <1>1, <1>2, <1>3, <1>4, <1>5, <1>6, <1>7, <1>8, <1>9, <1>10, <1>11,
     <1>12, <1>13, <1>14, <1>15, <1>16, <1>17, <1>18, <1>19, <1>20, <1>21, <1>22, <1>23 DEF Next, Continue

\* Nothing interferes with the operation in progress.
LEMMA OpStep ==
  ASSUME TypeOK, OpInv, Next
  PROVE  OpInv'
<1> USE SupervisorAssumption DEF TypeOK, OpInv, Creating, Session, Operations, NoOp, NoRuntime, Known, memory, system
<1>1. CASE AllocateFails
  BY <1>1
  DEF AllocateFails
<1>2. CASE Allocate
  BY <1>2
  DEF Allocate, Become, Goto
<1>3. CASE StartFails
  BY <1>3
  DEF StartFails, Become, Sync, To, Revoked
<1>4. CASE Start
  BY <1>4
  DEF Start, Become, Goto
<1>5. CASE Identify
  BY <1>5
  DEF Identify, Become, Goto
<1>6. CASE Persist
  <2>1. op.at = "record" /\ op' = NoOp /\ told' = told \cup {op.session} /\ pty' = pty /\ runtime' = runtime
    BY <1>6 DEF Persist
  <2>2. pty[op.session] # "none"
    BY <2>1
  <2> QED
    BY <2>1, <2>2
<1>7. CASE GiveUp
  BY <1>7
  DEF GiveUp, Become, Sync, Revoked, Stopped, LeftRunning
<1>8. CASE ForceRefused
  BY <1>8, RefusedParts
  DEF ForceRefused
<1>9. CASE ForceEnds
  BY <1>9
  DEF ForceEnds, Become, Sync, To, Revoked, Stopped, Release
<1>10. CASE ForceFails
  BY <1>10
  DEF ForceFails, Become, Sync, To, Revoked
<1>11. CASE Restart
  BY <1>11
  DEF Restart, NoRuntimes, NoRequests, NewInputs, Reconciled
<1>12. CASE \E s \in Sessions : \E k \in Keys : Reserve(s, k)
  BY <1>12
  DEF Reserve, Idle, Fresh
<1>13. CASE \E s \in Sessions : \E d \in Devices : \E i \in Inputs : InputWritten(s, d, i)
  BY <1>13
  DEF InputWritten, MayWrite, Given, Noted, Fence, Idle
<1>14. CASE \E s \in Sessions : \E d \in Devices : \E i \in Inputs : InputUnknown(s, d, i)
  BY <1>14
  DEF InputUnknown, MayWrite, Given, Noted, Fence, Idle
<1>15. CASE \E s \in Sessions : \E d \in Devices : RenewOrInterrupt(s, d)
  BY <1>15
  DEF RenewOrInterrupt, Sync, Fence, Idle
<1>16. CASE \E s \in Sessions : \E d \in Devices : InterruptFails(s, d)
  BY <1>16
  DEF InterruptFails, Become, Sync, To, Revoked, Fence, Idle
<1>17. CASE \E s \in Sessions : \E d \in Devices : EndSession(s, d)
  BY <1>17
  DEF EndSession, Become, Sync, To, Revoked, Stopped, Release, Fence, Idle
<1>18. CASE \E s \in Sessions : \E d \in Devices : EndFails(s, d)
  BY <1>18
  DEF EndFails, Become, Sync, To, Revoked, Fence, Idle
<1>19. CASE \E s \in Sessions : Expire(s)
  BY <1>19
  DEF Expire, Become
<1>20. CASE \E s \in Sessions : ForceClose(s)
  BY <1>20
  DEF ForceClose, Idle
<1>21. CASE \E s \in Sessions : PtyExits(s)
  BY <1>21
  DEF PtyExits
<1>22. CASE \E s \in Sessions : HandleExit(s)
  <2>1. PICK s \in Sessions : HandleExit(s)
    BY <1>22
  <2>2. /\ \A t \in Sessions \ {s} : runtime'[t] = runtime[t] /\ registry'[t] = registry[t]
        /\ \/ runtime'[s] = runtime[s] /\ registry'[s] = registry[s] /\ active' = active
           \/ /\ runtime[s].state # "none"
              /\ runtime'[s].state \in Final /\ runtime'[s].revoked
              /\ registry'[s].state \in {registry[s].state} \cup Final
              /\ active' = IF active = s THEN NoSession ELSE active
    BY <2>1, ExitParts
  <2>3. /\ op = NoOp /\ op' = op /\ s \in exits /\ exits' = exits \ {s}
        /\ UNCHANGED <<durable, inputs, pty, abandoned, written, told>>
    BY <2>1 DEF HandleExit, Idle
  <2> QED
    BY <2>2, <2>3 DEF Final
<1>23. CASE \E d \in Devices : RevokeDevice(d)
  <2>1. PICK d \in Devices : RevokeDevice(d)
    BY <1>23
  <2>2. \A t \in Sessions :
           /\ runtime'[t].state = runtime[t].state /\ runtime'[t].owner = runtime[t].owner
           /\ runtime[t].revoked => runtime'[t].revoked
           /\ \/ registry'[t].state = registry[t].state
              \/ runtime[t].owner = d /\ registry'[t].state = runtime[t].state
    BY <2>1, RevokeParts
  <2>3. op = NoOp /\ op' = op /\ UNCHANGED <<durable, active, exits, inputs, pty, abandoned, written, told>>
    BY <2>1 DEF RevokeDevice, Idle
  <2>4. \A s \in Sessions : runtime'[s].state = "none" => runtime'[s].owner = NoSession
    BY <2>2
  <2>5. \A s \in told' : pty'[s] # "none"
    BY <2>3
  <2>6. op'.at = "none"
    BY <2>3
  <2> QED
    BY <2>4, <2>5, <2>6
<1> QED
  BY <1>1, <1>2, <1>3, <1>4, <1>5, <1>6, <1>7, <1>8, <1>9, <1>10, <1>11,
     <1>12, <1>13, <1>14, <1>15, <1>16, <1>17, <1>18, <1>19, <1>20, <1>21, <1>22, <1>23 DEF Next, Continue

\* The host changes hands only when nobody can control or needs its terminal.
LEMMA HostStep ==
  ASSUME TypeOK, OpInv, HostInv, Next
  PROVE  HostInv'
<1> USE SupervisorAssumption DEF TypeOK, OpInv, HostInv, OneTerminal, ControlIsReserved, Creating, Session, Operations, NoOp, NoRuntime, Final, Known, memory, system
<1>1. CASE AllocateFails
  BY <1>1
  DEF AllocateFails
<1>2. CASE Allocate
  BY <1>2
  DEF Allocate, Become, Goto
<1>3. CASE StartFails
  BY <1>3
  DEF StartFails, Become, Sync, To, Revoked
<1>4. CASE Start
  BY <1>4
  DEF Start, Become, Goto
<1>5. CASE Identify
  BY <1>5
  DEF Identify, Become, Goto
<1>6. CASE Persist
  BY <1>6
  DEF Persist
<1>7. CASE GiveUp
  BY <1>7
  DEF GiveUp, Become, Sync, Revoked, Stopped, LeftRunning
<1>8. CASE ForceRefused
  BY <1>8, RefusedParts
  DEF ForceRefused
<1>9. CASE ForceEnds
  BY <1>9
  DEF ForceEnds, Become, Sync, To, Revoked, Stopped, Release
<1>10. CASE ForceFails
  BY <1>10
  DEF ForceFails, Become, Sync, To, Revoked
<1>11. CASE Restart
  BY <1>11
  DEF Restart, NoRuntimes, NoRequests, NewInputs, Reconciled
<1>12. CASE \E s \in Sessions : \E k \in Keys : Reserve(s, k)
  BY <1>12
  DEF Reserve, Idle, Fresh
<1>13. CASE \E s \in Sessions : \E d \in Devices : \E i \in Inputs : InputWritten(s, d, i)
  BY <1>13
  DEF InputWritten, MayWrite, Given, Noted, Fence, Idle
<1>14. CASE \E s \in Sessions : \E d \in Devices : \E i \in Inputs : InputUnknown(s, d, i)
  BY <1>14
  DEF InputUnknown, MayWrite, Given, Noted, Fence, Idle
<1>15. CASE \E s \in Sessions : \E d \in Devices : RenewOrInterrupt(s, d)
  BY <1>15
  DEF RenewOrInterrupt, Sync, Fence, Idle
<1>16. CASE \E s \in Sessions : \E d \in Devices : InterruptFails(s, d)
  BY <1>16
  DEF InterruptFails, Become, Sync, To, Revoked, Fence, Idle
<1>17. CASE \E s \in Sessions : \E d \in Devices : EndSession(s, d)
  BY <1>17
  DEF EndSession, Become, Sync, To, Revoked, Stopped, Release, Fence, Idle
<1>18. CASE \E s \in Sessions : \E d \in Devices : EndFails(s, d)
  BY <1>18
  DEF EndFails, Become, Sync, To, Revoked, Fence, Idle
<1>19. CASE \E s \in Sessions : Expire(s)
  BY <1>19
  DEF Expire, Become
<1>20. CASE \E s \in Sessions : ForceClose(s)
  BY <1>20
  DEF ForceClose, Idle
<1>21. CASE \E s \in Sessions : PtyExits(s)
  BY <1>21
  DEF PtyExits
<1>22. CASE \E s \in Sessions : HandleExit(s)
  <2>1. PICK s \in Sessions : HandleExit(s)
    BY <1>22
  <2>2. /\ \A t \in Sessions \ {s} : runtime'[t] = runtime[t] /\ registry'[t] = registry[t]
        /\ \/ runtime'[s] = runtime[s] /\ registry'[s] = registry[s] /\ active' = active
           \/ /\ runtime[s].state # "none"
              /\ runtime'[s].state \in Final /\ runtime'[s].revoked
              /\ registry'[s].state \in {registry[s].state} \cup Final
              /\ active' = IF active = s THEN NoSession ELSE active
    BY <2>1, ExitParts
  <2>3. /\ op = NoOp /\ op' = op /\ s \in exits /\ exits' = exits \ {s}
        /\ UNCHANGED <<durable, inputs, pty, abandoned, written, told>>
    BY <2>1 DEF HandleExit, Idle
  <2>4. pty[s] = "gone"
    BY <2>3
  <2> QED
    BY <2>2, <2>3, <2>4
<1>23. CASE \E d \in Devices : RevokeDevice(d)
  <2>1. PICK d \in Devices : RevokeDevice(d)
    BY <1>23
  <2>2. \A t \in Sessions :
           /\ runtime'[t].state = runtime[t].state /\ runtime'[t].owner = runtime[t].owner
           /\ runtime[t].revoked => runtime'[t].revoked
           /\ \/ registry'[t].state = registry[t].state
              \/ runtime[t].owner = d /\ registry'[t].state = runtime[t].state
    BY <2>1, RevokeParts
  <2>3. op = NoOp /\ op' = op /\ UNCHANGED <<durable, active, exits, inputs, pty, abandoned, written, told>>
    BY <2>1 DEF RevokeDevice, Idle
  <2> QED
    BY <2>2, <2>3
<1> QED
  BY <1>1, <1>2, <1>3, <1>4, <1>5, <1>6, <1>7, <1>8, <1>9, <1>10, <1>11,
     <1>12, <1>13, <1>14, <1>15, <1>16, <1>17, <1>18, <1>19, <1>20, <1>21, <1>22, <1>23 DEF Next, Continue

\* The ledger is ahead of the process.
LEMMA InputStep ==
  ASSUME TypeOK, OpInv, InputInv, Next
  PROVE  InputInv'
<1> SUFFICES ASSUME NEW q \in Sessions, NEW j \in Inputs
             PROVE  /\ written'[q][j] <= 1
                    /\ pty'[q] = "none" => written'[q][j] = 0
                    /\ Known(q)' /\ inputs'[q][j] = "new" => written'[q][j] = 0
  BY DEF InputInv
<1> USE SupervisorAssumption DEF TypeOK, OpInv, InputInv, Creating, Session, Operations, NoOp, NoRuntime, Known, memory, system
<1>1. CASE AllocateFails
  BY <1>1
  DEF AllocateFails
<1>2. CASE Allocate
  BY <1>2
  DEF Allocate, Become, Goto
<1>3. CASE StartFails
  BY <1>3
  DEF StartFails, Become, Sync, To, Revoked
<1>4. CASE Start
  BY <1>4
  DEF Start, Become, Goto
<1>5. CASE Identify
  BY <1>5
  DEF Identify, Become, Goto
<1>6. CASE Persist
  BY <1>6
  DEF Persist
<1>7. CASE GiveUp
  BY <1>7
  DEF GiveUp, Become, Sync, Revoked, Stopped, LeftRunning
<1>8. CASE ForceRefused
  BY <1>8, RefusedParts
  DEF ForceRefused
<1>9. CASE ForceEnds
  BY <1>9
  DEF ForceEnds, Become, Sync, To, Revoked, Stopped, Release
<1>10. CASE ForceFails
  BY <1>10
  DEF ForceFails, Become, Sync, To, Revoked
<1>11. CASE Restart
  BY <1>11
  DEF Restart, NoRuntimes, NoRequests, NewInputs, Reconciled
<1>12. CASE \E s \in Sessions : \E k \in Keys : Reserve(s, k)
  BY <1>12
  DEF Reserve, Idle, Fresh
<1>13. CASE \E s \in Sessions : \E d \in Devices : \E i \in Inputs : InputWritten(s, d, i)
  <2>1. PICK s \in Sessions, d \in Devices, i \in Inputs : InputWritten(s, d, i)
    BY <1>13
  <2>2. inputs'[s][i] # "new" /\ (<<q, j>> # <<s, i>> => inputs'[q][j] = inputs[q][j])
    BY <2>1, NotedTyped DEF InputWritten
  <2>3. /\ Known(s) /\ inputs[s][i] = "new" /\ written[s][i] = 0
    BY <2>1 DEF InputWritten, MayWrite, Fence
  <2>4. \/ written' = written
        \/ /\ pty[s] = "running" /\ written'[s][i] = 1
           /\ <<q, j>> # <<s, i>> => written'[q][j] = written[q][j]
    BY <2>1, <2>3, GivenTyped DEF InputWritten
  <2> QED
    BY <2>1, <2>2, <2>3, <2>4 DEF InputWritten
<1>14. CASE \E s \in Sessions : \E d \in Devices : \E i \in Inputs : InputUnknown(s, d, i)
  <2>1. PICK s \in Sessions, d \in Devices, i \in Inputs : InputUnknown(s, d, i)
    BY <1>14
  <2>2. inputs'[s][i] # "new" /\ (<<q, j>> # <<s, i>> => inputs'[q][j] = inputs[q][j])
    BY <2>1, NotedTyped DEF InputUnknown
  <2>3. /\ Known(s) /\ inputs[s][i] = "new" /\ written[s][i] = 0
    BY <2>1 DEF InputUnknown, MayWrite, Fence
  <2>4. \/ written' = written
        \/ /\ pty[s] = "running" /\ written'[s][i] = 1
           /\ <<q, j>> # <<s, i>> => written'[q][j] = written[q][j]
    BY <2>1, <2>3, GivenTyped DEF InputUnknown
  <2> QED
    BY <2>1, <2>2, <2>3, <2>4 DEF InputUnknown
<1>15. CASE \E s \in Sessions : \E d \in Devices : RenewOrInterrupt(s, d)
  BY <1>15
  DEF RenewOrInterrupt, Sync, Fence, Idle
<1>16. CASE \E s \in Sessions : \E d \in Devices : InterruptFails(s, d)
  BY <1>16
  DEF InterruptFails, Become, Sync, To, Revoked, Fence, Idle
<1>17. CASE \E s \in Sessions : \E d \in Devices : EndSession(s, d)
  BY <1>17
  DEF EndSession, Become, Sync, To, Revoked, Stopped, Release, Fence, Idle
<1>18. CASE \E s \in Sessions : \E d \in Devices : EndFails(s, d)
  BY <1>18
  DEF EndFails, Become, Sync, To, Revoked, Fence, Idle
<1>19. CASE \E s \in Sessions : Expire(s)
  BY <1>19
  DEF Expire, Become
<1>20. CASE \E s \in Sessions : ForceClose(s)
  BY <1>20
  DEF ForceClose, Idle
<1>21. CASE \E s \in Sessions : PtyExits(s)
  BY <1>21
  DEF PtyExits
<1>22. CASE \E s \in Sessions : HandleExit(s)
  <2>1. PICK s \in Sessions : HandleExit(s)
    BY <1>22
  <2>2. /\ \A t \in Sessions \ {s} : runtime'[t] = runtime[t] /\ registry'[t] = registry[t]
        /\ \/ runtime'[s] = runtime[s] /\ registry'[s] = registry[s] /\ active' = active
           \/ /\ runtime[s].state # "none"
              /\ runtime'[s].state \in Final /\ runtime'[s].revoked
              /\ registry'[s].state \in {registry[s].state} \cup Final
              /\ active' = IF active = s THEN NoSession ELSE active
    BY <2>1, ExitParts
  <2>3. /\ op = NoOp /\ op' = op /\ s \in exits /\ exits' = exits \ {s}
        /\ UNCHANGED <<durable, inputs, pty, abandoned, written, told>>
    BY <2>1 DEF HandleExit, Idle
  <2> QED
    BY <2>2, <2>3
<1>23. CASE \E d \in Devices : RevokeDevice(d)
  <2>1. PICK d \in Devices : RevokeDevice(d)
    BY <1>23
  <2>2. \A t \in Sessions :
           /\ runtime'[t].state = runtime[t].state /\ runtime'[t].owner = runtime[t].owner
           /\ runtime[t].revoked => runtime'[t].revoked
           /\ \/ registry'[t].state = registry[t].state
              \/ runtime[t].owner = d /\ registry'[t].state = runtime[t].state
    BY <2>1, RevokeParts
  <2>3. op = NoOp /\ op' = op /\ UNCHANGED <<durable, active, exits, inputs, pty, abandoned, written, told>>
    BY <2>1 DEF RevokeDevice, Idle
  <2> QED
    BY <2>2, <2>3
<1> QED
  BY <1>1, <1>2, <1>3, <1>4, <1>5, <1>6, <1>7, <1>8, <1>9, <1>10, <1>11,
     <1>12, <1>13, <1>14, <1>15, <1>16, <1>17, <1>18, <1>19, <1>20, <1>21, <1>22, <1>23 DEF Next, Continue

\* No record of a running process becomes final.
LEMMA RecordStep ==
  ASSUME TypeOK, OpInv, HostInv, RecordInv, Next
  PROVE  RecordInv'
<1> USE SupervisorAssumption DEF TypeOK, OpInv, HostInv, RecordInv, RunningIsRecoverable, Creating, Session, Operations, NoOp, NoRuntime, Record, NoRecord, Final, Known, memory, system
<1>1. CASE AllocateFails
  BY <1>1
  DEF AllocateFails
<1>2. CASE Allocate
  BY <1>2
  DEF Allocate, Become, Goto
<1>3. CASE StartFails
  BY <1>3
  DEF StartFails, Become, Sync, To, Revoked
<1>4. CASE Start
  BY <1>4
  DEF Start, Become, Goto
<1>5. CASE Identify
  BY <1>5
  DEF Identify, Become, Goto
<1>6. CASE Persist
  BY <1>6
  DEF Persist
<1>7. CASE GiveUp
  <2>1. op # NoOp /\ op.session \in Sessions /\ runtime[op.session].state = "live" /\ op.session \notin told
    BY <1>7, OpParts DEF GiveUp
  <2>2. /\ Revoked(runtime[op.session]) \in Session /\ Revoked(runtime[op.session]).expired
        /\ Revoked(runtime[op.session]).state = "live"
    BY <2>1, RevokedParts
  <2>3. /\ runtime'[op.session].state = "live"
        /\ \A t \in Sessions \ {op.session} : runtime'[t] = runtime[t] /\ registry'[t] = registry[t]
    BY <1>7, <2>1, <2>2, BecomeTyped, SyncTyped DEF GiveUp
  <2>4. UNCHANGED <<durable, told>> /\ \A t \in Sessions \ {op.session} : pty'[t] = pty[t]
    BY <1>7, <2>1 DEF GiveUp, Stopped, LeftRunning
  <2> QED
    BY <2>1, <2>3, <2>4
<1>8. CASE ForceRefused
  BY <1>8, RefusedParts
  DEF ForceRefused
<1>9. CASE ForceEnds
  BY <1>9
  DEF ForceEnds, Become, Sync, To, Revoked, Stopped, Release
<1>10. CASE ForceFails
  BY <1>10
  DEF ForceFails, Become, Sync, To, Revoked
<1>11. CASE Restart
  <2>1. \A s \in Sessions : registry'[s].state # registry[s].state => registry'[s].state \in {"live", "orphaned"}
    BY <1>11, ReconciledParts DEF Restart
  <2>2. \A s \in Sessions : runtime'[s].state = "none"
    BY <1>11 DEF Restart, NoRuntimes
  <2> QED
    BY <1>11, <2>1, <2>2 DEF Restart
<1>12. CASE \E s \in Sessions : \E k \in Keys : Reserve(s, k)
  BY <1>12
  DEF Reserve, Idle, Fresh
<1>13. CASE \E s \in Sessions : \E d \in Devices : \E i \in Inputs : InputWritten(s, d, i)
  BY <1>13
  DEF InputWritten, MayWrite, Given, Noted, Fence, Idle
<1>14. CASE \E s \in Sessions : \E d \in Devices : \E i \in Inputs : InputUnknown(s, d, i)
  BY <1>14
  DEF InputUnknown, MayWrite, Given, Noted, Fence, Idle
<1>15. CASE \E s \in Sessions : \E d \in Devices : RenewOrInterrupt(s, d)
  BY <1>15
  DEF RenewOrInterrupt, Sync, Fence, Idle
<1>16. CASE \E s \in Sessions : \E d \in Devices : InterruptFails(s, d)
  <2>1. PICK s \in Sessions, d \in Devices : InterruptFails(s, d)
    BY <1>16
  <2>2. To(s, "orphaned") \in Session /\ To(s, "orphaned").expired /\ To(s, "orphaned").state = "orphaned"
    BY ToParts DEF States
  <2>3. /\ runtime'[s].state = "orphaned"
        /\ \A t \in Sessions \ {s} : runtime'[t] = runtime[t] /\ registry'[t] = registry[t]
        /\ registry'[s].state \in {registry[s].state, "orphaned"}
    BY <2>1, <2>2, BecomeTyped, SyncTyped DEF InterruptFails
  <2>4. UNCHANGED <<durable, pty, told>>
    BY <2>1 DEF InterruptFails
  <2> QED
    BY <2>3, <2>4
<1>17. CASE \E s \in Sessions : \E d \in Devices : EndSession(s, d)
  BY <1>17
  DEF EndSession, Become, Sync, To, Revoked, Stopped, Release, Fence, Idle
<1>18. CASE \E s \in Sessions : \E d \in Devices : EndFails(s, d)
  <2>1. PICK s \in Sessions, d \in Devices : EndFails(s, d)
    BY <1>18
  <2>2. To(s, "orphaned") \in Session /\ To(s, "orphaned").expired /\ To(s, "orphaned").state = "orphaned"
    BY ToParts DEF States
  <2>3. /\ runtime'[s].state = "orphaned"
        /\ \A t \in Sessions \ {s} : runtime'[t] = runtime[t] /\ registry'[t] = registry[t]
        /\ registry'[s].state \in {registry[s].state, "orphaned"}
    BY <2>1, <2>2, BecomeTyped, SyncTyped DEF EndFails
  <2>4. UNCHANGED <<durable, pty, told>>
    BY <2>1 DEF EndFails
  <2> QED
    BY <2>3, <2>4
<1>19. CASE \E s \in Sessions : Expire(s)
  BY <1>19
  DEF Expire, Become
<1>20. CASE \E s \in Sessions : ForceClose(s)
  BY <1>20
  DEF ForceClose, Idle
<1>21. CASE \E s \in Sessions : PtyExits(s)
  BY <1>21
  DEF PtyExits
<1>22. CASE \E s \in Sessions : HandleExit(s)
  <2>1. PICK s \in Sessions : HandleExit(s)
    BY <1>22
  <2>2. /\ \A t \in Sessions \ {s} : runtime'[t] = runtime[t] /\ registry'[t] = registry[t]
        /\ \/ runtime'[s] = runtime[s] /\ registry'[s] = registry[s] /\ active' = active
           \/ /\ runtime[s].state # "none"
              /\ runtime'[s].state \in Final /\ runtime'[s].revoked
              /\ registry'[s].state \in {registry[s].state} \cup Final
              /\ active' = IF active = s THEN NoSession ELSE active
    BY <2>1, ExitParts
  <2>3. /\ op = NoOp /\ op' = op /\ s \in exits /\ exits' = exits \ {s}
        /\ UNCHANGED <<durable, inputs, pty, abandoned, written, told>>
    BY <2>1 DEF HandleExit, Idle
  <2>4. pty[s] = "gone"
    BY <2>3
  <2> QED
    BY <2>2, <2>3, <2>4
<1>23. CASE \E d \in Devices : RevokeDevice(d)
  <2>1. PICK d \in Devices : RevokeDevice(d)
    BY <1>23
  <2>2. \A t \in Sessions :
           /\ runtime'[t].state = runtime[t].state /\ runtime'[t].owner = runtime[t].owner
           /\ runtime[t].revoked => runtime'[t].revoked
           /\ \/ registry'[t].state = registry[t].state
              \/ runtime[t].owner = d /\ registry'[t].state = runtime[t].state
    BY <2>1, RevokeParts
  <2>3. op = NoOp /\ op' = op /\ UNCHANGED <<durable, active, exits, inputs, pty, abandoned, written, told>>
    BY <2>1 DEF RevokeDevice, Idle
  <2>4. d # NoSession
    BY <2>1
  <2>5. ASSUME NEW t \in told', durable', pty'[t] = "running"
        PROVE  registry'[t].state \notin {"none"} \cup {"ended", "failed"}
    BY <2>2, <2>3, <2>4, <2>5
  <2> QED
    BY <2>2, <2>3, <2>5
<1> QED
  BY <1>1, <1>2, <1>3, <1>4, <1>5, <1>6, <1>7, <1>8, <1>9, <1>10, <1>11,
     <1>12, <1>13, <1>14, <1>15, <1>16, <1>17, <1>18, <1>19, <1>20, <1>21, <1>22, <1>23 DEF Next, Continue

-----------------------------------------------------------------------------
(* What is proved of the supervisor.                                       *)

\* Every step keeps the inductive invariant.
LEMMA IInvStep == IInv /\ [Next]_vars => IInv'
<1> SUFFICES ASSUME IInv, [Next]_vars PROVE IInv'
  OBVIOUS
<1>1. CASE Next
  BY <1>1, TypeStep, OpStep, HostStep, InputStep, RecordStep DEF IInv
<1>2. CASE UNCHANGED vars
  <2> USE <1>2 DEF IInv, vars, memory, system
  <2>1. TypeOK'
    BY DEF TypeOK
  <2>2. OpInv'
    BY DEF OpInv
  <2>3. HostInv'
    BY DEF HostInv, OneTerminal, ControlIsReserved, Known
  <2>4. InputInv'
    BY DEF InputInv, Known
  <2>5. RecordInv'
    BY DEF RecordInv, RunningIsRecoverable
  <2> QED
    BY <2>1, <2>2, <2>3, <2>4, <2>5
<1> QED
  BY <1>1, <1>2

\* The inductive invariant of the supervisor.
THEOREM Invariance == Spec => []IInv
BY InitIInv, IInvStep, PTL DEF Spec

\* TypeOK: the types of the state, and that a revoked lease has expired
\* (revokeTerminalLease).
THEOREM TypeCorrect == Spec => []TypeOK
<1>1. IInv => TypeOK
  BY DEF IInv
<1> QED
  BY <1>1, Invariance, PTL

\* OneTerminal: a running process that was not signalled belongs to the session
\* that holds the host, unless a failed creation could not close it, and so does a
\* session that was answered and is not over (activeSessionId of the supervisor).
THEOREM TerminalIsOne == Spec => []OneTerminal
<1>1. IInv => OneTerminal
  BY DEF IInv, HostInv
<1> QED
  BY <1>1, Invariance, PTL

\* ControlIsReserved: a lease that was not revoked belongs to the session that
\* holds the host, whatever failed on the way.
THEOREM ControlStaysReserved == Spec => []ControlIsReserved
<1>1. IInv => ControlIsReserved
  BY DEF IInv, HostInv
<1> QED
  BY <1>1, Invariance, PTL

\* InputAtMostOnce: a process is given an input at most once, however often the
\* device repeats it (the ledger of writeInput).
THEOREM InputsAreWrittenOnce == Spec => []InputAtMostOnce
<1>1. IInv => InputAtMostOnce
  BY DEF IInv, InputInv, InputAtMostOnce
<1> QED
  BY <1>1, Invariance, PTL

\* RunningIsRecoverable: the record of a session that was answered and whose
\* process runs is not final, so a restart finds it (syncRegistry, reconcile).
THEOREM RunningStaysRecoverable == Spec => []RunningIsRecoverable
<1>1. IInv => RunningIsRecoverable
  BY DEF IInv, RecordInv
<1> QED
  BY <1>1, Invariance, PTL

\* RevokedWritesNothing: no input reaches a process under a revoked lease, with
\* whatever generation it comes (assertFence before every write).
THEOREM RevocationIsABarrier == Spec => RevokedWritesNothing
<1>1. ASSUME TypeOK, [Next]_vars, NEW q \in Sessions, runtime[q].revoked
      PROVE  written'[q] = written[q]
  <2>1. runtime[q].expired
    BY <1>1 DEF TypeOK
  <2>2. ASSUME NEW s \in Sessions, NEW d \in Devices, NEW i \in Inputs, MayWrite(s, d, i),
               Given(s, i) \/ UNCHANGED written
        PROVE  written'[q] = written[q]
    <3>1. s # q
      BY <2>1, <2>2 DEF MayWrite, Fence
    <3> QED
      BY <1>1, <2>2, <3>1 DEF Given, TypeOK
  <2>3. CASE \E s \in Sessions : \E d \in Devices : \E i \in Inputs :
                 InputWritten(s, d, i) \/ InputUnknown(s, d, i)
    BY <2>2, <2>3 DEF InputWritten, InputUnknown
  <2>4. CASE UNCHANGED written
    BY <2>4
  <2>5. \/ UNCHANGED written
        \/ \E s \in Sessions : \E d \in Devices : \E i \in Inputs :
               InputWritten(s, d, i) \/ InputUnknown(s, d, i)
    <3>1. CASE UNCHANGED vars
      BY <3>1 DEF vars, system
    <3>2. CASE Next
      <4>1. CASE Continue
        BY <4>1 DEF Continue, AllocateFails, Allocate, StartFails, Start, Identify, Persist,
                    GiveUp, ForceRefused, ForceEnds, ForceFails, system
      <4>2. CASE Restart \/ \E d \in Devices : RevokeDevice(d)
        BY <4>2 DEF Restart, RevokeDevice, system
      <4>3. ASSUME NEW s \in Sessions,
                   \/ \E k \in Keys : Reserve(s, k)
                   \/ \E d \in Devices :
                         \/ RenewOrInterrupt(s, d) \/ InterruptFails(s, d)
                         \/ EndSession(s, d) \/ EndFails(s, d)
                   \/ Expire(s) \/ ForceClose(s) \/ PtyExits(s) \/ HandleExit(s)
            PROVE  UNCHANGED written
        BY <4>3 DEF Reserve, RenewOrInterrupt, InterruptFails, EndSession, EndFails, Expire,
                    ForceClose, PtyExits, HandleExit, system
      <4> QED
        BY <3>2, <4>1, <4>2, <4>3 DEF Next
    <3> QED
      BY <1>1, <3>1, <3>2
  <2> QED
    BY <2>3, <2>4, <2>5
<1>2. TypeOK /\ [Next]_vars
      => [\A s \in Sessions : runtime[s].revoked => written'[s] = written[s]]_vars
  BY <1>1
<1> QED
  BY <1>2, TypeCorrect, PTL DEF Spec, RevokedWritesNothing

=============================================================================
