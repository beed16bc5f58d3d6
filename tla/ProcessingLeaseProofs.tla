------------------------ MODULE ProcessingLeaseProofs ------------------------
(***************************************************************************)
(* What ProcessingLease guarantees for every set of recordings, workers    *)
(* and daemons, every placement and every capacity.                        *)
(***************************************************************************)
EXTENDS ProcessingLease, FiniteSetTheorems, TLAPS

\* The types are preserved by the steps of a worker.
LEMMA WorkTypes ==
  ASSUME TypeOK, NEW w \in Workers, Work(w) \/ Renew(w) \/ Dispatch(w) \/ AbortRequest(w) \/ CrashCli(w)
  PROVE  TypeOK'
<1> USE WorkersAssumption, LeaseAssumption DEF TypeOK, FileStatus, StageStatus, WorkerState
<1>0. LeaseTicks \in 0..LeaseTicks OBVIOUS
<1>1. CASE Claim(w)
  <2>1. lease' \in [Recordings -> 0..LeaseTicks] BY <1>0, <1>1 DEF Claim
  <2>2. token' \in [Recordings -> Workers \cup {NoWorker}] BY <1>1 DEF Claim
  <2> QED BY <1>1, <2>1, <2>2 DEF Claim, Goto, daemonVars
<1>2. CASE ClaimRefused(w)  BY <1>2 DEF ClaimRefused, Goto, dbVars, rowVars, daemonVars
<1>3. CASE CliQueue(w)      BY <1>3 DEF CliQueue, Goto, daemonVars
<1>4. CASE Enter(w)         BY <1>4 DEF Enter, Fenced, Goto, daemonVars
<1>5. CASE Begin(w)         BY <1>5 DEF Begin, Fenced, Goto, daemonVars
<1>6. CASE Persist(w)       BY <1>6 DEF Persist, Fenced, Goto, daemonVars
<1>7. CASE FinishStage(w)   BY <1>7 DEF FinishStage, CloseStage, Goto, daemonVars
<1>8. CASE FailStage(w)     BY <1>8 DEF FailStage, CloseStage, Goto, daemonVars
<1>9. CASE FinishCycle(w)
  <2>1. PICK outcome \in {"done", "partial"} : status' = [status EXCEPT ![job[w]] = outcome]
    BY <1>9 DEF FinishCycle
  <2> QED BY <1>9, <2>1 DEF FinishCycle, Goto, daemonVars
<1>10. CASE FailCycle(w)    BY <1>10 DEF FailCycle, Goto, daemonVars
<1>11. CASE LoseClaim(w)    BY <1>11 DEF LoseClaim, Goto, dbVars, rowVars, daemonVars
<1>12. CASE EndBorrow(w)    BY <1>12 DEF EndBorrow, Goto, dbVars, rowVars, daemonVars
<1>13. CASE Release(w)      BY <1>13 DEF Release, Goto, rowVars, daemonVars
<1>14. CASE Renew(w)
  <2>1. lease' \in [Recordings -> 0..LeaseTicks] BY <1>0, <1>14 DEF Renew
  <2> QED BY <1>14, <2>1 DEF Renew, rowVars, workerVars, daemonVars
<1>15. CASE Dispatch(w)     BY <1>15 DEF Dispatch, Select, Goto, dbVars, rowVars, daemonVars
<1>16. CASE AbortRequest(w) BY <1>16 DEF AbortRequest, Goto, daemonVars
<1>17. CASE CrashCli(w)     BY <1>17 DEF CrashCli, dbVars, rowVars, daemonVars
<1> QED BY <1>1, <1>2, <1>3, <1>4, <1>5, <1>6, <1>7, <1>8, <1>9, <1>10, <1>11, <1>12, <1>13,
           <1>14, <1>15, <1>16, <1>17 DEF Work

\* The types are preserved by a request, by a daemon's steps and by time.
LEMMA EnvironmentTypes ==
  ASSUME TypeOK,
         \/ \E w \in Workers, r \in Recordings : Request(w, r) \/ Borrow(w, r)
         \/ \E d \in Daemons : \/ Register(d) \/ StartUp(d) \/ PeriodicReset(d) \/ Heartbeat(d)
                               \/ Stop(d) \/ Exit(d) \/ CrashDaemon(d)
         \/ Tick
  PROVE  TypeOK'
<1> USE WorkersAssumption, LeaseAssumption, HeartbeatAssumption
    DEF TypeOK, FileStatus, StageStatus, WorkerState, DaemonState
<1>1. CASE \E w \in Workers, r \in Recordings : Request(w, r)
  BY <1>1 DEF Request, Goto, dbVars, rowVars, daemonVars
<1>2. CASE \E w \in Workers, r \in Recordings : Borrow(w, r)
  BY <1>2 DEF Borrow, Goto, rowVars, daemonVars
<1>3. CASE \E d \in Daemons : Register(d)      BY <1>3 DEF Register, rowVars, workerVars
<1>4. CASE \E d \in Daemons : StartUp(d)       BY <1>4 DEF StartUp, ResetInflight, workerVars
<1>5. CASE \E d \in Daemons : PeriodicReset(d)
  BY <1>5 DEF PeriodicReset, ResetInflight, workerVars, daemonVars
<1>6. CASE \E d \in Daemons : Heartbeat(d)     BY <1>6 DEF Heartbeat, rowVars, workerVars
<1>7. CASE \E d \in Daemons : Stop(d)          BY <1>7 DEF Stop, dbVars, rowVars, workerVars
<1>8. CASE \E d \in Daemons : Exit(d)
  <2>1. PICK d \in Daemons : Exit(d) BY <1>8
  <2>2. (ownerRecord.released \/ ownerRecord.owner = d) \in BOOLEAN BY Zenon
  <2>3. ownerRecord' \in [owner: Daemons \cup {NoDaemon}, released: BOOLEAN, beat: 0..HeartbeatTicks]
    BY <2>1, <2>2 DEF Exit
  <2> QED BY <2>1, <2>3 DEF Exit, rowVars, workerVars
<1>9. CASE \E d \in Daemons : CrashDaemon(d)   BY <1>9 DEF CrashDaemon, dbVars, rowVars
<1>10. CASE Tick
  <2>1. \A n \in 0..LeaseTicks : Less(n) \in 0..LeaseTicks BY DEF Less
  <2>2. \A n \in 0..HeartbeatTicks : Less(n) \in 0..HeartbeatTicks BY DEF Less
  <2>3. lease' \in [Recordings -> 0..LeaseTicks] BY <1>10, <2>1 DEF Tick
  <2>4. ownerRecord' \in [owner: Daemons \cup {NoDaemon}, released: BOOLEAN, beat: 0..HeartbeatTicks]
    BY <1>10, <2>2 DEF Tick
  <2> QED BY <1>10, <2>3, <2>4 DEF Tick, rowVars, workerVars, daemonVars
<1> QED BY <1>1, <1>2, <1>3, <1>4, <1>5, <1>6, <1>7, <1>8, <1>9, <1>10

LEMMA InitTypes == Init => TypeOK
BY WorkersAssumption, LeaseAssumption, HeartbeatAssumption
   DEF Init, TypeOK, FileStatus, StageStatus, WorkerState, DaemonState

LEMMA NextTypes == TypeOK /\ [Next]_vars => TypeOK'
<1> SUFFICES ASSUME TypeOK, [Next]_vars PROVE TypeOK' OBVIOUS
<1>1. CASE UNCHANGED vars
  BY <1>1 DEF TypeOK, vars, dbVars, rowVars, workerVars, daemonVars
<1>2. CASE Next BY <1>2, WorkTypes, EnvironmentTypes DEF Next
<1> QED BY <1>1, <1>2

\* Every variable keeps its type, for every library, placement and lease length.
THEOREM TypeCorrect == Spec => []TypeOK
BY InitTypes, NextTypes, PTL DEF Spec

-----------------------------------------------------------------------------
(***************************************************************************)
(* What a step does to the claims: worker w takes recording r, or claims   *)
(* are only given up, or a holder publishes.                               *)
(***************************************************************************)
ClaimTaken(w, r) ==
  /\ Admitted(r) /\ ~ClaimActive(r)
  /\ token' = [token EXCEPT ![r] = w]
  /\ lease' = [lease EXCEPT ![r] = LeaseTicks]
  /\ UNCHANGED publisher

ClaimsOnlyLost ==
  /\ \A r \in Recordings : ClaimActive(r)' => ClaimActive(r) /\ token'[r] = token[r]
  /\ UNCHANGED publisher

LEMMA ResetLosesClaims ==
  ASSUME TypeOK, NEW crashed, ResetInflight(crashed)
  PROVE  ClaimsOnlyLost
BY DEF ResetInflight, ClaimsOnlyLost, ClaimActive, TypeOK

LEMMA ClaimSteps ==
  ASSUME TypeOK, [Next]_vars
  PROVE  \/ \E w \in Workers, r \in Recordings : ClaimTaken(w, r)
         \/ ClaimsOnlyLost
         \/ \E w \in Workers : Persist(w)
<1> USE DEF ClaimsOnlyLost, ClaimActive, TypeOK
<1>1. ASSUME NEW w \in Workers, Claim(w)
      PROVE  (\E r \in Recordings : ClaimTaken(w, r)) \/ ClaimsOnlyLost
  <2>1. CASE job[w] \in Recordings
    <3>1. ClaimTaken(w, job[w]) BY <1>1, <2>1 DEF Claim, ClaimTaken, Claimable
    <3> QED BY <2>1, <3>1
  <2>2. CASE job[w] \notin Recordings
    BY <1>1, <2>2 DEF Claim
  <2> QED BY <2>1, <2>2
<1>2. ASSUME NEW w \in Workers, NEW r \in Recordings, Borrow(w, r)
      PROVE  ClaimTaken(w, r)
  BY <1>2 DEF Borrow, ClaimTaken, Claimable, rowVars
<1>3. ASSUME NEW w \in Workers, Work(w), ~Claim(w), ~Persist(w)
      PROVE  ClaimsOnlyLost
  <2>1. CASE Release(w) BY <2>1, WorkersAssumption DEF Release, rowVars
  <2>2. CASE ~Release(w)
    BY <1>3, <2>2 DEF Work, ClaimRefused, CliQueue, Enter, Begin, FinishStage, FailStage, CloseStage,
                      FinishCycle, FailCycle, LoseClaim, EndBorrow, dbVars, rowVars
  <2> QED BY <2>1, <2>2
<1>4. ASSUME NEW w \in Workers, Renew(w)
      PROVE  ClaimsOnlyLost
  BY <1>4, LeaseAssumption DEF Renew, Fenced, OwnsClaim, rowVars
<1>5. ASSUME NEW w \in Workers, Dispatch(w) \/ AbortRequest(w) \/ CrashCli(w)
      PROVE  ClaimsOnlyLost
  BY <1>5, WorkersAssumption DEF Dispatch, Select, AbortRequest, CrashCli, dbVars, rowVars
<1>6. ASSUME NEW w \in Workers, NEW r \in Recordings, Request(w, r)
      PROVE  ClaimsOnlyLost
  BY <1>6 DEF Request, dbVars, rowVars
<1>7. ASSUME NEW d \in Daemons, StartUp(d) \/ PeriodicReset(d)
      PROVE  ClaimsOnlyLost
  BY <1>7, ResetLosesClaims DEF StartUp, PeriodicReset
<1>8. ASSUME NEW d \in Daemons, Register(d) \/ Heartbeat(d) \/ Stop(d) \/ Exit(d) \/ CrashDaemon(d)
      PROVE  ClaimsOnlyLost
  BY <1>8 DEF Register, Heartbeat, Stop, Exit, CrashDaemon, dbVars, rowVars
<1>9. CASE Tick
  BY <1>9 DEF Tick, Less, rowVars
<1>10. CASE UNCHANGED vars
  BY <1>10 DEF vars, dbVars, rowVars
<1> QED BY <1>1, <1>2, <1>3, <1>4, <1>5, <1>6, <1>7, <1>8, <1>9, <1>10 DEF Next

-----------------------------------------------------------------------------
(***************************************************************************)
(* Capacity.                                                               *)
(***************************************************************************)
LEMMA CapacityStep ==
  ASSUME TypeOK, CapacityBound, [Next]_vars
  PROVE  CapacityBound'
<1> USE RecordingsAssumption, CapacityAssumption
<1>1. IsFiniteSet(Active) /\ IsFiniteSet(Active')
  BY FS_Subset DEF Active
<1>2. ASSUME NEW w \in Workers, NEW r \in Recordings, ClaimTaken(w, r)
      PROVE  CapacityBound'
  <2> DEFINE rest == Active \ {r}
  <2>1. Active' \subseteq rest \cup {r}
    BY <1>2 DEF ClaimTaken, Active, ClaimActive, TypeOK
  <2>2. IsFiniteSet(rest) /\ Cardinality(rest) \in Nat /\ Cardinality(rest) < Capacity
    BY <1>1, <1>2, FS_Subset, FS_CardinalityType DEF ClaimTaken, Admitted
  <2>3. IsFiniteSet(rest \cup {r}) /\ Cardinality(rest \cup {r}) = Cardinality(rest) + 1
    BY <2>2, FS_AddElement
  <2>4. Cardinality(Active') <= Cardinality(rest \cup {r})
    BY <2>1, <2>3, FS_Subset
  <2>5. Cardinality(Active') \in Nat
    BY <1>1, FS_CardinalityType
  <2> HIDE DEF rest
  <2>6. Cardinality(Active') <= Capacity
    BY <2>2, <2>3, <2>4, <2>5
  <2> QED BY <2>6 DEF CapacityBound
<1>3. ASSUME Active' \subseteq Active
      PROVE  CapacityBound'
  <2>1. Cardinality(Active') <= Cardinality(Active)
    BY <1>1, <1>3, FS_Subset
  <2>2. Cardinality(Active') \in Nat /\ Cardinality(Active) \in Nat
    BY <1>1, FS_CardinalityType
  <2> QED BY <2>1, <2>2 DEF CapacityBound
<1>4. CASE ClaimsOnlyLost
  BY <1>3, <1>4 DEF ClaimsOnlyLost, Active
<1>5. CASE \E w \in Workers : Persist(w)
  BY <1>3, <1>5 DEF Persist, Active, ClaimActive
<1> QED BY <1>2, <1>4, <1>5, ClaimSteps

\* Whatever the processes do, at most Capacity claims are alive at once.
THEOREM CapacityIsRespected == Spec => []CapacityBound
<1>1. Init => CapacityBound
  <2>1. Init => Active = {} BY DEF Init, Active, ClaimActive
  <2> QED BY <2>1, FS_EmptySet, CapacityAssumption DEF CapacityBound
<1>2. TypeOK /\ CapacityBound /\ [Next]_vars => CapacityBound'
  BY CapacityStep
<1> QED BY <1>1, <1>2, TypeCorrect, PTL DEF Spec

-----------------------------------------------------------------------------
(***************************************************************************)
(* Refinement.                                                             *)
(***************************************************************************)
holderNow == [r \in Recordings |-> IF ClaimActive(r) THEN token[r] ELSE NoWorker]

LEMMA ServiceInitial == Init => Service!ServiceInit
BY DEF Init, Service!ServiceInit, ClaimActive

\* Both modules count with the FiniteSets operator.
LEMMA SameCardinality == \A S : Service!Cardinality(S) = Cardinality(S)
BY DEF Service!Cardinality, Cardinality

LEMMA ServiceStep ==
  ASSUME TypeOK, [Next]_vars
  PROVE  [Service!ServiceNext]_(Service!serviceVars)
<1> USE DEF ClaimActive
<1>1. Service!Held = Active
  BY WorkersAssumption DEF Service!Held, Active, ClaimActive, TypeOK
<1>2. ASSUME NEW w \in Workers, NEW r \in Recordings, ClaimTaken(w, r)
      PROVE  Service!ServiceNext
  <2>1. Service!Cardinality(Service!Held) < Capacity
    <3>1. Active \ {r} = Active BY <1>2 DEF ClaimTaken, Active
    <3>2. Cardinality(Active) < Capacity BY <1>2, <3>1 DEF ClaimTaken, Admitted
    <3> QED BY <1>1, <3>2, SameCardinality
  <2>2. holderNow[r] = NoWorker BY <1>2 DEF holderNow, ClaimTaken
  <2>3. \A q \in Recordings : holderNow'[q] = IF q = r THEN w ELSE holderNow[q]
    BY <1>2, LeaseAssumption, WorkersAssumption DEF ClaimTaken, ClaimActive, TypeOK, holderNow
  <2>4. holderNow' = [holderNow EXCEPT ![r] = w]
    BY <2>3 DEF holderNow
  <2>5. Service!Acquire(w, r)
    BY <1>2, <2>1, <2>2, <2>4 DEF Service!Acquire, ClaimTaken, holderNow
  <2> QED BY <2>5 DEF Service!ServiceNext
<1>3. ASSUME ClaimsOnlyLost
      PROVE  Service!ServiceNext
  <2> DEFINE lost == {r \in Recordings : ~ClaimActive(r)'}
  <2>1. \A r \in Recordings :
          holderNow'[r] = (IF r \in lost THEN NoWorker ELSE holderNow[r])
    BY <1>3 DEF ClaimsOnlyLost, holderNow
  <2>2. holderNow' = [r \in Recordings |-> IF r \in lost THEN NoWorker ELSE holderNow[r]]
    BY <2>1 DEF holderNow
  <2>3. lost \in SUBSET Recordings OBVIOUS
  <2> HIDE DEF lost
  <2>4. \E S \in SUBSET Recordings :
          holderNow' = [r \in Recordings |-> IF r \in S THEN NoWorker ELSE holderNow[r]]
    BY <2>2, <2>3
  <2>5. UNCHANGED publisher BY <1>3 DEF ClaimsOnlyLost
  <2> QED BY <2>4, <2>5 DEF Service!ServiceNext, Service!Vacate, holderNow
<1>4. ASSUME NEW w \in Workers, Persist(w)
      PROVE  [Service!ServiceNext]_(Service!serviceVars)
  <2>1. holderNow' = holderNow BY <1>4 DEF Persist, ClaimActive, holderNow
  <2>2. CASE job[w] \in Recordings
    <3>1. holderNow[job[w]] = w
      BY <1>4, <2>2, WorkersAssumption DEF Persist, Fenced, OwnsClaim, ClaimActive, holderNow
    <3>2. Service!Publish(w, job[w])
      BY <1>4, <2>1, <3>1 DEF Service!Publish, Persist, holderNow
    <3> QED BY <2>2, <3>2 DEF Service!ServiceNext
  <2>3. CASE job[w] \notin Recordings
    <3>1. publisher' = publisher BY <1>4, <2>3 DEF Persist, TypeOK
    <3> QED BY <2>1, <3>1 DEF Service!serviceVars, holderNow
  <2> QED BY <2>2, <2>3
<1> QED BY <1>2, <1>3, <1>4, ClaimSteps

\* The processing lease implements the claim service: whatever crashes, expires or is
\* recovered, a recording has one holder at a time and only the holder publishes for it.
THEOREM Implements == Spec => ImplementsClaimService
BY ServiceInitial, ServiceStep, TypeCorrect, PTL
   DEF Spec, ImplementsClaimService, Service!ServiceSpec

-----------------------------------------------------------------------------
(***************************************************************************)
(* The roll-up and the ledger.                                             *)
(***************************************************************************)
LEMMA LedgerStep ==
  ASSUME TypeOK, LedgerAgrees, [Next]_vars
  PROVE  LedgerAgrees'
<1> USE DEF LedgerAgrees, TypeOK
<1>1. ASSUME NEW w \in Workers, Begin(w) PROVE LedgerAgrees'
  BY <1>1 DEF Begin
<1>2. ASSUME NEW w \in Workers, NEW outcome \in {"completed", "failed"}, CloseStage(w, outcome)
      PROVE  LedgerAgrees'
  BY <1>2 DEF CloseStage
<1>3. ASSUME NEW crashed, ResetInflight(crashed) PROVE LedgerAgrees'
  BY <1>3 DEF ResetInflight
<1>4. CASE UNCHANGED <<run, open>>
  BY <1>4
<1>5. ASSUME NEW w \in Workers, Work(w) \/ Renew(w) \/ Dispatch(w) \/ AbortRequest(w) \/ CrashCli(w)
      PROVE  LedgerAgrees'
  <2>1. CASE FinishStage(w) \/ FailStage(w)
    BY <1>2, <2>1 DEF FinishStage, FailStage
  <2>2. CASE ~(FinishStage(w) \/ FailStage(w) \/ Begin(w))
    BY <1>4, <1>5, <2>2 DEF Work, Claim, ClaimRefused, CliQueue, Enter, Persist, FinishCycle, FailCycle,
       LoseClaim, EndBorrow, Release, Renew, Dispatch, Select, AbortRequest, CrashCli, dbVars, rowVars
  <2> QED BY <1>1, <2>1, <2>2
<1>6. ASSUME NEW w \in Workers, NEW r \in Recordings, Request(w, r) \/ Borrow(w, r)
      PROVE  LedgerAgrees'
  BY <1>4, <1>6 DEF Request, Borrow, dbVars, rowVars
<1>7. ASSUME NEW d \in Daemons, StartUp(d) \/ PeriodicReset(d)
      PROVE  LedgerAgrees'
  BY <1>3, <1>7 DEF StartUp, PeriodicReset
<1>8. ASSUME NEW d \in Daemons, Register(d) \/ Heartbeat(d) \/ Stop(d) \/ Exit(d) \/ CrashDaemon(d)
      PROVE  LedgerAgrees'
  BY <1>4, <1>8 DEF Register, Heartbeat, Stop, Exit, CrashDaemon, dbVars, rowVars
<1>9. CASE Tick \/ UNCHANGED vars
  BY <1>4, <1>9 DEF Tick, vars, dbVars, rowVars
<1> QED BY <1>5, <1>6, <1>7, <1>8, <1>9 DEF Next

\* A stage is shown as running exactly while its attempt is open in the append-only ledger.
THEOREM LedgerIsConsistent == Spec => []LedgerAgrees
<1>1. Init => LedgerAgrees BY DEF Init, LedgerAgrees
<1>2. TypeOK /\ LedgerAgrees /\ [Next]_vars => LedgerAgrees' BY LedgerStep
<1> QED BY <1>1, <1>2, TypeCorrect, PTL DEF Spec

-----------------------------------------------------------------------------
(***************************************************************************)
(* Every live claim has a worker at it, or a dead one.                     *)
(***************************************************************************)
LEMMA MannedStep ==
  ASSUME TypeOK, LiveClaimIsManned, [Next]_vars
  PROVE  LiveClaimIsManned'
<1> USE WorkersAssumption, RecordingsAssumption DEF TypeOK, ClaimActive
<1>1. ASSUME UNCHANGED <<token, lease, pc, job>> PROVE LiveClaimIsManned'
  BY <1>1 DEF LiveClaimIsManned
<1>2. ASSUME NEW w \in Workers, NEW place \in WorkerState \ {"idle", "selected", "reading", "requested"},
             pc[w] \in WorkerState \ {"idle", "selected", "reading", "requested", "crashed"},
             Goto(w, place), UNCHANGED <<token, lease, job>>
      PROVE  LiveClaimIsManned'
  BY <1>2 DEF LiveClaimIsManned, Goto
<1>3. ASSUME NEW w \in Workers, pc[w] \in {"idle", "selected", "reading", "requested"},
             \A v \in Workers \ {w} : pc'[v] = pc[v] /\ job'[v] = job[v],
             UNCHANGED <<token, lease>>
      PROVE  LiveClaimIsManned'
  BY <1>3 DEF LiveClaimIsManned
<1>4. ASSUME NEW w \in Workers, Work(w) \/ Renew(w) \/ Dispatch(w) \/ AbortRequest(w) \/ CrashCli(w)
      PROVE  LiveClaimIsManned'
  <2>1. CASE Claim(w)
    BY <2>1 DEF Claim, Goto, At, LiveClaimIsManned
  <2>2. CASE ClaimRefused(w) \/ CliQueue(w) \/ Dispatch(w)
    BY <1>3, <2>2 DEF ClaimRefused, CliQueue, Dispatch, Select, Goto, At, dbVars
  <2>3. CASE Enter(w) \/ Begin(w) \/ Persist(w) \/ FinishStage(w) \/ FailStage(w)
    BY <1>2, <2>3 DEF Enter, Begin, Persist, FinishStage, FailStage, CloseStage, Fenced, At, WorkerState
  <2>4. CASE FinishCycle(w) \/ FailCycle(w) \/ LoseClaim(w) \/ EndBorrow(w)
    BY <1>2, <2>4 DEF FinishCycle, FailCycle, LoseClaim, EndBorrow, Fenced, At, WorkerState, dbVars
  <2>5. CASE Release(w)
    BY <2>5 DEF Release, Goto, At, LiveClaimIsManned
  <2>6. CASE AbortRequest(w)
    BY <2>6 DEF AbortRequest, OwnsClaim, Goto, At, LiveClaimIsManned
  <2>7. CASE Renew(w)
    BY <2>7 DEF Renew, Fenced, OwnsClaim, LiveClaimIsManned, workerVars
  <2>8. CASE CrashCli(w)
    BY <2>8 DEF CrashCli, LiveClaimIsManned, dbVars
  <2> QED BY <1>4, <2>1, <2>2, <2>3, <2>4, <2>5, <2>6, <2>7, <2>8 DEF Work
<1>5. ASSUME NEW w \in Workers, NEW r \in Recordings, Request(w, r)
      PROVE  LiveClaimIsManned'
  BY <1>3, <1>5 DEF Request, Goto, At, dbVars
<1>6. ASSUME NEW w \in Workers, NEW r \in Recordings, Borrow(w, r)
      PROVE  LiveClaimIsManned'
  BY <1>6 DEF Borrow, Goto, At, LiveClaimIsManned
<1>7. ASSUME NEW crashed, ResetInflight(crashed), UNCHANGED workerVars
      PROVE  LiveClaimIsManned'
  BY <1>7 DEF ResetInflight, workerVars, LiveClaimIsManned
<1>8. ASSUME NEW d \in Daemons, StartUp(d) \/ PeriodicReset(d)
      PROVE  LiveClaimIsManned'
  BY <1>7, <1>8 DEF StartUp, PeriodicReset
<1>9. ASSUME NEW d \in Daemons, Register(d) \/ Heartbeat(d) \/ Stop(d) \/ Exit(d)
      PROVE  LiveClaimIsManned'
  BY <1>1, <1>9 DEF Register, Heartbeat, Stop, Exit, dbVars, workerVars
<1>10. ASSUME NEW d \in Daemons, CrashDaemon(d)
       PROVE  LiveClaimIsManned'
  BY <1>10 DEF CrashDaemon, LiveClaimIsManned, dbVars
<1>11. CASE Tick
  BY <1>11 DEF Tick, Less, LiveClaimIsManned, workerVars
<1>12. CASE UNCHANGED vars
  BY <1>1, <1>12 DEF vars, dbVars, workerVars
<1> QED BY <1>4, <1>5, <1>6, <1>8, <1>9, <1>10, <1>11, <1>12 DEF Next

\* No path leaks a live claim: whoever holds one works under it or has died with it.
THEOREM ClaimsAreManned == Spec => []LiveClaimIsManned
<1>1. Init => LiveClaimIsManned BY DEF Init, LiveClaimIsManned, ClaimActive
<1>2. TypeOK /\ LiveClaimIsManned /\ [Next]_vars => LiveClaimIsManned' BY MannedStep
<1> QED BY <1>1, <1>2, TypeCorrect, PTL DEF Spec

-----------------------------------------------------------------------------
(***************************************************************************)
(* Forced recovery takes claims of replaced daemons only.  A daemon        *)
(* registers once, so the previous owner a process read at registration    *)
(* can never become the owner again.                                       *)
(***************************************************************************)
EpochsAdvance ==
  /\ ownerRecord.owner # NoDaemon => daemon[ownerRecord.owner] # "down"
  /\ \A d \in Daemons :
       /\ previous[d] # NoDaemon => daemon[previous[d]] # "down"
       /\ daemon[d] # "down" => previous[d] # ownerRecord.owner

LEMMA EpochStep ==
  ASSUME TypeOK, EpochsAdvance, [Next]_vars
  PROVE  EpochsAdvance'
<1> USE DaemonsAssumption DEF EpochsAdvance, TypeOK
<1>1. ASSUME UNCHANGED <<ownerRecord, daemon, previous>> PROVE EpochsAdvance'
  BY <1>1
<1>2. ASSUME NEW d \in Daemons, NEW state \in DaemonState \ {"down"}, daemon[d] # "down",
             daemon' = [daemon EXCEPT ![d] = state],
             ownerRecord'.owner = ownerRecord.owner, UNCHANGED previous
      PROVE  EpochsAdvance'
  BY <1>2
<1>3. ASSUME NEW d \in Daemons, Register(d) PROVE EpochsAdvance'
  BY <1>3 DEF Register
<1>4. ASSUME NEW d \in Daemons, StartUp(d) \/ Stop(d) \/ CrashDaemon(d) PROVE EpochsAdvance'
  BY <1>2, <1>4 DEF StartUp, Stop, CrashDaemon, DaemonState, dbVars
<1>5. ASSUME NEW d \in Daemons, Heartbeat(d) \/ Exit(d) PROVE EpochsAdvance'
  <2>1. ownerRecord'.owner = ownerRecord.owner
    BY <1>5 DEF Heartbeat, Exit
  <2> QED BY <1>2, <1>5, <2>1 DEF Heartbeat, Exit, DaemonState
<1>6. ASSUME NEW d \in Daemons, PeriodicReset(d) PROVE EpochsAdvance'
  BY <1>1, <1>6 DEF PeriodicReset, daemonVars
<1>7. CASE Tick
  BY <1>7 DEF Tick, daemonVars
<1>8. ASSUME NEW w \in Workers, Work(w) \/ Renew(w) \/ Dispatch(w) \/ AbortRequest(w) \/ CrashCli(w)
      PROVE  EpochsAdvance'
  BY <1>1, <1>8 DEF Work, Claim, ClaimRefused, CliQueue, Enter, Begin, Persist, FinishStage, FailStage,
     CloseStage, FinishCycle, FailCycle, LoseClaim, EndBorrow, Release, Renew, Dispatch, Select,
     AbortRequest, CrashCli, dbVars, rowVars, daemonVars
<1>9. ASSUME NEW w \in Workers, NEW r \in Recordings, Request(w, r) \/ Borrow(w, r)
      PROVE  EpochsAdvance'
  BY <1>1, <1>9 DEF Request, Borrow, dbVars, daemonVars
<1>10. CASE UNCHANGED vars
  BY <1>1, <1>10 DEF vars, dbVars, daemonVars
<1> QED BY <1>3, <1>4, <1>5, <1>6, <1>7, <1>8, <1>9, <1>10 DEF Next

NotStolen(r) ==
  ClaimActive(r) /\ token'[r] # token[r] =>
    \/ pc'[token[r]] # pc[token[r]]
    \/ /\ OwnerOf[token[r]] # NoDaemon
       /\ ownerRecord.owner # OwnerOf[token[r]]

LEMMA NotStolenStep ==
  ASSUME TypeOK, EpochsAdvance, [Next]_vars, NEW r \in Recordings
  PROVE  NotStolen(r)
<1> USE WorkersAssumption DEF NotStolen, ClaimActive, TypeOK
<1>1. CASE token'[r] = token[r]
  BY <1>1
<1>2. ASSUME NEW w \in Workers, Claim(w) PROVE NotStolen(r)
  BY <1>2 DEF Claim, Claimable
<1>3. ASSUME NEW w \in Workers, NEW q \in Recordings, Borrow(w, q) PROVE NotStolen(r)
  BY <1>3 DEF Borrow, Claimable
<1>4. ASSUME NEW w \in Workers, Release(w) PROVE NotStolen(r)
  BY <1>4 DEF Release, Goto, At
<1>5. ASSUME NEW w \in Workers, AbortRequest(w) PROVE NotStolen(r)
  BY <1>5 DEF AbortRequest, OwnsClaim, Goto, At
<1>6. ASSUME NEW d \in Daemons, StartUp(d) PROVE NotStolen(r)
  BY <1>6, DaemonsAssumption DEF StartUp, ResetInflight, Interrupted, Reclaimable, EpochsAdvance
<1>7. ASSUME NEW d \in Daemons, PeriodicReset(d) PROVE NotStolen(r)
  BY <1>7 DEF PeriodicReset, ResetInflight, Interrupted, Reclaimable
<1>8. ASSUME NEW w \in Workers, Work(w) \/ Renew(w) \/ Dispatch(w) \/ CrashCli(w)
      PROVE  NotStolen(r)
  <2>1. CASE Claim(w) \/ Release(w)
    BY <1>2, <1>4, <2>1
  <2>2. CASE ~(Claim(w) \/ Release(w))
    BY <1>1, <1>8, <2>2 DEF Work, ClaimRefused, CliQueue, Enter, Begin, Persist, FinishStage, FailStage,
       CloseStage, FinishCycle, FailCycle, LoseClaim, EndBorrow, Renew, Dispatch, Select, CrashCli,
       dbVars
  <2> QED BY <2>1, <2>2
<1>9. ASSUME NEW w \in Workers, NEW q \in Recordings, Request(w, q) PROVE NotStolen(r)
  BY <1>1, <1>9 DEF Request, dbVars
<1>10. ASSUME NEW d \in Daemons, Register(d) \/ Heartbeat(d) \/ Stop(d) \/ Exit(d) \/ CrashDaemon(d)
       PROVE  NotStolen(r)
  BY <1>1, <1>10 DEF Register, Heartbeat, Stop, Exit, CrashDaemon, dbVars
<1>11. CASE Tick \/ UNCHANGED vars
  BY <1>1, <1>11 DEF Tick, vars, dbVars
<1> QED BY <1>3, <1>5, <1>6, <1>7, <1>8, <1>9, <1>10, <1>11 DEF Next

\* A live claim leaves its holder by the holder's own step, or because the holder's daemon
\* has been replaced in the ownership record.
THEOREM ClaimsAreNotStolen == Spec => LiveClaimIsNotStolen
<1>1. Init => EpochsAdvance
  BY DEF Init, EpochsAdvance
<1>2. TypeOK /\ EpochsAdvance /\ [Next]_vars => EpochsAdvance'
  BY EpochStep
<1>3. TypeOK /\ EpochsAdvance /\ [Next]_vars
        => [\A r \in Recordings : ClaimActive(r) /\ token'[r] # token[r] =>
             \/ pc'[token[r]] # pc[token[r]]
             \/ /\ OwnerOf[token[r]] # NoDaemon
                /\ ownerRecord.owner # OwnerOf[token[r]]]_vars
  BY NotStolenStep DEF NotStolen
<1> QED BY <1>1, <1>2, <1>3, TypeCorrect, PTL DEF Spec, LiveClaimIsNotStolen
=============================================================================
