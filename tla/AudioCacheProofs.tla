-------------------------- MODULE AudioCacheProofs --------------------------
(***************************************************************************)
(* What AudioCache guarantees for every set of threads, wherever they      *)
(* live, for every switch and every bound.                                 *)
(***************************************************************************)
EXTENDS AudioCache, TLAPS

LEMMA SpendTypes ==
  ASSUME spent \in Budgets,
         \/ Spend("requests", MaxRequests) \/ Spend("faults", MaxFaults)
         \/ Spend("crashes", MaxCrashes) \/ UNCHANGED spent
  PROVE  spent' \in Budgets
<1>1. MaxRequests \in Nat /\ MaxFaults \in Nat /\ MaxCrashes \in Nat
  BY BoundsAssumption
<1> QED BY <1>1 DEF Spend, Budgets

LEMMA TakeBackTypes ==
  ASSUME fetch \in [Fetchers -> Jobs], TakeBack
  PROVE  fetch' \in [Fetchers -> Jobs] /\ token' = None /\ old' = FALSE
BY DEF TakeBack, Jobs

\* Every way a thread changes its phase keeps the threads well typed.
LEMMA JobTypes ==
  ASSUME fetch \in [Fetchers -> Jobs], NEW f \in Fetchers,
         \/ \E phase \in Phases : Become(f, phase)
         \/ Stop(f) \/ Return(f) \/ UNCHANGED fetch
         \/ \E F \in SUBSET Fetchers : Die(F)
  PROVE  fetch' \in [Fetchers -> Jobs]
<1>1. Idle \in Jobs
  BY DEF Idle, Jobs, Phases
<1>2. ASSUME NEW phase \in Phases, Become(f, phase) PROVE fetch' \in [Fetchers -> Jobs]
  BY <1>2 DEF Become, Jobs
<1>3. CASE Stop(f)
  BY <1>1, <1>3 DEF Stop
<1>4. ASSUME NEW F \in SUBSET Fetchers, Die(F) PROVE fetch' \in [Fetchers -> Jobs]
  BY <1>1, <1>4 DEF Die
<1>5. CASE Return(f)
  BY <1>2, <1>3, <1>5 DEF Return, Phases
<1>6. CASE UNCHANGED fetch
  BY <1>6
<1> QED BY <1>2, <1>3, <1>4, <1>5, <1>6

LEMMA StepTypes == TypeOK /\ [Next]_vars => TypeOK'
<1> SUFFICES ASSUME TypeOK, [Next]_vars PROVE TypeOK'
  OBVIOUS
<1> USE DEF TypeOK, FileStatus, rowVars
<1>1. ASSUME NEW f \in Fetchers, Import(f) \/ Play(f) \/ Poll(f) PROVE TypeOK'
  <2>1. ASSUME NEW phase \in Phases, NEW mode \in {"poll", "import", "cache"},
               fetch' = [fetch EXCEPT ![f] = [Idle EXCEPT !.at = phase, !.mode = mode]]
        PROVE  fetch' \in [Fetchers -> Jobs]
    <3>1. [Idle EXCEPT !.at = phase, !.mode = mode] \in Jobs
      BY DEF Idle, Jobs
    <3> QED BY <2>1, <3>1
  <2>2. spent' \in Budgets
    BY <1>1, SpendTypes DEF Import, Play, Poll, CountRequest
  <2>3. CASE Import(f)
    <3>1. fetch' \in [Fetchers -> Jobs]
      <4>1. CASE status = "done"
        BY <2>1, <2>3, <4>1 DEF Import, Phases
      <4>2. CASE status # "done"
        BY <2>1, <2>3, <4>2 DEF Import, Phases
      <4> QED BY <4>1, <4>2
    <3> QED BY <3>1, <2>2, <2>3 DEF Import
  <2>4. CASE Play(f)
    <3>1. fetch' \in [Fetchers -> Jobs]
      BY <2>1, <2>4 DEF Play, Phases
    <3> QED BY <3>1, <2>2, <2>4 DEF Play
  <2>5. CASE Poll(f)
    <3>1. fetch' \in [Fetchers -> Jobs]
      BY <2>1, <2>5 DEF Poll, Phases
    <3> QED BY <3>1, <2>2, <2>5 DEF Poll
  <2> QED BY <1>1, <2>3, <2>4, <2>5
<1>2. ASSUME NEW f \in Fetchers, ImportWrites(f) PROVE TypeOK'
  <2>1. fetch' \in [Fetchers -> Jobs]
    BY <1>2, JobTypes DEF ImportWrites, Phases
  <2>2. status' \in FileStatus /\ old' \in BOOLEAN
    <3>1. CASE fetch[f].mode = "cache"
      BY <1>2, <3>1 DEF ImportWrites
    <3>2. CASE fetch[f].mode # "cache"
      BY <1>2, <3>2 DEF ImportWrites
    <3> QED BY <3>1, <3>2
  <2>3. audio' \in BOOLEAN /\ UNCHANGED <<token, disk, doomed, busy, evicting, text, up, spent>>
    BY <1>2 DEF ImportWrites
  <2> QED BY <2>1, <2>2, <2>3
<1>3. ASSUME NEW f \in Fetchers, Look(f) PROVE TypeOK'
  <2>1. fetch' \in [Fetchers -> Jobs]
    <3>1. CASE Stop(f)
      BY <3>1, JobTypes
    <3>2. CASE fetch' = [fetch EXCEPT ![f].at = "claiming", ![f].tried = TRUE]
      BY <3>2, ZenonT(60) DEF Jobs, Phases
    <3> QED BY <1>3, <3>1, <3>2 DEF Look
  <2>2. audio' \in BOOLEAN
    BY <1>3 DEF Look
  <2>3. UNCHANGED <<status, token, old, disk, doomed, busy, evicting, text, up, spent>>
    BY <1>3 DEF Look
  <2> QED BY <2>1, <2>2, <2>3
<1>4. ASSUME NEW f \in Fetchers, Claim(f) PROVE TypeOK'
  <2>1. CASE Claimable(fetch[f].mode)
    <3>1. fetch' = [fetch EXCEPT ![f].at = "fetching", ![f].outdated = FALSE]
          /\ token' = f /\ old' = FALSE /\ status' \in {status, "downloading"}
      BY <1>4, <2>1 DEF Claim
    <3>2. fetch' \in [Fetchers -> Jobs]
      BY <3>1, ZenonT(60) DEF Jobs, Phases
    <3>3. UNCHANGED <<audio, disk, doomed, busy, evicting, text, up, spent>>
      BY <1>4 DEF Claim
    <3> QED BY <3>1, <3>2, <3>3, ZenonT(60)
  <2>2. CASE ~Claimable(fetch[f].mode)
    <3>1. Return(f) /\ UNCHANGED <<status, token, old>>
      BY <1>4, <2>2 DEF Claim
    <3>2. fetch' \in [Fetchers -> Jobs]
      BY <3>1, JobTypes
    <3>3. UNCHANGED <<audio, disk, doomed, busy, evicting, text, up, spent>>
      BY <1>4 DEF Claim
    <3> QED BY <3>1, <3>2, <3>3
  <2> QED BY <2>1, <2>2
<1>5. ASSUME NEW f \in Fetchers, Publish(f) PROVE TypeOK'
  <2>1. fetch' \in [Fetchers -> Jobs]
    BY <1>5, JobTypes DEF Publish
  <2>2. CASE Owns(f)
    <3>1. audio' = TRUE /\ disk' = TRUE /\ token' = None /\ old' = FALSE
          /\ status' \in {status, "downloaded"}
      BY <1>5, <2>2 DEF Publish
    <3> QED BY <1>5, <2>1, <3>1 DEF Publish
  <2>3. CASE ~Owns(f)
    <3>1. UNCHANGED <<status, audio, token, old, disk>>
      BY <1>5, <2>3 DEF Publish
    <3> QED BY <1>5, <2>1, <3>1 DEF Publish
  <2> QED BY <2>2, <2>3
<1>6. ASSUME NEW f \in Fetchers, Fail(f) \/ ImportDies(f) PROVE TypeOK'
  <2>1. fetch' \in [Fetchers -> Jobs] /\ spent' \in Budgets
    BY <1>6, JobTypes, SpendTypes DEF Fail, ImportDies
  <2>2. CASE Fail(f)
    <3>1. UNCHANGED <<audio, disk, doomed, busy, evicting, text, up>>
      BY <2>2 DEF Fail
    <3>2. CASE Owns(f)
      <4>1. token' = None /\ old' = FALSE /\ status' \in {status, "error"}
        BY <2>2, <3>2 DEF Fail
      <4> QED BY <2>1, <3>1, <4>1, ZenonT(60)
    <3>3. CASE ~Owns(f)
      <4>1. UNCHANGED <<status, token, old>>
        BY <2>2, <3>3 DEF Fail
      <4> QED BY <2>1, <3>1, <4>1
    <3> QED BY <3>2, <3>3
  <2>3. CASE ImportDies(f)
    BY <2>1, <2>3 DEF ImportDies
  <2> QED BY <1>6, <2>2, <2>3
<1>7. ASSUME NEW f \in Fetchers, CrashOther(f) PROVE TypeOK'
  <2>1. fetch' \in [Fetchers -> Jobs]
    BY <1>7, JobTypes DEF CrashOther
  <2>2. spent' \in Budgets
    BY <1>7, SpendTypes DEF CrashOther
  <2>3. disk' \in BOOLEAN
    <3>1. CASE TornPublish({f})
      BY <3>1 DEF TornPublish
    <3>2. CASE UNCHANGED disk
      BY <3>2
    <3> QED BY <1>7, <3>1, <3>2 DEF CrashOther
  <2>4. UNCHANGED <<rowVars, doomed, busy, evicting, text, up>>
    BY <1>7 DEF CrashOther
  <2> QED BY <2>1, <2>2, <2>3, <2>4
<1>8. CASE HourPasses
  <2>1. spent' \in Budgets
    BY <1>8, SpendTypes DEF HourPasses
  <2> QED BY <1>8, <2>1 DEF HourPasses
<1>9. CASE Remove \/ DeleteProcessing \/ StartDerived
  <2>1. spent' \in Budgets
    BY <1>9, SpendTypes DEF Remove, DeleteProcessing, StartDerived, CountRequest
  <2>2. CASE Remove
    BY <2>1, <2>2, TakeBackTypes DEF Remove, Forget
  <2>3. CASE DeleteProcessing
    BY <2>1, <2>3 DEF DeleteProcessing
  <2>4. CASE StartDerived
    BY <2>1, <2>4 DEF StartDerived
  <2> QED BY <1>9, <2>2, <2>3, <2>4
<1>10. CASE Evict
  <2>1. CASE Forget
    BY <1>10, <2>1, TakeBackTypes, ZenonT(60) DEF Evict, Forget
  <2>2. CASE UNCHANGED <<audio, token, old, disk, doomed, fetch>>
    BY <1>10, <2>2, ZenonT(60) DEF Evict
  <2> QED BY <1>10, <2>1, <2>2 DEF Evict
<1>11. CASE StartFull \/ EnterFull \/ Finish
  <2>1. spent' \in Budgets
    BY <1>11, SpendTypes DEF StartFull, EnterFull, Finish, CountRequest
  <2>2. CASE StartFull
    BY <2>1, <2>2 DEF StartFull
  <2>3. CASE EnterFull
    BY <2>1, <2>3 DEF EnterFull
  <2>4. CASE Finish
    <3>1. status' \in {"done", "partial", "error"} /\ text' \in {text, TRUE}
      BY <2>4 DEF Finish
    <3> QED BY <2>1, <2>4, <3>1, SwitchesAssumption DEF Finish
  <2> QED BY <1>11, <2>2, <2>3, <2>4
<1>12. CASE Crash
  <2>1. fetch' \in [Fetchers -> Jobs]
    BY <1>12, FetchersAssumption DEF Crash, Die, Idle, Jobs, Phases
  <2>2. spent' \in Budgets
    BY <1>12, SpendTypes DEF Crash
  <2>3. disk' \in BOOLEAN
    <3>1. CASE TornPublish(Daemon)
      BY <3>1 DEF TornPublish
    <3>2. CASE TornCleanUp
      BY <3>2 DEF TornCleanUp
    <3>3. CASE UNCHANGED disk
      BY <3>3
    <3> QED BY <1>12, <3>1, <3>2, <3>3 DEF Crash
  <2> QED BY <1>12, <2>1, <2>2, <2>3 DEF Crash
<1>13. CASE StartUp \/ PeriodicReset \/ RetryError
  <2>1. CASE StartUp
    <3>1. CASE RecoverDownload(Daemon)
      BY <2>1, <3>1, TakeBackTypes DEF StartUp, RecoverDownload
    <3>2. CASE UNCHANGED <<token, old, fetch>>
      BY <2>1, <3>2 DEF StartUp, RecoverDownload
    <3> QED BY <2>1, <3>1, <3>2 DEF StartUp
  <2>2. CASE PeriodicReset
    BY <2>2, TakeBackTypes DEF PeriodicReset, RecoverDownload
  <2>3. CASE RetryError
    BY <2>3, TakeBackTypes, ZenonT(60) DEF RetryError
  <2> QED BY <1>13, <2>1, <2>2, <2>3
<1>14. CASE Unlink
  BY <1>14, ZenonT(60) DEF Unlink
<1>15. CASE UNCHANGED vars
  BY <1>15 DEF vars
<1> QED
  BY <1>1, <1>2, <1>3, <1>4, <1>5, <1>6, <1>7, <1>8, <1>9, <1>10, <1>11, <1>12, <1>13, <1>14,
     <1>15
     DEF Next, Download, Users

LEMMA InitTypes == Init => TypeOK
<1> SUFFICES ASSUME Init PROVE TypeOK
  OBVIOUS
<1>1. spent \in Budgets
  BY BoundsAssumption DEF Init, Budgets
<1>2. fetch \in [Fetchers -> Jobs]
  BY DEF Init, Idle, Jobs, Phases
<1> QED BY <1>1, <1>2 DEF Init, TypeOK, FileStatus

\* Every variable of the audio cache keeps its type.
THEOREM TypeCorrect == Spec => []TypeOK
  BY InitTypes, StepTypes, PTL DEF Spec

-----------------------------------------------------------------------------
(***************************************************************************)
(* The file.  Both invariants are inductive next to the types.             *)
(***************************************************************************)

\* The actions that neither move the file nor touch audio_path.
QuietForFile == UNCHANGED <<audio, disk>> /\ (spent.crashes # 0 => spent'.crashes # 0)

LEMMA QuietSteps ==
  ASSUME TypeOK,
         \/ \E f \in Fetchers : \/ Import(f) \/ Play(f) \/ Poll(f) \/ Claim(f) \/ Fail(f)
                                \/ ImportDies(f)
         \/ HourPasses \/ Unlink \/ DeleteProcessing \/ StartFull \/ EnterFull \/ StartDerived
         \/ Finish \/ StartUp \/ PeriodicReset \/ RetryError \/ UNCHANGED vars
  PROVE  QuietForFile
<1> USE DEF QuietForFile, TypeOK, Budgets, rowVars, Spend, CountRequest
<1>1. ASSUME NEW f \in Fetchers, Import(f) \/ Play(f) \/ Poll(f) PROVE QuietForFile
  BY <1>1 DEF Import, Play, Poll
<1>2. ASSUME NEW f \in Fetchers, Claim(f) \/ Fail(f) \/ ImportDies(f) PROVE QuietForFile
  BY <1>2 DEF Claim, Fail, ImportDies
<1>3. CASE HourPasses \/ Unlink \/ DeleteProcessing
  BY <1>3 DEF HourPasses, Unlink, DeleteProcessing
<1>4. CASE StartFull \/ EnterFull \/ StartDerived \/ Finish
  BY <1>4 DEF StartFull, EnterFull, StartDerived, Finish
<1>5. CASE StartUp \/ PeriodicReset \/ RetryError
  BY <1>5 DEF StartUp, PeriodicReset, RetryError
<1>6. CASE UNCHANGED vars
  BY <1>6 DEF vars
<1> QED BY <1>1, <1>2, <1>3, <1>4, <1>5, <1>6

LEMMA OnDiskStep == TypeOK /\ AudioIsOnDisk /\ [Next]_vars => AudioIsOnDisk'
<1> SUFFICES ASSUME TypeOK, AudioIsOnDisk, [Next]_vars PROVE AudioIsOnDisk'
  OBVIOUS
<1> USE DEF AudioIsOnDisk
<1>1. CASE QuietForFile
  BY <1>1 DEF QuietForFile
<1>2. ASSUME NEW f \in Fetchers, ImportWrites(f) PROVE AudioIsOnDisk'
  BY <1>2 DEF ImportWrites
<1>3. ASSUME NEW f \in Fetchers, Look(f) PROVE AudioIsOnDisk'
  BY <1>3 DEF Look
<1>4. ASSUME NEW f \in Fetchers, Publish(f) PROVE AudioIsOnDisk'
  BY <1>4 DEF Publish, rowVars
<1>5. ASSUME NEW f \in Fetchers, CrashOther(f) PROVE AudioIsOnDisk'
  BY <1>5 DEF CrashOther, Spend, TypeOK, Budgets
<1>6. CASE Crash
  BY <1>6 DEF Crash, Spend, TypeOK, Budgets
<1>7. CASE Remove
  BY <1>7 DEF Remove, Forget
<1>8. CASE Evict
  <2>1. ~audio' \/ UNCHANGED <<audio, disk, spent>>
    BY <1>8 DEF Evict, Forget
  <2> QED BY <2>1
<1> QED
  BY QuietSteps, <1>1, <1>2, <1>3, <1>4, <1>5, <1>6, <1>7, <1>8 DEF Next, Download, Users

\* Short of a crash, what a row calls local is on disk: clean-up and downloads
\* never take each other's file.
THEOREM AudioStaysOnDisk == Spec => []AudioIsOnDisk
<1>1. Init => AudioIsOnDisk
  BY DEF Init, AudioIsOnDisk
<1> QED BY <1>1, OnDiskStep, TypeCorrect, PTL DEF Spec

LEMMA KeepsAudioStep == TypeOK /\ FullCycleKeepsAudio /\ [Next]_vars => FullCycleKeepsAudio'
<1> SUFFICES ASSUME TypeOK, FullCycleKeepsAudio, [Next]_vars PROVE FullCycleKeepsAudio'
  OBVIOUS
<1> USE DEF FullCycleKeepsAudio, Playable
<1>1. ASSUME NEW f \in Fetchers, Import(f) \/ Play(f) \/ Poll(f) PROVE FullCycleKeepsAudio'
  BY <1>1 DEF Import, Play, Poll, rowVars
<1>2. ASSUME NEW f \in Fetchers, Claim(f) \/ Fail(f) \/ ImportDies(f)
      PROVE FullCycleKeepsAudio'
  BY <1>2 DEF Claim, Fail, ImportDies, rowVars
<1>3. ASSUME NEW f \in Fetchers, ImportWrites(f) \/ Look(f) PROVE FullCycleKeepsAudio'
  BY <1>3 DEF ImportWrites, Look
<1>4. ASSUME NEW f \in Fetchers, Publish(f) PROVE FullCycleKeepsAudio'
  BY <1>4 DEF Publish, rowVars
<1>5. ASSUME NEW f \in Fetchers, CrashOther(f) PROVE FullCycleKeepsAudio'
  BY <1>5 DEF CrashOther, TornPublish, rowVars
<1>6. CASE Crash
  BY <1>6 DEF Crash, TornPublish, TornCleanUp, InUse, Processing, rowVars
<1>7. CASE Remove \/ Evict
  BY <1>7 DEF Remove, Evict, Forget, InUse, Processing
<1>8. CASE HourPasses \/ Unlink \/ DeleteProcessing
  BY <1>8 DEF HourPasses, Unlink, DeleteProcessing, rowVars
<1>9. CASE StartFull \/ EnterFull \/ StartDerived \/ Finish
  BY <1>9 DEF StartFull, EnterFull, StartDerived, Finish
<1>10. CASE StartUp \/ PeriodicReset \/ RetryError
  BY <1>10 DEF StartUp, PeriodicReset, RetryError
<1>11. CASE UNCHANGED vars
  BY <1>11 DEF vars, rowVars
<1> QED
  BY <1>1, <1>2, <1>3, <1>4, <1>5, <1>6, <1>7, <1>8, <1>9, <1>10, <1>11
     DEF Next, Download, Users

\* The file a full cycle reads stays, crashes included.
THEOREM CycleKeepsAudio == Spec => []FullCycleKeepsAudio
<1>1. Init => FullCycleKeepsAudio
  BY DEF Init, FullCycleKeepsAudio
<1> QED BY <1>1, KeepsAudioStep, TypeCorrect, PTL DEF Spec

-----------------------------------------------------------------------------
(***************************************************************************)
(* Late downloads.  A download that was taken back never owns the row      *)
(* again: its thread claims anew first.                                    *)
(***************************************************************************)

Outdated(f) == fetch[f].at = "fetching" /\ fetch[f].outdated

OutdatedOwnsNothing == \A f \in Fetchers : Outdated(f) => token # f

LEMMA OutdatedStep == TypeOK /\ OutdatedOwnsNothing /\ [Next]_vars => OutdatedOwnsNothing'
<1> SUFFICES ASSUME TypeOK, OutdatedOwnsNothing, [Next]_vars PROVE OutdatedOwnsNothing'
  OBVIOUS
<1>0. fetch \in [Fetchers -> Jobs] /\ None \notin Fetchers
  BY FetchersAssumption DEF TypeOK
<1> USE DEF OutdatedOwnsNothing, Outdated
<1>1. ASSUME NEW g \in Fetchers, token' \in {token, None},
             Become(g, "claiming") \/ Become(g, "looking") \/ Stop(g) \/ Return(g)
      PROVE  OutdatedOwnsNothing'
  BY <1>0, <1>1 DEF Become, Stop, Return, Idle, Jobs
<1>2. CASE TakeBack
  BY <1>0, <1>2 DEF TakeBack
<1>3. CASE UNCHANGED <<token, fetch>>
  BY <1>3
<1>4. ASSUME NEW F \in SUBSET Fetchers, Die(F), token' = token PROVE OutdatedOwnsNothing'
  BY <1>0, <1>4 DEF Die, Idle
<1>5. ASSUME NEW g \in Fetchers, Import(g) \/ Play(g) \/ Poll(g) PROVE OutdatedOwnsNothing'
  BY <1>0, <1>5 DEF Import, Play, Poll, Idle, rowVars
<1>6. ASSUME NEW g \in Fetchers, ImportWrites(g) \/ ImportDies(g) PROVE OutdatedOwnsNothing'
  BY <1>1, <1>6 DEF ImportWrites, ImportDies, rowVars
<1>7. ASSUME NEW g \in Fetchers, Look(g) PROVE OutdatedOwnsNothing'
  BY <1>0, <1>7 DEF Look, Stop, Idle, Jobs
<1>8. ASSUME NEW g \in Fetchers, Claim(g) PROVE OutdatedOwnsNothing'
  <2>1. CASE Return(g) /\ UNCHANGED token
    BY <1>1, <2>1
  <2>2. CASE token' = g /\ fetch' = [fetch EXCEPT ![g].at = "fetching", ![g].outdated = FALSE]
    BY <1>0, <2>2 DEF Jobs
  <2> QED BY <1>8, <2>1, <2>2 DEF Claim
<1>9. ASSUME NEW g \in Fetchers, Publish(g) \/ Fail(g) PROVE OutdatedOwnsNothing'
  BY <1>1, <1>9 DEF Publish, Fail, rowVars
<1>10. ASSUME NEW g \in Fetchers, CrashOther(g) PROVE OutdatedOwnsNothing'
  BY <1>4, <1>10 DEF CrashOther, rowVars
<1>11. CASE Crash
  BY <1>4, <1>11, FetchersAssumption DEF Crash, rowVars
<1>12. CASE Remove \/ Evict
  BY <1>2, <1>3, <1>12 DEF Remove, Evict, Forget
<1>13. CASE HourPasses \/ Unlink \/ DeleteProcessing
  BY <1>3, <1>13 DEF HourPasses, Unlink, DeleteProcessing, rowVars
<1>14. CASE StartFull \/ EnterFull \/ StartDerived \/ Finish
  BY <1>3, <1>14 DEF StartFull, EnterFull, StartDerived, Finish
<1>15. CASE StartUp \/ PeriodicReset \/ RetryError
  BY <1>2, <1>3, <1>15 DEF StartUp, PeriodicReset, RetryError, RecoverDownload
<1>16. CASE UNCHANGED vars
  BY <1>3, <1>16 DEF vars, rowVars
<1> QED
  BY <1>5, <1>6, <1>7, <1>8, <1>9, <1>10, <1>11, <1>12, <1>13, <1>14, <1>15, <1>16
     DEF Next, Download, Users

\* Who stops fetching published, failed or died; the first two ask for the claim.
LEMMA LateStep ==
  ASSUME TypeOK, OutdatedOwnsNothing, [Next]_vars, NEW f \in Fetchers,
         Outdated(f), fetch'[f].at # "fetching"
  PROVE  UNCHANGED <<status, audio, token>>
<1>0. fetch \in [Fetchers -> Jobs] /\ ~Owns(f)
  BY DEF TypeOK, OutdatedOwnsNothing, Owns
<1> USE DEF Outdated
<1>1. CASE UNCHANGED fetch
  BY <1>1
<1>2. CASE TakeBack
  BY <1>0, <1>2 DEF TakeBack, Jobs
<1>3. ASSUME NEW g \in Fetchers, g # f,
             \/ Become(g, "claiming") \/ Become(g, "looking") \/ Stop(g) \/ Return(g)
      PROVE  FALSE
  BY <1>0, <1>3 DEF Become, Stop, Return
<1>4. ASSUME NEW g \in Fetchers, Import(g) \/ Play(g) \/ Poll(g) PROVE FALSE
  BY <1>0, <1>4 DEF Import, Play, Poll, At
<1>5. ASSUME NEW g \in Fetchers, ImportWrites(g) \/ ImportDies(g) PROVE FALSE
  BY <1>0, <1>3, <1>5 DEF ImportWrites, ImportDies, At
<1>6. ASSUME NEW g \in Fetchers, Look(g) PROVE FALSE
  BY <1>0, <1>6 DEF Look, At, Stop
<1>7. ASSUME NEW g \in Fetchers, Claim(g) PROVE FALSE
  <2>1. g # f
    BY <1>7 DEF Claim, At
  <2>2. CASE Return(g)
    BY <1>3, <2>1, <2>2
  <2>3. CASE fetch' = [fetch EXCEPT ![g].at = "fetching", ![g].outdated = FALSE]
    BY <1>0, <2>1, <2>3
  <2> QED BY <1>7, <2>2, <2>3 DEF Claim
<1>8. ASSUME NEW g \in Fetchers, Publish(g) \/ Fail(g)
      PROVE  UNCHANGED <<status, audio, token>>
  <2>1. CASE g = f
    BY <1>0, <1>8, <2>1 DEF Publish, Fail, rowVars
  <2>2. CASE g # f
    BY <1>3, <1>8, <2>2 DEF Publish, Fail
  <2> QED BY <2>1, <2>2
<1>9. ASSUME NEW g \in Fetchers, CrashOther(g) PROVE UNCHANGED <<status, audio, token>>
  BY <1>9 DEF CrashOther, rowVars
<1>10. CASE Crash
  BY <1>10 DEF Crash, rowVars
<1>11. CASE Remove \/ Evict
  BY <1>1, <1>2, <1>11 DEF Remove, Evict, Forget
<1>12. CASE HourPasses \/ Unlink \/ DeleteProcessing
  BY <1>1, <1>12 DEF HourPasses, Unlink, DeleteProcessing
<1>13. CASE StartFull \/ EnterFull \/ StartDerived \/ Finish
  BY <1>1, <1>13 DEF StartFull, EnterFull, StartDerived, Finish
<1>14. CASE StartUp \/ PeriodicReset \/ RetryError
  BY <1>1, <1>2, <1>14 DEF StartUp, PeriodicReset, RetryError, RecoverDownload
<1>15. CASE UNCHANGED vars
  BY <1>15 DEF vars, rowVars
<1> QED
  BY <1>4, <1>5, <1>6, <1>7, <1>8, <1>9, <1>10, <1>11, <1>12, <1>13, <1>14, <1>15
     DEF Next, Download, Users

\* A download whose claim was taken back ends without a trace in the row.
THEOREM LateDownloads == Spec => LateDownloadIsMute
<1>1. Init => OutdatedOwnsNothing
  BY DEF Init, Idle, OutdatedOwnsNothing, Outdated
<1>2. TypeOK /\ OutdatedOwnsNothing /\ [Next]_vars
        => [\A f \in Fetchers :
              fetch[f].at = "fetching" /\ fetch[f].outdated /\ fetch'[f].at # "fetching"
                => UNCHANGED <<status, audio, token>>]_vars
  BY LateStep DEF Outdated
<1> QED BY <1>1, <1>2, OutdatedStep, TypeCorrect, PTL DEF Spec, LateDownloadIsMute

=============================================================================
