-------------------------- MODULE KnowledgeProofs --------------------------
(***************************************************************************)
(* What KnowledgeIndex and AskThread guarantee for every set of notes,     *)
(* threads and embedding spaces, for every list of profiles and every      *)
(* bound.                                                                  *)
(***************************************************************************)
EXTENDS AskThread, FiniteSetTheorems, TLAPS

LEMMA NullTypes ==
  /\ NoDoc \in Documents /\ NoChunks \in ChunkRows /\ NoAttempt \in Attempts
  /\ Idle \in Jobs /\ NoBill \in Bills /\ NoThread \in Threads
  /\ Quit \in Questions
<1>1. 1 \in DOMAIN Profiles /\ 1 \in DOMAIN Profiles[1]
  BY ProfilesAssumption
<1>2. Idle \in Jobs
  BY <1>1 DEF Idle, Jobs
<1>3. NoAttempt \in Attempts
  BY DEF NoAttempt, NoRows, Attempts
<1>4. Quit \in Questions
  BY <1>1 DEF Quit, Questions
<1> QED BY <1>2, <1>3, <1>4
        DEF NoDoc, NoChunks, NoBill, NoThread, Documents, ChunkRows, Bills, Threads

-----------------------------------------------------------------------------
(***************************************************************************)
(* Types.                                                                  *)
(***************************************************************************)

\* The larger of two costs is a cost.
LEMMA MaxType == ASSUME NEW i \in Nat, NEW j \in Nat PROVE Max({i, j}) \in Nat
<1>1. \E x \in {i, j} : \A y \in {i, j} : x >= y
  OBVIOUS
<1> QED BY <1>1 DEF Max

LEMMA RowCount ==
  ASSUME NEW R \in SUBSET Spaces PROVE Cardinality(R) \in Nat
BY SpacesAssumption, FS_Subset, FS_CardinalityType

\* A counter that is used stays a counter.
LEMMA UsedTypes ==
  ASSUME TypeOK,
         \/ Use("requests", MaxRequests) \/ Use("faults", MaxFaults)
         \/ Use("crashes", MaxCrashes) \/ UNCHANGED used
  PROVE  used' \in [requests : Nat, faults : Nat, crashes : Nat]
BY DEF Use, TypeOK

\* The first candidate of a profile is a space, and so is every other.
LEMMA CandidateTypes ==
  ASSUME NEW p \in DOMAIN Profiles
  PROVE  /\ Candidates(p) \in Seq(Spaces) /\ 1 \in DOMAIN Candidates(p)
         /\ \A i \in DOMAIN Candidates(p) : Candidates(p)[i] \in Allowed(p) \cap Spaces
BY ProfilesAssumption DEF Candidates, Allowed

LEMMA CandidateType ==
  ASSUME TypeOK, NEW w \in Indexers
  PROVE  Candidate(w) \in Allowed(indexer[w].plan) /\ Candidate(w) \in Spaces
<1>1. indexer[w].plan \in DOMAIN Profiles /\ indexer[w].turn \in DOMAIN Profiles[indexer[w].plan]
  BY DEF TypeOK, Jobs
<1> QED BY <1>1, CandidateTypes DEF Candidate, Plan, Candidates

\* Settling or recovering an attempt leaves an attempt.
LEMMA SettledTypes ==
  ASSUME TypeOK, NEW t \in Tokens
  PROVE  Settled(t) \in Attempts /\ SettleIfRunning(t) \in Attempts /\ Recovered(t) \in Attempts
<1>1. attempt[t] \in Attempts /\ attempt[t].cost \in Nat
  BY DEF TypeOK, Attempts
<1>2. Cardinality(Rows(t)) \in Nat /\ Cardinality(Taken(t)) \in Nat
  BY RowCount DEF Rows, Taken
<1>3. /\ Max({attempt[t].cost, Cardinality(Rows(t))}) \in Nat
      /\ Max({attempt[t].cost, Cardinality(Taken(t))}) \in Nat
  BY <1>1, <1>2, MaxType
<1>4. Settled(t) \in Attempts
  BY <1>1, <1>3 DEF Settled, NoRows, Attempts
<1>5. Recovered(t) \in Attempts
  BY <1>1, <1>3 DEF Recovered, Attempts
<1> QED BY <1>1, <1>4, <1>5 DEF SettleIfRunning

LEMMA ResetType ==
  ASSUME NEW gen \in Nat, NEW version \in Nat
  PROVE  [NoDoc EXCEPT !.status = "pending", !.gen = gen, !.version = version] \in Documents
BY DEF NoDoc, Documents

\* A reset and a deleted document are documents.
LEMMA FreshTypes ==
  ASSUME TypeOK, NEW n \in Notes, NEW version \in Nat
  PROVE  Fresh(n, version) \in Documents /\ Deleted(n) \in Documents
<1>1. doc[n].gen \in Nat
  BY DEF TypeOK, Documents
<1>2. Fresh(n, version) \in Documents
  <2>1. doc[n].gen + 1 \in Nat
    BY <1>1
  <2> QED BY <2>1, ResetType DEF Fresh
<1>3. Deleted(n) \in Documents
  BY <1>1 DEF Deleted, Documents, NoDoc
<1> QED BY <1>2, <1>3

LEMMA SyncTypes ==
  ASSUME TypeOK, NEW S \in SUBSET Notes, NEW nts \in [Notes -> NoteRows],
         NEW p \in DOMAIN Profiles, Sync(S, nts, p)
  PROVE  /\ note' \in [Notes -> NoteRows] /\ profile' \in DOMAIN Profiles
         /\ doc' \in [Notes -> Documents] /\ chunks' \in [Notes -> ChunkRows]
<1>1. ASSUME NEW n \in Notes PROVE Synced(n, nts[n], p) \in Documents
  <2>1. nts[n].version \in Nat /\ doc[n] \in Documents
    BY DEF TypeOK, NoteRows
  <2> QED BY <2>1, FreshTypes DEF Synced
<1>2. doc' \in [Notes -> Documents]
  BY <1>1 DEF Sync, TypeOK
<1>3. chunks' \in [Notes -> ChunkRows]
  BY NullTypes DEF Sync, TypeOK
<1> QED BY <1>2, <1>3 DEF Sync

\* The notes after an edit are notes.
LEMMA NoteTypes ==
  ASSUME TypeOK, NEW n \in Notes, NEW status \in {"none", "live", "stale", "rerun"}
  PROVE  /\ Revised(n) \in [Notes -> NoteRows] /\ note \in [Notes -> NoteRows]
         /\ [note EXCEPT ![n].status = status] \in [Notes -> NoteRows]
<1>1. note[n].version + 1 \in Nat
  BY DEF TypeOK, NoteRows
<1>2. ASSUME NEW version \in Nat
      PROVE  [note EXCEPT ![n].version = version, ![n].status = "live"] \in [Notes -> NoteRows]
  BY DEF TypeOK, NoteRows
<1>3. Revised(n) \in [Notes -> NoteRows]
  BY <1>1, <1>2 DEF Revised
<1> QED BY <1>3 DEF TypeOK, NoteRows

\* Every action that lets documents follow notes or profile.
LEMMA SyncStepTypes ==
  ASSUME TypeOK, NEW S \in SUBSET Notes, NEW nts \in [Notes -> NoteRows],
         NEW p \in DOMAIN Profiles, Sync(S, nts, p),
         UNCHANGED <<askRows, kept, up, history, used>>
  PROVE  TypeOK'
<1>1. UNCHANGED <<attempt, indexer>>
  BY DEF Sync
<1> QED BY <1>1, SyncTypes DEF TypeOK, askRows, history

LEMMA NoteStepTypes ==
  ASSUME TypeOK, NEW n \in Notes,
         \/ CreateNote(n) \/ EditNote(n) \/ DeleteNote(n) \/ RerunSummary(n)
         \/ FailSummary(n) \/ PersistSummary(n) \/ \E marked \in BOOLEAN : Invalidate(n, marked)
         \/ ChangeProfile \/ Reconcile
  PROVE  TypeOK'
<1>1. CASE CreateNote(n) \/ EditNote(n) \/ PersistSummary(n)
  <2>1. Sync({n}, Revised(n), profile) /\ UNCHANGED <<askRows, kept, up, history, used>>
    BY <1>1 DEF CreateNote, EditNote, PersistSummary
  <2> QED BY <2>1, NoteTypes, SyncStepTypes DEF TypeOK
<1>2. CASE DeleteNote(n)
  <2>1. /\ Sync({n}, [note EXCEPT ![n].status = "none"], profile)
        /\ UNCHANGED <<askRows, kept, up, history, used>>
    BY <1>2 DEF DeleteNote
  <2> QED BY <2>1, NoteTypes, SyncStepTypes DEF TypeOK
<1>3. CASE ChangeProfile
  <2>1. /\ profile + 1 \in DOMAIN Profiles /\ Sync(Notes, note, profile + 1)
        /\ UNCHANGED <<askRows, kept, up, history, used>>
    BY <1>3 DEF ChangeProfile
  <2> QED BY <2>1, NoteTypes, SyncStepTypes
<1>4. CASE Reconcile
  <2>1. Sync(Notes, note, profile) /\ UNCHANGED <<askRows, kept, up, history, used>>
    BY <1>4 DEF Reconcile
  <2> QED BY <2>1, NoteTypes, SyncStepTypes DEF TypeOK
<1>5. CASE RerunSummary(n)
  <2>1. note' \in [Notes -> NoteRows]
    BY <1>5, NoteTypes DEF RerunSummary
  <2> QED BY <1>5, <2>1 DEF RerunSummary, TypeOK, askRows, history
<1>6. CASE FailSummary(n)
  <2>1. note' \in [Notes -> NoteRows]
    BY <1>6, NoteTypes DEF FailSummary
  <2>2. used' \in [requests : Nat, faults : Nat, crashes : Nat]
    BY <1>6, UsedTypes DEF FailSummary, Fault
  <2> QED BY <1>6, <2>1, <2>2 DEF FailSummary, TypeOK, askRows, history
<1>7. ASSUME NEW marked \in BOOLEAN, Invalidate(n, marked) PROVE TypeOK'
  <2>1. note' \in [Notes -> NoteRows]
    BY <1>7 DEF Invalidate, TypeOK, NoteRows
  <2>2. used' \in [requests : Nat, faults : Nat, crashes : Nat]
    BY <1>7, UsedTypes DEF Invalidate
  <2>3. Deleted(n) \in Documents
    BY FreshTypes DEF TypeOK, Documents
  <2>4. doc' \in [Notes -> Documents]
    BY <1>7, <2>3 DEF Invalidate, TypeOK
  <2>5. chunks' \in [Notes -> ChunkRows]
    BY <1>7, NullTypes DEF Invalidate, TypeOK
  <2> QED BY <1>7, <2>1, <2>2, <2>4, <2>5 DEF Invalidate, TypeOK, askRows, history
<1> QED BY <1>1, <1>2, <1>3, <1>4, <1>5, <1>6, <1>7

\* A thread that goes on to its next phase or candidate, or comes to rest.
LEMMA JobTypes ==
  ASSUME TypeOK, NEW w \in Indexers,
         \/ \E phase \in {"embed", "calling", "publish", "failing"} : Goes(w, phase)
         \/ TriesNext(w) \/ Rests(w)
  PROVE  indexer' \in [Indexers -> Jobs]
<1> DEFINE j == indexer[w]
<1>1. /\ indexer \in [Indexers -> Jobs] /\ j \in Jobs /\ j.turn \in Nat
      /\ j.plan \in DOMAIN Profiles /\ j.turn \in DOMAIN Profiles[j.plan]
  BY DEF TypeOK, Jobs
<1>2. ASSUME NEW phase \in {"embed", "calling", "publish", "failing"}, Goes(w, phase)
      PROVE  indexer' \in [Indexers -> Jobs]
  <2>1. [j EXCEPT !.at = phase] \in Jobs
    BY <1>1 DEF Jobs
  <2> QED BY <1>1, <1>2, <2>1 DEF Goes
<1>3. CASE TriesNext(w)
  <2>1. CASE j.turn < Len(Plan(w))
    <3> DEFINE turn == j.turn + 1
    <3>1. turn \in Nat /\ turn \in DOMAIN Profiles[j.plan]
      BY <1>1, <2>1, CandidateTypes DEF Plan, Candidates
    <3>2. ASSUME NEW i \in Nat, i \in DOMAIN Profiles[j.plan]
          PROVE  [j EXCEPT !.at = "embed", !.turn = i] \in Jobs
      BY <1>1, <3>2 DEF Jobs
    <3>3. indexer' = [indexer EXCEPT ![w] = [j EXCEPT !.at = "embed", !.turn = turn]]
      BY <1>1, <1>3, <2>1 DEF TriesNext
    <3> HIDE DEF turn
    <3> QED BY <1>1, <3>1, <3>2, <3>3
  <2>2. CASE ~(j.turn < Len(Plan(w)))
    BY <1>2, <1>3, <2>2 DEF TriesNext
  <2> QED BY <2>1, <2>2
<1>4. CASE Rests(w)
  BY <1>1, <1>4, NullTypes DEF Rests
<1> QED BY <1>2, <1>3, <1>4

LEMMA ReturnedTypes ==
  ASSUME TypeOK, NEW w \in Indexers
  PROVE  Returned(w) \in [Notes -> Documents]
<1>1. ASSUME NEW n \in Notes
      PROVE  [doc[n] EXCEPT !.status = "pending", !.token = None, !.live = FALSE] \in Documents
  <2>1. doc[n] \in Documents
    BY DEF TypeOK
  <2> QED BY <2>1 DEF Documents
<1> QED BY <1>1 DEF Returned, TypeOK

LEMMA IndexTypes ==
  ASSUME TypeOK, NEW w \in Indexers, Index(w)
  PROVE  TypeOK'
<1>1. /\ [attempt EXCEPT ![Mine(w)] = SettleIfRunning(Mine(w))] \in [Tokens -> Attempts]
      /\ [attempt EXCEPT ![Mine(w)] = Settled(Mine(w))] \in [Tokens -> Attempts]
  BY SettledTypes DEF TypeOK
<1>2. CASE DispatchSuperseded(w)
  <2>1. indexer' \in [Indexers -> Jobs] /\ doc' \in [Notes -> Documents]
    BY <1>2, JobTypes, ReturnedTypes DEF DispatchSuperseded
  <2> QED BY <1>1, <1>2, <2>1 DEF DispatchSuperseded, TypeOK, askRows, history
<1>3. CASE DispatchRefused(w)
  <2>1. indexer' \in [Indexers -> Jobs]
    BY <1>3, JobTypes DEF DispatchRefused
  <2> QED BY <1>3, <2>1 DEF DispatchRefused, TypeOK, askRows, history
<1>4. CASE Dispatch(w)
  <2>1. attempt' \in [Tokens -> Attempts]
    <3>1. ASSUME NEW d \in Attempts, NEW s
          PROVE  [d EXCEPT !.rows[s] = "live"] \in Attempts
      BY DEF Attempts
    <3> QED BY <1>4, <3>1 DEF Dispatch, TypeOK
  <2>2. indexer' \in [Indexers -> Jobs]
    <3>1. ASSUME NEW j \in Jobs PROVE [j EXCEPT !.at = "calling", !.overdue = FALSE] \in Jobs
      BY DEF Jobs
    <3>2. indexer' = [indexer EXCEPT ![w] = [@ EXCEPT !.at = "calling", !.overdue = FALSE]]
      BY <1>4 DEF Dispatch
    <3> QED BY <3>1, <3>2 DEF TypeOK
  <2> QED BY <1>4, <2>1, <2>2 DEF Dispatch, TypeOK, askRows
<1>5. CASE CallReturns(w)
  <2>1. indexer' \in [Indexers -> Jobs]
    BY <1>5, JobTypes DEF CallReturns
  <2> QED BY <1>5, <2>1 DEF CallReturns, TypeOK, askRows, history
<1>6. CASE CallFails(w)
  <2>1. indexer' \in [Indexers -> Jobs]
    BY <1>6, JobTypes DEF CallFails
  <2>2. used' \in [requests : Nat, faults : Nat, crashes : Nat]
    BY <1>6, UsedTypes DEF CallFails, Fault
  <2> QED BY <1>6, <2>1, <2>2 DEF CallFails, TypeOK, askRows, history
<1>7. CASE Publish(w)
  <2>1. indexer' \in [Indexers -> Jobs] /\ Candidate(w) \in Spaces /\ indexer[w].version \in Nat
    BY <1>7, JobTypes, CandidateType DEF Publish, TypeOK, Jobs
  <2>2. doc' \in [Notes -> Documents] /\ chunks' \in [Notes -> ChunkRows]
    <3>1. CASE Holds(w)
      <4>1. doc' \in [Notes -> Documents]
        <5>1. doc' = [doc EXCEPT ![NoteOf(w)] =
                        [@ EXCEPT !.status = "completed", !.token = None, !.live = FALSE,
                                  !.wait = FALSE, !.space = Candidate(w)]]
          BY <1>7, <3>1 DEF Publish
        <5>2. \A d \in Documents :
                [d EXCEPT !.status = "completed", !.token = None, !.live = FALSE, !.wait = FALSE,
                          !.space = Candidate(w)] \in Documents
          BY <2>1 DEF Documents
        <5> QED BY <5>1, <5>2 DEF TypeOK
      <4>2. chunks' \in [Notes -> ChunkRows]
        BY <1>7, <2>1, <3>1 DEF Publish, TypeOK, ChunkRows
      <4> QED BY <4>1, <4>2
    <3>2. CASE ~Holds(w)
      BY <1>7, <3>2, ReturnedTypes DEF Publish, TypeOK
    <3> QED BY <3>1, <3>2
  <2> QED BY <1>1, <1>7, <2>1, <2>2 DEF Publish, TypeOK, askRows, history
<1>8. CASE FailDocument(w)
  <2>1. indexer' \in [Indexers -> Jobs]
    BY <1>8, JobTypes DEF FailDocument
  <2>2. doc' \in [Notes -> Documents]
    BY <1>8 DEF FailDocument, TypeOK, Documents
  <2> QED BY <1>1, <1>8, <2>1, <2>2 DEF FailDocument, TypeOK, askRows, history
<1> QED BY <1>2, <1>3, <1>4, <1>5, <1>6, <1>7, <1>8 DEF Index

LEMMA ClaimTypes ==
  ASSUME TypeOK, NEW w \in Indexers, NEW n \in Notes,
         Claim(w, n) \/ ClaimDeletes(w, n)
  PROVE  TypeOK'
<1>1. CASE Claim(w, n)
  <2> DEFINE t == CHOOSE t \in Tokens : Spare(t)
             taken == [NoAttempt EXCEPT !.status = "running", !.gen = doc[n].gen, !.owner = w]
             job == [at |-> "embed", token |-> t, note |-> n, version |-> doc[n].version,
                     plan |-> profile, turn |-> 1, overdue |-> FALSE]
  <2>1. t \in Tokens
    BY <1>1 DEF Claim
  <2>2. /\ doc' = [doc EXCEPT ![n].status = "running", ![n].token = t, ![n].live = TRUE,
                              ![n].space = Candidates(profile)[1]]
        /\ attempt' = [u \in Tokens |-> IF u = t THEN taken
                                        ELSE IF u \in Displaced(n) THEN Settled(u) ELSE attempt[u]]
        /\ indexer' = [indexer EXCEPT ![w] = job]
        /\ kept' = kept + attempt[t].cost
        /\ UNCHANGED <<note, profile, chunks, askRows, up, history, used>>
    BY <1>1 DEF Claim
  <2> HIDE DEF t
  <2>3. doc[n].gen \in Nat /\ doc[n].version \in Nat /\ attempt[t].cost \in Nat
    BY <2>1 DEF TypeOK, Documents, Attempts
  <2>4. profile \in DOMAIN Profiles /\ Candidates(profile)[1] \in Spaces
        /\ 1 \in DOMAIN Profiles[profile]
    BY CandidateTypes DEF TypeOK, Candidates
  <2>5. doc' \in [Notes -> Documents]
    <3>1. doc' = [doc EXCEPT ![n] = [@ EXCEPT !.status = "running", !.token = t, !.live = TRUE,
                                              !.space = Candidates(profile)[1]]]
      BY <2>2
    <3>2. doc[n] \in Documents
      BY DEF TypeOK
    <3>3. [doc[n] EXCEPT !.status = "running", !.token = t, !.live = TRUE,
                         !.space = Candidates(profile)[1]] \in Documents
      BY <2>1, <2>4, <3>2 DEF Documents
    <3> QED BY <3>1, <3>3 DEF TypeOK
  <2>6. taken \in Attempts
    BY <2>3, NullTypes DEF Attempts
  <2>7. attempt' \in [Tokens -> Attempts]
    <3> HIDE DEF taken
    <3> QED BY <2>2, <2>6, SettledTypes DEF TypeOK
  <2>8. job \in Jobs
    BY <2>1, <2>3, <2>4 DEF Jobs
  <2>9. indexer' \in [Indexers -> Jobs]
    <3> HIDE DEF job
    <3> QED BY <2>2, <2>8 DEF TypeOK
  <2> QED BY <2>2, <2>3, <2>5, <2>7, <2>9 DEF TypeOK, askRows, history
<1>2. CASE ClaimDeletes(w, n)
  <2>1. Deleted(n) \in Documents
    BY FreshTypes DEF TypeOK, Documents
  <2>2. doc' \in [Notes -> Documents] /\ chunks' \in [Notes -> ChunkRows]
    BY <1>2, <2>1, NullTypes DEF ClaimDeletes, TypeOK
  <2> QED BY <1>2, <2>2 DEF ClaimDeletes, TypeOK, askRows, history
<1> QED BY <1>1, <1>2

LEMMA ExpiryTypes ==
  ASSUME TypeOK,
         \/ \E n \in Notes : RetryDue(n) \/ ExpireClaim(n)
         \/ \E t \in Tokens, s \in Spaces : ExpireRow(t, s)
  PROVE  TypeOK'
<1>1. ASSUME NEW n \in Notes, RetryDue(n) PROVE TypeOK'
  <2>1. doc' \in [Notes -> Documents]
    <3>1. ASSUME NEW d \in Documents PROVE [d EXCEPT !.wait = FALSE] \in Documents
      BY DEF Documents
    <3> QED BY <1>1, <3>1 DEF RetryDue, TypeOK
  <2> QED BY <1>1, <2>1 DEF RetryDue, TypeOK, askRows, history
<1>2. ASSUME NEW n \in Notes, ExpireClaim(n) PROVE TypeOK'
  <2>1. doc' \in [Notes -> Documents]
    <3>1. ASSUME NEW d \in Documents PROVE [d EXCEPT !.live = FALSE] \in Documents
      BY DEF Documents
    <3> QED BY <1>2, <3>1 DEF ExpireClaim, TypeOK
  <2>2. used' \in [requests : Nat, faults : Nat, crashes : Nat]
    BY <1>2, UsedTypes DEF ExpireClaim, PassesFor, Fault
  <2> QED BY <1>2, <2>1, <2>2 DEF ExpireClaim, TypeOK, askRows, history
<1>3. ASSUME NEW t \in Tokens, NEW s \in Spaces, ExpireRow(t, s) PROVE TypeOK'
  <2>1. attempt' \in [Tokens -> Attempts]
    <3>1. ASSUME NEW d \in Attempts PROVE [d EXCEPT !.rows[s] = "lapsed"] \in Attempts
      BY DEF Attempts
    <3> QED BY <1>3, <3>1 DEF ExpireRow, TypeOK
  <2>2. indexer' \in [Indexers -> Jobs]
    <3>1. ASSUME NEW j \in Jobs PROVE [j EXCEPT !.overdue = TRUE] \in Jobs
      BY DEF Jobs
    <3> QED BY <1>3, <3>1 DEF ExpireRow, TypeOK
  <2>3. used' \in [requests : Nat, faults : Nat, crashes : Nat]
    BY <1>3, UsedTypes DEF ExpireRow, PassesFor, Fault
  <2> QED BY <1>3, <2>1, <2>2, <2>3 DEF ExpireRow, TypeOK, askRows, history
<1> QED BY <1>1, <1>2, <1>3

LEMMA IndexNextTypes == ASSUME TypeOK, IndexNext PROVE TypeOK'
<1>1. CASE ChangeProfile \/ Reconcile
  <2>1. CASE Notes = {}
    <3>1. UNCHANGED <<note, doc, chunks, attempt, indexer>> /\ profile' \in DOMAIN Profiles
      BY <1>1, <2>1, SyncTypes DEF ChangeProfile, Reconcile, Sync, TypeOK
    <3> QED BY <1>1, <3>1 DEF ChangeProfile, Reconcile, TypeOK, askRows, history
  <2> QED BY <1>1, <2>1, NoteStepTypes
<1> QED BY <1>1, IndexTypes, ClaimTypes, ExpiryTypes, NoteStepTypes DEF IndexNext

\* What a thread that answers does to its place, its bill and the ledger.
LEMMA QuestionTypes ==
  ASSUME TypeOK, AskTypeOK, NEW a \in Askers,
         \/ Fails(a) \/ Retrieved(a) \/ QueryMissed(a) \/ AnswerMissed(a)
         \/ \E phase \in {"renewquery", "retrieve", "renew", "validate", "calling"} :
              Turns(a, phase) /\ (Charge(a) \/ UNCHANGED <<bill, authorised>>)
  PROVE  /\ AskTypeOK' /\ bill' \in [Askers -> Bills] /\ authorised' \in Nat
<1>1. /\ asker \in [Askers -> Questions] /\ asker[a] \in Questions /\ asker[a].turn \in Nat
      /\ bill \in [Askers -> Bills] /\ bill[a] \in Bills /\ authorised \in Nat
  BY DEF TypeOK, AskTypeOK, Questions
<1>2. ASSUME NEW phase \in {"renewquery", "retrieve", "renew", "validate", "calling", "release"},
             Turns(a, phase)
      PROVE  AskTypeOK'
  <2>1. [asker[a] EXCEPT !.at = phase] \in Questions
    BY <1>1 DEF Questions
  <2> QED BY <1>1, <1>2, <2>1 DEF Turns, AskTypeOK
<1>3. CASE Fails(a)
  <2>1. ASSUME NEW b \in Bills
        PROVE  [b EXCEPT !.state = IF @ = "none" THEN @ ELSE "done"] \in Bills
    BY DEF Bills
  <2> QED BY <1>1, <1>2, <1>3, <2>1 DEF Fails
<1>4. ASSUME NEW phase \in {"query", "ask"}, NEW turn \in Nat,
             asker' = [asker EXCEPT ![a].at = phase, ![a].turn = turn]
      PROVE  AskTypeOK'
  <2>1. [asker[a] EXCEPT !.at = phase, !.turn = turn] \in Questions
    BY <1>1 DEF Questions
  <2> QED BY <1>1, <1>4, <2>1 DEF AskTypeOK
<1>5. CASE Retrieved(a)
  BY <1>1, <1>3, <1>4, <1>5 DEF Retrieved
<1>6. asker[a].turn + 1 \in Nat
  BY <1>1
<1>7. CASE QueryMissed(a)
  BY <1>1, <1>4, <1>5, <1>6, <1>7 DEF QueryMissed
<1>8. CASE AnswerMissed(a)
  BY <1>1, <1>3, <1>4, <1>6, <1>8 DEF AnswerMissed
<1>9. ASSUME Charge(a) PROVE bill' \in [Askers -> Bills] /\ authorised' \in Nat
  <2>1. bill[a].rows + 1 \in Nat
    BY <1>1 DEF Bills
  <2>2. [rows |-> bill[a].rows + 1, state |-> "live"] \in Bills
    BY <2>1 DEF Bills
  <2> QED BY <1>1, <1>9, <2>2 DEF Charge
<1> QED BY <1>1, <1>2, <1>3, <1>5, <1>7, <1>8, <1>9

LEMMA AnswerTypes ==
  ASSUME TypeOK, AskTypeOK, NEW a \in Askers, AskClaim(a) \/ Answer(a)
  PROVE  TypeOK' /\ AskTypeOK'
<1>1. /\ asker \in [Askers -> Questions] /\ asker[a] \in Questions
      /\ asker[a].turn \in Nat /\ asker[a].heard \in Nat
      /\ bill \in [Askers -> Bills] /\ bill[a].rows \in Nat
      /\ thread \in Threads /\ thread.turns \in Nat /\ thread.cost \in Nat
  BY DEF TypeOK, AskTypeOK, Questions, Bills, Threads
<1>2. CASE ReserveQuery(a) \/ RenewQuery(a) \/ ReserveAnswer(a) \/ RenewAnswer(a) \/ Validate(a)
           \/ SaveRefused(a)
  <2>1. AskTypeOK' /\ bill' \in [Askers -> Bills] /\ authorised' \in Nat
    BY <1>2, QuestionTypes
       DEF ReserveQuery, RenewQuery, ReserveAnswer, RenewAnswer, Validate, SaveRefused
  <2>2. UNCHANGED <<indexVars, thread, kept, up, forgotten, used>>
    BY <1>2 DEF ReserveQuery, RenewQuery, ReserveAnswer, RenewAnswer, Validate, SaveRefused
  <2> QED BY <2>1, <2>2 DEF TypeOK, indexVars
<1>3. CASE QueryFails(a) \/ AnswerFails(a)
  <2>1. AskTypeOK' /\ bill' \in [Askers -> Bills] /\ authorised' \in Nat
    BY <1>3, QuestionTypes DEF QueryFails, AnswerFails
  <2>2. used' \in [requests : Nat, faults : Nat, crashes : Nat]
    BY <1>3, UsedTypes DEF QueryFails, AnswerFails, Fault
  <2>3. UNCHANGED <<indexVars, thread, kept, up, forgotten>>
    BY <1>3 DEF QueryFails, AnswerFails
  <2> QED BY <2>1, <2>2, <2>3 DEF TypeOK, indexVars
<1>4. CASE AskClaim(a)
  <2>1. kept + bill[a].rows \in Nat
    BY <1>1 DEF TypeOK
  <2>2. [Quit EXCEPT !.at = "query", !.plan = profile, !.heard = thread.turns,
                     !.created = ~thread.present] \in Questions
    BY <1>1, NullTypes DEF Questions, TypeOK
  <2>3. [thread EXCEPT !.present = TRUE, !.token = a, !.live = TRUE] \in Threads
    BY <1>1 DEF Threads
  <2> QED BY <1>1, <1>4, <2>1, <2>2, <2>3, NullTypes
          DEF AskClaim, TypeOK, AskTypeOK, indexVars, history
<1>5. CASE Retrieve(a)
  <2>1. Heard(a) \subseteq Evidence
    <3>1. \A n \in Notes : doc[n].gen \in Nat /\ note[n].version \in Nat
      BY DEF TypeOK, Documents, NoteRows
    <3> QED BY <1>1, <3>1 DEF Heard, Found, Evidence, Questions
  <2>2. ASSUME NEW phase \in {"query", "save", "ask"}, NEW turn \in Nat
        PROVE  [asker[a] EXCEPT !.evidence = Heard(a), !.at = phase, !.turn = turn] \in Questions
    BY <1>1, <2>1 DEF Questions
  <2>3. ASSUME NEW phase \in {"query", "save", "ask"}, NEW turn \in Nat, Hears(a, phase, turn)
        PROVE  AskTypeOK'
    BY <1>1, <2>2, <2>3 DEF AskTypeOK, Hears
  <2>4. AskTypeOK'
    BY <1>1, <1>5, <2>3 DEF Retrieve
  <2>5. bill' \in [Askers -> Bills]
    <3>1. ASSUME NEW b \in Bills PROVE [b EXCEPT !.state = "done"] \in Bills
      BY DEF Bills
    <3> QED BY <1>1, <1>5, <3>1 DEF Retrieve
  <2> QED BY <1>5, <2>4, <2>5 DEF Retrieve, TypeOK, indexVars, history
<1>6. CASE AnswerReturns(a)
  <2>1. [asker[a] EXCEPT !.at = "save"] \in Questions
    BY <1>1 DEF Questions
  <2>2. ASSUME NEW b \in Bills PROVE [b EXCEPT !.state = "done"] \in Bills
    BY DEF Bills
  <2> QED BY <1>1, <1>6, <2>1, <2>2
          DEF AnswerReturns, Turns, TypeOK, AskTypeOK, indexVars, history
<1>7. CASE Save(a)
  <2>1. thread.turns + 1 \in Nat /\ thread.cost + bill[a].rows \in Nat
    BY <1>1
  <2>2. ASSUME NEW turns \in Nat, NEW cost \in Nat
        PROVE  [thread EXCEPT !.turns = turns, !.cost = cost, !.token = None, !.live = FALSE]
                 \in Threads
    BY <1>1 DEF Threads
  <2>3. thread' = [thread EXCEPT !.turns = thread.turns + 1, !.cost = thread.cost + bill[a].rows,
                                 !.token = None, !.live = FALSE]
    BY <1>7 DEF Save
  <2>4. thread' \in Threads
    BY <2>1, <2>2, <2>3
  <2> QED BY <1>1, <1>7, <2>4, NullTypes DEF Save, TypeOK, AskTypeOK, indexVars, history
<1>8. CASE Release(a)
  <2>1. [thread EXCEPT !.token = None, !.live = FALSE] \in Threads
    BY <1>1 DEF Threads
  <2>2. thread' \in Threads
    BY <1>1, <1>8, <2>1, NullTypes DEF Release
  <2> QED BY <1>1, <1>8, <2>2, NullTypes DEF Release, TypeOK, AskTypeOK, indexVars, history
<1> QED BY <1>2, <1>3, <1>4, <1>5, <1>6, <1>7, <1>8 DEF Answer

LEMMA RestartTypes ==
  ASSUME TypeOK, AskTypeOK,
         \/ DeleteThread \/ ExpireThread \/ Crash \/ StartUp
         \/ \E a \in Askers : ExpireBill(a)
         \/ \E x \in Indexers \cup Askers : CrashOther(x)
  PROVE  TypeOK' /\ AskTypeOK'
<1>1. /\ thread \in Threads /\ thread.cost \in Nat /\ bill \in [Askers -> Bills]
      /\ forgotten \in Nat /\ asker \in [Askers -> Questions] /\ indexer \in [Indexers -> Jobs]
  BY DEF TypeOK, AskTypeOK, Threads
<1>2. \A b \in Bills, state \in {"lapsed", "done"} : [b EXCEPT !.state = state] \in Bills
  BY DEF Bills
<1>3. /\ [thread EXCEPT !.live = FALSE] \in Threads
      /\ [thread EXCEPT !.token = None, !.live = FALSE] \in Threads
  BY <1>1 DEF Threads
<1>4. CASE DeleteThread
  <2>1. used' \in [requests : Nat, faults : Nat, crashes : Nat]
    BY <1>4, UsedTypes DEF DeleteThread
  <2>2. forgotten' \in Nat
    BY <1>1, <1>4 DEF DeleteThread
  <2> QED BY <1>4, <2>1, <2>2, NullTypes DEF DeleteThread, TypeOK, AskTypeOK, indexVars
<1>5. CASE ExpireThread
  <2>1. used' \in [requests : Nat, faults : Nat, crashes : Nat]
    BY <1>5, UsedTypes DEF ExpireThread, PassesFor, Fault
  <2> QED BY <1>3, <1>5, <2>1 DEF ExpireThread, TypeOK, AskTypeOK, indexVars, history
<1>6. ASSUME NEW a \in Askers, ExpireBill(a) PROVE TypeOK' /\ AskTypeOK'
  <2>1. used' \in [requests : Nat, faults : Nat, crashes : Nat]
    BY <1>6, UsedTypes DEF ExpireBill, PassesFor, Fault
  <2>2. bill' \in [Askers -> Bills]
    BY <1>1, <1>2, <1>6 DEF ExpireBill
  <2> QED BY <1>6, <2>1, <2>2 DEF ExpireBill, TypeOK, AskTypeOK, indexVars, history
<1>7. ASSUME NEW X, CrashOf(X), up' \in BOOLEAN PROVE TypeOK' /\ AskTypeOK'
  <2>1. used' \in [requests : Nat, faults : Nat, crashes : Nat]
    BY <1>7, UsedTypes DEF CrashOf
  <2>2. indexer' \in [Indexers -> Jobs] /\ asker' \in [Askers -> Questions]
    BY <1>1, <1>7, NullTypes DEF CrashOf, Stopped
  <2> QED BY <1>7, <2>1, <2>2 DEF CrashOf, TypeOK, AskTypeOK, askRows, history
<1>8. CASE Crash
  BY <1>7, <1>8 DEF Crash
<1>9. ASSUME NEW x \in Indexers \cup Askers, CrashOther(x) PROVE TypeOK' /\ AskTypeOK'
  <2>1. CrashOf({x}) /\ up' \in BOOLEAN
    BY <1>9, ZenonT(30) DEF CrashOther, TypeOK
  <2> QED BY <1>7, <2>1
<1>10. CASE StartUp
  <2>1. thread' \in Threads
    BY <1>1, <1>3, <1>10 DEF StartUp
  <2>2. attempt' \in [Tokens -> Attempts]
    BY <1>10, SettledTypes DEF StartUp
  <2>3. bill' \in [Askers -> Bills]
    BY <1>1, <1>2, <1>10 DEF StartUp
  <2> QED BY <1>10, <2>1, <2>2, <2>3 DEF StartUp, TypeOK, AskTypeOK, history
<1> QED BY <1>4, <1>5, <1>6, <1>8, <1>9, <1>10

LEMMA InitTypes == Init => AllTypesOK
<1> SUFFICES ASSUME Init PROVE AllTypesOK
  OBVIOUS
<1>1. 1 \in DOMAIN Profiles
  BY ProfilesAssumption
<1>2. /\ note \in [Notes -> NoteRows] /\ thread \in Threads
      /\ used \in [requests : Nat, faults : Nat, crashes : Nat]
  BY DEF Init, NoteRows, Threads
<1> QED BY <1>1, <1>2, NullTypes DEF Init, AllTypesOK, TypeOK, AskTypeOK

LEMMA StepTypes == AllTypesOK /\ [Next]_vars => AllTypesOK'
<1> SUFFICES ASSUME TypeOK, AskTypeOK, [Next]_vars PROVE TypeOK' /\ AskTypeOK'
  BY DEF AllTypesOK
<1>1. CASE IndexNext /\ UNCHANGED asker
  BY <1>1, IndexNextTypes DEF AskTypeOK
<1>2. ASSUME NEW a \in Askers, AskClaim(a) \/ Answer(a) \/ ExpireBill(a)
      PROVE  TypeOK' /\ AskTypeOK'
  BY <1>2, AnswerTypes, RestartTypes
<1>3. CASE DeleteThread \/ ExpireThread \/ Crash \/ StartUp
           \/ \E x \in (Indexers \cup Askers) \ Daemon : CrashOther(x)
  BY <1>3, RestartTypes
<1>4. CASE UNCHANGED vars
  BY <1>4 DEF vars, TypeOK, AskTypeOK, indexVars, askRows, history
<1> QED BY <1>1, <1>2, <1>3, <1>4 DEF Next

\* Every variable of KnowledgeIndex and AskThread has its type, whatever the
\* number of threads, notes and profiles.
THEOREM TypeCorrect == Spec => []AllTypesOK
BY InitTypes, StepTypes, PTL DEF Spec

-----------------------------------------------------------------------------
(***************************************************************************)
(* What a search finds is current.  Inductive is what each of the three    *)
(* rows knows of the others: a document is that of its note's version, its *)
(* space is one of the profile's, a completed one has chunks, and whoever  *)
(* holds a live claim works with the profile in force.                     *)
(***************************************************************************)

FollowsNote(n) ==
  /\ doc[n].status # "none" => doc[n].version = note[n].version
  /\ doc[n].space # None => doc[n].space \in Allowed(profile)
  /\ doc[n].token # None \/ doc[n].live => doc[n].status = "running"
  /\ doc[n].status = "completed" =>
       /\ doc[n].space # None
       /\ chunks[n] = [version |-> doc[n].version, space |-> doc[n].space]

WorksForProfile(w) ==
  indexer[w].at # "idle" =>
    /\ Mine(w) # None
    /\ \A n \in Notes : NoteOf(w) = n /\ doc[n].live /\ doc[n].token = Mine(w) =>
                          indexer[w].plan = profile

SearchInv == (\A n \in Notes : FollowsNote(n)) /\ (\A w \in Indexers : WorksForProfile(w))

\* A step that claims and completes nothing.
Withdraws(n) ==
  /\ note'[n].version = note[n].version
  /\ \/ doc'[n] = doc[n] /\ chunks'[n] = chunks[n]
     \/ doc'[n].status = "none" /\ doc'[n].space = None /\ doc'[n].token = None /\ ~doc'[n].live
     \/ /\ doc[n].status # "none" /\ doc'[n].status \in {"running", "pending", "failed"}
        /\ doc'[n].version = doc[n].version /\ doc'[n].space = doc[n].space
        /\ doc'[n].live = FALSE /\ (doc'[n].token # None => doc'[n].status = "running")
     \/ /\ doc'[n].status = doc[n].status /\ doc'[n].version = doc[n].version
        /\ doc'[n].space = doc[n].space /\ doc'[n].live = doc[n].live
        /\ doc'[n].token = doc[n].token /\ chunks'[n] = chunks[n]

GoesOn(w) ==
  \/ indexer'[w].at = "idle"
  \/ /\ indexer[w].at # "idle" /\ indexer'[w].plan = indexer[w].plan
     /\ indexer'[w].token = indexer[w].token /\ indexer'[w].note = indexer[w].note

LEMMA WithdrawKeeps ==
  ASSUME TypeOK, SearchInv, profile' = profile,
         \A n \in Notes : Withdraws(n), \A w \in Indexers : GoesOn(w)
  PROVE  SearchInv'
<1>1. ASSUME NEW n \in Notes PROVE FollowsNote(n)'
  BY DEF SearchInv, FollowsNote, Withdraws, Allowed, Candidates
<1>2. ASSUME NEW w \in Indexers PROVE WorksForProfile(w)'
  <2>1. SUFFICES ASSUME indexer'[w].at # "idle"
                 PROVE  /\ indexer'[w].token # None
                        /\ \A n \in Notes : indexer'[w].note = n /\ doc'[n].live
                             /\ doc'[n].token = indexer'[w].token => indexer'[w].plan = profile'
    BY DEF WorksForProfile, Mine, NoteOf
  <2>2. /\ indexer[w].at # "idle" /\ indexer'[w].plan = indexer[w].plan
        /\ indexer'[w].token = indexer[w].token /\ indexer'[w].note = indexer[w].note
    BY <2>1 DEF GoesOn
  <2>3. WorksForProfile(w)
    BY DEF SearchInv
  <2>4. ASSUME NEW n \in Notes, doc'[n].live PROVE doc[n].live /\ doc'[n].token = doc[n].token
    BY <2>4 DEF Withdraws
  <2> QED BY <2>2, <2>3, <2>4 DEF WorksForProfile, Mine, NoteOf
<1> QED BY <1>1, <1>2 DEF SearchInv

Reset(n, version) ==
  /\ doc'[n].status \in {"none", "pending"} /\ doc'[n].token = None
  /\ doc'[n].live = FALSE /\ doc'[n].space = None
  /\ (doc'[n].status # "none" => doc'[n].version = version)

Accepted(n, nt, p) ==
  /\ doc'[n] = doc[n] /\ chunks'[n] = chunks[n] /\ ~ProfileChanged(n, p)
  /\ Indexable(nt) /\ doc[n].version = nt.version

\* A document that follows its note is deleted, reset, or right as it is.
LEMMA SyncedCases ==
  ASSUME TypeOK, NEW S \in SUBSET Notes, NEW nts \in [Notes -> NoteRows],
         NEW p \in DOMAIN Profiles, Sync(S, nts, p), NEW n \in S
  PROVE  Reset(n, nts[n].version) \/ Accepted(n, nts[n], p)
<1>1. doc'[n] = Synced(n, nts[n], p) /\ (doc'[n] = doc[n] => chunks'[n] = chunks[n])
  BY DEF Sync
<1>2. CASE Synced(n, nts[n], p) = Deleted(n)
  BY <1>1, <1>2 DEF Deleted, NoDoc, Reset
<1>3. CASE Synced(n, nts[n], p) = Fresh(n, nts[n].version)
  BY <1>1, <1>3 DEF Fresh, NoDoc, Reset
<1>4. CASE /\ Synced(n, nts[n], p) = doc[n] /\ Indexable(nts[n])
           /\ doc[n].version = nts[n].version /\ ~ProfileChanged(n, p)
  BY <1>1, <1>4 DEF Accepted
<1> QED BY <1>2, <1>3, <1>4 DEF Synced

LEMMA SyncKeeps ==
  ASSUME TypeOK, SearchInv, NEW S \in SUBSET Notes, NEW nts \in [Notes -> NoteRows],
         NEW p \in DOMAIN Profiles, Sync(S, nts, p),
         \A n \in Notes \ S : nts[n].version = note[n].version,
         p = profile \/ (S = Notes /\ \A n \in Notes : ~ClaimActive(n))
  PROVE  SearchInv'
<1>1. note' = nts /\ profile' = p /\ indexer' = indexer
  BY DEF Sync
<1>2. ASSUME NEW n \in Notes \ S
      PROVE  doc'[n] = doc[n] /\ chunks'[n] = chunks[n] /\ note'[n].version = note[n].version
  BY <1>1, <1>2 DEF Sync
<1>3. ASSUME NEW n \in Notes PROVE FollowsNote(n)'
  <2>1. CASE n \in S
    <3>1. CASE Accepted(n, nts[n], p)
      <4>1. doc[n].space # None => doc[n].space \in Allowed(p)
        BY <3>1 DEF Accepted, ProfileChanged
      <4>2. FollowsNote(n)
        BY DEF SearchInv
      <4>3. Allowed(profile)' = Allowed(p) /\ note'[n].version = doc[n].version
        BY <1>1, <3>1 DEF Accepted, Allowed, Candidates
      <4> QED BY <3>1, <4>1, <4>2, <4>3 DEF Accepted, FollowsNote
    <3>2. CASE Reset(n, nts[n].version)
      BY <1>1, <3>2 DEF Reset, FollowsNote
    <3> QED BY <2>1, <3>1, <3>2, SyncedCases
  <2>2. CASE n \notin S
    BY <1>1, <1>2, <2>2 DEF SearchInv, FollowsNote, Allowed, Candidates
  <2> QED BY <2>1, <2>2
<1>4. ASSUME NEW w \in Indexers PROVE WorksForProfile(w)'
  <2>1. WorksForProfile(w)
    BY DEF SearchInv
  <2>2. ASSUME NEW n \in Notes, doc'[n].live
        PROVE  doc[n].live /\ doc'[n].token = doc[n].token /\ profile' = profile
    <3>1. doc'[n] = doc[n]
      BY <1>2, <2>2, SyncedCases DEF Reset, Accepted
    <3>2. doc[n].status = "running"
      BY <2>2, <3>1 DEF SearchInv, FollowsNote
    <3>3. ClaimActive(n)
      BY <2>2, <3>1, <3>2 DEF ClaimActive
    <3> QED BY <1>1, <2>2, <3>1, <3>3
  <2> QED BY <1>1, <2>1, <2>2 DEF WorksForProfile, Mine, NoteOf
<1> QED BY <1>3, <1>4 DEF SearchInv

LEMMA NoteStepKeeps ==
  ASSUME TypeOK, SearchInv, NEW n \in Notes,
         \/ CreateNote(n) \/ EditNote(n) \/ DeleteNote(n) \/ RerunSummary(n)
         \/ FailSummary(n) \/ PersistSummary(n) \/ \E marked \in BOOLEAN : Invalidate(n, marked)
  PROVE  SearchInv'
<1>1. ASSUME NEW m \in Notes \ {n}
      PROVE  /\ Revised(n)[m] = note[m]
             /\ [note EXCEPT ![n].status = "none"][m] = note[m]
  BY DEF Revised, TypeOK
<1>2. CASE CreateNote(n) \/ EditNote(n) \/ PersistSummary(n)
  <2>1. Sync({n}, Revised(n), profile)
    BY <1>2 DEF CreateNote, EditNote, PersistSummary
  <2> QED BY <1>1, <2>1, NoteTypes, SyncKeeps DEF TypeOK
<1>3. CASE DeleteNote(n)
  <2>1. Sync({n}, [note EXCEPT ![n].status = "none"], profile)
    BY <1>3 DEF DeleteNote
  <2> QED BY <1>1, <2>1, NoteTypes, SyncKeeps DEF TypeOK
<1>4. CASE RerunSummary(n) \/ FailSummary(n)
  <2>1. ASSUME NEW m \in Notes PROVE note'[m].version = note[m].version
    <3>1. \E status : note' = [note EXCEPT ![n].status = status]
      BY <1>4 DEF RerunSummary, FailSummary
    <3>2. note \in [Notes -> NoteRows]
      BY DEF TypeOK
    <3> QED BY <3>1, <3>2 DEF NoteRows
  <2>2. UNCHANGED <<profile, doc, chunks, indexer>>
    BY <1>4 DEF RerunSummary, FailSummary
  <2> QED BY <2>1, <2>2, WithdrawKeeps DEF Withdraws, GoesOn
<1>5. ASSUME NEW marked \in BOOLEAN, Invalidate(n, marked) PROVE SearchInv'
  <2>1. \A m \in Notes : note'[m].version = note[m].version
    BY <1>5 DEF Invalidate, TypeOK, NoteRows
  <2>2. \A m \in Notes : Withdraws(m)
    BY <1>5, <2>1 DEF Invalidate, TypeOK, Withdraws, Deleted, NoDoc
  <2>3. \A w \in Indexers : GoesOn(w)
    BY <1>5 DEF Invalidate, GoesOn
  <2> QED BY <1>5, <2>2, <2>3, WithdrawKeeps DEF Invalidate
<1> QED BY <1>2, <1>3, <1>4, <1>5

LEMMA ProfileStepKeeps ==
  ASSUME TypeOK, SearchInv, ChangeProfile \/ Reconcile
  PROVE  SearchInv'
<1>1. note \in [Notes -> NoteRows] /\ profile \in DOMAIN Profiles
  BY DEF TypeOK
<1>2. CASE ChangeProfile
  <2>1. /\ profile + 1 \in DOMAIN Profiles /\ Sync(Notes, note, profile + 1)
        /\ \A n \in Notes : ~ClaimActive(n)
    BY <1>2 DEF ChangeProfile, ProfileIdle
  <2> QED BY <1>1, <2>1, SyncKeeps
<1>3. CASE Reconcile
  <2>1. Sync(Notes, note, profile)
    BY <1>3 DEF Reconcile
  <2> QED BY <1>1, <2>1, SyncKeeps
<1> QED BY <1>2, <1>3

\* A thread that goes on with its claim, or gives it up.
LEMMA JobGoesOn ==
  ASSUME TypeOK, NEW w \in Indexers, indexer[w].at # "idle",
         \/ \E phase \in {"embed", "calling", "publish", "failing"} : Goes(w, phase)
         \/ TriesNext(w) \/ Rests(w)
  PROVE  \A v \in Indexers : GoesOn(v)
<1>1. indexer \in [Indexers -> Jobs]
  BY DEF TypeOK
<1>2. ASSUME NEW phase, Goes(w, phase) PROVE \A v \in Indexers : GoesOn(v)
  BY <1>1, <1>2 DEF Goes, GoesOn, Jobs
<1>3. CASE TriesNext(w)
  <2>1. CASE indexer[w].turn < Len(Plan(w))
    <3>1. indexer' = [indexer EXCEPT ![w].at = "embed", ![w].turn = @ + 1]
      BY <1>3, <2>1 DEF TriesNext
    <3>2. ASSUME NEW v \in Indexers
          PROVE  /\ indexer'[v].plan = indexer[v].plan /\ indexer'[v].token = indexer[v].token
                 /\ indexer'[v].note = indexer[v].note
                 /\ (v # w => indexer'[v] = indexer[v])
      BY <1>1, <3>1 DEF Jobs
    <3> QED BY <3>2 DEF GoesOn
  <2>2. CASE ~(indexer[w].turn < Len(Plan(w)))
    BY <1>2, <1>3, <2>2 DEF TriesNext
  <2> QED BY <2>1, <2>2
<1>4. CASE Rests(w)
  BY <1>1, <1>4 DEF Rests, GoesOn, Idle
<1> QED BY <1>2, <1>3, <1>4

LEMMA ReturnedWithdraws ==
  ASSUME TypeOK, SearchInv, NEW w \in Indexers, indexer[w].at # "idle",
         doc' = Returned(w), UNCHANGED <<note, chunks>>
  PROVE  \A n \in Notes : Withdraws(n)
<1> SUFFICES ASSUME NEW n \in Notes PROVE Withdraws(n)
  OBVIOUS
<1>1. CASE NoteOf(w) = n /\ doc[n].token = Mine(w)
  <2>1. doc[n].status = "running"
    BY <1>1 DEF SearchInv, WorksForProfile, FollowsNote
  <2>2. doc'[n] = [doc[n] EXCEPT !.status = "pending", !.token = None, !.live = FALSE]
    BY <1>1 DEF Returned
  <2> QED BY <2>1, <2>2 DEF Withdraws, TypeOK, Documents
<1>2. CASE ~(NoteOf(w) = n /\ doc[n].token = Mine(w))
  BY <1>2 DEF Returned, Withdraws
<1> QED BY <1>1, <1>2

LEMMA PublishKeeps ==
  ASSUME TypeOK, SearchInv, NEW w \in Indexers, Publish(w)
  PROVE  SearchInv'
<1>1. indexer[w].at # "idle" /\ Rests(w) /\ UNCHANGED <<note, profile>>
  BY DEF Publish, At
<1>2. \A v \in Indexers : GoesOn(v)
  BY <1>1, JobGoesOn
<1>3. CASE ~Holds(w)
  BY <1>1, <1>2, <1>3, ReturnedWithdraws, WithdrawKeeps DEF Publish
<1>4. CASE Holds(w)
  <2> DEFINE m == NoteOf(w)
             space == Candidate(w)
  <2>1. /\ doc' = [doc EXCEPT ![m].status = "completed", ![m].token = None, ![m].live = FALSE,
                              ![m].wait = FALSE, ![m].space = space]
        /\ chunks' = [chunks EXCEPT ![m] = [version |-> indexer[w].version, space |-> space]]
    BY <1>4 DEF Publish
  <2>2. m \in Notes => space \in Allowed(profile) /\ space # None
    <3>1. m \in Notes => indexer[w].plan = profile
      BY <1>1, <1>4 DEF Holds, SearchInv, WorksForProfile
    <3> QED BY <3>1, CandidateType, NoneAssumption
  <2>3. m \in Notes => doc[m].version = indexer[w].version /\ doc[m].version = note[m].version
    BY <1>4 DEF Holds, IsCurrent
  <2> HIDE DEF space
  <2>4. ASSUME NEW n \in Notes, n # m PROVE doc'[n] = doc[n] /\ chunks'[n] = chunks[n]
    BY <2>1, <2>4 DEF TypeOK
  <2>5. m \in Notes =>
          /\ doc'[m].status = "completed" /\ doc'[m].token = None /\ doc'[m].live = FALSE
          /\ doc'[m].space = space /\ doc'[m].version = doc[m].version
          /\ chunks'[m] = [version |-> indexer[w].version, space |-> space]
    BY <2>1 DEF TypeOK, Documents
  <2>6. ASSUME NEW n \in Notes PROVE FollowsNote(n)'
    <3>1. CASE n = m
      BY <1>1, <2>2, <2>3, <2>5, <3>1 DEF FollowsNote, Allowed, Candidates
    <3>2. CASE n # m
      BY <1>1, <2>4, <3>2 DEF SearchInv, FollowsNote, Allowed, Candidates
    <3> QED BY <3>1, <3>2
  <2>7. ASSUME NEW v \in Indexers PROVE WorksForProfile(v)'
    <3>1. WorksForProfile(v) /\ GoesOn(v)
      BY <1>2 DEF SearchInv
    <3>2. \A n \in Notes : doc'[n].live => doc'[n] = doc[n]
      BY <2>4, <2>5
    <3> QED BY <1>1, <3>1, <3>2 DEF WorksForProfile, GoesOn, Mine, NoteOf
  <2> QED BY <2>6, <2>7 DEF SearchInv
<1> QED BY <1>3, <1>4

LEMMA IndexKeeps ==
  ASSUME TypeOK, SearchInv, NEW w \in Indexers, Index(w)
  PROVE  SearchInv'
<1>1. CASE DispatchSuperseded(w)
  <2>1. indexer[w].at # "idle" /\ Goes(w, "failing") /\ doc' = Returned(w)
        /\ UNCHANGED <<note, profile, chunks>>
    BY <1>1 DEF DispatchSuperseded, At
  <2> QED BY <2>1, JobGoesOn, ReturnedWithdraws, WithdrawKeeps
<1>2. CASE DispatchRefused(w) \/ CallReturns(w) \/ CallFails(w)
  <2>1. indexer[w].at # "idle" /\ UNCHANGED <<note, profile, doc, chunks>>
    BY <1>2 DEF DispatchRefused, CallReturns, CallFails, At
  <2>2. Goes(w, "failing") \/ Goes(w, "publish") \/ TriesNext(w)
    BY <1>2 DEF DispatchRefused, CallReturns, CallFails
  <2>3. \A v \in Indexers : GoesOn(v)
    BY <2>1, <2>2, JobGoesOn
  <2> QED BY <2>1, <2>3, WithdrawKeeps DEF Withdraws
<1>3. CASE Dispatch(w)
  <2>1. UNCHANGED <<note, profile, doc, chunks>>
    BY <1>3 DEF Dispatch
  <2>2. \A v \in Indexers : GoesOn(v)
    BY <1>3 DEF Dispatch, At, GoesOn, TypeOK, Jobs
  <2> QED BY <2>1, <2>2, WithdrawKeeps DEF Withdraws
<1>4. CASE FailDocument(w)
  <2>1. indexer[w].at # "idle" /\ Rests(w) /\ UNCHANGED <<note, profile, chunks>>
    BY <1>4 DEF FailDocument, At
  <2>2. ASSUME NEW n \in Notes PROVE Withdraws(n)
    <3>1. CASE n = NoteOf(w) /\ doc[n].token = Mine(w) /\ doc[n].live
      <4>1. doc[n].status = "running"
        BY <3>1 DEF SearchInv, FollowsNote
      <4>2. doc' = [doc EXCEPT ![n].status = "failed", ![n].wait = TRUE, ![n].token = None,
                               ![n].live = FALSE]
        BY <1>4, <3>1 DEF FailDocument
      <4> QED BY <2>1, <4>1, <4>2 DEF Withdraws, TypeOK, Documents
    <3>2. CASE ~(n = NoteOf(w) /\ doc[n].token = Mine(w) /\ doc[n].live)
      <4>1. doc'[n] = doc[n]
        BY <1>4, <3>2 DEF FailDocument, TypeOK
      <4> QED BY <2>1, <4>1 DEF Withdraws
    <3> QED BY <3>1, <3>2
  <2> QED BY <2>1, <2>2, JobGoesOn, WithdrawKeeps
<1> QED BY <1>1, <1>2, <1>3, <1>4, PublishKeeps DEF Index

LEMMA ClaimKeeps ==
  ASSUME TypeOK, SearchInv, NEW w \in Indexers, NEW n \in Notes,
         Claim(w, n) \/ ClaimDeletes(w, n)
  PROVE  SearchInv'
<1>1. CASE Claim(w, n)
  <2> DEFINE t == CHOOSE t \in Tokens : Spare(t)
             space == Candidates(profile)[1]
             job == [at |-> "embed", token |-> t, note |-> n, version |-> doc[n].version,
                     plan |-> profile, turn |-> 1, overdue |-> FALSE]
  <2>1. t \in Tokens /\ Spare(t)
    BY <1>1 DEF Claim
  <2>2. /\ doc' = [doc EXCEPT ![n].status = "running", ![n].token = t, ![n].live = TRUE,
                              ![n].space = space]
        /\ indexer' = [indexer EXCEPT ![w] = job]
        /\ UNCHANGED <<note, profile, chunks>> /\ doc[n].version = note[n].version
    BY <1>1 DEF Claim, IsCurrent
  <2> HIDE DEF t, space, job
  <2>3. space \in Allowed(profile)
    BY CandidateTypes DEF TypeOK, space
  <2>4. ASSUME NEW m \in Notes, m # n PROVE doc'[m] = doc[m]
    BY <2>2, <2>4 DEF TypeOK
  <2>5. /\ doc'[n].status = "running" /\ doc'[n].token = t /\ doc'[n].space = space
        /\ doc'[n].version = doc[n].version
    BY <2>2 DEF TypeOK, Documents
  <2>6. ASSUME NEW m \in Notes PROVE FollowsNote(m)'
    <3>1. CASE m = n
      BY <2>2, <2>3, <2>5, <3>1 DEF FollowsNote, Allowed, Candidates
    <3>2. CASE m # n
      <4>1. FollowsNote(m) /\ doc'[m] = doc[m]
        BY <2>4, <3>2 DEF SearchInv
      <4>2. Allowed(profile)' = Allowed(profile)
        BY <2>2 DEF Allowed, Candidates
      <4> QED BY <2>2, <4>1, <4>2 DEF FollowsNote
    <3> QED BY <3>1, <3>2
  <2>7. ASSUME NEW v \in Indexers PROVE WorksForProfile(v)'
    <3>1. CASE v = w
      <4>1. indexer'[v] = job /\ profile' = profile
        BY <2>2, <3>1 DEF TypeOK
      <4>2. indexer'[v].token = t /\ indexer'[v].plan = profile
        BY <4>1 DEF job
      <4> QED BY <2>1, <4>1, <4>2, NoneAssumption DEF WorksForProfile, Mine
    <3>2. CASE v # w
      <4>1. indexer'[v] = indexer[v] /\ indexer[v].token # t /\ WorksForProfile(v)
        BY <2>1, <2>2, <3>2 DEF TypeOK, Spare, Mine, SearchInv
      <4> QED BY <2>2, <2>4, <2>5, <4>1 DEF WorksForProfile, Mine, NoteOf
    <3> QED BY <3>1, <3>2
  <2> QED BY <2>6, <2>7 DEF SearchInv
<1>2. CASE ClaimDeletes(w, n)
  <2>1. \A m \in Notes : Withdraws(m)
    BY <1>2 DEF ClaimDeletes, TypeOK, Withdraws, Deleted, NoDoc
  <2>2. \A v \in Indexers : GoesOn(v)
    BY <1>2 DEF ClaimDeletes, GoesOn
  <2> QED BY <1>2, <2>1, <2>2, WithdrawKeeps DEF ClaimDeletes
<1> QED BY <1>1, <1>2

LEMMA ExpiryKeeps ==
  ASSUME TypeOK, SearchInv,
         \/ \E n \in Notes : RetryDue(n) \/ ExpireClaim(n)
         \/ \E t \in Tokens, s \in Spaces : ExpireRow(t, s)
  PROVE  SearchInv'
<1>1. UNCHANGED <<note, profile, chunks>>
  BY DEF RetryDue, ExpireClaim, ExpireRow
<1>2. ASSUME NEW m \in Notes PROVE Withdraws(m)
  <2>1. ASSUME NEW n \in Notes, RetryDue(n) PROVE Withdraws(m)
    BY <1>1, <2>1 DEF RetryDue, Withdraws, TypeOK, Documents
  <2>2. ASSUME NEW n \in Notes, ExpireClaim(n) PROVE Withdraws(m)
    BY <1>1, <2>2 DEF ExpireClaim, ClaimActive, Withdraws, TypeOK, Documents
  <2>3. ASSUME NEW t \in Tokens, NEW s \in Spaces, ExpireRow(t, s) PROVE Withdraws(m)
    BY <1>1, <2>3 DEF ExpireRow, Withdraws
  <2> QED BY <2>1, <2>2, <2>3
<1>3. ASSUME NEW v \in Indexers PROVE GoesOn(v)
  BY DEF RetryDue, ExpireClaim, ExpireRow, GoesOn, TypeOK, Jobs
<1> QED BY <1>1, <1>2, <1>3, WithdrawKeeps

LEMMA AskKeeps ==
  ASSUME TypeOK, SearchInv,
         \/ UNCHANGED indexVars \/ StartUp \/ \E X : CrashOf(X)
  PROVE  SearchInv'
<1>1. UNCHANGED <<note, profile, doc, chunks>>
  BY DEF indexVars, StartUp, CrashOf
<1>2. ASSUME NEW v \in Indexers PROVE GoesOn(v)
  BY DEF indexVars, StartUp, CrashOf, Stopped, Idle, GoesOn
<1> QED BY <1>1, <1>2, WithdrawKeeps DEF Withdraws

LEMMA SearchInit == Init => SearchInv
BY DEF Init, SearchInv, FollowsNote, WorksForProfile, NoDoc, Idle

LEMMA SearchStep == AllTypesOK /\ SearchInv /\ [Next]_vars => SearchInv'
<1> SUFFICES ASSUME TypeOK, SearchInv, [Next]_vars PROVE SearchInv'
  BY DEF AllTypesOK
<1>1. CASE IndexNext
  BY <1>1, IndexKeeps, ClaimKeeps, ExpiryKeeps, NoteStepKeeps, ProfileStepKeeps DEF IndexNext
<1>2. ASSUME NEW a \in Askers, AskClaim(a) \/ Answer(a) \/ ExpireBill(a) PROVE SearchInv'
  <2>1. UNCHANGED indexVars
    BY <1>2 DEF AskClaim, Answer, ReserveQuery, RenewQuery, Retrieve, QueryFails, ReserveAnswer,
                RenewAnswer, Validate, AnswerReturns, AnswerFails, Save, SaveRefused, Release,
                ExpireBill
  <2> QED BY <2>1, AskKeeps
<1>3. CASE DeleteThread \/ ExpireThread
  BY <1>3, AskKeeps DEF DeleteThread, ExpireThread
<1>4. CASE Crash \/ StartUp \/ \E x \in (Indexers \cup Askers) \ Daemon : CrashOther(x)
  BY <1>4, AskKeeps DEF Crash, CrashOther
<1>5. CASE UNCHANGED vars
  BY <1>5, AskKeeps DEF vars
<1> QED BY <1>1, <1>2, <1>3, <1>4, <1>5 DEF Next

LEMMA SearchInvHolds == Spec => []SearchInv
BY TypeCorrect, SearchInit, SearchStep, PTL DEF Spec

\* _publish_document: what a completed document offers to a search was computed
\* from the note as it is, in a space of the profile in force: however many threads
\* index, however long a call takes, and whatever is edited or chosen meanwhile.
THEOREM SearchFindsCurrentText == Spec => []SearchIsCurrent
<1>1. SearchInv => SearchIsCurrent
  BY DEF SearchInv, FollowsNote, SearchIsCurrent
<1> QED BY <1>1, SearchInvHolds, PTL

-----------------------------------------------------------------------------
(***************************************************************************)
(* Conversations.  Both properties are inductive next to SearchInv; what   *)
(* every step may do to a conversation and to the thread that answers in   *)
(* it comes first.                                                         *)
(***************************************************************************)

LEMMA IndexLeavesThread == IndexNext => UNCHANGED thread
<1>1. ASSUME NEW w \in Indexers, Index(w) PROVE UNCHANGED thread
  BY <1>1 DEF Index, DispatchSuperseded, DispatchRefused, Dispatch, CallReturns, CallFails,
              Publish, FailDocument, askRows
<1>2. ASSUME NEW w \in Indexers, NEW n \in Notes, Claim(w, n) \/ ClaimDeletes(w, n)
      PROVE  UNCHANGED thread
  BY <1>2 DEF Claim, ClaimDeletes, askRows
<1>3. ASSUME NEW n \in Notes, \/ CreateNote(n) \/ EditNote(n) \/ DeleteNote(n)
                              \/ RerunSummary(n) \/ FailSummary(n) \/ PersistSummary(n)
      PROVE  UNCHANGED thread
  BY <1>3 DEF CreateNote, EditNote, DeleteNote, RerunSummary, FailSummary, PersistSummary, askRows
<1>4. ASSUME NEW n \in Notes,
             RetryDue(n) \/ ExpireClaim(n) \/ \E marked \in BOOLEAN : Invalidate(n, marked)
      PROVE  UNCHANGED thread
  BY <1>4 DEF RetryDue, ExpireClaim, Invalidate, askRows
<1>5. CASE ChangeProfile \/ Reconcile \/ \E t \in Tokens, s \in Spaces : ExpireRow(t, s)
  BY <1>5 DEF ChangeProfile, Reconcile, ExpireRow, askRows
<1> QED BY <1>1, <1>2, <1>3, <1>4, <1>5 DEF IndexNext

\* A conversation is taken by AskClaim only, and a turn is added by a step that
\* gives it up.
LEMMA OwnerStep ==
  ASSUME AllTypesOK, [Next]_vars, NEW a \in Askers, Owns(a)'
  PROVE  AskClaim(a) \/ (Owns(a) /\ thread'.turns = thread.turns)
<1>1. thread \in Threads /\ a # None
  BY NoneAssumption DEF AllTypesOK, TypeOK
<1>2. thread'.present /\ thread'.token = a /\ thread'.live
  BY DEF Owns
<1>3. ASSUME UNCHANGED thread PROVE Owns(a) /\ thread'.turns = thread.turns
  BY <1>3 DEF Owns
<1>4. ASSUME NEW b \in Askers, AskClaim(b) PROVE b = a
  BY <1>1, <1>2, <1>4 DEF AskClaim, Threads
<1>5. ASSUME NEW b \in Askers, Answer(b) PROVE Owns(a) /\ thread'.turns = thread.turns
  <2>1. CASE Save(b)
    <3>1. thread'.token = None
      BY <1>1, <2>1 DEF Save, Threads
    <3> QED BY <1>1, <1>2, <3>1
  <2>2. CASE Release(b)
    <3>1. NoThread.token = None /\ [thread EXCEPT !.token = None, !.live = FALSE].token = None
      BY <1>1 DEF NoThread, Threads
    <3>2. thread' = thread
      BY <1>1, <1>2, <2>2, <3>1 DEF Release
    <3> QED BY <1>3, <3>2
  <2>3. CASE ~Save(b) /\ ~Release(b)
    <3>1. UNCHANGED thread
      BY <1>5, <2>3 DEF Answer, ReserveQuery, RenewQuery, Retrieve, QueryFails, ReserveAnswer,
                        RenewAnswer, Validate, AnswerReturns, AnswerFails, SaveRefused
    <3> QED BY <1>3, <3>1
  <2> QED BY <2>1, <2>2, <2>3
<1>6. CASE DeleteThread \/ ExpireThread
  <2>1. ~thread'.present \/ ~thread'.live
    BY <1>1, <1>6 DEF DeleteThread, ExpireThread, NoThread, Threads
  <2> QED BY <1>2, <2>1
<1>7. CASE StartUp
  <2>1. [thread EXCEPT !.token = None, !.live = FALSE].token = None
    BY <1>1 DEF Threads
  <2>2. thread' = thread
    BY <1>1, <1>2, <1>7, <2>1 DEF StartUp
  <2> QED BY <1>3, <2>2
<1>8. CASE IndexNext \/ Crash \/ (\E b \in Askers : ExpireBill(b)) \/ UNCHANGED vars
           \/ \E x \in (Indexers \cup Askers) \ Daemon : CrashOther(x)
  <2>1. UNCHANGED thread
    <3>1. ASSUME NEW X, CrashOf(X) PROVE UNCHANGED thread
      BY <3>1 DEF CrashOf, askRows
    <3> QED BY <1>8, <3>1, IndexLeavesThread DEF Crash, CrashOther, ExpireBill, vars, askRows
  <2> QED BY <1>3, <2>1
<1> QED BY <1>4, <1>5, <1>6, <1>7, <1>8 DEF Next

\* A thread that is about to save, or whose model reads the evidence, has proved
\* it just now, has been there before, or has none.
Proceeds(a) ==
  \/ asker'[a].at = "idle"
  \/ /\ asker[a].at # "idle" /\ asker'[a].heard = asker[a].heard
     /\ asker'[a].at \in {"calling", "save"} =>
          \/ asker'[a].evidence = {}
          \/ /\ asker'[a].evidence = asker[a].evidence
             /\ asker[a].at \in {"calling", "save"} \/ EvidenceCurrent(a)

\* Turns, Fails and their like lead to a phase in which nothing is saved yet.
LEMMA AskerMoves ==
  ASSUME AllTypesOK, NEW a \in Askers, asker[a].at # "idle",
         \/ \E phase \in {"renewquery", "retrieve", "renew", "validate"} : Turns(a, phase)
         \/ Fails(a) \/ Retrieved(a) \/ QueryMissed(a) \/ AnswerMissed(a)
  PROVE  \A b \in Askers : Proceeds(b)
<1>1. asker \in [Askers -> Questions]
  BY DEF AllTypesOK, AskTypeOK
<1>2. ASSUME NEW phase \in {"query", "renewquery", "retrieve", "ask", "renew", "validate",
                            "release"},
             NEW turn,
             \/ Turns(a, phase)
             \/ asker' = [asker EXCEPT ![a].at = phase, ![a].turn = turn]
      PROVE  \A b \in Askers : Proceeds(b)
  <2>1. /\ asker'[a].at = phase /\ asker'[a].heard = asker[a].heard
    BY <1>1, <1>2 DEF Turns, Questions
  <2>2. Proceeds(a)
    BY <2>1 DEF Proceeds
  <2>3. ASSUME NEW b \in Askers, b # a PROVE asker'[b] = asker[b]
    BY <1>1, <1>2, <2>3 DEF Turns
  <2>4. ASSUME NEW b \in Askers, b # a PROVE Proceeds(b)
    BY <2>3, <2>4 DEF Proceeds
  <2> QED BY <2>2, <2>4
<1>3. CASE Fails(a)
  BY <1>2, <1>3 DEF Fails
<1>4. CASE Retrieved(a)
  BY <1>2, <1>3, <1>4 DEF Retrieved
<1>5. CASE QueryMissed(a)
  BY <1>2, <1>4, <1>5 DEF QueryMissed
<1>6. CASE AnswerMissed(a)
  BY <1>2, <1>3, <1>6 DEF AnswerMissed
<1> QED BY <1>2, <1>3, <1>4, <1>5, <1>6

LEMMA AskerStep ==
  ASSUME AllTypesOK, [Next]_vars, NEW a \in Askers
  PROVE  AskClaim(a) \/ Proceeds(a)
<1>1. asker \in [Askers -> Questions] /\ asker[a] \in Questions
  BY DEF AllTypesOK, AskTypeOK
<1>2. CASE asker'[a] = asker[a]
  BY <1>2 DEF Proceeds
<1>3. ASSUME NEW b \in Askers, b # a, AskClaim(b) PROVE asker'[a] = asker[a]
  BY <1>1, <1>3 DEF AskClaim
<1>4. ASSUME NEW b \in Askers, Answer(b) PROVE Proceeds(a)
  <2>1. asker[b].at # "idle"
    BY <1>4 DEF Answer, ReserveQuery, RenewQuery, Retrieve, QueryFails, ReserveAnswer,
                RenewAnswer, Validate, AnswerReturns, AnswerFails, Save, SaveRefused, Release, Is
  <2>2. CASE \/ ReserveQuery(b) \/ RenewQuery(b) \/ QueryFails(b) \/ ReserveAnswer(b)
             \/ RenewAnswer(b) \/ AnswerFails(b) \/ SaveRefused(b)
    BY <2>1, <2>2, AskerMoves DEF ReserveQuery, RenewQuery, QueryFails, ReserveAnswer,
                                  RenewAnswer, AnswerFails, SaveRefused
  <2>3. CASE Validate(b)
    <3>1. CASE ~EvidenceCurrent(b)
      BY <2>1, <2>3, <3>1, AskerMoves DEF Validate
    <3>2. CASE EvidenceCurrent(b)
      BY <1>1, <2>1, <2>3, <3>2 DEF Validate, Turns, Proceeds, Questions
    <3> QED BY <3>1, <3>2
  <2>4. CASE AnswerReturns(b)
    BY <1>1, <2>1, <2>4 DEF AnswerReturns, Is, Turns, Proceeds, Questions
  <2>5. CASE Retrieve(b)
    <3>1. ASSUME NEW phase, NEW turn, Hears(b, phase, turn)
          PROVE  /\ a # b => asker'[a] = asker[a]
                 /\ asker'[b].at = phase /\ asker'[b].evidence = Heard(b)
                 /\ asker'[b].heard = asker[b].heard
      BY <1>1, <3>1 DEF Hears, Questions
    <3>2. \E phase \in {"query", "ask", "save"} : \E turn :
             Hears(b, phase, turn) /\ (phase = "save" => Heard(b) = {})
      BY <2>5 DEF Retrieve
    <3> QED BY <2>1, <3>1, <3>2 DEF Proceeds
  <2>6. CASE Save(b) \/ Release(b)
    BY <1>1, <2>6 DEF Save, Release, Quit, Proceeds
  <2> QED BY <1>4, <2>2, <2>3, <2>4, <2>5, <2>6 DEF Answer
<1>5. ASSUME NEW X, CrashOf(X) PROVE Proceeds(a)
  BY <1>1, <1>5 DEF CrashOf, Stopped, Quit, Proceeds
<1>6. CASE Crash \/ \E x \in (Indexers \cup Askers) \ Daemon : CrashOther(x)
  BY <1>5, <1>6 DEF Crash, CrashOther
<1>7. CASE UNCHANGED asker
  BY <1>2, <1>7
<1>8. CASE DeleteThread \/ ExpireThread \/ StartUp \/ (\E b \in Askers : ExpireBill(b))
           \/ UNCHANGED vars
  BY <1>7, <1>8 DEF DeleteThread, ExpireThread, StartUp, ExpireBill, vars
<1> QED BY <1>2, <1>3, <1>4, <1>6, <1>7, <1>8 DEF Next

\* While a conversation is held, no step of the index takes the evidence away.
LEMMA IndexHoldsEvidence ==
  ASSUME AllTypesOK, SearchInv, AskActive, IndexNext,
         NEW e \in Evidence, e.note \notin Generated, Stands(e)
  PROVE  Stands(e)'
<1> DEFINE n == e.note
<1>1. /\ n \in Notes /\ note[n].status = "live" /\ note[n].version = e.version
      /\ doc[n].status # "none" /\ doc[n].gen = e.gen /\ doc[n].version = e.version
      /\ n \notin Generated
  BY DEF Stands, Evidence
<1>2. TypeOK /\ FollowsNote(n)
  BY <1>1 DEF AllTypesOK, SearchInv
<1> HIDE DEF n
<1>3. SUFFICES /\ note'[n].status = "live" /\ note'[n].version = note[n].version
               /\ doc'[n].status # "none" /\ doc'[n].gen = doc[n].gen
               /\ doc'[n].version = doc[n].version
  BY <1>1 DEF Stands, n
<1>4. ASSUME doc'[n] = doc[n], note'[n] = note[n]
      PROVE  /\ note'[n].status = "live" /\ note'[n].version = note[n].version
             /\ doc'[n].status # "none" /\ doc'[n].gen = doc[n].gen
             /\ doc'[n].version = doc[n].version
  BY <1>1, <1>4
<1>5. ASSUME NEW m \in Notes, EditNote(m) \/ DeleteNote(m) \/ PersistSummary(m) \/ ChangeProfile
      PROVE  FALSE
  BY <1>5 DEF EditNote, DeleteNote, PersistSummary, ChangeProfile, ProfileIdle, Free
<1>6. ASSUME NEW m \in Notes,
             \/ CreateNote(m) \/ RerunSummary(m) \/ FailSummary(m)
             \/ \E marked \in BOOLEAN : Invalidate(m, marked)
      PROVE  doc'[n] = doc[n] /\ note'[n] = note[n]
  <2>1. m # n
    BY <1>1, <1>6 DEF CreateNote, RerunSummary, FailSummary, Invalidate
  <2>2. note'[n] = note[n]
    BY <1>1, <1>2, <1>6, <2>1
       DEF CreateNote, RerunSummary, FailSummary, Invalidate, Sync, Revised, TypeOK
  <2>3. doc'[n] = doc[n]
    BY <1>1, <1>2, <1>6, <2>1
       DEF CreateNote, RerunSummary, FailSummary, Invalidate, Sync, TypeOK
  <2> QED BY <2>2, <2>3
<1>7. CASE Reconcile
  <2>1. Synced(n, note[n], profile) = doc[n]
    <3>1. doc[n].space # None => doc[n].space \in Allowed(profile)
      BY <1>2 DEF FollowsNote
    <3>2. doc[n].status = "completed" => doc[n].space # None
      BY <1>2 DEF FollowsNote
    <3>3. ~ProfileChanged(n, profile)
      BY <3>1, <3>2 DEF ProfileChanged
    <3> QED BY <1>1, <3>3 DEF Synced, Indexable
  <2>2. doc'[n] = doc[n] /\ note'[n] = note[n]
    BY <1>1, <1>7, <2>1 DEF Reconcile, Sync
  <2> QED BY <1>4, <2>2
<1>8. ASSUME NEW w \in Indexers, NEW m \in Notes, Claim(w, m) \/ ClaimDeletes(w, m)
      PROVE  /\ note' = note /\ doc'[n].status # "none" /\ doc'[n].gen = doc[n].gen
             /\ doc'[n].version = doc[n].version
  <2>1. CASE Claim(w, m)
    <3>1. \E t \in Tokens, s \in Spaces :
             doc' = [doc EXCEPT ![m].status = "running", ![m].token = t, ![m].live = TRUE,
                                ![m].space = s]
      <4>1. Candidates(profile)[1] \in Spaces
        BY <1>2, CandidateTypes DEF TypeOK
      <4>2. (CHOOSE t \in Tokens : Spare(t)) \in Tokens
        BY <2>1 DEF Claim
      <4> QED BY <2>1, <4>1, <4>2 DEF Claim
    <3>2. note' = note
      BY <2>1 DEF Claim
    <3> QED BY <1>1, <1>2, <3>1, <3>2 DEF TypeOK, Documents
  <2>2. CASE ClaimDeletes(w, m)
    <3>1. m # n /\ note' = note
      BY <1>1, <2>2 DEF ClaimDeletes, IsCurrent, Indexable
    <3>2. doc'[n] = doc[n]
      BY <1>1, <1>2, <2>2, <3>1 DEF ClaimDeletes, TypeOK
    <3> QED BY <1>1, <3>1, <3>2
  <2> QED BY <1>8, <2>1, <2>2
<1>9. ASSUME NEW w \in Indexers, Index(w)
      PROVE  /\ note' = note /\ doc'[n].status # "none" /\ doc'[n].gen = doc[n].gen
             /\ doc'[n].version = doc[n].version
  <2>1. note' = note
    BY <1>9 DEF Index, DispatchSuperseded, DispatchRefused, Dispatch, CallReturns, CallFails,
                Publish, FailDocument
  <2>2. CASE doc' = Returned(w)
    BY <1>1, <1>2, <2>1, <2>2 DEF Returned, TypeOK, Documents
  <2>3. CASE UNCHANGED doc
    BY <1>1, <2>1, <2>3
  <2>4. CASE Publish(w) /\ Holds(w)
    BY <1>1, <1>2, <2>1, <2>4 DEF Publish, TypeOK, Documents
  <2>5. CASE FailDocument(w)
    BY <1>1, <1>2, <2>1, <2>5 DEF FailDocument, TypeOK, Documents
  <2> QED BY <1>9, <2>2, <2>3, <2>4, <2>5
          DEF Index, DispatchSuperseded, DispatchRefused, Dispatch, CallReturns, CallFails, Publish
<1>10. ASSUME NEW m \in Notes, RetryDue(m) \/ ExpireClaim(m)
       PROVE  /\ note' = note /\ doc'[n].status # "none" /\ doc'[n].gen = doc[n].gen
              /\ doc'[n].version = doc[n].version
  <2>1. CASE RetryDue(m)
    BY <1>1, <1>2, <2>1 DEF RetryDue, TypeOK, Documents
  <2>2. CASE ExpireClaim(m)
    BY <1>1, <1>2, <2>2 DEF ExpireClaim, TypeOK, Documents
  <2> QED BY <1>10, <2>1, <2>2
<1>11. ASSUME NEW t \in Tokens, NEW s \in Spaces, ExpireRow(t, s)
       PROVE  doc' = doc /\ note' = note
  BY <1>11 DEF ExpireRow
<1> QED BY <1>1, <1>4, <1>5, <1>6, <1>7, <1>8, <1>9, <1>10, <1>11 DEF IndexNext

LEMMA EvidenceStep ==
  AllTypesOK /\ SearchInv /\ EvidenceStands /\ [Next]_vars => EvidenceStands'
<1> SUFFICES ASSUME AllTypesOK, SearchInv, EvidenceStands, [Next]_vars, NEW a \in Askers,
                    Owns(a)', asker'[a].at \in {"calling", "save"},
                    NEW e \in asker'[a].evidence, e.note \notin Generated
             PROVE  Stands(e)'
  BY DEF EvidenceStands
<1>1. asker[a].evidence \subseteq Evidence
  BY DEF AllTypesOK, AskTypeOK, Questions
<1>2. ~AskClaim(a)
  <2>1. SUFFICES ASSUME AskClaim(a) PROVE asker'[a].at = "query"
    OBVIOUS
  <2>2. asker \in [Askers -> Questions]
    BY DEF AllTypesOK, AskTypeOK
  <2>3. asker'[a] = [Quit EXCEPT !.at = "query", !.plan = profile, !.heard = thread.turns,
                                 !.created = ~thread.present]
    BY <2>1, <2>2 DEF AskClaim
  <2> QED BY <2>3 DEF Quit
<1>3. Owns(a) /\ Proceeds(a)
  BY <1>2, OwnerStep, AskerStep
<1>4. /\ e \in asker[a].evidence
      /\ asker[a].at \in {"calling", "save"} \/ EvidenceCurrent(a)
  BY <1>3 DEF Proceeds
<1>5. Stands(e) /\ AskActive
  <2>1. Stands(e)
    BY <1>3, <1>4 DEF EvidenceStands, EvidenceCurrent
  <2>2. AskActive
    BY <1>3, NoneAssumption DEF Owns, AskActive
  <2> QED BY <2>1, <2>2
<1>6. CASE IndexNext
  BY <1>1, <1>4, <1>5, <1>6, IndexHoldsEvidence
<1>7. CASE UNCHANGED <<note, doc>>
  BY <1>5, <1>7 DEF Stands
<1>8. ASSUME NEW b \in Askers, AskClaim(b) \/ Answer(b) \/ ExpireBill(b)
      PROVE  UNCHANGED <<note, doc>>
  BY <1>8 DEF AskClaim, Answer, ReserveQuery, RenewQuery, Retrieve, QueryFails, ReserveAnswer,
              RenewAnswer, Validate, AnswerReturns, AnswerFails, Save, SaveRefused, Release,
              ExpireBill, indexVars
<1>9. ASSUME NEW X, CrashOf(X) PROVE UNCHANGED <<note, doc>>
  BY <1>9 DEF CrashOf
<1>10. CASE DeleteThread \/ ExpireThread \/ StartUp \/ Crash \/ UNCHANGED vars
            \/ \E x \in (Indexers \cup Askers) \ Daemon : CrashOther(x)
  BY <1>7, <1>9, <1>10
     DEF DeleteThread, ExpireThread, StartUp, Crash, CrashOther, vars, indexVars
<1> QED BY <1>6, <1>7, <1>8, <1>10 DEF Next

\* The lease of a conversation keeps what its answer rests on: while the model
\* reads the evidence and until the answer is saved, no note a user wrote is edited,
\* deleted or indexed anew, however many conversations' threads and indexing threads
\* there are (reject_active_ask_evidence_mutation).
THEOREM EvidenceIsHeld == Spec => []EvidenceStands
<1>1. Init => EvidenceStands
  BY DEF Init, EvidenceStands, Quit
<1> QED BY <1>1, TypeCorrect, SearchInvHolds, EvidenceStep, PTL DEF Spec

LEMMA HistoryStep == AllTypesOK /\ AnswerFollowsHistory /\ [Next]_vars => AnswerFollowsHistory'
<1> SUFFICES ASSUME AllTypesOK, AnswerFollowsHistory, [Next]_vars, NEW a \in Askers,
                    Owns(a)', asker'[a].at # "idle"
             PROVE  asker'[a].heard = thread'.turns
  BY DEF AnswerFollowsHistory
<1>1. CASE AskClaim(a)
  <2>1. thread \in Threads /\ asker \in [Askers -> Questions]
    BY DEF AllTypesOK, TypeOK, AskTypeOK
  <2>2. thread'.turns = thread.turns
    BY <1>1, <2>1 DEF AskClaim, Threads
  <2>3. asker'[a].heard = thread.turns
    BY <1>1, <2>1 DEF AskClaim, Quit
  <2> QED BY <2>2, <2>3
<1>2. CASE ~AskClaim(a)
  BY <1>2, OwnerStep, AskerStep DEF Proceeds, AnswerFollowsHistory
<1> QED BY <1>1, <1>2

\* ask_in_thread: whoever may still save an answer has read the whole conversation,
\* through expired leases, requests that took over, crashes and recovery.
THEOREM AnswersFollow == Spec => []AnswerFollowsHistory
<1>1. Init => AnswerFollowsHistory
  BY DEF Init, AnswerFollowsHistory, Quit
<1> QED BY <1>1, TypeCorrect, HistoryStep, PTL DEF Spec


-----------------------------------------------------------------------------
(***************************************************************************)
(* One call per document.  A call that has not outlived its lease has its  *)
(* reservation, and while its attempt runs and the document is what it was *)
(* when it was claimed, the document still carries its token: whoever      *)
(* wants to claim it finds that reservation.                               *)
(***************************************************************************)

Busy(v)    == indexer[v].at # "idle"
Calling(v) == indexer[v].at = "calling" /\ ~indexer[v].overdue
Vouched(v) == Calling(v) /\ attempt[Mine(v)].status = "running"
SameDoc(v) == /\ attempt[Mine(v)].gen = doc[NoteOf(v)].gen
              /\ doc[NoteOf(v)].status # "none"

\* A thread at work has an attempt of its own, for a state its document has had.
ClaimFits(v) ==
  Busy(v) =>
    /\ up \/ v \notin Daemon
    /\ Mine(v) \in Tokens /\ NoteOf(v) \in Notes
    /\ attempt[Mine(v)].owner = v /\ attempt[Mine(v)].gen <= doc[NoteOf(v)].gen
    /\ \A w \in Indexers \ {v} : Busy(w) => Mine(w) # Mine(v)

CallFits(v) ==
  /\ Calling(v) => attempt[Mine(v)].rows[Candidate(v)] = "live"
  /\ Vouched(v) /\ SameDoc(v) => doc[NoteOf(v)].token = Mine(v)
  /\ \A w \in Indexers \ {v} : Vouched(v) /\ Vouched(w) /\ NoteOf(w) = NoteOf(v)
                                  => attempt[Mine(w)].gen # attempt[Mine(v)].gen

CallInv == \A v \in Indexers : ClaimFits(v) /\ CallFits(v)

\* What a step may do to a document: it changes its state, or leaves it with its
\* token, or takes the token of nobody who is calling.
DocGoesOn(n) ==
  /\ doc[n].gen <= doc'[n].gen
  /\ doc'[n].gen = doc[n].gen /\ doc'[n].status # "none" =>
       /\ doc[n].status # "none"
       /\ \/ doc'[n].token = doc[n].token
          \/ \A v \in Indexers : Vouched(v)' /\ NoteOf(v) = n => doc[n].token # Mine(v)

\* What it may do to a thread at work ...
WorkGoesOn(v) ==
  Busy(v)' =>
    /\ Busy(v) /\ (up' \/ v \notin Daemon)
    /\ indexer'[v].token = indexer[v].token /\ indexer'[v].note = indexer[v].note
    /\ attempt'[Mine(v)].gen = attempt[Mine(v)].gen
    /\ attempt'[Mine(v)].owner = attempt[Mine(v)].owner

\* ... and to one that calls.
CallGoesOn(v) ==
  Calling(v)' =>
    /\ Calling(v) /\ indexer'[v].plan = indexer[v].plan /\ indexer'[v].turn = indexer[v].turn
    /\ indexer'[v].token = indexer[v].token /\ indexer'[v].note = indexer[v].note
    /\ attempt'[Mine(v)].gen = attempt[Mine(v)].gen
    /\ attempt'[Mine(v)].rows[Candidate(v)] = "live"
    /\ (attempt'[Mine(v)].status = "running" => attempt[Mine(v)].status = "running")

LEMMA ClaimsStay ==
  ASSUME AllTypesOK, AllTypesOK', CallInv, \A n \in Notes : DocGoesOn(n),
         \A v \in Indexers : WorkGoesOn(v)
  PROVE  \A v \in Indexers : ClaimFits(v)'
<1> SUFFICES ASSUME NEW v \in Indexers, Busy(v)' PROVE ClaimFits(v)'
  BY DEF ClaimFits
<1>1. /\ ClaimFits(v) /\ Busy(v) /\ (up' \/ v \notin Daemon)
      /\ Mine(v)' = Mine(v) /\ NoteOf(v)' = NoteOf(v)
      /\ attempt'[Mine(v)].gen = attempt[Mine(v)].gen
      /\ attempt'[Mine(v)].owner = attempt[Mine(v)].owner
  BY DEF CallInv, WorkGoesOn, Mine, NoteOf
<1>2. ASSUME NEW w \in Indexers \ {v}, Busy(w)' PROVE Mine(w)' # Mine(v)'
  <2>1. Busy(w) /\ Mine(w)' = Mine(w)
    BY <1>2 DEF WorkGoesOn, Mine
  <2> QED BY <1>1, <2>1 DEF ClaimFits
<1>3. attempt'[Mine(v)].gen <= doc'[NoteOf(v)].gen
  <2>1. /\ attempt[Mine(v)].gen \in Nat /\ doc[NoteOf(v)].gen \in Nat
        /\ doc'[NoteOf(v)].gen \in Nat
    BY <1>1 DEF ClaimFits, AllTypesOK, TypeOK, Attempts, Documents
  <2>2. attempt[Mine(v)].gen <= doc[NoteOf(v)].gen /\ doc[NoteOf(v)].gen <= doc'[NoteOf(v)].gen
    BY <1>1 DEF ClaimFits, DocGoesOn
  <2> QED BY <1>1, <2>1, <2>2
<1> QED BY <1>1, <1>2, <1>3 DEF ClaimFits

LEMMA CallsStay ==
  ASSUME AllTypesOK, AllTypesOK', CallInv, \A n \in Notes : DocGoesOn(n),
         \A v \in Indexers : CallGoesOn(v)
  PROVE  \A v \in Indexers : CallFits(v)'
<1> SUFFICES ASSUME NEW v \in Indexers PROVE CallFits(v)'
  OBVIOUS
<1>1. ASSUME NEW u \in Indexers, Calling(u)'
      PROVE  /\ Calling(u) /\ ClaimFits(u) /\ CallFits(u) /\ Busy(u)
             /\ Mine(u)' = Mine(u) /\ NoteOf(u)' = NoteOf(u) /\ Candidate(u)' = Candidate(u)
             /\ attempt'[Mine(u)].gen = attempt[Mine(u)].gen
             /\ attempt'[Mine(u)].rows[Candidate(u)] = "live"
             /\ (attempt'[Mine(u)].status = "running" => attempt[Mine(u)].status = "running")
  BY <1>1 DEF CallInv, CallGoesOn, Mine, NoteOf, Candidate, Plan, Candidates, Calling, Busy
<1>2. Calling(v)' => (attempt[Mine(v)].rows[Candidate(v)])' = "live"
  BY <1>1
<1>3. ASSUME Vouched(v)', SameDoc(v)' PROVE (doc[NoteOf(v)].token)' = Mine(v)'
  <2>1. Calling(v)' /\ Vouched(v)
    BY <1>1, <1>3 DEF Vouched
  <2>2. /\ attempt[Mine(v)].gen \in Nat /\ doc[NoteOf(v)].gen \in Nat
        /\ doc'[NoteOf(v)].gen \in Nat /\ NoteOf(v) \in Notes
    BY <1>1, <2>1 DEF ClaimFits, AllTypesOK, TypeOK, Attempts, Documents
  <2>3. attempt[Mine(v)].gen = doc'[NoteOf(v)].gen /\ doc'[NoteOf(v)].status # "none"
    BY <1>1, <1>3, <2>1 DEF SameDoc
  <2>4. attempt[Mine(v)].gen <= doc[NoteOf(v)].gen /\ doc[NoteOf(v)].gen <= doc'[NoteOf(v)].gen
    BY <1>1, <2>1, <2>2 DEF ClaimFits, DocGoesOn
  <2>5. doc'[NoteOf(v)].gen = doc[NoteOf(v)].gen
    BY <2>2, <2>3, <2>4
  <2>6. doc[NoteOf(v)].token = Mine(v)
    BY <1>1, <2>1, <2>2, <2>3, <2>5 DEF DocGoesOn, CallFits, SameDoc
  <2>7. doc'[NoteOf(v)].token = doc[NoteOf(v)].token
    BY <1>3, <2>2, <2>3, <2>5, <2>6 DEF DocGoesOn
  <2> QED BY <1>1, <2>1, <2>6, <2>7
<1>4. ASSUME NEW w \in Indexers \ {v}, Vouched(v)', Vouched(w)', NoteOf(w)' = NoteOf(v)'
      PROVE  (attempt[Mine(w)].gen)' # (attempt[Mine(v)].gen)'
  <2>1. Vouched(v) /\ Vouched(w) /\ NoteOf(w) = NoteOf(v) /\ Calling(v)' /\ Calling(w)'
    BY <1>1, <1>4 DEF Vouched
  <2> QED BY <1>1, <2>1 DEF CallFits
<1> QED BY <1>2, <1>3, <1>4 DEF CallFits

\* A document that is reset is in a new state; one that is deleted is in none.
LEMMA ResetGoesOn ==
  ASSUME TypeOK, NEW n \in Notes,
         \/ doc'[n] = doc[n] \/ doc'[n] = Deleted(n)
         \/ \E version \in Nat : doc'[n] = Fresh(n, version)
  PROVE  DocGoesOn(n)
<1>1. doc[n].gen \in Nat
  BY DEF TypeOK, Documents
<1>2. CASE doc'[n] = doc[n]
  BY <1>1, <1>2 DEF DocGoesOn
<1>3. CASE doc'[n] = Deleted(n)
  <2>1. doc'[n].gen = doc[n].gen /\ doc'[n].status = "none"
    BY <1>3 DEF Deleted, NoDoc
  <2> QED BY <1>1, <2>1 DEF DocGoesOn
<1>4. ASSUME NEW version \in Nat, doc'[n] = Fresh(n, version) PROVE DocGoesOn(n)
  <2>1. doc'[n].gen = doc[n].gen + 1
    BY <1>4 DEF Fresh, NoDoc
  <2> QED BY <1>1, <2>1 DEF DocGoesOn
<1> QED BY <1>2, <1>3, <1>4

LEMMA SyncGoesOn ==
  ASSUME TypeOK, NEW S \in SUBSET Notes, NEW nts \in [Notes -> NoteRows], NEW p, Sync(S, nts, p)
  PROVE  \A n \in Notes : DocGoesOn(n)
<1> SUFFICES ASSUME NEW n \in Notes PROVE DocGoesOn(n)
  OBVIOUS
<1>1. nts[n].version \in Nat
  BY DEF NoteRows
<1>2. doc'[n] = doc[n] \/ doc'[n] = Synced(n, nts[n], p)
  BY DEF Sync
<1>3. \/ Synced(n, nts[n], p) = doc[n] \/ Synced(n, nts[n], p) = Deleted(n)
      \/ Synced(n, nts[n], p) = Fresh(n, nts[n].version)
  BY DEF Synced
<1> QED BY <1>1, <1>2, <1>3, ResetGoesOn

\* A step that does not touch the threads and their attempts.
LEMMA DocStepKeeps ==
  ASSUME AllTypesOK, AllTypesOK', CallInv, UNCHANGED <<attempt, indexer, up>>,
         \A n \in Notes : DocGoesOn(n)
  PROVE  CallInv'
<1>1. ASSUME NEW v \in Indexers PROVE WorkGoesOn(v) /\ CallGoesOn(v)
  <2>1. ClaimFits(v) /\ CallFits(v)
    BY DEF CallInv
  <2> QED BY <2>1 DEF WorkGoesOn, CallGoesOn, ClaimFits, CallFits, Busy, Calling, Mine, Candidate, Plan,
              Candidates
<1> QED BY <1>1, ClaimsStay, CallsStay DEF CallInv

LEMMA NoteStepKeepsCalls ==
  ASSUME AllTypesOK, AllTypesOK', CallInv, NEW n \in Notes,
         \/ CreateNote(n) \/ EditNote(n) \/ DeleteNote(n) \/ RerunSummary(n)
         \/ FailSummary(n) \/ PersistSummary(n) \/ \E marked \in BOOLEAN : Invalidate(n, marked)
  PROVE  CallInv'
<1> USE DEF AllTypesOK
<1>1. CASE CreateNote(n) \/ EditNote(n) \/ PersistSummary(n)
  <2>1. Sync({n}, Revised(n), profile) /\ UNCHANGED <<attempt, indexer, up>>
    BY <1>1 DEF CreateNote, EditNote, PersistSummary, Sync
  <2> QED BY <2>1, NoteTypes, SyncGoesOn, DocStepKeeps
<1>2. CASE DeleteNote(n)
  <2>1. Sync({n}, [note EXCEPT ![n].status = "none"], profile) /\ UNCHANGED <<attempt, indexer, up>>
    BY <1>2 DEF DeleteNote, Sync
  <2> QED BY <2>1, NoteTypes, SyncGoesOn, DocStepKeeps
<1>3. CASE RerunSummary(n) \/ FailSummary(n)
  <2>1. UNCHANGED <<doc, attempt, indexer, up>>
    BY <1>3 DEF RerunSummary, FailSummary
  <2> QED BY <2>1, ResetGoesOn, DocStepKeeps
<1>4. ASSUME NEW marked \in BOOLEAN, Invalidate(n, marked) PROVE CallInv'
  <2>1. UNCHANGED <<attempt, indexer, up>>
    BY <1>4 DEF Invalidate
  <2>2. ASSUME NEW m \in Notes PROVE doc'[m] = doc[m] \/ doc'[m] = Deleted(m)
    BY <1>4 DEF Invalidate, TypeOK
  <2> QED BY <2>1, <2>2, ResetGoesOn, DocStepKeeps
<1> QED BY <1>1, <1>2, <1>3, <1>4

LEMMA ProfileStepKeepsCalls ==
  ASSUME AllTypesOK, AllTypesOK', CallInv,
         \/ ChangeProfile \/ Reconcile \/ (UNCHANGED indexVars /\ UNCHANGED up)
         \/ \E n \in Notes : RetryDue(n) \/ ExpireClaim(n)
         \/ \E w \in Indexers, n \in Notes : ClaimDeletes(w, n)
  PROVE  CallInv'
<1> USE DEF AllTypesOK
<1>1. CASE ChangeProfile \/ Reconcile
  <2>1. PICK p : Sync(Notes, note, p) /\ UNCHANGED <<attempt, indexer, up>>
    BY <1>1 DEF ChangeProfile, Reconcile, Sync
  <2>2. note \in [Notes -> NoteRows]
    BY DEF TypeOK
  <2> QED BY <2>1, <2>2, SyncGoesOn, DocStepKeeps
<1>2. CASE UNCHANGED indexVars /\ UNCHANGED up
  BY <1>2, ResetGoesOn, DocStepKeeps DEF indexVars
<1>3. ASSUME NEW n \in Notes, RetryDue(n) \/ ExpireClaim(n) PROVE CallInv'
  <2>1. UNCHANGED <<attempt, indexer, up>>
    BY <1>3 DEF RetryDue, ExpireClaim
  <2>2. ASSUME NEW m \in Notes
        PROVE  /\ doc'[m].gen = doc[m].gen /\ doc'[m].status = doc[m].status
               /\ doc'[m].token = doc[m].token /\ doc[m].gen \in Nat
    BY <1>3 DEF RetryDue, ExpireClaim, TypeOK, Documents
  <2>3. ASSUME NEW m \in Notes PROVE DocGoesOn(m)
    BY <2>2 DEF DocGoesOn
  <2> QED BY <2>1, <2>3, DocStepKeeps
<1>4. ASSUME NEW w \in Indexers, NEW n \in Notes, ClaimDeletes(w, n) PROVE CallInv'
  <2>1. UNCHANGED <<attempt, indexer, up>>
    BY <1>4 DEF ClaimDeletes
  <2>2. ASSUME NEW m \in Notes PROVE doc'[m] = doc[m] \/ doc'[m] = Deleted(m)
    BY <1>4 DEF ClaimDeletes, TypeOK
  <2> QED BY <2>1, <2>2, ResetGoesOn, DocStepKeeps
<1> QED BY <1>1, <1>2, <1>3, <1>4

\* A thread that moves on without making a call leaves the calls of the others.
Moves(w) ==
  /\ Busy(w) /\ up' = up /\ ~Calling(w)'
  /\ (Busy(w)' => indexer'[w].token = Mine(w) /\ indexer'[w].note = NoteOf(w) /\ Runs(w))
  /\ \A v \in Indexers \ {w} : indexer'[v] = indexer[v]
  /\ \A t \in Tokens : \/ attempt'[t] = attempt[t]
                       \/ /\ t = Mine(w) /\ attempt'[t].gen = attempt[t].gen
                          /\ attempt'[t].owner = attempt[t].owner

LEMMA MoveGoesOn ==
  ASSUME AllTypesOK, AllTypesOK', CallInv, NEW w \in Indexers, Moves(w),
         \A n \in Notes : \/ DocGoesOn(n)
                          \/ /\ doc[n].token = Mine(w) /\ doc[n].status # "none"
                             /\ doc'[n].gen = doc[n].gen
  PROVE  CallInv'
<1>1. ASSUME NEW v \in Indexers \ {w}, Busy(v)
      PROVE  /\ Mine(v) \in Tokens /\ Mine(v) # Mine(w) /\ (up \/ v \notin Daemon)
             /\ attempt'[Mine(v)] = attempt[Mine(v)]
  BY <1>1 DEF CallInv, ClaimFits, Moves
<1>2. ASSUME NEW v \in Indexers PROVE WorkGoesOn(v)
  <2>1. CASE v = w
    <3>1. attempt'[Mine(w)].gen = attempt[Mine(w)].gen /\ attempt'[Mine(w)].owner = attempt[Mine(w)].owner
      BY DEF CallInv, ClaimFits, Moves
    <3>2. Busy(w)' => up' \/ w \notin Daemon
      BY DEF Moves, Runs
    <3> QED BY <2>1, <3>1, <3>2 DEF WorkGoesOn, Moves, Mine, NoteOf
  <2>2. CASE v # w
    <3>1. indexer'[v] = indexer[v] /\ up' = up
      BY <2>2 DEF Moves
    <3> QED BY <1>1, <2>2, <3>1 DEF WorkGoesOn, Busy
  <2> QED BY <2>1, <2>2
<1>3. ASSUME NEW v \in Indexers PROVE CallGoesOn(v)
  <2> SUFFICES ASSUME Calling(v)' PROVE CallGoesOn(v)
    BY DEF CallGoesOn
  <2>1. v # w /\ indexer'[v] = indexer[v]
    BY DEF Moves
  <2>2. Calling(v) /\ Busy(v)
    BY <2>1 DEF Calling, Busy
  <2>3. attempt[Mine(v)].rows[Candidate(v)] = "live"
    BY <2>2 DEF CallInv, CallFits
  <2> QED BY <1>1, <2>1, <2>2, <2>3 DEF CallGoesOn
<1>4. ASSUME NEW n \in Notes PROVE DocGoesOn(n)
  <2> SUFFICES ASSUME doc[n].token = Mine(w), doc[n].status # "none", doc'[n].gen = doc[n].gen
               PROVE  DocGoesOn(n)
    OBVIOUS
  <2>1. ASSUME NEW v \in Indexers, Vouched(v)' PROVE Mine(v) # Mine(w)
    <3>1. Calling(v)' /\ v # w
      BY <2>1 DEF Vouched, Moves
    <3>2. Busy(v)
      BY <1>3, <3>1 DEF CallGoesOn, Calling, Busy
    <3> QED BY <1>1, <3>1, <3>2
  <2>2. doc[n].gen \in Nat
    BY DEF AllTypesOK, TypeOK, Documents
  <2> QED BY <2>1, <2>2 DEF DocGoesOn
<1> QED BY <1>2, <1>3, <1>4, ClaimsStay, CallsStay DEF CallInv

LEMMA SettledKeeps ==
  ASSUME TypeOK, NEW t \in Tokens
  PROVE  Settled(t).gen = attempt[t].gen /\ Settled(t).owner = attempt[t].owner
<1> DEFINE cost == Max({attempt[t].cost, Cardinality(Rows(t))})
<1>1. Settled(t) = [attempt[t] EXCEPT !.status = "closed", !.rows = NoRows, !.cost = cost]
  BY DEF Settled
<1>2. attempt[t] \in Attempts
  BY DEF TypeOK
<1> HIDE DEF cost
<1> QED BY <1>1, <1>2 DEF Attempts

LEMMA OneSettled ==
  ASSUME TypeOK, NEW s \in Tokens, NEW new, attempt' = [attempt EXCEPT ![s] = new],
         new = attempt[s] \/ new = Settled(s)
  PROVE  \A t \in Tokens : attempt'[t] = attempt[t] \/ (t = s /\ attempt'[t] = Settled(t))
<1>1. attempt \in [Tokens -> Attempts]
  BY DEF TypeOK
<1>2. attempt'[s] = new /\ \A t \in Tokens \ {s} : attempt'[t] = attempt[t]
  BY <1>1
<1> SUFFICES ASSUME NEW t \in Tokens
             PROVE  attempt'[t] = attempt[t] \/ (t = s /\ attempt'[t] = Settled(t))
  OBVIOUS
<1>3. CASE t # s
  BY <1>2, <1>3
<1>4. CASE t = s
  <2>1. attempt'[s] = attempt[s] \/ attempt'[s] = Settled(s)
    BY <1>2
  <2> QED BY <1>4, <2>1, Zenon
<1> QED BY <1>3, <1>4

LEMMA JobMoves ==
  ASSUME TypeOK, NEW w \in Indexers, Runs(w), Busy(w), UNCHANGED up,
         \/ Goes(w, "failing") \/ Goes(w, "publish") \/ TriesNext(w) \/ Rests(w),
         \A t \in Tokens : \/ attempt'[t] = attempt[t]
                           \/ t = Mine(w) /\ attempt'[t] = Settled(t)
  PROVE  Moves(w)
<1>1. indexer \in [Indexers -> Jobs]
  BY DEF TypeOK
<1>2. ASSUME NEW t \in Tokens, attempt'[t] = Settled(t)
      PROVE  attempt'[t].gen = attempt[t].gen /\ attempt'[t].owner = attempt[t].owner
  BY <1>2, SettledKeeps
<1>3. ASSUME NEW phase \in {"failing", "publish"}, Goes(w, phase)
      PROVE  /\ indexer'[w].at = phase /\ indexer'[w].token = Mine(w) /\ indexer'[w].note = NoteOf(w)
             /\ \A v \in Indexers \ {w} : indexer'[v] = indexer[v]
  BY <1>1, <1>3 DEF Goes, Jobs, Mine, NoteOf
<1>4. CASE TriesNext(w)
  <2>1. CASE indexer[w].turn < Len(Plan(w))
    <3>1. indexer' = [indexer EXCEPT ![w].at = "embed", ![w].turn = @ + 1]
      BY <1>4, <2>1 DEF TriesNext
    <3>2. /\ indexer'[w].at = "embed" /\ indexer'[w].token = Mine(w) /\ indexer'[w].note = NoteOf(w)
          /\ \A v \in Indexers \ {w} : indexer'[v] = indexer[v]
      BY <1>1, <3>1 DEF Jobs, Mine, NoteOf
    <3> QED BY <1>2, <3>2 DEF Moves, Calling, Busy
  <2>2. CASE ~(indexer[w].turn < Len(Plan(w)))
    BY <1>2, <1>3, <1>4, <2>2 DEF TriesNext, Moves, Calling, Busy
  <2> QED BY <2>1, <2>2
<1>5. CASE Rests(w)
  <2>1. indexer'[w].at = "idle" /\ \A v \in Indexers \ {w} : indexer'[v] = indexer[v]
    BY <1>1, <1>5 DEF Rests, Idle
  <2> QED BY <1>2, <2>1 DEF Moves, Calling, Busy
<1> QED BY <1>2, <1>3, <1>4, <1>5 DEF Moves, Calling, Busy

\* The document a thread gives back carried its token.
LEMMA ReturnedGoesOn ==
  ASSUME TypeOK, SearchInv, NEW w \in Indexers, Busy(w), doc' = Returned(w), NEW n \in Notes
  PROVE  \/ DocGoesOn(n)
         \/ /\ doc[n].token = Mine(w) /\ doc[n].status # "none"
            /\ doc'[n].gen = doc[n].gen
<1>1. CASE n = NoteOf(w) /\ doc[n].token = Mine(w)
  <2>1. doc[n].status = "running"
    BY <1>1 DEF SearchInv, WorksForProfile, FollowsNote, Busy
  <2>2. doc'[n] = [doc[n] EXCEPT !.status = "pending", !.token = None, !.live = FALSE]
    BY <1>1 DEF Returned
  <2> QED BY <1>1, <2>1, <2>2 DEF TypeOK, Documents
<1>2. CASE ~(n = NoteOf(w) /\ doc[n].token = Mine(w))
  BY <1>2, ResetGoesOn DEF Returned
<1> QED BY <1>1, <1>2

LEMMA IndexKeepsCalls ==
  ASSUME AllTypesOK, AllTypesOK', SearchInv, CallInv, NEW w \in Indexers, Index(w), ~Dispatch(w)
  PROVE  CallInv'
<1> USE DEF AllTypesOK
<1>1. attempt \in [Tokens -> Attempts] /\ doc \in [Notes -> Documents]
  BY DEF TypeOK
<1>2. Runs(w) /\ Busy(w)
  BY DEF Index, DispatchSuperseded, DispatchRefused, CallReturns, CallFails, Publish, FailDocument,
         At, Busy
<1>3. Mine(w) \in Tokens /\ NoteOf(w) \in Notes
  BY <1>2 DEF CallInv, ClaimFits
<1>4. CASE DispatchSuperseded(w)
  <2>1. /\ attempt' = [attempt EXCEPT ![Mine(w)] = SettleIfRunning(Mine(w))] /\ doc' = Returned(w)
        /\ UNCHANGED up /\ Goes(w, "failing")
    BY <1>4 DEF DispatchSuperseded
  <2>2. \A t \in Tokens : attempt'[t] = attempt[t] \/ (t = Mine(w) /\ attempt'[t] = Settled(t))
    BY <1>3, <2>1, OneSettled DEF SettleIfRunning
  <2> QED BY <1>2, <2>1, <2>2, JobMoves, ReturnedGoesOn, MoveGoesOn
<1>5. CASE DispatchRefused(w) \/ CallReturns(w) \/ CallFails(w)
  <2>1. UNCHANGED <<attempt, doc, up>> /\ (Goes(w, "failing") \/ Goes(w, "publish") \/ TriesNext(w))
    BY <1>5 DEF DispatchRefused, CallReturns, CallFails
  <2> QED BY <1>2, <2>1, JobMoves, ResetGoesOn, MoveGoesOn
<1>6. CASE Publish(w)
  <2>1. /\ attempt' = [attempt EXCEPT ![Mine(w)] = Settled(Mine(w))] /\ UNCHANGED up /\ Rests(w)
    BY <1>6 DEF Publish
  <2>2. \A t \in Tokens : attempt'[t] = attempt[t] \/ (t = Mine(w) /\ attempt'[t] = Settled(t))
    BY <1>3, <2>1, OneSettled
  <2>3. Moves(w)
    BY <1>2, <2>1, <2>2, JobMoves
  <2>4. CASE ~Holds(w)
    BY <1>2, <1>6, <2>3, <2>4, ReturnedGoesOn, MoveGoesOn DEF Publish
  <2>5. CASE Holds(w)
    <3>1. doc' = [doc EXCEPT ![NoteOf(w)].status = "completed", ![NoteOf(w)].token = None,
                     ![NoteOf(w)].live = FALSE, ![NoteOf(w)].wait = FALSE,
                     ![NoteOf(w)].space = Candidate(w)]
      BY <1>6, <2>5 DEF Publish
    <3>2. doc[NoteOf(w)].token = Mine(w) /\ doc[NoteOf(w)].status = "running"
      BY <1>2, <1>3, <2>5 DEF Holds, SearchInv, WorksForProfile, FollowsNote, Busy
    <3>3. doc'[NoteOf(w)].gen = doc[NoteOf(w)].gen /\ \A n \in Notes \ {NoteOf(w)} : doc'[n] = doc[n]
      BY <1>1, <1>3, <3>1 DEF Documents
    <3> QED BY <2>3, <3>2, <3>3, ResetGoesOn, MoveGoesOn
  <2> QED BY <2>4, <2>5
<1>7. CASE FailDocument(w)
  <2>1. /\ attempt' = [attempt EXCEPT ![Mine(w)] = SettleIfRunning(Mine(w))]
        /\ UNCHANGED up /\ Rests(w)
    BY <1>7 DEF FailDocument
  <2>2. \A t \in Tokens : attempt'[t] = attempt[t] \/ (t = Mine(w) /\ attempt'[t] = Settled(t))
    BY <1>3, <2>1, OneSettled DEF SettleIfRunning
  <2>3. ASSUME NEW n \in Notes
        PROVE  \/ DocGoesOn(n)
               \/ doc[n].token = Mine(w) /\ doc[n].status # "none" /\ doc'[n].gen = doc[n].gen
    <3>1. CASE n = NoteOf(w) /\ doc[n].token = Mine(w) /\ doc[n].live
      <4>1. doc[n].status = "running"
        BY <3>1 DEF SearchInv, FollowsNote
      <4>2. doc' = [doc EXCEPT ![n].status = "failed", ![n].wait = TRUE, ![n].token = None,
                               ![n].live = FALSE]
        BY <1>7, <3>1 DEF FailDocument
      <4> QED BY <1>1, <3>1, <4>1, <4>2 DEF Documents
    <3>2. CASE ~(n = NoteOf(w) /\ doc[n].token = Mine(w) /\ doc[n].live)
      <4>1. doc'[n] = doc[n]
        BY <1>1, <1>7, <3>2 DEF FailDocument
      <4> QED BY <4>1, ResetGoesOn
    <3> QED BY <3>1, <3>2
  <2> QED BY <1>2, <2>1, <2>2, <2>3, JobMoves, MoveGoesOn
<1> QED BY <1>4, <1>5, <1>6, <1>7 DEF Index

\* A call starts under the token of its document, with its reservation.
LEMMA DispatchKeepsCalls ==
  ASSUME AllTypesOK, AllTypesOK', SearchInv, CallInv, NEW w \in Indexers, Dispatch(w)
  PROVE  CallInv'
<1>1. /\ attempt \in [Tokens -> Attempts] /\ indexer \in [Indexers -> Jobs]
      /\ Candidate(w) \in Spaces
  BY CandidateType DEF AllTypesOK, TypeOK
<1>2. /\ Busy(w) /\ Runs(w) /\ Holds(w) /\ attempt[Mine(w)].status = "running"
      /\ attempt' = [attempt EXCEPT ![Mine(w)].rows[Candidate(w)] = "live"]
      /\ indexer' = [indexer EXCEPT ![w].at = "calling", ![w].overdue = FALSE]
      /\ UNCHANGED <<doc, up>>
  BY DEF Dispatch, At, Busy, MayDispatch
<1>3. Mine(w) \in Tokens /\ NoteOf(w) \in Notes
  BY <1>2 DEF CallInv, ClaimFits
<1>4. /\ \A t \in Tokens : /\ attempt'[t].gen = attempt[t].gen /\ attempt'[t].owner = attempt[t].owner
                           /\ attempt'[t].status = attempt[t].status
      /\ \A t \in Tokens \ {Mine(w)} : attempt'[t] = attempt[t]
      /\ attempt'[Mine(w)].rows[Candidate(w)] = "live"
  BY <1>1, <1>2, <1>3 DEF Attempts
<1>5. /\ indexer'[w].token = indexer[w].token /\ indexer'[w].note = indexer[w].note
      /\ indexer'[w].plan = indexer[w].plan /\ indexer'[w].turn = indexer[w].turn
      /\ \A v \in Indexers \ {w} : indexer'[v] = indexer[v]
  BY <1>1, <1>2 DEF Jobs
<1>6. ASSUME NEW v \in Indexers
      PROVE  /\ Mine(v)' = Mine(v) /\ NoteOf(v)' = NoteOf(v) /\ Candidate(v)' = Candidate(v)
             /\ (Busy(v)' => Busy(v)) /\ (v # w => (Calling(v)' <=> Calling(v)))
  BY <1>2, <1>5 DEF Mine, NoteOf, Candidate, Plan, Candidates, Busy, Calling
<1>7. ASSUME NEW n \in Notes PROVE DocGoesOn(n)
  BY <1>2, ResetGoesOn DEF AllTypesOK
<1>8. ASSUME NEW v \in Indexers PROVE WorkGoesOn(v)
  <2>1. Busy(v) => Mine(v) \in Tokens /\ (up \/ v \notin Daemon)
    BY DEF CallInv, ClaimFits
  <2> QED BY <1>2, <1>4, <1>6, <2>1 DEF WorkGoesOn, Mine, NoteOf
<1>9. ASSUME NEW v \in Indexers, v # w, Calling(v)
      PROVE  /\ Mine(v) \in Tokens /\ Mine(v) # Mine(w) /\ attempt'[Mine(v)] = attempt[Mine(v)]
             /\ CallFits(v) /\ (Vouched(v)' <=> Vouched(v))
  <2>1. Busy(v)
    BY <1>9 DEF Calling, Busy
  <2>2. Mine(v) \in Tokens /\ Mine(v) # Mine(w) /\ CallFits(v)
    BY <1>2, <1>9, <2>1 DEF CallInv, ClaimFits
  <2>3. attempt'[Mine(v)] = attempt[Mine(v)]
    BY <1>4, <2>2
  <2> QED BY <1>6, <1>9, <2>2, <2>3 DEF Vouched
\* The other calls for the same note are for another state of it.
<1>10. ASSUME NEW v \in Indexers, v # w, Vouched(v), NoteOf(v) = NoteOf(w)
       PROVE  attempt[Mine(v)].gen # attempt[Mine(w)].gen
  <2>1. doc[NoteOf(w)].token = Mine(w) /\ doc[NoteOf(w)].gen = attempt[Mine(w)].gen
    BY <1>2 DEF Holds
  <2>2. doc[NoteOf(w)].status # "none"
    BY <1>2, <1>3, <2>1 DEF SearchInv, WorksForProfile, FollowsNote, Busy
  <2>3. Mine(v) # Mine(w) /\ CallFits(v)
    BY <1>9, <1>10 DEF Vouched
  <2> QED BY <1>10, <2>1, <2>2, <2>3 DEF CallFits, SameDoc
<1>11. ASSUME NEW v \in Indexers PROVE CallFits(v)'
  <2>1. Calling(v)' => (attempt[Mine(v)].rows[Candidate(v)])' = "live"
    <3>1. CASE v = w
      BY <1>4, <1>6, <3>1
    <3>2. CASE v # w
      BY <1>6, <1>9, <3>2 DEF CallFits
    <3> QED BY <3>1, <3>2
  <2>2. Vouched(v)' /\ SameDoc(v)' => (doc[NoteOf(v)].token)' = Mine(v)'
    <3>1. CASE v = w
      BY <1>2, <1>6, <3>1 DEF Holds
    <3>2. CASE v # w
      <4>1. Vouched(v)' => Calling(v)
        BY <1>6, <3>2 DEF Vouched
      <4> QED BY <1>2, <1>6, <1>9, <3>2, <4>1 DEF CallFits, SameDoc
    <3> QED BY <3>1, <3>2
  <2>3. ASSUME NEW u \in Indexers \ {v}, Vouched(v)', Vouched(u)', NoteOf(u)' = NoteOf(v)'
        PROVE  (attempt[Mine(u)].gen)' # (attempt[Mine(v)].gen)'
    <3>1. \A x \in {u, v} : (attempt[Mine(x)].gen)' = attempt[Mine(x)].gen
      <4>1. ASSUME NEW x \in {u, v} PROVE Mine(x) \in Tokens
        BY <1>3, <1>6, <1>9, <2>3 DEF Vouched
      <4> QED BY <1>4, <1>6, <4>1
    <3>2. ASSUME NEW x \in {u, v}, x # w PROVE Vouched(x) /\ CallFits(x)
      BY <1>6, <1>9, <2>3, <3>2 DEF Vouched
    <3>3. NoteOf(u) = NoteOf(v)
      BY <1>6, <2>3
    <3>4. CASE v = w
      BY <1>10, <3>1, <3>2, <3>3, <3>4
    <3>5. CASE u = w
      BY <1>10, <3>1, <3>2, <3>3, <3>5
    <3>6. CASE u # w /\ v # w
      BY <3>1, <3>2, <3>3, <3>6 DEF CallFits
    <3> QED BY <3>4, <3>5, <3>6
  <2> QED BY <2>1, <2>2, <2>3 DEF CallFits
<1> QED BY <1>7, <1>8, <1>11, ClaimsStay DEF CallInv

\* A claim draws a token nobody has, and displaces nobody who is calling.
LEMMA ClaimKeepsCalls ==
  ASSUME AllTypesOK, AllTypesOK', CallInv, NEW w \in Indexers, NEW n \in Notes, Claim(w, n)
  PROVE  CallInv'
<1> DEFINE t == CHOOSE t \in Tokens : Spare(t)
           space == Candidates(profile)[1]
           job == [at |-> "embed", token |-> t, note |-> n, version |-> doc[n].version,
                   plan |-> profile, turn |-> 1, overdue |-> FALSE]
           new == [NoAttempt EXCEPT !.status = "running", !.gen = doc[n].gen, !.owner = w]
<1>1. t \in Tokens /\ Spare(t)
  BY DEF Claim
<1>2. /\ attempt \in [Tokens -> Attempts] /\ indexer \in [Indexers -> Jobs]
      /\ doc \in [Notes -> Documents]
  BY DEF AllTypesOK, TypeOK
<1>3. /\ doc' = [doc EXCEPT ![n].status = "running", ![n].token = t, ![n].live = TRUE,
                            ![n].space = space]
      /\ indexer' = [indexer EXCEPT ![w] = job] /\ UNCHANGED up
      /\ ~Busy(w) /\ Runs(w) /\ doc[n].status # "none" /\ Quiet(n)
  BY DEF Claim, At, Busy, Due
<1>4. attempt' = [u \in Tokens |-> IF u = t THEN new
                                  ELSE IF u \in Displaced(n) THEN Settled(u) ELSE attempt[u]]
  BY DEF Claim
<1>5. new.gen = doc[n].gen /\ new.owner = w
  BY DEF NoAttempt
<1> HIDE DEF t, space, job, new
<1>6. \A v \in Indexers \ {w} : indexer'[v] = indexer[v] /\ Mine(v) # t
  BY <1>1, <1>2, <1>3 DEF Spare
<1>7. /\ indexer'[w] = job /\ job.at = "embed" /\ job.token = t /\ job.note = n
  BY <1>2, <1>3 DEF job
<1>8. ASSUME NEW u \in Tokens \ {t}
      PROVE  /\ attempt'[u].gen = attempt[u].gen /\ attempt'[u].owner = attempt[u].owner
             /\ (u \notin Displaced(n) => attempt'[u] = attempt[u])
  BY <1>4, SettledKeeps DEF AllTypesOK
<1>9. attempt'[t] = new
  BY <1>1, <1>4
\* Whoever calls has a row, so its attempt is not displaced ...
<1>10. ASSUME NEW v \in Indexers, Calling(v)
       PROVE  /\ v # w /\ Mine(v) \in Tokens \ {t} /\ Mine(v) \notin Displaced(n)
              /\ attempt[Mine(v)].rows[Candidate(v)] = "live"
  <2>1. Busy(v) /\ v # w
    BY <1>3, <1>10 DEF Calling, Busy
  <2>2. Mine(v) \in Tokens \ {t} /\ attempt[Mine(v)].rows[Candidate(v)] = "live"
    BY <1>6, <1>10, <2>1 DEF CallInv, ClaimFits, CallFits
  <2>3. Active(Mine(v))
    BY <2>2, CandidateType DEF AllTypesOK, Active
  <2> QED BY <1>3, <2>1, <2>2, <2>3 DEF Quiet
<1>11. ASSUME NEW v \in Indexers PROVE CallGoesOn(v)
  <2> SUFFICES ASSUME Calling(v)' PROVE CallGoesOn(v)
    BY DEF CallGoesOn
  <2>1. v # w
    BY <1>7 DEF Calling
  <2>2. indexer'[v] = indexer[v] /\ Calling(v)
    BY <1>6, <2>1 DEF Calling
  <2>3. attempt'[Mine(v)] = attempt[Mine(v)]
    BY <1>8, <1>10, <2>2
  <2> QED BY <1>10, <2>2, <2>3 DEF CallGoesOn
\* ... and the document did not carry its token, if its attempt runs.
<1>12. ASSUME NEW m \in Notes PROVE DocGoesOn(m)
  <2>1. doc[m].gen \in Nat
    BY <1>2 DEF Documents
  <2>2. CASE m # n
    BY <1>2, <1>3, <2>1, <2>2 DEF DocGoesOn
  <2>3. CASE m = n
    <3>1. doc'[n].gen = doc[n].gen
      BY <1>2, <1>3 DEF Documents
    <3>2. ASSUME NEW v \in Indexers, Vouched(v)' PROVE doc[n].token # Mine(v)
      <4>1. Calling(v)' /\ Calling(v) /\ indexer'[v].token = indexer[v].token
        BY <1>11, <3>2 DEF Vouched, CallGoesOn
      <4>2. Mine(v) \in Tokens \ {t} /\ Mine(v) \notin Displaced(n)
        BY <1>10, <4>1
      <4>3. attempt[Mine(v)].status = "running"
        BY <1>8, <3>2, <4>1, <4>2 DEF Vouched, Mine
      <4> QED BY <4>2, <4>3 DEF Displaced
    <3> QED BY <1>3, <2>1, <2>3, <3>1, <3>2 DEF DocGoesOn
  <2> QED BY <2>2, <2>3
<1>13. ASSUME NEW v \in Indexers PROVE ClaimFits(v)'
  <2>1. CASE v = w
    <3>1. Mine(v)' = t /\ NoteOf(v)' = n
      BY <1>7, <2>1 DEF Mine, NoteOf
    <3>2. attempt'[t].owner = w /\ attempt'[t].gen <= doc'[n].gen
      <4>1. doc'[n].gen = doc[n].gen /\ doc[n].gen \in Nat
        BY <1>2, <1>3 DEF Documents
      <4> QED BY <1>5, <1>9, <4>1
    <3>3. \A u \in Indexers \ {v} : Mine(u)' # t
      BY <1>6, <2>1 DEF Mine
    <3> QED BY <1>1, <1>3, <2>1, <3>1, <3>2, <3>3 DEF ClaimFits, Runs
  <2>2. CASE v # w
    <3> SUFFICES ASSUME Busy(v)' PROVE ClaimFits(v)'
      BY DEF ClaimFits
    <3>1. Mine(v)' = Mine(v) /\ NoteOf(v)' = NoteOf(v) /\ Busy(v)
      BY <1>6, <2>2 DEF Mine, NoteOf, Busy
    <3>2. ClaimFits(v) /\ Mine(v) \in Tokens \ {t} /\ NoteOf(v) \in Notes
      BY <1>6, <2>2, <3>1 DEF CallInv, ClaimFits
    <3>3. attempt'[Mine(v)].gen = attempt[Mine(v)].gen /\ attempt'[Mine(v)].owner = attempt[Mine(v)].owner
      BY <1>8, <3>2
    <3>4. attempt[Mine(v)].gen \in Nat /\ doc[NoteOf(v)].gen \in Nat /\ doc'[NoteOf(v)].gen \in Nat
      BY <1>2, <3>2 DEF Attempts, Documents, AllTypesOK, TypeOK
    <3>5. attempt'[Mine(v)].gen <= doc'[NoteOf(v)].gen
      BY <1>12, <3>1, <3>2, <3>3, <3>4 DEF ClaimFits, DocGoesOn
    <3>6. ASSUME NEW u \in Indexers \ {v}, Busy(u)' PROVE Mine(u)' # Mine(v)
      <4>1. CASE u = w
        BY <1>7, <3>2, <4>1 DEF Mine
      <4>2. CASE u # w
        BY <1>6, <3>1, <3>2, <3>6, <4>2 DEF Mine, Busy, ClaimFits
      <4> QED BY <4>1, <4>2
    <3> QED BY <1>3, <3>1, <3>2, <3>3, <3>5, <3>6 DEF ClaimFits
  <2> QED BY <2>1, <2>2
<1> QED BY <1>11, <1>12, <1>13, CallsStay DEF CallInv

\* A lease that lapses under a call makes it overdue.
LEMMA ExpiryKeepsCalls ==
  ASSUME AllTypesOK, AllTypesOK', CallInv, NEW t \in Tokens, NEW s \in Spaces, ExpireRow(t, s)
  PROVE  CallInv'
<1>1. /\ attempt \in [Tokens -> Attempts] /\ indexer \in [Indexers -> Jobs]
  BY DEF AllTypesOK, TypeOK
<1>2. /\ attempt' = [attempt EXCEPT ![t].rows[s] = "lapsed"] /\ UNCHANGED <<doc, up>>
      /\ indexer' = [w \in Indexers |-> IF Mine(w) = t /\ Candidate(w) = s
                                        THEN [indexer[w] EXCEPT !.overdue = TRUE] ELSE indexer[w]]
  BY DEF ExpireRow
<1>3. ASSUME NEW u \in Tokens
      PROVE  /\ attempt'[u].gen = attempt[u].gen /\ attempt'[u].owner = attempt[u].owner
             /\ attempt'[u].status = attempt[u].status
             /\ \A r \in Spaces : u # t \/ r # s => attempt'[u].rows[r] = attempt[u].rows[r]
  BY <1>1, <1>2 DEF Attempts
<1>4. ASSUME NEW v \in Indexers
      PROVE  /\ indexer'[v].at = indexer[v].at /\ indexer'[v].token = indexer[v].token
             /\ indexer'[v].note = indexer[v].note /\ indexer'[v].plan = indexer[v].plan
             /\ indexer'[v].turn = indexer[v].turn
             /\ (~indexer'[v].overdue => ~indexer[v].overdue /\ ~(Mine(v) = t /\ Candidate(v) = s))
  BY <1>1, <1>2 DEF Jobs
<1>5. ASSUME NEW v \in Indexers PROVE WorkGoesOn(v) /\ CallGoesOn(v)
  <2>1. Busy(v) => Mine(v) \in Tokens /\ (up \/ v \notin Daemon)
    BY DEF CallInv, ClaimFits
  <2>2. WorkGoesOn(v)
    BY <1>2, <1>3, <1>4, <2>1 DEF WorkGoesOn, Busy
  <2>3. ASSUME Calling(v)' PROVE CallGoesOn(v)
    <3>1. Calling(v) /\ Busy(v) /\ ~(Mine(v) = t /\ Candidate(v) = s)
      BY <1>4, <2>3 DEF Calling, Busy
    <3>2. Mine(v) \in Tokens /\ attempt[Mine(v)].rows[Candidate(v)] = "live"
      BY <2>1, <3>1 DEF CallInv, CallFits
    <3>3. attempt'[Mine(v)].rows[Candidate(v)] = "live"
      BY <1>3, <3>1, <3>2, CandidateType DEF AllTypesOK
    <3> QED BY <1>3, <1>4, <3>1, <3>2, <3>3 DEF CallGoesOn
  <2> QED BY <2>2, <2>3 DEF CallGoesOn
<1>6. \A n \in Notes : DocGoesOn(n)
  BY <1>2, ResetGoesOn DEF AllTypesOK
<1> QED BY <1>5, <1>6, ClaimsStay, CallsStay DEF CallInv

\* A crash ends the work of its process, and recovery takes no live reservation of
\* another process.
LEMMA RestartKeepsCalls ==
  ASSUME AllTypesOK, AllTypesOK', CallInv,
         Crash \/ StartUp \/ \E x \in (Indexers \cup Askers) \ Daemon : CrashOther(x)
  PROVE  CallInv'
<1>1. \A n \in Notes : DocGoesOn(n)
  <2>1. UNCHANGED doc
    BY DEF Crash, StartUp, CrashOther, CrashOf
  <2> QED BY <2>1, ResetGoesOn DEF AllTypesOK
<1>2. ASSUME NEW v \in Indexers, Busy(v)
      PROVE  /\ ClaimFits(v) /\ Mine(v) \in Tokens
             /\ (Calling(v) => attempt[Mine(v)].rows[Candidate(v)] = "live")
  BY <1>2 DEF CallInv, ClaimFits, CallFits
<1>3. CASE Crash \/ \E x \in (Indexers \cup Askers) \ Daemon : CrashOther(x)
  <2>1. PICK X : CrashOf(X) /\ (up' = up \/ (X = Daemon /\ ~up'))
    BY <1>3 DEF Crash, CrashOther
  <2>2. ASSUME NEW v \in Indexers, Busy(v)'
        PROVE  indexer'[v] = indexer[v] /\ v \notin X /\ Busy(v)
    BY <2>1, <2>2 DEF CrashOf, Stopped, Busy, Idle
  <2>3. attempt' = attempt
    BY <2>1 DEF CrashOf
  <2>4. ASSUME NEW v \in Indexers PROVE WorkGoesOn(v)
    BY <1>2, <2>1, <2>2, <2>3 DEF WorkGoesOn, ClaimFits
  <2>5. ASSUME NEW v \in Indexers PROVE CallGoesOn(v)
    <3> SUFFICES ASSUME Calling(v)' PROVE CallGoesOn(v)
      BY DEF CallGoesOn
    <3>1. indexer'[v] = indexer[v] /\ Busy(v)
      BY <2>2 DEF Calling, Busy
    <3>2. Calling(v)
      BY <3>1 DEF Calling
    <3> QED BY <1>2, <2>3, <3>1, <3>2 DEF CallGoesOn
  <2> QED BY <1>1, <2>4, <2>5, ClaimsStay, CallsStay DEF CallInv
<1>4. CASE StartUp
  <2>1. ~up /\ up' /\ indexer' = indexer /\ attempt' = [t \in Tokens |-> Recovered(t)]
    BY <1>4 DEF StartUp
  <2>2. ASSUME NEW t \in Tokens
        PROVE  /\ attempt'[t].gen = attempt[t].gen /\ attempt'[t].owner = attempt[t].owner
               /\ (attempt'[t].status = "running" => attempt[t].status = "running")
               /\ \A s \in Spaces : attempt'[t].rows[s] = IF s \in Taken(t) THEN "none"
                                                          ELSE attempt[t].rows[s]
    <3> DEFINE cost == Max({attempt[t].cost, Cardinality(Taken(t))})
    <3>1. Recovered(t) =
            IF Taken(t) = {} THEN attempt[t]
            ELSE [attempt[t] EXCEPT
                    !.rows = [s \in Spaces |-> IF s \in Taken(t) THEN "none" ELSE @[s]],
                    !.cost = cost, !.status = "closed"]
      BY DEF Recovered
    <3>2. attempt[t] \in Attempts /\ attempt'[t] = Recovered(t)
      BY <2>1 DEF AllTypesOK, TypeOK
    <3> HIDE DEF cost
    <3> QED BY <3>1, <3>2 DEF Attempts
  <2>3. ASSUME NEW v \in Indexers PROVE WorkGoesOn(v)
    <3>1. Busy(v)' <=> Busy(v)
      BY <2>1 DEF Busy
    <3> QED BY <1>2, <2>1, <2>2, <3>1 DEF WorkGoesOn
  <2>4. ASSUME NEW v \in Indexers PROVE CallGoesOn(v)
    <3> SUFFICES ASSUME Calling(v)' PROVE CallGoesOn(v)
      BY DEF CallGoesOn
    <3>1. Calling(v) /\ Busy(v)
      BY <2>1 DEF Calling, Busy
    <3>2. attempt[Mine(v)].owner = v /\ v \notin Daemon
      BY <1>2, <2>1, <3>1 DEF ClaimFits
    <3>3. Candidate(v) \notin Taken(Mine(v)) /\ Candidate(v) \in Spaces
      BY <1>2, <3>1, <3>2, CandidateType DEF Taken, AllTypesOK
    <3> QED BY <1>2, <2>1, <2>2, <3>1, <3>3 DEF CallGoesOn
  <2> QED BY <1>1, <2>3, <2>4, ClaimsStay, CallsStay DEF CallInv
<1> QED BY <1>3, <1>4

LEMMA CallInit == Init => CallInv
BY DEF Init, CallInv, ClaimFits, CallFits, Vouched, Calling, Busy, Idle

LEMMA CallStep == AllTypesOK /\ AllTypesOK' /\ SearchInv /\ CallInv /\ [Next]_vars => CallInv'
<1> SUFFICES ASSUME AllTypesOK, AllTypesOK', SearchInv, CallInv, [Next]_vars PROVE CallInv'
  OBVIOUS
<1>1. CASE IndexNext
  BY <1>1, DispatchKeepsCalls, IndexKeepsCalls, ClaimKeepsCalls, ExpiryKeepsCalls,
     NoteStepKeepsCalls, ProfileStepKeepsCalls DEF IndexNext
<1>2. ASSUME NEW a \in Askers, AskClaim(a) \/ Answer(a) \/ ExpireBill(a) PROVE CallInv'
  <2>1. UNCHANGED indexVars /\ UNCHANGED up
    BY <1>2 DEF AskClaim, Answer, ReserveQuery, RenewQuery, Retrieve, QueryFails, ReserveAnswer,
                RenewAnswer, Validate, AnswerReturns, AnswerFails, Save, SaveRefused, Release,
                ExpireBill
  <2> QED BY <2>1, ProfileStepKeepsCalls
<1>3. CASE DeleteThread \/ ExpireThread \/ UNCHANGED vars
  BY <1>3, ProfileStepKeepsCalls DEF DeleteThread, ExpireThread, vars
<1>4. CASE Crash \/ StartUp \/ \E x \in (Indexers \cup Askers) \ Daemon : CrashOther(x)
  BY <1>4, RestartKeepsCalls
<1> QED BY <1>1, <1>2, <1>3, <1>4 DEF Next

LEMMA CallInvHolds == Spec => []CallInv
BY TypeCorrect, SearchInvHolds, CallInit, CallStep, PTL DEF Spec

\* _claim_document: no two threads, of whatever processes, call a provider for the same
\* state of a document, unless a call has outlived its lease or recovery has closed its
\* attempt beneath it.
THEOREM CallsAreSingle == Spec => []OneCallPerDocument
<1>1. AllTypesOK /\ CallInv => OneCallPerDocument
  <2> SUFFICES ASSUME AllTypesOK, CallInv, NEW v \in Indexers, NEW w \in Indexers, v # w,
                      indexer[v].at = "calling", indexer[w].at = "calling", NoteOf(v) = NoteOf(w),
                      attempt[Mine(v)].gen = attempt[Mine(w)].gen,
                      ~indexer[v].overdue, ~indexer[w].overdue
               PROVE  Interrupted(Mine(v)) \/ Interrupted(Mine(w))
    BY DEF OneCallPerDocument
  <2>1. ASSUME NEW u \in {v, w} PROVE Vouched(u) \/ Interrupted(Mine(u))
    <3>1. Calling(u) /\ Busy(u)
      BY DEF Calling, Busy
    <3>2. Mine(u) \in Tokens /\ attempt[Mine(u)].rows[Candidate(u)] = "live"
      BY <3>1 DEF CallInv, ClaimFits, CallFits
    <3>3. Active(Mine(u)) /\ attempt[Mine(u)].status \in {"running", "closed"}
      BY <3>2, CandidateType DEF Active, AllTypesOK, TypeOK, Attempts
    <3> QED BY <3>1, <3>3 DEF Vouched, Interrupted
  <2>2. ~(Vouched(v) /\ Vouched(w))
    BY DEF CallInv, CallFits
  <2> QED BY <2>1, <2>2
<1> QED BY <1>1, TypeCorrect, CallInvHolds, PTL


-----------------------------------------------------------------------------
(***************************************************************************)
(* Sums.  The sum of the values of f is the number of pairs <<x, i>> with  *)
(* i no larger than f[x].                                                  *)
(***************************************************************************)
Pairs(f, S) == UNION {{x} \X (1 .. f[x]) : x \in S}

\* The pairs of one element.
LEMMA PairsOfOne ==
  ASSUME NEW x, NEW n \in Nat
  PROVE  IsFiniteSet({x} \X (1 .. n)) /\ Cardinality({x} \X (1 .. n)) = n
<1> DEFINE U == {x}
           V == 1 .. n
<1>1. IsFiniteSet(U) /\ Cardinality(U) = 1
  BY FS_Singleton
<1>2. IsFiniteSet(V) /\ Cardinality(V) = n
  BY FS_Interval
<1>3. IsFiniteSet(U \X V) /\ Cardinality(U \X V) = 1 * n
  <2> HIDE DEF U, V
  <2> QED BY <1>1, <1>2, FS_Product
<1> QED BY <1>3

LEMMA PairsFinite ==
  ASSUME NEW D, NEW S \in SUBSET D, IsFiniteSet(D), NEW f \in [D -> Nat]
  PROVE  IsFiniteSet(Pairs(f, S)) /\ Cardinality(Pairs(f, S)) \in Nat
<1> DEFINE g == [x \in S |-> {x} \X (1 .. f[x])]
           T == {{x} \X (1 .. f[x]) : x \in S}
<1>1. IsFiniteSet(S)
  BY FS_Subset
<1>2. g \in Surjection(S, T)
  BY DEF Surjection
<1>3. IsFiniteSet(T)
  BY <1>1, <1>2, FS_Surjection
<1>4. ASSUME NEW x \in S PROVE IsFiniteSet({x} \X (1 .. f[x]))
  <2>1. f[x] \in Nat
    OBVIOUS
  <2> QED BY <2>1, PairsOfOne
<1>5. \A U \in T : IsFiniteSet(U)
  BY <1>4
<1>6. IsFiniteSet(UNION T)
  <2> HIDE DEF T
  <2> QED BY <1>3, <1>5, FS_UNION
<1> QED BY <1>6, FS_CardinalityType DEF Pairs

LEMMA TotalSplits ==
  ASSUME NEW D, IsFiniteSet(D), NEW f \in [D -> Nat], NEW a \in D
  PROVE  Total(f) = Cardinality(Pairs(f, D \ {a})) + f[a] /\ Total(f) \in Nat
<1> DEFINE P == Pairs(f, D \ {a})
           Q == {a} \X (1 .. f[a])
<1>1. IsFiniteSet(P) /\ Cardinality(P) \in Nat
  BY PairsFinite
<1>2. IsFiniteSet(Q) /\ Cardinality(Q) = f[a]
  BY PairsOfOne
<1>3. P \cap Q = {}
  BY DEF Pairs
<1>4. P \cup Q = Pairs(f, D)
  BY DEF Pairs
<1>5. Cardinality(P \cup Q) = Cardinality(P) + Cardinality(Q)
  <2> HIDE DEF P, Q
  <2>1. f[a] \in Nat
    OBVIOUS
  <2>2. Cardinality(P \cup Q) = Cardinality(P) + Cardinality(Q) - Cardinality(P \cap Q)
    BY <1>1, <1>2, FS_Union
  <2>3. Cardinality(P \cap Q) = 0
    BY <1>3, FS_EmptySet
  <2> QED BY <1>1, <1>2, <2>1, <2>2, <2>3
<1>6. Total(f) = Cardinality(P \cup Q)
  BY <1>4 DEF Total, Pairs
<1>7. f[a] \in Nat
  OBVIOUS
<1> HIDE DEF Q
<1> QED BY <1>1, <1>2, <1>5, <1>6, <1>7

\* A sum is a number, and 0 over no elements.
LEMMA TotalType ==
  ASSUME NEW D, IsFiniteSet(D), NEW f \in [D -> Nat]
  PROVE  Total(f) \in Nat
BY PairsFinite DEF Total, Pairs

\* A sum whose values grow nowhere does not grow.
LEMMA TotalShrinks ==
  ASSUME NEW D, IsFiniteSet(D), NEW f \in [D -> Nat], NEW g \in [D -> Nat],
         \A x \in D : g[x] <= f[x]
  PROVE  Total(g) <= Total(f)
<1>1. Pairs(g, D) \subseteq Pairs(f, D)
  BY DEF Pairs
<1>2. Cardinality(Pairs(g, D)) <= Cardinality(Pairs(f, D))
  BY <1>1, PairsFinite, FS_Subset
<1> QED BY <1>2 DEF Total, Pairs

\* A sum one of whose values changes, changes as much as that value.
LEMMA TotalChanges ==
  ASSUME NEW D, IsFiniteSet(D), NEW f \in [D -> Nat], NEW g \in [D -> Nat], NEW a \in D,
         \A x \in D \ {a} : g[x] = f[x]
  PROVE  Total(g) + f[a] = Total(f) + g[a]
<1>1. Pairs(g, D \ {a}) = Pairs(f, D \ {a})
  BY DEF Pairs
<1>2. /\ Total(f) = Cardinality(Pairs(f, D \ {a})) + f[a]
      /\ Total(g) = Cardinality(Pairs(g, D \ {a})) + g[a]
  BY TotalSplits
<1>3. Cardinality(Pairs(f, D \ {a})) \in Nat /\ f[a] \in Nat /\ g[a] \in Nat
  BY PairsFinite
<1> QED BY <1>1, <1>2, <1>3

-----------------------------------------------------------------------------
(***************************************************************************)
(* The ledger.  What an attempt owes is the cost it was closed with and    *)
(* the reservations that still stand; while it runs it has no cost yet.    *)
(***************************************************************************)
RowsOf(d) == {s \in Spaces : d.rows[s] # "none"}
OwedOf(d) == (IF d.status = "closed" THEN d.cost ELSE 0) + Cardinality(RowsOf(d))
Open(d)   == d.status = "running" => d.cost = 0
Whole(d)  == d.status = "closed" => RowsOf(d) = {}

LEMMA OwedTypes ==
  ASSUME NEW d \in Attempts
  PROVE  IsFiniteSet(RowsOf(d)) /\ Cardinality(RowsOf(d)) \in Nat /\ OwedOf(d) \in Nat
<1>1. RowsOf(d) \in SUBSET Spaces
  BY DEF RowsOf
<1>2. IsFiniteSet(RowsOf(d)) /\ Cardinality(RowsOf(d)) \in Nat
  BY <1>1, RowCount, SpacesAssumption, FS_Subset
<1> QED BY <1>2 DEF OwedOf, Attempts

LEMMA MaxIs ==
  ASSUME NEW i \in Nat, NEW j \in Nat
  PROVE  Max({i, j}) = IF i >= j THEN i ELSE j
<1> DEFINE m == IF i >= j THEN i ELSE j
<1>1. m \in {i, j} /\ \A y \in {i, j} : m >= y
  OBVIOUS
<1>2. \A x \in {i, j} : (\A y \in {i, j} : x >= y) => x = m
  OBVIOUS
<1> QED BY <1>1, <1>2 DEF Max

\* An attempt that takes its reservations R into its cost and drops them owes what
\* it owed, unless it has a cost and reservations.
LEMMA FoldOwes ==
  ASSUME NEW d \in Attempts, NEW e \in Attempts, Open(d), NEW R \in SUBSET RowsOf(d),
         e.status = "closed", RowsOf(e) = RowsOf(d) \ R,
         e.cost = Max({d.cost, Cardinality(R)})
  PROVE  /\ OwedOf(e) <= OwedOf(d)
         /\ (Whole(d) => OwedOf(e) = OwedOf(d))
<1>1. /\ IsFiniteSet(RowsOf(d)) /\ IsFiniteSet(R) /\ Cardinality(R) \in Nat
      /\ Cardinality(RowsOf(d)) \in Nat /\ d.cost \in Nat
  BY OwedTypes, FS_Subset, FS_CardinalityType DEF Attempts
<1>2. Cardinality(RowsOf(e)) = Cardinality(RowsOf(d)) - Cardinality(R)
  <2>1. RowsOf(d) \cap R = R
    OBVIOUS
  <2> QED BY <1>1, <2>1, FS_Difference
<1>3. e.cost = IF d.cost >= Cardinality(R) THEN d.cost ELSE Cardinality(R)
  BY <1>1, MaxIs
<1>4. Cardinality(R) <= Cardinality(RowsOf(d))
  BY <1>1, FS_Subset
<1>5. CASE d.status = "running"
  <2>1. d.cost = 0
    BY <1>5 DEF Open
  <2> QED BY <1>1, <1>2, <1>3, <1>5, <2>1 DEF OwedOf, Whole
<1>6. CASE d.status = "closed"
  <2>1. OwedOf(e) <= OwedOf(d)
    BY <1>1, <1>2, <1>3, <1>4, <1>6 DEF OwedOf
  <2>2. ASSUME Whole(d) PROVE OwedOf(e) = OwedOf(d)
    <3>1. RowsOf(d) = {} /\ R = {}
      BY <1>6, <2>2 DEF Whole
    <3>2. Cardinality(R) = 0 /\ Cardinality(RowsOf(d)) = 0
      BY <3>1, FS_EmptySet
    <3> QED BY <1>1, <1>2, <1>3, <1>6, <3>2 DEF OwedOf
  <2> QED BY <2>1, <2>2
<1> QED BY <1>5, <1>6 DEF Attempts

\* What may happen to an attempt that goes on: it is settled, folded by recovery, or
\* one of its reservations lapses.
Lapses(t) == \E s \in Spaces : /\ attempt[t].rows[s] = "live"
                               /\ attempt'[t] = [attempt[t] EXCEPT !.rows[s] = "lapsed"]
TakesAll(t) == Taken(t) = {} \/ Taken(t) = Rows(t)
Tidy(t)     == Whole(attempt[t]) /\ TakesAll(t)
LedgerGoesOn(t) ==
  \/ attempt'[t] = attempt[t] \/ attempt'[t] = Settled(t)
  \/ attempt'[t] = Recovered(t) \/ Lapses(t)

LEMMA AttemptOwes ==
  ASSUME TypeOK, TypeOK', NEW t \in Tokens, Open(attempt[t]), LedgerGoesOn(t)
  PROVE  /\ OwedOf(attempt'[t]) <= OwedOf(attempt[t]) /\ Open(attempt'[t])
         /\ attempt'[t].owner = attempt[t].owner /\ RowsOf(attempt'[t]) \subseteq RowsOf(attempt[t])
         /\ (attempt'[t].status = "running" => attempt[t].status = "running")
         /\ (Tidy(t) => OwedOf(attempt'[t]) = OwedOf(attempt[t]) /\ Whole(attempt'[t]))
<1> PICK d, e : d = attempt[t] /\ e = attempt'[t]
  OBVIOUS
<1>1. d \in Attempts /\ e \in Attempts /\ Rows(t) = RowsOf(d) /\ Open(d)
  BY DEF TypeOK, Rows, RowsOf
<1>2. OwedOf(d) \in Nat /\ OwedOf(e) \in Nat
  BY <1>1, OwedTypes
<1>3. CASE e = d
  <2> QED BY <1>1, <1>2, <1>3 DEF Tidy
<1>4. CASE e = Settled(t)
  <2> DEFINE cost == Max({d.cost, Cardinality(Rows(t))})
  <2>1. e = [d EXCEPT !.status = "closed", !.rows = NoRows, !.cost = cost]
    BY <1>4 DEF Settled
  <2> HIDE DEF cost
  <2>2. e.status = "closed" /\ e.rows = NoRows /\ e.cost = cost /\ e.owner = d.owner
    BY <1>1, <2>1 DEF Attempts
  <2>3. RowsOf(e) = {}
    BY <2>2 DEF RowsOf, NoRows
  <2>4. RowsOf(e) = RowsOf(d) \ Rows(t) /\ Rows(t) \in SUBSET RowsOf(d)
    BY <1>1, <2>3
  <2>5. /\ OwedOf(e) <= OwedOf(d)
        /\ (Whole(d) => OwedOf(e) = OwedOf(d))
    <3> QED BY <1>1, <2>2, <2>4, FoldOwes DEF cost
  <2> QED BY <2>2, <2>3, <2>5 DEF Open, Whole, Tidy
<1>5. CASE Lapses(t)
  <2>1. PICK s \in Spaces : d.rows[s] = "live" /\ e = [d EXCEPT !.rows[s] = "lapsed"]
    BY <1>5 DEF Lapses
  <2>2. /\ e.status = d.status /\ e.cost = d.cost /\ e.owner = d.owner
        /\ e.rows = [d.rows EXCEPT ![s] = "lapsed"]
    BY <1>1, <2>1 DEF Attempts
  <2>3. RowsOf(e) = RowsOf(d)
    BY <1>1, <2>1, <2>2 DEF RowsOf, Attempts
  <2>4. OwedOf(e) = OwedOf(d)
    BY <2>2, <2>3 DEF OwedOf
  <2> QED BY <1>2, <2>2, <2>3, <2>4 DEF Open, Whole, Tidy
<1>6. CASE e = Recovered(t)
  <2>1. CASE Taken(t) = {}
    BY <1>1, <1>2, <1>6, <2>1 DEF Recovered, Tidy
  <2>2. CASE Taken(t) # {}
    <3> DEFINE cost == Max({d.cost, Cardinality(Taken(t))})
               rows == [s \in Spaces |-> IF s \in Taken(t) THEN "none" ELSE d.rows[s]]
    <3>1. e = [d EXCEPT !.rows = rows, !.cost = cost, !.status = "closed"]
      BY <1>6, <2>2 DEF Recovered
    <3> HIDE DEF cost, rows
    <3>2. e.status = "closed" /\ e.rows = rows /\ e.cost = cost /\ e.owner = d.owner
      BY <1>1, <3>1 DEF Attempts
    <3>3. Taken(t) \in SUBSET RowsOf(d)
      BY <1>1 DEF Taken
    <3>4. RowsOf(e) = RowsOf(d) \ Taken(t)
      BY <3>2 DEF RowsOf, rows
    <3>5. /\ OwedOf(e) <= OwedOf(d)
          /\ (Whole(d) => OwedOf(e) = OwedOf(d))
      <4> QED BY <1>1, <3>2, <3>3, <3>4, FoldOwes DEF cost
    <3>6. TakesAll(t) => RowsOf(e) = {}
      BY <1>1, <1>6, <2>2, <3>4 DEF TakesAll
    <3> QED BY <3>2, <3>4, <3>5, <3>6 DEF Open, Whole, Tidy
  <2> QED BY <2>1, <2>2
<1> QED BY <1>3, <1>4, <1>5, <1>6 DEF LedgerGoesOn

\* What all attempts owe, and what all bills hold.
AttemptsOwe == Total([t \in Tokens |-> Owed(t)])
BillsOwe    == Total([a \in Askers |-> bill[a].rows])
Booked      == Spent + forgotten

LEMMA LedgerTypes ==
  ASSUME TypeOK, TypeOK'
  PROVE  /\ [t \in Tokens |-> Owed(t)] \in [Tokens -> Nat]
         /\ [t \in Tokens |-> Owed(t)'] \in [Tokens -> Nat]
         /\ \A t \in Tokens : /\ Owed(t) = OwedOf(attempt[t]) /\ Owed(t)' = OwedOf(attempt'[t])
                              /\ Owed(t) \in Nat /\ Owed(t)' \in Nat
         /\ [a \in Askers |-> bill[a].rows] \in [Askers -> Nat]
         /\ [a \in Askers |-> bill'[a].rows] \in [Askers -> Nat]
         /\ \A a \in Askers : bill[a].rows \in Nat /\ bill'[a].rows \in Nat
         /\ AttemptsOwe \in Nat /\ AttemptsOwe' \in Nat /\ BillsOwe \in Nat /\ BillsOwe' \in Nat
         /\ kept \in Nat /\ kept' \in Nat /\ thread.cost \in Nat /\ thread'.cost \in Nat
         /\ authorised \in Nat /\ authorised' \in Nat /\ forgotten \in Nat /\ forgotten' \in Nat
<1>1. ASSUME NEW t \in Tokens
      PROVE  /\ Owed(t) = OwedOf(attempt[t]) /\ Owed(t)' = OwedOf(attempt'[t])
             /\ Owed(t) \in Nat /\ Owed(t)' \in Nat
  <2>1. Owed(t) = OwedOf(attempt[t]) /\ Owed(t)' = OwedOf(attempt'[t])
    BY DEF Owed, OwedOf, AttemptCost, Rows, RowsOf
  <2>2. attempt[t] \in Attempts /\ attempt'[t] \in Attempts
    BY DEF TypeOK
  <2> QED BY <2>1, <2>2, OwedTypes
<1>2. ASSUME NEW a \in Askers PROVE bill[a].rows \in Nat /\ bill'[a].rows \in Nat
  BY DEF TypeOK, Bills
<1>3. AttemptsOwe \in Nat /\ AttemptsOwe' \in Nat
  BY <1>1, RowsAssumption, TotalType DEF AttemptsOwe
<1>4. BillsOwe \in Nat /\ BillsOwe' \in Nat
  BY <1>2, RowsAssumption, TotalType DEF BillsOwe
<1> QED BY <1>1, <1>2, <1>3, <1>4 DEF TypeOK, Threads

LEMMA BookedIs ==
  /\ Booked = kept + thread.cost + (AttemptsOwe + BillsOwe) + forgotten
  /\ Booked' = kept' + thread'.cost + (AttemptsOwe' + BillsOwe') + forgotten'
BY DEF Booked, Spent, Reserved, AttemptsOwe, BillsOwe

\* When every attempt goes on, together they do not owe more.
LEMMA AttemptsGoOn ==
  ASSUME TypeOK, TypeOK', \A t \in Tokens : Open(attempt[t]) /\ LedgerGoesOn(t)
  PROVE  /\ AttemptsOwe' <= AttemptsOwe
         /\ (\A t \in Tokens : Tidy(t)) => AttemptsOwe' = AttemptsOwe
<1> DEFINE f == [t \in Tokens |-> Owed(t)]
           g == [t \in Tokens |-> Owed(t)']
<1>1. f \in [Tokens -> Nat] /\ g \in [Tokens -> Nat]
  BY LedgerTypes
<1>2. AttemptsOwe = Total(f) /\ AttemptsOwe' = Total(g)
  BY DEF AttemptsOwe
<1>3. \A t \in Tokens : g[t] <= f[t]
  BY AttemptOwes, LedgerTypes
<1>4. ASSUME \A t \in Tokens : Tidy(t) PROVE \A t \in Tokens : f[t] = g[t]
  BY <1>4, AttemptOwes, LedgerTypes
<1>5. (\A t \in Tokens : Tidy(t)) => f = g
  BY <1>4
<1> HIDE DEF f, g
<1> QED BY <1>1, <1>2, <1>3, <1>5, TotalShrinks, RowsAssumption

\* When one attempt is replaced and the others go on.
LEMMA OneAttemptChanges ==
  ASSUME TypeOK, TypeOK', NEW u \in Tokens,
         \A t \in Tokens \ {u} : Open(attempt[t]) /\ LedgerGoesOn(t)
  PROVE  /\ AttemptsOwe' + Owed(u) <= AttemptsOwe + Owed(u)'
         /\ (\A t \in Tokens \ {u} : Tidy(t))
              => AttemptsOwe' + Owed(u) = AttemptsOwe + Owed(u)'
<1> DEFINE f == [t \in Tokens |-> Owed(t)]
           g == [t \in Tokens |-> Owed(t)']
           h == [t \in Tokens |-> IF t = u THEN Owed(u) ELSE Owed(t)']
<1>1. f \in [Tokens -> Nat] /\ g \in [Tokens -> Nat] /\ h \in [Tokens -> Nat]
  BY LedgerTypes
<1>2. AttemptsOwe = Total(f) /\ AttemptsOwe' = Total(g)
  BY DEF AttemptsOwe
<1>3. \A t \in Tokens : h[t] <= f[t]
  BY AttemptOwes, LedgerTypes
<1>4. (\A t \in Tokens \ {u} : Tidy(t)) => f = h
  BY AttemptOwes, LedgerTypes
<1>5. h[u] = Owed(u) /\ g[u] = Owed(u)' /\ \A t \in Tokens \ {u} : g[t] = h[t]
  OBVIOUS
<1>6. Owed(u) \in Nat /\ Owed(u)' \in Nat
  BY LedgerTypes
<1> HIDE DEF f, g, h
<1>7. Total(h) <= Total(f) /\ Total(g) + Owed(u) = Total(h) + Owed(u)'
  <2>1. Total(h) <= Total(f)
    BY <1>1, <1>3, TotalShrinks, RowsAssumption
  <2>2. Total(g) + h[u] = Total(h) + g[u]
    BY <1>1, <1>5, TotalChanges, RowsAssumption
  <2> QED BY <1>5, <2>1, <2>2
<1>8. Total(f) \in Nat /\ Total(g) \in Nat /\ Total(h) \in Nat
  BY <1>1, TotalType, RowsAssumption
<1> QED BY <1>2, <1>4, <1>6, <1>7, <1>8

\* When one bill changes.
LEMMA OneBillChanges ==
  ASSUME TypeOK, TypeOK', NEW a \in Askers,
         \A b \in Askers \ {a} : bill'[b].rows = bill[b].rows
  PROVE  BillsOwe' + bill[a].rows = BillsOwe + bill'[a].rows
<1> DEFINE f == [b \in Askers |-> bill[b].rows]
           g == [b \in Askers |-> bill'[b].rows]
<1>1. f \in [Askers -> Nat] /\ g \in [Askers -> Nat]
  BY LedgerTypes
<1>2. BillsOwe = Total(f) /\ BillsOwe' = Total(g)
  BY DEF BillsOwe
<1>3. f[a] = bill[a].rows /\ g[a] = bill'[a].rows /\ \A b \in Askers \ {a} : g[b] = f[b]
  OBVIOUS
<1> HIDE DEF f, g
<1>4. Total(g) + f[a] = Total(f) + g[a]
  BY <1>1, <1>3, TotalChanges, RowsAssumption
<1> QED BY <1>2, <1>3, <1>4

LEMMA BillsStay ==
  ASSUME \A b \in Askers : bill'[b].rows = bill[b].rows
  PROVE  BillsOwe' = BillsOwe
BY DEF BillsOwe

LEMMA AttemptsStay ==
  ASSUME UNCHANGED attempt
  PROVE  AttemptsOwe' = AttemptsOwe
BY DEF AttemptsOwe, Owed, AttemptCost, Rows

-----------------------------------------------------------------------------
(***************************************************************************)
(* When the ledger is exact.  Recovery folds the reservations it finds     *)
(* expired and leaves the live ones of the same attempt behind: it repeats *)
(* or forgets nothing where it takes all reservations of an attempt at     *)
(* once, because every thread that indexes died with the daemon or because *)
(* an attempt never has more than one.                                     *)
(***************************************************************************)
OneCandidate == \A p \in DOMAIN Profiles : Len(Profiles[p]) = 1

RecoversWhole ==
  /\ \A p \in DOMAIN Profiles :
       \A i, j \in DOMAIN Profiles[p] : Profiles[p][i] = Profiles[p][j] => i = j
  /\ Indexers \subseteq Daemon \/ OneCandidate

\* An attempt that is over has no reservations; one that runs has an owner.
Folded(t) ==
  /\ Whole(attempt[t]) /\ (attempt[t].status = "running" => attempt[t].owner \in Indexers)
  /\ OneCandidate => \A r, s \in RowsOf(attempt[t]) : r = s

\* The candidates whose turn has not come have no reservation.
Ahead(w, i) == \/ indexer[w].at = "embed" /\ i >= indexer[w].turn
               \/ indexer[w].at = "calling" /\ i > indexer[w].turn
Untried(w) ==
  /\ \A i \in DOMAIN Plan(w) : Ahead(w, i) => Plan(w)[i] \notin RowsOf(attempt[Mine(w)])
  /\ OneCandidate /\ indexer[w].at = "embed" => RowsOf(attempt[Mine(w)]) = {}

OpenInv  == \A t \in Tokens : Open(attempt[t])
ExactInv == /\ \A t \in Tokens : Folded(t)
            /\ \A w \in Indexers : Untried(w)
            /\ thread.turns = 0 => thread.cost = 0

LEMMA RecoveryTakesAll ==
  ASSUME TypeOK, ExactInv, RecoversWhole
  PROVE  \A t \in Tokens : TakesAll(t) /\ Tidy(t)
<1> SUFFICES ASSUME NEW t \in Tokens PROVE TakesAll(t)
  BY DEF ExactInv, Folded, Tidy
<1>1. Folded(t) /\ attempt[t] \in Attempts /\ Rows(t) = RowsOf(attempt[t])
  BY DEF ExactInv, TypeOK, Rows, RowsOf
<1>2. CASE OneCandidate
  BY <1>1, <1>2 DEF Folded, TakesAll, Taken
<1>3. CASE Indexers \subseteq Daemon
  <2>1. CASE attempt[t].status = "closed"
    BY <1>1, <2>1 DEF Folded, Whole, TakesAll, Taken
  <2>2. CASE attempt[t].status = "running"
    BY <1>1, <1>3, <2>2 DEF Folded, TakesAll, Taken
  <2> QED BY <1>1, <2>1, <2>2 DEF Attempts
<1> QED BY <1>2, <1>3 DEF RecoversWhole

\* A job that goes on, to its next candidate or out of its calls.
InCalls(w)  == indexer[w].at \in {"embed", "calling"}
JobStays(w) ==
  InCalls(w)' =>
    /\ InCalls(w) /\ indexer'[w].token = indexer[w].token /\ indexer'[w].plan = indexer[w].plan
    /\ \/ indexer'[w].at = indexer[w].at /\ indexer'[w].turn = indexer[w].turn
       \/ /\ indexer'[w].at = "embed" /\ indexer[w].turn < Len(Plan(w))
          /\ indexer'[w].turn = indexer[w].turn + 1

\* What every step does to the ledger.
BooksKept ==
  /\ OpenInv' /\ Booked' + authorised <= Booked + authorised'
  /\ ExactInv /\ RecoversWhole => ExactInv' /\ Booked' + authorised = Booked + authorised'

LEMMA UntriedStays ==
  ASSUME TypeOK, TypeOK', NEW w \in Indexers, Untried(w), JobStays(w),
         InCalls(w) => RowsOf(attempt'[Mine(w)]) \subseteq RowsOf(attempt[Mine(w)])
  PROVE  Untried(w)'
<1>1. CASE ~InCalls(w)'
  BY <1>1 DEF InCalls, Untried, Ahead
<1>2. CASE InCalls(w)'
  <2>1. /\ InCalls(w) /\ Mine(w)' = Mine(w) /\ indexer'[w].plan = indexer[w].plan
        /\ \/ indexer'[w].at = indexer[w].at /\ indexer'[w].turn = indexer[w].turn
           \/ /\ indexer'[w].at = "embed" /\ indexer[w].turn < Len(Plan(w))
              /\ indexer'[w].turn = indexer[w].turn + 1
    BY <1>2 DEF JobStays, Mine
  <2>2. Plan(w)' = Plan(w)
    BY <2>1 DEF Plan, Candidates
  <2>3. /\ indexer[w].turn \in Nat /\ indexer[w].turn \in DOMAIN Plan(w)
        /\ indexer[w].plan \in DOMAIN Profiles /\ Plan(w) \in Seq(Spaces)
    BY CandidateTypes DEF TypeOK, Jobs, Plan, Candidates
  <2>4. ASSUME NEW i \in DOMAIN Plan(w), Ahead(w, i)' PROVE Ahead(w, i)
    <3>1. i \in Nat
      BY <2>3
    <3> QED BY <2>1, <2>3, <2>4, <3>1 DEF Ahead, InCalls
  <2>5. ASSUME OneCandidate, indexer'[w].at = "embed" PROVE indexer[w].at = "embed"
    <3>1. Len(Plan(w)) = 1 /\ DOMAIN Plan(w) = 1 .. 1
      BY <2>3, <2>5 DEF OneCandidate, Plan, Candidates
    <3> QED BY <2>1, <2>3, <2>5, <3>1
  <2>6. RowsOf(attempt'[Mine(w)]) \subseteq RowsOf(attempt[Mine(w)])
    BY <2>1
  <2>7. \A i \in DOMAIN Plan(w) : Ahead(w, i)' => Plan(w)[i] \notin RowsOf(attempt'[Mine(w)])
    BY <2>4, <2>6 DEF Untried
  <2>8. OneCandidate /\ indexer'[w].at = "embed" => RowsOf(attempt'[Mine(w)]) = {}
    BY <2>5, <2>6 DEF Untried
  <2>9. (RowsOf(attempt[Mine(w)]))' = RowsOf(attempt'[Mine(w)])
    BY <2>1 DEF RowsOf
  <2> QED BY <2>1, <2>2, <2>7, <2>8, <2>9 DEF Untried
<1> QED BY <1>1, <1>2

LEMMA FoldedStays ==
  ASSUME TypeOK, TypeOK', NEW t \in Tokens, Open(attempt[t]), LedgerGoesOn(t), TakesAll(t),
         Folded(t)
  PROVE  Folded(t)'
<1>1. /\ Whole(attempt'[t]) /\ attempt'[t].owner = attempt[t].owner
      /\ RowsOf(attempt'[t]) \subseteq RowsOf(attempt[t])
      /\ (attempt'[t].status = "running" => attempt[t].status = "running")
  BY AttemptOwes DEF Folded, Tidy
<1>2. (RowsOf(attempt[t]))' = RowsOf(attempt'[t]) /\ Whole(attempt[t])' = Whole(attempt'[t])
  BY DEF RowsOf, Whole
<1> QED BY <1>1, <1>2 DEF Folded

\* Steps after which no attempt owes more, and which leave bills, conversation and
\* counters alone.
LEMMA QuietLedger ==
  ASSUME TypeOK, TypeOK', CallInv, OpenInv, \A t \in Tokens : LedgerGoesOn(t),
         \A w \in Indexers : JobStays(w),
         \A a \in Askers : bill'[a].rows = bill[a].rows,
         thread'.cost = thread.cost, thread'.turns = thread.turns,
         UNCHANGED <<kept, history>>
  PROVE  BooksKept
<1>1. OpenInv'
  <2>1. \A t \in Tokens : Open(attempt'[t])
    BY AttemptOwes DEF OpenInv
  <2> QED BY <2>1 DEF OpenInv, Open
<1>2. BillsOwe' = BillsOwe /\ AttemptsOwe' <= AttemptsOwe
  BY BillsStay, AttemptsGoOn DEF OpenInv
<1>3. Booked' + authorised <= Booked + authorised'
  BY <1>2, LedgerTypes, BookedIs DEF history
<1>4. ASSUME ExactInv, RecoversWhole PROVE Booked' + authorised = Booked + authorised' /\ ExactInv'
  <2>1. AttemptsOwe' = AttemptsOwe
    BY <1>4, AttemptsGoOn, RecoveryTakesAll DEF OpenInv
  <2>2. \A t \in Tokens : Folded(t)'
    BY <1>4, FoldedStays, RecoveryTakesAll DEF OpenInv, ExactInv
  <2>3. ASSUME NEW w \in Indexers PROVE Untried(w)'
    <3>1. InCalls(w) => Mine(w) \in Tokens
      BY DEF CallInv, ClaimFits, Busy, InCalls
    <3>2. InCalls(w) => RowsOf(attempt'[Mine(w)]) \subseteq RowsOf(attempt[Mine(w)])
      BY <3>1, AttemptOwes DEF OpenInv
    <3> QED BY <1>4, <3>2, UntriedStays DEF ExactInv
  <2>4. Booked' + authorised = Booked + authorised'
    BY <1>2, <2>1, LedgerTypes, BookedIs DEF history
  <2> QED BY <1>4, <2>2, <2>3, <2>4 DEF ExactInv
<1> QED BY <1>1, <1>3, <1>4 DEF BooksKept

LEMMA JobKeepsPace ==
  ASSUME TypeOK, NEW w \in Indexers,
         \/ UNCHANGED indexer \/ Goes(w, "failing") \/ Goes(w, "publish") \/ Rests(w)
         \/ TriesNext(w) /\ InCalls(w)
  PROVE  \A v \in Indexers : JobStays(v)
<1>1. indexer \in [Indexers -> Jobs]
  BY DEF TypeOK
<1>2. ASSUME NEW phase \in {"failing", "publish"}, Goes(w, phase)
      PROVE  \A v \in Indexers : JobStays(v)
  <2>1. indexer'[w].at = phase /\ \A v \in Indexers \ {w} : indexer'[v] = indexer[v]
    BY <1>1, <1>2 DEF Goes, Jobs
  <2> QED BY <1>2, <2>1 DEF JobStays, InCalls
<1>3. CASE TriesNext(w) /\ InCalls(w)
  <2>1. CASE indexer[w].turn < Len(Plan(w))
    <3>1. indexer' = [indexer EXCEPT ![w].at = "embed", ![w].turn = @ + 1]
      BY <1>3, <2>1 DEF TriesNext
    <3>2. /\ indexer'[w].at = "embed" /\ indexer'[w].turn = indexer[w].turn + 1
          /\ indexer'[w].token = indexer[w].token /\ indexer'[w].plan = indexer[w].plan
          /\ \A v \in Indexers \ {w} : indexer'[v] = indexer[v]
      BY <1>1, <3>1 DEF Jobs
    <3>3. JobStays(w)
      BY <1>3, <2>1, <3>2 DEF JobStays
    <3>4. ASSUME NEW v \in Indexers \ {w} PROVE JobStays(v)
      BY <3>2 DEF JobStays, InCalls
    <3> QED BY <3>3, <3>4
  <2>2. CASE ~(indexer[w].turn < Len(Plan(w)))
    BY <1>2, <1>3, <2>2 DEF TriesNext
  <2> QED BY <2>1, <2>2
<1>4. CASE Rests(w)
  <2>1. indexer'[w].at = "idle" /\ \A v \in Indexers \ {w} : indexer'[v] = indexer[v]
    BY <1>1, <1>4 DEF Rests, Idle
  <2> QED BY <2>1 DEF JobStays, InCalls
<1>5. CASE UNCHANGED indexer
  BY <1>5 DEF JobStays, InCalls
<1> QED BY <1>2, <1>3, <1>4, <1>5

\* One attempt is settled, or none.
LEMMA SettlingGoesOn ==
  ASSUME TypeOK, NEW u \in Tokens,
         \/ UNCHANGED attempt \/ attempt' = [attempt EXCEPT ![u] = Settled(u)]
         \/ attempt' = [attempt EXCEPT ![u] = SettleIfRunning(u)]
  PROVE  \A t \in Tokens : LedgerGoesOn(t)
<1>1. CASE UNCHANGED attempt
  BY <1>1 DEF LedgerGoesOn
<1>2. CASE attempt' = [attempt EXCEPT ![u] = Settled(u)]
  BY <1>2, OneSettled DEF LedgerGoesOn
<1>3. CASE attempt' = [attempt EXCEPT ![u] = SettleIfRunning(u)]
  BY <1>3, OneSettled DEF LedgerGoesOn, SettleIfRunning
<1> QED BY <1>1, <1>2, <1>3

LEMMA IndexBooks ==
  ASSUME TypeOK, TypeOK', CallInv, OpenInv, NEW w \in Indexers, Index(w), ~Dispatch(w)
  PROVE  BooksKept
<1>1. Busy(w)
  BY DEF Index, DispatchSuperseded, DispatchRefused, CallReturns, CallFails, Publish, FailDocument,
         At, Busy
<1>2. Mine(w) \in Tokens
  BY <1>1 DEF CallInv, ClaimFits
<1>3. UNCHANGED <<askRows, kept, history>>
  BY DEF Index, DispatchSuperseded, DispatchRefused, CallReturns, CallFails, Publish, FailDocument
<1>4. \/ UNCHANGED attempt \/ attempt' = [attempt EXCEPT ![Mine(w)] = Settled(Mine(w))]
      \/ attempt' = [attempt EXCEPT ![Mine(w)] = SettleIfRunning(Mine(w))]
  BY DEF Index, DispatchSuperseded, DispatchRefused, CallReturns, CallFails, Publish, FailDocument
<1>5. \/ Goes(w, "failing") \/ Goes(w, "publish") \/ Rests(w)
      \/ TriesNext(w) /\ InCalls(w)
  BY DEF Index, DispatchSuperseded, DispatchRefused, CallReturns, CallFails, Publish, FailDocument,
         At, InCalls
<1>6. \A t \in Tokens : LedgerGoesOn(t)
  BY <1>2, <1>4, SettlingGoesOn
<1>7. \A v \in Indexers : JobStays(v)
  BY <1>5, JobKeepsPace
<1> QED BY <1>3, <1>6, <1>7, QuietLedger DEF askRows

\* A call adds one row to an attempt that runs, for a candidate without one.
LEMMA DispatchBooks ==
  ASSUME TypeOK, TypeOK', CallInv, OpenInv, NEW w \in Indexers, Dispatch(w)
  PROVE  BooksKept
<1>1. /\ indexer[w].at = "embed" /\ attempt[Mine(w)].status = "running"
      /\ attempt' = [attempt EXCEPT ![Mine(w)].rows[Candidate(w)] = "live"]
      /\ indexer' = [indexer EXCEPT ![w].at = "calling", ![w].overdue = FALSE]
      /\ authorised' = authorised + 1 /\ UNCHANGED <<askRows, kept, forgotten>>
  BY DEF Dispatch, At, MayDispatch
<1>2. /\ Mine(w) \in Tokens
      /\ \A v \in Indexers \ {w} : Busy(v) => Mine(v) \in Tokens /\ Mine(v) # Mine(w)
  BY <1>1 DEF CallInv, ClaimFits, Busy
<1>3. indexer \in [Indexers -> Jobs] /\ attempt \in [Tokens -> Attempts]
  BY DEF TypeOK
<1> PICK u \in Tokens, s \in Spaces : u = Mine(w) /\ s = Candidate(w)
  BY <1>2, CandidateType
<1> PICK d \in Attempts, e \in Attempts : d = attempt[u] /\ e = attempt'[u]
  BY DEF TypeOK
<1>4. /\ e.status = "running" /\ e.cost = d.cost /\ e.owner = d.owner /\ d.status = "running"
      /\ e.rows = [d.rows EXCEPT ![s] = "live"]
  BY <1>1, <1>3 DEF Attempts
<1>5. RowsOf(e) = RowsOf(d) \cup {s}
  BY <1>4 DEF RowsOf, Attempts
<1>6. \A t \in Tokens \ {u} : attempt'[t] = attempt[t] /\ LedgerGoesOn(t)
  BY <1>1, <1>3 DEF LedgerGoesOn
<1>7. /\ IsFiniteSet(RowsOf(d)) /\ Cardinality(RowsOf(d)) \in Nat
      /\ Cardinality(RowsOf(e)) = IF s \in RowsOf(d) THEN Cardinality(RowsOf(d))
                                  ELSE Cardinality(RowsOf(d)) + 1
  <2>1. IsFiniteSet(RowsOf(d)) /\ Cardinality(RowsOf(d)) \in Nat
    BY OwedTypes
  <2>2. Cardinality(RowsOf(d) \cup {s}) = IF s \in RowsOf(d) THEN Cardinality(RowsOf(d))
                                          ELSE Cardinality(RowsOf(d)) + 1
    BY <2>1, FS_AddElement, Zenon
  <2> QED BY <1>5, <2>1, <2>2
<1>8. Owed(u) = Cardinality(RowsOf(d)) /\ Owed(u)' = Cardinality(RowsOf(e))
  <2>1. Owed(u) = OwedOf(d) /\ Owed(u)' = OwedOf(e)
    BY LedgerTypes
  <2> QED BY <1>4, <1>7, <2>1 DEF OwedOf
<1>9. OpenInv'
  <2>1. Open(e) /\ \A t \in Tokens \ {u} : Open(attempt'[t])
    BY <1>4, <1>6 DEF OpenInv, Open
  <2> QED BY <2>1 DEF OpenInv, Open
<1>10. BillsOwe' = BillsOwe /\ thread' = thread
  BY <1>1, BillsStay DEF askRows
<1>11. AttemptsOwe' + Owed(u) <= AttemptsOwe + Owed(u)'
  BY <1>6, OneAttemptChanges DEF OpenInv
<1>12. Booked' + authorised <= Booked + authorised'
  <2>1. AttemptsOwe' <= AttemptsOwe + 1
    <3>1. AttemptsOwe \in Nat /\ AttemptsOwe' \in Nat
      BY LedgerTypes
    <3>2. Owed(u) \in Nat /\ Owed(u)' \in Nat /\ Owed(u)' <= Owed(u) + 1
      BY <1>7, <1>8
    <3> QED BY <1>11, <3>1, <3>2
  <2> QED BY <1>1, <1>10, <2>1, LedgerTypes, BookedIs
<1>13. ASSUME ExactInv, RecoversWhole
       PROVE  ExactInv' /\ Booked' + authorised = Booked + authorised'
  <2>1. /\ indexer[w].turn \in Nat /\ indexer[w].turn \in DOMAIN Plan(w)
        /\ indexer[w].plan \in DOMAIN Profiles /\ Plan(w) \in Seq(Spaces)
        /\ Plan(w) = Profiles[indexer[w].plan]
    BY CandidateTypes DEF TypeOK, Jobs, Plan, Candidates
  <2>2. s \notin RowsOf(d)
    <3>1. Ahead(w, indexer[w].turn)
      BY <1>1, <2>1 DEF Ahead
    <3> QED BY <1>13, <2>1, <3>1 DEF ExactInv, Untried, Candidate
  <2>3. AttemptsOwe' = AttemptsOwe + 1
    <3>1. AttemptsOwe' + Owed(u) = AttemptsOwe + Owed(u)'
      BY <1>6, <1>13, OneAttemptChanges, RecoveryTakesAll DEF OpenInv
    <3> QED BY <1>7, <1>8, <2>2, <3>1, LedgerTypes
  <2>4. Booked' + authorised = Booked + authorised'
    BY <1>1, <1>10, <2>3, LedgerTypes, BookedIs
  <2>5. ASSUME NEW t \in Tokens PROVE Folded(t)'
    <3>1. CASE t # u
      BY <1>6, <1>13, <3>1, FoldedStays, RecoveryTakesAll DEF OpenInv, ExactInv
    <3>2. CASE t = u
      <4>1. Whole(e) /\ e.owner \in Indexers
        BY <1>4, <1>13 DEF Whole, ExactInv, Folded
      <4>2. OneCandidate => \A r, x \in RowsOf(e) : r = x
        BY <1>1, <1>5, <1>13 DEF ExactInv, Untried
      <4> QED BY <3>2, <4>1, <4>2 DEF Folded, Whole, RowsOf
    <3> QED BY <3>1, <3>2
  <2>6. ASSUME NEW v \in Indexers \ {w} PROVE Untried(v)'
    <3>1. indexer'[v] = indexer[v]
      BY <1>1, <1>3
    <3>2. JobStays(v)
      BY <3>1 DEF JobStays, InCalls
    <3>3. InCalls(v) => attempt'[Mine(v)] = attempt[Mine(v)]
      BY <1>2, <1>6 DEF InCalls, Busy
    <3> QED BY <1>13, <3>2, <3>3, UntriedStays DEF ExactInv
  <2>7. Untried(w)'
    <3>1. /\ indexer'[w].at = "calling" /\ indexer'[w].turn = indexer[w].turn
          /\ indexer'[w].plan = indexer[w].plan /\ indexer'[w].token = u
      BY <1>1, <1>3 DEF Jobs, Mine
    <3>2. Plan(w)' = Plan(w) /\ (RowsOf(attempt[Mine(w)]))' = RowsOf(e)
      BY <3>1 DEF Plan, Candidates, Mine, RowsOf
    <3>3. ASSUME NEW i \in DOMAIN Plan(w), Ahead(w, i)' PROVE Plan(w)[i] \notin RowsOf(e)
      <4>1. i \in Nat /\ i > indexer[w].turn
        BY <2>1, <3>1, <3>3 DEF Ahead
      <4>2. Ahead(w, i)
        BY <1>1, <2>1, <4>1 DEF Ahead
      <4>3. Plan(w)[i] \notin RowsOf(d)
        BY <1>13, <4>2 DEF ExactInv, Untried
      <4>4. Plan(w)[i] # s
        BY <1>13, <2>1, <4>1 DEF RecoversWhole, Candidate
      <4> QED BY <1>5, <4>3, <4>4
    <3> QED BY <3>1, <3>2, <3>3 DEF Untried
  <2> QED BY <1>10, <1>13, <2>4, <2>5, <2>6, <2>7 DEF ExactInv
<1> QED BY <1>9, <1>12, <1>13 DEF BooksKept

\* A claim takes over a token whose attempt has been settled, and settles the attempt
\* it displaces.
LEMMA ClaimBooks ==
  ASSUME TypeOK, TypeOK', CallInv, OpenInv, NEW w \in Indexers, NEW n \in Notes, Claim(w, n)
  PROVE  BooksKept
<1>1. /\ \E t \in Tokens : Spare(t)
      /\ LET t == CHOOSE t \in Tokens : Spare(t)
         IN /\ attempt' = [u \in Tokens |->
                 IF u = t
                 THEN [NoAttempt EXCEPT !.status = "running", !.gen = doc[n].gen, !.owner = w]
                 ELSE IF u \in Displaced(n) THEN Settled(u) ELSE attempt[u]]
            /\ indexer' = [indexer EXCEPT ![w] =
                 [at |-> "embed", token |-> t, note |-> n, version |-> doc[n].version,
                  plan |-> profile, turn |-> 1, overdue |-> FALSE]]
            /\ kept' = kept + attempt[t].cost
      /\ UNCHANGED <<askRows, history>>
  BY DEF Claim
<1>2. PICK u \in Tokens :
        /\ Spare(u)
        /\ attempt' = [t \in Tokens |->
             IF t = u THEN [NoAttempt EXCEPT !.status = "running", !.gen = doc[n].gen, !.owner = w]
             ELSE IF t \in Displaced(n) THEN Settled(t) ELSE attempt[t]]
        /\ indexer' = [indexer EXCEPT ![w] =
             [at |-> "embed", token |-> u, note |-> n, version |-> doc[n].version,
              plan |-> profile, turn |-> 1, overdue |-> FALSE]]
        /\ kept' = kept + attempt[u].cost
  <2> DEFINE t == CHOOSE t \in Tokens : Spare(t)
  <2>1. t \in Tokens /\ Spare(t)
    BY <1>1
  <2> QED BY <1>1, <2>1
<1> PICK d \in Attempts, e \in Attempts : d = attempt[u] /\ e = attempt'[u]
  BY DEF TypeOK
<1>3. d.status = "closed" /\ RowsOf(d) = {} /\ d.cost \in Nat
  BY <1>2 DEF Spare, Rows, RowsOf, Attempts
<1>4. e.status = "running" /\ e.cost = 0 /\ e.owner = w /\ RowsOf(e) = {}
  <2>1. e = [NoAttempt EXCEPT !.status = "running", !.gen = doc[n].gen, !.owner = w]
    BY <1>2
  <2>2. e.status = "running" /\ e.cost = 0 /\ e.owner = w /\ e.rows = NoRows
    BY <2>1 DEF NoAttempt
  <2> QED BY <2>2 DEF NoRows, RowsOf
<1>5. \A t \in Tokens \ {u} : LedgerGoesOn(t)
  BY <1>2 DEF LedgerGoesOn
<1>6. Owed(u) = d.cost /\ Owed(u)' = 0
  <2>1. Owed(u) = OwedOf(d) /\ Owed(u)' = OwedOf(e)
    BY LedgerTypes
  <2> QED BY <1>3, <1>4, <2>1, FS_EmptySet DEF OwedOf
<1>7. OpenInv'
  <2>1. Open(e) /\ \A t \in Tokens \ {u} : Open(attempt'[t])
    BY <1>4, <1>5, AttemptOwes DEF OpenInv, Open
  <2> QED BY <2>1 DEF OpenInv, Open
<1>8. BillsOwe' = BillsOwe /\ thread' = thread
  BY <1>1, BillsStay DEF askRows
<1>9. AttemptsOwe \in Nat /\ AttemptsOwe' \in Nat
  BY LedgerTypes
<1>10. Booked' + authorised <= Booked + authorised'
  <2>1. AttemptsOwe' + d.cost <= AttemptsOwe
    <3>1. AttemptsOwe' + Owed(u) <= AttemptsOwe + Owed(u)'
      BY <1>5, OneAttemptChanges DEF OpenInv
    <3> QED BY <1>3, <1>6, <1>9, <3>1
  <2> QED BY <1>1, <1>2, <1>3, <1>8, <2>1, LedgerTypes, BookedIs DEF history
<1>11. ASSUME ExactInv, RecoversWhole PROVE ExactInv' /\ Booked' + authorised = Booked + authorised'
  <2>1. AttemptsOwe' + d.cost = AttemptsOwe
    <3>1. AttemptsOwe' + Owed(u) = AttemptsOwe + Owed(u)'
      BY <1>5, <1>11, OneAttemptChanges, RecoveryTakesAll DEF OpenInv
    <3> QED BY <1>3, <1>6, <1>9, <3>1
  <2>2. Booked' + authorised = Booked + authorised'
    BY <1>1, <1>2, <1>3, <1>8, <2>1, LedgerTypes, BookedIs DEF history
  <2>3. ASSUME NEW t \in Tokens PROVE Folded(t)'
    <3>1. CASE t # u
      BY <1>5, <1>11, <3>1, FoldedStays, RecoveryTakesAll DEF OpenInv, ExactInv
    <3>2. CASE t = u
      BY <1>4, <3>2 DEF Folded, Whole, RowsOf
    <3> QED BY <3>1, <3>2
  <2>4. ASSUME NEW v \in Indexers \ {w} PROVE Untried(v)'
    <3>1. indexer'[v] = indexer[v]
      BY <1>2 DEF TypeOK
    <3>2. JobStays(v)
      BY <3>1 DEF JobStays, InCalls
    <3>3. ASSUME InCalls(v)
          PROVE  RowsOf(attempt'[Mine(v)]) \subseteq RowsOf(attempt[Mine(v)])
      <4>1. Mine(v) \in Tokens \ {u}
        BY <1>2, <3>3 DEF InCalls, Busy, CallInv, ClaimFits, Spare
      <4> QED BY <1>5, <4>1, AttemptOwes DEF OpenInv
    <3> QED BY <1>11, <3>2, <3>3, UntriedStays DEF ExactInv
  <2>5. Untried(w)'
    <3>1. indexer'[w].token = u
      BY <1>2 DEF TypeOK
    <3>2. (RowsOf(attempt[Mine(w)]))' = RowsOf(e)
      BY <3>1 DEF Mine, RowsOf
    <3> QED BY <1>4, <3>2 DEF Untried
  <2> QED BY <1>8, <1>11, <2>2, <2>3, <2>4, <2>5 DEF ExactInv
<1> QED BY <1>7, <1>10, <1>11 DEF BooksKept

\* A reservation lapses.
LEMMA LapseBooks ==
  ASSUME TypeOK, TypeOK', CallInv, OpenInv, NEW u \in Tokens, NEW s \in Spaces, ExpireRow(u, s)
  PROVE  BooksKept
<1>1. /\ attempt[u].rows[s] = "live" /\ attempt' = [attempt EXCEPT ![u].rows[s] = "lapsed"]
      /\ indexer' = [w \in Indexers |-> IF Mine(w) = u /\ Candidate(w) = s
                                        THEN [indexer[w] EXCEPT !.overdue = TRUE] ELSE indexer[w]]
      /\ UNCHANGED <<askRows, kept, history>>
  BY DEF ExpireRow
<1>2. ASSUME NEW t \in Tokens PROVE LedgerGoesOn(t)
  <2>1. CASE t # u
    BY <1>1, <2>1 DEF LedgerGoesOn, TypeOK
  <2>2. CASE t = u
    BY <1>1, <2>2 DEF LedgerGoesOn, Lapses, TypeOK
  <2> QED BY <2>1, <2>2
<1>3. ASSUME NEW w \in Indexers PROVE JobStays(w)
  <2>1. /\ indexer'[w].at = indexer[w].at /\ indexer'[w].token = indexer[w].token
        /\ indexer'[w].plan = indexer[w].plan /\ indexer'[w].turn = indexer[w].turn
    BY <1>1 DEF TypeOK, Jobs
  <2> QED BY <2>1 DEF JobStays, InCalls
<1> QED BY <1>1, <1>2, <1>3, QuietLedger DEF askRows

LEMMA IndexNextBooks ==
  ASSUME TypeOK, TypeOK', CallInv, OpenInv, IndexNext
  PROVE  BooksKept
<1>1. ASSUME NEW w \in Indexers, Index(w)
      PROVE  BooksKept
  BY <1>1, IndexBooks, DispatchBooks
<1>2. ASSUME NEW w \in Indexers, NEW n \in Notes, Claim(w, n)
      PROVE  BooksKept
  BY <1>2, ClaimBooks
<1>3. ASSUME NEW t \in Tokens, NEW s \in Spaces, ExpireRow(t, s)
      PROVE  BooksKept
  BY <1>3, LapseBooks
<1>4. ASSUME UNCHANGED <<attempt, indexer, askRows, kept, history>>
      PROVE  BooksKept
  <2>1. \A t \in Tokens : LedgerGoesOn(t)
    BY <1>4 DEF LedgerGoesOn
  <2>2. \A w \in Indexers : JobStays(w)
    BY <1>4 DEF JobStays, InCalls
  <2> QED BY <1>4, <2>1, <2>2, QuietLedger DEF askRows
<1>5. ASSUME NEW n \in Notes,
             \/ CreateNote(n) \/ EditNote(n) \/ DeleteNote(n) \/ RerunSummary(n)
             \/ FailSummary(n) \/ PersistSummary(n) \/ RetryDue(n) \/ ExpireClaim(n)
             \/ \E marked \in BOOLEAN : Invalidate(n, marked)
             \/ \E w \in Indexers : ClaimDeletes(w, n)
      PROVE  UNCHANGED <<attempt, indexer, askRows, kept, history>>
  BY <1>5 DEF CreateNote, EditNote, DeleteNote, RerunSummary, FailSummary, PersistSummary, RetryDue,
       ExpireClaim, Invalidate, ClaimDeletes, Sync
<1>6. ChangeProfile \/ Reconcile => UNCHANGED <<attempt, indexer, askRows, kept, history>>
  BY DEF ChangeProfile, Reconcile, Sync
<1> QED BY <1>1, <1>2, <1>3, <1>4, <1>5, <1>6 DEF IndexNext

\* Steps of a conversation move what was charged between its bills, its turns and the
\* rest, and charge one call more when they reserve it.
LEMMA AskLedger ==
  ASSUME TypeOK, TypeOK', OpenInv, UNCHANGED <<attempt, indexer>>,
         kept' + thread'.cost + BillsOwe' + forgotten' + authorised
           <= kept + thread.cost + BillsOwe + forgotten + authorised',
         ExactInv /\ RecoversWhole =>
           /\ kept' + thread'.cost + BillsOwe' + forgotten' + authorised
                = kept + thread.cost + BillsOwe + forgotten + authorised'
           /\ thread'.turns = 0 => thread'.cost = 0
  PROVE  BooksKept
<1>1. AttemptsOwe' = AttemptsOwe
  BY AttemptsStay
<1>2. OpenInv' /\ \A t \in Tokens : Folded(t)' <=> Folded(t)
  BY DEF OpenInv, Folded
<1>3. \A w \in Indexers : Untried(w)' <=> Untried(w)
  BY DEF Untried, Ahead, Plan, Mine
<1>4. Booked' + authorised <= Booked + authorised'
  BY <1>1, LedgerTypes, BookedIs
<1>5. ASSUME ExactInv, RecoversWhole PROVE ExactInv' /\ Booked' + authorised = Booked + authorised'
  BY <1>1, <1>2, <1>3, <1>5, LedgerTypes, BookedIs DEF ExactInv
<1> QED BY <1>2, <1>4, <1>5 DEF BooksKept

LEMMA FailsKeepsRows ==
  ASSUME TypeOK, NEW a \in Askers,
         \/ Fails(a) \/ Retrieved(a) \/ QueryMissed(a) \/ AnswerMissed(a)
         \/ bill' = [bill EXCEPT ![a].state = "done"] /\ UNCHANGED authorised
         \/ UNCHANGED <<bill, authorised>>
  PROVE  authorised' = authorised /\ \A b \in Askers : bill'[b].rows = bill[b].rows
<1>1. bill \in [Askers -> Bills]
  BY DEF TypeOK
<1>2. CASE Fails(a)
  BY <1>1, <1>2 DEF Fails, Bills
<1>3. CASE bill' = [bill EXCEPT ![a].state = "done"] /\ UNCHANGED authorised
  BY <1>1, <1>3 DEF Bills
<1>4. CASE Retrieved(a)
  BY <1>2, <1>4 DEF Retrieved
<1> QED BY <1>2, <1>3, <1>4 DEF QueryMissed, AnswerMissed

LEMMA AnswerCases ==
  ASSUME TypeOK, NEW a \in Askers, Answer(a)
  PROVE  \/ Save(a) \/ Release(a)
         \/ Charge(a) /\ UNCHANGED <<thread, kept, forgotten>>
         \/ /\ UNCHANGED <<thread, kept, forgotten>> /\ authorised' = authorised
            /\ \A b \in Askers : bill'[b].rows = bill[b].rows
<1>1. CASE ReserveQuery(a) \/ ReserveAnswer(a)
  <2>1. \/ Charge(a) \/ Fails(a) \/ Retrieved(a) \/ QueryMissed(a) \/ AnswerMissed(a)
    BY <1>1 DEF ReserveQuery, ReserveAnswer
  <2>2. UNCHANGED <<thread, kept, forgotten>>
    BY <1>1 DEF ReserveQuery, ReserveAnswer
  <2> QED BY <2>1, <2>2, FailsKeepsRows
<1>2. CASE \/ RenewQuery(a) \/ QueryFails(a) \/ RenewAnswer(a) \/ Validate(a) \/ AnswerFails(a)
           \/ SaveRefused(a)
  <2>1. \/ Fails(a) \/ Retrieved(a) \/ QueryMissed(a) \/ AnswerMissed(a)
        \/ UNCHANGED <<bill, authorised>>
    BY <1>2 DEF RenewQuery, QueryFails, RenewAnswer, Validate, AnswerFails, SaveRefused
  <2>2. UNCHANGED <<thread, kept, forgotten>>
    BY <1>2 DEF RenewQuery, QueryFails, RenewAnswer, Validate, AnswerFails, SaveRefused
  <2> QED BY <2>1, <2>2, FailsKeepsRows
<1>3. CASE Retrieve(a) \/ AnswerReturns(a)
  <2>1. \/ bill' = [bill EXCEPT ![a].state = "done"] /\ UNCHANGED authorised
        \/ UNCHANGED <<bill, authorised>>
    BY <1>3 DEF Retrieve, AnswerReturns, history
  <2>2. UNCHANGED <<thread, kept, forgotten>>
    BY <1>3 DEF Retrieve, AnswerReturns, history
  <2> QED BY <2>1, <2>2, FailsKeepsRows
<1> QED BY <1>1, <1>2, <1>3 DEF Answer

LEMMA AnswerBooks ==
  ASSUME TypeOK, TypeOK', OpenInv, NEW a \in Askers, Answer(a) \/ AskClaim(a) \/ ExpireBill(a)
  PROVE  BooksKept
<1>1. UNCHANGED <<attempt, indexer>>
  BY DEF Answer, AskClaim, ExpireBill, ReserveQuery, RenewQuery, Retrieve, QueryFails,
       ReserveAnswer, RenewAnswer, Validate, AnswerReturns, AnswerFails, Save, SaveRefused, Release,
       indexVars
<1>2. /\ bill \in [Askers -> Bills] /\ bill[a].rows \in Nat /\ thread \in Threads
      /\ BillsOwe \in Nat /\ BillsOwe' \in Nat /\ kept \in Nat /\ thread.cost \in Nat
      /\ authorised \in Nat /\ forgotten \in Nat /\ thread.turns \in Nat
  BY LedgerTypes DEF TypeOK, Threads
<1>3. CASE AskClaim(a)
  <2>1. /\ thread' = [thread EXCEPT !.present = TRUE, !.token = a, !.live = TRUE]
        /\ kept' = kept + bill[a].rows /\ bill' = [bill EXCEPT ![a] = NoBill] /\ UNCHANGED history
    BY <1>3 DEF AskClaim
  <2>2. thread'.cost = thread.cost /\ thread'.turns = thread.turns
    BY <1>2, <2>1 DEF Threads
  <2>3. bill'[a].rows = 0 /\ \A b \in Askers \ {a} : bill'[b].rows = bill[b].rows
    BY <1>2, <2>1 DEF NoBill
  <2>4. BillsOwe' + bill[a].rows = BillsOwe
    BY <1>2, <2>3, OneBillChanges
  <2> QED BY <1>1, <1>2, <2>1, <2>2, <2>4, AskLedger DEF ExactInv, history
<1>4. CASE Save(a)
  <2>1. /\ thread' = [thread EXCEPT !.turns = @ + 1, !.cost = @ + bill[a].rows, !.token = None,
                                    !.live = FALSE]
        /\ bill' = [bill EXCEPT ![a] = NoBill] /\ UNCHANGED <<kept, history>>
    BY <1>4 DEF Save
  <2> DEFINE turns == thread.turns + 1
             cost == thread.cost + bill[a].rows
  <2>2. turns \in Nat \ {0} /\ cost \in Nat
    BY <1>2
  <2>3. thread'.cost = cost /\ thread'.turns = turns
    <3>1. thread' = [thread EXCEPT !.turns = turns, !.cost = cost, !.token = None, !.live = FALSE]
      BY <1>2, <2>1 DEF Threads
    <3> HIDE DEF turns, cost
    <3> QED BY <1>2, <3>1 DEF Threads
  <2>4. bill'[a].rows = 0 /\ \A b \in Askers \ {a} : bill'[b].rows = bill[b].rows
    BY <1>2, <2>1 DEF NoBill
  <2>5. BillsOwe' + bill[a].rows = BillsOwe
    BY <1>2, <2>4, OneBillChanges
  <2> QED BY <1>1, <1>2, <2>1, <2>2, <2>3, <2>5, AskLedger DEF history
<1>5. CASE Release(a)
  <2>1. /\ \/ thread' = thread
           \/ thread.turns = 0 /\ thread' = NoThread
           \/ thread' = [thread EXCEPT !.token = None, !.live = FALSE]
        /\ UNCHANGED <<bill, kept, history>>
    BY <1>5 DEF Release
  <2>2. BillsOwe' = BillsOwe
    <3>1. bill' = bill
      BY <2>1
    <3> QED BY <3>1, BillsStay
  <2>3. \/ thread'.cost = thread.cost /\ thread'.turns = thread.turns
        \/ thread.turns = 0 /\ thread'.cost = 0
    <3>1. thread' = NoThread => thread'.cost = 0
      BY DEF NoThread
    <3>2. thread' = [thread EXCEPT !.token = None, !.live = FALSE]
            => thread'.cost = thread.cost /\ thread'.turns = thread.turns
      BY <1>2 DEF Threads
    <3> QED BY <2>1, <3>1, <3>2
  <2> QED BY <1>1, <1>2, <2>1, <2>2, <2>3, AskLedger DEF ExactInv, history
<1>6. CASE Charge(a) /\ UNCHANGED <<thread, kept, forgotten>>
  <2> DEFINE rows == bill[a].rows + 1
  <2>1. /\ bill' = [bill EXCEPT ![a] = [rows |-> rows, state |-> "live"]]
        /\ authorised' = authorised + 1
    BY <1>2, <1>6 DEF Charge
  <2> HIDE DEF rows
  <2>2. bill'[a].rows = rows /\ \A b \in Askers \ {a} : bill'[b].rows = bill[b].rows
    BY <1>2, <2>1
  <2>3. BillsOwe' + bill[a].rows = BillsOwe + rows
    BY <2>2, OneBillChanges
  <2>4. BillsOwe' = BillsOwe + 1
    BY <1>2, <2>3 DEF rows
  <2> QED BY <1>1, <1>2, <1>6, <2>1, <2>4, AskLedger DEF ExactInv
<1>7. CASE /\ UNCHANGED <<thread, kept, forgotten>> /\ authorised' = authorised
           /\ \A b \in Askers : bill'[b].rows = bill[b].rows
  <2>1. BillsOwe' = BillsOwe
    BY <1>7, BillsStay
  <2> QED BY <1>1, <1>2, <1>7, <2>1, AskLedger DEF ExactInv
<1>8. CASE ExpireBill(a)
  <2>1. \A b \in Askers : bill'[b].rows = bill[b].rows
    BY <1>2, <1>8 DEF ExpireBill, Bills
  <2>2. UNCHANGED <<thread, kept, history>>
    BY <1>8 DEF ExpireBill
  <2> QED BY <1>7, <2>1, <2>2 DEF history
<1> QED BY <1>3, <1>4, <1>5, <1>6, <1>7, <1>8, AnswerCases

-----------------------------------------------------------------------------
\* A crash leaves rows behind, and the next start folds those it may take.
LEMMA RestartBooks ==
  ASSUME TypeOK, TypeOK', CallInv, OpenInv,
         \/ StartUp \/ Crash \/ \E x \in (Indexers \cup Askers) \ Daemon : CrashOther(x)
  PROVE  BooksKept
<1>1. CASE StartUp
  <2>1. /\ attempt' = [t \in Tokens |-> Recovered(t)] /\ UNCHANGED <<indexer, kept, history>>
        /\ thread' = IF thread.token \in Daemon
                     THEN [thread EXCEPT !.token = None, !.live = FALSE] ELSE thread
        /\ bill' = [a \in Askers |->
             IF bill[a].state = "lapsed" \/ (bill[a].state = "live" /\ a \in Daemon)
             THEN [bill[a] EXCEPT !.state = "done"] ELSE bill[a]]
    BY <1>1 DEF StartUp
  <2>2. thread'.cost = thread.cost /\ thread'.turns = thread.turns
    BY <2>1 DEF TypeOK, Threads
  <2>3. \A a \in Askers : bill'[a].rows = bill[a].rows
    BY <2>1 DEF TypeOK, Bills
  <2>4. \A t \in Tokens : LedgerGoesOn(t)
    BY <2>1 DEF LedgerGoesOn
  <2>5. \A w \in Indexers : JobStays(w)
    BY <2>1 DEF JobStays, InCalls
  <2> QED BY <2>1, <2>2, <2>3, <2>4, <2>5, QuietLedger
<1>2. ASSUME NEW X, CrashOf(X) PROVE BooksKept
  <2>1. /\ \A w \in Indexers : indexer'[w] = indexer[w] \/ indexer'[w] = Idle
        /\ UNCHANGED <<attempt, askRows, kept, history>>
    BY <1>2 DEF CrashOf, Stopped
  <2>2. \A t \in Tokens : LedgerGoesOn(t)
    BY <2>1 DEF LedgerGoesOn
  <2>3. \A w \in Indexers : JobStays(w)
    BY <2>1 DEF JobStays, InCalls, Idle
  <2> QED BY <2>1, <2>2, <2>3, QuietLedger DEF askRows
<1> QED BY <1>1, <1>2 DEF Crash, CrashOther

LEMMA ThreadBooks ==
  ASSUME TypeOK, TypeOK', OpenInv, DeleteThread \/ ExpireThread
  PROVE  BooksKept
<1>1. /\ thread \in Threads /\ BillsOwe \in Nat /\ kept \in Nat /\ thread.cost \in Nat
      /\ authorised \in Nat /\ forgotten \in Nat
  BY LedgerTypes DEF TypeOK
<1>2. UNCHANGED <<attempt, indexer, bill, kept, authorised>>
  BY DEF DeleteThread, ExpireThread, indexVars, history
<1>3. BillsOwe' = BillsOwe
  BY <1>2, BillsStay
<1>4. \/ thread'.cost = thread.cost /\ thread'.turns = thread.turns /\ forgotten' = forgotten
      \/ thread'.cost = 0 /\ forgotten' = forgotten + thread.cost
  <2>1. CASE DeleteThread
    BY <2>1 DEF DeleteThread, NoThread
  <2>2. CASE ExpireThread
    BY <1>1, <2>2 DEF ExpireThread, Threads, history
  <2> QED BY <2>1, <2>2
<1> QED BY <1>1, <1>2, <1>3, <1>4, AskLedger DEF ExactInv

LEMMA LedgerStep ==
  ASSUME AllTypesOK, AllTypesOK', CallInv, OpenInv, [Next]_vars
  PROVE  BooksKept
<1>1. CASE UNCHANGED vars
  <2>1. /\ UNCHANGED <<attempt, indexer, thread, bill, kept, history>>
        /\ \A t \in Tokens : LedgerGoesOn(t)
    BY <1>1 DEF vars, indexVars, askRows, LedgerGoesOn
  <2>2. \A w \in Indexers : JobStays(w)
    BY <2>1 DEF JobStays, InCalls
  <2> QED BY <2>1, <2>2, QuietLedger DEF AllTypesOK
<1>2. CASE Next
  BY <1>2, IndexNextBooks, AnswerBooks, RestartBooks, ThreadBooks DEF AllTypesOK, Next
<1> QED BY <1>1, <1>2

LEMMA LedgerInit == Init => OpenInv /\ ExactInv /\ Booked = 0 /\ authorised = 0
<1> SUFFICES ASSUME Init PROVE OpenInv /\ ExactInv /\ Booked = 0 /\ authorised = 0
  OBVIOUS
<1>1. \A t \in Tokens : attempt[t] = NoAttempt
  BY DEF Init
<1>2. RowsOf(NoAttempt) = {} /\ NoAttempt.status = "closed" /\ NoAttempt.cost = 0
  BY DEF RowsOf, NoAttempt, NoRows
<1>3. OpenInv /\ \A t \in Tokens : Folded(t)
  BY <1>1, <1>2 DEF OpenInv, Open, Folded, Whole
<1>4. ExactInv
  BY <1>3 DEF Init, ExactInv, Untried, Ahead, Idle
<1>5. \A t \in Tokens : Owed(t) = 0
  <2>1. ASSUME NEW t \in Tokens PROVE Rows(t) = {} /\ AttemptCost(t) = 0
    BY <1>1, <1>2 DEF Rows, RowsOf, AttemptCost
  <2> QED BY <2>1, FS_EmptySet DEF Owed
<1>6. ASSUME NEW D, NEW f, f = [x \in D |-> 0] PROVE Total(f) = 0
  <2>1. UNION {{x} \X (1 .. f[x]) : x \in DOMAIN f} = {}
    BY <1>6
  <2> QED BY <2>1, FS_EmptySet DEF Total
<1>7. AttemptsOwe = 0
  <2>1. [t \in Tokens |-> Owed(t)] = [t \in Tokens |-> 0]
    BY <1>5
  <2> QED BY <1>6, <2>1 DEF AttemptsOwe
<1>8. BillsOwe = 0
  <2>1. [a \in Askers |-> bill[a].rows] = [a \in Askers |-> 0]
    BY DEF Init, NoBill
  <2> QED BY <1>6, <2>1 DEF BillsOwe
<1>9. Booked = 0
  BY <1>7, <1>8, BookedIs DEF Init
<1> QED BY <1>3, <1>4, <1>9 DEF Init

\* How the calls the ledger allowed compare with its ceiling, after each step.
LEMMA CeilingStep ==
  ASSUME AllTypesOK, AllTypesOK', [Next]_vars
  PROVE  \/ authorised' = authorised /\ forgotten <= forgotten'
         \/ Spent + 1 <= Ceiling /\ authorised' = authorised + 1 /\ forgotten' = forgotten
<1>1. thread.cost \in Nat /\ forgotten \in Nat /\ thread \in Threads
  BY DEF AllTypesOK, TypeOK, Threads
<1>2. ASSUME UNCHANGED history
      PROVE  authorised' = authorised /\ forgotten <= forgotten'
  BY <1>1, <1>2 DEF history
<1>3. CASE UNCHANGED vars
  BY <1>2, <1>3 DEF vars
<1>4. CASE IndexNext
  <2>1. ASSUME NEW w \in Indexers, Dispatch(w)
        PROVE  Spent + 1 <= Ceiling /\ authorised' = authorised + 1 /\ forgotten' = forgotten
    BY <2>1, Zenon DEF Dispatch, Affordable
  <2>2. ASSUME \A w \in Indexers : ~Dispatch(w) PROVE UNCHANGED history
    BY <1>4, <2>2, Zenon
       DEF IndexNext, Index, DispatchSuperseded, DispatchRefused, CallReturns, CallFails,
         Publish, FailDocument, Claim, ClaimDeletes, CreateNote, EditNote, DeleteNote, RerunSummary,
         FailSummary, PersistSummary, RetryDue, ExpireClaim, Invalidate, ExpireRow, ChangeProfile,
         Reconcile
  <2> QED BY <1>2, <2>1, <2>2
<1>5. ASSUME NEW a \in Askers, AskClaim(a) \/ ExpireBill(a) PROVE UNCHANGED history
  BY <1>5 DEF AskClaim, ExpireBill
<1>6. ASSUME NEW a \in Askers, Answer(a)
      PROVE  \/ authorised' = authorised /\ forgotten' = forgotten
             \/ Spent + 1 <= Ceiling /\ authorised' = authorised + 1 /\ forgotten' = forgotten
  <2>1. CASE Save(a) \/ Release(a)
    BY <2>1 DEF Save, Release, history
  <2>2. CASE Charge(a) /\ UNCHANGED <<thread, kept, forgotten>>
    BY <2>2 DEF Charge, Affordable
  <2> QED BY <1>6, <2>1, <2>2, AnswerCases DEF AllTypesOK
<1>7. CASE DeleteThread
  BY <1>1, <1>7 DEF DeleteThread
<1>8. CASE \/ ExpireThread \/ StartUp \/ Crash
           \/ \E x \in (Indexers \cup Askers) \ Daemon : CrashOther(x)
  <2>1. UNCHANGED history
    BY <1>8 DEF ExpireThread, StartUp, Crash, CrashOther, CrashOf
  <2> QED BY <1>2, <2>1
<1>9. forgotten <= forgotten
  BY <1>1
<1> QED BY <1>2, <1>3, <1>4, <1>5, <1>6, <1>7, <1>8, <1>9 DEF Next

\* cost_budget_status, recover_provider_dispatch_reservations: whatever becomes of the
\* reservation of a call, settled, displaced, folded by a restart or forgotten with its
\* conversation, the ledger never holds more than the calls that were made.
CountsOnce == Spent + forgotten <= authorised

THEOREM NoCallCountsTwice == Spec => []CountsOnce
<1>1. Init => OpenInv /\ CountsOnce
  <2> SUFFICES ASSUME Init PROVE OpenInv /\ CountsOnce
    OBVIOUS
  <2>1. OpenInv /\ Booked = 0 /\ authorised = 0
    BY LedgerInit
  <2> QED BY <2>1 DEF CountsOnce, Booked
<1>2. AllTypesOK /\ AllTypesOK' /\ CallInv /\ OpenInv /\ CountsOnce /\ [Next]_vars
      => OpenInv' /\ CountsOnce'
  <2> SUFFICES ASSUME AllTypesOK, AllTypesOK', CallInv, OpenInv, CountsOnce, [Next]_vars
               PROVE  OpenInv' /\ CountsOnce'
    OBVIOUS
  <2>1. OpenInv' /\ Booked' + authorised <= Booked + authorised'
    BY LedgerStep DEF BooksKept
  <2>2. Booked \in Nat /\ Booked' \in Nat /\ authorised \in Nat /\ authorised' \in Nat
    BY LedgerTypes, BookedIs DEF AllTypesOK
  <2>3. Booked <= authorised
    BY DEF CountsOnce, Booked
  <2>4. Booked' <= authorised'
    <3>1. \A b, c, i, j \in Nat : c + i <= b + j /\ b <= i => c <= j
      OBVIOUS
    <3> QED BY <2>1, <2>2, <2>3, <3>1
  <2> QED BY <2>1, <2>4 DEF CountsOnce, Booked
<1>3. Spec => [](OpenInv /\ CountsOnce)
  BY <1>1, <1>2, TypeCorrect, CallInvHolds, PTL DEF Spec
<1> QED BY <1>3, PTL

\* The ledger with what it needs to stay exact, and to stay under its ceiling.
ExactLedger == OpenInv /\ ExactInv /\ LedgerIsExact /\ authorised <= Ceiling + forgotten

LEMMA ExactLedgerHolds == RecoversWhole => (Spec => []ExactLedger)
<1> SUFFICES ASSUME RecoversWhole PROVE Spec => []ExactLedger
  OBVIOUS
<1>1. Init => ExactLedger
  <2> SUFFICES ASSUME Init PROVE ExactLedger
    OBVIOUS
  <2>1. OpenInv /\ ExactInv /\ Booked = 0 /\ authorised = 0 /\ forgotten = 0
    BY LedgerInit DEF Init
  <2> QED BY <2>1, BoundsAssumption DEF ExactLedger, LedgerIsExact, Booked
<1>2. AllTypesOK /\ AllTypesOK' /\ CallInv /\ ExactLedger /\ [Next]_vars => ExactLedger'
  <2> SUFFICES ASSUME AllTypesOK, AllTypesOK', CallInv, ExactLedger, [Next]_vars
               PROVE  ExactLedger'
    OBVIOUS
  <2>1. OpenInv' /\ ExactInv' /\ Booked' + authorised = Booked + authorised'
    BY LedgerStep DEF BooksKept, ExactLedger
  <2>2. /\ Booked \in Nat /\ Booked' \in Nat /\ authorised \in Nat /\ authorised' \in Nat
        /\ forgotten \in Nat /\ forgotten' \in Nat /\ Spent \in Nat /\ Ceiling \in Nat
    BY LedgerTypes, BookedIs, BoundsAssumption
       DEF AllTypesOK, Spent, Reserved, AttemptsOwe, BillsOwe
  <2>3. Spent + forgotten = authorised /\ Booked = authorised /\ authorised <= Ceiling + forgotten
    BY DEF ExactLedger, LedgerIsExact, Booked
  <2>4. Booked' = authorised'
    BY <2>1, <2>2, <2>3
  <2>5. authorised' <= Ceiling + forgotten'
    <3>1. CASE authorised' = authorised /\ forgotten <= forgotten'
      <4>1. \A i, j, k, l \in Nat : i <= j + k /\ k <= l => i <= j + l
        OBVIOUS
      <4> QED BY <2>2, <2>3, <3>1, <4>1
    <3>2. CASE Spent + 1 <= Ceiling /\ authorised' = authorised + 1 /\ forgotten' = forgotten
      BY <2>2, <2>3, <3>2
    <3> QED BY <3>1, <3>2, CeilingStep
  <2> QED BY <2>1, <2>4, <2>5 DEF ExactLedger, LedgerIsExact, Booked
<1> QED BY <1>1, <1>2, TypeCorrect, CallInvHolds, PTL DEF Spec

\* Where recovery takes all reservations of an attempt at once, the ledger neither
\* forgets nor repeats a call ...
THEOREM LedgerExact == RecoversWhole => (Spec => []LedgerIsExact)
<1>1. ExactLedger => LedgerIsExact
  BY DEF ExactLedger
<1> QED BY <1>1, ExactLedgerHolds, PTL

\* ... and no more calls are made than the ceiling allows, those of conversations
\* that were deleted since aside.
THEOREM CallsStayWithinCeiling == RecoversWhole => (Spec => []CallsWithinCeiling)
<1> SUFFICES ASSUME RecoversWhole PROVE Spec => []CallsWithinCeiling
  OBVIOUS
<1>1. CountsOnce /\ ExactLedger => CallsWithinCeiling
  BY DEF CountsOnce, ExactLedger, CallsWithinCeiling
<1> QED BY <1>1, ExactLedgerHolds, NoCallCountsTwice, PTL
=============================================================================
