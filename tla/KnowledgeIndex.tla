--------------------------- MODULE KnowledgeIndex ---------------------------
(***************************************************************************)
(* The note index of worker/knowledge_index.py and the cost ledger of      *)
(* providers/usage.py, for the notes of one recording.                     *)
(*                                                                         *)
(* A note that may be searched has a document: the version it stands for,  *)
(* a generation drawn afresh at every reset, and a claim.  Whoever holds   *)
(* the claim sends the note to the embedding providers of the profile, one *)
(* candidate after the other, and reserves the cost of each call in the    *)
(* transaction that checks the claim a last time.  A reservation is a row  *)
(* of its own until its attempt is settled.  The thread of module          *)
(* AskThread spends from the same ledger.                                  *)
(*                                                                         *)
(* Each claim draws a token and opens an attempt row; the token names      *)
(* both.  Every provider call costs one unit.                              *)
(***************************************************************************)
EXTENDS Naturals, Sequences, FiniteSetsExt

CONSTANTS
  Notes, Generated, \* the notes; those among them the pipeline writes
  Indexers, Askers, \* threads that index; threads that answer a question
  Daemon,           \* the threads among them that live in the daemon process
  Tokens,           \* claims of documents
  Spaces,           \* embedding identities: provider, model, options
  Profiles,         \* Profiles[p]: the candidates of profile p, best first
  None,             \* no token, no space
  Ceiling,          \* cost_ceiling of the profile
  MaxVersion,       \* bound: versions of a note
  MaxRequests,      \* bound: library-wide requests
  MaxFaults,        \* bound: failed calls, late answers
  MaxCrashes        \* bound: crashes

ASSUME NotesAssumption  == Generated \subseteq Notes /\ Daemon \subseteq Indexers \cup Askers
ASSUME SpacesAssumption == IsFiniteSet(Spaces)
ASSUME RowsAssumption   == IsFiniteSet(Tokens) /\ IsFiniteSet(Askers)
ASSUME NoneAssumption   == None \notin Tokens \cup Spaces \cup Askers
ASSUME ProfilesAssumption ==
  Profiles \in Seq(Seq(Spaces)) \ {<<>>} /\ \A p \in DOMAIN Profiles : Profiles[p] # <<>>
ASSUME BoundsAssumption ==
  {Ceiling, MaxVersion, MaxRequests, MaxFaults, MaxCrashes} \subseteq Nat

VARIABLES
  note,       \* UserNote or Summary: its version, and whether it may be indexed
  profile,    \* the profile in force
  doc,        \* KnowledgeDocument of each note
  chunks,     \* KnowledgeChunk rows: what they were computed from
  attempt,    \* KnowledgeIndexAttempt and its ProviderCostReservation rows
  indexer,    \* the threads that index (overdue: history, the lease of a call ran out)
  thread,     \* the AskThread row
  bill,       \* the ProviderCostReservation rows of each question
  kept,       \* cost of attempts and questions that are over
  up,         \* the daemon process runs
  authorised, \* history: calls whose cost was reserved
  forgotten,  \* history: cost of deleted conversations
  used        \* counters behind the bounds

indexVars == <<note, profile, doc, chunks, attempt, indexer>>
askRows   == <<thread, bill>>
history   == <<authorised, forgotten>>

Candidates(p) == Profiles[p]
Allowed(p)    == {Candidates(p)[i] : i \in DOMAIN Candidates(p)}

NoDoc == [status |-> "none", gen |-> 0, version |-> 0, token |-> None, live |-> FALSE,
          wait |-> FALSE, space |-> None]
NoChunks   == [version |-> 0, space |-> None]
NoRows     == [s \in Spaces |-> "none"]
NoAttempt  == [status |-> "closed", gen |-> 0, owner |-> None, rows |-> NoRows, cost |-> 0]
Idle       == [at |-> "idle", token |-> None, note |-> None, version |-> 0, plan |-> 1,
               turn |-> 1, overdue |-> FALSE]
NoBill == [rows |-> 0, state |-> "none"]

NoteRows  == [status : {"none", "live", "stale", "rerun"}, version : Nat]
Documents == [status : {"none", "pending", "running", "completed", "failed"}, gen : Nat,
              version : Nat, token : Tokens \cup {None}, live : BOOLEAN, wait : BOOLEAN,
              space : Spaces \cup {None}]
ChunkRows == [version : Nat, space : Spaces \cup {None}]
Attempts  == [status : {"running", "closed"}, gen : Nat, owner : Indexers \cup {None},
              rows : [Spaces -> {"none", "live", "lapsed"}], cost : Nat]
Jobs      == {j \in [at : {"idle", "embed", "calling", "publish", "failing"},
                     token : Tokens \cup {None}, note : Notes \cup {None}, version : Nat,
                     plan : DOMAIN Profiles, turn : Nat, overdue : BOOLEAN] :
                j.turn \in DOMAIN Profiles[j.plan]}
Threads   == [present : BOOLEAN, token : Askers \cup {None}, live : BOOLEAN, turns : Nat,
              cost : Nat]
Bills     == [rows : Nat, state : {"none", "live", "lapsed", "done"}]

TypeOK ==
  /\ note \in [Notes -> NoteRows] /\ profile \in DOMAIN Profiles
  /\ doc \in [Notes -> Documents] /\ chunks \in [Notes -> ChunkRows]
  /\ attempt \in [Tokens -> Attempts] /\ indexer \in [Indexers -> Jobs]
  /\ thread \in Threads /\ bill \in [Askers -> Bills]
  /\ kept \in Nat /\ up \in BOOLEAN /\ authorised \in Nat /\ forgotten \in Nat
  /\ used \in [requests : Nat, faults : Nat, crashes : Nat]

Use(what, bound) == used[what] < bound /\ used' = [used EXCEPT ![what] = @ + 1]
Fault == Use("faults", MaxFaults)

\* A thread of the daemon needs the daemon.
Runs(x) == x \in Daemon => up

-----------------------------------------------------------------------------
(***************************************************************************)
(* The ledger.                                                             *)
(***************************************************************************)

Rows(t)   == {s \in Spaces : attempt[t].rows[s] # "none"}
Active(t) == \E s \in Spaces : attempt[t].rows[s] = "live"

\* Cost of an attempt that is over, wherever its reservations went.
AttemptCost(t) == IF attempt[t].status = "closed" THEN attempt[t].cost ELSE 0
Owed(t)        == AttemptCost(t) + Cardinality(Rows(t))

\* The sum of the values of f.
Total(f) == Cardinality(UNION {{x} \X (1 .. f[x]) : x \in DOMAIN f})

Reserved == Total([t \in Tokens |-> Owed(t)]) + Total([a \in Askers |-> bill[a].rows])

\* cost_budget_status.
Spent == kept + thread.cost + Reserved

\* reserve_provider_cost: one more call.
Affordable == Spent + 1 <= Ceiling

\* Mutant: the reservations of a settled attempt stay behind.
SettledTwice(t) == [attempt[t] EXCEPT !.status = "closed",
                                      !.cost = Max({@, Cardinality(Rows(t))})]

\* _settle_document_dispatch_reservations and the end of the attempt.
Settled(t) == [attempt[t] EXCEPT !.status = "closed", !.rows = NoRows,
                                 !.cost = Max({@, Cardinality(Rows(t))})]
SettleIfRunning(t) == IF attempt[t].status = "running" THEN Settled(t) ELSE attempt[t]

-----------------------------------------------------------------------------
(***************************************************************************)
(* Documents follow notes and profile.                                     *)
(***************************************************************************)

\* _summary_is_current (a rerun of the summary stage may index what it is about
\* to replace), _user_note_is_allowed.
Indexable(nt) == nt.status \in {"live", "rerun"}

\* knowledge_document_is_current.
IsCurrent(n) == Indexable(note[n]) /\ doc[n].version = note[n].version

ClaimActive(n) == doc[n].status = "running" /\ doc[n].live
AskActive == thread.present /\ thread.token # None /\ thread.live

\* Mutant: a new embedding profile is not noticed.
NeverOutdated(n, p) == FALSE

\* _profile_changed.
ProfileChanged(n, p) ==
  IF doc[n].space = None THEN doc[n].status = "completed" ELSE doc[n].space \notin Allowed(p)

\* _reset_document, or a new document.
Fresh(n, version) ==
  [NoDoc EXCEPT !.status = "pending", !.gen = doc[n].gen + 1, !.version = version]

\* _delete_document.
Deleted(n) == [NoDoc EXCEPT !.gen = doc[n].gen]

\* sync_summary_document, sync_user_note_document.
Synced(n, nt, p) ==
  IF ~Indexable(nt) THEN Deleted(n)
  ELSE IF doc[n].status = "none" \/ doc[n].version # nt.version \/ ProfileChanged(n, p)
       THEN Fresh(n, nt.version)
       ELSE doc[n]

Sync(S, nts, p) ==
  /\ note' = nts /\ profile' = p
  /\ doc' = [n \in Notes |-> IF n \in S THEN Synced(n, nts[n], p) ELSE doc[n]]
  /\ chunks' = [n \in Notes |-> IF doc'[n] = doc[n] THEN chunks[n] ELSE NoChunks]
  /\ UNCHANGED <<attempt, indexer>>

\* Mutant: an edit does not look whether the note is being indexed or cited.
FreeWheneverAsked(n) == TRUE

\* lock_user_note_for_mutation, lock_summary_for_mutation.
Free(n) == ~AskActive /\ ~ClaimActive(n)

Revised(n) == [note EXCEPT ![n].version = @ + 1, ![n].status = "live"]

\* create_note, copy_generated_summary, save_answer_as_note.
CreateNote(n) ==
  /\ n \notin Generated /\ note[n].status = "none" /\ note[n].version < MaxVersion
  /\ Sync({n}, Revised(n), profile)
  /\ UNCHANGED <<askRows, kept, up, history, used>>

\* update_note, restore_note_revision.
EditNote(n) ==
  /\ n \notin Generated /\ note[n].status = "live" /\ note[n].version < MaxVersion /\ Free(n)
  /\ Sync({n}, Revised(n), profile)
  /\ UNCHANGED <<askRows, kept, up, history, used>>

\* delete_note, delete_summary_route.
DeleteNote(n) ==
  /\ note[n].status \in {"live", "stale"} /\ Free(n)
  /\ Sync({n}, [note EXCEPT ![n].status = "none"], profile)
  /\ UNCHANGED <<askRows, kept, up, history, used>>

\* A summarize stage that replaces a note starts ...
RerunSummary(n) ==
  /\ n \in Generated /\ note[n].status = "stale" /\ note' = [note EXCEPT ![n].status = "rerun"]
  /\ UNCHANGED <<profile, doc, chunks, attempt, indexer, askRows, kept, up, history, used>>

\* ... fails ...
FailSummary(n) ==
  /\ note[n].status = "rerun" /\ note' = [note EXCEPT ![n].status = "stale"] /\ Fault
  /\ UNCHANGED <<profile, doc, chunks, attempt, indexer, askRows, kept, up, history>>

\* ... or publishes; restore_version replaces a note the same way.
PersistSummary(n) ==
  /\ n \in Generated /\ note[n].status # "stale" /\ note[n].version < MaxVersion /\ Free(n)
  /\ Sync({n}, Revised(n), profile)
  /\ UNCHANGED <<askRows, kept, up, history, used>>

\* invalidate_generated_documents: an edited transcript, a rule, a template or a
\* library-wide request, which alone leaves the note unmarked in mode `force`
\* and does not look at conversations.
Invalidate(n, marked) ==
  /\ n \in Generated /\ note[n].status \in {"live", "stale"} /\ Use("requests", MaxRequests)
  /\ note' = [note EXCEPT ![n].status = IF marked THEN "stale" ELSE @]
  /\ doc' = [doc EXCEPT ![n] = Deleted(n)] /\ chunks' = [chunks EXCEPT ![n] = NoChunks]
  /\ UNCHANGED <<profile, attempt, indexer, askRows, kept, up, history>>

\* lock_library_profile_change: nobody works in the scope of the old profile.
ProfileIdle ==
  /\ ~AskActive
  /\ \A n \in Notes : ~ClaimActive(n) /\ note[n].status # "rerun"
  /\ \A t \in Tokens : ~Active(t)
  /\ \A a \in Askers : bill[a].state # "live"

\* save_profile, save_connection, select_recording_override and their like.
ChangeProfile ==
  /\ profile + 1 \in DOMAIN Profiles /\ ProfileIdle
  /\ Sync(Notes, note, profile + 1)
  /\ UNCHANGED <<askRows, kept, up, history, used>>

\* reconcile_knowledge_documents, process_file_documents at the end of a cycle.
Reconcile ==
  /\ \E n \in Notes : Synced(n, note[n], profile) # doc[n]
  /\ Sync(Notes, note, profile)
  /\ UNCHANGED <<askRows, kept, up, history, used>>

-----------------------------------------------------------------------------
(***************************************************************************)
(* Indexing one document: index_document.                                  *)
(***************************************************************************)
At(w, phase) == Runs(w) /\ indexer[w].at = phase

\* The claim of w, and the embedding it is about to ask for.
Mine(w)      == indexer[w].token
NoteOf(w)    == indexer[w].note
Plan(w)      == Candidates(indexer[w].plan)
Candidate(w) == Plan(w)[indexer[w].turn]

Goes(w, phase) == indexer' = [indexer EXCEPT ![w].at = phase]
Rests(w)       == indexer' = [indexer EXCEPT ![w] = Idle]
TriesNext(w) ==
  IF indexer[w].turn < Len(Plan(w))
  THEN indexer' = [indexer EXCEPT ![w].at = "embed", ![w].turn = @ + 1]
  ELSE Goes(w, "failing")

\* A token nobody remembers any more.
Spare(t) == /\ attempt[t].status = "closed" /\ Rows(t) = {}
            /\ \A w \in Indexers : Mine(w) # t
            /\ \A n \in Notes : doc[n].token # t

\* The attempt a claim of n would displace.
Displaced(n) == {t \in Tokens : doc[n].token = t /\ attempt[t].status = "running"}

\* Mutant: a claim that expired is not queued again.
DueIfQueued(n) == doc[n].status \in {"pending", "failed"} /\ ~doc[n].wait

\* What process_pending_documents selects.
Due(n) == doc[n].status \in {"pending", "failed", "running"} /\ ~ClaimActive(n) /\ ~doc[n].wait

\* _document_lock: the threads of one process take turns.
MyTurn(w, n) == \A v \in Indexers \ {w} : {v, w} \subseteq Daemon => NoteOf(v) # n

\* Mutant: a claim does not wait for a call that may still be running.
QuietAnyway(n) == TRUE

\* No call of the displaced attempt may still be running.
Quiet(n) == \A t \in Displaced(n) : ~Active(t)

\* _claim_document.
Claim(w, n) ==
  /\ At(w, "idle") /\ Due(n) /\ MyTurn(w, n) /\ IsCurrent(n) /\ Quiet(n)
  /\ \E t \in Tokens : Spare(t)
  /\ LET t == CHOOSE t \in Tokens : Spare(t)
     IN /\ doc' = [doc EXCEPT ![n].status = "running", ![n].token = t, ![n].live = TRUE,
                              ![n].space = Candidates(profile)[1]]
        /\ attempt' = [u \in Tokens |->
             IF u = t THEN [NoAttempt EXCEPT !.status = "running", !.gen = doc[n].gen, !.owner = w]
             ELSE IF u \in Displaced(n) THEN Settled(u) ELSE attempt[u]]
        /\ indexer' = [indexer EXCEPT ![w] =
             [at |-> "embed", token |-> t, note |-> n, version |-> doc[n].version,
              plan |-> profile, turn |-> 1, overdue |-> FALSE]]
        /\ kept' = kept + attempt[t].cost
  /\ UNCHANGED <<note, profile, chunks, askRows, up, history, used>>

\* _claim_document of a document whose note moved on.
ClaimDeletes(w, n) ==
  /\ At(w, "idle") /\ Due(n) /\ MyTurn(w, n) /\ ~IsCurrent(n)
  /\ doc' = [doc EXCEPT ![n] = Deleted(n)] /\ chunks' = [chunks EXCEPT ![n] = NoChunks]
  /\ UNCHANGED <<note, profile, attempt, indexer, askRows, kept, up, history, used>>

\* Mutant: publication does not look at the claim.
HoldsByNote(w) == doc[NoteOf(w)].status # "none"

\* The claim of w stands, for what w has read.
Holds(w) ==
  /\ doc[NoteOf(w)].token = Mine(w) /\ doc[NoteOf(w)].live
  /\ doc[NoteOf(w)].gen = attempt[Mine(w)].gen /\ doc[NoteOf(w)].version = indexer[w].version
  /\ IsCurrent(NoteOf(w))

\* _revalidate_claim_for_dispatch.
MayDispatch(w) == Holds(w) /\ attempt[Mine(w)].status = "running"

\* Mutant: the document gets a status that no poll selects.
ReturnedUnknown(w) ==
  [n \in Notes |-> IF n = NoteOf(w) /\ doc[n].token = Mine(w)
                   THEN [doc[n] EXCEPT !.status = "skipped", !.token = None, !.live = FALSE]
                   ELSE doc[n]]

\* A document that still carries the token of w is queued again.
Returned(w) ==
  [n \in Notes |-> IF n = NoteOf(w) /\ doc[n].token = Mine(w)
                   THEN [doc[n] EXCEPT !.status = "pending", !.token = None, !.live = FALSE]
                   ELSE doc[n]]

DispatchSuperseded(w) ==
  /\ At(w, "embed") /\ ~MayDispatch(w) /\ Goes(w, "failing")
  /\ attempt' = [attempt EXCEPT ![Mine(w)] = SettleIfRunning(Mine(w))] /\ doc' = Returned(w)
  /\ UNCHANGED <<note, profile, chunks, askRows, kept, up, history, used>>

\* _embedding_cost_guard, in the same transaction: another profile, too dear ...
DispatchRefused(w) ==
  /\ At(w, "embed") /\ MayDispatch(w)
  /\ \/ Candidate(w) \notin Allowed(profile) /\ Goes(w, "failing")
     \/ Candidate(w) \in Allowed(profile) /\ ~Affordable /\ TriesNext(w)
  /\ UNCHANGED <<note, profile, doc, chunks, attempt, askRows, kept, up, history, used>>

\* ... or reserved, linked to the attempt, and called.
Dispatch(w) ==
  /\ At(w, "embed") /\ MayDispatch(w) /\ Candidate(w) \in Allowed(profile) /\ Affordable
  /\ attempt' = [attempt EXCEPT ![Mine(w)].rows[Candidate(w)] = "live"]
  /\ indexer' = [indexer EXCEPT ![w].at = "calling", ![w].overdue = FALSE]
  /\ authorised' = authorised + 1
  /\ UNCHANGED <<note, profile, doc, chunks, askRows, kept, up, forgotten, used>>

CallReturns(w) ==
  /\ At(w, "calling") /\ Goes(w, "publish")
  /\ UNCHANGED <<note, profile, doc, chunks, attempt, askRows, kept, up, history, used>>

\* is_retryable_fallback_error decides between the next candidate and the end.
CallFails(w) ==
  /\ At(w, "calling") /\ Fault /\ (TriesNext(w) \/ Goes(w, "failing"))
  /\ UNCHANGED <<note, profile, doc, chunks, attempt, askRows, kept, up, history>>

\* _publish_document.
Publish(w) ==
  /\ At(w, "publish") /\ Rests(w)
  /\ attempt' = [attempt EXCEPT ![Mine(w)] = Settled(Mine(w))]
  /\ IF Holds(w)
     THEN /\ doc' = [doc EXCEPT ![NoteOf(w)].status = "completed", ![NoteOf(w)].token = None,
                     ![NoteOf(w)].live = FALSE, ![NoteOf(w)].wait = FALSE,
                     ![NoteOf(w)].space = Candidate(w)]
          /\ chunks' = [chunks EXCEPT ![NoteOf(w)] =
                          [version |-> indexer[w].version, space |-> Candidate(w)]]
     ELSE doc' = Returned(w) /\ UNCHANGED chunks
  /\ UNCHANGED <<note, profile, askRows, kept, up, history, used>>

\* _fail_document: after a backoff the document is tried again.
FailDocument(w) ==
  /\ At(w, "failing") /\ Rests(w)
  /\ attempt' = [attempt EXCEPT ![Mine(w)] = SettleIfRunning(Mine(w))]
  /\ IF doc[NoteOf(w)].token = Mine(w) /\ doc[NoteOf(w)].live
     THEN doc' = [doc EXCEPT ![NoteOf(w)].status = "failed", ![NoteOf(w)].wait = TRUE,
                             ![NoteOf(w)].token = None, ![NoteOf(w)].live = FALSE]
     ELSE UNCHANGED doc
  /\ UNCHANGED <<note, profile, chunks, askRows, kept, up, history, used>>

RetryDue(n) ==
  /\ doc[n].wait /\ doc' = [doc EXCEPT ![n].wait = FALSE]
  /\ UNCHANGED <<note, profile, chunks, attempt, indexer, askRows, kept, up, history, used>>

\* Time passes for what a dead thread left; for a living one only as a fault.
Abandoned(t) == \A w \in Indexers : Mine(w) # t
PassesFor(abandoned) == (abandoned /\ UNCHANGED used) \/ (~abandoned /\ Fault)

ExpireClaim(n) ==
  /\ ClaimActive(n) /\ doc' = [doc EXCEPT ![n].live = FALSE] /\ PassesFor(Abandoned(doc[n].token))
  /\ UNCHANGED <<note, profile, chunks, attempt, indexer, askRows, kept, up, history>>

ExpireRow(t, s) ==
  /\ attempt[t].rows[s] = "live" /\ attempt' = [attempt EXCEPT ![t].rows[s] = "lapsed"]
  /\ indexer' = [w \in Indexers |-> IF Mine(w) = t /\ Candidate(w) = s
                                    THEN [indexer[w] EXCEPT !.overdue = TRUE] ELSE indexer[w]]
  /\ PassesFor(Abandoned(t))
  /\ UNCHANGED <<note, profile, doc, chunks, askRows, kept, up, history>>

-----------------------------------------------------------------------------
Index(w) ==
  \/ DispatchSuperseded(w) \/ DispatchRefused(w) \/ Dispatch(w) \/ CallReturns(w)
  \/ CallFails(w) \/ Publish(w) \/ FailDocument(w)

IndexNext ==
  \/ \E w \in Indexers : Index(w)
  \/ \E w \in Indexers, n \in Notes : Claim(w, n) \/ ClaimDeletes(w, n)
  \/ \E n \in Notes : \/ CreateNote(n) \/ EditNote(n) \/ DeleteNote(n) \/ RerunSummary(n)
                      \/ FailSummary(n) \/ PersistSummary(n) \/ RetryDue(n) \/ ExpireClaim(n)
                      \/ \E marked \in BOOLEAN : Invalidate(n, marked)
  \/ \E t \in Tokens, s \in Spaces : ExpireRow(t, s)
  \/ ChangeProfile \/ Reconcile
=============================================================================
