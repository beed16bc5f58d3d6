------------------------------ MODULE AskThread ------------------------------
(***************************************************************************)
(* A conversation of ask_threads.py, answered by worker/qa.py from the     *)
(* notes that module KnowledgeIndex keeps indexed, and the restart of the  *)
(* daemon (cli.py `run`).                                                  *)
(*                                                                         *)
(* One request at a time holds the conversation.  It queries the embedding *)
(* candidates for evidence, asks a language model, and saves the answer:   *)
(* at each provider call it reserves the cost and renews its lease, and    *)
(* before the model sees the evidence and before the answer is saved it    *)
(* proves the evidence current.                                            *)
(***************************************************************************)
EXTENDS KnowledgeIndex

CONSTANT Models \* the number of language models of a profile

ASSUME ModelsAssumption == Models \in Nat \ {0}

VARIABLE asker  \* the threads that answer: their place, and what they have read

vars == <<indexVars, askRows, kept, up, history, used, asker>>

Evidence  == [note : Notes, gen : Nat, version : Nat]
Questions == [at : {"idle", "query", "renewquery", "retrieve", "ask", "renew", "validate",
                    "calling", "save", "release"},
              turn : Nat, plan : DOMAIN Profiles, evidence : SUBSET Evidence, heard : Nat,
              created : BOOLEAN]

AskTypeOK == asker \in [Askers -> Questions]

Quit == [at |-> "idle", turn |-> 1, plan |-> 1, evidence |-> {}, heard |-> 0, created |-> FALSE]

Init ==
  /\ note = [n \in Notes |-> [status |-> "none", version |-> 0]]
  /\ profile = 1
  /\ doc = [n \in Notes |-> NoDoc]
  /\ chunks = [n \in Notes |-> NoChunks]
  /\ attempt = [t \in Tokens |-> NoAttempt]
  /\ indexer = [w \in Indexers |-> Idle]
  /\ thread = [present |-> FALSE, token |-> None, live |-> FALSE, turns |-> 0, cost |-> 0]
  /\ bill = [a \in Askers |-> NoBill]
  /\ asker = [a \in Askers |-> Quit]
  /\ kept = 0 /\ authorised = 0 /\ forgotten = 0 /\ up = TRUE
  /\ used = [requests |-> 0, faults |-> 0, crashes |-> 0]

-----------------------------------------------------------------------------
Is(a, phase)    == Runs(a) /\ asker[a].at = phase
Turns(a, phase) == asker' = [asker EXCEPT ![a].at = phase]

\* The embedding candidate whose turn it is, and whether there is another one.
Query(a) == Candidates(asker[a].plan)[asker[a].turn]
LastQuery(a) == asker[a].turn = Len(Candidates(asker[a].plan))

\* Mutant: a live lease counts as the reader's own.
OwnsAnyLease(a) == thread.present /\ thread.live

\* The request of a still holds the conversation.
Owns(a) == thread.present /\ thread.token = a /\ thread.live

\* One fingerprint of validate_evidence_fingerprints.
Stands(e) ==
  /\ doc[e.note].status # "none" /\ doc[e.note].gen = e.gen /\ doc[e.note].version = e.version
  /\ note[e.note].status = "live" /\ note[e.note].version = e.version

EvidenceCurrent(a) == \A e \in asker[a].evidence : Stands(e)

\* One more call on the bill of a.
Charge(a) ==
  /\ Affordable /\ authorised' = authorised + 1
  /\ bill' = [bill EXCEPT ![a] = [rows |-> @.rows + 1, state |-> "live"]]

\* _finalize_failed_reservations; ask_in_thread then releases its claim.
Fails(a) ==
  /\ Turns(a, "release") /\ UNCHANGED authorised
  /\ bill' = [bill EXCEPT ![a].state = IF @ = "none" THEN @ ELSE "done"]

\* The next candidate after a retryable error, the end of the list, or an error
\* that is not retryable: what was found so far is used.
Retrieved(a) == IF asker[a].evidence = {} THEN Fails(a)
                ELSE /\ asker' = [asker EXCEPT ![a].at = "ask", ![a].turn = 1]
                     /\ UNCHANGED <<bill, authorised>>
QueryMissed(a) ==
  IF LastQuery(a) THEN Retrieved(a)
  ELSE /\ asker' = [asker EXCEPT ![a].at = "query", ![a].turn = @ + 1]
       /\ UNCHANGED <<bill, authorised>>

-----------------------------------------------------------------------------
\* ask_in_thread: open or take over the conversation.
AskClaim(a) ==
  /\ Is(a, "idle") /\ ~AskActive /\ bill[a].state \in {"none", "done"}
  /\ thread' = [thread EXCEPT !.present = TRUE, !.token = a, !.live = TRUE]
  /\ asker' = [asker EXCEPT ![a] = [Quit EXCEPT !.at = "query", !.plan = profile,
                                    !.heard = thread.turns, !.created = ~thread.present]]
  /\ kept' = kept + bill[a].rows /\ bill' = [bill EXCEPT ![a] = NoBill]
  /\ UNCHANGED <<indexVars, up, history, used>>

\* _candidate_cost of a query.
ReserveQuery(a) ==
  /\ Is(a, "query")
  /\ \/ Query(a) \notin Allowed(profile) /\ Retrieved(a)
     \/ Query(a) \in Allowed(profile) /\ ~Affordable /\ QueryMissed(a)
     \/ Query(a) \in Allowed(profile) /\ Charge(a) /\ Turns(a, "renewquery")
  /\ UNCHANGED <<indexVars, thread, kept, up, forgotten, used>>

\* _renew_thread_request before the query leaves.
RenewQuery(a) ==
  /\ Is(a, "renewquery")
  /\ IF Owns(a) THEN Turns(a, "retrieve") /\ UNCHANGED <<bill, authorised>> ELSE Retrieved(a)
  /\ UNCHANGED <<indexVars, thread, kept, up, forgotten, used>>

\* What _load_matrix finds in the space of the candidate.
Found(a) ==
  {[note |-> n, gen |-> doc[n].gen, version |-> note[n].version] :
     n \in {n \in Notes : /\ doc[n].status = "completed" /\ chunks[n].space = Query(a)
                          /\ note[n].status = "live" /\ IsCurrent(n)}}

Heard(a) == asker[a].evidence \cup Found(a)

Hears(a, phase, turn) ==
  asker' = [asker EXCEPT ![a] = [@ EXCEPT !.evidence = Heard(a), !.at = phase, !.turn = turn]]

\* Every candidate is queried; without evidence the answer needs no model.
Retrieve(a) ==
  /\ Is(a, "retrieve")
  /\ \/ ~LastQuery(a) /\ Hears(a, "query", asker[a].turn + 1) /\ UNCHANGED bill
     \/ LastQuery(a) /\ Heard(a) # {} /\ Hears(a, "ask", 1) /\ UNCHANGED bill
     \/ /\ LastQuery(a) /\ Heard(a) = {} /\ Hears(a, "save", 1)
        /\ bill' = [bill EXCEPT ![a].state = "done"]
  /\ UNCHANGED <<indexVars, thread, kept, up, history, used>>

\* The provider of the query is out of reach, or refuses for good.
QueryFails(a) ==
  /\ Is(a, "retrieve") /\ Fault /\ (QueryMissed(a) \/ Retrieved(a))
  /\ UNCHANGED <<indexVars, thread, kept, up, forgotten>>

\* The next model after a retryable error; otherwise the question has failed.
AnswerMissed(a) ==
  IF asker[a].turn < Models
  THEN /\ asker' = [asker EXCEPT ![a].at = "ask", ![a].turn = @ + 1]
       /\ UNCHANGED <<bill, authorised>>
  ELSE Fails(a)

\* _candidate_cost of an answer.
ReserveAnswer(a) ==
  /\ Is(a, "ask")
  /\ \/ asker[a].plan # profile /\ Fails(a)
     \/ asker[a].plan = profile /\ ~Affordable /\ AnswerMissed(a)
     \/ asker[a].plan = profile /\ Charge(a) /\ Turns(a, "renew")
  /\ UNCHANGED <<indexVars, thread, kept, up, forgotten, used>>

\* _dispatch_with_current_evidence: renew the lease ...
RenewAnswer(a) ==
  /\ Is(a, "renew")
  /\ IF Owns(a) THEN Turns(a, "validate") /\ UNCHANGED <<bill, authorised>> ELSE Fails(a)
  /\ UNCHANGED <<indexVars, thread, kept, up, forgotten, used>>

\* ... then, in a transaction of its own, prove the evidence, and call.
Validate(a) ==
  /\ Is(a, "validate")
  /\ IF EvidenceCurrent(a) THEN Turns(a, "calling") /\ UNCHANGED <<bill, authorised>> ELSE Fails(a)
  /\ UNCHANGED <<indexVars, thread, kept, up, forgotten, used>>

AnswerReturns(a) ==
  /\ Is(a, "calling") /\ Turns(a, "save") /\ bill' = [bill EXCEPT ![a].state = "done"]
  /\ UNCHANGED <<indexVars, thread, kept, up, history, used>>

AnswerFails(a) ==
  /\ Is(a, "calling") /\ Fault /\ (AnswerMissed(a) \/ Fails(a))
  /\ UNCHANGED <<indexVars, thread, kept, up, forgotten>>

MaySave(a) == Owns(a) /\ EvidenceCurrent(a)

\* The transaction of ask_in_thread that publishes: the question and its answer
\* join the conversation, with the cost that was reserved for them.
Save(a) ==
  /\ Is(a, "save") /\ MaySave(a)
  /\ thread' = [thread EXCEPT !.turns = @ + 1, !.cost = @ + bill[a].rows, !.token = None,
                              !.live = FALSE]
  /\ bill' = [bill EXCEPT ![a] = NoBill] /\ asker' = [asker EXCEPT ![a] = Quit]
  /\ UNCHANGED <<indexVars, kept, up, history, used>>

SaveRefused(a) ==
  /\ Is(a, "save") /\ ~MaySave(a) /\ Fails(a)
  /\ UNCHANGED <<indexVars, thread, kept, up, forgotten, used>>

NoThread == [present |-> FALSE, token |-> None, live |-> FALSE, turns |-> 0, cost |-> 0]

\* _release_thread_request.
Release(a) ==
  /\ Is(a, "release") /\ asker' = [asker EXCEPT ![a] = Quit]
  /\ thread' = IF ~thread.present \/ thread.token # a THEN thread
               ELSE IF asker[a].created /\ thread.turns = 0 THEN NoThread
               ELSE [thread EXCEPT !.token = None, !.live = FALSE]
  /\ UNCHANGED <<indexVars, bill, kept, up, history, used>>

\* delete_thread.
DeleteThread ==
  /\ thread.present /\ ~AskActive /\ Use("requests", MaxRequests)
  /\ thread' = NoThread /\ forgotten' = forgotten + thread.cost
  /\ UNCHANGED <<indexVars, bill, kept, up, authorised, asker>>

\* Time.
ExpireThread ==
  /\ AskActive /\ thread' = [thread EXCEPT !.live = FALSE]
  /\ PassesFor(asker[thread.token].at = "idle")
  /\ UNCHANGED <<indexVars, bill, kept, up, history, asker>>

ExpireBill(a) ==
  /\ bill[a].state = "live" /\ bill' = [bill EXCEPT ![a].state = "lapsed"]
  /\ PassesFor(asker[a].at = "idle")
  /\ UNCHANGED <<indexVars, thread, kept, up, history, asker>>

-----------------------------------------------------------------------------
(***************************************************************************)
(* Crashes, and the recovery at the start of the daemon.                   *)
(***************************************************************************)
Stopped(X) ==
  /\ indexer' = [w \in Indexers |-> IF w \in X THEN Idle ELSE indexer[w]]
  /\ asker' = [a \in Askers |-> IF a \in X THEN Quit ELSE asker[a]]

\* The process that runs the threads X dies; its locks and rows stay behind.
CrashOf(X) ==
  /\ Use("crashes", MaxCrashes) /\ Stopped(X)
  /\ UNCHANGED <<note, profile, doc, chunks, attempt, askRows, kept, history>>

Crash == /\ up /\ up' = FALSE /\ CrashOf(Daemon)

CrashOther(x) == x \notin Daemon /\ CrashOf({x}) /\ UNCHANGED up

\* The reservations that recovery takes: expired, or of the daemon that died.
Taken(t) == {s \in Rows(t) : attempt[t].rows[s] = "lapsed" \/ attempt[t].owner \in Daemon}

\* Mutant: an attempt that already is over is left as it is.
RecoveredRunning(t) ==
  IF Taken(t) = {} THEN attempt[t]
  ELSE [attempt[t] EXCEPT !.rows = [s \in Spaces |-> IF s \in Taken(t) THEN "none" ELSE @[s]],
                          !.status = "closed"]

\* recover_provider_dispatch_reservations: fold them into their attempt, once.
Recovered(t) ==
  IF Taken(t) = {} THEN attempt[t]
  ELSE [attempt[t] EXCEPT !.rows = [s \in Spaces |-> IF s \in Taken(t) THEN "none" ELSE @[s]],
                          !.cost = Max({@, Cardinality(Taken(t))}),
                          !.status = "closed"]

\* cli.py run: recover_ask_request_claims, recover_provider_dispatch_reservations.
StartUp ==
  /\ ~up /\ up' = TRUE
  /\ thread' = IF thread.token \in Daemon THEN [thread EXCEPT !.token = None, !.live = FALSE]
               ELSE thread
  /\ attempt' = [t \in Tokens |-> Recovered(t)]
  /\ bill' = [a \in Askers |->
       IF bill[a].state = "lapsed" \/ (bill[a].state = "live" /\ a \in Daemon)
       THEN [bill[a] EXCEPT !.state = "done"] ELSE bill[a]]
  /\ UNCHANGED <<note, profile, doc, chunks, indexer, asker, kept, history, used>>

-----------------------------------------------------------------------------
Answer(a) ==
  \/ ReserveQuery(a) \/ RenewQuery(a) \/ Retrieve(a) \/ QueryFails(a) \/ ReserveAnswer(a)
  \/ RenewAnswer(a) \/ Validate(a) \/ AnswerReturns(a) \/ AnswerFails(a) \/ Save(a)
  \/ SaveRefused(a) \/ Release(a)

Next ==
  \/ IndexNext /\ UNCHANGED asker
  \/ \E a \in Askers : AskClaim(a) \/ Answer(a) \/ ExpireBill(a)
  \/ DeleteThread \/ ExpireThread \/ Crash \/ StartUp
  \/ \E x \in (Indexers \cup Askers) \ Daemon : CrashOther(x)

Spec == Init /\ [][Next]_vars

\* Threads go on; the daemon polls its queue, is started again, and time passes.
Fairness ==
  /\ \A w \in Indexers : WF_vars(Index(w) /\ UNCHANGED asker)
  /\ \A w \in Indexers \cap Daemon, n \in Notes :
       SF_vars((Claim(w, n) \/ ClaimDeletes(w, n)) /\ UNCHANGED asker)
  /\ \A n \in Notes : WF_vars((RetryDue(n) \/ ExpireClaim(n)) /\ UNCHANGED asker)
  /\ \A t \in Tokens, s \in Spaces : WF_vars(ExpireRow(t, s) /\ UNCHANGED asker)
  /\ \A a \in Askers : WF_vars(Answer(a)) /\ WF_vars(ExpireBill(a))
  /\ WF_vars(ExpireThread) /\ WF_vars(StartUp)

FairSpec == Spec /\ Fairness

-----------------------------------------------------------------------------
(***************************************************************************)
(* Properties.                                                             *)
(***************************************************************************)

\* Every variable has its type.
AllTypesOK == TypeOK /\ AskTypeOK

\* The ledger of providers/usage.py counts a call once and keeps the calls within
\* the ceiling: while a reservation becomes the cost of its attempt, when a restart
\* folds what a dead process reserved, and when a thread whose claim was taken away
\* goes on to the next candidate or to publish.
CallsWithinCeiling == Spent + forgotten <= authorised /\ authorised <= Ceiling + forgotten

\* The ledger neither forgets nor repeats a call, across publication, failure,
\* displaced claims, refused answers, crashes and recovery; a deleted conversation
\* takes the cost of its answers with it (delete_thread).
LedgerIsExact == Spent + forgotten = authorised

\* _publish_document: what a completed document offers to a search was computed
\* from the note as it is, in an embedding space of the profile in force, however
\* long the call took and whatever was edited or chosen meanwhile.
SearchIsCurrent ==
  \A n \in Notes : doc[n].status = "completed" =>
    /\ chunks[n] = [version |-> note[n].version, space |-> doc[n].space]
    /\ doc[n].space \in Allowed(profile)

\* A restart of another process closed the attempt, for an earlier call whose lease
\* had lapsed, while a later call of it goes on.
Interrupted(t) == attempt[t].status = "closed" /\ Active(t)

\* _claim_document waits for the reservation of the claim it displaces: two threads
\* call a provider for the same state of a document only when the call of one of
\* them has outlived its lease, or recovery has closed its attempt beneath it.
OneCallPerDocument ==
  \A v, w \in Indexers :
    ( /\ v # w /\ {indexer[v].at, indexer[w].at} = {"calling"} /\ NoteOf(v) = NoteOf(w)
      /\ attempt[Mine(v)].gen = attempt[Mine(w)].gen )
    => \E u \in {v, w} : indexer[u].overdue \/ Interrupted(Mine(u))

\* process_pending_documents: a queued document is indexed in the end, through
\* failed calls, late answers, crashes and claims nobody will release, unless its
\* note goes or the ceiling forbids it.
NoteIsIndexed ==
  \A n \in Notes :
    doc[n].status \in {"pending", "running", "failed"}
      ~> doc[n].status \in {"completed", "none"} \/ ~Affordable

\* The lease of a conversation keeps what its answer rests on: while the model
\* reads the evidence, and until the answer is saved, no note a user wrote is
\* edited, deleted or indexed anew (reject_active_ask_evidence_mutation).
EvidenceStands ==
  \A a \in Askers : Owns(a) /\ asker[a].at \in {"calling", "save"} =>
    \A e \in asker[a].evidence : e.note \notin Generated => Stands(e)

\* ask_in_thread: whoever may still save an answer has read the whole
\* conversation; nobody answers a question between two turns it did not see.
AnswerFollowsHistory ==
  \A a \in Askers : Owns(a) /\ asker[a].at # "idle" => asker[a].heard = thread.turns
=============================================================================
