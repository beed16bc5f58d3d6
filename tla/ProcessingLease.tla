--------------------------- MODULE ProcessingLease ---------------------------
(***************************************************************************)
(* The durable claim that lets the daemon's worker slots, Web-request      *)
(* threads and CLI processes share one library: worker/pipeline.py         *)
(* (_claim_processing ... _release_processing), worker/claims.py,          *)
(* poller/poll.py (reset_inflight and the daemon ownership record) and     *)
(* worker/daemon.py.                                                       *)
(*                                                                         *)
(* Every action is one database transaction, or one step of a process      *)
(* between two transactions.  A claim is the pair (processing_token,       *)
(* processing_lease_until) of a PlaudFile row.  Tokens are random, so a    *)
(* token is modelled by the worker that drew it; a worker id stands for    *)
(* one execution context and is not reused after a crash.  A lease is      *)
(* modelled by the ticks it still has: 0 stands for NULL and for a time in *)
(* the past, which every predicate of the code treats alike.               *)
(***************************************************************************)
EXTENDS Naturals, FiniteSets

CONSTANTS
  Recordings,      \* PlaudFile rows
  Workers,         \* daemon slots, Web-request threads, CLI processes
  RequestWorkers,  \* the Workers that serve an explicit request (Web or CLI)
  Reindexers,      \* the Workers that also rebuild indexes and outlines
  Daemons,         \* successive "localplaud run" processes (owner epochs)
  Hosts,           \* machines
  OwnerOf,         \* OwnerOf[w]: the daemon process w lives in, or NoDaemon
  HostOf,          \* HostOf[d]: the machine d runs on
  Capacity,        \* max(1, pipeline.concurrency)
  LeaseTicks,      \* _PROCESSING_LEASE (24 h) in ticks
  HeartbeatTicks,  \* _DAEMON_HEARTBEAT_TTL in ticks
  NoWorker, NoRecording, NoDaemon

ASSUME RecordingsAssumption == IsFiniteSet(Recordings) /\ NoRecording \notin Recordings
ASSUME WorkersAssumption    == NoWorker \notin Workers /\ RequestWorkers \subseteq Workers
                               /\ Reindexers \subseteq Workers
ASSUME DaemonsAssumption    == NoDaemon \notin Daemons
ASSUME PlacementAssumption  == /\ OwnerOf \in [Workers -> Daemons \cup {NoDaemon}]
                               /\ HostOf \in [Daemons -> Hosts]
ASSUME CapacityAssumption   == Capacity \in Nat \ {0}
ASSUME LeaseAssumption      == LeaseTicks \in Nat \ {0}
ASSUME HeartbeatAssumption  == HeartbeatTicks \in Nat \ {0}

VARIABLES
  \* Database: one PlaudFile row, its StageRun and its StageAttempts.
  token,       \* token[r]: processing_token
  lease,       \* lease[r]: what is left of processing_lease_until
  status,      \* status[r]: PlaudFile.status
  run,         \* run[r]: StageRun.status of the stage being worked on
  open,        \* open[r]: StageAttempt number run.attempts is "running"
  publisher,   \* publisher[r]: the worker whose artifact the row carries
  ownerRecord, \* KeyValue row of the daemon owner
  \* Processes.
  pc,          \* pc[w]: where worker w is
  job,         \* job[w]: the recording it works on
  saved,       \* saved[w]: previous_status read before a requested claim
  daemon,      \* daemon[d]: life cycle of process d
  previous     \* previous[d]: previous_owner returned by register_daemon_owner

rowVars == <<status, run, open, publisher>>
dbVars == <<token, lease, rowVars, ownerRecord>>
workerVars == <<pc, job, saved>>
daemonVars == <<daemon, previous>>
vars == <<dbVars, workerVars, daemonVars>>

FileStatus == {"downloaded", "processing", "partial", "done", "error"}
StageStatus == {"none", "pending", "running", "completed", "failed"}
DaemonState == {"down", "registered", "up", "displaced", "stopping", "exited", "crashed"}
WorkerState == {"idle", "selected", "reading", "requested", "claimed", "entered",
                "computing", "persisted", "finished", "failed", "borrowed", "releasing", "crashed"}

TypeOK ==
  /\ token \in [Recordings -> Workers \cup {NoWorker}]
  /\ lease \in [Recordings -> 0..LeaseTicks]
  /\ status \in [Recordings -> FileStatus]
  /\ run \in [Recordings -> StageStatus]
  /\ open \in [Recordings -> BOOLEAN]
  /\ publisher \in [Recordings -> Workers \cup {NoWorker}]
  /\ ownerRecord \in [owner: Daemons \cup {NoDaemon}, released: BOOLEAN, beat: 0..HeartbeatTicks]
  /\ pc \in [Workers -> WorkerState]
  /\ job \in [Workers -> Recordings \cup {NoRecording}]
  /\ saved \in [Workers -> FileStatus]
  /\ daemon \in [Daemons -> DaemonState]
  /\ previous \in [Daemons -> Daemons \cup {NoDaemon}]

\* A library of downloaded recordings, no daemon registered yet.
Init ==
  /\ token = [r \in Recordings |-> NoWorker]
  /\ lease = [r \in Recordings |-> 0]
  /\ status = [r \in Recordings |-> "downloaded"]
  /\ run = [r \in Recordings |-> "none"]
  /\ open = [r \in Recordings |-> FALSE]
  /\ publisher = [r \in Recordings |-> NoWorker]
  /\ ownerRecord = [owner |-> NoDaemon, released |-> FALSE, beat |-> 0]
  /\ pc = [w \in Workers |-> "idle"]
  /\ job = [w \in Workers |-> NoRecording]
  /\ saved = [w \in Workers |-> "downloaded"]
  /\ daemon = [d \in Daemons |-> "down"]
  /\ previous = [d \in Daemons |-> NoDaemon]

-----------------------------------------------------------------------------
(***************************************************************************)
(* Claims.                                                                 *)
(***************************************************************************)

\* processing_claim_active
ClaimActive(r) == token[r] # NoWorker /\ lease[r] > 0

Active == {r \in Recordings : ClaimActive(r)}

\* Mutant: off by one in the count.
AdmittedOneTooMany(r) == Cardinality(Active \ {r}) <= Capacity

\* _admit_processing: the recording itself is not counted.
Admitted(r) == Cardinality(Active \ {r}) < Capacity

\* Mutant: a lease counts as expired before its time.
ClaimableTooEarly(r) == token[r] = NoWorker \/ lease[r] <= 1

\* The WHERE clause of the claiming UPDATE.
Claimable(r) == token[r] = NoWorker \/ lease[r] = 0

\* Mutant: only the token is compared.
OwnsTokenOnly(w) == token[job[w]] = w

\* _assert_processing_claim_in_session: own token and a live lease.
OwnsClaim(w) == token[job[w]] = w /\ lease[job[w]] > 0

Alive(w) ==
  OwnerOf[w] # NoDaemon => daemon[OwnerOf[w]] \in {"up", "displaced", "stopping"}

At(w, places) == pc[w] \in places /\ Alive(w)

Goto(w, place) == pc' = [pc EXCEPT ![w] = place]

\* _pending_scope: not claimed and queued (a retry may be due at any time).
Pending(r) ==
  /\ ~ClaimActive(r)
  /\ status[r] \in {"downloaded", "error", "partial"}

\* Mutant: retries are dispatched whatever else waits.
NeverGivesWay(r) == FALSE

\* new_recordings_waiting: a retry gives way to every recording not processed yet.
GivesWay(r) == status[r] # "downloaded" /\ \E q \in Recordings : status[q] = "downloaded" /\ Pending(q)

\* _execute_pending re-reads the row just before it runs the job.
Select(w, r) ==
  /\ At(w, {"idle"}) /\ w \notin RequestWorkers
  /\ OwnerOf[w] # NoDaemon => daemon[OwnerOf[w]] = "up"
  /\ Pending(r) /\ ~GivesWay(r)
  /\ job' = [job EXCEPT ![w] = r]
  /\ Goto(w, "selected")
  /\ UNCHANGED <<dbVars, saved, daemonVars>>

\* api/app.py reprocess and cli.py reprocess read the row first.  The Web keeps the
\* status for a rollback; the CLI refuses a recording that is being processed.
Request(w, r) ==
  /\ At(w, {"idle"}) /\ w \in RequestWorkers
  /\ IF OwnerOf[w] = NoDaemon THEN ~ClaimActive(r)
                              ELSE daemon[OwnerOf[w]] \in {"up", "displaced"}
  /\ job' = [job EXCEPT ![w] = r]
  /\ saved' = [saved EXCEPT ![w] = status[r]]
  /\ Goto(w, IF OwnerOf[w] = NoDaemon THEN "reading" ELSE "requested")
  /\ UNCHANGED <<dbVars, daemonVars>>

\* cli.py reprocess commits the row it read: queued again.
CliQueue(w) ==
  /\ At(w, {"reading"})
  /\ status' = [status EXCEPT ![job[w]] = IF saved[w] = "downloaded" THEN @ ELSE "downloaded"]
  /\ Goto(w, "requested")
  /\ UNCHANGED <<token, lease, run, open, publisher, ownerRecord, job, saved, daemonVars>>

\* _claim_processing with mark_processing: count, check and claim in one transaction.
Claim(w) ==
  /\ At(w, {"selected", "requested"})
  /\ Admitted(job[w]) /\ Claimable(job[w])
  /\ token' = [token EXCEPT ![job[w]] = w]
  /\ lease' = [lease EXCEPT ![job[w]] = LeaseTicks]
  /\ status' = [status EXCEPT ![job[w]] = "processing"]
  /\ Goto(w, "claimed")
  /\ UNCHANGED <<run, open, publisher, ownerRecord, job, saved, daemonVars>>

\* PipelineCapacityBusy or PipelineAlreadyRunning: nothing changed.
ClaimRefused(w) ==
  /\ At(w, {"selected", "requested"})
  /\ ~(Admitted(job[w]) /\ Claimable(job[w]))
  /\ job' = [job EXCEPT ![w] = NoRecording]
  /\ saved' = [saved EXCEPT ![w] = "downloaded"]
  /\ Goto(w, "idle")
  /\ UNCHANGED <<dbVars, daemonVars>>

\* A reindex or an outline rebuild claims without touching the visible status.
Borrow(w, r) ==
  /\ At(w, {"idle"}) /\ w \in Reindexers
  /\ OwnerOf[w] # NoDaemon => daemon[OwnerOf[w]] = "up"
  /\ publisher[r] # NoWorker
  /\ Admitted(r) /\ Claimable(r)
  /\ token' = [token EXCEPT ![r] = w]
  /\ lease' = [lease EXCEPT ![r] = LeaseTicks]
  /\ job' = [job EXCEPT ![w] = r]
  /\ Goto(w, "borrowed")
  /\ UNCHANGED <<rowVars, ownerRecord, saved, daemonVars>>

\* Mutant: the roll-up is restored and the claim is kept.
AbortRequestKeepsClaim(w) ==
  /\ At(w, {"claimed", "entered"}) /\ w \in RequestWorkers /\ OwnerOf[w] # NoDaemon
  /\ status' = [status EXCEPT ![job[w]] = IF OwnsClaim(w) THEN saved[w] ELSE @]
  /\ job' = [job EXCEPT ![w] = NoRecording]
  /\ saved' = [saved EXCEPT ![w] = "downloaded"]
  /\ Goto(w, "idle")
  /\ UNCHANGED <<token, lease, run, open, publisher, ownerRecord, daemonVars>>

\* release_processing_claim(status=...): the worker thread could not be started.
AbortRequest(w) ==
  /\ At(w, {"claimed", "entered"}) /\ w \in RequestWorkers /\ OwnerOf[w] # NoDaemon
  /\ IF OwnsClaim(w)
       THEN /\ token' = [token EXCEPT ![job[w]] = NoWorker]
            /\ lease' = [lease EXCEPT ![job[w]] = 0]
            /\ status' = [status EXCEPT ![job[w]] = saved[w]]
       ELSE UNCHANGED <<token, lease, status>>
  /\ job' = [job EXCEPT ![w] = NoRecording]
  /\ saved' = [saved EXCEPT ![w] = "downloaded"]
  /\ Goto(w, "idle")
  /\ UNCHANGED <<run, open, publisher, ownerRecord, daemonVars>>

\* _release_processing: conditional on the token, not on the lease.
Release(w) ==
  /\ At(w, {"releasing"})
  /\ IF token[job[w]] = w
       THEN /\ token' = [token EXCEPT ![job[w]] = NoWorker]
            /\ lease' = [lease EXCEPT ![job[w]] = 0]
       ELSE UNCHANGED <<token, lease>>
  /\ job' = [job EXCEPT ![w] = NoRecording]
  /\ saved' = [saved EXCEPT ![w] = "downloaded"]
  /\ Goto(w, "idle")
  /\ UNCHANGED <<rowVars, ownerRecord, daemonVars>>

-----------------------------------------------------------------------------
(***************************************************************************)
(* One processing cycle.  Every transaction of it first asserts the claim. *)
(***************************************************************************)

Fenced(w, places) == At(w, places) /\ OwnsClaim(w)

\* The first transaction of the cycle; it marks the recording as processing.
Enter(w) ==
  /\ Fenced(w, {"claimed"})
  /\ status' = [status EXCEPT ![job[w]] = "processing"]
  /\ Goto(w, "entered")
  /\ UNCHANGED <<token, lease, run, open, publisher, ownerRecord, job, saved, daemonVars>>

\* _begin_stage: attempts + 1, StageRun and a new StageAttempt running.
Begin(w) ==
  /\ Fenced(w, {"entered"})
  /\ run' = [run EXCEPT ![job[w]] = "running"]
  /\ open' = [open EXCEPT ![job[w]] = TRUE]
  /\ saved' = [saved EXCEPT ![w] = "downloaded"]
  /\ Goto(w, "computing")
  /\ UNCHANGED <<token, lease, status, publisher, ownerRecord, job, daemonVars>>

\* _renew_processing_claim: only a live claim is extended.
Renew(w) ==
  /\ Fenced(w, {"computing"})
  /\ lease' = [lease EXCEPT ![job[w]] = LeaseTicks]
  /\ UNCHANGED <<token, rowVars, ownerRecord, workerVars, daemonVars>>

\* _persist_transcript: the provider call (of any duration) is over.
Persist(w) ==
  /\ Fenced(w, {"computing"})
  /\ publisher' = [publisher EXCEPT ![job[w]] = w]
  /\ Goto(w, "persisted")
  /\ UNCHANGED <<token, lease, status, run, open, ownerRecord, job, saved, daemonVars>>

\* _set_stage with a terminal status: the roll-up and attempt run.attempts close together.
CloseStage(w, outcome) ==
  /\ run' = [run EXCEPT ![job[w]] = outcome]
  /\ open' = [open EXCEPT ![job[w]] = FALSE]
  /\ UNCHANGED <<token, lease, status, publisher, ownerRecord, job, saved, daemonVars>>

\* A fresh artifact was stored, or (from "entered") an existing one is reused.
FinishStage(w) ==
  /\ \/ Fenced(w, {"persisted"})
     \/ Fenced(w, {"entered"}) /\ publisher[job[w]] # NoWorker
  /\ CloseStage(w, "completed")
  /\ Goto(w, "finished")

FailStage(w) ==
  /\ Fenced(w, {"computing", "persisted"})
  /\ CloseStage(w, "failed")
  /\ Goto(w, "failed")

\* Mutant: the stage's status is written to the recording.
FinishCycleAsStage(w) ==
  /\ Fenced(w, {"finished"})
  /\ status' = [status EXCEPT ![job[w]] = run[job[w]]]
  /\ Goto(w, "releasing")
  /\ UNCHANGED <<token, lease, run, open, publisher, ownerRecord, job, saved, daemonVars>>

\* _finish_processing_cycle: done, or partial and retried later.
FinishCycle(w) ==
  /\ Fenced(w, {"finished"})
  /\ \E outcome \in {"done", "partial"} :
       /\ status' = [status EXCEPT ![job[w]] = outcome]
  /\ Goto(w, "releasing")
  /\ UNCHANGED <<token, lease, run, open, publisher, ownerRecord, job, saved, daemonVars>>

\* The except blocks of process_file: error, retried later.
FailCycle(w) ==
  /\ Fenced(w, {"entered", "failed"})
  /\ status' = [status EXCEPT ![job[w]] = "error"]
  /\ Goto(w, "releasing")
  /\ UNCHANGED <<token, lease, run, open, publisher, ownerRecord, job, saved, daemonVars>>

\* PipelineAlreadyRunning unwinds the cycle to its finally block: nothing is written.
LoseClaim(w) ==
  /\ At(w, {"claimed", "entered", "computing", "persisted", "finished", "failed"})
  /\ ~OwnsClaim(w)
  /\ Goto(w, "releasing")
  /\ UNCHANGED <<dbVars, job, saved, daemonVars>>

\* The borrowing job (worker/reindex.py, outline) is over.
EndBorrow(w) ==
  /\ At(w, {"borrowed"})
  /\ Goto(w, "releasing")
  /\ UNCHANGED <<dbVars, job, saved, daemonVars>>

-----------------------------------------------------------------------------
(***************************************************************************)
(* Recovery: reset_inflight.                                               *)
(***************************************************************************)

\* Mutant: only the crashed daemon's claims are recovered.
ReclaimableByForceOnly(r, crashed) ==
  token[r] # NoWorker /\ crashed # NoDaemon /\ OwnerOf[token[r]] = crashed

\* The claim may be taken away: no lease left, or (forced) a token of the crashed daemon.
Reclaimable(r, crashed) ==
  \/ lease[r] = 0
  \/ token[r] # NoWorker /\ crashed # NoDaemon /\ OwnerOf[token[r]] = crashed

Interrupted(crashed) ==
  {r \in Recordings : /\ status[r] = "processing" \/ token[r] # NoWorker
                      /\ Reclaimable(r, crashed)}

\* After the claims are cleared, whatever still runs without a live claim is closed too.
Unclaimed(crashed) ==
  {r \in Recordings : r \in Interrupted(crashed) \/ ~ClaimActive(r)}

\* Mutant: the sweep over unclaimed recordings forgets the StageRun roll-up.
ResetInflightAttemptsOnly(crashed) ==
  LET gone == Interrupted(crashed) IN
  LET closed == Unclaimed(crashed) IN
  /\ token' = [r \in Recordings |-> IF r \in gone THEN NoWorker ELSE token[r]]
  /\ lease' = [r \in Recordings |-> IF r \in gone THEN 0 ELSE lease[r]]
  /\ status' = [r \in Recordings |->
                  IF r \in gone /\ status[r] = "processing" THEN "downloaded" ELSE status[r]]
  /\ run' = [r \in Recordings |->
               IF r \in gone /\ run[r] = "running" THEN "failed" ELSE run[r]]
  /\ open' = [r \in Recordings |-> open[r] /\ r \notin closed]
  /\ UNCHANGED publisher

ResetInflight(crashed) ==
  LET gone == Interrupted(crashed) IN
  LET closed == Unclaimed(crashed) IN
  /\ token' = [r \in Recordings |-> IF r \in gone THEN NoWorker ELSE token[r]]
  /\ lease' = [r \in Recordings |-> IF r \in gone THEN 0 ELSE lease[r]]
  /\ status' = [r \in Recordings |->
                  IF r \in gone /\ status[r] = "processing" THEN "downloaded" ELSE status[r]]
  /\ run' = [r \in Recordings |->
               IF r \in closed /\ run[r] = "running" THEN "failed" ELSE run[r]]
  /\ open' = [r \in Recordings |-> open[r] /\ r \notin closed]
  /\ UNCHANGED publisher

-----------------------------------------------------------------------------
(***************************************************************************)
(* Daemon processes.                                                       *)
(***************************************************************************)

\* _daemon_record_is_live as seen from process d.
RecordLive(d) ==
  LET holder == ownerRecord.owner IN
  /\ holder # NoDaemon
  /\ ~ownerRecord.released
  /\ IF HostOf[holder] = HostOf[d]
       THEN daemon[holder] \notin {"exited", "crashed"}
       ELSE ownerRecord.beat > 0

\* register_daemon_owner
Register(d) ==
  /\ daemon[d] = "down"
  /\ ~RecordLive(d)
  /\ ownerRecord' = [owner |-> d, released |-> FALSE, beat |-> HeartbeatTicks]
  /\ previous' = [previous EXCEPT ![d] = ownerRecord.owner]
  /\ daemon' = [daemon EXCEPT ![d] = "registered"]
  /\ UNCHANGED <<token, lease, rowVars, workerVars>>

\* cli.py run: forced recovery of the previous owner's work, then the jobs start.
StartUp(d) ==
  /\ daemon[d] = "registered"
  /\ ResetInflight(previous[d])
  /\ daemon' = [daemon EXCEPT ![d] = "up"]
  /\ UNCHANGED <<ownerRecord, workerVars, previous>>

\* poll_once recovers expired work at the start of every poll.
PeriodicReset(d) ==
  /\ daemon[d] = "up"
  /\ ResetInflight(NoDaemon)
  /\ UNCHANGED <<ownerRecord, workerVars, daemonVars>>

\* refresh_daemon_owner; a process that lost the record stops dispatching.
Heartbeat(d) ==
  /\ daemon[d] = "up"
  /\ IF ownerRecord.owner = d /\ ~ownerRecord.released
       THEN /\ ownerRecord' = [ownerRecord EXCEPT !.beat = HeartbeatTicks]
            /\ UNCHANGED daemon
       ELSE /\ daemon' = [daemon EXCEPT ![d] = "displaced"]
            /\ UNCHANGED ownerRecord
  /\ UNCHANGED <<token, lease, rowVars, workerVars, previous>>

\* A stop signal: dispatch stops, running jobs are waited for.
Stop(d) ==
  /\ daemon[d] \in {"up", "displaced"}
  /\ daemon' = [daemon EXCEPT ![d] = "stopping"]
  /\ UNCHANGED <<dbVars, workerVars, previous>>

\* release_daemon_owner keeps the owner as a recoverable epoch.
Exit(d) ==
  /\ daemon[d] = "stopping"
  /\ \A w \in Workers : OwnerOf[w] = d => pc[w] = "idle"
  /\ ownerRecord' = [ownerRecord EXCEPT !.released = @ \/ ownerRecord.owner = d]
  /\ daemon' = [daemon EXCEPT ![d] = "exited"]
  /\ UNCHANGED <<token, lease, rowVars, workerVars, previous>>

\* Every thread of the process dies with it; the database keeps what was committed.
CrashDaemon(d) ==
  /\ daemon[d] \in {"registered", "up", "displaced", "stopping"}
  /\ daemon' = [daemon EXCEPT ![d] = "crashed"]
  /\ pc' = [w \in Workers |-> IF OwnerOf[w] = d THEN "crashed" ELSE pc[w]]
  /\ job' = [w \in Workers |-> IF OwnerOf[w] = d THEN NoRecording ELSE job[w]]
  /\ saved' = [w \in Workers |-> IF OwnerOf[w] = d THEN "downloaded" ELSE saved[w]]
  /\ UNCHANGED <<dbVars, previous>>

CrashCli(w) ==
  /\ OwnerOf[w] = NoDaemon /\ pc[w] \notin {"idle", "crashed"}
  /\ pc' = [pc EXCEPT ![w] = "crashed"]
  /\ job' = [job EXCEPT ![w] = NoRecording]
  /\ saved' = [saved EXCEPT ![w] = "downloaded"]
  /\ UNCHANGED <<dbVars, daemonVars>>

-----------------------------------------------------------------------------
Less(n) == IF n > 0 THEN n - 1 ELSE 0

\* Time passes while processes stand wherever they stand.
Tick ==
  /\ ownerRecord.beat > 0 \/ \E r \in Recordings : lease[r] > 0
  /\ lease' = [r \in Recordings |-> Less(lease[r])]
  /\ ownerRecord' = [ownerRecord EXCEPT !.beat = Less(@)]
  /\ UNCHANGED <<token, rowVars, workerVars, daemonVars>>

Work(w) ==
  \/ Claim(w) \/ ClaimRefused(w) \/ CliQueue(w) \/ Enter(w) \/ Begin(w) \/ Persist(w)
  \/ FinishStage(w) \/ FailStage(w) \/ FinishCycle(w) \/ FailCycle(w)
  \/ LoseClaim(w) \/ EndBorrow(w) \/ Release(w)

Dispatch(w) == \E r \in Recordings : Select(w, r)

Next ==
  \/ \E w \in Workers : Work(w) \/ Renew(w) \/ Dispatch(w) \/ AbortRequest(w) \/ CrashCli(w)
  \/ \E w \in Workers, r \in Recordings : Request(w, r) \/ Borrow(w, r)
  \/ \E d \in Daemons : \/ Register(d) \/ StartUp(d) \/ PeriodicReset(d) \/ Heartbeat(d)
                        \/ Stop(d) \/ Exit(d) \/ CrashDaemon(d)
  \/ Tick

Spec == Init /\ [][Next]_vars

(***************************************************************************)
(* A live process keeps executing its threads, its scheduler keeps firing  *)
(* the interval jobs of DaemonJobs.install, time passes and backoffs end.  *)
(* A poll is strongly fair: the backoff of a recording that keeps failing  *)
(* grows beyond the poll interval (_retry_delay_seconds), so some poll     *)
(* falls between two of its cycles.  Nothing forces a crash, a stop, a     *)
(* request or a borrowed claim.                                            *)
(***************************************************************************)
Fairness ==
  /\ WF_vars(Tick)
  /\ \A w \in Workers : WF_vars(Work(w)) /\ WF_vars(Dispatch(w))
  /\ \A d \in Daemons : WF_vars(StartUp(d)) /\ SF_vars(PeriodicReset(d)) /\ WF_vars(Heartbeat(d))

FairSpec == Spec /\ Fairness

-----------------------------------------------------------------------------
(***************************************************************************)
(* Safety.                                                                 *)
(***************************************************************************)

\* The host never runs more recordings than pipeline.concurrency, whichever processes and
\* workspaces they came from, although claims are admitted, renewed, taken over and expire
\* in any order (_admit_processing counts, _assert_processing_claim_in_session extends).
CapacityBound == Cardinality(Active) <= Capacity

\* A claim that still blocks a recording has somebody working under it, or somebody who
\* died: no path through a request, an abort or a takeover leaks a 24-hour claim.
LiveClaimIsManned ==
  \A r \in Recordings : ClaimActive(r) =>
    \/ pc[token[r]] = "crashed"
    \/ /\ job[token[r]] = r
       /\ pc[token[r]] \notin {"idle", "selected", "reading", "requested"}

\* The StageRun roll-up and the append-only StageAttempt ledger tell the same story across
\* takeovers, crashes and recoveries (_set_stage_in_session, reset_inflight).
LedgerAgrees == \A r \in Recordings : run[r] = "running" <=> open[r]

\* A live claim leaves its holder only by the holder's own step, or when the daemon process
\* the holder belongs to has been replaced in the ownership record (forced recovery).
LiveClaimIsNotStolen ==
  [][\A r \in Recordings : ClaimActive(r) /\ token'[r] # token[r] =>
       \/ pc'[token[r]] # pc[token[r]]
       \/ /\ OwnerOf[token[r]] # NoDaemon
          /\ ownerRecord.owner # OwnerOf[token[r]]]_vars

\* ProcessingLease implements the claim service: a claim is held while its lease lives.
Service == INSTANCE ClaimService WITH
  holder <- [r \in Recordings |-> IF ClaimActive(r) THEN token[r] ELSE NoWorker]

ImplementsClaimService == Service!ServiceSpec

(***************************************************************************)
(* Liveness, as long as some daemon process eventually stays up.           *)
(***************************************************************************)
DaemonStaysUp == <>[](\E d \in Daemons : daemon[d] = "up")

\* A recording shown as processing stops being so: its worker finishes, fails, or is
\* recovered after its lease ran out.
ProcessingEnds ==
  DaemonStaysUp => \A r \in Recordings : status[r] = "processing" ~> status[r] # "processing"

\* From some point on no worker outlives its lease: what the length of _PROCESSING_LEASE
\* (24 h, renewed at every stage) is chosen for.
LeasesOutlast == \A w \in Workers : <>[][~LoseClaim(w)]_vars

\* A downloaded recording is picked up: recordings that fail or stay partial and are retried
\* for ever do not starve it (new_recordings_waiting).  Without LeasesOutlast a recording
\* that outlives its lease every time goes back to "downloaded" and may starve another one.
DownloadedIsPickedUp ==
  DaemonStaysUp /\ LeasesOutlast => \A r \in Recordings : status[r] = "downloaded" ~> status[r] # "downloaded"
=============================================================================
