---------------------------- MODULE RemoteWorker ----------------------------
(***************************************************************************)
(* The durable jobs of a worker host, src/src/localplaud/remote/server.py, *)
(* composed with the maintenance gate of its process.                      *)
(*                                                                         *)
(* A controller submits a job under an idempotency key and polls it; the   *)
(* request thread that accepted it executes it in the background, under    *)
(* the lock of the only GPU.  During a pause waiting jobs are marked as    *)
(* deferred and left to the dispatch thread that the reporter starts after *)
(* the pause.  Handlers read a row and write it later: a commit of another *)
(* thread may lie between, and only changed columns are written.           *)
(***************************************************************************)
EXTENDS MaintenanceGate

CONSTANTS
    Job,            \* idempotency keys of the controller
    Main,           \* the process that serves the worker API
    MaxSubmits      \* bound: how often jobs are submitted

ASSUME WorkerConstants == Main \in Process /\ Job # {} /\ MaxSubmits \in Nat

VARIABLES
    row,            \* remote_jobs
    task,           \* what each thread does for which job, and the row it read
    gpu,            \* _GPU_LOCK
    boot,           \* the process has to look for interrupted jobs first
    scanDue,        \* resume_deferred of the reporter
    lastResumed,    \* last_resumed of the reporter
    submits,        \* submissions so far
    told,           \* jobs of whose cancellation the controller was told
    crossed,        \* jobs whose last submission was written beside an executor
    orphans         \* jobs a death of the process left unfinished and unmarked

jobVars == <<row, task, gpu, boot, scanDue, lastResumed, submits, told, crossed, orphans>>
workerVars == <<gateVars, jobVars>>
stillGate == UNCHANGED <<commandVars, processVars>>

Unfinished == {"queued", "running"}
Rows == [status : {"none", "queued", "running", "succeeded", "failed", "cancelled"},
         cancel : BOOLEAN, inputs : BOOLEAN, deferred : BOOLEAN, runs : Nat, made : Nat]
NoRow == [status |-> "none", cancel |-> FALSE, inputs |-> FALSE,
          deferred |-> FALSE, runs |-> 0, made |-> 0]
JobSteps == {"none", "asked", "read", "write", "check", "defer", "gpu", "ask", "begin",
          "start", "run", "ok", "failed", "end", "done", "list"}
Ops == {"none", "submit", "cancel", "execute", "resume", "scan"}
NoTask == [op |-> "none", step |-> "none", todo |-> {}, job |-> CHOOSE j \in Job : TRUE,
           seen |-> NoRow, resumed |-> 0, old |-> FALSE]

WorkerTypeOK ==
    /\ row \in [Job -> Rows]
    /\ \A t \in Thread :
         /\ task[t].op \in Ops /\ task[t].step \in JobSteps
         /\ task[t].todo \subseteq Job /\ task[t].job \in Job
         /\ task[t].seen \in Rows /\ task[t].resumed \in Nat
    /\ gpu \in Thread \cup {NoOne}
    /\ boot \in BOOLEAN /\ scanDue \in BOOLEAN
    /\ lastResumed \in Nat /\ submits \in Nat
    /\ told \in SUBSET Job /\ crossed \in SUBSET Job /\ orphans \in SUBSET Job

WorkerInit ==
    /\ GateInit
    /\ row = [j \in Job |-> NoRow]
    /\ task = [t \in Thread |-> NoTask]
    /\ gpu = NoOne
    /\ boot = TRUE
    /\ scanDue = TRUE /\ lastResumed = 0
    /\ submits = 0
    /\ told = {} /\ crossed = {} /\ orphans = {}

At(t, op, step) == task[t].op = op /\ task[t].step = step
Step(t, step) == task' = [task EXCEPT ![t].step = step, ![t].seen = NoRow]
Row(t) == row[task[t].job]
SetRow(t, new) == row' = [row EXCEPT ![task[t].job] = new]
Work(t) == Home[t] = Main /\ loc[t] = "working"

----------------------------------------------------------------------------
(* Requests arrive: the middleware reserves, then the handler runs.        *)

Arrive(t, op, j) ==
    /\ Home[t] = Main /\ serving[Main]
    /\ \/ op = "submit" /\ submits < MaxSubmits /\ Ask(t, "new")
       \/ op = "cancel" /\ row[j].status # "none" /\ Ask(t, "continuation")
    /\ submits' = IF op = "submit" THEN submits + 1 ELSE submits
    /\ task' = [task EXCEPT ![t] = [NoTask EXCEPT !.op = op, !.step = "asked", !.job = j]]
    /\ stillGate
    /\ UNCHANGED <<row, gpu, boot, scanDue, lastResumed, told, crossed, orphans>>

(* The reporter starts the dispatch thread: after a start, after a pause   *)
(* it saw, and after one it missed, which resume.json tells it.            *)
ScanWanted == scanDue \/ (resumed # 0 /\ resumed # lastResumed)

Dispatch(t) ==
    /\ Home[t] = Main /\ serving[Main] /\ request = 0 /\ ScanWanted
    /\ \A u \in Thread : ~At(u, "scan", "asked")
    /\ Ask(t, "new")
    /\ task' = [task EXCEPT ![t] = [NoTask EXCEPT !.op = "scan", !.step = "asked", !.resumed = resumed]]
    /\ stillGate
    /\ UNCHANGED <<row, gpu, boot, scanDue, lastResumed, submits, told, crossed, orphans>>

ReporterSeesPause ==
    /\ request # 0 /\ serving[Main] /\ ~scanDue
    /\ scanDue' = TRUE
    /\ UNCHANGED <<gateVars, row, task, gpu, boot, lastResumed, submits, told, crossed, orphans>>

(* _lifespan: a standalone worker looks for interrupted jobs, unless a     *)
(* pause stands.                                                           *)
BootResumes(t) ==
    /\ Home[t] = Main /\ boot /\ request = 0
    /\ Ask(t, "new")
    /\ boot' = FALSE
    /\ task' = [task EXCEPT ![t] = [NoTask EXCEPT !.op = "resume", !.step = "asked"]]
    /\ stillGate
    /\ UNCHANGED <<row, gpu, scanDue, lastResumed, submits, told, crossed, orphans>>

BootPaused ==
    /\ boot /\ request # 0
    /\ boot' = FALSE
    /\ UNCHANGED <<gateVars, row, task, gpu, scanDue, lastResumed, submits, told, crossed, orphans>>

(* What the reservation grants or refuses.                                 *)
Granted(t) ==
    /\ task[t].step \in {"asked", "ask"}
    /\ Admit(t)
    /\ Step(t, IF task[t].step = "ask" THEN "begin"
               ELSE IF task[t].op \in {"resume", "scan"} THEN "list" ELSE "read")
    /\ scanDue' = (scanDue /\ ~At(t, "scan", "asked"))
    /\ lastResumed' = IF At(t, "scan", "asked") THEN task[t].resumed ELSE lastResumed
    /\ stillGate
    /\ UNCHANGED <<row, gpu, boot, submits, told, crossed, orphans>>

Refused(t) ==
    /\ task[t].step \in {"asked", "ask"}
    /\ Refuse(t)
    /\ task' = [task EXCEPT ![t] = IF @.step = "ask" THEN [@ EXCEPT !.step = "defer"] ELSE NoTask]
    /\ scanDue' = (scanDue \/ At(t, "scan", "asked"))
    /\ stillGate
    /\ UNCHANGED <<row, gpu, boot, lastResumed, submits, told, crossed, orphans>>

----------------------------------------------------------------------------
(* submit_job and cancel_job: a read, then a write.                        *)

Still(t) == UNCHANGED <<gateVars, gpu, boot, scanDue, lastResumed, submits>>

Reads(t) ==
    /\ Work(t) /\ task[t].op \in {"submit", "cancel"} /\ task[t].step = "read"
    /\ task' = [task EXCEPT ![t].seen = Row(t), ![t].step = "write"]
    /\ Still(t) /\ UNCHANGED <<row, told, crossed, orphans>>

(* A new row, a failed one, or one whose prompt is out of date after an    *)
(* update of the worker, is queued; anything else is answered as it is.    *)
Resubmits(seen, outdated) ==
    \/ seen.status = "failed"
    \/ outdated /\ seen.status = "succeeded" /\ seen.made < birth[Main]

(* Mutant: the manifest of the resubmission is not kept.                   *)
RequeuedWithoutInputs(now, seen) ==
    [now EXCEPT !.status = "queued", !.deferred = FALSE, !.runs = 0,
                !.cancel = IF seen.cancel THEN FALSE ELSE @]

Requeued(now, seen) ==
    [now EXCEPT !.status = "queued", !.inputs = TRUE, !.deferred = FALSE, !.runs = 0,
                !.cancel = IF seen.cancel THEN FALSE ELSE @]

(* The jobs an executor has read the row of, and not written the outcome.  *)
InHand == {task[t].job : t \in {u \in Thread : task[u].step \in {"start", "run", "ok", "failed"}}}

SubmitWrites(t, outdated) ==
    /\ Work(t) /\ At(t, "submit", "write")
    /\ LET seen == task[t].seen
           fresh == seen.status = "none" /\ Row(t).status = "none"
           again == Resubmits(seen, outdated)
       IN /\ IF fresh THEN SetRow(t, [NoRow EXCEPT !.status = "queued", !.inputs = TRUE])
             ELSE IF again THEN SetRow(t, Requeued(Row(t), seen))
             ELSE UNCHANGED row
          /\ IF fresh \/ again
             THEN /\ task' = [task EXCEPT ![t] = [NoTask EXCEPT !.op = "execute", !.step = "check", !.job = task[t].job]]
                  /\ told' = told \ {task[t].job}
                  /\ crossed' = (crossed \ {task[t].job}) \cup (InHand \cap {task[t].job})
                  /\ orphans' = orphans \ {task[t].job}
             ELSE /\ task' = [task EXCEPT ![t] = [NoTask EXCEPT !.step = "done"]]
                  /\ UNCHANGED <<told, crossed, orphans>>
    /\ Still(t)

CancelWrites(t) ==
    /\ Work(t) /\ At(t, "cancel", "write")
    /\ LET seen == task[t].seen
           marked == IF seen.status \in Unfinished THEN [Row(t) EXCEPT !.cancel = TRUE] ELSE Row(t)
       IN IF seen.status = "queued"
          THEN /\ SetRow(t, [marked EXCEPT !.status = "cancelled", !.inputs = FALSE])
               /\ told' = told \cup {task[t].job}
          ELSE /\ SetRow(t, marked)
               /\ UNCHANGED told
    /\ task' = [task EXCEPT ![t] = [NoTask EXCEPT !.step = "done"]]
    /\ Still(t) /\ UNCHANGED <<crossed, orphans>>

----------------------------------------------------------------------------
(* execute_job.                                                            *)

(* resume_pending_jobs and resume_deferred_jobs: a list, then one job      *)
(* after the other.  A lookup that fails is tried again by the reporter.   *)
ListsJobs(t, found) ==
    /\ Work(t) /\ task[t].step = "list"
    /\ LET all == {j \in Job : row[j].status \in Unfinished
                                 /\ (task[t].op = "scan" => row[j].deferred)}
       IN task' = [task EXCEPT ![t].step = "done", ![t].todo = IF found THEN all ELSE {}]
    /\ scanDue' = (scanDue \/ (~found /\ task[t].op = "scan"))
    /\ UNCHANGED <<gateVars, row, gpu, boot, lastResumed, submits, told, crossed, orphans>>

TakesNext(t, j) ==
    /\ Work(t) /\ task[t].step = "done" /\ j \in task[t].todo
    /\ task' = [task EXCEPT ![t].step = "check", ![t].job = j, ![t].todo = @ \ {j}]
    /\ Still(t) /\ UNCHANGED <<row, told, crossed, orphans>>

Checks(t) ==
    /\ Work(t) /\ task[t].step = "check"
    /\ Step(t, IF request # 0 THEN "defer" ELSE "gpu")
    /\ Still(t) /\ UNCHANGED <<row, told, crossed, orphans>>

(* The mark is written by a thread that may hold the GPU lock.             *)
Deferred(r) == IF r.status \in Unfinished THEN [r EXCEPT !.deferred = TRUE] ELSE r

Defers(t) ==
    /\ Work(t) /\ task[t].step = "defer"
    /\ SetRow(t, Deferred(Row(t)))
    /\ Step(t, "done")
    /\ gpu' = IF gpu = t THEN NoOne ELSE gpu
    /\ orphans' = orphans \ {task[t].job}
    /\ UNCHANGED <<gateVars, boot, scanDue, lastResumed, submits, told, crossed>>

TakesGpu(t) ==
    /\ Work(t) /\ task[t].step = "gpu" /\ gpu = NoOne
    /\ gpu' = t
    /\ Step(t, "ask")
    /\ UNCHANGED <<gateVars, row, boot, scanDue, lastResumed, submits, told, crossed, orphans>>

AsksForStage(t) ==
    /\ task[t].step = "ask" /\ AskInner(t)
    /\ stillGate /\ UNCHANGED jobVars

BeginReads(t) ==
    /\ loc[t] = "inner" /\ task[t].step = "begin"
    /\ IF Row(t).status \in Unfinished
       THEN task' = [task EXCEPT ![t].seen = Row(t), ![t].step = "start"]
       ELSE Step(t, "end")
    /\ Still(t) /\ UNCHANGED <<row, told, crossed, orphans>>

BeginWrites(t) ==
    /\ loc[t] = "inner" /\ task[t].step = "start"
    /\ LET seen == task[t].seen
       IN IF seen.cancel
          THEN /\ SetRow(t, [Row(t) EXCEPT !.status = "cancelled", !.inputs = FALSE])
               /\ Step(t, "end")
          ELSE /\ SetRow(t, [Row(t) EXCEPT !.status = IF seen.status = "running" THEN @ ELSE "running",
                                           !.runs = seen.runs + 1])
               /\ task' = [u \in Thread |->
                    IF u = t THEN [task[t] EXCEPT !.step = "run", !.seen = NoRow]
                    ELSE [task[u] EXCEPT !.old = task[u].step = "write"]]
    /\ orphans' = orphans \ {task[t].job}
    /\ Still(t) /\ UNCHANGED <<told, crossed>>

(* A stage outlasts the moment between the read and the write of a request *)
(* handler: those that had read before it began have written by its end.   *)
StageEnds(t, ok) ==
    /\ loc[t] = "inner" /\ task[t].step = "run"
    /\ \A u \in Thread : task[u].step = "write" => ~task[u].old
    /\ task' = [task EXCEPT ![t].seen = Row(t), ![t].step = IF ok THEN "ok" ELSE "failed"]
    /\ Still(t) /\ UNCHANGED <<row, told, crossed, orphans>>

(* The row is read again after the stage: a cancellation that came while   *)
(* it ran discards the result.  A failure is recorded as a failure.        *)
Outcome(seen, ok) ==
    IF ~ok THEN "failed" ELSE IF seen.cancel THEN "cancelled" ELSE "succeeded"

EndWrites(t) ==
    /\ loc[t] = "inner" /\ task[t].step \in {"ok", "failed"}
    /\ SetRow(t, [Row(t) EXCEPT !.status = Outcome(task[t].seen, task[t].step = "ok"),
                                !.inputs = FALSE, !.made = birth[Main]])
    /\ Step(t, "end")
    /\ Still(t) /\ UNCHANGED <<told, crossed, orphans>>

(* The inner ticket, then the GPU lock.                                    *)
ReleasesStage(t) ==
    /\ task[t].step = "end" /\ CloseInner(t)
    /\ gpu' = NoOne
    /\ Step(t, "done")
    /\ stillGate /\ UNCHANGED <<row, boot, scanDue, lastResumed, submits, told, crossed, orphans>>

(* The request with its background work is over.                           *)
Returns(t) ==
    /\ task[t].step = "done" /\ task[t].todo = {} /\ Finish(t)
    /\ task' = [task EXCEPT ![t] = NoTask]
    /\ stillGate /\ UNCHANGED <<row, gpu, boot, scanDue, lastResumed, submits, told, crossed, orphans>>

----------------------------------------------------------------------------
WorkerDies ==
    /\ Die(Main)
    /\ orphans' = orphans \cup {j \in Job : row[j].status \in Unfinished /\ ~row[j].deferred}
    /\ task' = Reset(task, Main, NoTask)
    /\ gpu' = NoOne
    /\ boot' = TRUE /\ scanDue' = TRUE /\ lastResumed' = 0
    /\ UNCHANGED <<row, submits, told, crossed>>

WorkerServes == ~boot /\ Serve(Main) /\ UNCHANGED jobVars

Pauses == (BeginPause \/ ResumeWrites \/ ResumeUnlinks) /\ UNCHANGED jobVars

JobStep(t) ==
    \/ Granted(t) \/ Refused(t) \/ Reads(t) \/ CancelWrites(t)
    \/ \E b \in BOOLEAN : SubmitWrites(t, b) \/ StageEnds(t, b) \/ ListsJobs(t, b)
    \/ \E j \in Job : TakesNext(t, j)
    \/ Checks(t) \/ Defers(t) \/ TakesGpu(t) \/ AsksForStage(t)
    \/ BeginReads(t) \/ BeginWrites(t) \/ EndWrites(t) \/ ReleasesStage(t) \/ Returns(t)

WorkerNext ==
    \/ \E t \in Thread :
         \/ JobStep(t) \/ Dispatch(t) \/ BootResumes(t)
         \/ \E j \in Job, op \in {"submit", "cancel"} : Arrive(t, op, j)
    \/ ReporterSeesPause \/ BootPaused \/ WorkerServes \/ WorkerDies \/ Pauses

WorkerSpec == WorkerInit /\ [][WorkerNext]_workerVars

(* A service that runs goes on: stages end, the GPU lock is got in the     *)
(* end, the supervisor starts the process and the reporter looks.          *)
WorkerFairness ==
    /\ \A t \in Thread :
         /\ SF_workerVars(JobStep(t))
         /\ SF_workerVars(Dispatch(t))
    /\ WF_workerVars(\E t \in Thread : BootResumes(t))
    /\ WF_workerVars(ReporterSeesPause \/ BootPaused \/ WorkerServes)

WorkerLive == WorkerSpec /\ WorkerFairness

----------------------------------------------------------------------------
(* Properties.                                                             *)

(* A job that still has to be executed has its inputs: they are released   *)
(* with the end of a job only, and a resubmission brings them again.       *)
InputsAreKept ==
    \A j \in Job : row[j].status \in Unfinished /\ ~row[j].cancel => row[j].inputs

(* A controller that was told "cancelled" never finds the job succeeded,   *)
(* however the cancellation and the executor interleave, unless it submits *)
(* the job again.  A submission that is written while an executor works on *)
(* an earlier one is excepted: it makes the running job look queued.       *)
CancelledNeverSucceeds == \A j \in told \ crossed : row[j].status # "succeeded"

(* One submission executes its stage once, and once more for every restart *)
(* of the process: repeated dispatches of one job do not repeat the work.  *)
RunsOncePerLife == \A j \in Job : row[j].runs <= birth[Main]

InFlight(j) ==
    \E t \in Thread :
       \/ task[t].job = j /\ task[t].step \notin {"none", "asked", "read", "write", "done", "list"}
       \/ j \in task[t].todo

(* A stop that the gate authorises loses no job: an unfinished job is in   *)
(* the hands of a thread or marked for the dispatch after the pause.  Jobs *)
(* that a death of the process interrupted are excepted: the look at the   *)
(* start of the process is skipped during a pause.                         *)
NoJobIsDropped ==
    \A j \in Job : row[j].status \in Unfinished =>
        InFlight(j) \/ row[j].deferred \/ j \in orphans

JobSafety == InputsAreKept /\ CancelledNeverSucceeds /\ RunsOncePerLife /\ NoJobIsDropped

(* What docs/maintenance.md promises: the dispatch after the resume finds  *)
(* every job the pause has deferred, however short the pause was.          *)
DeferredIsDispatched ==
    \A j \in Job :
        (row[j].deferred /\ row[j].status = "queued" /\ request = 0)
            ~> (request # 0 \/ ~serving[Main] \/ row[j].status # "queued" \/ ~row[j].deferred)
=============================================================================
