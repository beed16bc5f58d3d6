--------------------------- MODULE MCServicesLive ---------------------------
(***************************************************************************)
(* Liveness of the processing lease, of the maintenance gate, of the       *)
(* remote worker behind it and of the catalogue: each behaviour is one of  *)
(* one system, which the initial state chooses, under the fairness of that *)
(* system.                                                                 *)
(***************************************************************************)
EXTENDS RemoteWorker, CatalogSync

CONSTANTS web1, web2

VARIABLES
    system,
    token, lease, status, run, open, publisher, ownerRecord,   \* of ProcessingLease
    pc, job, saved, daemon, previous

(* Two recordings, and one worker slot of one daemon.                      *)
Lease == INSTANCE ProcessingLease WITH
    Recordings <- {"first", "second"}, Workers <- {"slot"}, RequestWorkers <- {}, Reindexers <- {},
    Daemons <- {"serve"}, Hosts <- {"here"}, OwnerOf <- [w \in {"slot"} |-> "serve"],
    HostOf <- [d \in {"serve"} |-> "here"], Capacity <- 1, LeaseTicks <- 1, HeartbeatTicks <- 1,
    NoWorker <- "none", NoRecording <- "none", NoDaemon <- "none"

leaseVars == <<token, lease, status, run, open, publisher, ownerRecord, pc, job, saved, daemon, previous>>
HomeOf == [t \in {web1, web2} |-> Main]

InGate(A) == system = "gate" /\ A /\ UNCHANGED <<system, jobVars, catalogVars, leaseVars>>
InWorker(A) == system = "worker" /\ A /\ UNCHANGED <<system, catalogVars, leaseVars>>
InCatalog(A) == system = "catalog" /\ A /\ UNCHANGED <<system, workerVars, leaseVars>>
InLease(A) == system = "lease" /\ A /\ UNCHANGED <<system, workerVars, catalogVars>>

LiveInit ==
    /\ system \in {"lease", "gate", "worker", "catalog"}
    /\ system # "catalog" => cloud = {}
    /\ Lease!Init /\ WorkerInit /\ CatalogInit

LiveNext == InGate(GateNext) \/ InWorker(WorkerNext) \/ InCatalog(CatalogNext) \/ InLease(Lease!Next)

liveVars == <<system, workerVars, catalogVars, leaseVars>>

(* Lease!Fairness, GateFairness, WorkerFairness and CatalogFairness.  As a *)
(* behaviour is one of one system, a condition may stand for one of each:  *)
(* TLC's work doubles with every condition of strong fairness.             *)
SyncersOf(t) == IF t = web1 THEN {Daemon} ELSE Syncer \ {Daemon}

LiveFairness ==
    /\ \A t \in Thread :
         /\ WF_liveVars(\/ InGate(Alone(Admit(t) \/ Refuse(t) \/ Begin(t)))
                        \/ InCatalog(\E s \in SyncersOf(t) : SyncStep(s))
                        \/ InLease(IF t = web1 THEN Lease!Work("slot") ELSE Lease!Dispatch("slot")))
         /\ SF_liveVars(\/ InGate(Alone(CloseInner(t)))
                        \/ InWorker(JobStep(t))
                        \/ InCatalog(\E s \in SyncersOf(t) : Lists(s)))
         /\ SF_liveVars(\/ InGate(Alone(Finish(t)))
                        \/ InWorker(Dispatch(t))
                        \/ InLease(Lease!PeriodicReset("serve")))
    /\ WF_liveVars(\/ InWorker(\E t \in Thread : BootResumes(t))
                   \/ InCatalog(PollBegins(Daemon))
                   \/ InLease(Lease!StartUp("serve")))
    /\ WF_liveVars(\/ InWorker(ReporterSeesPause \/ BootPaused \/ WorkerServes)
                   \/ InCatalog(ImportStep)
                   \/ InLease(Lease!Heartbeat("serve")))
    /\ WF_liveVars(InCatalog(LockExpires) \/ InLease(Lease!Tick))

LiveSpec == LiveInit /\ [][LiveNext]_liveVars /\ LiveFairness

----------------------------------------------------------------------------
(* A recording shown as processing stops being so while some daemon stays  *)
(* up: its worker finishes, fails, or is recovered after its lease ran out *)
(* (poll.py reset_inflight).                                               *)
ProcessingEnds == Lease!ProcessingEnds

(* A downloaded recording is picked up though retries never end            *)
(* (pipeline.py new_recordings_waiting).                                   *)
DownloadedIsPickedUp == Lease!DownloadedIsPickedUp
=============================================================================
