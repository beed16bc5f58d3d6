---------------------------- MODULE CatalogSync ----------------------------
(***************************************************************************)
(* The catalogue of a workspace: sync_file_list of the poller and of a     *)
(* manual check, src/src/localplaud/poller/poll.py, beside the metadata    *)
(* import of src/src/localplaud/imports.py.                                *)
(*                                                                         *)
(* All three list the Plaud cloud and insert rows for recordings they see  *)
(* for the first time.  The first sync that succeeds draws a line, the     *)
(* baseline: what the cloud held by then stays metadata only, and what is  *)
(* uploaded later is queued for the automatic download.  A listing is slow *)
(* and is read before the transaction that uses it.  Two syncs are kept    *)
(* apart by a row with a time limit of 15 minutes, the import is not kept  *)
(* apart from either.                                                      *)
(*                                                                         *)
(* Automatic download is on.  A take-over of the lock row, and its release *)
(* by the token that is in it, are one step each.                          *)
(***************************************************************************)
EXTENDS Naturals, FiniteSets

CONSTANTS
    Recording,      \* recordings of the Plaud account
    Overlong,       \* those as long as pipeline.auto_skip_duration_minutes
    Syncer,         \* who calls sync_file_list
    Daemon,         \* the syncer in the process of the service
    Nobody,         \* no lock row
    ImportRuns,     \* bound: ids of the import runs, 1 .. ImportRuns
    CatalogCrashes  \* bound: how often the process of the service dies

ASSUME CatalogConstants ==
    /\ Overlong \subseteq Recording
    /\ Daemon \in Syncer /\ Nobody \notin Syncer
    /\ ImportRuns \in Nat /\ CatalogCrashes \in Nat

VARIABLES
    cloud,          \* what the account holds
    rec,            \* plaud_files.status, as far as the catalogue sets it
    baseline,       \* the row plaud.catalog_baseline_v1 exists
    lock,           \* the row of the catalogue lock
    sync,           \* the syncers
    imp,            \* the thread of the metadata import
    importRun,      \* import_runs.status
    history,        \* recordings the baseline was drawn over
    late,           \* recordings uploaded after it
    crashed         \* crashes so far

catalogVars == <<cloud, rec, baseline, lock, sync, imp, importRun, history, late, crashed>>
untouched == UNCHANGED <<cloud, history, late, crashed>>

Known == {"metadata_only", "discovered", "downloaded", "error"}
Open == {"queued", "running"}
NoSync == [step |-> "idle", based |-> FALSE, listing |-> {}, absent |-> {}, live |-> FALSE]
NoImport == [step |-> "idle", run |-> 0, todo |-> {}, based |-> FALSE, at |-> {}]

CatalogTypeOK ==
    /\ cloud \in SUBSET Recording /\ history \in SUBSET Recording /\ late \in SUBSET Recording
    /\ rec \in [Recording -> Known \cup {"none"}]
    /\ baseline \in BOOLEAN
    /\ lock \in [owner : Syncer \cup {Nobody}, fresh : BOOLEAN]
    /\ sync \in [Syncer -> [step : {"idle", "claim", "list", "read", "write", "release", "download"},
                            based : BOOLEAN, listing : SUBSET Recording,
                            absent : SUBSET Recording, live : BOOLEAN]]
    /\ imp \in [step : {"idle", "start", "list", "baseline", "row", "insert", "refresh", "mark", "down"},
                run : 0 .. ImportRuns, todo : SUBSET Recording, based : BOOLEAN,
                at : SUBSET Recording]
    /\ importRun \in [1 .. ImportRuns -> Open \cup {"none", "completed", "failed"}]
    /\ crashed \in 0 .. CatalogCrashes

(* A new workspace, or one from the time before automatic downloads.       *)
CatalogInit ==
    /\ cloud \in SUBSET Recording
    /\ rec \in [Recording -> {"none", "metadata_only", "discovered", "error"}]
    /\ \A r \in Recording : rec[r] # "none" => r \in cloud
    /\ baseline = FALSE
    /\ lock = [owner |-> Nobody, fresh |-> FALSE]
    /\ sync = [s \in Syncer |-> NoSync]
    /\ imp = NoImport
    /\ importRun = [i \in 1 .. ImportRuns |-> "none"]
    /\ history = {} /\ late = {} /\ crashed = 0

Upload(r) ==
    /\ r \notin cloud
    /\ cloud' = cloud \cup {r}
    /\ late' = IF baseline THEN late \cup {r} ELSE late
    /\ UNCHANGED <<rec, baseline, lock, sync, imp, importRun, history, crashed>>

(* Mutant: the rule of the time before the baseline.                       *)
NewStatusAlways(r, based) == IF r \notin Overlong THEN "discovered" ELSE "metadata_only"

(* new_file_status.                                                        *)
NewStatus(r, based) ==
    IF based /\ r \notin Overlong THEN "discovered" ELSE "metadata_only"

----------------------------------------------------------------------------
(* sync_file_list, called by a poll or by a check.                         *)

Goes(s, step) == sync' = [sync EXCEPT ![s].step = step]

(* _poll_workspace reads the baseline before it lists, and resets the      *)
(* download errors when it is there; check_plaud_now does neither, and     *)
(* downloads nothing.                                                      *)
PollBegins(s) ==
    /\ sync[s].step = "idle" /\ ~(s = Daemon /\ imp.step = "down")
    /\ sync' = [sync EXCEPT ![s].step = "claim", ![s].based = baseline]
    /\ rec' = [r \in Recording |-> IF baseline /\ rec[r] = "error" THEN "discovered" ELSE rec[r]]
    /\ untouched /\ UNCHANGED <<baseline, lock, imp, importRun>>

CheckBegins(s) ==
    /\ sync[s].step = "idle" /\ s # Daemon
    /\ Goes(s, "claim")
    /\ untouched /\ UNCHANGED <<rec, baseline, lock, imp, importRun>>

(* Mutant: the row of a sync that never ended is in the way for ever.      *)
LockIsAbsent == lock.owner = Nobody

LockIsFree == ~lock.fresh

Claim(s) ==
    /\ sync[s].step = "claim" /\ LockIsFree
    /\ lock' = [owner |-> s, fresh |-> TRUE]
    /\ sync' = [sync EXCEPT ![s].step = "list", ![s].live = TRUE]
    /\ untouched /\ UNCHANGED <<rec, baseline, imp, importRun>>

(* Another sync owns the listing: a check raises CatalogSyncBusy, a poll   *)
(* goes on to its downloads.                                               *)
ListingBusy(s) ==
    /\ sync[s].step = "claim" /\ ~LockIsFree
    /\ Goes(s, IF sync[s].based THEN "download" ELSE "idle")
    /\ untouched /\ UNCHANGED <<rec, baseline, lock, imp, importRun>>

Lists(s) ==
    /\ sync[s].step = "list"
    /\ sync' = [sync EXCEPT ![s].listing = cloud, ![s].step = "read"]
    /\ untouched /\ UNCHANGED <<rec, baseline, lock, imp, importRun>>

ListFails(s) ==
    /\ sync[s].step = "list"
    /\ sync' = [sync EXCEPT ![s].step = "release", ![s].based = FALSE]
    /\ untouched /\ UNCHANGED <<rec, baseline, lock, imp, importRun>>

(* The first sync holds the write lock from its UPDATE on: the queues of   *)
(* an older deployment must not become a backfill.                         *)
Cold(r) == IF rec[r] \in {"discovered", "error"} THEN "metadata_only" ELSE rec[r]

FirstSync(s) ==
    /\ sync[s].step = "read" /\ ~baseline
    /\ rec' = [r \in Recording |->
                 IF rec[r] = "none" /\ r \in sync[s].listing THEN NewStatus(r, FALSE) ELSE Cold(r)]
    /\ baseline' = TRUE
    /\ history' = sync[s].listing \cup {r \in Recording : rec[r] # "none"}
    /\ sync' = [sync EXCEPT ![s] = [@ EXCEPT !.step = "release", !.listing = {}]]
    /\ UNCHANGED <<cloud, lock, imp, importRun, late, crashed>>

(* Later ones look up the rows first and insert with their commit.         *)
ReadsRows(s) ==
    /\ sync[s].step = "read" /\ baseline
    /\ sync' = [sync EXCEPT ![s].absent = {r \in sync[s].listing : rec[r] = "none"},
                            ![s].step = "write"]
    /\ untouched /\ UNCHANGED <<rec, baseline, lock, imp, importRun>>

WritesRows(s) ==
    /\ sync[s].step = "write"
    /\ \A r \in sync[s].absent : rec[r] = "none"
    /\ rec' = [r \in Recording |-> IF r \in sync[s].absent THEN NewStatus(r, TRUE) ELSE rec[r]]
    /\ sync' = [sync EXCEPT ![s] = [@ EXCEPT !.step = "release", !.listing = {}, !.absent = {}]]
    /\ untouched /\ UNCHANGED <<baseline, lock, imp, importRun>>

(* The primary key refuses a row another path has inserted meanwhile.      *)
WriteConflicts(s) ==
    /\ sync[s].step = "write"
    /\ \E r \in sync[s].absent : rec[r] # "none"
    /\ sync' = [sync EXCEPT ![s] = [NoSync EXCEPT !.step = "release", !.live = sync[s].live]]
    /\ untouched /\ UNCHANGED <<rec, baseline, lock, imp, importRun>>

(* _release_catalog_sync, in the finally of sync_file_list.                *)
Released(s) == IF lock.owner = s THEN [owner |-> Nobody, fresh |-> FALSE] ELSE lock

Release(s) ==
    /\ sync[s].step = "release"
    /\ lock' = Released(s)
    /\ sync' = [sync EXCEPT ![s].step = IF sync[s].based THEN "download" ELSE "idle", ![s].live = FALSE]
    /\ untouched /\ UNCHANGED <<rec, baseline, imp, importRun>>

(* The 15 minutes are over, however long the cloud takes to answer.        *)
LockExpires ==
    /\ lock.owner # Nobody /\ lock.fresh
    /\ lock' = [lock EXCEPT !.fresh = FALSE]
    /\ sync' = [sync EXCEPT ![lock.owner].live = FALSE]
    /\ untouched /\ UNCHANGED <<rec, baseline, imp, importRun>>

(* download_pending, only when the baseline was there before the listing.  *)
Downloads(s, r, ok) ==
    /\ sync[s].step = "download" /\ rec[r] = "discovered"
    /\ rec' = [rec EXCEPT ![r] = IF ok THEN "downloaded" ELSE "error"]
    /\ untouched /\ UNCHANGED <<baseline, lock, sync, imp, importRun>>

PollEnds(s) ==
    /\ sync[s].step = "download"
    /\ Goes(s, "idle")
    /\ untouched /\ UNCHANGED <<rec, baseline, lock, imp, importRun>>

----------------------------------------------------------------------------
(* The metadata import.                                                    *)

Rests == UNCHANGED <<baseline, lock, sync>> /\ untouched

(* start_plaud_metadata_import: one run at a time.                         *)
StartImport(i) ==
    /\ imp.step = "idle" /\ importRun[i] = "none"
    /\ \A k \in 1 .. ImportRuns : importRun[k] \notin Open /\ (importRun[k] = "none" => i <= k)
    /\ importRun' = [importRun EXCEPT ![i] = "queued"]
    /\ imp' = [NoImport EXCEPT !.step = "start", !.run = i]
    /\ Rests /\ UNCHANGED rec

ImportBegins ==
    /\ imp.step = "start"
    /\ importRun' = [importRun EXCEPT ![imp.run] = "running"]
    /\ imp' = [imp EXCEPT !.step = "list"]
    /\ Rests /\ UNCHANGED rec

ImportLists ==
    /\ imp.step = "list"
    /\ imp' = [imp EXCEPT !.step = "baseline", !.todo = cloud]
    /\ Rests /\ UNCHANGED <<rec, importRun>>

(* The baseline is read once, after the listing and before every row.      *)
ImportReadsBaseline ==
    /\ imp.step = "baseline"
    /\ imp' = [imp EXCEPT !.step = "row", !.based = baseline]
    /\ Rests /\ UNCHANGED <<rec, importRun>>

ImportRow(r) ==
    /\ imp.step = "row" /\ r \in imp.todo
    /\ imp' = [imp EXCEPT !.at = {r}, !.step = IF rec[r] = "none" THEN "insert" ELSE "refresh"]
    /\ Rests /\ UNCHANGED <<rec, importRun>>

ImportInserts ==
    /\ imp.step = "insert"
    /\ \A r \in imp.at : rec[r] = "none"
    /\ rec' = [r \in Recording |-> IF r \in imp.at THEN NewStatus(r, imp.based) ELSE rec[r]]
    /\ imp' = [imp EXCEPT !.step = "refresh"]
    /\ Rests /\ UNCHANGED importRun

(* A listing that fails, or a row a sync has inserted meanwhile, ends the  *)
(* run; the next one goes on from the rows that are there.                 *)
ImportFails ==
    /\ \/ imp.step = "list"
       \/ imp.step = "insert" /\ \E r \in imp.at : rec[r] # "none"
    /\ importRun' = [importRun EXCEPT ![imp.run] = "failed"]
    /\ imp' = NoImport
    /\ Rests /\ UNCHANGED rec

(* The artifacts of a row are refreshed, with four retries against a rate  *)
(* limit; a failure counts as one failed recording and the run goes on.    *)
ImportAdvances ==
    /\ imp.step = "refresh"
    /\ imp' = [imp EXCEPT !.step = "row", !.todo = @ \ imp.at, !.at = {}]
    /\ Rests /\ UNCHANGED <<rec, importRun>>

ImportCompletes ==
    /\ imp.step = "row" /\ imp.todo = {}
    /\ importRun' = [importRun EXCEPT ![imp.run] = "completed"]
    /\ imp' = NoImport
    /\ Rests /\ UNCHANGED rec

(* The service dies with its import and its poll; the lock row stays.      *)
ServiceDies ==
    /\ crashed < CatalogCrashes /\ imp.step # "down"
    /\ crashed' = crashed + 1
    /\ imp' = [NoImport EXCEPT !.step = "down"]
    /\ sync' = [sync EXCEPT ![Daemon] = NoSync]
    /\ UNCHANGED <<cloud, rec, baseline, lock, importRun, history, late>>

Interrupted(status) == IF status \in Open THEN "failed" ELSE status

(* recover_interrupted_imports, before the service serves.                 *)
ServiceStarts ==
    /\ imp.step = "down"
    /\ importRun' = [i \in DOMAIN importRun |-> Interrupted(importRun[i])]
    /\ imp' = NoImport
    /\ Rests /\ UNCHANGED rec

----------------------------------------------------------------------------
SyncStep(s) ==
    \/ Claim(s) \/ ListingBusy(s) \/ Lists(s) \/ FirstSync(s) \/ ReadsRows(s)
    \/ WritesRows(s) \/ WriteConflicts(s) \/ Release(s) \/ PollEnds(s)

ImportStep ==
    \/ ImportBegins \/ ImportLists \/ ImportReadsBaseline \/ ImportInserts \/ ImportFails
    \/ ImportAdvances \/ ImportCompletes \/ ServiceStarts
    \/ \E r \in Recording : ImportRow(r)

CatalogNext ==
    \/ \E r \in Recording : Upload(r)
    \/ \E s \in Syncer :
         \/ PollBegins(s) \/ CheckBegins(s) \/ SyncStep(s) \/ ListFails(s)
         \/ \E r \in Recording, ok \in BOOLEAN : Downloads(s, r, ok)
    \/ \E i \in 1 .. ImportRuns : StartImport(i)
    \/ ImportStep \/ LockExpires \/ ServiceDies

CatalogSpec == CatalogInit /\ [][CatalogNext]_catalogVars

(* The scheduler polls, what runs goes on, the cloud answers in the end,   *)
(* 15 minutes pass and the supervisor starts the service.  A sync need not *)
(* be faster than its lock.                                                *)
CatalogFairness ==
    /\ WF_catalogVars(PollBegins(Daemon))
    /\ \A s \in Syncer : WF_catalogVars(SyncStep(s)) /\ SF_catalogVars(Lists(s))
    /\ WF_catalogVars(ImportStep)
    /\ WF_catalogVars(LockExpires)

CatalogLive == CatalogSpec /\ CatalogFairness

----------------------------------------------------------------------------
(* Properties.                                                             *)

(* Automatic download never begins with the past: what the first listing   *)
(* saw, and what an older deployment had queued, stays metadata only,      *)
(* whichever path inserts the row and however old its listing is.          *)
HistoryStaysCold == \A r \in history : rec[r] = "metadata_only"

(* And it misses nothing of what comes after: a recording uploaded when    *)
(* the baseline stands is queued by whichever path observes it first.      *)
LateIsQueued == \A r \in late \ Overlong : rec[r] # "metadata_only"

(* Two syncs do not list at a time unless the first outlives its lock.     *)
OneListing ==
    \A s, u \in Syncer : sync[s].live /\ sync[u].live => s = u

(* An import run that is open has a thread, or the service is about to     *)
(* close it at its start: no dead run locks later imports out.             *)
OpenRunIsManned ==
    \A i \in DOMAIN importRun :
        importRun[i] \in Open => imp.step = "down" \/ imp.run = i

CatalogSafety == HistoryStaysCold /\ LateIsQueued /\ OneListing /\ OpenRunIsManned

(* Every upload gets its row, though syncs fail, conflict with an import,  *)
(* or die and leave the lock behind.                                       *)
UploadIsSeen == \A r \in Recording : (r \in cloud) ~> (rec[r] # "none")
=============================================================================
