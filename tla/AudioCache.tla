----------------------------- MODULE AudioCache -----------------------------
(***************************************************************************)
(* The local copy of one Plaud recording's audio: the downloads of         *)
(* poller/poll.py and imports.py, the clean-up of local_cleanup.py, and    *)
(* the claims of the pipeline that need the file.                          *)
(*                                                                         *)
(* A download is claimed by writing a fresh token into the row.  A thread  *)
(* claims only where no token stands, so the thread's name serves as its   *)
(* token.  Bytes arrive in a directory of the claim and are published by   *)
(* one transaction that also renames the file; clean-up renames the file   *)
(* away, commits, and unlinks it afterwards.  A crash may hit between the  *)
(* rename and the commit.                                                  *)
(***************************************************************************)
EXTENDS Naturals, FiniteSets

CONSTANTS
  Pollers,      \* download threads of the poll cycle
  Visitors,     \* threads that serve imports, playback, exports
  Daemon,       \* the threads among them that live in the daemon process
  AutoDownload, \* poller.auto_download
  EvictAudio,   \* store.evict_plaud_audio_after_processing
  None,         \* no token
  MaxRequests,  \* bound: what users ask for
  MaxFaults,    \* bound: failed downloads
  MaxCrashes    \* bound: crashes

Fetchers == Pollers \cup Visitors

ASSUME FetchersAssumption == Daemon \subseteq Fetchers /\ None \notin Fetchers
ASSUME SwitchesAssumption == {AutoDownload, EvictAudio} \subseteq BOOLEAN
ASSUME BoundsAssumption   == {MaxRequests, MaxFaults, MaxCrashes} \subseteq Nat

VARIABLES
  status,   \* PlaudFile.status
  audio,    \* PlaudFile.audio_path is set
  token,    \* PlaudFile.download_token
  old,      \* the lease of the token ran out; without a token: the row has
            \* not been touched for _DOWNLOAD_RECOVERY_TTL
  disk,     \* the file is where audio_path points, or would point
  doomed,   \* a file renamed away by clean-up waits to be unlinked
  fetch,    \* fetch[f]: what thread f is doing
  busy,     \* the processing claim, and what it does
  evicting, \* a finished cycle is about to apply the audio policy
  text,     \* a local transcript exists
  up,       \* the daemon process runs
  spent     \* counters behind the bounds

rowVars == <<status, audio, token, old>>
vars == <<rowVars, disk, doomed, fetch, busy, evicting, text, up, spent>>

FileStatus == {"metadata_only", "discovered", "downloading", "downloaded", "processing",
               "error", "partial", "done"}

\* AUDIO_RESTORABLE_STATUSES
Restorable == {"done", "partial", "error"}

Phases == {"idle", "deciding", "looking", "claiming", "fetching"}

Jobs    == [at : Phases, mode : {"poll", "import", "cache"}, tried : BOOLEAN, outdated : BOOLEAN]
Budgets == [requests : 0..MaxRequests, faults : 0..MaxFaults, crashes : 0..MaxCrashes]

TypeOK ==
  /\ status \in FileStatus /\ audio \in BOOLEAN /\ token \in Fetchers \cup {None}
  /\ old \in BOOLEAN /\ disk \in BOOLEAN /\ doomed \in BOOLEAN /\ evicting \in BOOLEAN
  /\ text \in BOOLEAN /\ up \in BOOLEAN /\ busy \in {"none", "claimed", "full", "derived"}
  /\ fetch \in [Fetchers -> Jobs] /\ spent \in Budgets

Idle == [at |-> "idle", mode |-> "poll", tried |-> FALSE, outdated |-> FALSE]

\* A recording of the listing: queued if it is new, else known by its metadata.
Init ==
  /\ status \in {"metadata_only", "discovered"} /\ audio = FALSE /\ token = None /\ old = FALSE
  /\ disk = FALSE /\ doomed = FALSE /\ evicting = FALSE /\ text = FALSE /\ up = TRUE
  /\ fetch = [f \in Fetchers |-> Idle] /\ busy = "none"
  /\ spent = [requests |-> 0, faults |-> 0, crashes |-> 0]

-----------------------------------------------------------------------------
Spend(what, bound) == spent[what] < bound /\ spent' = [spent EXCEPT ![what] = @ + 1]
CountRequest == Spend("requests", MaxRequests)

\* A thread of the daemon needs the daemon.
Runs(f) == f \in Daemon => up
At(f, phase) == Runs(f) /\ fetch[f].at = phase

Become(f, phase) == fetch' = [fetch EXCEPT ![f].at = phase]
Stop(f) == fetch' = [fetch EXCEPT ![f] = Idle]

\* A player looks again; whoever only wanted a download is done.
Return(f) == IF fetch[f].tried THEN Become(f, "looking") ELSE Stop(f)

\* The row forgets its claim; whoever still fetches works in vain, and
\* fetch[f].outdated remembers that for the properties.
TakeBack ==
  /\ token' = None /\ old' = FALSE
  /\ fetch' = [f \in Fetchers |-> [fetch[f] EXCEPT !.outdated = fetch[f].at = "fetching"]]

Downloading == token # None /\ ~old
Playable == audio /\ disk
Processing == busy # "none"

-----------------------------------------------------------------------------
(***************************************************************************)
(* Downloads.                                                              *)
(***************************************************************************)

\* download_pending, for one recording of its list.
Poll(f) ==
  /\ AutoDownload /\ f \in Pollers /\ At(f, "idle") /\ status = "discovered"
  /\ fetch' = [fetch EXCEPT ![f] = [Idle EXCEPT !.at = "claiming", !.mode = "poll"]]
  /\ UNCHANGED <<rowVars, disk, doomed, busy, evicting, text, up, spent>>

\* start_plaud_audio_import reads the row ...
Import(f) ==
  /\ f \in Visitors /\ At(f, "idle") /\ CountRequest
  /\ ~Playable /\ status # "downloading" /\ ~Downloading
  /\ fetch' = [fetch EXCEPT ![f] = [Idle EXCEPT !.at = "deciding",
                 !.mode = IF status = "done" THEN "cache" ELSE "import"]]
  /\ UNCHANGED <<rowVars, disk, doomed, busy, evicting, text, up>>

\* ... and writes it, with no claim yet, before it starts the thread.
ImportWrites(f) ==
  /\ At(f, "deciding") /\ Become(f, "claiming")
  /\ audio' = (audio /\ disk)
  /\ IF fetch[f].mode = "cache" THEN UNCHANGED <<status, old>>
     ELSE status' = "downloading" /\ old' = (old /\ token # None)
  /\ UNCHANGED <<token, disk, doomed, busy, evicting, text, up, spent>>

\* ensure_plaud_audio: playback, export, the audio a reprocess needs.
Play(f) ==
  /\ f \in Visitors /\ At(f, "idle") /\ CountRequest
  /\ fetch' = [fetch EXCEPT ![f] = [Idle EXCEPT !.at = "looking", !.mode = "cache"]]
  /\ UNCHANGED <<rowVars, disk, doomed, busy, evicting, text, up>>

\* It downloads once if nobody does, and waits while somebody does.
Look(f) ==
  /\ At(f, "looking")
  /\ audio' = IF status \in Restorable THEN audio /\ disk ELSE audio
  /\ IF Playable \/ status \notin Restorable THEN Stop(f)
     ELSE IF ~Downloading /\ ~fetch[f].tried
     THEN fetch' = [fetch EXCEPT ![f].at = "claiming", ![f].tried = TRUE]
     ELSE Stop(f)        \* the one attempt was in vain, or the wait timed out
  /\ UNCHANGED <<status, token, old, disk, doomed, busy, evicting, text, up, spent>>

\* The predicates of the claiming UPDATE.
Claimable(mode) ==
  /\ token = None
  /\ CASE mode = "cache"  -> ~audio /\ status \in Restorable /\ ~Processing
       [] mode = "import" -> status = "downloading"
       [] mode = "poll"   -> status = "discovered"

Claim(f) ==
  /\ At(f, "claiming")
  /\ IF Claimable(fetch[f].mode)
     THEN /\ token' = f /\ old' = FALSE
          /\ status' = IF fetch[f].mode = "cache" THEN status ELSE "downloading"
          /\ fetch' = [fetch EXCEPT ![f].at = "fetching", ![f].outdated = FALSE]
     ELSE Return(f) /\ UNCHANGED <<status, token, old>>
  /\ UNCHANGED <<audio, disk, doomed, busy, evicting, text, up, spent>>

\* An import thread whose client cannot be made ends before it claims.
ImportDies(f) ==
  /\ At(f, "claiming") /\ fetch[f].mode # "poll"
  /\ Spend("faults", MaxFaults) /\ Stop(f)
  /\ UNCHANGED <<rowVars, disk, doomed, busy, evicting, text, up>>

\* Mutant: any live download may publish.
OwnsUnlessExpired(f) == token # None /\ ~old

Owns(f) == token = f /\ ~old

\* Bytes arrived: one transaction renames the file and publishes it.
Publish(f) ==
  /\ At(f, "fetching") /\ Return(f)
  /\ IF Owns(f)
     THEN /\ audio' = TRUE /\ disk' = TRUE /\ token' = None /\ old' = FALSE
          /\ status' = IF fetch[f].mode = "cache" THEN status ELSE "downloaded"
     ELSE UNCHANGED <<rowVars, disk>>
  /\ UNCHANGED <<doomed, busy, evicting, text, up, spent>>

\* Mutant: the failure is recorded as a stage's is.
FailAsStage(f) ==
  /\ At(f, "fetching") /\ Spend("faults", MaxFaults) /\ Stop(f)
  /\ IF Owns(f)
     THEN /\ token' = None /\ old' = FALSE
          /\ status' = IF fetch[f].mode = "cache" THEN status ELSE "failed"
     ELSE UNCHANGED <<status, token, old>>
  /\ UNCHANGED <<audio, disk, doomed, busy, evicting, text, up>>

\* The download failed; only the owner says so in the row.
Fail(f) ==
  /\ At(f, "fetching") /\ Spend("faults", MaxFaults) /\ Stop(f)
  /\ IF Owns(f)
     THEN /\ token' = None /\ old' = FALSE
          /\ status' = IF fetch[f].mode = "cache" THEN status ELSE "error"
     ELSE UNCHANGED <<status, token, old>>
  /\ UNCHANGED <<audio, disk, doomed, busy, evicting, text, up>>

\* An hour passes: a lease runs out (while its thread works only as often as
\* downloads may fail), an unclaimed download counts as lost.
HourPasses ==
  /\ ~old /\ (token # None \/ status = "downloading") /\ old' = TRUE
  /\ IF token # None /\ fetch[token].at = "fetching" THEN Spend("faults", MaxFaults)
     ELSE UNCHANGED spent
  /\ UNCHANGED <<status, audio, token, disk, doomed, fetch, busy, evicting, text, up>>

-----------------------------------------------------------------------------
(***************************************************************************)
(* Clean-up.                                                               *)
(***************************************************************************)

\* Mutant: the visible status is taken for the processing claim.
InUseByStatus == Downloading \/ status = "processing"

InUse == Downloading \/ Processing

\* The file is renamed away and the row forgets it.
Forget ==
  /\ disk' = (disk /\ ~audio) /\ doomed' = (doomed \/ (disk /\ audio))
  /\ audio' = FALSE /\ TakeBack

Remove ==
  /\ CountRequest /\ ~InUse /\ status \notin {"downloading", "processing"}
  /\ Forget /\ status' = "metadata_only"
  /\ UNCHANGED <<busy, evicting, text, up>>

\* A finished recording keeps its status; a failure here is only logged.
Evict ==
  /\ evicting /\ evicting' = FALSE
  /\ \/ status = "done" /\ ~InUse /\ Forget
     \/ UNCHANGED <<audio, token, old, disk, doomed, fetch>>
  /\ UNCHANGED <<status, busy, text, up, spent>>

\* Mutant: the original path is unlinked, not the renamed file.
UnlinkOriginal ==
  /\ doomed /\ doomed' = FALSE /\ disk' = FALSE
  /\ UNCHANGED <<rowVars, fetch, busy, evicting, text, up, spent>>

Unlink ==
  /\ doomed /\ doomed' = FALSE
  /\ UNCHANGED <<rowVars, disk, fetch, busy, evicting, text, up, spent>>

\* delete_local_processing_many: derivatives only, whatever downloads meanwhile.
DeleteProcessing ==
  /\ CountRequest /\ ~Processing /\ status # "processing"
  /\ text' = FALSE /\ status' = IF Playable THEN "downloaded" ELSE "metadata_only"
  /\ UNCHANGED <<audio, token, old, disk, doomed, fetch, busy, evicting, up>>

-----------------------------------------------------------------------------
(***************************************************************************)
(* The pipeline, as far as it touches this row (RecordingCycle has the     *)
(* rest).  A full cycle reads the file; a derived one reads the transcript.*)
(***************************************************************************)

\* The daemon picks what is queued; a request claims whatever the status is.
StartFull ==
  /\ up /\ ~Processing /\ Playable
  /\ \/ status \in {"downloaded", "error", "partial"} /\ UNCHANGED spent
     \/ CountRequest
  /\ busy' = "claimed" /\ status' = "processing"
  /\ UNCHANGED <<audio, token, old, disk, doomed, fetch, evicting, text, up>>

EnterFull ==
  /\ up /\ busy = "claimed" /\ busy' = "full" /\ status' = "processing"
  /\ UNCHANGED <<audio, token, old, disk, doomed, fetch, evicting, text, up, spent>>

StartDerived ==
  /\ up /\ ~Processing /\ text /\ CountRequest
  /\ busy' = "derived" /\ status' = "processing"
  /\ UNCHANGED <<audio, token, old, disk, doomed, fetch, evicting, text, up>>

\* The cycle writes its outcome and gives the claim back.
Finish ==
  /\ up /\ busy \in {"full", "derived"} /\ busy' = "none" /\ evicting' = EvictAudio
  /\ \/ status' = "done" /\ text' = TRUE /\ UNCHANGED spent
     \/ status' = "partial" /\ text' = TRUE /\ Spend("faults", MaxFaults)
     \/ busy = "full" /\ status' = "error" /\ text' = text /\ Spend("faults", MaxFaults)
  /\ UNCHANGED <<audio, token, old, disk, doomed, fetch, up>>

-----------------------------------------------------------------------------
(***************************************************************************)
(* Crashes and recovery.                                                   *)
(***************************************************************************)

\* What a crash of threads F leaves of a transaction that had renamed a file.
TornPublish(F) == (\E f \in F : fetch[f].at = "fetching" /\ Owns(f)) /\ disk' = TRUE
TornCleanUp == Playable /\ ~InUse /\ status \notin {"downloading", "processing"} /\ disk' = FALSE

Die(F) == fetch' = [f \in Fetchers |-> IF f \in F THEN Idle ELSE fetch[f]]

\* A renamed file that was not unlinked yet stays for ever.
Crash ==
  /\ up /\ Spend("crashes", MaxCrashes) /\ up' = FALSE /\ Die(Daemon)
  /\ UNCHANGED disk \/ TornPublish(Daemon) \/ TornCleanUp
  /\ evicting' = FALSE /\ doomed' = FALSE
  /\ UNCHANGED <<rowVars, busy, text>>

\* Another process dies: `localplaud serve`, `localplaud poll`.
CrashOther(f) ==
  /\ f \notin Daemon /\ fetch[f].at # "idle" /\ Spend("crashes", MaxCrashes) /\ Die({f})
  /\ UNCHANGED disk \/ TornPublish({f})
  /\ UNCHANGED <<rowVars, doomed, busy, evicting, text, up>>

\* Mutant: recovery looks for tokens only.
LostTokensOnly(dead) == status = "downloading" /\ token # None /\ (old \/ token \in dead)

\* A download is lost if its lease ran out, if nobody claimed it for long, or if
\* its owner is known dead.
Lost(dead) == status = "downloading" /\ (old \/ token \in dead)

\* reset_inflight, its part about downloads ...
RecoverDownload(dead) ==
  /\ Lost(dead) /\ status' = "discovered" /\ TakeBack

\* ... and about the processing claim.  A new daemon process knows what the old
\* one owned.
StartUp ==
  /\ ~up /\ up' = TRUE /\ busy' = "none"
  /\ \/ RecoverDownload(Daemon)
     \/ /\ ~Lost(Daemon) /\ status' = IF status = "processing" THEN "downloaded" ELSE status
        /\ UNCHANGED <<token, old, fetch>>
  /\ UNCHANGED <<audio, disk, doomed, evicting, text, spent>>

PeriodicReset ==
  /\ up /\ RecoverDownload({})
  /\ UNCHANGED <<audio, disk, doomed, busy, evicting, text, up, spent>>

\* reset_download_errors: the backoff is left out.
RetryError ==
  /\ up /\ AutoDownload /\ status = "error" /\ ~audio
  /\ status' = "discovered" /\ TakeBack
  /\ UNCHANGED <<audio, disk, doomed, busy, evicting, text, up, spent>>

-----------------------------------------------------------------------------
Download(f) == \/ ImportWrites(f) \/ Look(f) \/ Claim(f) \/ Publish(f) \/ Fail(f)

Users == \/ \E f \in Fetchers : Import(f) \/ Play(f)
         \/ Remove \/ DeleteProcessing \/ StartDerived

Next ==
  \/ \E f \in Fetchers : Download(f) \/ Poll(f) \/ ImportDies(f) \/ CrashOther(f)
  \/ Users \/ HourPasses \/ Evict \/ Unlink \/ StartFull \/ EnterFull \/ Finish
  \/ Crash \/ StartUp \/ PeriodicReset \/ RetryError

\* Threads run, the poll cycle comes round, a crashed daemon is started again.
Fairness ==
  /\ \A f \in Fetchers : WF_vars(Download(f)) /\ WF_vars(Poll(f))
  /\ WF_vars(HourPasses) /\ WF_vars(StartUp) /\ WF_vars(PeriodicReset) /\ WF_vars(RetryError)
  /\ WF_vars(EnterFull) /\ WF_vars(Finish) /\ WF_vars(Evict) /\ WF_vars(Unlink)

Spec == Init /\ [][Next]_vars
FairSpec == Spec /\ Fairness

-----------------------------------------------------------------------------
(***************************************************************************)
(* Properties.                                                             *)
(***************************************************************************)

\* Clean-up and a new download of the same recording do not eat each other's
\* file: short of a crash, what the row calls local is on disk.
\* (local_cleanup.py _quarantine, _delete_quarantine; poll.py _download_one)
AudioIsOnDisk == audio /\ spent.crashes = 0 => disk

\* A download whose claim was taken back, by recovery or by clean-up, ends
\* without a trace in the row, whoever holds the claim by then.
\* (poll.py _download_one, publication and failure)
LateDownloadIsMute ==
  [][\A f \in Fetchers :
       fetch[f].at = "fetching" /\ fetch[f].outdated /\ fetch'[f].at # "fetching"
         => UNCHANGED <<status, audio, token>>]_vars

\* The file a full cycle reads stays, whatever the visible status was overwritten
\* with meanwhile.  (local_cleanup.py remove_local_audio, evict_completed_plaud_audio)
FullCycleKeepsAudio == busy \in {"claimed", "full"} => Playable

\* No recording is shown as downloading for ever, and a new one ends up on disk, or the
\* user gave it up.  (poll.py reset_inflight, reset_download_errors, download_pending)
DownloadsSettle ==
  /\ status = "downloading" ~> status # "downloading"
  /\ status = "discovered" /\ ~text ~> audio \/ status = "metadata_only" \/ text

\* The evicted audio of a finished recording can be restored: no claim blocks it
\* for ever.  (docs/product-workflow.md, imports.py ensure_plaud_audio)
RestoreIsNotBlocked ==
  status = "done" /\ ~audio /\ token # None ~> status # "done" \/ token = None
=============================================================================
