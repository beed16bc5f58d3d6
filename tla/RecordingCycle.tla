--------------------------- MODULE RecordingCycle ---------------------------
(***************************************************************************)
(* The life of one recording after its audio arrived: the stages of        *)
(* worker/pipeline.py, the four cycles that run them (full, derived,       *)
(* mind-map-only and outline-only), the transcript reindex of              *)
(* worker/reindex.py, and the requests of api/app.py and api/outline.py    *)
(* that make finished artifacts out of date.                               *)
(*                                                                         *)
(* ProcessingLease shows that one worker at a time holds the claim of a    *)
(* recording, so here one record, work, is the worker that holds it.  A    *)
(* transcript text is a version number drawn from a counter; an artifact   *)
(* is the lineage (raw transcript, canonical text) it was built from.      *)
(* StageRun.detail is the set of its flags: "stale", "derived_only", and   *)
(* "only" for mind_map_only, outline_only and reindex_only.  The           *)
(* stale_generation of a stage is a fresh random value at each marking,    *)
(* so all that can be observed of it is whether it changed since           *)
(* _begin_stage read it: work.moved.                                       *)
(***************************************************************************)
EXTENDS Naturals, Sequences, FiniteSets

CONSTANT Settings \* libraries: their configuration, and the bounds of the run

Speech  == {"transcribe", "align", "diarize"}
Derived == {"summarize", "mind_map", "outline", "index"}
Stages  == Speech \cup {"correct"} \cup Derived
RequestKinds == {"reprocess", "force", "notes", "map", "outline", "edit", "rename", "restore",
                 "resume_all", "force_all", "derived_all"}
Order   == <<"transcribe", "align", "diarize", "vocabulary", "correct",
             "summarize", "mind_map", "outline", "index">>
Steps   == {Order[i] : i \in DOMAIN Order}
Cycles  == {"full", "derived", "mind_map", "outline", "index"}

\* A library: what [pipeline] and store switch on, whether ASR labels speakers,
\* whether vocabulary terms match, what ASR may hear, how many providers a stage
\* may try, the requests its users make, and whether worker threads start.
Configuration ==
  [enabled : SUBSET Stages, asrSpeakers : BOOLEAN, rules : BOOLEAN, evidence : BOOLEAN,
   evictAudio : BOOLEAN, contents : (SUBSET {"speech", "noise", "silence"}) \ {{}},
   candidates : Nat \ {0}, requests : SUBSET RequestKinds, threadsStart : BOOLEAN,
   maxVersions : Nat, maxNotes : Nat, maxRequests : Nat, maxFaults : Nat, maxCrashes : Nat]

\* pipeline.transcribe is on: without it the recording has no text at all.
ASSUME SettingsAssumption ==
  Settings \subseteq Configuration /\ \A s \in Settings : "transcribe" \in s.enabled

VARIABLES
  setting,  \* the library's configuration: no step changes it
  status,   \* PlaudFile.status
  audio,    \* PlaudFile.audio_path is set
  raw,      \* the local Transcript row
  canon,    \* the canonical text: latest TranscriptRevision, or the raw row
  drafts,   \* drafts[n]: the lineage the n-th generated note was written from
  note,     \* the live note, the one the live mind map read, and whether a
            \* user chose the live one from the version history
  built,    \* built[s]: lineage of the live artifact of s (text = 0: none)
  run,      \* run[s]: StageRun of s; status "none" if there is no row
  waiting,  \* retry deadlines that lie in the future
  asked,    \* requests that passed their first check and did not write yet
  evicting, \* a worker released its claim and is about to drop the audio
  work,     \* the worker that holds the claim
  spent     \* counters behind the bounds

textVars == <<raw, canon>>
artVars  == <<drafts, note, built>>
sideVars == <<asked, evicting>>
vars == <<setting, status, audio, textVars, artVars, run, waiting, sideVars, work, spent>>

Enabled      == setting.enabled
AsrSpeakers  == setting.asrSpeakers
Rules        == setting.rules
Evidence     == setting.evidence
EvictsAudio  == setting.evictAudio
Contents     == setting.contents
Candidates   == setting.candidates
Requests     == setting.requests
ThreadsStart == setting.threadsStart
MaxVersions  == setting.maxVersions  \* bound: transcript versions
MaxNotes     == setting.maxNotes     \* bound: generated notes
RequestBound == setting.maxRequests  \* bound: requests and edits
FaultBound   == setting.maxFaults    \* bound: failed provider calls
CrashBound   == setting.maxCrashes   \* bound: crashes of the process that holds the claim

\* The code compares raw and rev; text is the content they stand for.
Lineages  == [raw : 0..MaxVersions, rev : 0..MaxVersions, text : 0..MaxVersions]
Details   == SUBSET {"stale", "derived_only", "only"}
FileStatus == {"downloaded", "processing", "error", "partial", "done"}
StageStatus == {"none", "pending", "running", "completed", "degraded", "failed", "skipped"}

Raws  == [id : 0..MaxVersions, speakers : BOOLEAN, content : Contents]
Texts == [text : 0..MaxVersions, kind : {"raw", "auto", "machine", "user"},
          base : 0..MaxVersions, content : {"speech", "noise", "silence"}]
Rows  == [status : StageStatus, detail : Details]
NoteChoices == [live : 0..MaxNotes, mapped : 0..MaxNotes, chosen : BOOLEAN]
Places  == {"idle", "requested", "start", "stage", "running", "persisted",
            "closing", "finished", "crashed"}
Workers ==
  [at : Places, cycle : Cycles, force : BOOLEAN, stage : Steps, lineage : Lineages,
   note : 0..MaxNotes, before : FileStatus, moved : BOOLEAN, fresh : BOOLEAN,
   try : 0..Candidates, errors : SUBSET Steps]
Counters == [versions : 0..MaxVersions, requests : 0..RequestBound,
             faults : 0..FaultBound, crashes : 0..CrashBound]

TypeOK ==
  /\ setting \in Settings
  /\ status \in FileStatus /\ audio \in BOOLEAN /\ evicting \in BOOLEAN
  /\ raw \in Raws /\ canon \in Texts
  /\ drafts \in Seq(Lineages) /\ Len(drafts) <= MaxNotes /\ note \in NoteChoices
  /\ built \in [{"mind_map", "outline", "index"} -> Lineages]
  /\ run \in [Stages -> Rows]
  /\ waiting \subseteq {"file", "map", "outline"}
  /\ asked \subseteq [kind : RequestKinds, status : FileStatus]
  /\ work \in Workers /\ spent \in Counters

NoLineage == [raw |-> 0, rev |-> 0, text |-> 0]
NoWork == [at |-> "idle", cycle |-> "full", force |-> FALSE, stage |-> "transcribe",
           lineage |-> NoLineage, note |-> 0, before |-> "done",
           moved |-> FALSE, fresh |-> FALSE, try |-> 0, errors |-> {}]

\* A recording whose audio was just downloaded.
Init ==
  /\ setting \in Settings
  /\ status = "downloaded" /\ audio = TRUE
  /\ raw = [id |-> 0, speakers |-> FALSE, content |-> CHOOSE c \in Contents : TRUE]
  /\ canon = [text |-> 0, kind |-> "raw", base |-> 0, content |-> "speech"]
  /\ drafts = <<>> /\ note = [live |-> 0, mapped |-> 0, chosen |-> FALSE]
  /\ built = [s \in {"mind_map", "outline", "index"} |-> NoLineage]
  /\ run = [s \in Stages |-> [status |-> "none", detail |-> {}]]
  /\ waiting = {} /\ asked = {} /\ evicting = FALSE
  /\ work = NoWork
  /\ spent = [versions |-> 0, requests |-> 0, faults |-> 0, crashes |-> 0]

-----------------------------------------------------------------------------
(***************************************************************************)
(* What the rows say.                                                      *)
(***************************************************************************)

\* processing_claim_active: a crashed worker's claim is live until recovery.
Claimed == work.at # "idle"

Has(s, flag) == flag \in run[s].detail

Mapped == built["mind_map"] # NoLineage

\* _transcript_lineage: a diarized raw row keeps its identity.
Lineage == [raw |-> raw.id, rev |-> IF canon.kind = "raw" THEN 0 ELSE canon.text,
            text |-> canon.text]

SameLineage(a, b) == a.raw = b.raw /\ a.rev = b.rev

\* Stages with a row that is not completed; a skipped one counts.
Open(s) == run[s].status \notin {"none", "completed"}

DerivedOnly == \E s \in Derived \cup {"correct"} : Has(s, "derived_only") /\ Open(s)

MapOnly == ~DerivedOnly /\ Has("mind_map", "only") /\ Open("mind_map")

OutlineOnly == Has("outline", "only") /\ Open("outline")

\* Ingestion finished speech: resume from the transcript, audio or not.
SpeechIsDone ==
  /\ raw.id # 0 /\ run["transcribe"].status = "completed"
  /\ \A s \in Speech : run[s].status \in {"none", "completed", "skipped"}
  /\ \E s \in Derived \cup {"correct"} : Open(s)

\* Mutant: only marked requests are narrow.
ScopeOfMarks == IF DerivedOnly THEN "derived" ELSE IF MapOnly THEN "mind_map" ELSE "full"

\* The scope a queued recording would be processed with, deadlines apart.
Scope == IF DerivedOnly \/ (~MapOnly /\ SpeechIsDone) THEN "derived"
         ELSE IF MapOnly THEN "mind_map" ELSE "full"

\* Mutant: an error is final.
PendingScopeButError ==
  IF Claimed \/ OutlineOnly THEN IF Claimed \/ "outline" \in waiting THEN "none" ELSE "outline"
  ELSE IF \/ status \notin {"downloaded", "partial"}
          \/ status # "downloaded" /\ (IF MapOnly THEN "map" ELSE "file") \in waiting
          \/ Scope = "full" /\ ~audio
       THEN "none" ELSE Scope

\* An outline-only request comes first and hides all other queued work.
PendingScope ==
  IF Claimed \/ OutlineOnly THEN IF Claimed \/ "outline" \in waiting THEN "none" ELSE "outline"
  ELSE IF \/ status \notin {"downloaded", "error", "partial"}
          \/ status # "downloaded" /\ (IF MapOnly THEN "map" ELSE "file") \in waiting
          \/ Scope = "full" /\ ~audio
       THEN "none" ELSE Scope

-----------------------------------------------------------------------------
(***************************************************************************)
(* Transcript versions and invalidation.                                   *)
(***************************************************************************)

NewVersion == spent.versions + 1

CountVersion == spent.versions < MaxVersions /\ spent' = [spent EXCEPT !.versions = @ + 1]

\* StageRuns of S become pending and stale; their other flags stay.
Stale(runs, S) ==
  [s \in Stages |-> IF s \in S
                    THEN [status |-> "pending", detail |-> runs[s].detail \cup {"stale"}]
                    ELSE runs[s]]

Flagged(runs, S, flags) ==
  [s \in Stages |-> IF s \in S THEN [runs[s] EXCEPT !.detail = @ \cup flags] ELSE runs[s]]

\* vocabulary._mark_derived_stale: the chunks are deleted as well.
DerivedGoStale ==
  /\ run' = Stale(run, Derived)
  /\ built' = [built EXCEPT !["index"] = NoLineage]

-----------------------------------------------------------------------------
(***************************************************************************)
(* Claiming and entering a cycle.                                          *)
(***************************************************************************)

Working(cycle, force, at) == [NoWork EXCEPT !.at = at, !.cycle = cycle, !.force = force]

Starting(cycle) == work.at = "start" /\ work.cycle = cycle

\* process_pending: the scope is re-read, then claimed; an outline or index
\* claim leaves the status alone.
Dispatch ==
  /\ PendingScope # "none"
  /\ work' = Working(PendingScope, FALSE, "start")
  /\ status' = IF PendingScope = "outline" THEN status ELSE "processing"
  /\ UNCHANGED <<setting, audio, textVars, artVars, run, waiting, sideVars, spent>>

\* process_pending_reindexes and the eager reindex after an edit.
DispatchReindex ==
  /\ ~Claimed /\ Has("index", "only") /\ run["index"].status \in {"pending", "running"}
  /\ "index" \in Enabled
  /\ work' = Working("index", FALSE, "start")
  /\ UNCHANGED <<setting, status, audio, textVars, artVars, run, waiting, sideVars, spent>>

EnterFull ==
  /\ Starting("full")
  /\ status' = "processing"
  /\ work' = [work EXCEPT !.at = "stage", !.stage = "transcribe"]
  /\ UNCHANGED <<setting, audio, textVars, artVars, run, waiting, sideVars, spent>>

\* The correction stage is called only if polishing is on.
EnterDerived ==
  /\ Starting("derived")
  /\ work' = [work EXCEPT !.at = "stage", !.lineage = Lineage,
                          !.stage = IF "correct" \in Enabled THEN "correct" ELSE "summarize"]
  /\ UNCHANGED <<setting, status, audio, textVars, artVars, run, waiting, sideVars, spent>>

\* _mind_map_rebuild_inputs reads everything the rebuild uses in one session.
MapIsRebuildable == "mind_map" \in Enabled /\ ~Has("summarize", "stale") /\ note.live # 0

EnterMap ==
  /\ Starting("mind_map") /\ MapIsRebuildable
  /\ work' = [work EXCEPT !.at = "stage", !.stage = "mind_map", !.lineage = Lineage,
                          !.note = note.live]
  /\ UNCHANGED <<setting, status, audio, textVars, artVars, run, waiting, sideVars, spent>>

\* ... or refuses: process_mind_map_only records the error and retries later.
RefuseMap ==
  /\ Starting("mind_map") /\ ~MapIsRebuildable
  /\ work' = [work EXCEPT !.at = "finished"]
  /\ IF status = "processing"
     THEN /\ status' = "error"
          /\ run' = [run EXCEPT !["mind_map"].status = "failed"]
          /\ waiting' = waiting \cup {"map"}
     ELSE UNCHANGED <<status, run, waiting>>
  /\ UNCHANGED <<setting, audio, textVars, artVars, sideVars, spent>>

EnterOutline ==
  /\ Starting("outline") /\ canon.content # "silence"
  /\ run' = [run EXCEPT !["outline"] = [status |-> "pending", detail |-> @.detail \cup {"only"}]]
  /\ work' = [work EXCEPT !.at = "stage", !.stage = "outline", !.lineage = Lineage]
  /\ UNCHANGED <<setting, status, audio, textVars, artVars, waiting, sideVars, spent>>

RefuseOutline ==
  /\ Starting("outline") /\ canon.content = "silence"
  /\ run' = [run EXCEPT !["outline"] = [status |-> "failed", detail |-> @.detail \cup {"only"}]]
  /\ waiting' = waiting \cup {"outline"} /\ work' = [work EXCEPT !.at = "finished"]
  /\ UNCHANGED <<setting, status, audio, textVars, artVars, sideVars, spent>>

\* _begin_reindex: input and generation are read in the transaction that begins.
EnterReindex ==
  /\ Starting("index")
  /\ run' = [run EXCEPT !["index"] = [status |-> "running",
                                      detail |-> IF Has("index", "stale") THEN @.detail ELSE {}]]
  /\ work' = [work EXCEPT !.at = "running", !.stage = "index", !.lineage = Lineage,
                          !.moved = FALSE, !.try = @ + 1]
  /\ UNCHANGED <<setting, status, audio, textVars, artVars, waiting, sideVars, spent>>

-----------------------------------------------------------------------------
(***************************************************************************)
(* Stages of a cycle.  A stage is skipped, reused, or begun once for each  *)
(* candidate provider; its result is stored, then its run is closed.       *)
(***************************************************************************)

At(s) == work.at = "stage" /\ work.stage = s
Running(s) == work.at = "running" /\ work.stage = s /\ work.cycle # "index"
Narrow == work.cycle \in {"mind_map", "outline"}

\* The transcript of this cycle, empty unless ASR just heard something.
Silent == canon.content = "silence" /\ ~(work.fresh /\ raw.content # "silence")

\* What polishing starts from: raw speech again if a machine text lost its base.
PolishInput == IF canon.kind = "user" \/ (canon.kind = "auto" /\ canon.base = raw.id)
               THEN canon.content ELSE raw.content

\* Mutant: polishing does not look for a human revision.
SkippableOverEdits(s) ==
  \/ s \notin Enabled
  \/ s \in {"align", "diarize", "correct"} /\ work.cycle = "full" /\ Silent
  \/ s = "correct" /\ PolishInput = "silence"

Skippable(s) ==
  \/ s \notin Enabled
  \/ s \in {"align", "diarize", "correct"} /\ work.cycle = "full" /\ Silent
  \/ s = "correct" /\ (canon.kind = "user" \/ PolishInput = "silence")

\* Mutants: the chunks are not looked for; a map is reused because it is there;
\* whatever was made from an earlier text is reused.
ReusableButIndex(s) ==
  \/ s = "diarize" /\ raw.speakers
  \/ /\ ~work.force /\ ~Narrow
     /\ \/ s = "transcribe" /\ raw.id # 0
        \/ s = "align" /\ run[s].status \in {"completed", "degraded"}
        \/ s = "correct" /\ canon.kind = "machine" /\ canon.base = raw.id
        \/ s = "summarize" /\ note.live # 0 /\ ~Has(s, "stale")
        \/ s = "mind_map" /\ Mapped /\ ~Has(s, "stale")
        \/ s = "outline" /\ SameLineage(built[s], work.lineage) /\ ~Has(s, "stale")

ReusableOldMap(s) ==
  \/ ReusableButIndex(s)
  \/ ~work.force /\ ~Narrow /\ \/ s = "mind_map" /\ Mapped
                               \/ s = "index" /\ built[s] # NoLineage

ReusableThoughStale(s) ==
  \/ ReusableOldMap(s)
  \/ ~work.force /\ ~Narrow /\ s = "summarize" /\ note.live # 0

Reusable(s) ==
  \/ s = "diarize" /\ raw.speakers
  \/ /\ ~work.force /\ ~Narrow
     /\ \/ s = "transcribe" /\ raw.id # 0
        \/ s = "align" /\ run[s].status \in {"completed", "degraded"}
        \/ s = "correct" /\ canon.kind = "machine" /\ canon.base = raw.id
        \/ s = "summarize" /\ note.live # 0 /\ ~Has(s, "stale")
        \/ s = "mind_map" /\ Mapped /\ ~Has(s, "stale")
        \/ s = "outline" /\ SameLineage(built[s], work.lineage) /\ ~Has(s, "stale")
        \/ s = "index" /\ built[s] # NoLineage

\* Empty ASR output retires a machine-made canonical text; corrupt or empty
\* speech feeds no artifact; an unverified note does not feed a map.
Held(s) ==
  /\ ~Narrow
  /\ \/ /\ s = "align" /\ work.fresh /\ raw.content = "silence"
        /\ canon.kind # "user" /\ canon.content # "silence"
     \/ s = "summarize" /\ canon.content # "speech"
     \/ s = "mind_map" /\ s \in Enabled /\ Evidence /\ "summarize" \in work.errors

NextStep(s) == Order[(CHOOSE i \in DOMAIN Order : Order[i] = s) + 1]

\* Leaving correction fixes the lineage all derived stages of the cycle use.
Leaving(s, errors) ==
  [work EXCEPT !.at = IF Narrow \/ s = "index" \/ (s = "correct" /\ errors # {})
                      THEN "closing" ELSE "stage",
               !.stage = IF Narrow \/ s = "index" THEN s ELSE NextStep(s),
               !.lineage = IF s = "correct" THEN Lineage ELSE @,
               !.try = 0, !.moved = FALSE, !.errors = @ \cup errors]

Close(s, result) == run' = [run EXCEPT ![s] = [status |-> result, detail |-> {}]]

SkipStage(s) ==
  /\ At(s) /\ ~Narrow /\ Skippable(s) /\ ~Held(s)
  /\ Close(s, "skipped") /\ work' = Leaving(s, {})
  /\ UNCHANGED <<setting, status, audio, textVars, artVars, waiting, sideVars, spent>>

ReuseStage(s) ==
  /\ At(s) /\ ~Skippable(s) /\ ~Held(s) /\ Reusable(s)
  /\ Close(s, "completed") /\ work' = Leaving(s, {})
  /\ UNCHANGED <<setting, status, audio, textVars, artVars, waiting, sideVars, spent>>

\* A degraded alignment is reused unless forced alignment is selected.  The
\* detail of an outdated stage outlives the attempt, and an outline request does.
BeginStage(s) ==
  /\ At(s) /\ (Narrow \/ ~Skippable(s)) /\ ~Held(s)
  /\ ~Reusable(s) \/ (s = "align" /\ run[s].status = "degraded")
  /\ run' = [run EXCEPT ![s] = [status |-> "running", detail |->
              IF Has(s, "stale") THEN @.detail
              ELSE IF s = "outline" THEN @.detail \cap {"only"} ELSE {}]]
  /\ work' = [work EXCEPT !.at = "running", !.moved = FALSE, !.try = @ + 1,
                          !.note = IF s = "mind_map" /\ ~Narrow THEN note.live ELSE @]
  /\ UNCHANGED <<setting, status, audio, textVars, artVars, waiting, sideVars, spent>>

Stored == work' = [work EXCEPT !.at = "persisted"]
OnlyStored == Stored /\ UNCHANGED <<status, audio, waiting, sideVars>>

\* A new raw row; revisions stay canonical but lose their base.
PersistTranscript ==
  /\ Running("transcribe") /\ CountVersion
  /\ \E c \in Contents :
       /\ raw' = [id |-> NewVersion, speakers |-> AsrSpeakers, content |-> c]
       /\ canon' = IF canon.kind = "raw"
                   THEN [text |-> NewVersion, kind |-> "raw", base |-> NewVersion, content |-> c]
                   ELSE [canon EXCEPT !.base = 0]
  /\ work' = [work EXCEPT !.at = "persisted", !.fresh = TRUE]
  /\ UNCHANGED <<setting, status, audio, waiting, sideVars, artVars, run>>

\* Word timings only.
PersistAligned == Running("align") /\ OnlyStored /\ UNCHANGED <<setting, textVars, artVars, run, spent>>

PersistDiarized ==
  /\ Running("diarize") /\ CountVersion /\ OnlyStored /\ DerivedGoStale
  /\ raw' = [raw EXCEPT !.speakers = TRUE]
  /\ canon' = IF canon.kind = "raw" THEN [canon EXCEPT !.text = NewVersion] ELSE canon
  /\ UNCHANGED <<setting, drafts, note>>

PersistPolished ==
  /\ Running("correct") /\ CountVersion /\ OnlyStored /\ DerivedGoStale
  /\ canon' = [text |-> NewVersion, kind |-> "machine", base |-> raw.id, content |-> PolishInput]
  /\ UNCHANGED <<setting, raw, drafts, note>>

\* The note guard: same transcript, digest included.
NoteInputsHold == work.lineage = Lineage

\* A new note outdates the map made from another one.  (The second write of a
\* title repair is part of this step.)
PersistNote ==
  /\ Running("summarize") /\ NoteInputsHold /\ Len(drafts) < MaxNotes /\ OnlyStored
  /\ drafts' = Append(drafts, work.lineage)
  /\ note' = [note EXCEPT !.live = Len(drafts) + 1, !.chosen = FALSE]
  /\ run' = IF Mapped THEN Stale(run, {"mind_map"}) ELSE run
  /\ UNCHANGED <<setting, textVars, built, spent>>

\* Mutant: the note may have gone out of date while the map was drawn.
MapInputsHoldWithoutStale ==
  work.note # 0 => SameLineage(work.lineage, Lineage) /\ note.live = work.note

MapInputsHold ==
  work.note # 0 => /\ SameLineage(work.lineage, Lineage)
                   /\ note.live = work.note /\ ~Has("summarize", "stale")

PersistMap ==
  /\ Running("mind_map") /\ MapInputsHold /\ OnlyStored
  /\ built' = [built EXCEPT !["mind_map"] = work.lineage]
  /\ note' = [note EXCEPT !.mapped = work.note]
  /\ UNCHANGED <<setting, textVars, drafts, run, spent>>

\* The outline guard compares the digest as well.
OutlineInputsHold == work.lineage = Lineage

PersistOutline ==
  /\ Running("outline") /\ OutlineInputsHold /\ OnlyStored
  /\ built' = [built EXCEPT !["outline"] = work.lineage]
  /\ UNCHANGED <<setting, textVars, drafts, note, run, spent>>

PersistIndex ==
  /\ Running("index") /\ OnlyStored
  /\ built' = [built EXCEPT !["index"] = work.lineage]
  /\ UNCHANGED <<setting, textVars, drafts, note, run, spent>>

\* _finish_stage with the stale generation that _begin_stage read.
FinishStage(s) ==
  /\ work.at = "persisted" /\ work.stage = s /\ ~work.moved
  /\ Close(s, "completed") /\ work' = Leaving(s, {})
  /\ UNCHANGED <<setting, status, audio, textVars, artVars, waiting, sideVars, spent>>

\* A failure that must be counted, unless the inputs changed.
Fault(s) ==
  IF \/ work.moved
     \/ s = "summarize" /\ ~NoteInputsHold
     \/ s = "mind_map" /\ ~MapInputsHold
     \/ s = "outline" /\ ~OutlineInputsHold
  THEN UNCHANGED spent
  ELSE spent.faults < FaultBound /\ spent' = [spent EXCEPT !.faults = @ + 1]

Attempted(s) ==
  /\ work.stage = s /\ work.cycle # "index"
  /\ work.at = "running" \/ (work.at = "persisted" /\ work.moved)

\* _fail_stage keeps the detail; an outdated index run keeps its newer marking.
Failed(s) == IF s = "index" /\ work.moved THEN run ELSE [run EXCEPT ![s].status = "failed"]

\* A retryable error moves on to the next candidate, unless the inputs moved.
TryNext(s) ==
  /\ Attempted(s) /\ ~work.moved /\ work.try < Candidates /\ Fault(s)
  /\ run' = Failed(s) /\ work' = [work EXCEPT !.at = "stage"]
  /\ UNCHANGED <<setting, status, audio, textVars, artVars, waiting, sideVars>>

\* Any stage but transcription may fail and leave the rest of the cycle usable.
FailStage(s) ==
  /\ Attempted(s) /\ s # "transcribe" /\ Fault(s)
  /\ \/ s # "align" /\ run' = Failed(s) /\ work' = Leaving(s, {s})
     \/ s = "diarize" /\ run' = [run EXCEPT ![s].status = "degraded"] /\ work' = Leaving(s, {s})
     \/ s = "align" /\ Close(s, "degraded") /\ \E e \in {{}, {s}} : work' = Leaving(s, e)
  /\ UNCHANGED <<setting, status, audio, textVars, artVars, waiting, sideVars>>

\* The outer handler of process_file: nothing usable, retry the whole cycle.
FailCycle(s) ==
  /\ Attempted(s) /\ s \in {"transcribe", "align"} /\ Fault(s)
  /\ run' = Failed(s) /\ status' = "error" /\ waiting' = waiting \cup {"file"}
  /\ work' = [work EXCEPT !.at = "finished"]
  /\ UNCHANGED <<setting, audio, textVars, artVars, sideVars>>

RetireSpeech ==
  /\ At("align") /\ Held("align") /\ CountVersion
  /\ canon' = [text |-> NewVersion, kind |-> "auto", base |-> raw.id, content |-> "silence"]
  /\ UNCHANGED <<setting, status, audio, raw, artVars, run, waiting, sideVars, work>>

\* apply_vocabulary(automatic): only where there is no correction yet.
Applies == Rules /\ ~Silent /\ canon.kind = "raw"

ApplyVocabulary ==
  /\ At("vocabulary") /\ Applies /\ CountVersion /\ DerivedGoStale
  /\ canon' = [canon EXCEPT !.text = NewVersion, !.kind = "auto"]
  /\ work' = Leaving("vocabulary", {})
  /\ UNCHANGED <<setting, status, audio, raw, drafts, note, waiting, sideVars>>

SkipVocabulary ==
  /\ At("vocabulary") /\ ~Applies
  /\ work' = Leaving("vocabulary", {})
  /\ UNCHANGED <<setting, status, audio, textVars, artVars, run, waiting, sideVars, spent>>

\* _skip_empty_derivatives: old artifacts stay, out of date.
SkipDerived ==
  /\ At("summarize") /\ ~Narrow /\ canon.content = "silence"
  /\ run' = [s \in Stages |-> IF s \in Derived
                              THEN [status |-> "skipped", detail |-> {"stale"}] ELSE run[s]]
  /\ built' = [built EXCEPT !["index"] = NoLineage]
  /\ work' = [work EXCEPT !.at = "closing"]
  /\ UNCHANGED <<setting, status, audio, textVars, drafts, note, waiting, sideVars, spent>>

\* require_usable_transcript: the assessment replaces the detail of each run.
RejectNoise ==
  /\ At("summarize") /\ ~Narrow /\ canon.content = "noise"
  /\ run' = [s \in Stages |-> IF s \in Derived \cap Enabled
                              THEN [status |-> "degraded", detail |-> {}] ELSE run[s]]
  /\ work' = [work EXCEPT !.at = "closing", !.errors = @ \cup (Derived \cap Enabled)]
  /\ UNCHANGED <<setting, status, audio, textVars, artVars, waiting, sideVars, spent>>

HoldMap ==
  /\ At("mind_map") /\ Held("mind_map")
  /\ run' = [run EXCEPT !["mind_map"].status = "degraded"]
  /\ work' = Leaving("mind_map", {"mind_map"})
  /\ UNCHANGED <<setting, status, audio, textVars, artVars, waiting, sideVars, spent>>

\* _publish_reindex: all or nothing, under _inputs_still_current.
PublishReindex ==
  /\ work.at = "running" /\ work.cycle = "index"
  /\ work' = [work EXCEPT !.at = "finished"]
  /\ IF SameLineage(work.lineage, Lineage) /\ ~work.moved /\ run["index"].status = "running"
     THEN /\ built' = [built EXCEPT !["index"] = work.lineage]
          /\ Close("index", "completed")
     ELSE UNCHANGED <<built, run>>
  /\ UNCHANGED <<setting, status, audio, textVars, drafts, note, waiting, sideVars, spent>>

\* _fail_reindex_if_current, then the next candidate if there is one.
FailReindex ==
  /\ work.at = "running" /\ work.cycle = "index" /\ Fault("index")
  /\ IF SameLineage(work.lineage, Lineage) /\ ~work.moved /\ run["index"].status = "running"
     THEN /\ run' = Failed("index")
          /\ \/ work.try < Candidates /\ work' = [work EXCEPT !.at = "start"]
             \/ work' = [work EXCEPT !.at = "finished"]
     ELSE run' = run /\ work' = [work EXCEPT !.at = "finished"]
  /\ UNCHANGED <<setting, status, audio, textVars, artVars, waiting, sideVars>>

-----------------------------------------------------------------------------
(***************************************************************************)
(* The end of a cycle.                                                     *)
(***************************************************************************)

Closing(cycles) == work.at = "closing" /\ work.cycle \in cycles

Finished == work' = [work EXCEPT !.at = "finished"]

\* Mutant: the cycle ends well if speech worked.
FinishCycleOnSpeech ==
  /\ Closing({"full", "derived"}) /\ Finished
  /\ IF work.errors \cap Speech = {}
     THEN status' = "done" /\ waiting' = waiting \ {"file"} /\ run' = run
     ELSE status' = "partial" /\ waiting' = waiting \cup {"file"} /\ run' = run
  /\ UNCHANGED <<setting, audio, textVars, artVars, sideVars, spent>>

\* _finish_processing_cycle; a derived cycle remembers its narrow scope.
FinishCycle ==
  /\ Closing({"full", "derived"}) /\ Finished
  /\ IF work.errors = {}
     THEN status' = "done" /\ waiting' = waiting \ {"file"} /\ run' = run
     ELSE /\ status' = "partial" /\ waiting' = waiting \cup {"file"}
          /\ run' = IF work.cycle = "full" THEN run ELSE
                    Flagged(run, {s \in Derived \cup {"correct"} :
                                    run[s].status \in {"failed", "degraded", "pending"}},
                            {"derived_only"})
  /\ UNCHANGED <<setting, audio, textVars, artVars, sideVars, spent>>

\* Mutant: only stages under way count.
LeftoverUnderWay(rebuilt, unfinished) ==
  \E s \in Stages \ {rebuilt} : run[s].status \in unfinished \cap {"pending", "running"}

\* Stages a narrow cycle leaves unfinished; here degraded is given.
Leftover(rebuilt, unfinished) ==
  \E s \in Stages \ {rebuilt} : Has(s, "stale") \/ run[s].status \in unfinished

\* _finish_mind_map_cycle has its own backoff and leaves the file's alone.
FinishMap ==
  /\ Closing({"mind_map"}) /\ Finished
  /\ IF work.errors # {}
     THEN status' = "partial" /\ waiting' = waiting \cup {"map"}
     ELSE /\ status' = IF Leftover("mind_map", {"pending", "running", "failed"})
                       THEN "partial" ELSE "done"
          /\ waiting' = waiting \ {"map"}
  /\ UNCHANGED <<setting, audio, textVars, artVars, run, sideVars, spent>>

\* _finish_outline_cycle clears a roll-up that only the outline was holding.
FinishOutline ==
  /\ Closing({"outline"}) /\ Finished
  /\ IF work.errors # {}
     THEN /\ run' = Flagged(run, {"outline"}, {"only"})
          /\ waiting' = waiting \cup {"outline"} /\ status' = status
     ELSE /\ run' = run
          /\ IF /\ status = "partial"
                /\ ~Leftover("outline", {"pending", "running", "failed", "degraded"})
             THEN status' = "done" /\ waiting' = waiting \ {"file", "outline"}
             ELSE status' = status /\ waiting' = waiting \ {"outline"}
  /\ UNCHANGED <<setting, audio, textVars, artVars, sideVars, spent>>

\* The claim is given back; the audio policy runs after that.
Release ==
  /\ work.at = "finished" /\ work' = NoWork
  /\ evicting' = (EvictsAudio /\ work.cycle \in {"full", "derived", "mind_map"})
  /\ UNCHANGED <<setting, status, audio, textVars, artVars, run, waiting, asked, spent>>

\* evict_completed_plaud_audio; its failure is logged and forgotten.
Evict ==
  /\ evicting /\ evicting' = FALSE
  /\ audio' \in IF status = "done" /\ ~Claimed THEN {FALSE, audio} ELSE {audio}
  /\ UNCHANGED <<setting, status, textVars, artVars, run, waiting, asked, work, spent>>

\* The process dies with its claim, whose heir finds it by its owner or lease.
Crash ==
  /\ work.at \notin {"idle", "crashed"} /\ spent.crashes < CrashBound
  /\ spent' = [spent EXCEPT !.crashes = @ + 1]
  /\ work' = [work EXCEPT !.at = "crashed"]
  /\ UNCHANGED <<setting, status, audio, textVars, artVars, run, waiting, sideVars>>

\* Mutants: recovery confuses the recording's status with a stage's; recovery
\* frees the claim and leaves the recording in processing.
RecoverAsStage ==
  /\ work.at = "crashed" \/ (~Claimed /\ status = "processing")
  /\ work' = NoWork
  /\ status' = IF status = "processing" THEN "pending" ELSE status
  /\ UNCHANGED <<setting, audio, textVars, artVars, run, waiting, sideVars, spent>>

RecoverClaimOnly ==
  /\ work.at = "crashed" /\ work' = NoWork
  /\ run' = [s \in Stages |-> IF run[s].status # "running" THEN run[s]
                              ELSE [run[s] EXCEPT !.status = "failed"]]
  /\ UNCHANGED <<setting, status, audio, textVars, artVars, waiting, sideVars, spent>>

\* reset_inflight: a reindex that left the status alone is queued again.
Recover ==
  /\ work.at = "crashed" \/ (~Claimed /\ status = "processing")
  /\ work' = NoWork
  /\ status' = IF status = "processing" THEN "downloaded" ELSE status
  /\ run' = [s \in Stages |->
       IF run[s].status # "running" THEN run[s]
       ELSE [run[s] EXCEPT !.status = IF /\ status # "processing" /\ s = "index"
                                         /\ Has(s, "only")
                                      THEN "pending" ELSE "failed"]]
  /\ UNCHANGED <<setting, audio, textVars, artVars, waiting, sideVars, spent>>

\* A retry deadline passes.
RetryDue ==
  /\ \E d \in waiting : waiting' = waiting \ {d}
  /\ UNCHANGED <<setting, status, audio, textVars, artVars, run, sideVars, work, spent>>

-----------------------------------------------------------------------------
(***************************************************************************)
(* Requests.  Those of one recording hold its claim or lock its row; those *)
(* of the library check first and write later.                             *)
(***************************************************************************)

Requested(kind) == kind \in Requests /\ spent.requests < RequestBound

CountRequest == spent' = [spent EXCEPT !.requests = @ + 1]

\* _queue_transcript_reindex with the edited text as newest revision.
EditTranscript ==
  /\ Requested("edit") /\ ~Claimed /\ raw.id # 0 /\ spent.versions < MaxVersions
  /\ spent' = [spent EXCEPT !.requests = @ + 1, !.versions = @ + 1]
  /\ canon' = [text |-> NewVersion, kind |-> "user", base |-> raw.id, content |-> "speech"]
  /\ run' = Flagged(Stale(run, Derived), {"index"}, {"only"})
  /\ built' = [built EXCEPT !["index"] = NoLineage]
  /\ UNCHANGED <<setting, status, audio, raw, drafts, note, waiting, sideVars, work>>

RenameSpeaker ==
  /\ Requested("rename") /\ ~Claimed /\ raw.speakers /\ CountRequest
  /\ run' = Flagged(Stale(run, {"index"}), {"index"}, {"only"})
  /\ built' = [built EXCEPT !["index"] = NoLineage]
  /\ UNCHANGED <<setting, status, audio, textVars, drafts, note, waiting, sideVars, work>>

\* restore_summary_version: the map stays current if it was made from that version.
RestoreNote ==
  /\ Requested("restore") /\ ~Claimed /\ note.live # 0 /\ CountRequest
  /\ \E n \in 1..Len(drafts) \ {note.live} :
       /\ note' = [note EXCEPT !.live = n, !.chosen = TRUE]
       /\ run' = IF Mapped /\ note.mapped # n THEN Stale(run, {"mind_map"}) ELSE run
  /\ UNCHANGED <<setting, status, audio, textVars, drafts, built, waiting, sideVars, work>>

\* reprocess, generate_recording_notes and rebuild_recording_mind_map look at the
\* recording first (reprocess fetches the audio again), claim it, and then mark it.
PerRecording == {"reprocess", "force", "notes", "map"}

NeedsAudio(kind) == kind \in {"reprocess", "force"}

\* _mind_map_rebuild_eligibility_error
NotesUsable == raw.id # 0 /\ ~Has("summarize", "stale") /\ note.live # 0
MapOutdated == Mapped /\ Has("mind_map", "stale")

Ask(kind) == asked' = asked \cup {[kind |-> kind, status |-> status]}

AskRecording ==
  /\ CountRequest
  /\ \E kind \in PerRecording :
       /\ Requested(kind) /\ Ask(kind)
       /\ kind = "notes" => raw.id # 0
       /\ kind = "map" => ~Claimed /\ NotesUsable /\ MapOutdated
       /\ audio' = (audio \/ NeedsAudio(kind))
  /\ UNCHANGED <<setting, status, textVars, artVars, run, waiting, evicting, work>>

\* A busy recording refuses; the status seen before the claim is kept for a retreat.
ClaimRequest ==
  /\ \E a \in asked :
       /\ a.kind \in PerRecording /\ asked' = asked \ {a}
       /\ IF Claimed \/ (NeedsAudio(a.kind) /\ ~audio) THEN UNCHANGED <<status, work>>
          ELSE /\ status' = "processing"
               /\ work' = [Working(CASE a.kind = "notes" -> "derived" [] a.kind = "map" -> "mind_map"
                                     [] OTHER -> "full", a.kind = "force", "requested")
                           EXCEPT !.before = a.status]
  /\ UNCHANGED <<setting, audio, textVars, artVars, run, waiting, evicting, spent>>

Requesting(cycle) == work.at = "requested" /\ work.cycle = cycle

\* The worker thread starts, or the request retreats and leaves the marks.
ThreadStarts == work' = [work EXCEPT !.at = "start"] /\ status' = "processing"
ThreadFails(retreat) == ~ThreadsStart /\ work' = NoWork /\ status' = retreat

MarkReprocess ==
  /\ Requesting("full") /\ waiting' = waiting \ {"file"}
  /\ ThreadStarts \/ ThreadFails(work.before)
  /\ UNCHANGED <<setting, audio, textVars, artVars, run, sideVars, spent>>

\* A full regeneration supersedes a narrower pending rebuild.
MarkNotes ==
  /\ Requesting("derived") /\ waiting' = waiting \ {"file"}
  /\ run' = [Flagged(Stale(run, Derived), Derived, {"derived_only"})
             EXCEPT !["mind_map"].detail = @ \ {"only"}]
  /\ ThreadStarts \/ ThreadFails(work.before)
  /\ UNCHANGED <<setting, audio, textVars, artVars, sideVars, spent>>

\* abandon_mind_map_rebuild leaves a rebuild the daemon resumes.
MarkMap ==
  /\ Requesting("mind_map") /\ NotesUsable /\ MapOutdated /\ waiting' = waiting \ {"map"}
  /\ run' = [run EXCEPT !["mind_map"] =
               [status |-> "pending", detail |-> (@.detail \cup {"stale", "only"}) \ {"derived_only"}]]
  /\ ThreadStarts \/ ThreadFails("partial")
  /\ UNCHANGED <<setting, audio, textVars, artVars, sideVars, spent>>

\* The second look refuses: a current map is taken for a finished recording.
RejectMap ==
  /\ Requesting("mind_map") /\ ~(NotesUsable /\ MapOutdated)
  /\ status' = IF NotesUsable THEN "done" ELSE "partial"
  /\ work' = NoWork
  /\ UNCHANGED <<setting, audio, textVars, artVars, run, waiting, sideVars, spent>>

\* claim_outline_rebuild: the roll-up status is left untouched.
RebuildOutline ==
  /\ Requested("outline") /\ ~Claimed /\ raw.id # 0 /\ CountRequest
  /\ run' = [run EXCEPT !["outline"] = [status |-> "pending", detail |-> {"only", "stale"}]]
  /\ waiting' = waiting \ {"outline"}
  /\ work' = Working("outline", FALSE, "start") \/ ThreadFails(status)
  /\ UNCHANGED <<setting, status, audio, textVars, artVars, sideVars>>

\* queue_library_reprocess and bulk_files read the rows of the library ...
AskLibrary ==
  /\ audio /\ ~Claimed /\ CountRequest
  /\ \E kind \in {"resume_all", "force_all", "derived_all"} :
       Requested(kind) /\ (kind = "derived_all" => raw.id # 0) /\ Ask(kind)
  /\ UNCHANGED <<setting, status, audio, textVars, artVars, run, waiting, evicting, work>>

\* ... and write what they changed, whoever holds the claim by then.
Queue(a, target) ==
  /\ a \in asked /\ asked' = asked \ {a}
  /\ status' = IF a.status = target THEN status ELSE target
  /\ waiting' = waiting \ {"file"}

QueueResume ==
  /\ \E a \in asked : a.kind = "resume_all" /\ Queue(a, IF raw.id # 0 THEN "partial" ELSE "downloaded")
  /\ UNCHANGED <<setting, audio, textVars, artVars, run, evicting, work, spent>>

QueueForce ==
  /\ \E a \in asked : a.kind = "force_all" /\ Queue(a, "downloaded")
  /\ run' = [s \in Stages |-> IF run[s].status = "none" THEN run[s]
                              ELSE [run[s] EXCEPT !.status = "pending"]]
  /\ UNCHANGED <<setting, audio, textVars, artVars, evicting, work, spent>>

QueueDerived ==
  /\ \E a \in asked : a.kind = "derived_all" /\ Queue(a, "partial")
  /\ run' = Flagged(Stale(run, Derived), Derived, {"derived_only"})
  /\ work' = [work EXCEPT !.moved = @ \/ (work.stage \in Derived
                                          /\ work.at \in {"running", "persisted"})]
  /\ UNCHANGED <<setting, audio, textVars, artVars, evicting, spent>>

-----------------------------------------------------------------------------
Enter == EnterFull \/ EnterDerived \/ EnterMap \/ RefuseMap \/ EnterOutline \/ RefuseOutline
         \/ EnterReindex

Stage(s) == \/ SkipStage(s) \/ ReuseStage(s) \/ BeginStage(s)
            \/ FinishStage(s) \/ TryNext(s) \/ FailStage(s) \/ FailCycle(s)

Persist == \/ PersistTranscript \/ PersistAligned \/ PersistDiarized \/ PersistPolished
           \/ PersistNote \/ PersistMap \/ PersistOutline \/ PersistIndex

Special == \/ RetireSpeech \/ ApplyVocabulary \/ SkipVocabulary \/ SkipDerived \/ RejectNoise
           \/ HoldMap \/ PublishReindex \/ FailReindex

End == FinishCycle \/ FinishMap \/ FinishOutline \/ Release

\* Everything the holder of the claim does.
Work == \/ Enter \/ (\E s \in Stages : Stage(s)) \/ Persist \/ Special \/ End
        \/ MarkReprocess \/ MarkNotes \/ MarkMap \/ RejectMap

DaemonStep == Dispatch \/ DispatchReindex \/ Evict \/ Crash \/ Recover \/ RetryDue

Users == \/ EditTranscript \/ RenameSpeaker \/ RestoreNote \/ RebuildOutline
         \/ AskRecording \/ ClaimRequest \/ AskLibrary
         \/ QueueResume \/ QueueForce \/ QueueDerived

Next == Work \/ DaemonStep \/ Users

\* Workers run, deadlines pass, the daemon polls and recovers; users owe nothing.
Fairness ==
  /\ WF_vars(Work) /\ WF_vars(Recover) /\ WF_vars(Evict) /\ WF_vars(RetryDue)
  /\ WF_vars(Dispatch) /\ WF_vars(DispatchReindex)
  /\ WF_vars(ClaimRequest) /\ WF_vars(QueueResume) /\ WF_vars(QueueForce) /\ WF_vars(QueueDerived)

Spec == Init /\ [][Next]_vars
FairSpec == Spec /\ Fairness

-----------------------------------------------------------------------------
(***************************************************************************)
(* Properties.                                                             *)
(***************************************************************************)

Queued == status \in {"downloaded", "error", "partial"}

Settled == status = "done" /\ ~Claimed /\ asked = {}

\* A stage shown as completed and not out of date.
Current(s) == run[s].status = "completed" /\ ~Has(s, "stale")

\* On a finished recording everything shown as current was made from the text
\* shown: the chunks, the outline and the map from the canonical transcript, the
\* note too unless a user chose an older one, and the map from the live note.
\* (pipeline.py, the stale and stale_generation protocol of all persist steps)
DoneIsCurrent ==
  Settled =>
    /\ \A s \in {"mind_map", "outline", "index"} :
         Current(s) /\ built[s] # NoLineage => built[s].text = canon.text
    /\ Current("summarize") /\ note.live # 0 /\ ~note.chosen
         => drafts[note.live].text = canon.text
    /\ Current("mind_map") /\ Mapped => note.mapped = note.live

\* A queued recording whose deadlines have passed can be scheduled, whatever was
\* deleted, crashed or evicted before.  (pipeline.py _pending_scope, poll.py
\* reset_inflight)
QueuedIsRunnable == Queued /\ ~Claimed /\ waiting = {} => PendingScope # "none"

\* A regeneration that was promised is still under way or scheduled.
\* (pipeline.py queue_library_reprocess, _finish_processing_cycle)
RequestIsNotLost ==
  DerivedOnly /\ ~Claimed /\ asked = {} => Queued

\* No cycle replaces what a person wrote; only another edit does.
\* (pipeline.py _run_correction_stage, vocabulary.py apply_vocabulary)
HumanEditSurvives ==
  [][canon.kind = "user" /\ canon'.text # canon.text
       => canon'.kind = "user" /\ work' = work /\ ~Claimed]_vars

\* A cycle ends in done only when no stage is left failed, waiting or under way, and
\* nothing but silence is out of date.  A derived cycle answers for the stages it runs:
\* a speech stage that a crash left failed behind its stored result stays so.
\* (pipeline.py _finish_processing_cycle, _finish_mind_map_cycle, _finish_outline_cycle)
\* A library-wide request marks what a cycle may have taken since it looked; without one:
RollUpIsHonest ==
  [][/\ Requests \subseteq PerRecording \cup {"outline", "edit", "rename", "restore"}
     /\ work.at = "closing" /\ status # "done" /\ status' = "done"
     => \A s \in IF work.cycle = "derived" THEN Derived \cup {"correct"} ELSE Stages :
          /\ run'[s].status \notin {"failed", "pending", "running"}
          /\ "stale" \in run'[s].detail => run'[s].status = "skipped"]_vars

\* Resuming does not repeat finished work: without force, a completed artifact
\* that is not out of date is never computed (and paid for) again by a cycle.
\* (pipeline.py _has_summary, _has_current_outline, _has_chunks, reusable tests)
ResumeDoesNotRepeat ==
  [][\A s \in Stages : Current(s) /\ run'[s].status = "running"
       => work.force \/ work.cycle \in {"mind_map", "outline", "index"}]_vars

\* An artifact is out of date until it is made again: the mark is not dropped
\* while the stage claims to be complete.  (pipeline.py _finish_stage with
\* expected_stale_generation)
MarkOutlivesAttempt ==
  [][\A s \in {"mind_map", "outline", "index"} :
       Has(s, "stale") /\ run'[s].status = "completed" /\ "stale" \notin run'[s].detail
         => built'[s].text = canon'.text]_vars

\* Once requests and failures stop, every recording ends up done.
EverythingSettles == <>[](status = "done" /\ ~Claimed)

\* A failed stage of a queued recording is tried again: a failing outline fails
\* only itself.  (pipeline.py _pending_scope, docs/chapter-outline.md)
FailureIsRetried ==
  Queued /\ (\E s \in Stages \ {"outline"} : run[s].status = "failed")
    ~> status = "done" \/ (Claimed /\ work.cycle # "outline")

\* A map is made from a note about the text the map is about, or from an older one
\* a user chose.  (pipeline.py _persist_summary expected_mind_map_inputs)
MapReadsCurrentNote ==
  [][note'.mapped # 0 /\ <<note'.mapped, built'["mind_map"]>> # <<note.mapped, built["mind_map"]>>
       => note'.chosen \/ drafts'[note'.mapped].text = built'["mind_map"].text]_vars

\* The index of an edited transcript catches up.
\* (reindex.py process_pending_reindexes, docs/product-workflow.md)
ReindexCatchesUp == Has("index", "stale") ~> ~Has("index", "stale")

=============================================================================
