--------------------------- MODULE EvidenceNotes ---------------------------
(***************************************************************************)
(* Notes of quality "evidence":                                            *)
(* src/src/localplaud/worker/evidence_notes.py, called by summarize.py.    *)
(*                                                                         *)
(* Chunks of the transcript are extracted and audited, the facts of all    *)
(* are planned, and batches of facts are drafted and verified.  A chunk    *)
(* and a batch take the same course: a reply is asked for, checked for its *)
(* structure, reviewed by a second call, and repaired as often as allowed. *)
(* Chunks run side by side, and so do batches.                             *)
(*                                                                         *)
(* A stage may fail or die at any point and is tried again.  What it has   *)
(* paid for stays in files whose names are digests of the whole request:   *)
(* a reply, a verdict, and for each item the version last reviewed.        *)
(*                                                                         *)
(* A version is the number of a reply within its item; what it says is     *)
(* left out.  Several plans and the title over them are one request.       *)
(***************************************************************************)
EXTENDS Naturals, FiniteSets

CONSTANTS
    Chunks,         \* chunks of the transcript
    Batches,        \* batches of planned facts
    Repairs,        \* pipeline.note_repair_attempts
    Parallelism,    \* pipeline.note_parallelism
    MaxReplies,     \* bound: versions of an item
    StageTries      \* bound: how often the stage is begun

ASSUME EvidenceConstants ==
    /\ Chunks \in Nat \ {0} /\ Batches \in Nat \ {0} /\ Repairs \in Nat
    /\ Parallelism \in Nat \ {0} /\ MaxReplies \in Nat /\ StageTries \in Nat

Item == ({"chunk"} \X (1 .. Chunks)) \cup ({"batch"} \X (1 .. Batches))
OfKind(kind) == {i \in Item : i[1] = kind}

VARIABLES
    phase,          \* how far the stage is
    work,           \* the items, in the memory of the stage
    replies,        \* reply files: the version that answers a request
    verdicts,       \* files of the reviews: versions, and whether they passed
    reviewed,       \* the file repair-<digest> of an item
    basis,          \* the versions of the chunks that the files of batches are for
    planned,        \* the reply file of the plan on that basis
    versions,       \* versions of an item so far
    note,           \* the published note
    stageTries      \* begun stages so far

files == <<replies, verdicts, reviewed, basis, planned, versions>>
evidenceVars == <<phase, work, files, note, stageTries>>

(* The request for an item: the version to repair, and how many replies    *)
(* since then were no JSON, or not of the structure asked for.             *)
Requests == (0 .. MaxReplies) \X (0 .. Repairs + 1)
Verdict == {"clean", "flawed"}
Unreviewed == [version |-> 0, verdict |-> "none"]
Steps == {"waiting", "ask", "asked", "review", "reviewing", "save", "unlink", "done", "raised", "spent"}
Waiting == [step |-> "waiting", try |-> 0, previous |-> 0, errors |-> 0,
            found |-> 0, verdict |-> "none", unresolved |-> FALSE]

EvidenceTypeOK ==
    /\ phase \in {"idle", "extract", "plan", "draft", "failed", "published"}
    /\ work \in [Item -> [step : Steps, try : 0 .. Repairs, previous : 0 .. MaxReplies,
                          errors : 0 .. Repairs + 1, found : 0 .. MaxReplies,
                          verdict : Verdict \cup {"none"}, unresolved : BOOLEAN]]
    /\ \A i \in Item : replies[i] \subseteq Requests \X (1 .. MaxReplies)
    /\ \A i \in Item : verdicts[i] \subseteq (1 .. MaxReplies) \X Verdict
    /\ reviewed \in [Item -> [version : 0 .. MaxReplies, verdict : Verdict \cup {"none"}]]
    /\ basis \in [1 .. Chunks -> 0 .. MaxReplies]
    /\ planned \in BOOLEAN
    /\ versions \in [Item -> 0 .. MaxReplies]
    /\ note \in [Item -> [version : 0 .. MaxReplies, caveat : BOOLEAN]]
    /\ stageTries \in 0 .. StageTries

EvidenceInit ==
    /\ phase = "idle"
    /\ work = [i \in Item |-> Waiting]
    /\ replies = [i \in Item |-> {}]
    /\ verdicts = [i \in Item |-> {}]
    /\ reviewed = [i \in Item |-> Unreviewed]
    /\ basis = [n \in 1 .. Chunks |-> 0]
    /\ planned = FALSE
    /\ versions = [i \in Item |-> 0]
    /\ note = [i \in Item |-> [version |-> 0, caveat |-> FALSE]]
    /\ stageTries = 0

----------------------------------------------------------------------------
(* One item.                                                               *)

Active == CASE phase = "extract" -> OfKind("chunk")
            [] phase = "draft" -> OfKind("batch")
            [] OTHER -> {}

Set(i, w) == work' = [work EXCEPT ![i] = w]
Move(i, step) == Set(i, [work[i] EXCEPT !.step = step])
InMemory == UNCHANGED <<phase, files, note, stageTries>>

Running == {i \in Active : work[i].step \notin {"waiting", "done", "raised", "spent"}}
Before(i) == {j \in Item : j[1] = i[1] /\ j[2] < i[2]}

(* run_ordered looks at the results in order, and cancels what has not     *)
(* begun when it meets a failure.                                          *)
FailureIsMet ==
    \E i \in Active : work[i].step \in {"raised", "spent"} /\ \A j \in Before(i) : work[j].step = "done"

(* Mutant: whatever was reviewed last is taken.                            *)
AcceptedOnce(file) == file.version # 0

(* load_repair, and the review in it.                                      *)
Accepted(file) == file.verdict = "clean"

Starts(i) ==
    /\ i \in Active /\ work[i].step = "waiting"
    /\ \A j \in Before(i) : work[j].step # "waiting"
    /\ Cardinality(Running) < Parallelism /\ ~FailureIsMet
    /\ Set(i, IF Accepted(reviewed[i])
                THEN [Waiting EXCEPT !.step = "done", !.found = reviewed[i].version]
                ELSE [Waiting EXCEPT !.step = "ask", !.previous = reviewed[i].version])
    /\ InMemory

Request(i) == <<work[i].previous, work[i].errors>>
Answers(i) == {v \in 1 .. MaxReplies : <<Request(i), v>> \in replies[i]}

(* _Calls.call: a reply on file, or a request.                             *)
Asks(i) ==
    /\ i \in Active /\ work[i].step = "ask"
    /\ \/ Answers(i) = {} /\ Move(i, "asked")
       \/ \E v \in Answers(i) : Set(i, [work[i] EXCEPT !.step = "review", !.found = v])
    /\ InMemory

ReplyIsValid(i) ==
    /\ i \in Active /\ work[i].step = "asked" /\ versions[i] < MaxReplies
    /\ LET v == versions[i] + 1 IN
         /\ versions' = [versions EXCEPT ![i] = v]
         /\ replies' = [replies EXCEPT ![i] = @ \cup {<<Request(i), v>>}]
         /\ Set(i, [work[i] EXCEPT !.step = "review", !.found = v])
    /\ UNCHANGED <<phase, verdicts, reviewed, basis, planned, note, stageTries>>

(* LLMOutputInvalid: the error joins the issues of the next request.  A    *)
(* quotation that is not in the source leaves the extraction in memory, to *)
(* be patched.                                                             *)
ReplyIsInvalid(i, patchable) ==
    /\ i \in Active /\ work[i].step = "asked"
    /\ patchable => i[1] = "chunk" /\ versions[i] < MaxReplies
    /\ versions' = IF patchable THEN [versions EXCEPT ![i] = @ + 1] ELSE versions
    /\ Set(i, [work[i] EXCEPT
                 !.step = IF work[i].try = Repairs THEN "spent" ELSE "ask",
                 !.try = IF work[i].try = Repairs THEN @ ELSE @ + 1,
                 !.previous = IF patchable THEN versions[i] + 1 ELSE @,
                 !.errors = IF patchable THEN 0 ELSE @ + 1])
    /\ UNCHANGED <<phase, replies, verdicts, reviewed, basis, planned, note, stageTries>>

(* The provider refuses or is away, or a review is not of its structure.   *)
CallRaises(i) ==
    /\ i \in Active /\ work[i].step \in {"asked", "reviewing"}
    /\ Move(i, "raised")
    /\ InMemory

Reviews(i) ==
    /\ i \in Active /\ work[i].step = "review"
    /\ \/ (\A verdict \in Verdict : <<work[i].found, verdict>> \notin verdicts[i]) /\ Move(i, "reviewing")
       \/ \E verdict \in Verdict :
            /\ <<work[i].found, verdict>> \in verdicts[i]
            /\ Set(i, [work[i] EXCEPT !.step = "save", !.verdict = verdict])
    /\ InMemory

Verdicts(i, verdict) ==
    /\ i \in Active /\ work[i].step = "reviewing"
    /\ verdicts' = [verdicts EXCEPT ![i] = @ \cup {<<work[i].found, verdict>>}]
    /\ Set(i, [work[i] EXCEPT !.step = "save", !.verdict = verdict])
    /\ UNCHANGED <<phase, replies, reviewed, basis, planned, versions, note, stageTries>>

(* review_checkpoint: the feedback is kept, then a rejected reply goes.    *)
Saves(i) ==
    /\ i \in Active /\ work[i].step = "save"
    /\ reviewed' = [reviewed EXCEPT ![i] = [version |-> work[i].found, verdict |-> work[i].verdict]]
    /\ Set(i, [work[i] EXCEPT !.step = IF work[i].verdict = "clean" THEN "done" ELSE "unlink",
                              !.previous = work[i].found, !.errors = 0])
    /\ UNCHANGED <<phase, replies, verdicts, basis, planned, versions, note, stageTries>>

Unlinks(i) ==
    /\ i \in Active /\ work[i].step = "unlink"
    /\ replies' = [replies EXCEPT ![i] = {r \in @ : r[2] # work[i].found}]
    /\ Set(i, IF work[i].try = Repairs
                THEN [work[i] EXCEPT !.step = "done", !.unresolved = TRUE]
                ELSE [work[i] EXCEPT !.step = "ask", !.try = @ + 1])
    /\ UNCHANGED <<phase, verdicts, reviewed, basis, planned, versions, note, stageTries>>

----------------------------------------------------------------------------
(* The stage.                                                              *)

Finished(kind) == \A i \in OfKind(kind) : work[i].step = "done"
NewBasis == [n \in 1 .. Chunks |-> work[<<"chunk", n>>].found]

StageBegins ==
    /\ phase \in {"idle", "failed"} /\ stageTries < StageTries
    /\ stageTries' = stageTries + 1
    /\ phase' = "extract" /\ work' = [i \in Item |-> Waiting]
    /\ UNCHANGED <<files, note>>

(* The requests of plan and batches name the facts: under other facts the  *)
(* files of an earlier attempt are not met.                                *)
Merges ==
    /\ phase = "extract" /\ Finished("chunk")
    /\ phase' = "plan"
    /\ basis' = NewBasis
    /\ IF NewBasis = basis
         THEN UNCHANGED <<replies, verdicts, reviewed, planned, versions>>
         ELSE LET kept(f, none) == [i \in Item |-> IF i[1] = "chunk" THEN f[i] ELSE none] IN
              /\ replies' = kept(replies, {}) /\ verdicts' = kept(verdicts, {})
              /\ reviewed' = kept(reviewed, Unreviewed)
              /\ versions' = kept(versions, 0)
              /\ planned' = FALSE
    /\ UNCHANGED <<work, note, stageTries>>

Plans ==
    /\ phase = "plan"
    /\ phase' = "draft" /\ planned' = TRUE
    /\ UNCHANGED <<work, replies, verdicts, reviewed, basis, versions, note, stageTries>>

(* A fact is left out or named twice, or the title is that of a template.  *)
PlanRaises ==
    /\ phase = "plan" /\ ~planned
    /\ phase' = "failed"
    /\ UNCHANGED <<work, files, note, stageTries>>

StageFails ==
    /\ FailureIsMet /\ Running = {}
    /\ phase' = "failed"
    /\ UNCHANGED <<work, files, note, stageTries>>

(* render_unresolved_review.                                               *)
Caveat(i) == work[i].unresolved

Publishes ==
    /\ phase = "draft" /\ Finished("batch")
    /\ phase' = "published"
    /\ note' = [i \in Item |-> [version |-> work[i].found, caveat |-> Caveat(i)]]
    /\ UNCHANGED <<work, files, stageTries>>

StageDies ==
    /\ phase \in {"extract", "plan", "draft"}
    /\ phase' = "idle" /\ work' = [i \in Item |-> Waiting]
    /\ UNCHANGED <<files, note, stageTries>>

ItemStep(i) ==
    \/ Starts(i) \/ Asks(i) \/ Reviews(i) \/ Saves(i) \/ Unlinks(i)
    \/ ReplyIsValid(i) \/ CallRaises(i)
    \/ \E patchable \in BOOLEAN : ReplyIsInvalid(i, patchable)
    \/ \E verdict \in Verdict : Verdicts(i, verdict)

StageStep == StageBegins \/ Merges \/ Plans \/ PlanRaises \/ StageFails \/ Publishes

EvidenceNext == StageDies \/ StageStep \/ \E i \in Item : ItemStep(i)

EvidenceSpec == EvidenceInit /\ [][EvidenceNext]_evidenceVars

----------------------------------------------------------------------------
(* Properties.                                                             *)

(* A published note stands on a reviewed version of every chunk and batch, *)
(* and what a reviewer held against a version it prints, though chunks     *)
(* finish in any order and the verdict may be one of an attempt that died. *)
ObjectionsArePrinted ==
    phase = "published" =>
        \A i \in Item :
            /\ note[i].version # 0
            /\ <<note[i].version, "clean">> \in verdicts[i] \/ note[i].caveat

(* What a reviewer has passed is not asked for again, and nothing is asked *)
(* for while its answer is on file: an attempt goes on where the last one  *)
(* ended.                                                                  *)
NothingIsPaidTwice ==
    \A i \in Active :
        /\ work[i].step \in {"asked", "reviewing"} => reviewed[i].verdict # "clean"
        /\ work[i].step = "asked" => Answers(i) = {}

(* The drafts of a note are drafts of its facts.                           *)
DraftsAreOfTheseFacts == phase \in {"draft", "published"} => basis = NewBasis

EvidenceSafety == ObjectionsArePrinted /\ NothingIsPaidTwice /\ DraftsAreOfTheseFacts

(* An item whose repairs are spent without a note has no version that      *)
(* could be published: the comments at 173 and 902 of evidence_notes.py    *)
(* publish the best one with the objections to it, instead of leaving the  *)
(* recording without notes.                                                *)
BestIsPublished ==
    \A i \in Item : work[i].step = "spent" => reviewed[i].version = 0
=============================================================================
