------------------------- MODULE TranscriptRevisions -------------------------
(***************************************************************************)
(* The texts of one recording: the raw transcript ASR made, and the        *)
(* revisions people (api/app.py), vocabulary rules (vocabulary.py), the    *)
(* polishing stage (worker/pipeline.py) and the operator's repair tools    *)
(* (silence_repair.py, speaker_regroup.py) append to it.                   *)
(*                                                                         *)
(* A segment is the place in the audio it covers, the hand its words are   *)
(* of, and the place those words were heard at.  Who speaks is left to     *)
(* SpeakerIdentity.                                                        *)
(***************************************************************************)
EXTENDS Naturals, Sequences, FiniteSets, SequencesExt

CONSTANTS
    Width,         \* segments of a take
    MaxTakes,      \* bound: transcriptions
    MaxChanges     \* bound: transcriptions and revisions

ASSUME RevisionAssumption == Width \in Nat \ {0} /\ MaxTakes \in Nat \ {0} /\ MaxChanges \in Nat

VARIABLES
    raw,       \* the raw transcript: its take, segments, and turn grouping
    revisions,   \* revisions 1, 2, ...: base transcript, kind and segments
    takes,     \* transcriptions so far
    claimed,   \* processing holds the recording
    titled,    \* some speaker has a display name
    page,      \* what a person has open: a revision number and its segments
    plan       \* the operator's plan of a repair

revisionVars == <<raw, revisions, takes, claimed, titled, page, plan>>

Machine  == {"ai_polish", "ai_polish_after_speech"}
Acoustic == {"speech_cleanup", "speech_retranscribe", "vocabulary"}
(* A vocabulary revision a person asked for has the note vocabulary:manual. *)
Human    == {"user_edit", "restore", "speaker_edit", "vocabulary:manual"}

Place == [take : 1 .. MaxTakes, at : 1 .. Width, turn : {1, 2}]
TextSegment  == [place : Place, words : {"asr", "rule", "ai", "person", "blank"}, heard : Place]

AsHeard(n) == [k \in 1 .. Width |->
    LET p == [take |-> n, at |-> k, turn |-> 1] IN [place |-> p, words |-> "asr", heard |-> p]]

Nothing == [rev |-> 0, take |-> 0, segs |-> <<>>, removed |-> {}]

(* A diarized transcript whose first segment may hold two speakers' turns. *)
RevisionInit ==
    /\ raw \in [take : {1}, segs : {AsHeard(1)}, grouped : BOOLEAN]
    /\ revisions = <<>> /\ takes = 1
    /\ claimed = FALSE /\ titled = FALSE
    /\ page = Nothing /\ plan = Nothing

Rev == Len(revisions)

(* corrected_transcript_for_source: the latest revision, whatever its base. *)
Canon == IF revisions = <<>> THEN raw.segs ELSE Last(revisions).segs

(* The bound: what follows the last change is not looked at.               *)
MoreChanges == Rev + takes < MaxChanges

KindsSoFar == {revisions[n].kind : n \in DOMAIN revisions}

Appends(kind, segs) ==
    /\ MoreChanges
    /\ revisions' = Append(revisions, [base |-> raw.take, kind |-> kind, segs |-> segs])

Rewritten(segs, S, hand) == [k \in DOMAIN segs |-> IF k \in S THEN [segs[k] EXCEPT !.words = hand] ELSE segs[k]]

Spoken(segs) == {k \in DOMAIN segs : segs[k].words # "blank"}

----------------------------------------------------------------------------
(* Processing, under its claim.                                            *)

ProcessingStarts == ~claimed /\ MoreChanges /\ claimed' = TRUE /\ UNCHANGED <<raw, revisions, takes, titled, page, plan>>
ProcessingStops == claimed /\ claimed' = FALSE /\ UNCHANGED <<raw, revisions, takes, titled, page, plan>>

(* A new raw row; diarization stores its turns grouped.                    *)
TranscribesAgain ==
    /\ claimed /\ takes < MaxTakes /\ MoreChanges
    /\ takes' = takes + 1
    /\ \E heard \in {AsHeard(takes + 1), <<>>} : raw' = [take |-> takes + 1, segs |-> heard, grouped |-> TRUE]
    /\ UNCHANGED <<revisions, claimed, titled, page, plan>>

(* Mutant: what a person asked the rules for is taken for a machine's.     *)
HumanOwnedByKind == Rev # 0 /\ Last(revisions).kind \in Human \ {"vocabulary:manual"}

HumanOwned == Rev # 0 /\ Last(revisions).kind \in Human

(* Empty ASR output retires the canonical text unless it is a person's.    *)
RetiresSpeech ==
    /\ claimed /\ raw.segs = <<>>
    /\ Spoken(Canon) # {} /\ ~HumanOwned
    /\ Appends("speech_cleanup", <<>>)
    /\ UNCHANGED <<raw, takes, claimed, titled, page, plan>>

(* apply_vocabulary(automatic) does not touch what was corrected before.   *)
AppliesRules ==
    /\ claimed /\ Rev = 0
    /\ \E k \in DOMAIN Canon : Appends("vocabulary", Rewritten(Canon, {k}, "rule"))
    /\ UNCHANGED <<raw, takes, claimed, titled, page, plan>>

(* The latest acoustic or vocabulary revision of this raw transcript under *)
(* a machine's wording, or none (0).                                       *)
AcousticBase ==
    LET S == {n \in 1 .. Rev - 1 : revisions[n].base = raw.take
                                   /\ revisions[n].kind \in Acoustic \cup {"vocabulary:manual"}}
    IN  IF S = {} THEN 0 ELSE CHOOSE n \in S : \A m \in S : m <= n

(* What polishing starts from: the number of a revision, or 0 for raw ASR. *)
PolishInput ==
    IF Rev = 0 THEN 0
    ELSE IF Last(revisions).kind \in Machine THEN AcousticBase
    ELSE IF Last(revisions).base # raw.take THEN 0 ELSE Rev

OwnedInput == HumanOwned \/ (PolishInput # 0 /\ revisions[PolishInput].kind = "vocabulary:manual")

(* Polishing writes every segment it was given, emptied ones excepted.     *)
Polishes ==
    /\ claimed /\ ~OwnedInput
    /\ LET source == IF PolishInput = 0 THEN raw.segs ELSE revisions[PolishInput].segs
           acoustic == PolishInput # 0 /\ revisions[PolishInput].kind \in {"speech_cleanup", "speech_retranscribe"}
       IN  /\ Spoken(source) # {}
           /\ Appends(IF acoustic THEN "ai_polish_after_speech" ELSE "ai_polish", Rewritten(source, Spoken(source), "ai"))
    /\ UNCHANGED <<raw, takes, claimed, titled, page, plan>>

----------------------------------------------------------------------------
(* People, while no claim is live.  A request carries the revision number  *)
(* of the page it was made on; the last page of a person is opened before  *)
(* the operator plans.                                                     *)

Opens ==
    /\ MoreChanges /\ plan = Nothing
    /\ page' = [Nothing EXCEPT !.rev = Rev, !.segs = Canon]
    /\ page = Nothing
    /\ UNCHANGED <<raw, revisions, takes, claimed, titled, plan>>

Accepts == ~claimed /\ page # Nothing /\ page.rev = Rev

(* edit_transcript_segment by index: new words, or none at all.            *)
EditSegment(k) ==
    /\ Accepts /\ k \in DOMAIN Canon
    /\ \E hand \in {"person", "blank"} :
          hand # Canon[k].words /\ Appends("user_edit", Rewritten(Canon, {k}, hand))
    /\ page' = Nothing /\ UNCHANGED <<raw, takes, claimed, titled, plan>>

(* ... or merge_speakers: another speaker, the same words.                 *)
ReassignSpeaker ==
    /\ Accepts /\ Canon # <<>>
    /\ Appends("speaker_edit", Canon)
    /\ page' = Nothing /\ UNCHANGED <<raw, takes, claimed, titled, plan>>

ReplaceText ==
    /\ Accepts
    /\ \E S \in SUBSET Spoken(Canon) : S # {} /\ Appends("user_edit", Rewritten(Canon, S, "person"))
    /\ page' = Nothing /\ UNCHANGED <<raw, takes, claimed, titled, plan>>

(* The clone keeps the base of its original, and is a person's.            *)
RestoreRevision(n) ==
    /\ Accepts /\ Rev # 0 /\ MoreChanges
    /\ revisions' = Append(revisions, [revisions[n] EXCEPT !.kind = "user_edit"])
    /\ page' = Nothing /\ UNCHANGED <<raw, takes, claimed, titled, plan>>

(* apply_vocabulary_to_library: rules a person runs over what stands.      *)
ApplyVocabulary ==
    /\ ~claimed
    /\ \E k \in Spoken(Canon) : Appends("vocabulary:manual", Rewritten(Canon, {k}, "rule"))
    /\ UNCHANGED <<raw, takes, claimed, titled, page, plan>>

(* repair_emptied_polish_revision: emptied text comes back from raw ASR by *)
(* the number of the segment.                                              *)
Emptied == {k \in DOMAIN Canon \cap DOMAIN raw.segs : Canon[k].words = "blank" /\ raw.segs[k].words # "blank"}

RepairEmptied ==
    /\ ~claimed /\ Rev # 0 /\ Emptied # {}
    /\ Appends("restore", [k \in DOMAIN Canon |->
          IF k \in Emptied THEN [Canon[k] EXCEPT !.words = raw.segs[k].words, !.heard = raw.segs[k].heard]
                           ELSE Canon[k]])
    /\ UNCHANGED <<raw, takes, claimed, titled, page, plan>>

NameSpeaker == ~claimed /\ MoreChanges /\ ~titled /\ titled' = TRUE /\ UNCHANGED <<raw, revisions, takes, claimed, page, plan>>

----------------------------------------------------------------------------
(* The operator's tools.  A plan is made of a snapshot and applied later.  *)

(* plan_repair: the segments where the detector heard no speech.           *)
PlansRepair ==
    /\ MoreChanges /\ Canon # <<>>
    /\ \E S \in SUBSET DOMAIN Canon :
          S # {} /\ plan' = [rev |-> Rev, take |-> raw.take, segs |-> Canon, removed |-> S]
    /\ UNCHANGED <<raw, revisions, takes, claimed, titled, page>>

(* _guard_plan_application: nothing a person wrote, and the snapshot as it *)
(* was.                                                                    *)
PlanStands ==
    /\ ~claimed /\ plan # Nothing
    /\ KindsSoFar \cap Human = {}
    /\ plan.rev = Rev /\ plan.take = raw.take /\ plan.segs = Canon

(* apply_repair: at lists the segments that stay.                          *)
CleansSpeech ==
    /\ PlanStands
    /\ LET kept == DOMAIN Canon \ plan.removed
       IN  \E at \in [1 .. Cardinality(kept) -> kept] :
             /\ \A k \in kept : \E n \in DOMAIN at : at[n] = k
             /\ \A m, n \in DOMAIN at : m < n => at[m] < at[n]
             /\ Appends("speech_cleanup", [n \in DOMAIN at |-> Canon[at[n]]])
    /\ plan' = Nothing /\ UNCHANGED <<raw, takes, claimed, titled, page>>

(* apply_retranscription: a reviewed replacement, unless a speaker has a   *)
(* name that could go to another voice.                                    *)
Retranscribes ==
    /\ PlanStands /\ ~titled /\ takes < MaxTakes
    /\ takes' = takes + 1
    /\ Appends("speech_retranscribe", AsHeard(takes + 1))
    /\ plan' = Nothing /\ UNCHANGED <<raw, claimed, titled, page>>

(* group_speaker_segments: the first segment of a take holds two turns;   *)
(* wherever it stands, it leads the text (TextFits in TextProofs).        *)
Mixed(s) == s.place.at = 1 /\ s.place.turn = 1
Turns(segs) ==
    IF segs # <<>> /\ Mixed(segs[1])
    THEN <<segs[1], [segs[1] EXCEPT !.place.turn = 2, !.heard.turn = 2]>> \o Tail(segs)
    ELSE segs

(* What is regrouped with the raw transcript: the canonical revision, and  *)
(* under a machine's wording the base it would start from again.           *)
Chain ==
    IF Rev = 0 THEN <<>>
    ELSE IF Last(revisions).kind \in Machine /\ AcousticBase # 0 THEN <<AcousticBase, Rev>> ELSE <<Rev>>

(* apply_regroup *)
Regroups ==
    /\ ~claimed /\ ~raw.grouped /\ Turns(raw.segs) # raw.segs
    /\ KindsSoFar \cap Human = {}
    /\ Rev # 0 => Last(revisions).base = raw.take
    /\ Rev + takes + Len(Chain) <= MaxChanges
    /\ raw' = [raw EXCEPT !.segs = Turns(@), !.grouped = TRUE]
    /\ revisions' = revisions \o [k \in DOMAIN Chain |-> [revisions[Chain[k]] EXCEPT !.segs = Turns(@)]]
    /\ UNCHANGED <<takes, claimed, titled, page, plan>>

----------------------------------------------------------------------------
Processing == ProcessingStarts \/ ProcessingStops \/ TranscribesAgain \/ RetiresSpeech \/ AppliesRules \/ Polishes

Persons ==
    \/ Opens \/ (\E k \in 1 .. 2 * Width : EditSegment(k)) \/ ReassignSpeaker \/ ReplaceText
    \/ (\E n \in DOMAIN revisions : RestoreRevision(n)) \/ ApplyVocabulary \/ RepairEmptied \/ NameSpeaker

Tools == PlansRepair \/ CleansSpeech \/ Retranscribes \/ Regroups

RevisionNext == Processing \/ Persons \/ Tools

RevisionSpec == RevisionInit /\ [][RevisionNext]_revisionVars

----------------------------------------------------------------------------
Revision == [base : 1 .. MaxTakes, kind : Machine \cup Acoustic \cup Human, segs : Seq(TextSegment)]
SeenText == [rev : 0 .. MaxChanges, take : 0 .. MaxTakes, segs : Seq(TextSegment), removed : SUBSET (1 .. 2 * Width)]

RevisionTypeOK ==
    /\ raw \in [take : 1 .. MaxTakes, segs : Seq(TextSegment), grouped : BOOLEAN]
    /\ revisions \in Seq(Revision)
    /\ Rev <= MaxChanges /\ takes \in 1 .. MaxTakes /\ claimed \in BOOLEAN /\ titled \in BOOLEAN
    /\ page \in SeenText /\ plan \in SeenText

Places(segs) == {segs[k].place : k \in DOMAIN segs}

(* Once a person revised a transcript, no stage and no tool changes what   *)
(* is shown, through rules, new transcriptions, silence and plans made     *)
(* before. (pipeline.py _run_correction_stage, silence_repair.py           *)
(* _guard_plan_application, speaker_regroup.py "Human-edited transcripts   *)
(* are left alone")                                                        *)
PersonsWordStands == KindsSoFar \cap Human # {} /\ Canon' # Canon => Persons

(* An edit by number lands on the segment the page showed, once there is a *)
(* revision.                                                               *)
EditHitsWhatWasShown ==
    Rev # 0 => \A k \in DOMAIN Canon : EditSegment(k) => k \in DOMAIN page.segs /\ page.segs[k] = Canon[k]

(* Cleanup removes what the plan heard as silence and nothing else.        *)
CleanupIsPlanned ==
    CleansSpeech => Places(Canon) \ Places(Canon') \subseteq {plan.segs[k].place : k \in plan.removed}

(* Polishing a text again does not revive speech a cleanup removed from    *)
(* it. (pipeline.py _persist_polished_revision: "fall back to raw ASR,     *)
(* reviving the removed hallucinated speech")                              *)
RemovedSpeechStaysRemoved ==
    Polishes /\ Rev # 0 /\ Last(revisions).base = raw.take => Places(Canon') = Places(Canon)

RevisionStep == PersonsWordStands /\ EditHitsWhatWasShown /\ CleanupIsPlanned /\ RemovedSpeechStaysRemoved

(* What the code promises of every edit ("transcript changed; reload       *)
(* before saving"): a page of the raw transcript has number 0 through      *)
(* every new transcription and regrouping.                                 *)
EveryEditHitsWhatWasShown ==
    [][\A k \in DOMAIN Canon : EditSegment(k) => k \in DOMAIN page.segs /\ page.segs[k] = Canon[k]]_revisionVars

(* Repaired text stands where it was heard: not so, numbers of the raw     *)
(* transcript are not those of a text a cleanup shortened.                 *)
WordsAreInPlace == \A k \in DOMAIN Canon : Canon[k].heard = Canon[k].place
=============================================================================
