----------------------------- MODULE MCServices -----------------------------
(***************************************************************************)
(* The services around the recording cycle, and the algorithms of its      *)
(* stages, that share no state: each behaviour is one of one system, which *)
(* the initial state chooses, and the variables of the others stand at     *)
(* their initial values.                                                   *)
(***************************************************************************)
EXTENDS RemoteWorker, CatalogSync, Automations, SchemaMigration,
        EvidenceNotes, TranscriptPolish, Outline, NoteReduction,
        SpeakerIdentity, TranscriptRevisions, NoteNames, ProfileSettings,
        Backups, TLC

CONSTANTS weak, strong, System

VARIABLE system

HomeOf == [t \in Thread |-> Main]
PriorityOf == (weak :> 200) @@ (strong :> 10)

(* Two parts of a transcript to polish, the second of one segment.         *)
Ranges == << <<1, 4>>, <<5, 5>> >>

(* Four segments that start anywhere; the last may be longer.              *)
Timelines ==
    {[k \in 1 .. 4 |-> [start |-> s[k], end |-> s[k] + (IF k = 4 THEN x ELSE 1)]] :
        s \in [1 .. 4 -> 0 .. 4], x \in {1, 3}}
Parked == [k \in 1 .. 4 |-> [start |-> 0, end |-> 1]]
Namings == BoundedSeq(0 .. 4, 2) \cup {<<1, 2, 3>>}

(* Two speakers, one turn each.                                            *)
CONSTANTS k1, k2
Heard1 == <<k1, k2>>

CONSTANTS m1, m2, ours

writingVars == <<evidenceVars, polishVars, outlineVars, reductionVars>>
textVars == <<speakerVars, revisionVars, noteVars, profileVars, backupVars>>
serviceVars == <<workerVars, catalogVars, autoVars, startVars>>

(* Bound: the long recordings are old ones, and of the others an older     *)
(* deployment has queued what it knows.                                    *)
OldOrNew(r) ==
    IF r \in Overlong THEN r \in cloud /\ rec[r] = "none" ELSE rec[r] \in {"none", "discovered"}

(* Makes TLC give every variable its value before it takes the view.       *)
Valued == <<serviceVars, writingVars, textVars>> = <<serviceVars, writingVars, textVars>>

ServicesInit ==
    /\ system \in System
    /\ system # "catalog" => cloud = {}
    /\ system # "start" => tables = {}
    /\ system # "outline" => segments = Parked
    /\ system # "reduction" => writing = "note"
    /\ WorkerInit /\ CatalogInit /\ AutoInit /\ StartInit
    /\ EvidenceInit /\ PolishInit /\ OutlineInit /\ ReductionInit
    /\ who = Heard1 /\ SpeakerInit /\ RevisionInit /\ NoteInit
    /\ ProfileInit /\ settings.version[1].model = m1
    /\ system # "texts" => ~raw.grouped
    /\ system # "notes" => ~Live("map")
    /\ system = "catalog" => \A r \in Recording : OldOrNew(r)
    /\ BackupInit
    /\ Valued

(* Bounds of two instances: two requests, or one and a restart, for the    *)
(* gate; for a job any two of a second submission, a pause and a restart.  *)
FewRequests == requests' + birth'[Main] <= 3
FewEvents == requests' <= 1 /\ submits' + requests' + birth'[Main] <= 4

(* Bounds of the archives: files change, a drill runs or archives are sent *)
(* while the first archive is the only one; retention and deletions by     *)
(* hand meet two, whose files stay as they are.                            *)
OnlyFirst == \A a \in Archive \ {1} : keeping'[a].step = "none" /\ making'.of # a
Underway == outgoing' # [outgoing' EXCEPT !.life = 1, !.open = TRUE, !.row = [a \in Archive |-> "none"],
                                     !.by = [c \in Courier |-> Resting]]
FewDeeds ==
    /\ counts'.writes > 0 => counts'.sends = 0 /\ OnlyFirst
    /\ drill'.step # "none" => OnlyFirst /\ making'.step = "none" /\ moving'.kind = "none"
    /\ Underway => OnlyFirst /\ making'.step = "none" /\ drill'.step = "none"

ServicesNext ==
    \/ /\ system = "gate" /\ UNCHANGED <<system, jobVars, catalogVars, autoVars, startVars, writingVars, textVars>>
       /\ GateNext /\ FewRequests
    \/ /\ system = "worker" /\ UNCHANGED <<system, catalogVars, autoVars, startVars, writingVars, textVars>>
       /\ WorkerNext /\ FewEvents
    \/ /\ system = "catalog" /\ UNCHANGED <<system, workerVars, autoVars, startVars, writingVars, textVars>>
       /\ CatalogNext
    \/ /\ system = "automations" /\ UNCHANGED <<system, workerVars, catalogVars, startVars, writingVars, textVars>>
       /\ AutoNext
    \/ /\ system = "start" /\ UNCHANGED <<system, workerVars, catalogVars, autoVars, writingVars, textVars>>
       /\ StartNext
    \/ /\ system = "evidence" /\ UNCHANGED <<system, serviceVars, polishVars, outlineVars, reductionVars, textVars>>
       /\ EvidenceNext
    \/ /\ system = "polish" /\ UNCHANGED <<system, serviceVars, evidenceVars, outlineVars, reductionVars, textVars>>
       /\ PolishNext
    \/ /\ system = "outline" /\ UNCHANGED <<system, serviceVars, evidenceVars, polishVars, reductionVars, textVars>>
       /\ OutlineNext
    \/ /\ system = "reduction" /\ UNCHANGED <<system, serviceVars, evidenceVars, polishVars, outlineVars, textVars>>
       /\ ReductionNext
    \/ /\ system = "voices" /\ UNCHANGED <<system, serviceVars, writingVars, revisionVars, noteVars, profileVars,
                                           backupVars>>
       /\ SpeakerNext
    \/ /\ system = "texts" /\ UNCHANGED <<system, serviceVars, writingVars, speakerVars, noteVars, profileVars,
                                           backupVars>>
       /\ RevisionNext
    \/ /\ system = "notes" /\ UNCHANGED <<system, serviceVars, writingVars, speakerVars, revisionVars, profileVars,
                                           backupVars>>
       /\ NoteNext
    \/ /\ system = "profiles" /\ UNCHANGED <<system, serviceVars, writingVars, speakerVars, revisionVars, noteVars,
                                              backupVars>>
       /\ ProfileNext
    \/ /\ system = "backups" /\ UNCHANGED <<system, serviceVars, writingVars, speakerVars, revisionVars, noteVars,
                                             profileVars>>
       /\ BackupNext /\ FewDeeds

allVars == <<system, serviceVars, writingVars, textVars>>
ServicesSpec == ServicesInit /\ [][ServicesNext]_allVars

(* What tells two states apart: the variables of the system at hand.       *)
AtHand ==
    CASE system = "gate" -> <<system, gateVars>>
      [] system = "worker" -> <<system, workerVars>>
      [] system = "catalog" -> <<system, catalogVars>>
      [] system = "automations" -> <<system, autoVars>>
      [] system = "start" -> <<system, startVars>>
      [] system = "evidence" -> <<system, evidenceVars>>
      [] system = "polish" -> <<system, polishVars>>
      [] system = "outline" -> <<system, outlineVars>>
      [] system = "reduction" -> <<system, reductionVars>>
      [] system = "voices" -> <<system, speakerVars>>
      [] system = "texts" -> <<system, revisionVars>>
      [] system = "notes" -> <<system, noteVars>>
      [] system = "profiles" -> <<system, profileVars>>
      [] system = "backups" -> <<system, backupVars>>

----------------------------------------------------------------------------
(* Every variable of the system at hand has its type.                      *)
ServicesTypeOK ==
    CASE system = "gate" -> GateTypeOK
      [] system = "worker" -> GateTypeOK /\ WorkerTypeOK
      [] system = "catalog" -> CatalogTypeOK
      [] system = "automations" -> AutoTypeOK
      [] system = "start" -> StartTypeOK
      [] system = "evidence" -> EvidenceTypeOK
      [] system = "polish" -> PolishTypeOK
      [] system = "outline" -> OutlineTypeOK
      [] system = "reduction" -> ReductionTypeOK
      [] system = "voices" -> SpeakerTypeOK
      [] system = "texts" -> RevisionTypeOK
      [] system = "notes" -> NoteTypeOK
      [] system = "profiles" -> ProfileTypeOK
      [] system = "backups" -> BackupTypeOK

(* What the stages that write promise, the profiles they run on and the    *)
(* archives that keep what they leave: EvidenceSafety, PolishSafety,       *)
(* ProfileSafety and BackupSafety.                                         *)
WritingSafety ==
    /\ system = "evidence" => EvidenceSafety
    /\ system = "polish" => PolishSafety
    /\ system = "profiles" => ProfileSafety
    /\ system = "backups" => BackupSafety

(* Whatever the model answers, the outline covers the recording and the    *)
(* note or map tells of all of it: OutlineSafety and ReductionSafety.      *)
(* (worker/outline.py, worker/summarize.py, worker/mindmap.py)             *)
AlgorithmSafety ==
    /\ system = "outline" => OutlineSafety
    /\ system = "reduction" => ReductionSafety

(* Notes and maps are of what they say they are of (NoteSafety), and what  *)
(* no step may do to the names, the words and the notes people see:        *)
(* SpeakerStep, RevisionStep and NoteStep.                                 *)
TextStep ==
    /\ system = "voices" => SpeakerStep
    /\ system = "texts" => RevisionStep
    /\ system = "notes" => NoteStep
TextSafety == [](system = "notes" => NoteSafety) /\ [][TextStep]_allVars
=============================================================================
