--------------------------- MODULE SpeakerIdentity ---------------------------
(***************************************************************************)
(* The names of the speakers of one recording, which people give in the    *)
(* workspace (api/app.py) and the voice service gives from voiceprints     *)
(* (voice_identity.py, voice_service.py) in a pass of many transactions.   *)
(***************************************************************************)
EXTENDS Naturals, FiniteSets

CONSTANTS Key, Turn, Name, Unnamed,
          MaxVoiceEvents,    \* bound: diarizations of the recording and requests of people
          MaxPasses    \* bound: passes of the voice service

ASSUME SpeakerAssumption ==
    /\ Unnamed \notin Name
    /\ MaxVoiceEvents \in Nat \ {0} /\ MaxPasses \in Nat

VARIABLES
    take,     \* number of the diarization the raw transcript comes from
    who,      \* the speaker of each segment of the canonical transcript
    busy,     \* a processing claim is live
    name,     \* display_name of each speaker
    giver,    \* who gave it: "nobody", "person" or "voice" (of no code)
    verdict,  \* voice_assignments
    sample,   \* voice_samples: what is known of a voice at a timeline
    pass,     \* the pass of the voice service
    barred,   \* names of the service a person edited or cleared (of no code)
    sayings, passes

speakerVars == <<take, who, busy, name, giver, verdict, sample, pass, barred, sayings, passes>>

Names == Name \cup {Unnamed}
NoVerdict == [status |-> "none", candidate |-> Unnamed, applied |-> Unnamed]
NoPass == [step |-> "idle", active |-> {}, decided |-> {}]

SpeakerInit ==
    /\ take = 1 /\ who \in [Turn -> Key]
    /\ busy = FALSE
    /\ name = [k \in Key |-> Unnamed]
    /\ giver = [k \in Key |-> "nobody"]
    /\ verdict = [k \in Key |-> NoVerdict]
    /\ sample = {}
    /\ pass = NoPass
    /\ barred = {}
    /\ sayings = 0 /\ passes = 0

Heard == {who[s] : s \in Turn}

(* What inventory digests into the identity of a sample: the transcript    *)
(* and the windows of all its speakers.                                    *)
Voiceprint == <<take, who>>
SampleOf(k) == {s \in sample : s.key = k /\ s.print = Voiceprint}

(* The bound: what follows the last pass is not looked at.                 *)
Lively == take + sayings < MaxVoiceEvents /\ (passes < MaxPasses \/ pass.step # "idle")

----------------------------------------------------------------------------
(* Processing replaces the transcript under its claim; speakers keep their *)
(* keys where the timelines overlap (store/speakers.py).                   *)

ProcessingBegins ==
    /\ ~busy /\ Lively
    /\ busy' = TRUE
    /\ UNCHANGED <<take, who, name, giver, verdict, sample, pass, barred, sayings, passes>>

ProcessingEnds ==
    /\ busy
    /\ busy' = FALSE
    /\ take' = take + 1
    /\ who' \in [Turn -> Key]
    /\ UNCHANGED <<name, giver, verdict, sample, pass, barred, sayings, passes>>

----------------------------------------------------------------------------
(* People: each request is one transaction that holds the recording.       *)

Says ==
    /\ ~busy /\ Lively
    /\ sayings' = sayings + 1

(* A name saved as the suggestion it was offered for makes the assignment  *)
(* the person's (record_confirmations).                                    *)
Confirmed(k, n) ==
    IF verdict[k].status = "ambiguous" /\ verdict[k].candidate = n
    THEN [verdict[k] EXCEPT !.status = "user_confirmed"]
    ELSE verdict[k]

RenameSpeaker(k, n, suggested) ==
    /\ Says
    /\ name[k] # n
    /\ name' = [name EXCEPT ![k] = n]
    /\ giver' = [giver EXCEPT ![k] = IF n = Unnamed THEN "nobody" ELSE "person"]
    /\ verdict' = [verdict EXCEPT ![k] = IF suggested THEN Confirmed(k, n) ELSE @]
    /\ barred' = IF giver[k] = "voice" THEN barred \cup {<<k, name[k]>>} ELSE barred
    /\ UNCHANGED <<take, who, busy, sample, pass, passes>>

(* Every segment of one speaker goes to another: speakers are not deleted. *)
MergeSpeakers(from, to) ==
    /\ Says
    /\ from # to /\ from \in Heard
    /\ who' = [s \in Turn |-> IF who[s] = from THEN to ELSE who[s]]
    /\ UNCHANGED <<take, busy, name, giver, verdict, sample, pass, barred, passes>>

ReassignSegment(s, k) ==
    /\ Says
    /\ who[s] # k
    /\ who' = [who EXCEPT ![s] = k]
    /\ UNCHANGED <<take, busy, name, giver, verdict, sample, pass, barred, passes>>

(* The operator takes an automatic name back (undo_assignment).            *)
UndoAssignment(k) ==
    /\ Says
    /\ verdict[k].status = "applied" /\ name[k] = verdict[k].applied
    /\ name' = [name EXCEPT ![k] = Unnamed]
    /\ giver' = [giver EXCEPT ![k] = "nobody"]
    /\ verdict' = [verdict EXCEPT ![k].status = "overridden"]
    /\ barred' = barred \cup {<<k, name[k]>>}
    /\ UNCHANGED <<take, who, busy, sample, pass, passes>>

----------------------------------------------------------------------------
(* A pass: inventory, extraction, one decision per voice, and one          *)
(* transaction per name.                                                   *)

(* An applied name that no longer stands was changed by a person.          *)
Overridden(k) ==
    IF verdict[k].applied # Unnamed /\ name[k] # verdict[k].applied
    THEN [verdict[k] EXCEPT !.status = "overridden"]
    ELSE verdict[k]

(* Mutant: any standing name enrols its voice.                             *)
ReferenceOfAnyName(k, v) == name[k]

(* Names the service gave by itself are no references.                     *)
Reference(k, v) ==
    IF v.status = "applied" /\ name[k] = v.applied THEN Unnamed ELSE name[k]

Inventory(v) ==
    LET known(k) == IF SampleOf(k) = {} THEN "pending" ELSE (CHOOSE s \in SampleOf(k) : TRUE).status
        current == {[key |-> k, print |-> Voiceprint, status |-> known(k), name |-> Reference(k, v[k])] : k \in Heard}
    IN  {s \in sample : s.print # Voiceprint} \cup current

PassBegins ==
    /\ pass.step = "idle" /\ passes < MaxPasses
    /\ ~busy
    /\ passes' = passes + 1
    /\ verdict' = [k \in Key |-> Overridden(k)]
    /\ sample' = Inventory(verdict')
    /\ pass' = [NoPass EXCEPT !.step = "extract", !.active = {<<k, Voiceprint>> : k \in Heard}]
    /\ UNCHANGED <<take, who, busy, name, giver, barred, sayings>>

InPass(s) == <<s.key, s.print>> \in pass.active

(* A failed extraction is tried again after an hour.                       *)
SkipsExtraction ==
    /\ pass.step = "extract"
    /\ \A s \in sample : InPass(s) => s.status # "pending"
    /\ pass' = [pass EXCEPT !.step = "match"]
    /\ UNCHANGED <<take, who, busy, name, giver, verdict, sample, barred, sayings, passes>>

(* Vectors of all pending samples are stored together; a voice whose       *)
(* windows disagree is insufficient.                                       *)
Extracts(ready) ==
    /\ pass.step = "extract"
    /\ \E s \in sample : InPass(s) /\ s.status \in {"pending", "failed"}
    /\ sample' = {IF InPass(s) /\ s.status \in {"pending", "failed"}
                  THEN [s EXCEPT !.status = IF s.key \in ready THEN "ready" ELSE "insufficient"]
                  ELSE s : s \in sample}
    /\ pass' = [pass EXCEPT !.step = "match"]
    /\ UNCHANGED <<take, who, busy, name, giver, verdict, barred, sayings, passes>>

ExtractionFails ==
    /\ pass.step = "extract"
    /\ sample' = {IF InPass(s) /\ s.status = "pending" THEN [s EXCEPT !.status = "failed"] ELSE s : s \in sample}
    /\ pass' = [pass EXCEPT !.step = "match"]
    /\ UNCHANGED <<take, who, busy, name, giver, verdict, barred, sayings, passes>>

Compared == {s \in sample : InPass(s) /\ s.status \in {"ready", "insufficient"}}

(* One name goes to one speaker of a recording: the one who holds it, or   *)
(* the most probable (best) where nobody does.                             *)
Resolved(guess, best) ==
    LET claims(n) == {k \in DOMAIN guess : guess[k] = n}
        holders(n) == {k \in Key : name[k] = n}
        wins(k, n) == IF holders(n) = {} THEN claims(n) = {k} \/ k = best ELSE holders(n) = {k}
    IN  {[key |-> s.key, print |-> s.print, name |-> guess[s.key],
          matched |-> wins(s.key, guess[s.key])] : s \in {t \in Compared : guess[t.key] # Unnamed}}

Resolves(guess, best) ==
    /\ pass.step = "match"
    /\ pass' = [pass EXCEPT !.step = "apply", !.decided = Resolved(guess, best)]
    /\ UNCHANGED <<take, who, busy, name, giver, verdict, sample, barred, sayings, passes>>

(* Each decision is applied once, in a transaction of its own.             *)
Takes(d) == pass' = [pass EXCEPT !.decided = @ \ {d}]

(* A claim, an override or any standing name settle the outcome before the *)
(* sample is looked at (apply_match).                                      *)
Settled(d) == busy \/ verdict[d.key].status = "overridden" \/ name[d.key] # Unnamed

(* Mutant: a decision stands whatever became of the timeline.              *)
HeardAlways(d) == TRUE

(* The sample is still of the timeline the recording has.                  *)
StillHeard(d) == d.print = Voiceprint /\ d.key \in Heard

LeavesAlone(d) ==
    /\ pass.step = "apply" /\ d \in pass.decided
    /\ Settled(d)
    /\ Takes(d)
    /\ UNCHANGED <<take, who, busy, name, giver, verdict, sample, barred, sayings, passes>>

(* The inventory of apply_match marks overrides too, and the verdict of    *)
(* this decision is written over the mark.                                 *)
RefusesStale(d) ==
    /\ pass.step = "apply" /\ d \in pass.decided
    /\ ~Settled(d) /\ ~StillHeard(d)
    /\ verdict' = [k \in Key |-> Overridden(k)]
    /\ sample' = Inventory(verdict')
    /\ Takes(d)
    /\ UNCHANGED <<take, who, busy, name, giver, barred, sayings, passes>>

AppliesMatch(d) ==
    /\ pass.step = "apply" /\ d \in pass.decided
    /\ ~Settled(d) /\ StillHeard(d)
    /\ LET marked == [k \in Key |-> Overridden(k)]
           n == d.name
       IN  /\ sample' = Inventory(marked)
           /\ IF d.matched
              THEN /\ verdict' = [marked EXCEPT ![d.key] = [status |-> "applied", candidate |-> n, applied |-> n]]
                   /\ name' = [name EXCEPT ![d.key] = n]
                   /\ giver' = [giver EXCEPT ![d.key] = "voice"]
              ELSE /\ verdict' = [marked EXCEPT ![d.key].status = "ambiguous", ![d.key].candidate = n]
                   /\ UNCHANGED <<name, giver>>
    /\ Takes(d)
    /\ UNCHANGED <<take, who, busy, barred, sayings, passes>>

PassEnds ==
    /\ pass.step = "apply" /\ pass.decided = {}
    /\ pass' = NoPass
    /\ UNCHANGED <<take, who, busy, name, giver, verdict, sample, barred, sayings, passes>>

(* An answer that holds the notes, or a crash: the pass is given up.       *)
PassFails ==
    /\ pass.step # "idle"
    /\ pass' = NoPass
    /\ UNCHANGED <<take, who, busy, name, giver, verdict, sample, barred, sayings, passes>>

----------------------------------------------------------------------------
Person ==
    \/ \E k \in Key, n \in Names, b \in BOOLEAN : RenameSpeaker(k, n, b)
    \/ \E k, j \in Key : MergeSpeakers(k, j)
    \/ \E s \in Turn, k \in Key : ReassignSegment(s, k)
    \/ \E k \in Key : UndoAssignment(k)

VoiceService ==
    \/ PassBegins \/ SkipsExtraction \/ ExtractionFails \/ PassEnds \/ PassFails
    \/ \E ready \in SUBSET Key : Extracts(ready)
    \/ \E guess \in [Key -> Names], best \in Key : Resolves(guess, best)
    \/ \E d \in pass.decided : LeavesAlone(d) \/ RefusesStale(d) \/ AppliesMatch(d)

SpeakerNext == ProcessingBegins \/ ProcessingEnds \/ Person \/ VoiceService

SpeakerSpec == SpeakerInit /\ [][SpeakerNext]_speakerVars
----------------------------------------------------------------------------
VoicePrint == Nat \X [Turn -> Key]
Sample == [key : Key, print : VoicePrint, status : {"pending", "failed", "ready", "insufficient"}, name : Names]
Decision == [key : Key, print : VoicePrint, name : Name, matched : BOOLEAN]
VoiceVerdict == [status : {"none", "applied", "overridden", "ambiguous", "user_confirmed"}, candidate : Names, applied : Names]
PassState ==
    [step : {"idle", "extract", "match", "apply"}, active : SUBSET (Key \X VoicePrint), decided : SUBSET Decision]

SpeakerTypeOK ==
    /\ take \in 1 .. MaxVoiceEvents /\ who \in [Turn -> Key] /\ busy \in BOOLEAN
    /\ name \in [Key -> Names] /\ giver \in [Key -> {"nobody", "person", "voice"}]
    /\ verdict \in [Key -> VoiceVerdict]
    /\ sample \subseteq Sample
    /\ pass \in PassState
    /\ barred \subseteq Key \X Name
    /\ sayings \in 0 .. MaxVoiceEvents /\ passes \in 0 .. MaxPasses

GivenByVoice(k) == giver'[k] = "voice" /\ (giver[k] # "voice" \/ name'[k] # name[k])

(* A name goes to the voice it was heard in: the sample that decided is of *)
(* the speakers the transcript has by then, however long the pass took.    *)
(* (voice_identity.py, "Refuse stale results following a diarization or    *)
(* segment ownership edit")                                                *)
AutoNameIsHeard ==
    \A k \in Key : GivenByVoice(k) => \E d \in pass.decided : d.key = k /\ d.print = Voiceprint /\ d.name = name'[k]

(* What the service inferred never enrols a voice, through overrides,      *)
(* confirmed suggestions, undo and names given back.                       *)
(* (docs/cross-recording-speakers.md, "Inferred local names never become   *)
(* enrollment references")                                                 *)
InferredIsNoReference ==
    \A s \in sample' : s.name # Unnamed =>
        \/ giver[s.key] = "person"
        \/ \E t \in sample : t.key = s.key /\ t.print = s.print /\ t.name = s.name

(* A pass that began before a person named a speaker leaves the name.      *)
PersonIsRespected ==
    \A k \in Key : giver[k] = "person" /\ pass' # pass => name'[k] = name[k]

SpeakerStep == AutoNameIsHeard /\ InferredIsNoReference /\ PersonIsRespected

(* A name of the service that a person edited or cleared is never put      *)
(* back. (docs/cross-recording-speakers.md: "an edited or cleared name is  *)
(* never put back")                                                        *)
ClearedStaysCleared ==
    [][\A k \in Key : GivenByVoice(k) => <<k, name'[k]>> \notin barred]_speakerVars

(* Not so either: names are resolved before the transactions that apply    *)
(* them, and a person may give one of them to another speaker meanwhile.   *)
NamesAreDistinct ==
    [][\A k, j \in Key : GivenByVoice(k) /\ j # k => name'[j] # name'[k]]_speakerVars
=============================================================================
