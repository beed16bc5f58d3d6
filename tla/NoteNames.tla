------------------------------ MODULE NoteNames ------------------------------
(***************************************************************************)
(* The generated notes of one recording and their archive                 *)
(* (note_history.py), and the names of its speakers in them                *)
(* (note_speakers.py).                                                     *)
(*                                                                         *)
(* There is one live note per template and one live mind map, drawn from   *)
(* one of the notes.  A text is the draft a model wrote and, where the     *)
(* draft says who speaks, the name it shows; a map also carries the        *)
(* fingerprint of the note it was drawn from.  One speaker is enough: each *)
(* is bound by itself.                                                     *)
(***************************************************************************)
EXTENDS Naturals, Sequences, SequencesExt

CONSTANTS
    Template,   \* templates of the catalogue
    Retired,    \* a template the catalogue no longer has
    Primary,    \* the template whose title names the recording
    Label,      \* what a speaker without a name is called
    Called,     \* display names
    MaxDrafts,  \* bound: generated texts
    MaxNoteOps  \* bound: requests

ASSUME NoteAssumption ==
    /\ Retired \notin Template /\ Primary \in Template
    /\ {"map", "none"} \cap (Template \cup {Retired}) = {}
    /\ Label \notin Called
    /\ MaxDrafts \in Nat /\ MaxDrafts >= 2 /\ MaxNoteOps \in Nat

VARIABLES
    called,     \* the speaker's name by now
    shelf,      \* the live note of each template, and the map
    archive,    \* the archived versions of each
    mapStale,   \* the mind_map stage is marked out of date
    heading,    \* generated_title of the recording: a note's title
    drawn,      \* texts generated so far
    noteOps

noteVars == <<called, shelf, archive, mapStale, heading, drawn, noteOps>>

Slot == Template \cup {Retired, "map"}
Showing == Called \cup {Label}
NoText == [draft |-> 0, bound |-> FALSE, shows |-> Label]
NoSource == [of |-> "none", text |-> NoText]

(* The fingerprint of a note and of a map; an empty slot has draft 0.      *)
Artifact(text, source) == [text |-> text, source |-> source]
Empty == Artifact(NoText, NoSource)
Live(s) == shelf[s].is # Empty
Put(artifact, chosen) == [is |-> artifact, chosen |-> chosen]

(* bind_generated_summary: a draft shows the names there are.              *)
NewText(b) == [draft |-> drawn + 1, bound |-> b, shows |-> IF b THEN called ELSE Label]

(* A library of before the catalogue changed has a note under the template *)
(* that is retired now, and a map that does not say where it is from.      *)
NoteInit ==
    /\ called = Label /\ drawn = 2
    /\ \/ shelf = [s \in Slot |-> Put(Empty, FALSE)]
       \/ shelf = [s \in Slot |->
              CASE s = Retired -> Put(Artifact([NoText EXCEPT !.draft = 1], NoSource), FALSE)
                [] s = "map" -> Put(Artifact([NoText EXCEPT !.draft = 2], NoSource), FALSE)
                [] OTHER -> Put(Empty, FALSE)]
    /\ archive = [s \in Slot |-> << >>]
    /\ mapStale = FALSE
    /\ heading = NoText
    /\ noteOps = 0

(* Mutant: the version that leaves is on file if any version is.           *)
ArchivedOnce(s, v, new) ==
    IF ~Live(s) \/ v # << >> THEN v ELSE Append(v, shelf[s].is)

(* archive_summary: unless it stays, or is the latest version already.     *)
Archived(s, v, new) ==
    IF ~Live(s) \/ shelf[s].is = new \/ (v # << >> /\ Last(v) = shelf[s].is)
    THEN v ELSE Append(v, shelf[s].is)

Archives(s, new) == [archive EXCEPT ![s] = Archived(s, @, new)]

(* _mark_dependent_mind_map_stale: the map is out of date unless it was    *)
(* drawn from another note or from this very text.                         *)
OutOfDate(s, text) ==
    LET from == shelf["map"].is.source
    IN  Live("map") /\ (from = NoSource \/ (from.of = s /\ from.text # text))

NoteOp == noteOps < MaxNoteOps /\ noteOps' = noteOps + 1

----------------------------------------------------------------------------
(* _persist_summary, under the claim that keeps all requests out.  A note  *)
(* of the catalogue retires those of other templates.                      *)
WritesNote(s, b) ==
    /\ drawn < MaxDrafts
    /\ LET new == Artifact(NewText(b), NoSource)
       IN  /\ archive' = [Archives(s, new) EXCEPT ![Retired] = Archived(Retired, @, Empty)]
           /\ shelf' = [shelf EXCEPT ![s] = Put(new, FALSE), ![Retired] = Put(Empty, FALSE)]
           /\ heading' = IF s = Primary THEN new.text ELSE heading
    /\ mapStale' = (mapStale \/ OutOfDate(s, NewText(b)))
    /\ drawn' = drawn + 1
    /\ UNCHANGED <<called, noteOps>>

(* mind_map_rebuild_source: the note the live map is from, or the primary  *)
(* one, or the only one; a full cycle takes the note of its template.      *)
Notes == {s \in Slot \ {"map"} : Live(s)}
RebuildSource ==
    IF shelf["map"].is.source.of \in Notes THEN {shelf["map"].is.source.of}
    ELSE IF Primary \in Notes THEN {Primary}
    ELSE IF \E s \in Slot : Notes = {s} THEN Notes ELSE {}

Draws(s, b) ==
    /\ drawn < MaxDrafts
    /\ s \in RebuildSource \cup (Notes \cap Template)
    /\ LET new == Artifact(NewText(b), [of |-> s, text |-> shelf[s].is.text])
       IN  /\ archive' = Archives("map", new)
           /\ shelf' = [shelf EXCEPT !["map"] = Put(new, FALSE)]
    /\ mapStale' = FALSE
    /\ drawn' = drawn + 1
    /\ UNCHANGED <<called, heading, noteOps>>

----------------------------------------------------------------------------
(* Requests; each is one transaction while no claim is live.               *)

(* restore_summary_version                                                 *)
Restores(s, n) ==
    /\ NoteOp
    /\ Live(s) /\ n \in DOMAIN archive[s]
    /\ LET old == archive[s][n]
       IN  /\ archive' = Archives(s, old)
           /\ shelf' = [shelf EXCEPT ![s] = Put(old, TRUE)]
           /\ mapStale' = (mapStale \/ (s # "map" /\ OutOfDate(s, old.text)))
    /\ UNCHANGED <<called, heading, drawn>>

(* delete_generated_note: the map stays as it is.                          *)
Deletes(s) ==
    /\ NoteOp
    /\ s # "map" /\ Live(s)
    /\ archive' = Archives(s, Empty)
    /\ shelf' = [shelf EXCEPT ![s] = Put(Empty, FALSE)]
    /\ UNCHANGED <<called, mapStale, heading, drawn>>

Renamed(text, n) == IF text.bound THEN [text EXCEPT !.shows = n] ELSE text

(* Mutant: a map keeps the fingerprint its note had.                       *)
RepointedNever(source, n) == source

(* The fingerprint a map carries follows its note, where it was the note's *)
(* to begin with.                                                          *)
Repointed(source, n) ==
    IF source # NoSource /\ Live(source.of) /\ shelf[source.of].is.text = source.text
    THEN [source EXCEPT !.text = Renamed(@, n)] ELSE source

(* refresh_generated_note_speaker_names, after a person or the voice       *)
(* service named the speaker.  The recording's title follows the one note  *)
(* it is the title of.                                                     *)
Renames(n) ==
    /\ NoteOp
    /\ n # called
    /\ called' = n
    /\ LET new(s) == Artifact(Renamed(shelf[s].is.text, n), Repointed(shelf[s].is.source, n))
       IN  /\ archive' = [s \in Slot |-> Archived(s, archive[s], new(s))]
           /\ shelf' = [s \in Slot |-> IF Live(s) THEN Put(new(s), shelf[s].chosen) ELSE shelf[s]]
    /\ heading' = IF \E s \in Notes : shelf[s].is.text = heading THEN Renamed(heading, n) ELSE heading
    /\ UNCHANGED <<mapStale, drawn>>

NoteNext ==
    \/ \E s \in Template, b \in BOOLEAN : WritesNote(s, b)
    \/ \E s \in Slot \ {"map"}, b \in BOOLEAN : Draws(s, b)
    \/ \E s \in Slot, n \in 1 .. MaxDrafts + MaxNoteOps : Restores(s, n)
    \/ \E s \in Slot : Deletes(s)
    \/ \E n \in Showing : Renames(n)

NoteSpec == NoteInit /\ [][NoteNext]_noteVars

----------------------------------------------------------------------------
Texts == [draft : 0 .. MaxDrafts, bound : BOOLEAN, shows : Showing]
Artifacts == [text : Texts, source : [of : Slot \cup {"none"}, text : Texts]]

NoteTypeOK ==
    /\ called \in Showing
    /\ shelf \in [Slot -> [is : Artifacts, chosen : BOOLEAN]]
    /\ archive \in [Slot -> Seq(Artifacts)]
    /\ mapStale \in BOOLEAN /\ heading \in Texts
    /\ drawn \in 0 .. MaxDrafts /\ noteOps \in 0 .. MaxNoteOps

(* A map that is not marked out of date is drawn from the draft its note   *)
(* shows, through new notes, restored versions and renamings, unless a     *)
(* person put an older map back or removed the note. (note_history.py      *)
(* _mark_dependent_mind_map_stale)                                         *)
MapIsOfItsNote ==
    LET from == shelf["map"].is.source
    IN  ~mapStale /\ ~shelf["map"].chosen /\ from # NoSource /\ Live(from.of)
            => from.text.draft = shelf[from.of].is.text.draft

(* Every text that says who speaks shows the name of now, unless a person  *)
(* put an older version back. (note_speakers.py bind_generated_summary,    *)
(* refresh_generated_note_speaker_names)                                   *)
NamesAreCurrent ==
    \A s \in Slot : shelf[s].is.text.bound /\ ~shelf[s].chosen => shelf[s].is.text.shows = called

NoteSafety == MapIsOfItsNote /\ NamesAreCurrent

(* What leaves its place is on file, and no version is ever changed: a     *)
(* note regenerated, restored over, renamed, retired or deleted, and a map *)
(* whose note was renamed. (note_history.py: "Every displacement of a live *)
(* generated Summary first preserves the outgoing version")                *)
NothingIsLost ==
    \A s \in Slot :
        /\ IsPrefix(archive[s], archive'[s])
        /\ Live(s) /\ shelf'[s].is # shelf[s].is => \E n \in DOMAIN archive'[s] : archive'[s][n] = shelf[s].is

(* A renaming changes no claim of a map: a fingerprint that was its note's *)
(* is so after, and none becomes that of another draft. (note_speakers.py: *)
(* "Update only a map whose prior source identity was provably this very   *)
(* note")                                                                  *)
RenamingKeepsProvenance ==
    LET from == shelf["map"].is.source
        note == shelf[from.of].is.text
        claims == shelf'["map"].is.source.text = shelf'[from.of].is.text
    IN  called' # called /\ from # NoSource /\ Live(from.of) =>
            (from.text = note => claims) /\ (claims => from.text.draft = note.draft)

NoteStep == NothingIsLost /\ RenamingKeepsProvenance
=============================================================================
