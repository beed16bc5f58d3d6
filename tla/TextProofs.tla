----------------------------- MODULE TextProofs -----------------------------
EXTENDS MCServices, WritingProofs
(***************************************************************************)
(* What is promised about the texts people read and edit: the notes, the   *)
(* names of the speakers, and the revisions of a transcript.  The three    *)
(* modules share the store and little else, so each part below has its own *)
(* inductive invariant (NoteInv, SpeakerInv, RevisionInv), with one lemma  *)
(* per action; the last part carries them, and the invariants of           *)
(* WritingProofs, to the services together, where a step of another        *)
(* service leaves all of them alone.                                       *)
(***************************************************************************)

----------------------------------------------------------------------------
(***************************************************************************)
(* NoteNames.                                                              *)
(***************************************************************************)

\* The artifacts there may be by now: nothing undrawn, and fingerprints of notes only.
OnFile == {a \in Artifacts : /\ a.text.draft <= drawn /\ a.source.text.draft <= drawn
                             /\ a.source = NoSource \/ a.source.of \in Slot}

FilesFit == \A s \in Slot : shelf[s].is \in OnFile /\ archive[s] \in Seq(OnFile)

NoteInv == NoteTypeOK /\ FilesFit /\ NoteSafety

LEMMA SlotNames ==
  /\ Template \subseteq Slot /\ Retired \in Slot /\ "map" \in Slot /\ "none" \notin Slot
  /\ Retired \notin Template /\ "map" \notin Template /\ Retired # "map" /\ Primary \in Template
  BY NoteAssumption DEF Slot

LEMMA NotesTyped ==
  /\ NoText \in Texts /\ NoText.draft = 0 /\ NoText.bound = FALSE
  /\ NoSource \in [of : Slot \cup {"none"}, text : Texts] /\ NoSource.text = NoText
  /\ Empty \in Artifacts /\ Empty = Artifact(NoText, NoSource)
  /\ Empty.text = NoText /\ Empty.source = NoSource
  BY NoteAssumption DEF NoText, NoSource, Empty, Artifact, Artifacts, Texts, Showing

LEMMA TextTyped ==
  ASSUME NEW x \in Texts
  PROVE  x.draft \in Nat /\ x.draft <= MaxDrafts /\ x.bound \in BOOLEAN /\ x.shows \in Showing
  BY NoteAssumption DEF Texts

LEMMA ArtifactTyped ==
  ASSUME NEW a \in Artifacts
  PROVE  a.text \in Texts /\ a.source \in [of : Slot \cup {"none"}, text : Texts] /\ a.source.text \in Texts
  BY DEF Artifacts

\* Drafts are only added.
LEMMA OnFileGrows == ASSUME drawn \in Nat, drawn' \in Nat, drawn' >= drawn PROVE OnFile \subseteq OnFile'
<1> SUFFICES ASSUME NEW a \in OnFile PROVE a \in OnFile' OBVIOUS
<1>1. a \in Artifacts /\ a.text.draft <= drawn /\ a.source.text.draft <= drawn BY DEF OnFile
<1>2. a.text.draft \in Nat /\ a.source.text.draft \in Nat BY <1>1, ArtifactTyped, TextTyped
<1>3. a.text.draft <= drawn' /\ a.source.text.draft <= drawn' BY <1>1, <1>2
<1> QED BY <1>1, <1>3 DEF OnFile, Artifacts, Texts, Slot, Showing, NoSource, NoText

LEMMA EmptyOnFile == ASSUME drawn \in Nat PROVE Empty \in OnFile
<1>1. Empty \in Artifacts /\ Empty.source = NoSource /\ Empty.text.draft = 0 /\ Empty.source.text.draft = 0
  BY NotesTyped DEF Empty, Artifact, NoSource, NoText
<1> QED BY <1>1 DEF OnFile

\* archive_summary keeps what is on file and files what leaves.
LEMMA Archiving ==
  ASSUME FilesFit, NEW s \in Slot, NEW new
  PROVE  LET v == Archived(s, archive[s], new)
         IN  /\ v \in Seq(OnFile) /\ IsPrefix(archive[s], v)
             /\ Live(s) /\ shelf[s].is # new => \E n \in DOMAIN v : v[n] = shelf[s].is
<1> DEFINE v == Archived(s, archive[s], new)
<1> HIDE DEF v
<1> SUFFICES /\ v \in Seq(OnFile) /\ IsPrefix(archive[s], v)
             /\ Live(s) /\ shelf[s].is # new => \E n \in DOMAIN v : v[n] = shelf[s].is
  BY DEF v
<1>1. archive[s] \in Seq(OnFile) /\ shelf[s].is \in OnFile BY DEF FilesFit
<1>2. CASE v = archive[s]
  <2>1. IsPrefix(archive[s], v) BY <1>1, <1>2 DEF IsPrefix
  <2>2. ASSUME Live(s), shelf[s].is # new PROVE v # << >> /\ Last(v) = shelf[s].is
    <3>1. Append(archive[s], shelf[s].is) # archive[s]
      BY <1>1
    <3> QED BY <1>2, <2>2, <3>1 DEF Archived, v
  <2>3. v # << >> => Len(v) \in DOMAIN v /\ Last(v) = v[Len(v)] BY <1>1, <1>2 DEF Last
  <2> QED BY <1>1, <1>2, <2>1, <2>2, <2>3
<1>3. CASE v = Append(archive[s], shelf[s].is)
  <2>1. v \in Seq(OnFile) /\ Len(v) = Len(archive[s]) + 1 /\ v[Len(v)] = shelf[s].is /\ Len(v) \in DOMAIN v
    BY <1>1, <1>3
  <2>2. IsPrefix(archive[s], v) BY <1>1, <1>3, <2>1 DEF IsPrefix
  <2> QED BY <2>1, <2>2
<1> QED BY <1>2, <1>3 DEF Archived, v

\* A step writes an artifact to a slot through archive_summary, or leaves the slot alone.
FilesSlot(s) ==
    \/ shelf'[s].is = shelf[s].is /\ archive'[s] = archive[s]
    \/ archive'[s] = Archived(s, archive[s], shelf'[s].is)

\* Such a step loses nothing.
LEMMA WritingFiles ==
  ASSUME NoteInv, \A s \in Slot : FilesSlot(s)
  PROVE  NothingIsLost /\ \A s \in Slot : archive'[s] \in Seq(OnFile)
<1> SUFFICES ASSUME NEW s \in Slot
             PROVE  /\ IsPrefix(archive[s], archive'[s])
                    /\ Live(s) /\ shelf'[s].is # shelf[s].is
                          => \E n \in DOMAIN archive'[s] : archive'[s][n] = shelf[s].is
                    /\ archive'[s] \in Seq(OnFile)
  BY DEF NothingIsLost
<1>1. FilesFit BY DEF NoteInv
<1>2. CASE shelf'[s].is = shelf[s].is /\ archive'[s] = archive[s]
  <2>1. archive[s] \in Seq(OnFile) BY <1>1 DEF FilesFit
  <2>2. IsPrefix(archive[s], archive[s]) BY <2>1 DEF IsPrefix
  <2> QED BY <1>2, <2>1, <2>2
<1>3. CASE archive'[s] = Archived(s, archive[s], shelf'[s].is)
  <2>1. LET v == Archived(s, archive[s], shelf'[s].is)
        IN  /\ v \in Seq(OnFile) /\ IsPrefix(archive[s], v)
            /\ Live(s) /\ shelf[s].is # shelf'[s].is => \E n \in DOMAIN v : v[n] = shelf[s].is
    BY <1>1, Archiving
  <2> QED BY <1>3, <2>1
<1> QED BY <1>2, <1>3 DEF FilesSlot

\* What every step has to show: each slot is written, what is put there is known, and the
\* two promises about the artifacts that stand there.
LEMMA NoteKept ==
  ASSUME NoteInv, \A s \in Slot : FilesSlot(s) /\ shelf'[s].is \in OnFile' /\ shelf'[s].chosen \in BOOLEAN,
         DOMAIN archive' = Slot, archive' = [s \in Slot |-> archive'[s]],
         shelf' = [s \in Slot |-> [is |-> shelf'[s].is, chosen |-> shelf'[s].chosen]],
         drawn' \in 0 .. MaxDrafts, drawn' >= drawn, called' \in Showing, heading' \in Texts, mapStale' \in BOOLEAN,
         noteOps' \in 0 .. MaxNoteOps, NoteSafety', RenamingKeepsProvenance
  PROVE  NoteInv' /\ NoteStep
<1>1. drawn \in Nat /\ drawn' \in Nat BY NoteAssumption DEF NoteInv, NoteTypeOK
<1>2. OnFile \subseteq OnFile' BY <1>1, OnFileGrows
<1>3. NothingIsLost /\ \A s \in Slot : archive'[s] \in Seq(OnFile) BY WritingFiles
<1>4. \A s \in Slot : archive'[s] \in Seq(OnFile') BY <1>2, <1>3
<1>5. OnFile' \subseteq Artifacts BY DEF OnFile, Artifacts, Texts, Slot, Showing
<1>6. archive' \in [Slot -> Seq(Artifacts)]
  <2>1. \A s \in Slot : archive'[s] \in Seq(Artifacts) BY <1>4, <1>5
  <2> QED BY <2>1
<1>7. shelf' \in [Slot -> [is : Artifacts, chosen : BOOLEAN]]
  <2>1. \A s \in Slot : shelf'[s].is \in Artifacts BY <1>5
  <2> HIDE DEF Artifacts
  <2> QED BY <2>1
<1>8. FilesFit' BY <1>4 DEF FilesFit, Slot
<1>9. NoteTypeOK' BY <1>6, <1>7 DEF NoteTypeOK, Slot, Artifacts, Texts, Showing
<1> QED BY <1>3, <1>8, <1>9 DEF NoteInv, NoteStep

\* What a model writes: a new draft, with the names there are.
LEMMA NewDraft ==
  ASSUME NoteInv, drawn < MaxDrafts, NEW b \in BOOLEAN
  PROVE  /\ NewText(b) \in Texts /\ NewText(b).draft = drawn + 1 /\ NewText(b).bound = b
         /\ b => NewText(b).shows = called
         /\ drawn \in Nat /\ drawn + 1 \in 0 .. MaxDrafts
<1>1. drawn \in Nat /\ drawn + 1 \in 0 .. MaxDrafts /\ called \in Showing
  BY NoteAssumption DEF NoteInv, NoteTypeOK
<1>2. NewText(b) = [draft |-> drawn + 1, bound |-> b, shows |-> IF b THEN called ELSE Label]
  BY DEF NewText
<1> DEFINE next == drawn + 1
<1>3. next \in 0 .. MaxDrafts /\ NewText(b) = [draft |-> next, bound |-> b, shows |-> IF b THEN called ELSE Label]
  BY <1>1, <1>2
<1> HIDE DEF next
<1>4. NewText(b) \in Texts /\ NewText(b).draft = next /\ NewText(b).bound = b /\ (b => NewText(b).shows = called)
  BY <1>1, <1>3 DEF Texts, Showing
<1> QED BY <1>1, <1>4 DEF next

LEMMA NoteFields ==
  ASSUME NoteInv
  PROVE  /\ called \in Showing /\ heading \in Texts /\ mapStale \in BOOLEAN
         /\ drawn \in 0 .. MaxDrafts /\ drawn \in Nat /\ noteOps \in 0 .. MaxNoteOps
         /\ shelf \in [Slot -> [is : Artifacts, chosen : BOOLEAN]] /\ archive \in [Slot -> Seq(Artifacts)]
         /\ \A s \in Slot : /\ shelf[s].is \in OnFile /\ shelf[s].is \in Artifacts /\ shelf[s].chosen \in BOOLEAN
                            /\ shelf[s].is.text \in Texts /\ shelf[s].is.text.draft <= drawn
                            /\ shelf[s].is.source.text.draft <= drawn
                            /\ shelf[s].is.source \in [of : Slot \cup {"none"}, text : Texts]
                            /\ shelf[s].is.source = NoSource \/ shelf[s].is.source.of \in Slot
                            /\ archive[s] \in Seq(OnFile)
<1>1. NoteTypeOK /\ FilesFit BY DEF NoteInv
<1>2. drawn \in Nat BY <1>1, NoteAssumption DEF NoteTypeOK
<1>3. ASSUME NEW s \in Slot
      PROVE  /\ shelf[s].is \in OnFile /\ shelf[s].is \in Artifacts /\ shelf[s].chosen \in BOOLEAN
             /\ shelf[s].is.text \in Texts /\ shelf[s].is.text.draft <= drawn
             /\ shelf[s].is.source.text.draft <= drawn
             /\ shelf[s].is.source \in [of : Slot \cup {"none"}, text : Texts]
             /\ shelf[s].is.source = NoSource \/ shelf[s].is.source.of \in Slot
             /\ archive[s] \in Seq(OnFile)
  <2>1. shelf[s].is \in OnFile /\ archive[s] \in Seq(OnFile) BY <1>1 DEF FilesFit
  <2>2. shelf[s].chosen \in BOOLEAN BY <1>1 DEF NoteTypeOK
  <2>3. /\ shelf[s].is \in Artifacts /\ shelf[s].is.text.draft <= drawn /\ shelf[s].is.source.text.draft <= drawn
        /\ shelf[s].is.source = NoSource \/ shelf[s].is.source.of \in Slot
    BY <2>1 DEF OnFile
  <2> QED BY <2>1, <2>2, <2>3, ArtifactTyped
<1> QED BY <1>1, <1>2, <1>3 DEF NoteTypeOK

\* A new note or map on file.
LEMMA NewOnFile ==
  ASSUME drawn' \in Nat, NEW x \in Texts, x.draft <= drawn', NEW y \in [of : Slot \cup {"none"}, text : Texts],
         y.text.draft <= drawn', y = NoSource \/ y.of \in Slot
  PROVE  /\ Artifact(x, y) \in OnFile' /\ Artifact(x, y).text = x /\ Artifact(x, y).source = y
<1>1. Artifact(x, y) \in Artifacts /\ Artifact(x, y).text = x /\ Artifact(x, y).source = y
  BY DEF Artifact, Artifacts
<1> QED BY <1>1 DEF OnFile, Artifacts, Texts, Slot, Showing, NoSource, NoText

\* A step that leaves the names alone claims nothing for a map.
LEMMA SameNames == ASSUME called' = called PROVE RenamingKeepsProvenance
  BY DEF RenamingKeepsProvenance

\* Putting the slots together again.
LEMMA SlotWise ==
  ASSUME NEW f, f = [s \in Slot |-> f[s]], NEW k \in Slot, NEW x, NEW g, g = [f EXCEPT ![k] = x]
  PROVE  g = [s \in Slot |-> g[s]] /\ DOMAIN g = Slot /\ \A s \in Slot : g[s] = IF s = k THEN x ELSE f[s]
  OBVIOUS

LEMMA WritesNoteKeeps ==
  ASSUME NoteInv, NEW s \in Template, NEW b \in BOOLEAN, WritesNote(s, b) PROVE NoteInv' /\ NoteStep
<1> DEFINE new == Artifact(NewText(b), NoSource)
<1>2. s \in Slot /\ s # Retired /\ s # "map" /\ Retired \in Slot /\ "map" \in Slot /\ Retired # "map"
  BY SlotNames
<1>3. /\ shelf' = [shelf EXCEPT ![s] = Put(new, FALSE), ![Retired] = Put(Empty, FALSE)]
      /\ archive' = [Archives(s, new) EXCEPT ![Retired] = Archived(Retired, @, Empty)]
      /\ heading' = IF s = Primary THEN new.text ELSE heading
      /\ mapStale' = (mapStale \/ OutOfDate(s, NewText(b))) /\ drawn' = drawn + 1
      /\ called' = called /\ noteOps' = noteOps /\ drawn < MaxDrafts
  BY DEF WritesNote
<1>4. drawn' \in Nat /\ drawn' \in 0 .. MaxDrafts /\ drawn' >= drawn /\ NewText(b).draft = drawn'
      /\ NewText(b) \in Texts /\ NewText(b).bound = b /\ (b => NewText(b).shows = called)
  BY <1>3, NewDraft
<1>5. new \in OnFile' /\ new.text = NewText(b) /\ new.source = NoSource
  <2>1. NoSource.text.draft <= drawn' /\ NewText(b).draft <= drawn' BY <1>4, NotesTyped
  <2> QED BY <1>4, <2>1, NotesTyped, NewOnFile DEF new
<1>6. Empty \in OnFile' /\ OnFile \subseteq OnFile'
  <2>1. NoText.draft <= drawn' /\ NoSource.text.draft <= drawn' BY <1>4, NotesTyped
  <2>2. Empty \in OnFile' BY <1>4, <2>1, NotesTyped, NewOnFile
  <2> QED BY <1>4, <2>2, OnFileGrows, NoteFields
<1> HIDE DEF new
<1>7. \A t \in Slot : shelf'[t] = IF t = Retired THEN Put(Empty, FALSE) ELSE IF t = s THEN Put(new, FALSE) ELSE shelf[t]
  BY <1>2, <1>3, NoteFields
<1>8. \A t \in Slot : archive'[t] = IF t = Retired THEN Archived(Retired, archive[Retired], Empty)
                                     ELSE IF t = s THEN Archived(s, archive[s], new) ELSE archive[t]
  BY <1>2, <1>3, NoteFields DEF Archives
<1>9. DOMAIN archive' = Slot /\ DOMAIN shelf' = Slot /\ archive' = [t \in Slot |-> archive'[t]] /\ shelf' = [t \in Slot |-> shelf'[t]]
  BY <1>2, <1>3, NoteFields DEF Archives
<1>10. \A t \in Slot : FilesSlot(t) /\ shelf'[t].is \in OnFile' /\ shelf'[t].chosen \in BOOLEAN
  <2> TAKE t \in Slot
  <2>1. CASE t = Retired
    <3>1. shelf'[t].is = Empty /\ shelf'[t].chosen = FALSE
      <4>1. shelf'[t] = Put(Empty, FALSE) BY <1>7, <2>1
      <4> QED BY <4>1 DEF Put
    <3>2. archive'[t] = Archived(t, archive[t], shelf'[t].is) BY <1>8, <2>1, <3>1
    <3> QED BY <1>6, <3>1, <3>2 DEF FilesSlot
  <2>2. CASE t # Retired /\ t = s
    <3>1. shelf'[t].is = new /\ shelf'[t].chosen = FALSE
      <4>1. shelf'[t] = Put(new, FALSE) BY <1>7, <2>2
      <4> QED BY <4>1 DEF Put
    <3>2. archive'[t] = Archived(t, archive[t], shelf'[t].is) BY <1>8, <2>2, <3>1
    <3> QED BY <1>5, <3>1, <3>2 DEF FilesSlot
  <2>3. CASE t # Retired /\ t # s BY <1>6, <1>7, <1>8, <2>3, NoteFields DEF FilesSlot
  <2> QED BY <2>1, <2>2, <2>3
<1>11. shelf' = [t \in Slot |-> [is |-> shelf'[t].is, chosen |-> shelf'[t].chosen]]
  <2>1. \A t \in Slot : shelf'[t] = [is |-> shelf'[t].is, chosen |-> shelf'[t].chosen]
    BY <1>7, NoteFields DEF Put
  <2> QED BY <1>9, <2>1
<1>12. MapIsOfItsNote'
  <2> DEFINE from == shelf["map"].is.source
  <2>1. shelf'["map"] = shelf["map"] BY <1>2, <1>7
  <2>2. SUFFICES ASSUME ~mapStale', ~shelf["map"].chosen, from # NoSource, shelf'[from.of].is # Empty
                 PROVE from.text.draft = shelf'[from.of].is.text.draft
    BY <2>1 DEF MapIsOfItsNote, NoSource, NoText, Live, Empty, Artifact
  <2>3. from.of \in Slot /\ from.text.draft <= drawn /\ drawn' = drawn + 1 /\ drawn \in Nat
    BY <1>2, <1>3, <2>2, NoteFields
  <2>4. CASE from.of = s
    <3>1. from.text # NewText(b) BY <1>4, <2>3
    <3>2. Live("map") BY <2>2, NotesTyped DEF Live
    <3> QED BY <1>3, <2>2, <2>4, <3>1, <3>2 DEF OutOfDate
  <2>5. from.of # Retired
    <3>1. shelf'[Retired] = Put(Empty, FALSE) BY <1>2, <1>7
    <3>2. shelf'[Retired].is = Empty BY <3>1 DEF Put
    <3> QED BY <2>2, <3>2
  <2>6. CASE from.of # s
    <3>1. shelf'[from.of] = shelf[from.of] BY <1>7, <2>3, <2>5, <2>6
    <3>2. Live(from.of) BY <2>2, <3>1 DEF Live
    <3>3. ~mapStale BY <1>3, <2>2
    <3> QED BY <2>2, <3>1, <3>2, <3>3 DEF NoteInv, NoteSafety, MapIsOfItsNote
  <2> QED BY <2>4, <2>6
<1>13. NamesAreCurrent'
  <2> SUFFICES ASSUME NEW t \in Slot, shelf'[t].is.text.bound, ~shelf'[t].chosen PROVE shelf'[t].is.text.shows = called
    BY <1>3 DEF NamesAreCurrent, Slot
  <2>1. CASE t = Retired BY <1>7, <2>1 DEF Put, Empty, Artifact, NoText
  <2>2. CASE t # Retired /\ t = s BY <1>4, <1>5, <1>7, <2>2 DEF Put
  <2>3. CASE t # Retired /\ t # s BY <1>7, <2>3 DEF NoteInv, NoteSafety, NamesAreCurrent
  <2> QED BY <2>1, <2>2, <2>3
<1>14. heading' \in Texts /\ mapStale' \in BOOLEAN /\ called' \in Showing /\ noteOps' \in 0 .. MaxNoteOps
  BY <1>3, <1>4, <1>5, NoteFields DEF OutOfDate
<1> QED BY <1>3, <1>4, <1>9, <1>10, <1>11, <1>12, <1>13, <1>14, NoteKept, SameNames DEF NoteSafety

LEMMA DrawsKeep ==
  ASSUME NoteInv, NEW s \in Slot \ {"map"}, NEW b \in BOOLEAN, Draws(s, b) PROVE NoteInv' /\ NoteStep
<1> DEFINE src == [of |-> s, text |-> shelf[s].is.text]
           new == Artifact(NewText(b), src)
<1>1. s \in Slot /\ s # "map" /\ "map" \in Slot BY SlotNames
<1>2. /\ shelf' = [shelf EXCEPT !["map"] = Put(new, FALSE)] /\ archive' = Archives("map", new)
      /\ mapStale' = FALSE /\ drawn' = drawn + 1 /\ drawn < MaxDrafts
      /\ called' = called /\ heading' = heading /\ noteOps' = noteOps
  BY DEF Draws
<1>3. drawn' \in Nat /\ drawn' \in 0 .. MaxDrafts /\ drawn' >= drawn /\ NewText(b).draft = drawn'
      /\ NewText(b) \in Texts /\ NewText(b).bound = b /\ (b => NewText(b).shows = called)
  BY <1>2, NewDraft
<1>4. new \in OnFile' /\ new.text = NewText(b) /\ new.source = src
  <2>1. src \in [of : Slot \cup {"none"}, text : Texts] /\ src.of \in Slot BY <1>1, NoteFields
  <2>2. src.text.draft <= drawn' /\ NewText(b).draft <= drawn'
    <3>1. shelf[s].is.text.draft <= drawn /\ shelf[s].is.text.draft \in Nat /\ drawn \in Nat
      BY <1>1, NoteFields, TextTyped
    <3> QED BY <1>3, <3>1
  <2> HIDE DEF src
  <2> QED BY <1>3, <2>1, <2>2, NewOnFile DEF new
<1>5. src.of = s /\ src.text = shelf[s].is.text OBVIOUS
<1> HIDE DEF src, new
<1>6. OnFile \subseteq OnFile' BY <1>3, OnFileGrows, NoteFields
<1>7. \A t \in Slot : shelf'[t] = IF t = "map" THEN Put(new, FALSE) ELSE shelf[t]
  BY <1>1, <1>2, NoteFields
<1>8. \A t \in Slot : archive'[t] = IF t = "map" THEN Archived("map", archive["map"], new) ELSE archive[t]
  BY <1>1, <1>2, NoteFields DEF Archives
<1>9. DOMAIN archive' = Slot /\ archive' = [t \in Slot |-> archive'[t]] /\ shelf' = [t \in Slot |-> shelf'[t]]
  BY <1>1, <1>2, NoteFields DEF Archives
<1>10. \A t \in Slot : FilesSlot(t) /\ shelf'[t].is \in OnFile' /\ shelf'[t].chosen \in BOOLEAN
  <2> TAKE t \in Slot
  <2>1. CASE t = "map"
    <3>1. shelf'[t].is = new /\ shelf'[t].chosen = FALSE
      <4>1. shelf'[t] = Put(new, FALSE) BY <1>7, <2>1
      <4> QED BY <4>1 DEF Put
    <3>2. archive'[t] = Archived(t, archive[t], shelf'[t].is) BY <1>8, <2>1, <3>1
    <3> QED BY <1>4, <3>1, <3>2 DEF FilesSlot
  <2>2. CASE t # "map" BY <1>6, <1>7, <1>8, <2>2, NoteFields DEF FilesSlot
  <2> QED BY <2>1, <2>2
<1>11. shelf' = [t \in Slot |-> [is |-> shelf'[t].is, chosen |-> shelf'[t].chosen]]
  <2>1. \A t \in Slot : shelf'[t] = [is |-> shelf'[t].is, chosen |-> shelf'[t].chosen]
    BY <1>7, NoteFields DEF Put
  <2> QED BY <1>9, <2>1
<1>12. shelf'["map"].is = new /\ shelf'["map"].chosen = FALSE
  <2>1. shelf'["map"] = Put(new, FALSE) BY <1>1, <1>7
  <2> QED BY <2>1 DEF Put
<1>13. shelf'[s] = shelf[s] BY <1>1, <1>7
<1>14. MapIsOfItsNote' BY <1>4, <1>5, <1>12, <1>13 DEF MapIsOfItsNote
<1>15. NamesAreCurrent'
  <2> SUFFICES ASSUME NEW t \in Slot, shelf'[t].is.text.bound, ~shelf'[t].chosen PROVE shelf'[t].is.text.shows = called
    BY <1>2 DEF NamesAreCurrent, Slot
  <2>1. CASE t = "map" BY <1>3, <1>4, <1>12, <2>1
  <2>2. CASE t # "map" BY <1>7, <2>2 DEF NoteInv, NoteSafety, NamesAreCurrent
  <2> QED BY <2>1, <2>2
<1>16. heading' \in Texts /\ mapStale' \in BOOLEAN /\ called' \in Showing /\ noteOps' \in 0 .. MaxNoteOps
  BY <1>2, NoteFields
<1> QED BY <1>2, <1>3, <1>9, <1>10, <1>11, <1>14, <1>15, <1>16, NoteKept, SameNames DEF NoteSafety

\* A request that writes one slot, and no names.
LEMMA SlotWritten ==
  ASSUME NoteInv, NEW s \in Slot, NEW new \in OnFile, NEW c \in BOOLEAN,
         shelf' = [shelf EXCEPT ![s] = Put(new, c)], archive' = Archives(s, new),
         UNCHANGED <<called, heading, drawn>>, noteOps' \in 0 .. MaxNoteOps, mapStale' \in BOOLEAN,
         MapIsOfItsNote', ~c => ~new.text.bound
  PROVE  NoteInv' /\ NoteStep
<1>1. \A t \in Slot : shelf'[t] = IF t = s THEN Put(new, c) ELSE shelf[t]
  BY NoteFields
<1>2. \A t \in Slot : archive'[t] = IF t = s THEN Archived(s, archive[s], new) ELSE archive[t]
  BY NoteFields DEF Archives
<1>3. DOMAIN archive' = Slot /\ archive' = [t \in Slot |-> archive'[t]] /\ shelf' = [t \in Slot |-> shelf'[t]]
  BY NoteFields DEF Archives
<1>4. shelf'[s].is = new /\ shelf'[s].chosen = c
  <2>1. shelf'[s] = Put(new, c) BY <1>1
  <2> QED BY <2>1 DEF Put
<1>5. drawn' = drawn /\ called' = called /\ heading' = heading /\ drawn' \in 0 .. MaxDrafts /\ drawn \in Nat
  BY NoteFields
<1>6. OnFile \subseteq OnFile' BY <1>5, OnFileGrows
<1>7. \A t \in Slot : FilesSlot(t) /\ shelf'[t].is \in OnFile' /\ shelf'[t].chosen \in BOOLEAN
  <2> TAKE t \in Slot
  <2>1. CASE t = s
    <3>1. archive'[t] = Archived(t, archive[t], shelf'[t].is) BY <1>2, <1>4, <2>1
    <3> QED BY <1>4, <1>6, <2>1, <3>1 DEF FilesSlot
  <2>2. CASE t # s BY <1>1, <1>2, <1>6, <2>2, NoteFields DEF FilesSlot
  <2> QED BY <2>1, <2>2
<1>8. shelf' = [t \in Slot |-> [is |-> shelf'[t].is, chosen |-> shelf'[t].chosen]]
  <2>1. \A t \in Slot : shelf'[t] = [is |-> shelf'[t].is, chosen |-> shelf'[t].chosen]
    BY <1>1, NoteFields DEF Put
  <2> QED BY <1>3, <2>1
<1>9. NamesAreCurrent'
  <2> SUFFICES ASSUME NEW t \in Slot, shelf'[t].is.text.bound, ~shelf'[t].chosen PROVE shelf'[t].is.text.shows = called
    BY <1>5 DEF NamesAreCurrent, Slot
  <2>1. CASE t = s BY <1>4, <2>1
  <2>2. CASE t # s BY <1>1, <2>2 DEF NoteInv, NoteSafety, NamesAreCurrent
  <2> QED BY <2>1, <2>2
<1> QED BY <1>3, <1>5, <1>7, <1>8, <1>9, NoteFields, NoteKept, SameNames DEF NoteSafety

LEMMA RestoresKeep ==
  ASSUME NoteInv, NEW s \in Slot, NEW n, Restores(s, n) PROVE NoteInv' /\ NoteStep
<1> DEFINE old == archive[s][n]
<1>1. /\ Live(s) /\ n \in DOMAIN archive[s] /\ archive' = Archives(s, old)
      /\ shelf' = [shelf EXCEPT ![s] = Put(old, TRUE)]
      /\ mapStale' = (mapStale \/ (s # "map" /\ OutOfDate(s, old.text)))
      /\ UNCHANGED <<called, heading, drawn>> /\ noteOps < MaxNoteOps /\ noteOps' = noteOps + 1
  BY DEF Restores, NoteOp
<1>2. old \in OnFile BY <1>1, NoteFields
<1> HIDE DEF old
<1>3. noteOps' \in 0 .. MaxNoteOps /\ mapStale' \in BOOLEAN
  BY <1>1, NoteFields, NoteAssumption DEF OutOfDate
<1>4. \A t \in Slot : shelf'[t] = IF t = s THEN Put(old, TRUE) ELSE shelf[t] BY <1>1, NoteFields
<1>5. shelf'[s].is = old /\ shelf'[s].chosen
  <2>1. shelf'[s] = Put(old, TRUE) BY <1>4
  <2> QED BY <2>1 DEF Put
<1>6. MapIsOfItsNote'
  <2> DEFINE from == shelf["map"].is.source
  <2>1. CASE s = "map" BY <1>5, <2>1 DEF MapIsOfItsNote
  <2>2. CASE s # "map"
    <3>1. shelf'["map"] = shelf["map"] BY <1>4, <2>2, SlotNames
    <3>2. SUFFICES ASSUME ~mapStale', ~shelf["map"].chosen, from # NoSource, shelf'[from.of].is # Empty
                   PROVE from.text.draft = shelf'[from.of].is.text.draft
      BY <3>1 DEF MapIsOfItsNote, NoSource, NoText, Live, Empty, Artifact
    <3>3. from.of \in Slot BY <3>2, NoteFields, SlotNames
    <3>4. Live("map") BY <3>2, NotesTyped DEF Live
    <3>5. CASE from.of = s
      <4>1. from.text = old.text BY <1>1, <2>2, <3>2, <3>4, <3>5 DEF OutOfDate
      <4> QED BY <1>5, <3>5, <4>1
    <3>6. CASE from.of # s
      <4>1. shelf'[from.of] = shelf[from.of] BY <1>4, <3>3, <3>6
      <4>2. Live(from.of) BY <3>2, <4>1 DEF Live
      <4>3. ~mapStale BY <1>1, <3>2
      <4> QED BY <3>2, <4>1, <4>2, <4>3 DEF NoteInv, NoteSafety, MapIsOfItsNote
    <3> QED BY <3>5, <3>6
  <2> QED BY <2>1, <2>2
<1> QED BY <1>1, <1>2, <1>3, <1>6, SlotWritten

LEMMA DeletesKeep ==
  ASSUME NoteInv, NEW s \in Slot, Deletes(s) PROVE NoteInv' /\ NoteStep
<1>1. /\ s # "map" /\ Live(s) /\ archive' = Archives(s, Empty) /\ shelf' = [shelf EXCEPT ![s] = Put(Empty, FALSE)]
      /\ UNCHANGED <<called, mapStale, heading, drawn>> /\ noteOps < MaxNoteOps /\ noteOps' = noteOps + 1
  BY DEF Deletes, NoteOp
<1>2. Empty \in OnFile BY EmptyOnFile, NoteFields
<1>3. noteOps' \in 0 .. MaxNoteOps /\ mapStale' \in BOOLEAN BY <1>1, NoteFields, NoteAssumption
<1>4. \A t \in Slot : shelf'[t] = IF t = s THEN Put(Empty, FALSE) ELSE shelf[t] BY <1>1, NoteFields
<1>5. shelf'[s].is = Empty
  <2>1. shelf'[s] = Put(Empty, FALSE) BY <1>4
  <2> QED BY <2>1 DEF Put
<1>6. MapIsOfItsNote'
  <2> DEFINE from == shelf["map"].is.source
  <2>1. shelf'["map"] = shelf["map"] BY <1>1, <1>4, SlotNames
  <2>2. SUFFICES ASSUME ~mapStale', ~shelf["map"].chosen, from # NoSource, shelf'[from.of].is # Empty
                 PROVE from.text.draft = shelf'[from.of].is.text.draft
    BY <2>1 DEF MapIsOfItsNote, NoSource, NoText, Live, Empty, Artifact
  <2>3. from.of \in Slot /\ from.of # s BY <1>5, <2>2, NoteFields, SlotNames
  <2>4. shelf'[from.of] = shelf[from.of] BY <1>4, <2>3
  <2>5. Live(from.of) BY <2>2, <2>4 DEF Live
  <2> QED BY <1>1, <2>2, <2>4, <2>5 DEF NoteInv, NoteSafety, MapIsOfItsNote
<1>7. ~Empty.text.bound BY NotesTyped
<1> QED BY <1>1, <1>2, <1>3, <1>6, <1>7, SlotWritten

\* A renaming changes no draft.
LEMMA RenamedText ==
  ASSUME NEW x \in Texts, NEW n \in Showing
  PROVE  /\ Renamed(x, n) \in Texts /\ Renamed(x, n).draft = x.draft /\ Renamed(x, n).bound = x.bound
         /\ x.bound => Renamed(x, n).shows = n
  BY DEF Renamed, Texts

LEMMA RepointedSource ==
  ASSUME NoteInv, NEW y \in [of : Slot \cup {"none"}, text : Texts], NEW n \in Showing
  PROVE  LET z == Repointed(y, n)
         IN  /\ z \in [of : Slot \cup {"none"}, text : Texts] /\ z.of = y.of /\ z.text.draft = y.text.draft
             /\ y = NoSource => z = NoSource
             /\ (y # NoSource /\ Live(y.of) /\ shelf[y.of].is.text = y.text) => z.text = Renamed(y.text, n)
             /\ ~(y # NoSource /\ Live(y.of) /\ shelf[y.of].is.text = y.text) => z = y
<1> DEFINE r == Renamed(y.text, n)
<1>1. y.text \in Texts OBVIOUS
<1>2. r \in Texts /\ r.draft = y.text.draft BY <1>1, RenamedText
<1>3. [y EXCEPT !.text = Renamed(@, n)] = [y EXCEPT !.text = r] OBVIOUS
<1> HIDE DEF r
<1>4. [y EXCEPT !.text = r].of = y.of /\ [y EXCEPT !.text = r].text = r
      /\ [y EXCEPT !.text = r] \in [of : Slot \cup {"none"}, text : Texts]
  BY <1>2
<1> QED BY <1>2, <1>3, <1>4 DEF Repointed, r

LEMMA RenamesKeep ==
  ASSUME NoteInv, NEW n \in Showing, Renames(n) PROVE NoteInv' /\ NoteStep
<1> DEFINE new(s) == Artifact(Renamed(shelf[s].is.text, n), Repointed(shelf[s].is.source, n))
<1>1. /\ called' = n /\ archive' = [s \in Slot |-> Archived(s, archive[s], new(s))]
      /\ shelf' = [s \in Slot |-> IF Live(s) THEN Put(new(s), shelf[s].chosen) ELSE shelf[s]]
      /\ heading' = IF \E s \in Notes : shelf[s].is.text = heading THEN Renamed(heading, n) ELSE heading
      /\ mapStale' = mapStale /\ drawn' = drawn /\ noteOps < MaxNoteOps /\ noteOps' = noteOps + 1
  BY DEF Renames, NoteOp
<1>2. drawn' = drawn /\ drawn \in Nat /\ drawn' \in 0 .. MaxDrafts /\ noteOps' \in 0 .. MaxNoteOps /\ mapStale' \in BOOLEAN
  BY <1>1, NoteFields, NoteAssumption
<1>3. \A s \in Slot : /\ new(s).text = Renamed(shelf[s].is.text, n) /\ new(s).source = Repointed(shelf[s].is.source, n)
                      /\ new(s) \in OnFile'
  <2> TAKE s \in Slot
  <2>1. /\ shelf[s].is.text \in Texts /\ shelf[s].is.text.draft <= drawn /\ shelf[s].is.source.text.draft <= drawn
        /\ shelf[s].is.source \in [of : Slot \cup {"none"}, text : Texts]
        /\ shelf[s].is.source = NoSource \/ shelf[s].is.source.of \in Slot
    BY NoteFields
  <2> DEFINE x == Renamed(shelf[s].is.text, n)
             y == Repointed(shelf[s].is.source, n)
  <2>2. x \in Texts /\ x.draft <= drawn' BY <1>2, <2>1, RenamedText
  <2>3. y \in [of : Slot \cup {"none"}, text : Texts] /\ y.text.draft <= drawn' /\ (y = NoSource \/ y.of \in Slot)
    BY <1>2, <2>1, RepointedSource
  <2>4. new(s) = Artifact(x, y) OBVIOUS
  <2> HIDE DEF new, x, y
  <2>5. new(s) \in OnFile' /\ new(s).text = x /\ new(s).source = y BY <1>2, <2>2, <2>3, <2>4, NewOnFile
  <2> QED BY <2>5 DEF x, y
<1> HIDE DEF new
<1>4. \A s \in Slot : shelf'[s] = IF Live(s) THEN Put(new(s), shelf[s].chosen) ELSE shelf[s] BY <1>1
<1>5. \A s \in Slot : archive'[s] = Archived(s, archive[s], new(s)) BY <1>1
<1>6. \A s \in Slot : (Live(s) => shelf'[s].is = new(s) /\ shelf'[s].chosen = shelf[s].chosen)
                      /\ (~Live(s) => shelf'[s] = shelf[s])
  <2> TAKE s \in Slot
  <2>1. CASE Live(s)
    <3>1. shelf'[s] = Put(new(s), shelf[s].chosen) BY <1>4, <2>1
    <3> QED BY <2>1, <3>1 DEF Put
  <2>2. CASE ~Live(s) BY <1>4, <2>2
  <2> QED BY <2>1, <2>2
<1>7. OnFile \subseteq OnFile' BY <1>2, OnFileGrows
<1>8. \A s \in Slot : FilesSlot(s) /\ shelf'[s].is \in OnFile' /\ shelf'[s].chosen \in BOOLEAN
  <2> TAKE s \in Slot
  <2>1. CASE Live(s) BY <1>3, <1>5, <1>6, <2>1, NoteFields DEF FilesSlot
  <2>2. CASE ~Live(s)
    <3>1. archive'[s] = archive[s] BY <1>5, <2>2 DEF Archived
    <3> QED BY <1>6, <1>7, <2>2, <3>1, NoteFields DEF FilesSlot
  <2> QED BY <2>1, <2>2
<1>9. DOMAIN archive' = Slot /\ archive' = [s \in Slot |-> archive'[s]]
      /\ shelf' = [s \in Slot |-> [is |-> shelf'[s].is, chosen |-> shelf'[s].chosen]]
  <2>1. \A s \in Slot : shelf'[s] = [is |-> shelf'[s].is, chosen |-> shelf'[s].chosen]
    <3> TAKE s \in Slot
    <3>1. CASE Live(s)
      <4>1. shelf'[s] = Put(new(s), shelf[s].chosen) BY <1>4, <3>1
      <4> QED BY <4>1 DEF Put
    <3>2. CASE ~Live(s)
      <4>1. shelf'[s] = shelf[s] BY <1>4, <3>2
      <4> QED BY <4>1, NoteFields
    <3> QED BY <3>1, <3>2
  <2>2. shelf' = [s \in Slot |-> shelf'[s]] /\ DOMAIN archive' = Slot /\ archive' = [s \in Slot |-> archive'[s]] BY <1>1
  <2> QED BY <2>1, <2>2
<1>10. \A s \in Slot : shelf'[s].is.text.draft = shelf[s].is.text.draft
  BY <1>3, <1>6, NoteFields, RenamedText
<1> DEFINE from == shelf["map"].is.source
<1>11. "map" \in Slot /\ from \in [of : Slot \cup {"none"}, text : Texts] /\ (from = NoSource \/ from.of \in Slot)
  BY SlotNames, NoteFields
<1>12. /\ from # NoSource => Live("map")
       /\ Live("map") => shelf'["map"].is.source = Repointed(from, n) /\ shelf'["map"].chosen = shelf["map"].chosen
       /\ ~Live("map") => shelf'["map"] = shelf["map"]
  BY <1>3, <1>6, <1>11, NotesTyped DEF Live
<1> HIDE DEF from
<1>13. MapIsOfItsNote'
  <2> DEFINE to == shelf'["map"].is.source
  <2>1. SUFFICES ASSUME ~mapStale', ~shelf'["map"].chosen, to # NoSource, shelf'[to.of].is # Empty
                 PROVE to.text.draft = shelf'[to.of].is.text.draft
    BY DEF MapIsOfItsNote, NoSource, NoText, Live, Empty, Artifact
  <2>2. from # NoSource /\ Live("map") BY <1>11, <1>12, <2>1, RepointedSource DEF from
  <2>3. to = Repointed(from, n) BY <1>12, <2>2
  <2> HIDE DEF to
  <2>4. to.of = from.of /\ to.text.draft = from.text.draft BY <1>11, <2>3, RepointedSource
  <2>5. Live(from.of) BY <1>6, <1>11, <2>1, <2>2, <2>4 DEF Live
  <2>6. from.text.draft = shelf[from.of].is.text.draft
    <3>1. ~mapStale /\ ~shelf["map"].chosen BY <1>1, <1>12, <2>1, <2>2
    <3> QED BY <2>2, <2>5, <3>1 DEF NoteInv, NoteSafety, MapIsOfItsNote, from
  <2> QED BY <1>10, <1>11, <2>2, <2>4, <2>6
<1>14. NamesAreCurrent'
  <2> SUFFICES ASSUME NEW s \in Slot, shelf'[s].is.text.bound, ~shelf'[s].chosen PROVE shelf'[s].is.text.shows = n
    BY <1>1 DEF NamesAreCurrent, Slot
  <2>1. Live(s) BY <1>6, NotesTyped DEF Live
  <2>2. shelf'[s].is.text = Renamed(shelf[s].is.text, n) BY <1>3, <1>6, <2>1
  <2>3. shelf[s].is.text \in Texts BY NoteFields
  <2>4. shelf[s].is.text.bound BY <2>2, <2>3, RenamedText
  <2> QED BY <2>2, <2>3, <2>4, RenamedText
<1>15. RenamingKeepsProvenance
  <2> SUFFICES ASSUME from # NoSource, Live(from.of)
               PROVE  LET text == shelf[from.of].is.text
                          claims == shelf'["map"].is.source.text = shelf'[from.of].is.text
                      IN  (from.text = text => claims) /\ (claims => from.text.draft = text.draft)
    BY DEF RenamingKeepsProvenance, from
  <2> DEFINE text == shelf[from.of].is.text
  <2>1. from.of \in Slot /\ text \in Texts /\ from.text \in Texts BY <1>11, NoteFields
  <2>2. shelf'[from.of].is.text = Renamed(text, n) BY <1>3, <1>6, <2>1
  <2>3. shelf'["map"].is.source = Repointed(from, n) BY <1>12
  <2>4. from.text = text => shelf'["map"].is.source.text = Renamed(from.text, n)
    BY <1>11, <2>3, RepointedSource
  <2>5. from.text # text => shelf'["map"].is.source.text = from.text BY <1>11, <2>3, RepointedSource
  <2>6. Renamed(text, n).draft = text.draft BY <2>1, RenamedText
  <2> QED BY <2>2, <2>4, <2>5, <2>6
<1>16. heading' \in Texts BY <1>1, NoteFields, RenamedText
<1> QED BY <1>1, <1>2, <1>8, <1>9, <1>13, <1>14, <1>15, <1>16, NoteKept DEF NoteSafety

LEMMA NextNote == NoteInv /\ [NoteNext]_noteVars => NoteInv' /\ [NoteStep]_noteVars
<1> SUFFICES ASSUME NoteInv, NoteNext \/ UNCHANGED noteVars PROVE NoteInv' /\ [NoteStep]_noteVars OBVIOUS
<1>1. CASE NoteNext
  <2>1. CASE \E s \in Template, b \in BOOLEAN : WritesNote(s, b) BY <2>1, WritesNoteKeeps
  <2>2. CASE \E s \in Slot \ {"map"}, b \in BOOLEAN : Draws(s, b) BY <2>2, DrawsKeep
  <2>3. CASE \E s \in Slot, n \in 1 .. MaxDrafts + MaxNoteOps : Restores(s, n) BY <2>3, RestoresKeep
  <2>4. CASE \E s \in Slot : Deletes(s) BY <2>4, DeletesKeep
  <2>5. CASE \E n \in Showing : Renames(n) BY <2>5, RenamesKeep
  <2> QED BY <1>1, <2>1, <2>2, <2>3, <2>4, <2>5 DEF NoteNext
<1>2. CASE UNCHANGED noteVars
  BY <1>2
    DEF noteVars, NoteInv, NoteTypeOK, FilesFit, OnFile, NoteSafety, MapIsOfItsNote, NamesAreCurrent,
      Live
<1> QED BY <1>1, <1>2

LEMMA InitNote == NoteInit => NoteInv
<1> SUFFICES ASSUME NoteInit PROVE NoteInv OBVIOUS
<1>1. /\ called = Label /\ drawn = 2 /\ archive = [s \in Slot |-> << >>] /\ mapStale = FALSE /\ heading = NoText
      /\ noteOps = 0
  BY DEF NoteInit
<1> DEFINE first == Artifact([NoText EXCEPT !.draft = 1], NoSource)
           second == Artifact([NoText EXCEPT !.draft = 2], NoSource)
<1>2. first \in OnFile /\ second \in OnFile /\ Empty \in OnFile
  <2>1. [NoText EXCEPT !.draft = 1] \in Texts /\ [NoText EXCEPT !.draft = 2] \in Texts
    <3>1. 1 \in 0 .. MaxDrafts /\ 2 \in 0 .. MaxDrafts BY NoteAssumption
    <3> QED BY <3>1 DEF NoText, Texts, Showing
  <2>2. first \in Artifacts /\ second \in Artifacts /\ Empty \in Artifacts
        /\ first.source = NoSource /\ second.source = NoSource /\ Empty.source = NoSource
        /\ first.text.draft = 1 /\ second.text.draft = 2 /\ Empty.text.draft = 0
    BY <2>1, NotesTyped DEF Artifact, Artifacts, NoText
  <2>3. NoSource.text.draft = 0 BY NotesTyped
  <2> QED BY <1>1, <2>2, <2>3 DEF OnFile
<1>3. first.source = NoSource /\ second.source = NoSource /\ Empty.source = NoSource
      /\ ~first.text.bound /\ ~second.text.bound /\ ~Empty.text.bound
  BY DEF Artifact, NoText, Empty
<1> HIDE DEF first, second
<1>4. \A s \in Slot : \E a \in {first, second, Empty} : shelf[s] = Put(a, FALSE)
  <2>1. CASE shelf = [s \in Slot |-> Put(Empty, FALSE)] BY <2>1
  <2>2. CASE shelf = [s \in Slot |-> CASE s = Retired -> Put(first, FALSE) [] s = "map" -> Put(second, FALSE)
                                      [] OTHER -> Put(Empty, FALSE)]
    BY <2>2, SlotNames
  <2> QED BY <2>1, <2>2 DEF NoteInit, first, second
<1>5. \A s \in Slot : /\ shelf[s] = [is |-> shelf[s].is, chosen |-> FALSE] /\ shelf[s].is \in {first, second, Empty}
                      /\ ~shelf[s].chosen
  <2> TAKE s \in Slot
  <2>1. PICK a \in {first, second, Empty} : shelf[s] = Put(a, FALSE) BY <1>4
  <2>2. shelf[s] = [is |-> a, chosen |-> FALSE] BY <2>1 DEF Put
  <2>3. shelf[s].is = a /\ ~shelf[s].chosen BY <2>2
  <2>4. shelf[s].is \in {first, second, Empty} BY <2>3
  <2>5. shelf[s] = [is |-> shelf[s].is, chosen |-> FALSE] BY <2>2, <2>3
  <2> QED BY <2>3, <2>4, <2>5
<1>6. shelf = [s \in Slot |-> shelf[s]] BY DEF NoteInit
<1>7. FilesFit
  <2>1. \A s \in Slot : archive[s] \in Seq(OnFile) BY <1>1
  <2>2. \A s \in Slot : shelf[s].is \in OnFile BY <1>2, <1>5
  <2> QED BY <2>1, <2>2 DEF FilesFit
<1>8. NoteTypeOK
  <2>1. OnFile \subseteq Artifacts BY DEF OnFile
  <2>2. shelf \in [Slot -> [is : Artifacts, chosen : BOOLEAN]]
    <3>1. ASSUME NEW s \in Slot PROVE shelf[s] \in [is : Artifacts, chosen : BOOLEAN]
      <4>1. shelf[s].is \in Artifacts BY <1>2, <1>5, <2>1
      <4>2. PICK a \in Artifacts : shelf[s] = [is |-> a, chosen |-> FALSE] BY <1>5, <4>1
      <4> QED BY <4>2
    <3> QED BY <1>6, <3>1
  <2>3. archive \in [Slot -> Seq(Artifacts)] BY <1>1
  <2>4. drawn \in 0 .. MaxDrafts /\ noteOps \in 0 .. MaxNoteOps /\ called \in Showing
    BY <1>1, NoteAssumption DEF Showing
  <2> QED BY <1>1, <2>2, <2>3, <2>4, NotesTyped DEF NoteTypeOK
<1>9. NoteSafety
  BY <1>3, <1>5, SlotNames DEF NoteSafety, MapIsOfItsNote, NamesAreCurrent
<1> QED BY <1>7, <1>8, <1>9 DEF NoteInv

\* Every text, version and fingerprint is of its type, in whatever order notes are written,
\* drawn, restored, deleted and renamed. (db/models.py Summary, SummaryVersion)
THEOREM NoteTypeCorrect == NoteSpec => []NoteTypeOK
<1>1. NoteInv => NoteTypeOK BY DEF NoteInv
<1>2. NoteInv /\ [NoteNext]_noteVars => NoteInv' BY NextNote
<1> QED BY <1>1, <1>2, InitNote, PTL DEF NoteSpec

\* An unmarked map is of the draft its note shows, and texts show the names of now.
\* (note_history.py _mark_dependent_mind_map_stale, note_speakers.py)
THEOREM NotesAreSafe == NoteSpec => []NoteSafety
<1>1. NoteInv => NoteSafety BY DEF NoteInv
<1>2. NoteInv /\ [NoteNext]_noteVars => NoteInv' BY NextNote
<1> QED BY <1>1, <1>2, InitNote, PTL DEF NoteSpec

\* No step loses a version or lets a renaming claim a note for a map that was not of it.
\* (note_history.py archive_summary, note_speakers.py refresh_generated_note_speaker_names)
THEOREM NoteStepsAreSafe == NoteSpec => [][NoteStep]_noteVars
<1>1. NoteInv /\ [NoteNext]_noteVars => NoteInv' BY NextNote
<1>2. NoteInv /\ [NoteNext]_noteVars => [NoteStep]_noteVars BY NextNote
<1> QED BY <1>1, <1>2, InitNote, PTL DEF NoteSpec

----------------------------------------------------------------------------
(***************************************************************************)
(* SpeakerIdentity.                                                        *)
(***************************************************************************)

\* Who gave a name: nobody where there is none, and a name of the service is the one its
\* verdict applied.
NamesFit == \A k \in Key :
    /\ giver[k] = "nobody" <=> name[k] = Unnamed
    /\ giver[k] = "voice" => verdict[k].status = "applied" /\ verdict[k].applied = name[k]
    /\ verdict[k].status = "applied" => verdict[k].applied # Unnamed

SpeakerInv == SpeakerTypeOK /\ (busy => take + sayings < MaxVoiceEvents) /\ NamesFit

LEMMA SpeakerTypes ==
  ASSUME SpeakerTypeOK
  PROVE  /\ take \in Nat /\ sayings \in Nat /\ take >= 1 /\ Voiceprint \in VoicePrint /\ Heard \subseteq Key
  BY SpeakerAssumption DEF SpeakerTypeOK, Voiceprint, VoicePrint, Heard, PassState

\* The inventory marks what a person changed, and only that.
LEMMA Overriding ==
  ASSUME SpeakerInv, NEW v, v = [k \in Key |-> Overridden(k)]
  PROVE  /\ v \in [Key -> VoiceVerdict]
         /\ \A k \in Key : giver[k] = "voice" => v[k].status = "applied" /\ v[k].applied = name[k]
         /\ \A k \in Key : v[k].status = "applied" => v[k].applied # Unnamed
<1>1. \A k \in Key : verdict[k] \in VoiceVerdict BY DEF SpeakerInv, SpeakerTypeOK
<1>2. ASSUME NEW k \in Key
      PROVE  /\ Overridden(k) \in VoiceVerdict
             /\ giver[k] = "voice" => Overridden(k).status = "applied" /\ Overridden(k).applied = name[k]
             /\ Overridden(k).status = "applied" => Overridden(k).applied # Unnamed
  <2>1. CASE verdict[k].applied # Unnamed /\ name[k] # verdict[k].applied
    <3>1. Overridden(k) = [verdict[k] EXCEPT !.status = "overridden"] BY <2>1 DEF Overridden
    <3>2. Overridden(k) \in VoiceVerdict /\ Overridden(k).status = "overridden"
      BY <1>1, <3>1 DEF VoiceVerdict
    <3> QED BY <2>1, <3>2 DEF SpeakerInv, NamesFit
  <2>2. CASE ~(verdict[k].applied # Unnamed /\ name[k] # verdict[k].applied)
    <3>1. Overridden(k) = verdict[k] BY <2>2 DEF Overridden
    <3> QED BY <1>1, <3>1 DEF SpeakerInv, NamesFit
  <2> QED BY <2>1, <2>2
<1> QED BY <1>2

\* What the inventory writes: samples there were, and samples of now under the names that
\* people gave.
LEMMA Inventoried ==
  ASSUME SpeakerInv, NEW v \in [Key -> VoiceVerdict],
         \A k \in Key : giver[k] = "voice" => v[k].status = "applied" /\ v[k].applied = name[k]
  PROVE  /\ Inventory(v) \subseteq Sample
         /\ \A s \in Inventory(v) : s \in sample \/ (s.name # Unnamed => giver[s.key] = "person")
<1> SUFFICES ASSUME NEW s \in Inventory(v)
             PROVE  s \in Sample /\ (s \in sample \/ (s.name # Unnamed => giver[s.key] = "person"))
  OBVIOUS
<1> DEFINE known(k) == IF SampleOf(k) = {} THEN "pending" ELSE (CHOOSE t \in SampleOf(k) : TRUE).status
<1>1. SpeakerTypeOK /\ NamesFit BY DEF SpeakerInv
<1>2. CASE s \in sample BY <1>1, <1>2 DEF SpeakerTypeOK
<1>3. CASE s \notin sample
  <2>1. PICK k \in Heard : s = [key |-> k, print |-> Voiceprint, status |-> known(k), name |-> Reference(k, v[k])]
    BY <1>3 DEF Inventory
  <2>2. k \in Key /\ Voiceprint \in VoicePrint BY <1>1, SpeakerTypes
  <2>3. known(k) \in {"pending", "failed", "ready", "insufficient"}
    <3>1. ASSUME SampleOf(k) # {} PROVE (CHOOSE t \in SampleOf(k) : TRUE) \in Sample
      BY <1>1, <3>1 DEF SampleOf, SpeakerTypeOK
    <3> QED BY <3>1 DEF Sample
  <2> HIDE DEF known
  <2>4. Reference(k, v[k]) \in Names BY <1>1, <2>2 DEF Reference, SpeakerTypeOK, Names
  <2>5. s \in Sample BY <2>1, <2>2, <2>3, <2>4 DEF Sample
  <2>6. s.key = k /\ s.name = Reference(k, v[k]) BY <2>1
  <2>7. Reference(k, v[k]) # Unnamed => giver[k] = "person"
    <3>1. giver[k] \in {"nobody", "person", "voice"} BY <1>1, <2>2 DEF SpeakerTypeOK
    <3>2. giver[k] = "nobody" => name[k] = Unnamed BY <1>1, <2>2 DEF NamesFit
    <3> QED BY <2>2, <3>1, <3>2 DEF Reference
  <2> QED BY <2>5, <2>6, <2>7
<1> QED BY <1>2, <1>3

\* A step that no name of the service and no sample comes from.
LEMMA NothingInferred ==
  ASSUME sample' = sample, pass' # pass => name' = name,
         \A k \in Key : giver'[k] = "voice" => giver[k] = "voice" /\ name'[k] = name[k]
  PROVE  SpeakerStep
<1>1. AutoNameIsHeard BY DEF AutoNameIsHeard, GivenByVoice
<1>2. InferredIsNoReference BY DEF InferredIsNoReference
<1>3. PersonIsRespected BY DEF PersonIsRespected
<1> QED BY <1>1, <1>2, <1>3 DEF SpeakerStep

\* Processing: the speakers of the new transcript, under the names they have.
LEMMA ProcessingSteps ==
  ASSUME SpeakerInv, ProcessingBegins \/ ProcessingEnds
  PROVE  SpeakerInv' /\ SpeakerStep
<1>1. UNCHANGED <<name, giver, verdict, sample, pass, barred, sayings, passes>>
  BY DEF ProcessingBegins, ProcessingEnds
<1>2. SpeakerStep BY <1>1, NothingInferred
<1>3. NamesFit' BY <1>1 DEF SpeakerInv, NamesFit
<1>4. take \in Nat /\ sayings \in Nat /\ take >= 1 BY SpeakerTypes DEF SpeakerInv
<1>5. CASE ProcessingBegins
  <2>1. UNCHANGED <<take, who>> /\ busy' = TRUE /\ Lively BY <1>5 DEF ProcessingBegins
  <2>2. SpeakerTypeOK' BY <1>1, <2>1 DEF SpeakerInv, SpeakerTypeOK
  <2> QED BY <1>1, <1>2, <1>3, <2>1, <2>2 DEF SpeakerInv, Lively
<1>6. CASE ProcessingEnds
  <2>1. take' = take + 1 /\ who' \in [Turn -> Key] /\ busy' = FALSE /\ busy BY <1>6 DEF ProcessingEnds
  <2>2. take' \in 1 .. MaxVoiceEvents BY <1>4, <2>1, SpeakerAssumption DEF SpeakerInv
  <2>3. SpeakerTypeOK' BY <1>1, <2>1, <2>2 DEF SpeakerInv, SpeakerTypeOK
  <2> QED BY <1>2, <1>3, <2>1, <2>3 DEF SpeakerInv
<1> QED BY <1>5, <1>6

\* A request of a person counts, and there is room for it.
LEMMA Saying ==
  ASSUME SpeakerInv, Says
  PROVE  sayings' \in 0 .. MaxVoiceEvents /\ busy = FALSE
<1>1. take \in Nat /\ sayings \in Nat /\ take >= 1 BY SpeakerTypes DEF SpeakerInv
<1>2. sayings' = sayings + 1 /\ take + sayings < MaxVoiceEvents /\ ~busy BY DEF Says, Lively
<1>3. busy \in BOOLEAN BY DEF SpeakerInv, SpeakerTypeOK
<1> QED BY <1>1, <1>2, <1>3, SpeakerAssumption

LEMMA Renaming ==
  ASSUME SpeakerInv, NEW k \in Key, NEW n \in Names, NEW b \in BOOLEAN, RenameSpeaker(k, n, b)
  PROVE  SpeakerInv' /\ SpeakerStep
<1> DEFINE v == IF b THEN Confirmed(k, n) ELSE verdict[k]
<1>1. SpeakerTypeOK /\ NamesFit BY DEF SpeakerInv
<1>2. UNCHANGED <<take, who, busy, sample, pass, passes>> BY DEF RenameSpeaker
<1>3. name' = [name EXCEPT ![k] = n] /\ verdict' = [verdict EXCEPT ![k] = v]
      /\ giver' = [giver EXCEPT ![k] = IF n = Unnamed THEN "nobody" ELSE "person"]
  BY DEF RenameSpeaker
<1>4. verdict[k] \in VoiceVerdict /\ giver \in [Key -> {"nobody", "person", "voice"}] /\ name \in [Key -> Names]
      /\ verdict \in [Key -> VoiceVerdict]
  BY <1>1 DEF SpeakerTypeOK
<1>5. v \in VoiceVerdict /\ (v.status = "applied" => v = verdict[k])
  <2>1. CASE v = verdict[k] BY <1>4, <2>1
  <2>2. CASE v = [verdict[k] EXCEPT !.status = "user_confirmed"]
    BY <1>4, <2>2 DEF VoiceVerdict
  <2> QED BY <2>1, <2>2 DEF Confirmed
<1> HIDE DEF v
<1>6. SpeakerStep
  <2>1. \A j \in Key : giver'[j] = "voice" => j # k BY <1>3, <1>4
  <2> QED BY <1>2, <1>3, <1>4, <2>1, NothingInferred
<1>7. NamesFit'
  <2> SUFFICES ASSUME NEW j \in Key
               PROVE  /\ giver'[j] = "nobody" <=> name'[j] = Unnamed
                      /\ giver'[j] = "voice" => verdict'[j].status = "applied" /\ verdict'[j].applied = name'[j]
                      /\ verdict'[j].status = "applied" => verdict'[j].applied # Unnamed
    BY DEF NamesFit
  <2>1. CASE j = k
    <3>1. name'[j] = n /\ verdict'[j] = v /\ giver'[j] = IF n = Unnamed THEN "nobody" ELSE "person"
      BY <1>3, <1>4, <2>1
    <3>2. verdict[k].status = "applied" => verdict[k].applied # Unnamed BY <1>1 DEF NamesFit
    <3> QED BY <1>5, <3>1, <3>2
  <2>2. CASE j # k
    <3>1. name'[j] = name[j] /\ verdict'[j] = verdict[j] /\ giver'[j] = giver[j] BY <1>3, <1>4, <2>2
    <3> QED BY <1>1, <3>1 DEF NamesFit
  <2> QED BY <2>1, <2>2
<1>8. barred' \subseteq Key \X Name
  <2>1. giver[k] = "voice" => name[k] \in Name
    <3>1. giver[k] = "voice" => name[k] # Unnamed BY <1>1 DEF NamesFit
    <3> QED BY <1>4, <3>1 DEF Names
  <2>2. barred' = barred \/ (giver[k] = "voice" /\ barred' = barred \cup {<<k, name[k]>>})
    BY DEF RenameSpeaker
  <2>3. barred \subseteq Key \X Name BY <1>1 DEF SpeakerTypeOK
  <2> QED BY <2>1, <2>2, <2>3
<1>9. SpeakerTypeOK'
  <2>1. name' \in [Key -> Names] /\ giver' \in [Key -> {"nobody", "person", "voice"}] /\ verdict' \in [Key -> VoiceVerdict]
    BY <1>3, <1>4, <1>5
  <2>2. sayings' \in 0 .. MaxVoiceEvents BY Saying DEF RenameSpeaker
  <2> QED BY <1>1, <1>2, <1>8, <2>1, <2>2 DEF SpeakerTypeOK
<1>10. busy' = FALSE BY <1>2, Saying DEF RenameSpeaker
<1> QED BY <1>6, <1>7, <1>9, <1>10 DEF SpeakerInv

\* Who speaks changes, and no name.
LEMMA Reassigning ==
  ASSUME SpeakerInv,
         \/ \E k, j \in Key : MergeSpeakers(k, j)
         \/ \E s \in Turn, k \in Key : ReassignSegment(s, k)
  PROVE  SpeakerInv' /\ SpeakerStep
<1>1. SpeakerTypeOK /\ NamesFit BY DEF SpeakerInv
<1>2. UNCHANGED <<take, busy, name, giver, verdict, sample, pass, barred, passes>> /\ Says
  BY DEF MergeSpeakers, ReassignSegment
<1>3. who' \in [Turn -> Key]
  <2>1. who \in [Turn -> Key] BY <1>1 DEF SpeakerTypeOK
  <2>2. ASSUME NEW k \in Key, NEW j \in Key, MergeSpeakers(k, j) PROVE who' \in [Turn -> Key]
    BY <2>1, <2>2 DEF MergeSpeakers
  <2>3. ASSUME NEW s \in Turn, NEW k \in Key, ReassignSegment(s, k) PROVE who' \in [Turn -> Key]
    BY <2>1, <2>3 DEF ReassignSegment
  <2> QED BY <2>2, <2>3
<1>4. SpeakerStep BY <1>2, NothingInferred
<1>5. NamesFit' BY <1>1, <1>2 DEF NamesFit
<1>6. sayings' \in 0 .. MaxVoiceEvents /\ busy' = FALSE BY <1>2, Saying
<1>7. SpeakerTypeOK' BY <1>1, <1>2, <1>3, <1>6 DEF SpeakerTypeOK
<1> QED BY <1>4, <1>5, <1>6, <1>7 DEF SpeakerInv

LEMMA Undoing ==
  ASSUME SpeakerInv, NEW k \in Key, UndoAssignment(k)
  PROVE  SpeakerInv' /\ SpeakerStep
<1> DEFINE v == [verdict[k] EXCEPT !.status = "overridden"]
<1>1. SpeakerTypeOK /\ NamesFit BY DEF SpeakerInv
<1>2. UNCHANGED <<take, who, busy, sample, pass, passes>> BY DEF UndoAssignment
<1>3. giver \in [Key -> {"nobody", "person", "voice"}] /\ name \in [Key -> Names] /\ verdict \in [Key -> VoiceVerdict]
  BY <1>1 DEF SpeakerTypeOK
<1>4. v \in VoiceVerdict /\ v.status = "overridden" BY <1>3 DEF VoiceVerdict
<1>5. name' = [name EXCEPT ![k] = Unnamed] /\ giver' = [giver EXCEPT ![k] = "nobody"] /\ verdict' = [verdict EXCEPT ![k] = v]
  BY DEF UndoAssignment
<1> HIDE DEF v
<1>6. SpeakerStep
  <2>1. \A j \in Key : giver'[j] = "voice" => j # k BY <1>3, <1>5
  <2> QED BY <1>2, <1>3, <1>5, <2>1, NothingInferred
<1>7. NamesFit'
  <2> SUFFICES ASSUME NEW j \in Key
               PROVE  /\ giver'[j] = "nobody" <=> name'[j] = Unnamed
                      /\ giver'[j] = "voice" => verdict'[j].status = "applied" /\ verdict'[j].applied = name'[j]
                      /\ verdict'[j].status = "applied" => verdict'[j].applied # Unnamed
    BY DEF NamesFit
  <2>1. CASE j = k
    <3>1. name'[j] = Unnamed /\ verdict'[j] = v /\ giver'[j] = "nobody" BY <1>3, <1>5, <2>1
    <3> QED BY <1>4, <3>1
  <2>2. CASE j # k
    <3>1. name'[j] = name[j] /\ verdict'[j] = verdict[j] /\ giver'[j] = giver[j] BY <1>3, <1>5, <2>2
    <3> QED BY <1>1, <3>1 DEF NamesFit
  <2> QED BY <2>1, <2>2
<1>8. barred' \subseteq Key \X Name
  <2>1. name[k] \in Names /\ name[k] # Unnamed BY <1>1, <1>3 DEF NamesFit, UndoAssignment
  <2>2. barred' = barred \cup {<<k, name[k]>>} BY DEF UndoAssignment
  <2>3. barred \subseteq Key \X Name BY <1>1 DEF SpeakerTypeOK
  <2> QED BY <2>1, <2>2, <2>3 DEF Names
<1>9. SpeakerTypeOK'
  <2>1. name' \in [Key -> Names] /\ giver' \in [Key -> {"nobody", "person", "voice"}] /\ verdict' \in [Key -> VoiceVerdict]
    BY <1>3, <1>4, <1>5 DEF Names
  <2>2. sayings' \in 0 .. MaxVoiceEvents BY Saying DEF UndoAssignment
  <2> QED BY <1>1, <1>2, <1>8, <2>1, <2>2 DEF SpeakerTypeOK
<1>10. busy' = FALSE BY <1>2, Saying DEF UndoAssignment
<1> QED BY <1>6, <1>7, <1>9, <1>10 DEF SpeakerInv

\* A pass that goes on, or is given up, and writes no name and no verdict.
LEMMA PassMoves ==
  ASSUME SpeakerInv, UNCHANGED <<take, who, busy, name, giver, verdict, barred, sayings, passes>>,
         sample' \subseteq Sample,
         pass' \in PassState,
         \A s \in sample' : \E t \in sample : t.key = s.key /\ t.print = s.print /\ t.name = s.name
  PROVE  SpeakerInv' /\ SpeakerStep
<1>1. SpeakerTypeOK' BY DEF SpeakerInv, SpeakerTypeOK
<1>2. NamesFit' BY DEF SpeakerInv, NamesFit
<1>3. AutoNameIsHeard BY DEF AutoNameIsHeard, GivenByVoice
<1>4. InferredIsNoReference BY DEF InferredIsNoReference
<1>5. PersonIsRespected BY DEF PersonIsRespected
<1> QED BY <1>1, <1>2, <1>3, <1>4, <1>5 DEF SpeakerInv, SpeakerStep

LEMMA PassTypes ==
  ASSUME SpeakerTypeOK
  PROVE  /\ \A st \in {"idle", "extract", "match", "apply"} :
              [pass EXCEPT !.step = st] \in PassState
         /\ \A ds \in SUBSET Decision :
              [pass EXCEPT !.decided = ds] \in PassState
         /\ NoPass \in PassState
         /\ pass.decided \subseteq Decision /\ sample \subseteq Sample
<1>1. pass \in PassState /\ sample \subseteq Sample BY DEF SpeakerTypeOK
<1> HIDE DEF Decision, VoicePrint
<1> QED BY <1>1 DEF NoPass, PassState

\* A pass without extraction, the end of a pass and its failure keep the samples.
LEMMA PassIdles ==
  ASSUME SpeakerInv, SkipsExtraction \/ PassEnds \/ PassFails \/ \E d \in pass.decided : LeavesAlone(d)
  PROVE  SpeakerInv' /\ SpeakerStep
<1>1. SpeakerTypeOK BY DEF SpeakerInv
<1>2. UNCHANGED <<take, who, busy, name, giver, verdict, sample, barred, sayings, passes>>
  BY DEF SkipsExtraction, PassEnds, PassFails, LeavesAlone
<1>3. pass' \in PassState
  <2>1. CASE SkipsExtraction BY <1>1, <2>1, PassTypes DEF SkipsExtraction
  <2>2. CASE PassEnds \/ PassFails BY <1>1, <2>2, PassTypes DEF PassEnds, PassFails
  <2>3. ASSUME NEW d \in pass.decided, LeavesAlone(d)
        PROVE  pass' \in PassState
    <3>1. pass' = [pass EXCEPT !.decided = pass.decided \ {d}] BY <2>3 DEF LeavesAlone, Takes
    <3>2. pass.decided \ {d} \in SUBSET Decision BY <1>1, PassTypes
    <3> QED BY <1>1, <3>1, <3>2, PassTypes
  <2> QED BY <2>1, <2>2, <2>3
<1>4. sample' \subseteq Sample BY <1>1, <1>2 DEF SpeakerTypeOK
<1>5. \A s \in sample' : \E t \in sample : t.key = s.key /\ t.print = s.print /\ t.name = s.name BY <1>2
<1> QED BY <1>2, <1>3, <1>4, <1>5, PassMoves

\* What is learned of a voice is its status.
LEMMA SampleStatus ==
  ASSUME NEW s \in Sample, NEW st \in {"pending", "failed", "ready", "insufficient"}
  PROVE  /\ [s EXCEPT !.status = st] \in Sample
         /\ [s EXCEPT !.status = st].key = s.key /\ [s EXCEPT !.status = st].print = s.print
         /\ [s EXCEPT !.status = st].name = s.name
BY DEF Sample

LEMMA Extracting ==
  ASSUME SpeakerInv, ExtractionFails \/ \E ready \in SUBSET Key : Extracts(ready)
  PROVE  SpeakerInv' /\ SpeakerStep
<1>1. SpeakerTypeOK BY DEF SpeakerInv
<1>2. UNCHANGED <<take, who, busy, name, giver, verdict, barred, sayings, passes>>
      /\ pass' = [pass EXCEPT !.step = "match"]
  BY DEF ExtractionFails, Extracts
<1>3. \A u \in sample' : \E s \in sample :
        u = s \/ \E st \in {"pending", "failed", "ready", "insufficient"} : u = [s EXCEPT !.status = st]
  <2>1. CASE ExtractionFails BY <2>1 DEF ExtractionFails
  <2>2. ASSUME NEW ready \in SUBSET Key, Extracts(ready)
        PROVE  \A u \in sample' : \E s \in sample :
                 u = s \/ \E st \in {"pending", "failed", "ready", "insufficient"} : u = [s EXCEPT !.status = st]
    BY <2>2 DEF Extracts
  <2> QED BY <2>1, <2>2
<1>4. sample \subseteq Sample BY <1>1, PassTypes
<1>5. \A u \in sample' : u \in Sample /\ \E t \in sample : t.key = u.key /\ t.print = u.print /\ t.name = u.name
  <2> TAKE u \in sample'
  <2>1. PICK s \in sample : u = s \/ \E st \in {"pending", "failed", "ready", "insufficient"} : u = [s EXCEPT !.status = st]
    BY <1>3
  <2>2. s \in Sample BY <1>4
  <2>3. CASE u = s BY <2>2, <2>3
  <2>4. ASSUME NEW st \in {"pending", "failed", "ready", "insufficient"}, u = [s EXCEPT !.status = st]
        PROVE  u \in Sample /\ u.key = s.key /\ u.print = s.print /\ u.name = s.name
    BY <2>2, <2>4, SampleStatus
  <2> QED BY <2>1, <2>3, <2>4
<1>6. sample' \subseteq Sample BY <1>5
<1>7. pass' \in PassState
  BY <1>1, <1>2, PassTypes
<1> QED BY <1>2, <1>5, <1>6, <1>7, PassMoves

LEMMA Resolving ==
  ASSUME SpeakerInv, NEW guess \in [Key -> Names], NEW best \in Key, Resolves(guess, best)
  PROVE  SpeakerInv' /\ SpeakerStep
<1>1. SpeakerTypeOK BY DEF SpeakerInv
<1>2. UNCHANGED <<take, who, busy, name, giver, verdict, sample, barred, sayings, passes>>
      /\ pass' = [pass EXCEPT !.step = "apply", !.decided = Resolved(guess, best)]
  BY DEF Resolves
<1>3. Resolved(guess, best) \in SUBSET Decision
  <2> SUFFICES ASSUME NEW d \in Resolved(guess, best) PROVE d \in Decision OBVIOUS
  <2>1. PICK s \in Compared, m \in BOOLEAN :
          guess[s.key] # Unnamed /\ d = [key |-> s.key, print |-> s.print, name |-> guess[s.key], matched |-> m]
    BY DEF Resolved
  <2>2. s \in Sample BY <1>1 DEF Compared, SpeakerTypeOK
  <2>3. s.key \in Key /\ s.print \in VoicePrint BY <2>2 DEF Sample
  <2>4. guess[s.key] \in Name BY <2>1, <2>3 DEF Names
  <2> QED BY <2>1, <2>3, <2>4 DEF Decision
<1>4. pass' \in PassState
  <2> DEFINE p == [pass EXCEPT !.decided = Resolved(guess, best)]
  <2>1. p \in PassState
    BY <1>1, <1>3, PassTypes
  <2>2. pass' = [p EXCEPT !.step = "apply"] BY <1>1, <1>2 DEF SpeakerTypeOK, PassState
  <2> QED BY <2>1, <2>2 DEF PassState
<1>5. sample' \subseteq Sample BY <1>1, <1>2 DEF SpeakerTypeOK
<1>6. \A s \in sample' : \E t \in sample : t.key = s.key /\ t.print = s.print /\ t.name = s.name BY <1>2
<1> QED BY <1>2, <1>4, <1>5, <1>6, PassMoves

\* A step that writes the inventory of verdicts v enrols no inferred name.
LEMMA EnrolsPeople ==
  ASSUME SpeakerInv, NEW v \in [Key -> VoiceVerdict],
         \A k \in Key : giver[k] = "voice" => v[k].status = "applied" /\ v[k].applied = name[k],
         sample' = Inventory(v)
  PROVE  sample' \subseteq Sample /\ InferredIsNoReference
<1>1. sample' \subseteq Sample BY Inventoried
<1>2. \A s \in sample' : s \in sample \/ (s.name # Unnamed => giver[s.key] = "person") BY Inventoried
<1>3. InferredIsNoReference BY <1>2 DEF InferredIsNoReference
<1> QED BY <1>1, <1>3

\* An inventory of the recording that gives no name.
LEMMA TakesStock ==
  ASSUME SpeakerInv, UNCHANGED <<take, who, busy, name, giver, barred, sayings>>,
         verdict' = [k \in Key |-> Overridden(k)], sample' = Inventory(verdict'),
         pass' \in PassState, passes' \in 0 .. MaxPasses
  PROVE  SpeakerInv' /\ SpeakerStep
<1>1. /\ verdict' \in [Key -> VoiceVerdict]
      /\ \A k \in Key : giver[k] = "voice" => verdict'[k].status = "applied" /\ verdict'[k].applied = name[k]
      /\ \A k \in Key : verdict'[k].status = "applied" => verdict'[k].applied # Unnamed
  BY Overriding
<1>2. PICK v \in [Key -> VoiceVerdict] : v = verdict' BY <1>1
<1>3. sample' = Inventory(v) BY <1>2
<1>4. sample' \subseteq Sample /\ InferredIsNoReference
  <2>1. \A k \in Key : giver[k] = "voice" => v[k].status = "applied" /\ v[k].applied = name[k]
    BY <1>1, <1>2
  <2> QED BY <1>3, <2>1, EnrolsPeople
<1>5. AutoNameIsHeard BY DEF AutoNameIsHeard, GivenByVoice
<1>6. PersonIsRespected BY DEF PersonIsRespected
<1>7. NamesFit' BY <1>1 DEF SpeakerInv, NamesFit
<1>8. SpeakerTypeOK' BY <1>1, <1>4 DEF SpeakerInv, SpeakerTypeOK
<1> QED BY <1>4, <1>5, <1>6, <1>7, <1>8 DEF SpeakerInv, SpeakerStep

LEMMA Beginning ==
  ASSUME SpeakerInv, PassBegins
  PROVE  SpeakerInv' /\ SpeakerStep
<1>1. SpeakerTypeOK BY DEF SpeakerInv
<1>2. pass' = [step |-> "extract", active |-> {<<k, Voiceprint>> : k \in Heard}, decided |-> {}]
  BY DEF PassBegins, NoPass
<1>3. {<<k, Voiceprint>> : k \in Heard} \in SUBSET (Key \X VoicePrint)
  <2>1. Voiceprint \in VoicePrint /\ Heard \subseteq Key BY <1>1, SpeakerTypes
  <2> HIDE DEF VoicePrint
  <2> QED BY <2>1
<1>4. pass' \in PassState BY <1>2, <1>3 DEF PassState
<1>5. passes' \in 0 .. MaxPasses
  <2>1. passes \in 0 .. MaxPasses /\ passes < MaxPasses /\ passes' = passes + 1
    BY <1>1 DEF PassBegins, SpeakerTypeOK
  <2> QED BY <2>1, SpeakerAssumption
<1> QED BY <1>4, <1>5, TakesStock DEF PassBegins

LEMMA Refusing ==
  ASSUME SpeakerInv, NEW d \in pass.decided, RefusesStale(d)
  PROVE  SpeakerInv' /\ SpeakerStep
<1>1. SpeakerTypeOK BY DEF SpeakerInv
<1>2. pass' = [pass EXCEPT !.decided = pass.decided \ {d}] BY DEF RefusesStale, Takes
<1>3. pass.decided \ {d} \in SUBSET Decision BY <1>1, PassTypes
<1>4. pass' \in PassState BY <1>1, <1>2, <1>3, PassTypes
<1>5. passes' \in 0 .. MaxPasses BY <1>1 DEF RefusesStale, SpeakerTypeOK
<1> QED BY <1>4, <1>5, TakesStock DEF RefusesStale

\* A match of a voice that has no name.
LEMMA Applying ==
  ASSUME SpeakerInv, NEW d \in pass.decided, AppliesMatch(d)
  PROVE  SpeakerInv' /\ SpeakerStep
<1> DEFINE v == [k \in Key |-> Overridden(k)]
           w == IF d.matched THEN [status |-> "applied", candidate |-> d.name, applied |-> d.name]
                ELSE [v[d.key] EXCEPT !.status = "ambiguous", !.candidate = d.name]
<1>1. SpeakerTypeOK /\ NamesFit BY DEF SpeakerInv
<1>2. d \in Decision BY <1>1, PassTypes
<1>3. d.key \in Key /\ d.name \in Name /\ d.name # Unnamed /\ d.matched \in BOOLEAN
  BY <1>2, SpeakerAssumption DEF Decision
<1>4. /\ v \in [Key -> VoiceVerdict]
      /\ \A k \in Key : giver[k] = "voice" => v[k].status = "applied" /\ v[k].applied = name[k]
      /\ \A k \in Key : v[k].status = "applied" => v[k].applied # Unnamed
  BY Overriding
<1>5. UNCHANGED <<take, who, busy, barred, sayings, passes>> /\ sample' = Inventory(v)
      /\ pass' = [pass EXCEPT !.decided = pass.decided \ {d}]
  BY DEF AppliesMatch, Takes
<1>6. name[d.key] = Unnamed /\ d.print = Voiceprint BY DEF AppliesMatch, Settled, StillHeard
<1>7. \/ d.matched /\ name' = [name EXCEPT ![d.key] = d.name] /\ giver' = [giver EXCEPT ![d.key] = "voice"]
      \/ ~d.matched /\ UNCHANGED <<name, giver>>
  BY <1>3 DEF AppliesMatch
<1>8. verdict' = [v EXCEPT ![d.key] = w]
  <2>1. CASE d.matched
    <3>1. verdict' = [v EXCEPT ![d.key] = [status |-> "applied", candidate |-> d.name, applied |-> d.name]]
      BY <2>1 DEF AppliesMatch
    <3> QED BY <2>1, <3>1
  <2>2. CASE ~d.matched
    <3>1. verdict' = [v EXCEPT ![d.key].status = "ambiguous", ![d.key].candidate = d.name]
      BY <2>2 DEF AppliesMatch
    <3>2. v[d.key] \in VoiceVerdict BY <1>3, <1>4
    <3> HIDE DEF v
    <3>3. verdict' = [v EXCEPT ![d.key] = [v[d.key] EXCEPT !.status = "ambiguous", !.candidate = d.name]]
      BY <1>3, <1>4, <3>1, <3>2 DEF VoiceVerdict
    <3> QED BY <2>2, <3>3
  <2> QED BY <2>1, <2>2
<1> HIDE DEF v
<1>9. w \in VoiceVerdict /\ (d.matched => w.status = "applied" /\ w.applied = d.name) /\ (~d.matched => w.status = "ambiguous")
  <2>1. v[d.key] \in VoiceVerdict BY <1>3, <1>4
  <2> QED BY <1>3, <2>1 DEF VoiceVerdict, Names
<1> HIDE DEF w
<1>10. giver \in [Key -> {"nobody", "person", "voice"}] /\ name \in [Key -> Names]
  BY <1>1 DEF SpeakerTypeOK
<1>11. \A k \in Key \ {d.key} : name'[k] = name[k] /\ giver'[k] = giver[k] /\ verdict'[k] = v[k]
  BY <1>4, <1>7, <1>8, <1>10
<1>12. /\ verdict'[d.key] = w
       /\ \/ d.matched /\ name'[d.key] = d.name /\ giver'[d.key] = "voice"
          \/ ~d.matched /\ name'[d.key] = Unnamed /\ giver'[d.key] = "nobody"
  <2>1. giver[d.key] = "nobody" BY <1>1, <1>3, <1>6 DEF NamesFit
  <2> QED BY <1>3, <1>4, <1>6, <1>7, <1>8, <1>10, <2>1
<1>13. sample' \subseteq Sample /\ InferredIsNoReference BY <1>4, <1>5, EnrolsPeople
<1>14. AutoNameIsHeard
  <2> SUFFICES ASSUME NEW k \in Key, GivenByVoice(k)
               PROVE  d.key = k /\ d.print = Voiceprint /\ d.name = name'[k]
    BY DEF AutoNameIsHeard
  <2>1. k = d.key BY <1>11 DEF GivenByVoice
  <2>2. d.matched /\ name'[k] = d.name BY <1>12, <2>1 DEF GivenByVoice
  <2> QED BY <1>6, <2>1, <2>2
<1>15. PersonIsRespected
  <2>1. \A k \in Key : giver[k] = "person" => k # d.key BY <1>1, <1>6 DEF NamesFit
  <2> QED BY <1>11, <2>1 DEF PersonIsRespected
<1>16. NamesFit'
  <2> SUFFICES ASSUME NEW k \in Key
               PROVE  /\ giver'[k] = "nobody" <=> name'[k] = Unnamed
                      /\ giver'[k] = "voice" => verdict'[k].status = "applied" /\ verdict'[k].applied = name'[k]
                      /\ verdict'[k].status = "applied" => verdict'[k].applied # Unnamed
    BY DEF NamesFit
  <2>1. CASE k = d.key BY <1>3, <1>9, <1>12, <2>1
  <2>2. CASE k # d.key BY <1>1, <1>4, <1>11, <2>2 DEF NamesFit
  <2> QED BY <2>1, <2>2
<1>17. SpeakerTypeOK'
  <2>1. pass' \in PassState
    <3>1. pass.decided \ {d} \in SUBSET Decision BY <1>1, PassTypes
    <3> QED BY <1>1, <1>5, <3>1, PassTypes
  <2>2. name' \in [Key -> Names] /\ giver' \in [Key -> {"nobody", "person", "voice"}]
    BY <1>3, <1>7, <1>10 DEF Names
  <2>3. verdict' \in [Key -> VoiceVerdict] BY <1>4, <1>8, <1>9
  <2> QED BY <1>1, <1>5, <1>13, <2>1, <2>2, <2>3 DEF SpeakerTypeOK
<1> QED BY <1>1, <1>5, <1>13, <1>14, <1>15, <1>16, <1>17 DEF SpeakerInv, SpeakerStep

LEMMA InitSpeakers == SpeakerInit => SpeakerInv
<1> SUFFICES ASSUME SpeakerInit PROVE SpeakerInv OBVIOUS
<1>1. NoVerdict \in VoiceVerdict /\ NoVerdict.status = "none" BY DEF NoVerdict, VoiceVerdict, Names
<1>2. NoPass \in PassState BY DEF NoPass, PassState
<1>3. SpeakerTypeOK
  <2>1. take \in 1 .. MaxVoiceEvents /\ sayings \in 0 .. MaxVoiceEvents /\ passes \in 0 .. MaxPasses
    BY SpeakerAssumption DEF SpeakerInit
  <2>2. name \in [Key -> Names] /\ giver \in [Key -> {"nobody", "person", "voice"}] /\ verdict \in [Key -> VoiceVerdict]
    BY <1>1 DEF SpeakerInit, Names
  <2> QED BY <1>2, <2>1, <2>2 DEF SpeakerInit, SpeakerTypeOK
<1>4. NamesFit BY <1>1 DEF SpeakerInit, NamesFit
<1> QED BY <1>3, <1>4 DEF SpeakerInv, SpeakerInit

LEMMA NextSpeakers ==
  ASSUME SpeakerInv, [SpeakerNext]_speakerVars
  PROVE  SpeakerInv' /\ [SpeakerStep]_speakerVars
<1>1. CASE ProcessingBegins \/ ProcessingEnds BY <1>1, ProcessingSteps
<1>2. CASE Person
  <2>1. ASSUME NEW k \in Key, NEW n \in Names, NEW b \in BOOLEAN, RenameSpeaker(k, n, b)
        PROVE  SpeakerInv' /\ SpeakerStep
    BY <2>1, Renaming
  <2>2. ASSUME \/ \E k, j \in Key : MergeSpeakers(k, j)
               \/ \E s \in Turn, k \in Key : ReassignSegment(s, k)
        PROVE  SpeakerInv' /\ SpeakerStep
    BY <2>2, Reassigning
  <2>3. ASSUME NEW k \in Key, UndoAssignment(k) PROVE SpeakerInv' /\ SpeakerStep
    BY <2>3, Undoing
  <2> QED BY <1>2, <2>1, <2>2, <2>3 DEF Person
<1>3. CASE VoiceService
  <2>1. CASE SkipsExtraction \/ PassEnds \/ PassFails \/ \E d \in pass.decided : LeavesAlone(d)
    BY <2>1, PassIdles
  <2>2. CASE ExtractionFails \/ \E ready \in SUBSET Key : Extracts(ready) BY <2>2, Extracting
  <2>3. ASSUME NEW guess \in [Key -> Names], NEW best \in Key, Resolves(guess, best) PROVE SpeakerInv' /\ SpeakerStep
    BY <2>3, Resolving
  <2>4. CASE PassBegins BY <2>4, Beginning
  <2>5. ASSUME NEW d \in pass.decided, RefusesStale(d) PROVE SpeakerInv' /\ SpeakerStep
    BY <2>5, Refusing
  <2>6. ASSUME NEW d \in pass.decided, AppliesMatch(d) PROVE SpeakerInv' /\ SpeakerStep
    BY <2>6, Applying
  <2> QED BY <1>3, <2>1, <2>2, <2>3, <2>4, <2>5, <2>6 DEF VoiceService
<1>4. CASE UNCHANGED speakerVars
  <2>1. UNCHANGED <<take, who, busy, name, giver, verdict, sample, pass, barred, sayings, passes>>
    BY <1>4 DEF speakerVars
  <2>2. SpeakerTypeOK' BY <2>1 DEF SpeakerInv, SpeakerTypeOK
  <2>3. NamesFit' BY <2>1 DEF SpeakerInv, NamesFit
  <2> QED BY <1>4, <2>1, <2>2, <2>3 DEF SpeakerInv
<1> QED BY <1>1, <1>2, <1>3, <1>4 DEF SpeakerNext

\* Names, verdicts, samples and passes are of their types through every diarization, request
\* and pass. (voice_identity.py, db/models.py Speaker, VoiceAssignment)
THEOREM SpeakerTypeCorrect == SpeakerSpec => []SpeakerTypeOK
<1>1. SpeakerInv => SpeakerTypeOK BY DEF SpeakerInv
<1>2. SpeakerInv /\ [SpeakerNext]_speakerVars => SpeakerInv' BY NextSpeakers
<1> QED BY <1>1, <1>2, InitSpeakers, PTL DEF SpeakerSpec

\* A name goes only to the voice it was heard in, an inferred name enrols nobody, and a pass
\* leaves the names of people. (voice_identity.py apply_match, inventory)
THEOREM SpeakerStepsAreSafe == SpeakerSpec => [][SpeakerStep]_speakerVars
<1>1. SpeakerInv /\ [SpeakerNext]_speakerVars => SpeakerInv' BY NextSpeakers
<1>2. SpeakerInv /\ [SpeakerNext]_speakerVars => [SpeakerStep]_speakerVars BY NextSpeakers
<1> QED BY <1>1, <1>2, InitSpeakers, PTL DEF SpeakerSpec

----------------------------------------------------------------------------
(***************************************************************************)
(* TranscriptRevisions.                                                    *)
(***************************************************************************)

RevisionKinds == Machine \cup Acoustic \cup Human

\* A text without a second turn is as long as a take, and the other turn of its first
\* segment follows that segment.
TextFits(segs) ==
    /\ segs \in Seq(TextSegment)
    /\ Len(segs) <= IF raw.grouped THEN 2 * Width ELSE Width
    /\ \A k \in DOMAIN segs : Mixed(segs[k]) => k = 1

HumanFree == KindsSoFar \cap Human = {}

\* What a person wrote stays the last revision, whoever appends to it.
HumanLast == ~HumanFree => HumanOwned

\* No revision is of a later transcription, and what no person touched ends with the
\* transcription at hand once that is revised.
BasesFit ==
    /\ \A n \in DOMAIN revisions : revisions[n].base <= raw.take
    /\ HumanFree /\ (\E n \in DOMAIN revisions : revisions[n].base = raw.take) => Last(revisions).base = raw.take

\* A numbered page shows the revision of its number.
PageFits == page.rev # 0 => page.rev \in DOMAIN revisions /\ page.segs = revisions[page.rev].segs

Origin(n) == IF n = 0 THEN raw.segs ELSE revisions[n].segs

\* A machine's wording has the places of the text it would be made of again.
MachineFits ==
    Rev # 0 /\ Last(revisions).kind \in Machine /\ Last(revisions).base = raw.take
        => Places(Canon) = Places(Origin(AcousticBase))

TextsFit == TextFits(raw.segs) /\ \A n \in DOMAIN revisions : TextFits(revisions[n].segs)

RevisionInv ==
    /\ RevisionTypeOK /\ raw.take <= takes
    /\ TextsFit /\ HumanLast /\ BasesFit /\ PageFits /\ MachineFits

LEMMA RevisionTypes ==
  ASSUME RevisionInv
  PROVE  /\ raw = [take |-> raw.take, segs |-> raw.segs, grouped |-> raw.grouped]
         /\ raw.take \in 1 .. MaxTakes /\ raw.segs \in Seq(TextSegment) /\ raw.grouped \in BOOLEAN
         /\ takes \in 1 .. MaxTakes /\ raw.take <= takes
         /\ revisions \in Seq(Revision) /\ Rev \in Nat /\ DOMAIN revisions = 1 .. Rev
         /\ \A n \in DOMAIN revisions : revisions[n].base \in 1 .. MaxTakes /\ revisions[n].kind \in RevisionKinds
                                        /\ revisions[n].segs \in Seq(TextSegment)
         /\ Width \in Nat /\ Width >= 1 /\ MaxTakes \in Nat /\ MaxChanges \in Nat
<1>1. RevisionTypeOK /\ raw.take <= takes BY DEF RevisionInv
<1>2. revisions \in Seq(Revision) BY <1>1 DEF RevisionTypeOK
<1>3. Rev \in Nat /\ DOMAIN revisions = 1 .. Rev BY <1>2 DEF Rev
<1>4. ASSUME NEW n \in DOMAIN revisions
      PROVE  revisions[n].base \in 1 .. MaxTakes /\ revisions[n].kind \in RevisionKinds
             /\ revisions[n].segs \in Seq(TextSegment)
  <2>1. revisions[n] \in Revision BY <1>2, <1>4
  <2> QED BY <2>1 DEF Revision, RevisionKinds
<1>5. raw \in [take : 1 .. MaxTakes, segs : Seq(TextSegment), grouped : BOOLEAN] /\ takes \in 1 .. MaxTakes
  BY <1>1 DEF RevisionTypeOK
<1> QED BY <1>1, <1>2, <1>3, <1>4, <1>5, RevisionAssumption

\* What is shown is the last revision, and it fits.
LEMMA CanonFits ==
  ASSUME RevisionInv
  PROVE  /\ TextFits(Canon) /\ Canon = Origin(Rev)
         /\ Rev # 0 => Last(revisions) = revisions[Rev] /\ Rev \in DOMAIN revisions /\ Canon = revisions[Rev].segs
         /\ Rev = 0 <=> revisions = << >>
         /\ DOMAIN Canon \subseteq 1 .. 2 * Width
<1>1. revisions \in Seq(Revision) /\ Rev \in Nat /\ DOMAIN revisions = 1 .. Rev BY RevisionTypes
<1>2. Rev = 0 <=> revisions = << >> BY <1>1 DEF Rev
<1>3. Last(revisions) = revisions[Rev] BY DEF Last, Rev
<1>4. Canon = Origin(Rev) BY <1>2, <1>3 DEF Canon, Origin
<1>5. Rev # 0 => Rev \in DOMAIN revisions /\ Canon = revisions[Rev].segs BY <1>1, <1>4 DEF Origin
<1>6. TextFits(Canon)
  <2>1. CASE Rev = 0 BY <1>4, <2>1 DEF RevisionInv, TextsFit, Origin
  <2>2. CASE Rev # 0 BY <1>5, <2>2 DEF RevisionInv, TextsFit
  <2> QED BY <2>1, <2>2
<1>7. DOMAIN Canon \subseteq 1 .. 2 * Width
  <2>1. Canon \in Seq(TextSegment) /\ Len(Canon) <= 2 * Width /\ Width \in Nat
    BY <1>6, RevisionTypes DEF TextFits
  <2> QED BY <2>1
<1> QED BY <1>2, <1>3, <1>4, <1>5, <1>6, <1>7

LEMMA HumanKinds ==
  ASSUME RevisionInv
  PROVE  /\ HumanFree <=> \A n \in DOMAIN revisions : revisions[n].kind \notin Human
         /\ HumanFree => ~HumanOwned
         /\ ~HumanFree => Rev # 0 /\ HumanOwned
         /\ Machine \cap Human = {} /\ Acoustic \cap Human = {} /\ Machine \cap Acoustic = {}
<1>1. HumanFree <=> \A n \in DOMAIN revisions : revisions[n].kind \notin Human
  BY DEF HumanFree, KindsSoFar
<1>2. HumanOwned <=> Rev # 0 /\ revisions[Rev].kind \in Human BY CanonFits DEF HumanOwned
<1>3. ~HumanFree => HumanOwned BY DEF RevisionInv, HumanLast
<1>4. Machine \cap Human = {} /\ Acoustic \cap Human = {} /\ Machine \cap Acoustic = {}
  BY DEF Machine, Human, Acoustic
<1> QED BY <1>1, <1>2, <1>3, <1>4, CanonFits

\* The latest of a set of revisions, or 0.
Latest(S) == IF S = {} THEN 0 ELSE CHOOSE n \in S : \A m \in S : m <= n

LEMMA LatestOf ==
  ASSUME NEW last \in Nat, NEW S \in SUBSET (1 .. last)
  PROVE  /\ S = {} => Latest(S) = 0
         /\ S # {} => Latest(S) \in S /\ \A m \in S : m <= Latest(S)
<1>1. CASE S = {} BY <1>1 DEF Latest
<1>2. CASE S # {}
  <2> DEFINE T == {last - n : n \in S}
             R == OpToRel(<, Nat)
  <2>0. \A n \in S : n \in Nat /\ last - n \in Nat OBVIOUS
  <2>1. T \in SUBSET Nat /\ T # {} BY <1>2, <2>0
  <2>2. PICK x \in T : \A y \in T : <<y, x>> \notin R
    <3>1. IsWellFoundedOn(R, Nat) BY NatLessThanWellFounded
    <3> HIDE DEF R, T
    <3> QED BY <2>1, <3>1, WFMin
  <2>3. ASSUME NEW y \in T PROVE x <= y
    <3>1. x \in Nat /\ y \in Nat BY <2>1
    <3>2. <<y, x>> \notin R BY <2>2
    <3>3. ~(y < x)
      <4> HIDE DEF T
      <4> QED BY <3>1, <3>2 DEF OpToRel
    <3> QED BY <3>1, <3>3
  <2>4. PICK n \in S : x = last - n OBVIOUS
  <2>5. \A m \in S : x <= last - m BY <2>3
  <2>6. \A m \in S : m <= n
    <3> HIDE DEF T
    <3> QED BY <2>0, <2>4, <2>5
  <2>7. Latest(S) = CHOOSE i \in S : \A m \in S : m <= i BY <1>2 DEF Latest
  <2> QED BY <1>2, <2>6, <2>7
<1> QED BY <1>1, <1>2

\* The revisions polishing may start from again.
Bases == {n \in 1 .. Rev - 1 : revisions[n].base = raw.take
                                /\ revisions[n].kind \in Acoustic \cup {"vocabulary:manual"}}

LEMMA AcousticIsLatest == AcousticBase = Latest(Bases)
BY DEF AcousticBase, Latest, Bases

\* What a new revision leaves of the earlier ones.
LEMMA OneMore ==
  ASSUME RevisionInv, NEW r, revisions' = Append(revisions, r)
  PROVE  /\ Rev' = Rev + 1 /\ DOMAIN revisions' = 1 .. Rev + 1 /\ DOMAIN revisions = 1 .. Rev
         /\ \A n \in 1 .. Rev : revisions'[n] = revisions[n]
         /\ revisions'[Rev + 1] = r /\ Last(revisions') = r /\ revisions' # << >>
<1>1. revisions \in Seq(Revision) BY RevisionTypes
<1> QED BY <1>1 DEF Rev, Last

\* What is shown after it.
LEMMA Shown ==
  ASSUME RevisionInv, NEW sort, NEW segs, Appends(sort, segs)
  PROVE  Canon' = segs
<1> DEFINE r == [base |-> raw.take, kind |-> sort, segs |-> segs]
<1>1. revisions' = Append(revisions, r) BY DEF Appends
<1>2. Last(revisions') = r /\ revisions' # << >>
  <2> HIDE DEF r
  <2> QED BY <1>1, OneMore
<1> QED BY <1>2 DEF Canon

\* A revision that people may always make, and machines while no person did.
LEMMA Appending ==
  ASSUME RevisionInv, NEW b \in 1 .. raw.take, NEW sort \in RevisionKinds, NEW segs, TextFits(segs),
         revisions' = Append(revisions, [base |-> b, kind |-> sort, segs |-> segs]), MoreChanges,
         raw' = raw, takes' \in takes .. MaxTakes, claimed' \in BOOLEAN, titled' \in BOOLEAN,
         page' \in {page, Nothing}, plan' \in {plan, Nothing},
         ~HumanFree \/ b # raw.take => sort \in Human,
         sort \in Machine => MachineFits'
  PROVE  RevisionInv'
<1> DEFINE r == [base |-> b, kind |-> sort, segs |-> segs]
<1>1. r.base = b /\ r.kind = sort /\ r.segs = segs OBVIOUS
<1>2. r \in Revision BY RevisionTypes DEF Revision, RevisionKinds, TextFits
<1>3. revisions' = Append(revisions, r) OBVIOUS
<1> HIDE DEF r
<1>4. /\ Rev' = Rev + 1 /\ DOMAIN revisions' = 1 .. Rev + 1 /\ DOMAIN revisions = 1 .. Rev
      /\ \A n \in 1 .. Rev : revisions'[n] = revisions[n]
      /\ revisions'[Rev + 1] = r /\ Last(revisions') = r /\ revisions' # << >>
  BY <1>3, OneMore
<1>5. Rev \in Nat /\ takes \in 1 .. MaxTakes /\ MaxChanges \in Nat /\ MaxTakes \in Nat /\ raw.take \in 1 .. MaxTakes
      /\ raw.take <= takes
  BY RevisionTypes
<1>6. Nothing \in SeenText BY <1>5 DEF Nothing, SeenText
<1>7. RevisionTypeOK'
  <2>1. revisions' \in Seq(Revision)
    <3>1. revisions \in Seq(Revision) BY RevisionTypes
    <3> QED BY <1>2, <1>3, <3>1
  <2>2. Rev' <= MaxChanges BY <1>4, <1>5 DEF MoreChanges
  <2>3. takes' \in 1 .. MaxTakes BY <1>5
  <2>4. page' \in SeenText /\ plan' \in SeenText BY <1>6 DEF RevisionInv, RevisionTypeOK
  <2>5. raw' \in [take : 1 .. MaxTakes, segs : Seq(TextSegment), grouped : BOOLEAN]
    BY DEF RevisionInv, RevisionTypeOK
  <2> QED BY <2>1, <2>2, <2>3, <2>4, <2>5 DEF RevisionTypeOK
<1>8. raw'.take <= takes' BY <1>5
<1>9. TextsFit'
  <2>1. \A s : TextFits(s)' <=> TextFits(s) BY DEF TextFits, Mixed
  <2>2. \A n \in DOMAIN revisions' : TextFits(revisions'[n].segs)
    <3> SUFFICES ASSUME NEW n \in DOMAIN revisions' PROVE TextFits(revisions'[n].segs) OBVIOUS
    <3>1. CASE n \in 1 .. Rev BY <1>4, <3>1 DEF RevisionInv, TextsFit
    <3>2. CASE n = Rev + 1 BY <1>1, <1>4, <3>2
    <3> QED BY <1>4, <1>5, <3>1, <3>2
  <2>3. TextFits(raw'.segs) BY DEF RevisionInv, TextsFit
  <2> QED BY <2>1, <2>2, <2>3 DEF TextsFit
<1>10. HumanFree' => HumanFree /\ sort \notin Human
  <2>1. \A n \in 1 .. Rev + 1 : revisions'[n].kind \in KindsSoFar' BY <1>4 DEF KindsSoFar
  <2>2. HumanFree' => \A n \in 1 .. Rev + 1 : revisions'[n].kind \notin Human BY <2>1 DEF HumanFree
  <2>3. HumanFree' => \A n \in 1 .. Rev : revisions[n].kind \notin Human BY <1>4, <1>5, <2>2
  <2>4. HumanFree' => sort \notin Human BY <1>1, <1>4, <1>5, <2>2
  <2>5. HumanFree <=> \A n \in 1 .. Rev : revisions[n].kind \notin Human BY <1>4, HumanKinds
  <2> QED BY <2>3, <2>4, <2>5
<1>11. HumanFree /\ sort \notin Human => HumanFree'
  <2> SUFFICES ASSUME HumanFree, sort \notin Human, NEW n \in 1 .. Rev + 1 PROVE revisions'[n].kind \notin Human
    BY <1>4 DEF HumanFree, KindsSoFar
  <2>1. CASE n \in 1 .. Rev BY <1>4, <2>1, HumanKinds
  <2>2. CASE n = Rev + 1 BY <1>1, <1>4, <2>2
  <2>3. n \in 1 .. Rev \/ n = Rev + 1 BY <1>5
  <2> QED BY <2>1, <2>2, <2>3
<1>12. HumanLast'
  <2>1. Rev' # 0 BY <1>4, <1>5
  <2>2. HumanOwned' <=> sort \in Human BY <1>1, <1>4, <2>1 DEF HumanOwned
  <2>3. ~HumanFree' => sort \in Human BY <1>11
  <2> QED BY <2>2, <2>3 DEF HumanLast
<1>13. BasesFit'
  <2>1. \A n \in DOMAIN revisions' : revisions'[n].base <= raw'.take
    <3> SUFFICES ASSUME NEW n \in 1 .. Rev + 1 PROVE revisions'[n].base <= raw.take BY <1>4
    <3>1. CASE n \in 1 .. Rev BY <1>4, <3>1 DEF RevisionInv, BasesFit
    <3>2. CASE n = Rev + 1 BY <1>1, <1>4, <1>5, <3>2
    <3>3. n \in 1 .. Rev \/ n = Rev + 1 BY <1>5
    <3> QED BY <3>1, <3>2, <3>3
  <2>2. HumanFree' => Last(revisions').base = raw'.take BY <1>1, <1>4, <1>10
  <2> QED BY <2>1, <2>2 DEF BasesFit
<1>14. PageFits'
  <2>1. CASE page' = page
    <3>1. PageFits BY DEF RevisionInv
    <3> QED BY <1>4, <1>5, <2>1, <3>1 DEF PageFits
  <2>2. CASE page' = Nothing BY <2>2 DEF PageFits, Nothing
  <2> QED BY <2>1, <2>2
<1>15. MachineFits' BY <1>1, <1>4 DEF MachineFits
<1> QED BY <1>7, <1>8, <1>9, <1>12, <1>13, <1>14, <1>15 DEF RevisionInv

\* The same of a revision of the raw transcript at hand.
LEMMA AppendsToRaw ==
  ASSUME RevisionInv, NEW sort \in RevisionKinds, NEW segs, TextFits(segs), Appends(sort, segs),
         raw' = raw, takes' \in takes .. MaxTakes, claimed' \in BOOLEAN, titled' \in BOOLEAN,
         page' \in {page, Nothing}, plan' \in {plan, Nothing},
         ~HumanFree => sort \in Human, sort \in Machine => MachineFits'
  PROVE  RevisionInv'
<1>1. raw.take \in 1 .. raw.take BY RevisionTypes
<1>2. MoreChanges /\ revisions' = Append(revisions, [base |-> raw.take, kind |-> sort, segs |-> segs])
  BY DEF Appends
<1> QED BY <1>1, <1>2, Appending

\* New words stand at the places of the old ones.
LEMMA Rewriting ==
  ASSUME RevisionInv, NEW segs, TextFits(segs), NEW S, NEW hand \in {"asr", "rule", "ai", "person", "blank"}
  PROVE  TextFits(Rewritten(segs, S, hand)) /\ Places(Rewritten(segs, S, hand)) = Places(segs)
<1> DEFINE new == Rewritten(segs, S, hand)
<1>1. segs \in Seq(TextSegment) /\ Len(segs) \in Nat /\ DOMAIN segs = 1 .. Len(segs) BY DEF TextFits
<1>2. ASSUME NEW k \in DOMAIN segs PROVE new[k] \in TextSegment /\ new[k].place = segs[k].place
  <2>1. segs[k] \in TextSegment BY <1>1
  <2>2. new[k] = segs[k] \/ new[k] = [segs[k] EXCEPT !.words = hand] BY DEF Rewritten
  <2> HIDE DEF new
  <2>3. [segs[k] EXCEPT !.words = hand] \in TextSegment /\ [segs[k] EXCEPT !.words = hand].place = segs[k].place
    BY <2>1 DEF TextSegment
  <2> QED BY <2>1, <2>2, <2>3
<1>3. DOMAIN new = DOMAIN segs BY DEF Rewritten
<1>4. new \in Seq(TextSegment) /\ Len(new) = Len(segs)
  <2>1. new \in [1 .. Len(segs) -> TextSegment] BY <1>1, <1>2 DEF Rewritten
  <2> HIDE DEF new
  <2> QED BY <1>1, <2>1
<1> HIDE DEF new
<1>5. \A k \in DOMAIN new : Mixed(new[k]) => k = 1 BY <1>2, <1>3 DEF TextFits, Mixed
<1>6. TextFits(new) BY <1>4, <1>5 DEF TextFits
<1>7. Places(new) = Places(segs) BY <1>2, <1>3 DEF Places
<1> QED BY <1>6, <1>7 DEF new

LEMMA Hearing ==
  ASSUME NEW n \in 1 .. MaxTakes
  PROVE  /\ AsHeard(n) \in Seq(TextSegment) /\ Len(AsHeard(n)) = Width
         /\ \A k \in DOMAIN AsHeard(n) : Mixed(AsHeard(n)[k]) => k = 1
         /\ TextFits(AsHeard(n))
<1> DEFINE p(k) == [take |-> n, at |-> k, turn |-> 1]
<1>1. \A k \in 1 .. Width : p(k) \in Place /\ p(k).at = k BY DEF Place
<1>2. AsHeard(n) = [k \in 1 .. Width |-> [place |-> p(k), words |-> "asr", heard |-> p(k)]]
  BY DEF AsHeard
<1> HIDE DEF p
<1>3. \A k \in 1 .. Width : AsHeard(n)[k] \in TextSegment /\ AsHeard(n)[k].place = p(k)
  BY <1>1, <1>2 DEF TextSegment
<1>4. Width \in Nat BY RevisionAssumption
<1>5. AsHeard(n) \in Seq(TextSegment) /\ Len(AsHeard(n)) = Width /\ DOMAIN AsHeard(n) = 1 .. Width
  <2>1. AsHeard(n) \in [1 .. Width -> TextSegment] BY <1>2, <1>3
  <2> QED BY <1>4, <2>1
<1>6. \A k \in DOMAIN AsHeard(n) : Mixed(AsHeard(n)[k]) => k = 1 BY <1>1, <1>3, <1>5 DEF Mixed
<1>7. TextFits(AsHeard(n)) BY <1>4, <1>5, <1>6 DEF TextFits
<1> QED BY <1>5, <1>6, <1>7

\* The place of the second turn of a segment.
Second(p) == [p EXCEPT !.turn = 2]

\* Splitting the first segment of a take adds one segment, at the place of its second turn.
LEMMA Splitting ==
  ASSUME RevisionInv, NEW segs, TextFits(segs), ~raw.grouped
  PROVE  /\ Turns(segs) \in Seq(TextSegment) /\ Len(Turns(segs)) <= 2 * Width
         /\ \A k \in DOMAIN Turns(segs) : Mixed(Turns(segs)[k]) => k = 1
         /\ Places(Turns(segs)) = Places(segs) \cup {Second(p) : p \in {q \in Places(segs) : q.at = 1 /\ q.turn = 1}}
<1>1. segs \in Seq(TextSegment) /\ Len(segs) \in Nat /\ Len(segs) <= Width /\ DOMAIN segs = 1 .. Len(segs)
      /\ \A k \in DOMAIN segs : Mixed(segs[k]) => k = 1
  BY DEF TextFits
<1>2. Width \in Nat /\ Width >= 1 BY RevisionTypes
<1>3. CASE ~(segs # << >> /\ Mixed(segs[1]))
  <2>1. Turns(segs) = segs BY <1>3 DEF Turns
  <2>2. \A k \in DOMAIN segs : ~Mixed(segs[k])
    <3>1. segs = << >> => DOMAIN segs = {} OBVIOUS
    <3> QED BY <1>1, <1>3, <3>1
  <2>3. {q \in Places(segs) : q.at = 1 /\ q.turn = 1} = {} BY <2>2 DEF Places, Mixed
  <2>4. Places(segs) = Places(segs) \cup {Second(p) : p \in {q \in Places(segs) : q.at = 1 /\ q.turn = 1}} BY <2>3
  <2> QED BY <1>1, <1>2, <2>1, <2>4
<1>4. CASE segs # << >> /\ Mixed(segs[1])
  <2> DEFINE f == segs[1]
             g == [f EXCEPT !.place.turn = 2, !.heard.turn = 2]
             new == <<f, g>> \o Tail(segs)
  <2>1. Turns(segs) = new BY <1>4 DEF Turns
  <2>2. 1 \in DOMAIN segs /\ Len(segs) >= 1 BY <1>1, <1>4
  <2>3. f \in TextSegment /\ Mixed(f) BY <1>1, <1>4, <2>2
  <2>4. g \in TextSegment /\ g.place = Second(f.place) /\ ~Mixed(g)
    <3>1. f.place \in Place /\ f.heard \in Place BY <2>3 DEF TextSegment
    <3>2. Second(f.place) \in Place /\ Second(f.heard) \in Place /\ Second(f.place).turn = 2
      BY <3>1 DEF Second, Place
    <3>3. g = [f EXCEPT !.place = Second(f.place), !.heard = Second(f.heard)]
      BY <2>3, <3>1 DEF Second, TextSegment, Place
    <3> HIDE DEF f, g
    <3>4. g \in TextSegment /\ g.place = Second(f.place) BY <2>3, <3>2, <3>3 DEF TextSegment
    <3> QED BY <3>2, <3>4 DEF Mixed
  <2> HIDE DEF g
  <2>5. /\ new \in Seq(TextSegment) /\ Len(new) = Len(segs) + 1
        /\ new[1] = f /\ new[2] = g /\ \A k \in 3 .. Len(new) : new[k] = segs[k - 1]
    <3> HIDE DEF f
    <3>1. <<f, g>> \in Seq(TextSegment) /\ Len(<<f, g>>) = 2 BY <2>3, <2>4
    <3>2. Tail(segs) \in Seq(TextSegment) /\ Len(Tail(segs)) = Len(segs) - 1
          /\ \A k \in 1 .. Len(segs) - 1 : Tail(segs)[k] = segs[k + 1]
      BY <1>1, <1>4
    <3>3. new \in Seq(TextSegment) /\ Len(new) = Len(segs) + 1 BY <1>1, <3>1, <3>2
    <3>4. new[1] = f /\ new[2] = g BY <3>1, <3>2
    <3>5. ASSUME NEW k \in 3 .. Len(new) PROVE new[k] = segs[k - 1]
      <4>1. k - 2 \in 1 .. Len(segs) - 1 BY <1>1, <3>3
      <4>2. new[k] = Tail(segs)[k - 2] BY <3>1, <3>2, <3>3, <4>1
      <4> QED BY <3>2, <4>1, <4>2
    <3> QED BY <3>3, <3>4, <3>5
  <2> HIDE DEF new
  <2>6. DOMAIN new = 1 .. Len(new) BY <2>5
  <2>7. \A k \in DOMAIN new : k = 1 \/ k = 2 \/ (k \in 3 .. Len(new) /\ k - 1 \in DOMAIN segs /\ k - 1 # 1)
    BY <1>1, <2>5, <2>6
  <2>8. \A k \in DOMAIN new : Mixed(new[k]) => k = 1
    <3> TAKE k \in DOMAIN new
    <3>1. CASE k = 2 BY <2>4, <2>5, <3>1
    <3>2. CASE k \in 3 .. Len(new) /\ k - 1 \in DOMAIN segs /\ k - 1 # 1 BY <1>1, <2>5, <3>2
    <3> QED BY <2>7, <3>1, <3>2
  <2>9. Places(new) = Places(segs) \cup {Second(f.place)}
    <3>1. \A k \in DOMAIN new : new[k].place \in Places(segs) \cup {Second(f.place)}
      <4> TAKE k \in DOMAIN new
      <4>1. CASE k = 1 BY <2>2, <2>5, <4>1 DEF Places
      <4>2. CASE k = 2 BY <2>4, <2>5, <4>2
      <4>3. CASE k \in 3 .. Len(new) /\ k - 1 \in DOMAIN segs /\ k - 1 # 1 BY <2>5, <4>3 DEF Places
      <4> QED BY <2>7, <4>1, <4>2, <4>3
    <3>2. \A j \in DOMAIN segs : \E k \in DOMAIN new : new[k].place = segs[j].place
      <4> TAKE j \in DOMAIN segs
      <4>1. CASE j = 1
        <5>1. 1 \in DOMAIN new BY <1>1, <2>5, <2>6
        <5> QED BY <2>5, <4>1, <5>1
      <4>2. CASE j # 1
        <5>1. j + 1 \in 3 .. Len(new) /\ (j + 1) - 1 = j BY <1>1, <2>5, <4>2
        <5>2. new[j + 1] = segs[j] BY <2>5, <5>1
        <5>3. j + 1 \in DOMAIN new BY <1>1, <2>5, <2>6, <5>1
        <5> QED BY <5>2, <5>3
      <4> QED BY <4>1, <4>2
    <3>3. 2 \in DOMAIN new /\ new[2].place = Second(f.place) BY <1>1, <2>2, <2>4, <2>5, <2>6
    <3> QED BY <3>1, <3>2, <3>3 DEF Places
  <2>10. {q \in Places(segs) : q.at = 1 /\ q.turn = 1} = {f.place}
    <3>1. \A j \in DOMAIN segs : segs[j].place.at = 1 /\ segs[j].place.turn = 1 => j = 1
      BY <1>1 DEF Mixed
    <3>2. f.place.at = 1 /\ f.place.turn = 1 BY <2>3 DEF Mixed
    <3> QED BY <2>2, <3>1, <3>2 DEF Places
  <2>11. Len(new) <= 2 * Width BY <1>1, <1>2, <2>5
  <2> QED BY <2>1, <2>5, <2>8, <2>9, <2>10, <2>11
<1> QED BY <1>3, <1>4

\* A step that leaves the texts alone.
LEMMA TextsStand ==
  ASSUME RevisionInv, UNCHANGED <<raw, revisions, takes>>, claimed' \in BOOLEAN, titled' \in BOOLEAN,
         page' \in SeenText, plan' \in SeenText, PageFits'
  PROVE  RevisionInv'
<1>1. RevisionTypeOK' /\ raw'.take <= takes' BY DEF RevisionInv, RevisionTypeOK, Rev
<1>2. TextsFit' BY DEF RevisionInv, TextsFit, TextFits
<1>3. HumanLast' BY DEF RevisionInv, HumanLast, HumanFree, HumanOwned, KindsSoFar, Rev
<1>4. BasesFit' BY DEF RevisionInv, BasesFit, HumanFree, KindsSoFar
<1>5. MachineFits'
  <2>1. UNCHANGED <<Rev, Canon, AcousticBase>> BY DEF Rev, Canon, AcousticBase
  <2>2. Origin(AcousticBase)' = Origin(AcousticBase) BY <2>1 DEF Origin
  <2>3. MachineFits BY DEF RevisionInv
  <2> QED BY <2>1, <2>2, <2>3 DEF MachineFits
<1> QED BY <1>1, <1>2, <1>3, <1>4, <1>5 DEF RevisionInv

LEMMA QuietSteps ==
  ASSUME RevisionInv, ProcessingStarts \/ ProcessingStops \/ Opens \/ NameSpeaker \/ PlansRepair \/ UNCHANGED revisionVars
  PROVE  RevisionInv'
<1>1. claimed \in BOOLEAN /\ titled \in BOOLEAN /\ page \in SeenText /\ plan \in SeenText /\ PageFits
  BY DEF RevisionInv, RevisionTypeOK
<1>2. CASE ProcessingStarts \/ ProcessingStops \/ NameSpeaker \/ UNCHANGED revisionVars
  <2>1. UNCHANGED <<raw, revisions, takes, page, plan>> /\ claimed' \in BOOLEAN /\ titled' \in BOOLEAN
    BY <1>1, <1>2 DEF ProcessingStarts, ProcessingStops, NameSpeaker, revisionVars
  <2>2. PageFits' BY <1>1, <2>1 DEF PageFits
  <2> QED BY <1>1, <2>1, <2>2, TextsStand
<1>3. Rev \in 0 .. MaxChanges /\ raw.take \in 0 .. MaxTakes /\ Canon \in Seq(TextSegment)
  <2>1. Rev <= MaxChanges BY DEF RevisionInv, RevisionTypeOK
  <2>2. Rev \in Nat /\ raw.take \in 1 .. MaxTakes /\ MaxChanges \in Nat BY RevisionTypes
  <2> QED BY <2>1, <2>2, CanonFits DEF TextFits
<1>4. CASE Opens
  <2>1. UNCHANGED <<raw, revisions, takes, plan, claimed, titled>>
        /\ page' = [rev |-> Rev, take |-> 0, segs |-> Canon, removed |-> {}]
    BY <1>4 DEF Opens, Nothing
  <2>2. page' \in SeenText
    <3>1. 0 \in 0 .. MaxTakes BY RevisionTypes
    <3> QED BY <1>3, <2>1, <3>1 DEF SeenText
  <2>3. PageFits' BY <2>1, CanonFits DEF PageFits
  <2> QED BY <1>1, <2>1, <2>2, <2>3, TextsStand
<1>5. CASE PlansRepair
  <2>1. PICK S \in SUBSET DOMAIN Canon : plan' = [rev |-> Rev, take |-> raw.take, segs |-> Canon, removed |-> S]
    BY <1>5 DEF PlansRepair
  <2>2. UNCHANGED <<raw, revisions, takes, page, claimed, titled>> BY <1>5 DEF PlansRepair
  <2>3. S \in SUBSET (1 .. 2 * Width) BY CanonFits
  <2>4. plan' \in SeenText BY <1>3, <2>1, <2>3 DEF SeenText
  <2>5. PageFits' BY <1>1, <2>2 DEF PageFits
  <2> QED BY <1>1, <2>2, <2>4, <2>5, TextsStand
<1> QED BY <1>2, <1>4, <1>5

LEMMA Transcribing ==
  ASSUME RevisionInv, TranscribesAgain
  PROVE  RevisionInv'
<1>1. takes \in 1 .. MaxTakes /\ MaxTakes \in Nat /\ raw.take \in 1 .. MaxTakes /\ raw.take <= takes
      /\ Width \in Nat /\ Width >= 1 /\ Rev \in Nat /\ DOMAIN revisions = 1 .. Rev
      /\ \A n \in DOMAIN revisions : revisions[n].base \in 1 .. MaxTakes
  BY RevisionTypes
<1>2. UNCHANGED <<revisions, claimed, titled, page, plan>> /\ takes' = takes + 1 /\ takes < MaxTakes
  BY DEF TranscribesAgain
<1>3. PICK heard \in {AsHeard(takes + 1), << >>} : raw' = [take |-> takes + 1, segs |-> heard, grouped |-> TRUE]
  BY DEF TranscribesAgain
<1>4. raw'.take = takes + 1 /\ raw'.segs = heard /\ raw'.grouped = TRUE BY <1>3
<1>5. takes + 1 \in 1 .. MaxTakes BY <1>1, <1>2
<1>6. heard \in Seq(TextSegment) /\ Len(heard) <= 2 * Width /\ \A k \in DOMAIN heard : Mixed(heard[k]) => k = 1
  <2>1. CASE heard = AsHeard(takes + 1) BY <1>1, <1>5, <2>1, Hearing
  <2>2. CASE heard = << >> BY <1>1, <2>2
  <2> QED BY <2>1, <2>2
<1>7. TextsFit'
  <2>1. ASSUME NEW n \in DOMAIN revisions PROVE TextFits(revisions[n].segs)'
    <3>1. TextFits(revisions[n].segs) BY <2>1 DEF RevisionInv, TextsFit
    <3>2. Len(revisions[n].segs) <= 2 * Width
      <4>1. Len(revisions[n].segs) \in Nat BY <3>1 DEF TextFits
      <4> QED BY <1>1, <3>1, <4>1 DEF TextFits
    <3> QED BY <1>2, <1>4, <3>1, <3>2 DEF TextFits, Mixed
  <2>2. TextFits(raw.segs)' BY <1>4, <1>6 DEF TextFits, Mixed
  <2> QED BY <1>2, <2>1, <2>2 DEF TextsFit
<1>8. RevisionTypeOK'
  <2>1. raw' \in [take : 1 .. MaxTakes, segs : Seq(TextSegment), grouped : BOOLEAN] BY <1>3, <1>5, <1>6
  <2> QED BY <1>2, <1>5, <2>1 DEF RevisionInv, RevisionTypeOK, Rev
<1>9. HumanLast' BY <1>2 DEF RevisionInv, HumanLast, HumanFree, HumanOwned, KindsSoFar, Rev
<1>10. \A n \in DOMAIN revisions : revisions[n].base <= raw'.take /\ revisions[n].base # raw'.take
  <2>1. BasesFit BY DEF RevisionInv
  <2>2. \A n \in DOMAIN revisions : revisions[n].base <= raw.take BY <2>1 DEF BasesFit
  <2> QED BY <1>1, <1>4, <2>2
<1>11. BasesFit' BY <1>2, <1>10 DEF BasesFit
<1>12. PageFits' BY <1>2 DEF RevisionInv, PageFits
<1>13. MachineFits'
  <2>1. Rev' = Rev BY <1>2 DEF Rev
  <2>2. Rev # 0 => Last(revisions).base # raw'.take BY <1>10, CanonFits
  <2> QED BY <1>2, <2>1, <2>2 DEF MachineFits
<1>14. raw'.take <= takes' BY <1>1, <1>2, <1>4
<1> QED BY <1>7, <1>8, <1>9, <1>11, <1>12, <1>13, <1>14 DEF RevisionInv

\* Rules, silence, edits and repairs of the text that is shown.
LEMMA Emptying == ASSUME RevisionInv PROVE TextFits(<< >>)
BY RevisionTypes DEF TextFits

LEMMA TextsEdited ==
  ASSUME RevisionInv,
         \/ RetiresSpeech \/ AppliesRules \/ (\E k \in 1 .. 2 * Width : EditSegment(k)) \/ ReassignSpeaker
         \/ ReplaceText \/ ApplyVocabulary
  PROVE  RevisionInv'
<1>1. claimed \in BOOLEAN /\ titled \in BOOLEAN /\ takes \in takes .. MaxTakes
  <2>1. takes \in 1 .. MaxTakes BY RevisionTypes
  <2> QED BY <2>1 DEF RevisionInv, RevisionTypeOK
<1>2. UNCHANGED <<raw, takes, claimed, titled, plan>> /\ page' \in {page, Nothing}
  BY DEF RetiresSpeech, AppliesRules, EditSegment, ReassignSpeaker, ReplaceText, ApplyVocabulary
<1>3. \E sort \in RevisionKinds \ Machine : \E segs : TextFits(segs) /\ Appends(sort, segs) /\ (~HumanFree => sort \in Human)
  <2>1. CASE RetiresSpeech
    <3>1. Appends("speech_cleanup", << >>) /\ ~HumanOwned BY <2>1 DEF RetiresSpeech
    <3>2. HumanFree BY <3>1, HumanKinds
    <3> QED BY <3>1, <3>2, Emptying DEF RevisionKinds, Machine, Acoustic
  <2>2. CASE AppliesRules
    <3>1. PICK k \in DOMAIN Canon : Appends("vocabulary", Rewritten(Canon, {k}, "rule"))
      BY <2>2 DEF AppliesRules
    <3>2. HumanFree BY <2>2, HumanKinds DEF AppliesRules
    <3>3. TextFits(Rewritten(Canon, {k}, "rule")) BY CanonFits, Rewriting
    <3> QED BY <3>1, <3>2, <3>3 DEF RevisionKinds, Machine, Acoustic
  <2>3. ASSUME NEW k \in 1 .. 2 * Width, EditSegment(k)
        PROVE  \E sort \in RevisionKinds \ Machine : \E segs : TextFits(segs) /\ Appends(sort, segs) /\ (~HumanFree => sort \in Human)
    <3>1. PICK hand \in {"person", "blank"} : Appends("user_edit", Rewritten(Canon, {k}, hand))
      BY <2>3 DEF EditSegment
    <3>2. TextFits(Rewritten(Canon, {k}, hand)) BY CanonFits, Rewriting
    <3> QED BY <3>1, <3>2 DEF RevisionKinds, Machine, Human
  <2>4. CASE ReassignSpeaker
    <3>1. Appends("speaker_edit", Canon) BY <2>4 DEF ReassignSpeaker
    <3> QED BY <3>1, CanonFits DEF RevisionKinds, Machine, Human
  <2>5. CASE ReplaceText
    <3>1. PICK S \in SUBSET Spoken(Canon) : Appends("user_edit", Rewritten(Canon, S, "person"))
      BY <2>5 DEF ReplaceText
    <3>2. TextFits(Rewritten(Canon, S, "person")) BY CanonFits, Rewriting
    <3> QED BY <3>1, <3>2 DEF RevisionKinds, Machine, Human
  <2>6. CASE ApplyVocabulary
    <3>1. PICK k \in Spoken(Canon) : Appends("vocabulary:manual", Rewritten(Canon, {k}, "rule"))
      BY <2>6 DEF ApplyVocabulary
    <3>2. TextFits(Rewritten(Canon, {k}, "rule")) BY CanonFits, Rewriting
    <3> QED BY <3>1, <3>2 DEF RevisionKinds, Machine, Human
  <2> QED BY <2>1, <2>2, <2>3, <2>4, <2>5, <2>6
<1>4. PICK sort \in RevisionKinds \ Machine :
        \E segs : TextFits(segs) /\ Appends(sort, segs) /\ (~HumanFree => sort \in Human)
  BY <1>3
<1>5. PICK segs : TextFits(segs) /\ Appends(sort, segs) /\ (~HumanFree => sort \in Human)
  BY <1>4
<1> QED BY <1>1, <1>2, <1>5, AppendsToRaw

LEMMA Restoring ==
  ASSUME RevisionInv, NEW n \in DOMAIN revisions, RestoreRevision(n)
  PROVE  RevisionInv'
<1>1. claimed \in BOOLEAN /\ titled \in BOOLEAN /\ takes \in takes .. MaxTakes
  <2>1. takes \in 1 .. MaxTakes BY RevisionTypes
  <2> QED BY <2>1 DEF RevisionInv, RevisionTypeOK
<1>2. UNCHANGED <<raw, takes, claimed, titled, plan>> /\ page' \in {page, Nothing} /\ MoreChanges
      /\ revisions' = Append(revisions, [revisions[n] EXCEPT !.kind = "user_edit"])
  BY DEF RestoreRevision
<1>3. revisions[n] \in Revision /\ TextFits(revisions[n].segs)
  BY RevisionTypes DEF RevisionInv, TextsFit
<1>4. [revisions[n] EXCEPT !.kind = "user_edit"] = [base |-> revisions[n].base, kind |-> "user_edit", segs |-> revisions[n].segs]
  BY <1>3 DEF Revision
<1>5. revisions[n].base \in 1 .. raw.take
  <2>1. revisions[n].base <= raw.take BY DEF RevisionInv, BasesFit
  <2>2. revisions[n].base \in Nat /\ revisions[n].base >= 1 /\ raw.take \in Nat BY RevisionTypes
  <2> QED BY <2>1, <2>2
<1>6. "user_edit" \in RevisionKinds /\ "user_edit" \in Human /\ "user_edit" \notin Machine
  BY DEF RevisionKinds, Human, Machine
<1>7. revisions' = Append(revisions, [base |-> revisions[n].base, kind |-> "user_edit", segs |-> revisions[n].segs])
  BY <1>2, <1>4
<1> QED BY <1>1, <1>2, <1>3, <1>5, <1>6, <1>7, Appending

LEMMA Repairing ==
  ASSUME RevisionInv, RepairEmptied
  PROVE  RevisionInv'
<1> DEFINE new == [k \in DOMAIN Canon |->
                     IF k \in Emptied THEN [Canon[k] EXCEPT !.words = raw.segs[k].words, !.heard = raw.segs[k].heard]
                                      ELSE Canon[k]]
<1>1. claimed \in BOOLEAN /\ titled \in BOOLEAN /\ takes \in takes .. MaxTakes
  <2>1. takes \in 1 .. MaxTakes BY RevisionTypes
  <2> QED BY <2>1 DEF RevisionInv, RevisionTypeOK
<1>2. UNCHANGED <<raw, takes, claimed, titled, page, plan>> /\ Appends("restore", new)
  BY DEF RepairEmptied
<1>3. TextFits(Canon) /\ Canon \in Seq(TextSegment) /\ raw.segs \in Seq(TextSegment)
  BY CanonFits, RevisionTypes DEF TextFits
<1>4. ASSUME NEW k \in DOMAIN Canon PROVE new[k] \in TextSegment /\ new[k].place = Canon[k].place
  <2>1. Canon[k] \in TextSegment BY <1>3
  <2>2. CASE k \in Emptied
    <3>1. raw.segs[k] \in TextSegment BY <1>3, <2>2 DEF Emptied
    <3>2. new[k] = [Canon[k] EXCEPT !.words = raw.segs[k].words, !.heard = raw.segs[k].heard] BY <2>2
    <3> HIDE DEF new
    <3> QED BY <2>1, <3>1, <3>2 DEF TextSegment
  <2>3. CASE k \notin Emptied BY <2>1, <2>3
  <2> QED BY <2>2, <2>3
<1>5. DOMAIN Canon = 1 .. Len(Canon) /\ Len(Canon) \in Nat BY <1>3
<1>6. new \in Seq(TextSegment) /\ Len(new) = Len(Canon) /\ DOMAIN new = DOMAIN Canon
  <2>1. new \in [1 .. Len(Canon) -> TextSegment] BY <1>4, <1>5
  <2> HIDE DEF new
  <2> QED BY <1>5, <2>1
<1> HIDE DEF new
<1>7. \A k \in DOMAIN new : Mixed(new[k]) => k = 1 BY <1>3, <1>4, <1>6 DEF TextFits, Mixed
<1>8. TextFits(new) BY <1>3, <1>6, <1>7 DEF TextFits
<1>9. "restore" \in RevisionKinds /\ "restore" \in Human /\ "restore" \notin Machine
  BY DEF RevisionKinds, Human, Machine
<1> QED BY <1>1, <1>2, <1>8, <1>9, AppendsToRaw

\* What cleanup keeps, in the order it had.
LEMMA Cleaning ==
  ASSUME RevisionInv, CleansSpeech
  PROVE  /\ RevisionInv' /\ CleanupIsPlanned
<1> DEFINE stays == DOMAIN Canon \ plan.removed
<1>1. PICK at \in [1 .. Cardinality(stays) -> stays] :
         /\ \A k \in stays : \E n \in DOMAIN at : at[n] = k
         /\ \A m, n \in DOMAIN at : m < n => at[m] < at[n]
         /\ Appends("speech_cleanup", [n \in DOMAIN at |-> Canon[at[n]]])
  BY DEF CleansSpeech
<1> DEFINE new == [n \in DOMAIN at |-> Canon[at[n]]]
<1>2. TextFits(Canon) /\ Canon \in Seq(TextSegment) /\ Len(Canon) \in Nat /\ DOMAIN Canon = 1 .. Len(Canon)
  BY CanonFits DEF TextFits
<1>3. Cardinality(stays) \in Nat /\ Cardinality(stays) <= Len(Canon)
  <2>1. IsFiniteSet(1 .. Len(Canon)) /\ Cardinality(1 .. Len(Canon)) = Len(Canon)
    <3> DEFINE last == Len(Canon)
    <3>1. last \in Nat /\ 1 \in Int BY <1>2
    <3> HIDE DEF last
    <3>2. IsFiniteSet(1 .. last) /\ Cardinality(1 .. last) = IF 1 > last THEN 0 ELSE last - 1 + 1
      BY <3>1, FS_Interval
    <3>3. Cardinality(1 .. last) = last BY <3>1, <3>2
    <3> QED BY <3>2, <3>3 DEF last
  <2>2. stays \subseteq 1 .. Len(Canon) BY <1>2
  <2> HIDE DEF stays
  <2>3. IsFiniteSet(stays) /\ Cardinality(stays) <= Cardinality(1 .. Len(Canon))
    BY <2>1, <2>2, FS_Subset
  <2>4. Cardinality(stays) \in Nat BY <2>3, FS_CardinalityType
  <2> QED BY <2>1, <2>3, <2>4
<1>4. \A n \in DOMAIN at : at[n] \in stays /\ at[n] \in DOMAIN Canon /\ new[n] = Canon[at[n]]
  <2>1. stays \subseteq DOMAIN Canon OBVIOUS
  <2> HIDE DEF stays
  <2> QED BY <2>1
<1> HIDE DEF stays
<1>5. new \in Seq(TextSegment) /\ Len(new) = Cardinality(stays) /\ DOMAIN new = DOMAIN at /\ DOMAIN at = 1 .. Cardinality(stays)
  <2>1. \A n \in DOMAIN at : new[n] \in TextSegment BY <1>2, <1>4
  <2>2. new \in [1 .. Cardinality(stays) -> TextSegment] BY <2>1
  <2> HIDE DEF new
  <2> QED BY <1>3, <2>2
<1>6. Appends("speech_cleanup", new) BY <1>1
<1> HIDE DEF new
<1>7. \A n \in DOMAIN new : Mixed(new[n]) => n = 1
  <2> SUFFICES ASSUME NEW n \in DOMAIN new, Mixed(new[n]), n # 1 PROVE FALSE OBVIOUS
  <2>1. n \in DOMAIN at /\ at[n] = 1 BY <1>2, <1>4, <1>5 DEF TextFits
  <2>2. 1 \in DOMAIN at /\ 1 < n BY <1>3, <1>5
  <2>3. at[1] < 1 BY <1>1, <2>1, <2>2
  <2>4. at[1] \in Nat /\ at[1] >= 1 BY <1>2, <1>4, <2>2
  <2> QED BY <2>3, <2>4
<1>8. TextFits(new)
  <2>1. Len(new) <= Len(Canon) BY <1>3, <1>5
  <2>2. Width \in Nat BY RevisionTypes
  <2>3. Len(new) <= IF raw.grouped THEN 2 * Width ELSE Width
    BY <1>2, <1>3, <1>5, <2>1, <2>2 DEF TextFits
  <2> QED BY <1>5, <1>7, <2>3 DEF TextFits
<1>9. claimed \in BOOLEAN /\ titled \in BOOLEAN /\ takes \in takes .. MaxTakes
  <2>1. takes \in 1 .. MaxTakes BY RevisionTypes
  <2> QED BY <2>1 DEF RevisionInv, RevisionTypeOK
<1>10. UNCHANGED <<raw, takes, claimed, titled, page>> /\ plan' = Nothing /\ HumanFree /\ plan.segs = Canon
  BY DEF CleansSpeech, PlanStands, HumanFree
<1>11. "speech_cleanup" \in RevisionKinds /\ "speech_cleanup" \notin Machine
  BY DEF RevisionKinds, Acoustic, Machine
<1>12. RevisionInv' BY <1>6, <1>8, <1>9, <1>10, <1>11, AppendsToRaw
<1>13. Canon' = new BY <1>6, Shown
<1>14. CleanupIsPlanned
  <2> SUFFICES ASSUME NEW k \in DOMAIN Canon, Canon[k].place \notin Places(new) PROVE k \in plan.removed
    BY <1>10, <1>13 DEF CleanupIsPlanned, Places
  <2>1. CASE k \in stays
    <3>1. PICK n \in DOMAIN at : at[n] = k BY <1>1, <2>1
    <3>2. new[n] = Canon[k] /\ n \in DOMAIN new BY <1>4, <1>5, <3>1
    <3> QED BY <3>2 DEF Places
  <2>2. CASE k \notin stays BY <2>2 DEF stays
  <2> QED BY <2>1, <2>2
<1> QED BY <1>12, <1>14

LEMMA Retranscribing ==
  ASSUME RevisionInv, Retranscribes
  PROVE  RevisionInv'
<1>1. takes \in 1 .. MaxTakes /\ MaxTakes \in Nat BY RevisionTypes
<1>2. UNCHANGED <<raw, claimed, titled, page>> /\ plan' = Nothing /\ HumanFree /\ takes' = takes + 1 /\ takes < MaxTakes
      /\ Appends("speech_retranscribe", AsHeard(takes + 1))
  BY DEF Retranscribes, PlanStands, HumanFree
<1>3. takes + 1 \in 1 .. MaxTakes /\ takes' \in takes .. MaxTakes BY <1>1, <1>2
<1>4. TextFits(AsHeard(takes + 1)) BY <1>3, Hearing
<1>5. claimed' \in BOOLEAN /\ titled' \in BOOLEAN BY <1>2 DEF RevisionInv, RevisionTypeOK
<1>6. "speech_retranscribe" \in RevisionKinds /\ "speech_retranscribe" \notin Machine
  BY DEF RevisionKinds, Acoustic, Machine
<1> QED BY <1>2, <1>3, <1>4, <1>5, <1>6, AppendsToRaw

\* A polished text has the places of the one it was made of, and would be made of it again.
LEMMA Polishing ==
  ASSUME RevisionInv, Polishes
  PROVE  RevisionInv' /\ RemovedSpeechStaysRemoved
<1> DEFINE source == Origin(PolishInput)
           new == Rewritten(source, Spoken(source), "ai")
<1>1. HumanFree /\ ~HumanOwned BY HumanKinds DEF Polishes, OwnedInput
<1>2. Rev \in Nat /\ DOMAIN revisions = 1 .. Rev /\ raw.take \in 1 .. MaxTakes
      /\ \A n \in DOMAIN revisions : revisions[n].kind \in RevisionKinds \ Human
  BY <1>1, RevisionTypes, HumanKinds
<1>3. AcousticBase = Latest(Bases) /\ Bases \subseteq 1 .. Rev - 1 BY AcousticIsLatest DEF Bases
<1>4. AcousticBase = 0 \/ AcousticBase \in 1 .. Rev
  <2>1. Bases \in SUBSET (1 .. Rev) BY <1>2, <1>3
  <2> QED BY <1>2, <1>3, <2>1, LatestOf
<1>5. PolishInput = 0 \/ PolishInput \in DOMAIN revisions BY <1>2, <1>4 DEF PolishInput
<1>6. TextFits(source)
  <2>1. CASE PolishInput = 0 BY <2>1 DEF RevisionInv, TextsFit, Origin
  <2>2. CASE PolishInput # 0 BY <1>5, <2>2 DEF RevisionInv, TextsFit, Origin
  <2> QED BY <2>1, <2>2
<1>7. PICK sort \in Machine : Appends(sort, new) BY DEF Polishes, Origin, Machine
<1>8. UNCHANGED <<raw, takes, claimed, titled, page, plan>> BY DEF Polishes
<1> HIDE DEF new, source
<1>9. TextFits(new) /\ Places(new) = Places(source) BY <1>6, Rewriting DEF new
<1>10. Canon' = new BY <1>7, Shown
<1>11. /\ Rev' = Rev + 1 /\ \A n \in 1 .. Rev : revisions'[n] = revisions[n]
  <2>1. revisions' = Append(revisions, [base |-> raw.take, kind |-> sort, segs |-> new])
    BY <1>7 DEF Appends
  <2> QED BY <2>1, OneMore
<1>12. Bases' = {n \in 1 .. Rev : revisions[n].base = raw.take /\ revisions[n].kind \in Acoustic \cup {"vocabulary:manual"}}
  <2>1. Rev' - 1 = Rev BY <1>2, <1>11
  <2> QED BY <1>8, <1>11, <2>1 DEF Bases
<1>13. AcousticBase' = Latest(Bases') BY DEF AcousticBase, Latest, Bases
<1>14. Bases' \in SUBSET (1 .. Rev) BY <1>12
<1>15. AcousticBase' = PolishInput
  <2>1. CASE Rev = 0
    <3>1. Bases' = {} BY <1>14, <2>1
    <3>2. AcousticBase' = 0 BY <1>2, <1>13, <1>14, <3>1, LatestOf
    <3> QED BY <2>1, <3>2 DEF PolishInput
  <2>2. CASE Rev # 0 /\ Last(revisions).kind \in Machine
    <3>1. revisions[Rev].kind \notin Acoustic \cup {"vocabulary:manual"}
      BY <2>2, CanonFits, HumanKinds DEF Machine, Acoustic
    <3>2. Bases' = Bases BY <1>2, <1>12, <3>1 DEF Bases
    <3> QED BY <1>3, <1>13, <2>2, <3>2 DEF PolishInput
  <2>3. CASE Rev # 0 /\ Last(revisions).kind \notin Machine /\ Last(revisions).base # raw.take
    <3>1. \A n \in DOMAIN revisions : revisions[n].base # raw.take
      BY <1>1, <2>3 DEF RevisionInv, BasesFit
    <3>2. Bases' = {} BY <1>2, <1>12, <3>1
    <3>3. AcousticBase' = 0 BY <1>2, <1>13, <1>14, <3>2, LatestOf
    <3> QED BY <2>3, <3>3 DEF PolishInput
  <2>4. CASE Rev # 0 /\ Last(revisions).kind \notin Machine /\ Last(revisions).base = raw.take
    <3>1. PolishInput = Rev BY <2>4 DEF PolishInput
    <3>2. Rev \in DOMAIN revisions /\ Last(revisions) = revisions[Rev] BY <2>4, CanonFits
    <3>3. revisions[Rev].kind \in Acoustic BY <1>2, <2>4, <3>2 DEF RevisionKinds
    <3>4. Rev \in Bases' BY <1>2, <1>12, <2>4, <3>2, <3>3
    <3>5. AcousticBase' \in Bases' /\ Rev <= AcousticBase' BY <1>2, <1>13, <1>14, <3>4, LatestOf
    <3>6. AcousticBase' \in 1 .. Rev BY <1>14, <3>5
    <3> QED BY <1>2, <3>1, <3>5, <3>6
  <2> QED BY <2>1, <2>2, <2>3, <2>4
<1>16. Origin(AcousticBase)' = source
  <2>1. CASE PolishInput = 0 BY <1>8, <1>15, <2>1 DEF Origin, source
  <2>2. CASE PolishInput # 0
    <3>1. revisions'[PolishInput] = revisions[PolishInput] BY <1>2, <1>5, <1>11, <2>2
    <3> QED BY <1>15, <2>2, <3>1 DEF Origin, source
  <2> QED BY <2>1, <2>2
<1>17. MachineFits' BY <1>9, <1>10, <1>16 DEF MachineFits
<1>18. RevisionInv'
  <2>1. claimed' \in BOOLEAN /\ titled' \in BOOLEAN BY <1>8 DEF RevisionInv, RevisionTypeOK
  <2>2. takes' \in takes .. MaxTakes
    <3>1. takes \in 1 .. MaxTakes BY RevisionTypes
    <3> QED BY <1>8, <3>1
  <2>3. sort \in RevisionKinds BY DEF RevisionKinds
  <2> QED BY <1>1, <1>7, <1>8, <1>9, <1>17, <2>1, <2>2, <2>3, AppendsToRaw
<1>19. RemovedSpeechStaysRemoved
  <2> SUFFICES ASSUME Rev # 0, Last(revisions).base = raw.take PROVE Places(new) = Places(Canon)
    BY <1>10 DEF RemovedSpeechStaysRemoved
  <2>1. CASE Last(revisions).kind \in Machine
    <3>1. source = Origin(AcousticBase) BY <2>1 DEF PolishInput, source
    <3> QED BY <1>9, <2>1, <3>1 DEF RevisionInv, MachineFits
  <2>2. CASE Last(revisions).kind \notin Machine
    <3>1. source = Canon BY <2>2, CanonFits DEF PolishInput, source
    <3> QED BY <1>9, <3>1
  <2> QED BY <2>1, <2>2
<1> QED BY <1>18, <1>19

\* What is regrouped: revisions of the raw transcript at hand, the one that is shown at the end.
LEMMA ChainFits ==
  ASSUME RevisionInv, Rev # 0 => Last(revisions).base = raw.take
  PROVE  /\ Chain \in Seq(DOMAIN revisions)
         /\ \A k \in DOMAIN Chain : revisions[Chain[k]].base = raw.take
         /\ Rev = 0 => Len(Chain) = 0
         /\ Rev # 0 => Len(Chain) \in 1 .. 2 /\ Chain[Len(Chain)] = Rev
         /\ Rev # 0 /\ Last(revisions).kind \in Machine
              => \/ AcousticBase = 0 /\ Bases = {} /\ Len(Chain) = 1
                 \/ AcousticBase # 0 /\ AcousticBase \in Bases /\ Len(Chain) = 2 /\ Chain[1] = AcousticBase
<1>1. Rev \in Nat /\ DOMAIN revisions = 1 .. Rev BY RevisionTypes
<1>2. Bases \in SUBSET (1 .. Rev) /\ AcousticBase = Latest(Bases) BY <1>1, AcousticIsLatest DEF Bases
<1>3. (Bases = {} /\ AcousticBase = 0) \/ (AcousticBase \in Bases /\ AcousticBase # 0)
  <2>1. 0 \notin Bases BY <1>2
  <2> QED BY <1>1, <1>2, <2>1, LatestOf
<1>4. AcousticBase # 0 => AcousticBase \in 1 .. Rev /\ revisions[AcousticBase].base = raw.take
  BY <1>2, <1>3 DEF Bases
<1>5. CASE Rev = 0
  <2>1. Chain = << >> BY <1>5 DEF Chain
  <2> QED BY <1>5, <2>1
<1>6. CASE Rev # 0 /\ Last(revisions).kind \in Machine /\ AcousticBase # 0
  <2>1. Chain = <<AcousticBase, Rev>> BY <1>6 DEF Chain
  <2>2. Rev \in DOMAIN revisions /\ revisions[Rev].base = raw.take BY <1>6, CanonFits
  <2>3. Chain \in Seq(DOMAIN revisions) /\ Len(Chain) = 2 /\ DOMAIN Chain = 1 .. 2 /\ Chain[1] = AcousticBase /\ Chain[2] = Rev
    BY <1>1, <1>4, <1>6, <2>1, <2>2
  <2>4. \A k \in 1 .. 2 : k = 1 \/ k = 2 OBVIOUS
  <2> QED BY <1>3, <1>4, <1>6, <2>2, <2>3, <2>4
<1>7. CASE Rev # 0 /\ ~(Last(revisions).kind \in Machine /\ AcousticBase # 0)
  <2>1. Chain = <<Rev>> BY <1>7 DEF Chain
  <2>2. Rev \in DOMAIN revisions /\ revisions[Rev].base = raw.take BY <1>7, CanonFits
  <2>3. Chain \in Seq(DOMAIN revisions) /\ Len(Chain) = 1 /\ DOMAIN Chain = 1 .. 1 /\ Chain[1] = Rev
    BY <2>1, <2>2
  <2>4. \A k \in 1 .. 1 : k = 1 OBVIOUS
  <2> QED BY <1>3, <1>7, <2>2, <2>3, <2>4
<1> QED BY <1>5, <1>6, <1>7

LEMMA Regrouping ==
  ASSUME RevisionInv, Regroups
  PROVE  RevisionInv'
<1> DEFINE r(k) == [revisions[Chain[k]] EXCEPT !.segs = Turns(revisions[Chain[k]].segs)]
           added == [k \in DOMAIN Chain |-> r(k)]
<1>1. /\ UNCHANGED <<takes, claimed, titled, page, plan>> /\ ~raw.grouped /\ HumanFree
      /\ Rev # 0 => Last(revisions).base = raw.take
      /\ Rev + takes + Len(Chain) <= MaxChanges
      /\ raw' = [raw EXCEPT !.segs = Turns(raw.segs), !.grouped = TRUE]
      /\ revisions' = revisions \o added
  BY DEF Regroups, HumanFree
<1>2. /\ raw.take \in 1 .. MaxTakes /\ takes \in 1 .. MaxTakes /\ raw.take <= takes
      /\ revisions \in Seq(Revision) /\ Rev \in Nat /\ DOMAIN revisions = 1 .. Rev /\ Rev = Len(revisions)
      /\ MaxChanges \in Nat /\ Width \in Nat /\ Width >= 1
  BY RevisionTypes DEF Rev
<1>3. /\ Chain \in Seq(DOMAIN revisions) /\ \A k \in DOMAIN Chain : revisions[Chain[k]].base = raw.take
      /\ Rev = 0 => Len(Chain) = 0
      /\ Rev # 0 => Len(Chain) \in 1 .. 2 /\ Chain[Len(Chain)] = Rev
  BY <1>1, ChainFits
<1>4. raw'.take = raw.take /\ raw'.segs = Turns(raw.segs) /\ raw'.grouped = TRUE
      /\ raw' = [take |-> raw.take, segs |-> Turns(raw.segs), grouped |-> TRUE]
  BY <1>1, RevisionTypes
<1>5. \A n \in DOMAIN revisions : TextFits(revisions[n].segs) BY DEF RevisionInv, TextsFit
<1>6. ASSUME NEW k \in DOMAIN Chain
      PROVE  /\ Chain[k] \in DOMAIN revisions /\ r(k) \in Revision /\ r(k).base = raw.take
             /\ r(k).kind = revisions[Chain[k]].kind /\ r(k).segs = Turns(revisions[Chain[k]].segs)
  <2>1. Chain[k] \in DOMAIN revisions BY <1>3
  <2>2. revisions[Chain[k]] \in Revision BY <1>2, <2>1
  <2>3. Turns(revisions[Chain[k]].segs) \in Seq(TextSegment) BY <1>1, <1>5, <2>1, Splitting
  <2> QED BY <1>3, <2>1, <2>2, <2>3 DEF Revision
<1>7. Len(Chain) \in Nat /\ DOMAIN Chain = 1 .. Len(Chain) BY <1>3
<1>8. added \in Seq(Revision) /\ Len(added) = Len(Chain) /\ \A k \in DOMAIN Chain : added[k] = r(k)
  <2> HIDE DEF r
  <2>1. added \in [1 .. Len(Chain) -> Revision] BY <1>6, <1>7
  <2>2. \A k \in DOMAIN Chain : added[k] = r(k) OBVIOUS
  <2> HIDE DEF added
  <2> QED BY <1>7, <2>1, <2>2
<1> HIDE DEF added
<1>9. /\ revisions' \in Seq(Revision) /\ Rev' = Rev + Len(Chain) /\ DOMAIN revisions' = 1 .. Rev + Len(Chain)
      /\ \A n \in 1 .. Rev : revisions'[n] = revisions[n]
      /\ \A k \in DOMAIN Chain : revisions'[Rev + k] = r(k)
  <2> HIDE DEF r
  <2>1. /\ revisions' \in Seq(Revision) /\ Len(revisions') = Rev + Len(Chain) /\ DOMAIN revisions' = 1 .. Rev + Len(Chain)
        /\ \A n \in 1 .. Rev : revisions'[n] = revisions[n]
        /\ \A k \in DOMAIN added : revisions'[Rev + k] = added[k]
    <3>1. revisions' = revisions \o added /\ revisions \in Seq(Revision) /\ added \in Seq(Revision)
      BY <1>1, <1>2, <1>8
    <3>2. revisions' \in Seq(Revision) /\ Len(revisions') = Len(revisions) + Len(added) BY <3>1
    <3>3. \A n \in 1 .. Len(revisions) : revisions'[n] = revisions[n] BY <3>1
    <3>4. \A k \in DOMAIN added : revisions'[Len(revisions) + k] = added[k] BY <3>1
    <3>5. DOMAIN revisions' = 1 .. Len(revisions) + Len(added) BY <3>2
    <3> QED BY <1>2, <1>8, <3>2, <3>3, <3>4, <3>5
  <2>2. DOMAIN added = DOMAIN Chain BY <1>7, <1>8
  <2> QED BY <1>8, <2>1, <2>2 DEF Rev
<1>10. \A n \in DOMAIN revisions' : n \in 1 .. Rev \/ \E k \in DOMAIN Chain : n = Rev + k
  <2> TAKE n \in DOMAIN revisions'
  <2>1. n \in 1 .. Rev + Len(Chain) BY <1>9
  <2>2. n \notin 1 .. Rev => n - Rev \in 1 .. Len(Chain) /\ n = Rev + (n - Rev) BY <1>2, <1>7, <2>1
  <2> QED BY <1>7, <2>2
<1> HIDE DEF r
<1>11. RevisionTypeOK'
  <2>1. raw' \in [take : 1 .. MaxTakes, segs : Seq(TextSegment), grouped : BOOLEAN]
    <3>1. Turns(raw.segs) \in Seq(TextSegment) BY <1>1, Splitting DEF RevisionInv, TextsFit
    <3> QED BY <1>2, <1>4, <3>1
  <2>2. Rev' <= MaxChanges BY <1>1, <1>2, <1>7, <1>9
  <2> QED BY <1>1, <1>9, <2>1, <2>2 DEF RevisionInv, RevisionTypeOK
<1>12. TextsFit'
  <2>1. ASSUME NEW n \in DOMAIN revisions' PROVE TextFits(revisions[n].segs)'
    <3>1. CASE n \in 1 .. Rev
      <4>1. TextFits(revisions[n].segs) BY <1>2, <1>5, <3>1
      <4>2. Len(revisions[n].segs) <= 2 * Width
        <5>1. Len(revisions[n].segs) \in Nat BY <4>1 DEF TextFits
        <5> QED BY <1>1, <1>2, <4>1, <5>1 DEF TextFits
      <4> QED BY <1>4, <1>9, <3>1, <4>1, <4>2 DEF TextFits, Mixed
    <3>2. ASSUME NEW k \in DOMAIN Chain, n = Rev + k PROVE TextFits(revisions[n].segs)'
      <4>1. revisions'[n].segs = Turns(revisions[Chain[k]].segs) /\ Chain[k] \in DOMAIN revisions
        BY <1>6, <1>9, <3>2
      <4>2. TextFits(revisions[Chain[k]].segs) BY <1>5, <4>1
      <4>3. /\ Turns(revisions[Chain[k]].segs) \in Seq(TextSegment) /\ Len(Turns(revisions[Chain[k]].segs)) <= 2 * Width
            /\ \A j \in DOMAIN Turns(revisions[Chain[k]].segs) : Mixed(Turns(revisions[Chain[k]].segs)[j]) => j = 1
        BY <1>1, <4>2, Splitting
      <4> QED BY <1>4, <4>1, <4>3 DEF TextFits, Mixed
    <3> QED BY <1>10, <3>1, <3>2
  <2>2. TextFits(raw.segs)'
    <3>1. TextFits(raw.segs) BY DEF RevisionInv, TextsFit
    <3>2. /\ Turns(raw.segs) \in Seq(TextSegment) /\ Len(Turns(raw.segs)) <= 2 * Width
          /\ \A j \in DOMAIN Turns(raw.segs) : Mixed(Turns(raw.segs)[j]) => j = 1
      BY <1>1, <3>1, Splitting
    <3> QED BY <1>4, <3>2 DEF TextFits, Mixed
  <2> QED BY <2>1, <2>2 DEF TextsFit
<1>13. \A n \in DOMAIN revisions' : revisions'[n].kind \notin Human
  <2> TAKE n \in DOMAIN revisions'
  <2>1. \A m \in 1 .. Rev : revisions[m].kind \notin Human BY <1>1, <1>2, HumanKinds
  <2>2. CASE n \in 1 .. Rev BY <1>9, <2>1, <2>2
  <2>3. ASSUME NEW k \in DOMAIN Chain, n = Rev + k PROVE revisions'[n].kind \notin Human
    BY <1>2, <1>6, <1>9, <2>1, <2>3
  <2> QED BY <1>10, <2>2, <2>3
<1>14. HumanLast' BY <1>13 DEF HumanLast, HumanFree, KindsSoFar
<1>15. Rev # 0 => /\ Rev' # 0 /\ Last(revisions') = r(Len(Chain)) /\ Len(Chain) \in DOMAIN Chain
                  /\ Canon' = Turns(Canon)
  <2> SUFFICES ASSUME Rev # 0
               PROVE  /\ Rev' # 0 /\ Last(revisions') = r(Len(Chain)) /\ Len(Chain) \in DOMAIN Chain
                      /\ Canon' = Turns(Canon)
    OBVIOUS
  <2>1. Len(Chain) \in DOMAIN Chain /\ Rev' # 0 BY <1>2, <1>3, <1>7, <1>9
  <2>2. Last(revisions') = revisions'[Rev'] BY DEF Last, Rev
  <2>3. Last(revisions') = r(Len(Chain)) BY <1>9, <2>1, <2>2
  <2>4. Last(revisions').segs = Turns(Canon) BY <1>3, <1>6, <2>1, <2>3, CanonFits
  <2>5. revisions' # << >> BY <1>9, <2>1 DEF Rev
  <2> QED BY <2>1, <2>3, <2>4, <2>5 DEF Canon
<1>16. Rev = 0 => Rev' = 0 /\ DOMAIN revisions' = {}
  <2> SUFFICES ASSUME Rev = 0 PROVE Rev' = 0 /\ DOMAIN revisions' = {} OBVIOUS
  <2>1. Len(Chain) = 0 BY <1>3
  <2> QED BY <1>9, <2>1
<1>17. BasesFit'
  <2>1. ASSUME NEW n \in DOMAIN revisions' PROVE revisions'[n].base <= raw'.take
    <3>1. CASE n \in 1 .. Rev BY <1>2, <1>4, <1>9, <3>1 DEF RevisionInv, BasesFit
    <3>2. ASSUME NEW k \in DOMAIN Chain, n = Rev + k PROVE revisions'[n].base <= raw'.take
      BY <1>2, <1>4, <1>6, <1>9, <3>2
    <3> QED BY <1>10, <3>1, <3>2
  <2>2. Rev # 0 => Last(revisions').base = raw'.take BY <1>4, <1>6, <1>15
  <2> QED BY <1>16, <2>1, <2>2 DEF BasesFit
<1>18. PageFits'
  <2>1. PageFits BY DEF RevisionInv
  <2>2. 1 .. Rev \subseteq DOMAIN revisions' BY <1>2, <1>7, <1>9
  <2> QED BY <1>1, <1>2, <1>9, <2>1, <2>2 DEF PageFits
<1>19. MachineFits'
  <2> SUFFICES ASSUME Rev # 0, Last(revisions').kind \in Machine
               PROVE  Places(Canon)' = Places(Origin(AcousticBase))'
    BY <1>16 DEF MachineFits
  <2>1. Last(revisions).kind \in Machine /\ Last(revisions).base = raw.take
    <3>1. r(Len(Chain)).kind = revisions[Rev].kind BY <1>3, <1>6, <1>15
    <3> QED BY <1>1, <1>15, <3>1, CanonFits
  <2>2. Places(Canon) = Places(Origin(AcousticBase)) BY <2>1 DEF RevisionInv, MachineFits
  <2>3. TextFits(Canon) BY CanonFits
  <2>4. Places(Canon') = Places(Turns(Canon)) BY <1>15
  <2>5. AcousticBase' = Latest(Bases') BY DEF AcousticBase, Latest, Bases
  <2>6. CASE AcousticBase = 0 /\ Bases = {} /\ Len(Chain) = 1
    <3>1. Rev' - 1 = Rev BY <1>2, <1>9, <2>6
    <3>2. revisions[Rev].kind \notin Acoustic \cup {"vocabulary:manual"}
      BY <2>1, CanonFits, HumanKinds DEF Machine, Acoustic
    <3>3. Bases' = {}
      <4> SUFFICES ASSUME NEW n \in Bases' PROVE FALSE OBVIOUS
      <4>1. n \in 1 .. Rev /\ revisions[n].base = raw.take /\ revisions[n].kind \in Acoustic \cup {"vocabulary:manual"}
        BY <1>4, <1>9, <3>1 DEF Bases
      <4>2. n \in 1 .. Rev - 1 BY <1>2, <3>2, <4>1
      <4> QED BY <2>6, <4>1, <4>2 DEF Bases
    <3>4. AcousticBase' = 0 BY <2>5, <3>3 DEF Latest
    <3>5. Origin(AcousticBase)' = Turns(raw.segs) BY <1>4, <3>4 DEF Origin
    <3>6. Origin(AcousticBase) = raw.segs /\ TextFits(raw.segs)
      BY <2>6 DEF Origin, RevisionInv, TextsFit
    <3>7. Places(Turns(Canon)) = Places(Turns(raw.segs)) BY <1>1, <2>2, <2>3, <3>6, Splitting
    <3>8. Places(Origin(AcousticBase))' = Places(Turns(raw.segs)) BY <3>5 DEF Places
    <3> QED BY <2>4, <3>7, <3>8 DEF Places
  <2>7. CASE AcousticBase # 0 /\ AcousticBase \in Bases /\ Len(Chain) = 2 /\ Chain[1] = AcousticBase
    <3>1. AcousticBase \in 1 .. Rev /\ revisions[AcousticBase].kind \in Acoustic \cup {"vocabulary:manual"}
      BY <1>2, <2>7 DEF Bases
    <3>2. Rev' - 1 = Rev + 1 /\ 1 \in DOMAIN Chain BY <1>2, <1>7, <1>9, <2>7
    <3>3. /\ revisions'[Rev + 1].base = raw.take /\ revisions'[Rev + 1].kind = revisions[AcousticBase].kind
          /\ revisions'[Rev + 1].segs = Turns(revisions[AcousticBase].segs)
      BY <1>6, <1>9, <2>7, <3>2
    <3>4. Rev + 1 \in Bases' BY <1>2, <1>4, <3>1, <3>2, <3>3 DEF Bases
    <3>5. Bases' \in SUBSET (1 .. Rev + 1) BY <3>2 DEF Bases
    <3>6. AcousticBase' \in Bases' /\ Rev + 1 <= AcousticBase'
      <4>1. Rev + 1 \in Nat BY <1>2
      <4> QED BY <2>5, <3>4, <3>5, <4>1, LatestOf
    <3>7. AcousticBase' = Rev + 1
      <4>1. AcousticBase' \in 1 .. Rev + 1 BY <3>5, <3>6
      <4> QED BY <1>2, <3>6, <4>1
    <3>8. Origin(AcousticBase)' = Turns(revisions[AcousticBase].segs)
      <4>1. Rev + 1 # 0 BY <1>2
      <4> QED BY <3>3, <3>7, <4>1 DEF Origin
    <3>9. Origin(AcousticBase) = revisions[AcousticBase].segs /\ TextFits(revisions[AcousticBase].segs)
      BY <1>2, <1>5, <2>7, <3>1 DEF Origin
    <3>10. Places(Turns(Canon)) = Places(Turns(revisions[AcousticBase].segs))
      BY <1>1, <2>2, <2>3, <3>9, Splitting
    <3>11. Places(Origin(AcousticBase))' = Places(Turns(revisions[AcousticBase].segs))
      BY <3>8 DEF Places
    <3> QED BY <2>4, <3>10, <3>11 DEF Places
  <2> QED BY <1>1, <2>1, <2>6, <2>7, ChainFits
<1>20. raw'.take <= takes' BY <1>1, <1>2, <1>4
<1> QED BY <1>11, <1>12, <1>14, <1>17, <1>18, <1>19, <1>20 DEF RevisionInv

LEMMA InitRevisions == RevisionInit => RevisionInv
<1> SUFFICES ASSUME RevisionInit PROVE RevisionInv OBVIOUS
<1>1. PICK g \in BOOLEAN : raw = [take |-> 1, segs |-> AsHeard(1), grouped |-> g] BY DEF RevisionInit
<1>2. revisions = << >> /\ takes = 1 /\ claimed = FALSE /\ titled = FALSE /\ page = Nothing /\ plan = Nothing
  BY DEF RevisionInit
<1>3. Rev = 0 /\ DOMAIN revisions = {} /\ revisions \in Seq(Revision) BY <1>2 DEF Rev
<1>4. Width \in Nat /\ Width >= 1 /\ MaxTakes \in Nat /\ 1 \in 1 .. MaxTakes /\ 0 \in 0 .. MaxChanges /\ 0 \in 0 .. MaxTakes
  BY RevisionAssumption
<1>8. AsHeard(1) \in Seq(TextSegment) /\ TextFits(AsHeard(1)) BY <1>4, Hearing
<1>9. TextFits(raw.segs) BY <1>1, <1>8
<1>10. Nothing \in SeenText BY <1>4 DEF Nothing, SeenText
<1>11. RevisionTypeOK
  <2>1. raw \in [take : 1 .. MaxTakes, segs : Seq(TextSegment), grouped : BOOLEAN] BY <1>1, <1>4, <1>8
  <2>2. Rev <= MaxChanges BY <1>3, RevisionAssumption
  <2> QED BY <1>2, <1>3, <1>4, <1>10, <2>1, <2>2 DEF RevisionTypeOK
<1>12. raw.take <= takes BY <1>1, <1>2
<1>13. TextsFit BY <1>3, <1>9 DEF TextsFit
<1>14. HumanLast BY <1>3 DEF HumanLast, HumanFree, KindsSoFar
<1>15. BasesFit BY <1>3 DEF BasesFit
<1>16. PageFits BY <1>2 DEF PageFits, Nothing
<1>17. MachineFits BY <1>3 DEF MachineFits
<1> QED BY <1>11, <1>12, <1>13, <1>14, <1>15, <1>16, <1>17 DEF RevisionInv

LEMMA InvAfterRevision ==
  ASSUME RevisionInv, [RevisionNext]_revisionVars
  PROVE  RevisionInv'
<1>1. CASE Processing
  <2>1. CASE ProcessingStarts \/ ProcessingStops BY <2>1, QuietSteps
  <2>2. CASE TranscribesAgain BY <2>2, Transcribing
  <2>3. CASE RetiresSpeech \/ AppliesRules BY <2>3, TextsEdited
  <2>4. CASE Polishes BY <2>4, Polishing
  <2> QED BY <1>1, <2>1, <2>2, <2>3, <2>4 DEF Processing
<1>2. CASE Persons
  <2>1. CASE Opens \/ NameSpeaker BY <2>1, QuietSteps
  <2>2. CASE (\E k \in 1 .. 2 * Width : EditSegment(k)) \/ ReassignSpeaker \/ ReplaceText \/ ApplyVocabulary
    BY <2>2, TextsEdited
  <2>3. ASSUME NEW n \in DOMAIN revisions, RestoreRevision(n) PROVE RevisionInv' BY <2>3, Restoring
  <2>4. CASE RepairEmptied BY <2>4, Repairing
  <2> QED BY <1>2, <2>1, <2>2, <2>3, <2>4 DEF Persons
<1>3. CASE Tools
  <2>1. CASE PlansRepair BY <2>1, QuietSteps
  <2>2. CASE CleansSpeech BY <2>2, Cleaning
  <2>3. CASE Retranscribes BY <2>3, Retranscribing
  <2>4. CASE Regroups BY <2>4, Regrouping
  <2> QED BY <1>3, <2>1, <2>2, <2>3, <2>4 DEF Tools
<1>4. CASE UNCHANGED revisionVars BY <1>4, QuietSteps
<1> QED BY <1>1, <1>2, <1>3, <1>4 DEF RevisionNext

\* What every step keeps, beside the invariant.
LEMMA RevisionSteps ==
  ASSUME RevisionInv, [RevisionNext]_revisionVars
  PROVE  [RevisionStep]_revisionVars
<1> SUFFICES ASSUME RevisionNext PROVE RevisionStep OBVIOUS
<1>1. PersonsWordStands
  <2> SUFFICES ASSUME ~HumanFree, Canon' # Canon, ~Persons PROVE FALSE
    BY DEF PersonsWordStands, HumanFree
  <2>1. Rev # 0 /\ HumanOwned BY HumanKinds
  <2>2. ~(revisions' = revisions /\ raw' = raw) BY DEF Canon
  <2>3. revisions' # revisions
    <3> SUFFICES ASSUME revisions' = revisions PROVE FALSE OBVIOUS
    <3>1. revisions # << >> BY <2>1, CanonFits
    <3> QED BY <3>1 DEF Canon
  <2>4. CASE Processing
    <3>1. ~ProcessingStarts /\ ~ProcessingStops BY <2>3 DEF ProcessingStarts, ProcessingStops
    <3>2. ~TranscribesAgain BY <2>3 DEF TranscribesAgain
    <3>3. ~RetiresSpeech /\ ~AppliesRules BY <2>1 DEF RetiresSpeech, AppliesRules
    <3>4. ~Polishes BY <2>1 DEF Polishes, OwnedInput
    <3> QED BY <2>4, <3>1, <3>2, <3>3, <3>4 DEF Processing
  <2>5. CASE Tools
    <3>1. ~PlansRepair BY <2>3 DEF PlansRepair
    <3>2. ~CleansSpeech /\ ~Retranscribes BY DEF CleansSpeech, Retranscribes, PlanStands, HumanFree
    <3>3. ~Regroups BY DEF Regroups, HumanFree
    <3> QED BY <2>5, <3>1, <3>2, <3>3 DEF Tools
  <2> QED BY <2>4, <2>5 DEF RevisionNext
<1>2. EditHitsWhatWasShown
  <2> SUFFICES ASSUME Rev # 0, NEW k \in DOMAIN Canon, EditSegment(k)
               PROVE  k \in DOMAIN page.segs /\ page.segs[k] = Canon[k]
    BY DEF EditHitsWhatWasShown
  <2>1. page.rev = Rev BY DEF EditSegment, Accepts
  <2>2. page.segs = Canon BY <2>1, CanonFits DEF RevisionInv, PageFits
  <2> QED BY <2>2
<1>3. CleanupIsPlanned
  <2>1. CASE CleansSpeech BY <2>1, Cleaning
  <2>2. CASE ~CleansSpeech BY <2>2 DEF CleanupIsPlanned
  <2> QED BY <2>1, <2>2
<1>4. RemovedSpeechStaysRemoved
  <2>1. CASE Polishes BY <2>1, Polishing
  <2>2. CASE ~Polishes BY <2>2 DEF RemovedSpeechStaysRemoved
  <2> QED BY <2>1, <2>2
<1> QED BY <1>1, <1>2, <1>3, <1>4 DEF RevisionStep

\* Every text, page and plan is of its type, in whatever order processing, people and tools
\* revise the transcript. (db/models.py Transcript, TranscriptRevision)
THEOREM RevisionTypeCorrect == RevisionSpec => []RevisionTypeOK
<1>1. RevisionInv => RevisionTypeOK BY DEF RevisionInv
<1>2. RevisionInv /\ [RevisionNext]_revisionVars => RevisionInv' BY InvAfterRevision
<1> QED BY <1>1, <1>2, InitRevisions, PTL DEF RevisionSpec

\* A person's words stand, an edit lands where it was made, a cleanup removes what was planned
\* and polishing revives nothing. (worker/pipeline.py _run_correction_stage,
\* _persist_polished_revision, api/app.py edit_transcript_segment, silence_repair.py)
THEOREM RevisionStepsAreSafe == RevisionSpec => [][RevisionStep]_revisionVars
<1>1. RevisionInv /\ [RevisionNext]_revisionVars => RevisionInv' BY InvAfterRevision
<1>2. RevisionInv /\ [RevisionNext]_revisionVars => [RevisionStep]_revisionVars BY RevisionSteps
<1> QED BY <1>1, <1>2, InitRevisions, PTL DEF RevisionSpec

----------------------------------------------------------------------------
(***************************************************************************)
(* All of them among the services.                                         *)
(***************************************************************************)

TextInv == SpeakerInv /\ RevisionInv /\ NoteInv

LEMMA InitTexts == ServicesInit => TextInv
BY InitSpeakers, InitRevisions, InitNote DEF ServicesInit, TextInv

\* A step of one system is a step of it and a stutter of the others.
LEMMA OneSystem ==
  ASSUME [ServicesNext]_allVars
  PROVE  /\ [SpeakerNext]_speakerVars /\ [RevisionNext]_revisionVars /\ [NoteNext]_noteVars
         /\ system' = system
         /\ UNCHANGED allVars \/ ~UNCHANGED speakerVars \/ system # "voices"
         /\ UNCHANGED allVars \/ ~UNCHANGED revisionVars \/ system # "texts"
         /\ UNCHANGED allVars \/ ~UNCHANGED noteVars \/ system # "notes"
BY DEF ServicesNext, allVars, serviceVars, writingVars, textVars

LEMMA NextTexts ==
  ASSUME TextInv, [ServicesNext]_allVars
  PROVE  TextInv' /\ [TextStep]_allVars
<1>1. SpeakerInv' /\ [SpeakerStep]_speakerVars BY OneSystem, NextSpeakers DEF TextInv
<1>2. RevisionInv' /\ [RevisionStep]_revisionVars
  BY OneSystem, InvAfterRevision, RevisionSteps DEF TextInv
<1>3. NoteInv' /\ [NoteStep]_noteVars BY OneSystem, NextNote DEF TextInv
<1>4. [TextStep]_allVars
  <2> SUFFICES ASSUME ~UNCHANGED allVars PROVE TextStep OBVIOUS
  <2>1. system = "voices" => SpeakerStep BY <1>1, OneSystem
  <2>2. system = "texts" => RevisionStep BY <1>2, OneSystem
  <2>3. system = "notes" => NoteStep BY <1>3, OneSystem
  <2> QED BY <2>1, <2>2, <2>3 DEF TextStep
<1> QED BY <1>1, <1>2, <1>3, <1>4 DEF TextInv

\* Notes are of what they say they are of, and no step does to the names, the words and the
\* notes people see what none may, whichever system a behaviour is of. (voice_identity.py,
\* worker/pipeline.py, note_history.py)
THEOREM TextsAreSafe == ServicesSpec => TextSafety
<1>1. TextInv /\ [ServicesNext]_allVars => TextInv' BY NextTexts
<1>2. TextInv /\ [ServicesNext]_allVars => [TextStep]_allVars BY NextTexts
<1>3. TextInv => (system = "notes" => NoteSafety) BY DEF TextInv, NoteInv
<1> QED BY <1>1, <1>2, <1>3, InitTexts, PTL DEF ServicesSpec, TextSafety

WritingInv == EvidenceInv /\ PolishInv /\ ProfileInv /\ BackupInv

LEMMA WritingsBegin == ServicesInit => WritingInv
BY EvidenceBegins, PolishBegins, ProfileBegins, BackupBegins DEF ServicesInit, WritingInv

\* A step of one system is a step of it and a stutter of the others.
LEMMA OneWriting ==
  ASSUME [ServicesNext]_allVars
  PROVE  [EvidenceNext]_evidenceVars /\ [PolishNext]_polishVars /\ [ProfileNext]_profileVars /\ [BackupNext]_backupVars
BY DEF ServicesNext, allVars, serviceVars, writingVars, textVars

LEMMA WritingsKeep == WritingInv /\ [ServicesNext]_allVars => WritingInv'
BY OneWriting, EvidenceStepKeeps, PolishStepKeeps, ProfileStepKeeps, BackupStepKeeps DEF WritingInv

\* The notes, the transcripts, the profiles and the archives are what they are said to be,
\* whichever system a behaviour is of. (worker/evidence_notes.py, worker/polish.py,
\* providers/service.py, backups.py, backup_sync.py)
THEOREM WritingsAreSafe == ServicesSpec => []WritingSafety
<1>1. WritingInv => WritingSafety
  BY EvidenceInvIsSafe, PolishInvIsSafe, ProfileInvIsSafe, BackupInvIsSafe DEF WritingInv, WritingSafety
<1> QED BY <1>1, WritingsBegin, WritingsKeep, PTL DEF ServicesSpec
=============================================================================
