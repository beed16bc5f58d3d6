--------------------------- MODULE WritingProofs ---------------------------
EXTENDS EvidenceNotes, TranscriptPolish, ProfileSettings, Backups,
        FiniteSetTheorems, WellFoundedInduction, TLAPS
(***************************************************************************)
(* What is promised about the stages that write, the profiles they run on  *)
(* and the archives that keep what they leave.  The modules share no       *)
(* state, so each part below has its own inductive invariant (EvidenceInv, *)
(* PolishInv, ProfileInv, BackupInv), with one lemma per action.           *)
(***************************************************************************)

----------------------------------------------------------------------------
(***************************************************************************)
(* EvidenceNotes.                                                          *)
(***************************************************************************)

\* The types of the files, as functions of the items.
Jobs == [step : Steps, try : 0 .. Repairs, previous : 0 .. MaxReplies,
         errors : 0 .. Repairs + 1, found : 0 .. MaxReplies,
         verdict : Verdict \cup {"none"}, unresolved : BOOLEAN]
ReplyFiles == SUBSET (Requests \X (1 .. MaxReplies))
VerdictFiles == SUBSET ((1 .. MaxReplies) \X Verdict)
LastReviews == [version : 0 .. MaxReplies, verdict : Verdict \cup {"none"}]
Pages == [version : 0 .. MaxReplies, caveat : BOOLEAN]
FilesTyped ==
  /\ replies \in [Item -> ReplyFiles] /\ verdicts \in [Item -> VerdictFiles]
  /\ reviewed \in [Item -> LastReviews] /\ basis \in [1 .. Chunks -> 0 .. MaxReplies]
  /\ planned \in BOOLEAN /\ versions \in [Item -> 0 .. MaxReplies]
EvidenceTyped ==
  /\ phase \in {"idle", "extract", "plan", "draft", "failed", "published"}
  /\ work \in [Item -> Jobs] /\ FilesTyped /\ note \in [Item -> Pages] /\ stageTries \in 0 .. StageTries

\* What has been found is a version, what is done is passed or printed with its objections,
\* and what is asked for is neither passed nor on file.
Passed(i, v) == <<v, "clean">> \in verdicts[i]
ItemFits(i) ==
  /\ reviewed[i].verdict = "clean" => reviewed[i].version # 0 /\ Passed(i, reviewed[i].version)
  /\ work[i].step \in {"review", "reviewing", "save", "unlink", "done"} => work[i].found # 0
  /\ work[i].step = "save" => work[i].verdict \in Verdict /\ <<work[i].found, work[i].verdict>> \in verdicts[i]
  /\ work[i].step = "done" => Passed(i, work[i].found) \/ work[i].unresolved
  /\ work[i].step \in {"ask", "asked", "review", "reviewing", "save", "unlink"} => reviewed[i].verdict # "clean"
  /\ work[i].step = "asked" => Answers(i) = {}
  /\ work[i].step # "spent" => work[i].errors <= work[i].try
\* Which items are at work in which phase, and what the drafts and the note are of.
PhaseFits ==
  /\ phase \in {"plan", "draft", "published"} => basis = NewBasis /\ Finished("chunk")
  /\ phase \in {"extract", "plan"} => \A i \in OfKind("batch") : work[i].step = "waiting"
  /\ phase = "published" =>
       \A i \in Item : /\ work[i].step = "done"
                       /\ note[i].version = work[i].found /\ note[i].caveat = work[i].unresolved
EvidenceInv == EvidenceTyped /\ (\A i \in Item : ItemFits(i)) /\ PhaseFits

LEMMA ItemKinds ==
  /\ \A i \in Item : i \in OfKind("chunk") \/ i \in OfKind("batch")
  /\ \A i \in Item : i[1] = "chunk" <=> i \in OfKind("chunk")
  /\ \A i \in Item : i \in OfKind("chunk") => i \notin OfKind("batch")
  /\ \A n \in 1 .. Chunks : <<"chunk", n>> \in Item /\ <<"chunk", n>> \in OfKind("chunk")
  /\ \A i \in OfKind("chunk") : i \in Item
  /\ \A i \in OfKind("batch") : i \in Item
BY DEF Item, OfKind

LEMMA AtWorkNow ==
  /\ phase = "extract" => Active = OfKind("chunk")
  /\ phase = "draft" => Active = OfKind("batch")
  /\ phase \notin {"extract", "draft"} => Active = {}
BY DEF Active

LEMMA FileFields ==
  ASSUME EvidenceInv, NEW i \in Item
  PROVE  /\ work[i] \in Jobs /\ replies[i] \in ReplyFiles /\ verdicts[i] \in VerdictFiles
         /\ reviewed[i] \in LastReviews /\ versions[i] \in 0 .. MaxReplies
         /\ work[i].found \in 0 .. MaxReplies /\ work[i].previous \in 0 .. MaxReplies
         /\ work[i].errors \in 0 .. Repairs + 1 /\ work[i].try \in 0 .. Repairs
         /\ work[i].step \in Steps /\ reviewed[i].version \in 0 .. MaxReplies
         /\ work[i].verdict \in Verdict \cup {"none"} /\ work[i].unresolved \in BOOLEAN
         /\ ItemFits(i)
BY DEF EvidenceInv, EvidenceTyped, FilesTyped, Jobs, LastReviews

LEMMA WaitingTyped ==
  /\ Waiting \in Jobs /\ Waiting.step = "waiting" /\ Waiting.errors = 0 /\ Waiting.try = 0
  /\ Unreviewed \in LastReviews /\ Unreviewed.verdict = "none"
<1>1. 0 \in 0 .. Repairs /\ 0 \in 0 .. Repairs + 1 /\ 0 \in 0 .. MaxReplies
  BY EvidenceConstants
<1> QED BY <1>1 DEF Waiting, Jobs, Unreviewed, LastReviews, Steps

\* A step of item i: it goes on as w, with its own files or as they were.
OnlyItem(i, w) ==
  /\ work' = [work EXCEPT ![i] = w]
  /\ \A j \in Item : j # i => /\ replies'[j] = replies[j] /\ verdicts'[j] = verdicts[j]
                              /\ reviewed'[j] = reviewed[j]
  /\ UNCHANGED <<phase, basis, planned, note, stageTries>>
LEMMA ItemKeeps ==
  ASSUME EvidenceInv, NEW i \in Active, NEW w \in Jobs, OnlyItem(i, w), FilesTyped',
         ItemFits(i)', work[i].step # "done"
  PROVE  EvidenceInv'
<1>1. i \in Item /\ phase \in {"extract", "draft"} /\ i \in Active
      /\ (phase = "extract" => i \in OfKind("chunk")) /\ (phase = "draft" => i \in OfKind("batch"))
  BY AtWorkNow, ItemKinds DEF EvidenceInv, EvidenceTyped
<1>2. /\ work' \in [Item -> Jobs] /\ work'[i] = w
      /\ \A j \in Item : j # i => work'[j] = work[j]
  BY <1>1 DEF EvidenceInv, EvidenceTyped, OnlyItem
<1>3. EvidenceTyped'
  BY <1>2 DEF EvidenceInv, EvidenceTyped, OnlyItem
<1>4. ASSUME NEW j \in Item, j # i PROVE ItemFits(j)'
  <2>1. ItemFits(j) BY <1>4 DEF EvidenceInv
  <2>2. work'[j] = work[j] /\ replies'[j] = replies[j] /\ verdicts'[j] = verdicts[j] /\ reviewed'[j] = reviewed[j]
    BY <1>2, <1>4 DEF OnlyItem
  <2> QED BY <2>1, <2>2 DEF ItemFits, Passed, Answers, Request
<1>5. PhaseFits'
  <2>1. CASE phase = "extract"
    <3>1. \A j \in OfKind("batch") : work'[j] = work[j]
      BY <1>1, <1>2, <2>1, ItemKinds
    <3> QED BY <2>1, <3>1 DEF EvidenceInv, PhaseFits, OnlyItem, OfKind, Item
  <2>2. CASE phase = "draft"
    <3>1. \A j \in OfKind("chunk") : work'[j] = work[j]
      BY <1>1, <1>2, <2>2, ItemKinds
    <3>2. NewBasis' = NewBasis
      BY <3>1, ItemKinds DEF NewBasis
    <3>3. Finished("chunk")'
      BY <2>2, <3>1 DEF EvidenceInv, PhaseFits, Finished, OfKind, Item
    <3> QED BY <2>2, <3>2, <3>3 DEF EvidenceInv, PhaseFits, OnlyItem
  <2> QED BY <1>1, <2>1, <2>2
<1> QED BY <1>3, <1>4, <1>5 DEF EvidenceInv

\* A step that writes no file.
LEMMA MemoryKeeps ==
  ASSUME EvidenceInv, NEW i \in Active, NEW w \in Jobs, work' = [work EXCEPT ![i] = w], InMemory,
         work[i].step # "done", ItemFits(i)'
  PROVE  EvidenceInv'
<1>1. OnlyItem(i, w) BY DEF OnlyItem, InMemory, files
<1>2. FilesTyped' BY DEF InMemory, files, EvidenceInv, EvidenceTyped, FilesTyped
<1> QED BY <1>1, <1>2, ItemKeeps

LEMMA Written ==
  ASSUME EvidenceInv, NEW i \in Active, NEW w, work' = [work EXCEPT ![i] = w]
  PROVE  i \in Item /\ work'[i] = w /\ i \in Active
BY AtWorkNow, ItemKinds DEF EvidenceInv, EvidenceTyped

LEMMA StartsKeeps ==
  ASSUME EvidenceInv, NEW i \in Item, Starts(i)
  PROVE  EvidenceInv'
<1> DEFINE w == IF Accepted(reviewed[i]) THEN [Waiting EXCEPT !.step = "done", !.found = reviewed[i].version]
                ELSE [Waiting EXCEPT !.step = "ask", !.previous = reviewed[i].version]
<1>1. i \in Active /\ work[i].step = "waiting" /\ work' = [work EXCEPT ![i] = w] /\ InMemory
  BY DEF Starts, Set
<1>2. w \in Jobs /\ w.errors = 0 /\ w.try = 0 /\ (Accepted(reviewed[i]) => w.step = "done" /\ w.found = reviewed[i].version)
      /\ (~Accepted(reviewed[i]) => w.step = "ask")
  BY FileFields, WaitingTyped DEF Jobs, Steps
<1> HIDE DEF w
<1>3. work'[i] = w BY <1>1, Written
<1>4. UNCHANGED <<replies, verdicts, reviewed>> BY <1>1 DEF InMemory, files
<1>5. ItemFits(i)'
  <2>1. ItemFits(i) BY FileFields
  <2>2. w.errors <= w.try BY <1>2
  <2>3. CASE Accepted(reviewed[i])
    <3>1. w.found # 0 /\ Passed(i, w.found) BY <1>2, <2>1, <2>3 DEF ItemFits, Accepted
    <3> QED BY <1>2, <1>3, <1>4, <2>1, <2>2, <2>3, <3>1 DEF ItemFits, Passed
  <2>4. CASE ~Accepted(reviewed[i])
    BY <1>2, <1>3, <1>4, <2>1, <2>2, <2>4 DEF ItemFits, Passed, Accepted
  <2> QED BY <2>3, <2>4
<1> QED BY <1>1, <1>2, <1>5, MemoryKeeps

LEMMA AsksKeeps ==
  ASSUME EvidenceInv, NEW i \in Item, Asks(i)
  PROVE  EvidenceInv'
<1>1. i \in Active /\ work[i].step = "ask" /\ InMemory
  BY DEF Asks
<1>2. UNCHANGED <<replies, verdicts, reviewed>> BY <1>1 DEF InMemory, files
<1>3. ASSUME Answers(i) = {}, Move(i, "asked") PROVE EvidenceInv'
  <2> DEFINE w == [work[i] EXCEPT !.step = "asked"]
  <2>1. work' = [work EXCEPT ![i] = w] BY <1>3 DEF Move, Set
  <2>2. w \in Jobs /\ w.step = "asked" /\ w.previous = work[i].previous /\ w.errors = work[i].errors
        /\ w.try = work[i].try
    BY FileFields DEF Jobs, Steps
  <2> HIDE DEF w
  <2>3. work'[i] = w BY <1>1, <2>1, Written
  <2>4. Answers(i)' = Answers(i) BY <1>2, <2>2, <2>3 DEF Answers, Request
  <2>5. ItemFits(i)' BY <1>1, <1>2, <1>3, <2>2, <2>3, <2>4, FileFields DEF ItemFits, Passed
  <2> QED BY <1>1, <2>1, <2>2, <2>5, MemoryKeeps
<1>4. ASSUME NEW v \in Answers(i), Set(i, [work[i] EXCEPT !.step = "review", !.found = v]) PROVE EvidenceInv'
  <2> DEFINE w == [work[i] EXCEPT !.step = "review", !.found = v]
  <2>1. work' = [work EXCEPT ![i] = w] BY <1>4 DEF Set
  <2>0. v \in 0 .. MaxReplies /\ v # 0
    BY EvidenceConstants DEF Answers
  <2>2. w \in Jobs /\ w.step = "review" /\ w.found # 0 /\ w.errors = work[i].errors
        /\ w.try = work[i].try
    BY <2>0, FileFields DEF Jobs, Steps
  <2> HIDE DEF w
  <2>3. work'[i] = w BY <1>1, <2>1, Written
  <2>5. ItemFits(i)' BY <1>1, <1>2, <2>2, <2>3, FileFields DEF ItemFits, Passed
  <2> QED BY <1>1, <2>1, <2>2, <2>5, MemoryKeeps
<1> QED BY <1>3, <1>4 DEF Asks

LEMMA ReplyIsValidKeeps ==
  ASSUME EvidenceInv, NEW i \in Item, ReplyIsValid(i)
  PROVE  EvidenceInv'
<1> PICK v : v = versions[i] + 1 OBVIOUS
<1> DEFINE w == [work[i] EXCEPT !.step = "review", !.found = v]
           r == replies[i] \cup {<<Request(i), v>>}
<1>1. /\ i \in Active /\ work[i].step = "asked" /\ versions[i] < MaxReplies
      /\ versions' = [versions EXCEPT ![i] = v] /\ replies' = [replies EXCEPT ![i] = r]
      /\ work' = [work EXCEPT ![i] = w]
      /\ UNCHANGED <<phase, verdicts, reviewed, basis, planned, note, stageTries>>
  BY DEF ReplyIsValid, Set
<1>2. v \in 1 .. MaxReplies /\ v \in 0 .. MaxReplies /\ v # 0 /\ Request(i) \in Requests
  BY <1>1, FileFields, EvidenceConstants DEF Request, Requests
<1>3. w \in Jobs /\ w.step = "review" /\ w.found = v
      /\ w.errors = work[i].errors /\ w.try = work[i].try
  BY <1>2, FileFields DEF Jobs, Steps
<1>0. r \in ReplyFiles
  BY <1>2, FileFields DEF ReplyFiles
<1> HIDE DEF w, r
<1>4. work'[i] = w BY <1>1, Written
<1>5. FilesTyped'
  BY <1>0, <1>1, <1>2 DEF EvidenceInv, EvidenceTyped, FilesTyped
<1>6. OnlyItem(i, w)
  BY <1>1 DEF OnlyItem, EvidenceInv, EvidenceTyped, FilesTyped
<1>7. ItemFits(i)'
  BY <1>1, <1>2, <1>3, <1>4, FileFields DEF ItemFits, Passed
<1> QED BY <1>1, <1>3, <1>5, <1>6, <1>7, ItemKeeps

LEMMA ReplyIsInvalidKeeps ==
  ASSUME EvidenceInv, NEW i \in Item, NEW patchable \in BOOLEAN, ReplyIsInvalid(i, patchable)
  PROVE  EvidenceInv'
<1> PICK v : v = versions[i] + 1 OBVIOUS
<1> DEFINE e == IF patchable THEN 0 ELSE work[i].errors + 1
           t == IF work[i].try = Repairs THEN work[i].try ELSE work[i].try + 1
           s == IF work[i].try = Repairs THEN "spent" ELSE "ask"
           p == IF patchable THEN v ELSE work[i].previous
           w == [work[i] EXCEPT !.step = s, !.try = t, !.previous = p, !.errors = e]
<1>1. /\ i \in Active /\ work[i].step = "asked" /\ (patchable => versions[i] < MaxReplies)
      /\ versions' = IF patchable THEN [versions EXCEPT ![i] = v] ELSE versions
      /\ work' = [work EXCEPT ![i] = w]
      /\ UNCHANGED <<phase, replies, verdicts, reviewed, basis, planned, note, stageTries>>
  BY DEF ReplyIsInvalid, Set
<1>2. patchable => v \in 0 .. MaxReplies
  BY <1>1, FileFields, EvidenceConstants
<1>3. work[i].errors <= work[i].try
  BY <1>1, FileFields DEF ItemFits
<1>4. e \in 0 .. Repairs + 1 /\ t \in 0 .. Repairs /\ (s # "spent" => e <= t)
  BY <1>3, FileFields, EvidenceConstants
<1>5. p \in 0 .. MaxReplies /\ s \in {"spent", "ask"}
  BY <1>2, FileFields
<1> HIDE DEF e, t, s, p
<1>6. w \in Jobs /\ w.step = s /\ w.errors = e /\ w.try = t
  BY <1>4, <1>5, FileFields DEF Jobs, Steps
<1> HIDE DEF w
<1>7. work'[i] = w BY <1>1, Written
<1>8. FilesTyped'
  BY <1>1, <1>2 DEF EvidenceInv, EvidenceTyped, FilesTyped
<1>9. OnlyItem(i, w)
  BY <1>1 DEF OnlyItem
<1>10. ItemFits(i)'
  BY <1>1, <1>4, <1>5, <1>6, <1>7, FileFields DEF ItemFits, Passed
<1> QED BY <1>1, <1>6, <1>8, <1>9, <1>10, ItemKeeps

LEMMA CallRaisesKeeps ==
  ASSUME EvidenceInv, NEW i \in Item, CallRaises(i)
  PROVE  EvidenceInv'
<1> DEFINE w == [work[i] EXCEPT !.step = "raised"]
<1>1. i \in Active /\ work[i].step \in {"asked", "reviewing"} /\ work' = [work EXCEPT ![i] = w] /\ InMemory
  BY DEF CallRaises, Move, Set
<1>2. w \in Jobs /\ w.step = "raised" /\ w.errors = work[i].errors /\ w.try = work[i].try
  BY FileFields DEF Jobs, Steps
<1> HIDE DEF w
<1>3. work'[i] = w BY <1>1, Written
<1>4. UNCHANGED <<replies, verdicts, reviewed>> BY <1>1 DEF InMemory, files
<1>5. ItemFits(i)' BY <1>1, <1>2, <1>3, <1>4, FileFields DEF ItemFits, Passed
<1> QED BY <1>1, <1>2, <1>5, MemoryKeeps

LEMMA ReviewsKeeps ==
  ASSUME EvidenceInv, NEW i \in Item, Reviews(i)
  PROVE  EvidenceInv'
<1>1. i \in Active /\ work[i].step = "review" /\ InMemory
  BY DEF Reviews
<1>2. UNCHANGED <<replies, verdicts, reviewed>> BY <1>1 DEF InMemory, files
<1>3. ASSUME Move(i, "reviewing") PROVE EvidenceInv'
  <2> DEFINE w == [work[i] EXCEPT !.step = "reviewing"]
  <2>1. work' = [work EXCEPT ![i] = w] BY <1>3 DEF Move, Set
  <2>2. w \in Jobs /\ w.step = "reviewing" /\ w.found = work[i].found /\ w.errors = work[i].errors
        /\ w.try = work[i].try
    BY FileFields DEF Jobs, Steps
  <2> HIDE DEF w
  <2>3. work'[i] = w BY <1>1, <2>1, Written
  <2>5. ItemFits(i)' BY <1>1, <1>2, <2>2, <2>3, FileFields DEF ItemFits, Passed
  <2> QED BY <1>1, <2>1, <2>2, <2>5, MemoryKeeps
<1>4. ASSUME NEW said \in Verdict, <<work[i].found, said>> \in verdicts[i],
             Set(i, [work[i] EXCEPT !.step = "save", !.verdict = said])
      PROVE  EvidenceInv'
  <2> DEFINE w == [work[i] EXCEPT !.step = "save", !.verdict = said]
  <2>1. work' = [work EXCEPT ![i] = w] BY <1>4 DEF Set
  <2>2. w \in Jobs /\ w.step = "save" /\ w.found = work[i].found /\ w.verdict = said
        /\ w.errors = work[i].errors /\ w.try = work[i].try
    BY FileFields DEF Jobs, Steps
  <2> HIDE DEF w
  <2>3. work'[i] = w BY <1>1, <2>1, Written
  <2>5. ItemFits(i)' BY <1>1, <1>2, <1>4, <2>2, <2>3, FileFields DEF ItemFits, Passed
  <2> QED BY <1>1, <2>1, <2>2, <2>5, MemoryKeeps
<1> QED BY <1>3, <1>4 DEF Reviews

LEMMA VerdictsKeeps ==
  ASSUME EvidenceInv, NEW i \in Item, NEW said \in Verdict, Verdicts(i, said)
  PROVE  EvidenceInv'
<1> DEFINE w == [work[i] EXCEPT !.step = "save", !.verdict = said]
           f == verdicts[i] \cup {<<work[i].found, said>>}
<1>1. /\ i \in Active /\ work[i].step = "reviewing" /\ work' = [work EXCEPT ![i] = w]
      /\ verdicts' = [verdicts EXCEPT ![i] = f]
      /\ UNCHANGED <<phase, replies, reviewed, basis, planned, versions, note, stageTries>>
  BY DEF Verdicts, Set
<1>2. w \in Jobs /\ w.step = "save" /\ w.found = work[i].found /\ w.verdict = said
      /\ w.errors = work[i].errors /\ w.try = work[i].try
  BY FileFields DEF Jobs, Steps
<1>3. work[i].found \in 1 .. MaxReplies
  <2>1. ItemFits(i) /\ work[i].found \in 0 .. MaxReplies BY FileFields
  <2>2. work[i].found # 0 BY <1>1, <2>1 DEF ItemFits
  <2> QED BY <2>1, <2>2, EvidenceConstants
<1>4. f \in VerdictFiles /\ verdicts[i] \subseteq f /\ <<work[i].found, said>> \in f
  BY <1>3, FileFields DEF VerdictFiles
<1> HIDE DEF w, f
<1>5. work'[i] = w BY <1>1, Written
<1>6. FilesTyped' /\ verdicts'[i] = f
  BY <1>1, <1>4 DEF EvidenceInv, EvidenceTyped, FilesTyped
<1>7. OnlyItem(i, w)
  BY <1>1 DEF OnlyItem, EvidenceInv, EvidenceTyped, FilesTyped
<1>8. ItemFits(i)'
  BY <1>1, <1>2, <1>4, <1>5, <1>6, FileFields DEF ItemFits, Passed
<1> QED BY <1>1, <1>2, <1>6, <1>7, <1>8, ItemKeeps

LEMMA SavesKeeps ==
  ASSUME EvidenceInv, NEW i \in Item, Saves(i)
  PROVE  EvidenceInv'
<1> DEFINE s == IF work[i].verdict = "clean" THEN "done" ELSE "unlink"
           w == [work[i] EXCEPT !.step = s, !.previous = work[i].found, !.errors = 0]
           f == [version |-> work[i].found, verdict |-> work[i].verdict]
<1>1. /\ i \in Active /\ work[i].step = "save" /\ work' = [work EXCEPT ![i] = w]
      /\ reviewed' = [reviewed EXCEPT ![i] = f]
      /\ UNCHANGED <<phase, replies, verdicts, basis, planned, versions, note, stageTries>>
  BY DEF Saves, Set
<1>2. w \in Jobs /\ w.step = s /\ w.found = work[i].found /\ w.errors = 0 /\ w.try \in Nat
  <2>1. 0 \in 0 .. Repairs + 1 /\ s \in Steps /\ work[i].try \in Nat
    BY FileFields, EvidenceConstants DEF Steps
  <2> HIDE DEF s
  <2> QED BY <2>1, FileFields DEF Jobs
<1>3. f \in LastReviews /\ f.version = work[i].found /\ f.verdict = work[i].verdict
  BY FileFields DEF LastReviews
<1>4. /\ work[i].verdict \in Verdict /\ <<work[i].found, work[i].verdict>> \in verdicts[i]
      /\ work[i].found # 0
  BY <1>1, FileFields DEF ItemFits
<1>5. /\ s = "done" => work[i].verdict = "clean"
      /\ s # "done" => s = "unlink" /\ work[i].verdict # "clean"
  OBVIOUS
<1> HIDE DEF w, f, s
<1>6. work'[i] = w BY <1>1, Written
<1>7. FilesTyped' /\ reviewed'[i] = f
  BY <1>1, <1>3 DEF EvidenceInv, EvidenceTyped, FilesTyped
<1>8. OnlyItem(i, w)
  BY <1>1 DEF OnlyItem, EvidenceInv, EvidenceTyped, FilesTyped
<1>9. ItemFits(i)'
  BY <1>1, <1>2, <1>3, <1>4, <1>5, <1>6, <1>7 DEF ItemFits, Passed
<1> QED BY <1>1, <1>2, <1>7, <1>8, <1>9, ItemKeeps

LEMMA UnlinksKeeps ==
  ASSUME EvidenceInv, NEW i \in Item, Unlinks(i)
  PROVE  EvidenceInv'
<1> DEFINE t == work[i].try + 1
           w == IF work[i].try = Repairs THEN [work[i] EXCEPT !.step = "done", !.unresolved = TRUE]
                ELSE [work[i] EXCEPT !.step = "ask", !.try = t]
           f == {r \in replies[i] : r[2] # work[i].found}
<1>1. /\ i \in Active /\ work[i].step = "unlink" /\ work' = [work EXCEPT ![i] = w]
      /\ replies' = [replies EXCEPT ![i] = f]
      /\ UNCHANGED <<phase, verdicts, reviewed, basis, planned, versions, note, stageTries>>
  BY DEF Unlinks, Set, EvidenceInv, EvidenceTyped, FilesTyped
<1>2. /\ work[i].errors <= work[i].try /\ work[i].found # 0 /\ reviewed[i].verdict # "clean"
      /\ (work[i].try # Repairs => t \in 0 .. Repairs) /\ work[i].errors <= t
  <2>1. ItemFits(i) /\ work[i].try \in 0 .. Repairs /\ work[i].errors \in 0 .. Repairs + 1 BY FileFields
  <2>2. work[i].errors <= work[i].try /\ work[i].found # 0 /\ reviewed[i].verdict # "clean"
    BY <1>1, <2>1 DEF ItemFits
  <2> QED BY <2>1, <2>2, EvidenceConstants
<1> HIDE DEF t
<1>3. /\ w \in Jobs /\ w.step \in {"done", "ask"} /\ w.found = work[i].found
      /\ w.errors <= w.try /\ (w.step = "done" => w.unresolved)
  BY <1>2, FileFields DEF Jobs, Steps
<1>4. f \in ReplyFiles
  BY FileFields DEF ReplyFiles
<1> HIDE DEF w, f
<1>5. work'[i] = w BY <1>1, Written
<1>6. FilesTyped'
  BY <1>1, <1>4 DEF EvidenceInv, EvidenceTyped, FilesTyped
<1>7. OnlyItem(i, w)
  BY <1>1 DEF OnlyItem, EvidenceInv, EvidenceTyped, FilesTyped
<1>8. ItemFits(i)'
  BY <1>1, <1>2, <1>3, <1>5, FileFields DEF ItemFits, Passed
<1> QED BY <1>1, <1>3, <1>6, <1>7, <1>8, ItemKeeps

LEMMA ItemStepKeeps ==
  ASSUME EvidenceInv, NEW i \in Item, ItemStep(i)
  PROVE  EvidenceInv'
BY StartsKeeps, AsksKeeps, ReviewsKeeps, SavesKeeps, UnlinksKeeps, ReplyIsValidKeeps, CallRaisesKeeps,
   ReplyIsInvalidKeeps, VerdictsKeeps DEF ItemStep

\* The stage begins, or dies: what it had in memory goes.
LEMMA FreshKeeps ==
  ASSUME EvidenceInv, work' = [i \in Item |-> Waiting], UNCHANGED <<files, note>>,
         phase' \in {"idle", "extract"}, stageTries' \in 0 .. StageTries
  PROVE  EvidenceInv'
<1>1. \A i \in Item : work'[i] = Waiting OBVIOUS
<1>2. EvidenceTyped'
  BY WaitingTyped DEF EvidenceInv, EvidenceTyped, FilesTyped, files
<1>3. ASSUME NEW i \in Item PROVE ItemFits(i)'
  <2>1. ItemFits(i) BY FileFields
  <2> QED BY <1>1, <2>1, WaitingTyped DEF ItemFits, Passed, files
<1>4. PhaseFits'
  BY <1>1, WaitingTyped, ItemKinds DEF PhaseFits
<1> QED BY <1>2, <1>3, <1>4 DEF EvidenceInv

LEMMA MergesKeeps ==
  ASSUME EvidenceInv, Merges
  PROVE  EvidenceInv'
<1>1. /\ phase = "extract" /\ Finished("chunk") /\ phase' = "plan" /\ basis' = NewBasis
      /\ UNCHANGED <<work, note, stageTries>>
  BY DEF Merges
<1>2. NewBasis \in [1 .. Chunks -> 0 .. MaxReplies] /\ NewBasis' = NewBasis
  BY <1>1, FileFields, ItemKinds DEF NewBasis
<1>3. /\ FilesTyped'
      /\ \A i \in OfKind("chunk") : /\ replies'[i] = replies[i] /\ verdicts'[i] = verdicts[i]
                                    /\ reviewed'[i] = reviewed[i]
      /\ \A i \in OfKind("batch") : /\ reviewed'[i] = reviewed[i] /\ verdicts'[i] = verdicts[i]
                                    \/ reviewed'[i].verdict = "none"
  <2>1. CASE NewBasis = basis
    BY <1>1, <1>2, <2>1 DEF Merges, EvidenceInv, EvidenceTyped, FilesTyped
  <2>2. CASE NewBasis # basis
    <3>1. /\ replies' = [i \in Item |-> IF i[1] = "chunk" THEN replies[i] ELSE {}]
          /\ verdicts' = [i \in Item |-> IF i[1] = "chunk" THEN verdicts[i] ELSE {}]
          /\ reviewed' = [i \in Item |-> IF i[1] = "chunk" THEN reviewed[i] ELSE Unreviewed]
          /\ versions' = [i \in Item |-> IF i[1] = "chunk" THEN versions[i] ELSE 0]
          /\ planned' = FALSE
      BY <2>2 DEF Merges
    <3>2. {} \in ReplyFiles /\ {} \in VerdictFiles /\ 0 \in 0 .. MaxReplies
      BY EvidenceConstants DEF ReplyFiles, VerdictFiles
    <3>3. replies' \in [Item -> ReplyFiles] /\ verdicts' \in [Item -> VerdictFiles]
          /\ reviewed' \in [Item -> LastReviews] /\ versions' \in [Item -> 0 .. MaxReplies]
      BY <3>1, <3>2, FileFields, WaitingTyped
    <3>4. FilesTyped'
      BY <1>1, <1>2, <3>1, <3>3 DEF FilesTyped
    <3> QED BY <3>1, <3>4, ItemKinds, WaitingTyped
  <2> QED BY <2>1, <2>2
<1>4. EvidenceTyped'
  BY <1>1, <1>3 DEF EvidenceInv, EvidenceTyped
<1>5. ASSUME NEW i \in Item PROVE ItemFits(i)'
  <2>1. ItemFits(i) BY FileFields
  <2>2. CASE i \in OfKind("chunk")
    BY <1>1, <1>3, <2>1, <2>2 DEF ItemFits, Passed, Answers, Request
  <2>3. CASE i \in OfKind("batch")
    <3>1. work[i].step = "waiting" BY <1>1, <2>3 DEF EvidenceInv, PhaseFits
    <3> QED BY <1>1, <1>3, <2>1, <2>3, <3>1 DEF ItemFits, Passed
  <2> QED BY <2>2, <2>3, ItemKinds
<1>6. PhaseFits'
  BY <1>1, <1>2 DEF EvidenceInv, PhaseFits, Finished, OfKind, Item
<1> QED BY <1>4, <1>5, <1>6 DEF EvidenceInv

\* The phase changes, and no item does.
LEMMA PhaseKeeps ==
  ASSUME EvidenceInv, UNCHANGED <<work, replies, verdicts, reviewed, basis, versions, stageTries>>,
         planned' \in BOOLEAN, note' \in [Item -> Pages], PhaseFits',
         phase' \in {"draft", "failed", "published"}
  PROVE  EvidenceInv'
<1>1. EvidenceTyped' BY DEF EvidenceInv, EvidenceTyped, FilesTyped
<1>2. ASSUME NEW i \in Item PROVE ItemFits(i)'
  <2>1. ItemFits(i) BY FileFields
  <2> QED BY <2>1 DEF ItemFits, Passed, Answers, Request
<1> QED BY <1>1, <1>2 DEF EvidenceInv

LEMMA StageStepKeeps ==
  ASSUME EvidenceInv, StageStep \/ StageDies
  PROVE  EvidenceInv'
<1>1. CASE StageBegins
  <2>1. stageTries + 1 \in 0 .. StageTries
    BY <1>1, EvidenceConstants DEF StageBegins, EvidenceInv, EvidenceTyped
  <2> QED BY <1>1, <2>1, FreshKeeps DEF StageBegins
<1>2. CASE StageDies
  BY <1>2, FreshKeeps DEF StageDies, EvidenceInv, EvidenceTyped
<1>3. CASE Merges BY <1>3, MergesKeeps
<1>4. CASE Plans
  <2>1. PhaseFits'
    BY <1>4 DEF Plans, EvidenceInv, PhaseFits, NewBasis, Finished, OfKind, Item
  <2> QED BY <1>4, <2>1, PhaseKeeps DEF Plans, EvidenceInv, EvidenceTyped
<1>5. CASE PlanRaises \/ StageFails
  <2>1. PhaseFits' BY <1>5 DEF PlanRaises, StageFails, PhaseFits
  <2> QED BY <1>5, <2>1, PhaseKeeps DEF PlanRaises, StageFails, EvidenceInv, EvidenceTyped, FilesTyped, files
<1>6. CASE Publishes
  <2>1. /\ phase = "draft" /\ Finished("batch") /\ phase' = "published"
        /\ note' = [i \in Item |-> [version |-> work[i].found, caveat |-> work[i].unresolved]]
        /\ UNCHANGED <<work, files, stageTries>>
    BY <1>6 DEF Publishes, Caveat
  <2>2. note' \in [Item -> Pages]
    BY <2>1, FileFields DEF Pages
  <2>3. \A i \in Item : work[i].step = "done"
    BY <2>1, ItemKinds DEF EvidenceInv, PhaseFits, Finished
  <2>4. basis' = NewBasis' /\ Finished("chunk")'
    BY <2>1 DEF EvidenceInv, PhaseFits, NewBasis, Finished, OfKind, Item, files
  <2>5. PhaseFits'
    BY <2>1, <2>3, <2>4 DEF PhaseFits
  <2> QED BY <2>1, <2>2, <2>5, PhaseKeeps DEF files, EvidenceInv, EvidenceTyped, FilesTyped
<1> QED BY <1>1, <1>2, <1>3, <1>4, <1>5, <1>6 DEF StageStep

LEMMA EvidenceBegins ==
  ASSUME EvidenceInit
  PROVE  EvidenceInv
<1>1. EvidenceTyped
  <2>1. 0 \in 0 .. MaxReplies /\ 0 \in 0 .. StageTries
    BY EvidenceConstants
  <2>2. work \in [Item -> Jobs] /\ reviewed \in [Item -> LastReviews]
    BY WaitingTyped DEF EvidenceInit
  <2>3. replies \in [Item -> ReplyFiles] /\ verdicts \in [Item -> VerdictFiles]
    BY DEF EvidenceInit, ReplyFiles, VerdictFiles
  <2>4. basis \in [1 .. Chunks -> 0 .. MaxReplies] /\ versions \in [Item -> 0 .. MaxReplies]
    BY <2>1 DEF EvidenceInit
  <2>5. note \in [Item -> Pages]
    BY <2>1 DEF EvidenceInit, Pages
  <2> QED BY <2>1, <2>2, <2>3, <2>4, <2>5 DEF EvidenceInit, EvidenceTyped, FilesTyped
<1>2. ASSUME NEW i \in Item PROVE ItemFits(i)
  BY WaitingTyped DEF EvidenceInit, ItemFits
<1>3. PhaseFits BY DEF EvidenceInit, PhaseFits
<1> QED BY <1>1, <1>2, <1>3 DEF EvidenceInv

LEMMA EvidenceStepKeeps ==
  ASSUME EvidenceInv, [EvidenceNext]_evidenceVars
  PROVE  EvidenceInv'
<1>1. CASE EvidenceNext
  BY <1>1, ItemStepKeeps, StageStepKeeps DEF EvidenceNext
<1>2. CASE UNCHANGED evidenceVars
  <2>1. EvidenceTyped' BY <1>2 DEF evidenceVars, files, EvidenceInv, EvidenceTyped, FilesTyped
  <2>2. ASSUME NEW i \in Item PROVE ItemFits(i)'
    <3>1. ItemFits(i) BY FileFields
    <3> QED BY <1>2, <3>1 DEF ItemFits, Passed, Answers, Request, evidenceVars, files
  <2>3. PhaseFits'
    BY <1>2 DEF evidenceVars, files, EvidenceInv, PhaseFits, NewBasis, Finished, OfKind, Item
  <2> QED BY <2>1, <2>2, <2>3 DEF EvidenceInv
<1> QED BY <1>1, <1>2

LEMMA EvidenceInvIsSafe ==
  ASSUME EvidenceInv
  PROVE  EvidenceTypeOK /\ EvidenceSafety
<1>1. EvidenceTypeOK
  BY FileFields DEF EvidenceInv, EvidenceTyped, FilesTyped, EvidenceTypeOK, Jobs, LastReviews, Pages,
                    ReplyFiles, VerdictFiles
<1>2. ObjectionsArePrinted
  <2>1. ASSUME phase = "published", NEW i \in Item
        PROVE  note[i].version # 0 /\ (<<note[i].version, "clean">> \in verdicts[i] \/ note[i].caveat)
    <3>1. /\ work[i].step = "done" /\ note[i].version = work[i].found /\ note[i].caveat = work[i].unresolved
      BY <2>1 DEF EvidenceInv, PhaseFits
    <3>2. work[i].found # 0 /\ (Passed(i, work[i].found) \/ work[i].unresolved)
      BY <3>1, FileFields DEF ItemFits
    <3> QED BY <3>1, <3>2 DEF Passed
  <2> QED BY <2>1 DEF ObjectionsArePrinted
<1>3. NothingIsPaidTwice
  <2>1. ASSUME NEW i \in Active PROVE i \in Item
    BY AtWorkNow, ItemKinds DEF EvidenceInv, EvidenceTyped
  <2> QED BY <2>1, FileFields DEF NothingIsPaidTwice, ItemFits
<1>4. DraftsAreOfTheseFacts
  BY DEF EvidenceInv, PhaseFits, DraftsAreOfTheseFacts
<1> QED BY <1>1, <1>2, <1>3, <1>4 DEF EvidenceSafety

LEMMA EvidenceInvariant == EvidenceSpec => []EvidenceInv
BY EvidenceBegins, EvidenceStepKeeps, PTL DEF EvidenceSpec

\* The files of a stage, its items and what they become have their types. (worker/evidence_notes.py)
THEOREM EvidenceTypeCorrect == EvidenceSpec => []EvidenceTypeOK
BY EvidenceInvariant, EvidenceInvIsSafe, PTL

\* An objection of the last review is printed, no reply is paid for twice, and drafts are of the
\* facts that stand, for any number of chunks, repairs, replies and attempts.
\* (worker/evidence_notes.py generate_evidence_notes)
THEOREM EvidenceIsSafe == EvidenceSpec => []EvidenceSafety
BY EvidenceInvariant, EvidenceInvIsSafe, PTL

----------------------------------------------------------------------------
(***************************************************************************)
(* TranscriptPolish.                                                       *)
(***************************************************************************)

\* The entries of a sequence, when none occurs twice.
OneEach(q) == \A j, k \in DOMAIN q : q[j] = q[k] => j = k
EntriesOf(q) == {q[k] : k \in DOMAIN q}

LEMMA TailDrops ==
  ASSUME NEW S, NEW q \in Seq(S), q # << >>, OneEach(q)
  PROVE  /\ Tail(q) \in Seq(S) /\ OneEach(Tail(q)) /\ Head(q) \in EntriesOf(q)
         /\ EntriesOf(Tail(q)) = EntriesOf(q) \ {Head(q)}
<1>1. Len(q) \in Nat /\ Len(q) >= 1 /\ DOMAIN q = 1 .. Len(q)
  OBVIOUS
<1>2. Tail(q) \in Seq(S) /\ Len(Tail(q)) = Len(q) - 1 /\ \A k \in 1 .. Len(q) - 1 : Tail(q)[k] = q[k + 1]
  OBVIOUS
<1>3. DOMAIN Tail(q) = 1 .. Len(q) - 1 /\ Head(q) = q[1]
  BY <1>2
<1>4. OneEach(Tail(q))
  <2>1. ASSUME NEW j \in 1 .. Len(q) - 1, NEW k \in 1 .. Len(q) - 1, q[j + 1] = q[k + 1] PROVE j = k
    BY <1>1, <2>1 DEF OneEach
  <2> QED BY <1>2, <1>3, <2>1 DEF OneEach
<1>5. Head(q) \in EntriesOf(q)
  BY <1>1, <1>3 DEF EntriesOf
<1>6. EntriesOf(Tail(q)) = EntriesOf(q) \ {Head(q)}
  <2>1. ASSUME NEW x \in EntriesOf(Tail(q)) PROVE x \in EntriesOf(q) /\ x # Head(q)
    <3>1. PICK k \in 1 .. Len(q) - 1 : x = q[k + 1]
      BY <1>2, <1>3 DEF EntriesOf
    <3>2. k + 1 \in DOMAIN q /\ 1 \in DOMAIN q /\ k + 1 # 1
      BY <1>1
    <3> QED BY <1>3, <3>1, <3>2 DEF OneEach, EntriesOf
  <2>2. ASSUME NEW x \in EntriesOf(q), x # Head(q) PROVE x \in EntriesOf(Tail(q))
    <3>1. PICK k \in 1 .. Len(q) : x = q[k]
      BY <1>1 DEF EntriesOf
    <3>2. k # 1 BY <1>3, <2>2, <3>1
    <3>3. k - 1 \in 1 .. Len(q) - 1 /\ (k - 1) + 1 = k BY <1>1, <3>2
    <3>4. Tail(q)[k - 1] = x BY <1>2, <3>1, <3>3
    <3> QED BY <1>3, <3>3, <3>4 DEF EntriesOf
  <2> QED BY <2>1, <2>2
<1> QED BY <1>2, <1>4, <1>5, <1>6

LEMMA PairPuts ==
  ASSUME NEW S, NEW q \in Seq(S), OneEach(q), NEW a \in S, NEW b \in S, a # b,
         a \notin EntriesOf(q), b \notin EntriesOf(q)
  PROVE  /\ <<a, b>> \o q \in Seq(S) /\ OneEach(<<a, b>> \o q) /\ <<a, b>> \o q # << >>
         /\ EntriesOf(<<a, b>> \o q) = EntriesOf(q) \cup {a, b}
<1> DEFINE p == <<a, b>> \o q
<1>1. Len(q) \in Nat /\ DOMAIN q = 1 .. Len(q)
  OBVIOUS
<1>2. p \in Seq(S) /\ Len(p) = Len(q) + 2 /\ p[1] = a /\ p[2] = b
      /\ \A k \in 1 .. Len(q) : p[k + 2] = q[k]
  OBVIOUS
<1>3. DOMAIN p = 1 .. Len(q) + 2
  BY <1>2
<1> HIDE DEF p
<1>4. ASSUME NEW k \in DOMAIN p PROVE \/ k = 1 /\ p[k] = a
                                      \/ k = 2 /\ p[k] = b
                                      \/ k - 2 \in DOMAIN q /\ p[k] = q[k - 2] /\ p[k] \in EntriesOf(q)
  <2>1. CASE k \notin {1, 2}
    <3>1. k - 2 \in 1 .. Len(q) /\ (k - 2) + 2 = k BY <1>1, <1>3, <2>1
    <3>2. p[k] = q[k - 2] BY <1>2, <3>1
    <3> QED BY <1>1, <3>1, <3>2 DEF EntriesOf
  <2> QED BY <1>2, <2>1
<1>5. OneEach(p)
  <2>1. ASSUME NEW j \in DOMAIN p, NEW k \in DOMAIN p, p[j] = p[k] PROVE j = k
    <3>1. CASE j - 2 \in DOMAIN q /\ k - 2 \in DOMAIN q /\ p[j] = q[j - 2] /\ p[k] = q[k - 2]
      <4>1. j - 2 = k - 2 BY <2>1, <3>1 DEF OneEach
      <4> QED BY <1>1, <1>3, <4>1
    <3> QED BY <1>4, <2>1, <3>1
  <2> QED BY <2>1 DEF OneEach
<1>6. EntriesOf(p) = EntriesOf(q) \cup {a, b}
  <2>1. 1 \in DOMAIN p /\ 2 \in DOMAIN p BY <1>1, <1>3
  <2>2. ASSUME NEW x \in EntriesOf(q) PROVE x \in EntriesOf(p)
    <3>1. PICK k \in 1 .. Len(q) : x = q[k] BY <1>1 DEF EntriesOf
    <3>2. k + 2 \in DOMAIN p /\ p[k + 2] = x BY <1>1, <1>2, <1>3, <3>1
    <3> QED BY <3>2 DEF EntriesOf
  <2>3. a \in EntriesOf(p) /\ b \in EntriesOf(p) BY <1>2, <2>1 DEF EntriesOf
  <2>4. ASSUME NEW x \in EntriesOf(p) PROVE x \in EntriesOf(q) \cup {a, b}
    <3>1. PICK k \in DOMAIN p : x = p[k] BY DEF EntriesOf
    <3> QED BY <1>4, <3>1
  <2> QED BY <2>2, <2>3, <2>4
<1>7. p # << >> BY <1>1, <1>2
<1> QED BY <1>2, <1>5, <1>6, <1>7 DEF p

Within(r) == r[1] .. r[2]
Covered == UNION {Within(r) : r \in Outstanding}
AtRequest == {c \in Polishers : polisher[c] \in {"asked", "raised"}}

PolishTyped ==
    /\ polishing \in {"propose", "review", "published", "failed"}
    /\ stack \in [Polishers -> Seq(Segment \X Segment)] /\ polisher \in [Polishers -> WorkerStates]
    /\ retried \subseteq Segment /\ wording \in [Segment -> {"source", "fixed"}]
    /\ completed \in Nat /\ kept \in Nat /\ unfinished \in Nat /\ attempts \in Nat
    /\ \A n \in DOMAIN reviewer : reviewer[n] \in WorkerStates
    /\ decision \in [Segment -> {"none", "approved", "rejected"}]

\* No range stands twice, and a worker that asks has one to ask for.
QueuesFit ==
    /\ \A c \in Polishers : OneEach(stack[c])
    /\ \A c, d \in Polishers : c # d => RangesOf(c) \cap RangesOf(d) = {}
    /\ \A c \in Polishers : (polisher[c] \in {"asked", "raised"} => stack[c] # << >>)
                            /\ (polisher[c] = "done" => stack[c] = << >>)

RangesApart ==
    /\ \A r \in Outstanding : r[1] <= r[2]
    /\ \A r, q \in Outstanding : r # q => Within(r) \cap Within(q) = {}

CountsFit ==
    /\ completed + Cardinality(Left) = Cardinality(Segment \ Blank)
    /\ unfinished = Cardinality(Outstanding)
    /\ \A s \in Left : wording[s] = "source"
    /\ kept + Cardinality(Edits) <= completed

Spent ==
    attempts + 3 * Cardinality(Covered) + Len(PolishRange)
      <= 3 * Segments + Cardinality(AtRequest) + Cardinality(Outstanding) + Cardinality(retried \cap Covered)

ReviewsFit ==
    /\ polishing \in {"review", "published"} => \A c \in Polishers : polisher[c] = "done"
    /\ polishing = "propose" => \A s \in Segment : decision[s] = "none"
    /\ polishing = "review" =>
         /\ \A s \in Segment : decision[s] = "approved" => s \in Edits
         /\ DOMAIN reviewStack = DOMAIN reviewer
         /\ \A n \in DOMAIN reviewer : /\ reviewStack[n] \in Seq(SUBSET Edits)
                                       /\ reviewer[n] # "done" => reviewStack[n] # << >>
    /\ polishing = "published" => \A s \in Segment : wording[s] = "fixed" <=> decision[s] = "approved"

PolishInv == PolishTyped /\ QueuesFit /\ RangesApart /\ CountsFit /\ Spent /\ ReviewsFit

LEMMA SegmentsCount == Segments \in Nat /\ Segments >= 1 /\ IsFiniteSet(Segment) /\ Cardinality(Segment) = Segments
<1>1. Segments \in Nat /\ Segments >= 1
  BY PolishConstants
<1> QED BY <1>1, FS_Interval DEF Segment

LEMMA RangesAreWithin ==
  ASSUME NEW r \in Segment \X Segment
  PROVE  r[1] \in Nat /\ r[2] \in Nat /\ Within(r) \subseteq Segment /\ (r[1] <= r[2] => r[1] \in Within(r))
<1>1. r[1] \in 1 .. Segments /\ r[2] \in 1 .. Segments
  BY DEF Segment
<1>2. r[1] \in Nat /\ r[2] \in Nat /\ 1 <= r[1] /\ r[2] <= Segments
  BY <1>1, SegmentsCount
<1>3. \A s \in r[1] .. r[2] : s \in 1 .. Segments
  BY <1>2, SegmentsCount
<1> QED BY <1>2, <1>3 DEF Within, Segment

LEMMA Heads ==
  ASSUME PolishTyped, QueuesFit, RangesApart, NEW c \in Polishers, stack[c] # << >>
  PROVE  /\ RangeAt(c) \in RangesOf(c) /\ RangeAt(c) \in Outstanding
         /\ RangeAt(c) \in Segment \X Segment /\ RangeAt(c)[1] \in Within(RangeAt(c))
         /\ RangeAt(c)[1] \in Nat /\ RangeAt(c)[2] \in Nat /\ RangeAt(c)[1] <= RangeAt(c)[2]
         /\ Within(RangeAt(c)) \subseteq Segment /\ Within(RangeAt(c)) \subseteq Covered
<1>1. stack[c] \in Seq(Segment \X Segment) /\ OneEach(stack[c])
  BY DEF PolishTyped, QueuesFit
<1>2. RangeAt(c) \in RangesOf(c)
  BY <1>1, TailDrops DEF RangeAt, RangesOf, EntriesOf
<1>3. RangeAt(c) \in Outstanding
  BY <1>2 DEF Outstanding
<1>4. RangeAt(c) \in Segment \X Segment
  BY <1>1 DEF RangeAt
<1>5. RangeAt(c)[1] <= RangeAt(c)[2]
  BY <1>3 DEF RangesApart
<1>6. RangeAt(c)[1] \in Nat /\ RangeAt(c)[2] \in Nat
      /\ RangeAt(c)[1] \in Within(RangeAt(c)) /\ Within(RangeAt(c)) \subseteq Segment
  BY <1>4, <1>5, RangesAreWithin
<1>8. Within(RangeAt(c)) \subseteq Covered
  BY <1>3 DEF Covered
<1> QED BY <1>2, <1>3, <1>4, <1>5, <1>6, <1>8

LEMMA LeftIsCovered == Left = Covered \ Blank
BY DEF Left, Covered, Targets, Within

LEMMA OutstandingTyped ==
  ASSUME PolishTyped
  PROVE  /\ \A r \in Outstanding : r \in Segment \X Segment /\ r[1] \in Nat /\ r[2] \in Nat
         /\ Covered \subseteq Segment
<1>1. ASSUME NEW c \in Polishers, NEW k \in DOMAIN stack[c] PROVE stack[c][k] \in Segment \X Segment
  BY DEF PolishTyped
<1>2. ASSUME NEW r \in Outstanding
      PROVE  r \in Segment \X Segment /\ r[1] \in Nat /\ r[2] \in Nat /\ Within(r) \subseteq Segment
  <2>1. r \in Segment \X Segment
    BY <1>1 DEF Outstanding, RangesOf
  <2> QED BY <2>1, RangesAreWithin
<1> QED BY <1>2 DEF Covered

LEMMA OutstandingFinite ==
  ASSUME PolishTyped
  PROVE  /\ IsFiniteSet(Outstanding) /\ Cardinality(Outstanding) \in Nat
         /\ IsFiniteSet(Covered) /\ Cardinality(Covered) \in Nat
         /\ IsFiniteSet(Left) /\ Cardinality(Left) \in Nat
<1>1. IsFiniteSet(Segment \X Segment)
  BY SegmentsCount, FS_Product
<1>2. Outstanding \subseteq Segment \X Segment /\ Covered \subseteq Segment
  BY OutstandingTyped
<1>3. Left \subseteq Segment
  BY <1>2, LeftIsCovered
<1>4. IsFiniteSet(Outstanding)
  BY <1>1, <1>2, FS_Subset
<1>5. IsFiniteSet(Covered) /\ IsFiniteSet(Left)
  BY <1>2, <1>3, SegmentsCount, FS_Subset
<1> QED BY <1>4, <1>5, FS_CardinalityType

\* A worker takes its first range off its stack.
LEMMA DropsRange ==
  ASSUME PolishTyped, QueuesFit, RangesApart, NEW c \in Polishers, stack[c] # << >>,
         stack' = [stack EXCEPT ![c] = Tail(@)]
  PROVE  /\ stack' \in [Polishers -> Seq(Segment \X Segment)]
         /\ \A d \in Polishers : OneEach(stack'[d])
         /\ \A d, e \in Polishers : d # e => RangesOf(d)' \cap RangesOf(e)' = {}
         /\ RangesApart'
         /\ Outstanding' = Outstanding \ {RangeAt(c)}
         /\ Covered' = Covered \ Within(RangeAt(c)) /\ Left' = Left \ Targets(RangeAt(c))
<1> DEFINE h == RangeAt(c)
<1>1. /\ stack \in [Polishers -> Seq(Segment \X Segment)] /\ \A d \in Polishers : OneEach(stack[d])
      /\ \A d, e \in Polishers : d # e => RangesOf(d) \cap RangesOf(e) = {}
  BY DEF PolishTyped, QueuesFit
<1>2. /\ Tail(stack[c]) \in Seq(Segment \X Segment) /\ OneEach(Tail(stack[c]))
      /\ EntriesOf(Tail(stack[c])) = EntriesOf(stack[c]) \ {h}
  BY <1>1, TailDrops DEF RangeAt
<1>3. /\ stack' \in [Polishers -> Seq(Segment \X Segment)] /\ stack'[c] = Tail(stack[c])
      /\ \A d \in Polishers : d # c => stack'[d] = stack[d]
  BY <1>1, <1>2
<1>4. \A d \in Polishers : OneEach(stack'[d])
  BY <1>1, <1>2, <1>3
<1>5. RangesOf(c)' = RangesOf(c) \ {h} /\ \A d \in Polishers : d # c => RangesOf(d)' = RangesOf(d)
  <2>1. RangesOf(c)' = RangesOf(c) \ {h}
    BY <1>2, <1>3 DEF RangesOf, EntriesOf
  <2>2. ASSUME NEW d \in Polishers, d # c PROVE RangesOf(d)' = RangesOf(d)
    BY <1>3, <2>2 DEF RangesOf
  <2> QED BY <2>1, <2>2
<1>6. \A d, e \in Polishers : d # e => RangesOf(d)' \cap RangesOf(e)' = {}
  <2>1. \A d \in Polishers : RangesOf(d)' \subseteq RangesOf(d)
    BY <1>5
  <2>2. ASSUME NEW d \in Polishers, NEW e \in Polishers, d # e PROVE RangesOf(d)' \cap RangesOf(e)' = {}
    <3>1. RangesOf(d) \cap RangesOf(e) = {}
      BY <1>1, <2>2
    <3> QED BY <2>1, <3>1
  <2> QED BY <2>2
<1>7. h \in RangesOf(c)
  BY Heads
<1>8. \A d \in Polishers : RangesOf(d)' = RangesOf(d) \ {h}
  BY <1>1, <1>5, <1>7
<1>9. Outstanding' = Outstanding \ {h}
  BY <1>8 DEF Outstanding, Polishers
<1>10. RangesApart'
  BY <1>9 DEF RangesApart, Within
<1>11. h \in Outstanding /\ \A r \in Outstanding : r # h => Within(r) \cap Within(h) = {}
  BY Heads DEF RangesApart
<1>12. Covered' = Covered \ Within(h)
  BY <1>9, <1>11 DEF Covered, Within
<1>13. Left' = Covered' \ Blank /\ Left = Covered \ Blank /\ Targets(h) = Within(h) \ Blank
  BY LeftIsCovered DEF Left, Covered, Targets, Within
<1> QED BY <1>3, <1>4, <1>6, <1>9, <1>10, <1>12, <1>13

\* The halves of a range.
LEMMA HalvesFit ==
  ASSUME NEW r \in Segment \X Segment, r[1] <= r[2], ~Single(r)
  PROVE  \E a, b \in Segment \X Segment :
           /\ Halves(r) = <<a, b>> /\ a # b /\ a[1] <= a[2] /\ b[1] <= b[2]
           /\ a # r /\ b # r /\ r[1] \in Within(a) /\ r[2] \in Within(b)
           /\ Within(a) \cap Within(b) = {} /\ Within(a) \cup Within(b) = Within(r)
<1> DEFINE m == r[1] + (r[2] + 1 - r[1]) \div 2
           a == <<r[1], m - 1>>
           b == <<m, r[2]>>
<1>1. r[1] \in Nat /\ r[2] \in Nat /\ 1 <= r[1] /\ r[2] <= Segments /\ r[1] < r[2]
  <2>1. r[1] \in 1 .. Segments /\ r[2] \in 1 .. Segments
    BY DEF Segment
  <2> QED BY <2>1, SegmentsCount DEF Single
<1>2. m \in Nat /\ r[1] < m /\ m <= r[2]
  <2>1. \A x, y \in Nat : x < y => /\ x + (y + 1 - x) \div 2 \in Nat
                                   /\ x < x + (y + 1 - x) \div 2 /\ x + (y + 1 - x) \div 2 <= y
    BY SMTT(30)
  <2> QED BY <1>1, <2>1
<1>3. Halves(r) = <<a, b>>
  BY DEF Halves
<1> HIDE DEF m
<1>4. a[1] = r[1] /\ a[2] = m - 1 /\ b[1] = m /\ b[2] = r[2]
  OBVIOUS
<1>5. a \in Segment \X Segment /\ b \in Segment \X Segment
  <2>1. r[1] \in Segment /\ m - 1 \in Segment /\ m \in Segment /\ r[2] \in Segment
    BY <1>1, <1>2, SegmentsCount DEF Segment
  <2> QED BY <2>1
<1>6. a # b /\ a # r /\ b # r
  BY <1>1, <1>2, <1>4
<1>7. a[1] <= a[2] /\ b[1] <= b[2] /\ r[1] \in Within(a) /\ r[2] \in Within(b)
  BY <1>1, <1>2 DEF Within
<1>8. Within(a) \cap Within(b) = {} /\ Within(a) \cup Within(b) = Within(r)
  BY <1>1, <1>2 DEF Within
<1> HIDE DEF a, b
<1> QED BY <1>3, <1>5, <1>6, <1>7, <1>8

\* A worker puts the halves of its first range on its stack.
LEMMA SplitsRange ==
  ASSUME PolishTyped, QueuesFit, RangesApart, NEW c \in Polishers, stack[c] # << >>, ~Single(RangeAt(c)),
         stack' = [stack EXCEPT ![c] = Halves(Head(@)) \o Tail(@)]
  PROVE  /\ stack' \in [Polishers -> Seq(Segment \X Segment)]
         /\ \A d \in Polishers : OneEach(stack'[d])
         /\ \A d, e \in Polishers : d # e => RangesOf(d)' \cap RangesOf(e)' = {}
         /\ RangesApart'
         /\ Cardinality(Outstanding') = Cardinality(Outstanding) + 1
         /\ Covered' = Covered /\ Left' = Left
<1> DEFINE h == RangeAt(c)
<1>1. /\ stack \in [Polishers -> Seq(Segment \X Segment)] /\ \A d \in Polishers : OneEach(stack[d])
      /\ \A d, e \in Polishers : d # e => RangesOf(d) \cap RangesOf(e) = {}
  BY DEF PolishTyped, QueuesFit
<1>2. /\ h \in Outstanding /\ h \in RangesOf(c) /\ h \in Segment \X Segment /\ h[1] <= h[2]
      /\ h[1] \in Within(h) /\ h[2] \in Within(h)
  BY Heads DEF Within
<1> HIDE DEF h
<1>3. PICK a, b \in Segment \X Segment :
           /\ Halves(h) = <<a, b>> /\ a # b /\ a[1] <= a[2] /\ b[1] <= b[2]
           /\ a # h /\ b # h /\ h[1] \in Within(a) /\ h[2] \in Within(b)
           /\ Within(a) \cap Within(b) = {} /\ Within(a) \cup Within(b) = Within(h)
  <2>1. ~Single(h)
    BY DEF h
  <2> QED BY <1>2, <2>1, HalvesFit
<1>4. \A r \in Outstanding : r # h => Within(r) \cap Within(h) = {}
  BY <1>2 DEF RangesApart
<1>5. a \notin Outstanding /\ b \notin Outstanding
  BY <1>2, <1>3, <1>4
<1>6. /\ Tail(stack[c]) \in Seq(Segment \X Segment) /\ OneEach(Tail(stack[c]))
      /\ EntriesOf(Tail(stack[c])) = EntriesOf(stack[c]) \ {h}
  BY <1>1, TailDrops DEF h, RangeAt
<1>7. EntriesOf(stack[c]) = RangesOf(c) /\ RangesOf(c) \subseteq Outstanding
  BY DEF EntriesOf, RangesOf, Outstanding
<1> DEFINE q == <<a, b>> \o Tail(stack[c])
<1>8. /\ q \in Seq(Segment \X Segment) /\ OneEach(q)
      /\ EntriesOf(q) = (RangesOf(c) \ {h}) \cup {a, b}
  <2>1. a \notin EntriesOf(Tail(stack[c])) /\ b \notin EntriesOf(Tail(stack[c]))
    BY <1>5, <1>6, <1>7
  <2>2. /\ <<a, b>> \o Tail(stack[c]) \in Seq(Segment \X Segment) /\ OneEach(<<a, b>> \o Tail(stack[c]))
        /\ EntriesOf(<<a, b>> \o Tail(stack[c])) = EntriesOf(Tail(stack[c])) \cup {a, b}
    <3>1. a # b
      BY <1>3
    <3>2. PICK rest : rest = Tail(stack[c])
      OBVIOUS
    <3>3. rest \in Seq(Segment \X Segment) /\ OneEach(rest) /\ a \notin EntriesOf(rest) /\ b \notin EntriesOf(rest)
      BY <1>6, <2>1, <3>2
    <3>4. /\ <<a, b>> \o rest \in Seq(Segment \X Segment) /\ OneEach(<<a, b>> \o rest)
          /\ EntriesOf(<<a, b>> \o rest) = EntriesOf(rest) \cup {a, b}
      BY <3>1, <3>3, PairPuts
    <3> QED BY <3>2, <3>4
  <2> QED BY <1>6, <1>7, <2>2
<1>9. stack'[c] = q
  BY <1>1, <1>3 DEF h, RangeAt
<1> HIDE DEF q
<1>10. /\ stack' \in [Polishers -> Seq(Segment \X Segment)]
       /\ \A d \in Polishers : d # c => stack'[d] = stack[d]
  <2>1. stack' = [stack EXCEPT ![c] = q]
    BY <1>1, <1>3 DEF h, RangeAt, q
  <2> QED BY <1>1, <1>8, <2>1
<1>11. \A d \in Polishers : OneEach(stack'[d])
  BY <1>1, <1>8, <1>9, <1>10
<1>12. RangesOf(c)' = (RangesOf(c) \ {h}) \cup {a, b} /\ \A d \in Polishers : d # c => RangesOf(d)' = RangesOf(d)
  <2>1. RangesOf(c)' = (RangesOf(c) \ {h}) \cup {a, b}
    BY <1>8, <1>9 DEF RangesOf, EntriesOf
  <2>2. ASSUME NEW d \in Polishers, d # c PROVE RangesOf(d)' = RangesOf(d)
    BY <1>10, <2>2 DEF RangesOf
  <2> QED BY <2>1, <2>2
<1>13. \A d, e \in Polishers : d # e => RangesOf(d)' \cap RangesOf(e)' = {}
  <2>1. \A d \in Polishers : a \notin RangesOf(d) /\ b \notin RangesOf(d)
    BY <1>5 DEF Outstanding
  <2>2. ASSUME NEW d \in Polishers, d # c PROVE RangesOf(c)' \cap RangesOf(d)' = {}
    <3>1. RangesOf(c) \cap RangesOf(d) = {} /\ RangesOf(d)' = RangesOf(d)
      BY <1>1, <1>12, <2>2
    <3> QED BY <1>12, <2>1, <3>1
  <2>3. ASSUME NEW d \in Polishers, NEW e \in Polishers, d # e, d # c, e # c
        PROVE  RangesOf(d)' \cap RangesOf(e)' = {}
    BY <1>1, <1>12, <2>3
  <2> QED BY <2>2, <2>3
<1>14. Outstanding' = (Outstanding \ {h}) \cup {a, b}
  <2>1. Outstanding' = UNION {RangesOf(d)' : d \in Polishers}
    BY DEF Outstanding, Polishers
  <2>2. \A d \in Polishers : d # c => h \notin RangesOf(d)
    BY <1>1, <1>2
  <2>3. ASSUME NEW x \in Outstanding' PROVE x \in (Outstanding \ {h}) \cup {a, b}
    <3>1. PICK d \in Polishers : x \in RangesOf(d)'
      BY <2>1
    <3>2. x \in (RangesOf(d) \ {h}) \cup {a, b}
      BY <1>12, <2>2, <3>1
    <3>3. RangesOf(d) \subseteq Outstanding
      BY DEF Outstanding
    <3> QED BY <3>2, <3>3
  <2>4. ASSUME NEW x \in Outstanding, x # h PROVE x \in Outstanding'
    <3>1. PICK d \in Polishers : x \in RangesOf(d)
      BY DEF Outstanding
    <3>2. x \in RangesOf(d)'
      BY <1>12, <2>4, <3>1
    <3> QED BY <2>1, <3>2
  <2>5. a \in Outstanding' /\ b \in Outstanding'
    BY <1>12, <2>1
  <2> QED BY <2>3, <2>4, <2>5
<1>15. RangesApart'
  <2>1. \A r \in Outstanding' : r[1] <= r[2]
    BY <1>3, <1>14 DEF RangesApart
  <2>2. ASSUME NEW r \in Outstanding', NEW p \in Outstanding', r # p PROVE Within(r) \cap Within(p) = {}
    <3>1. CASE r \in {a, b} /\ p \in {a, b}
      BY <1>3, <2>2, <3>1
    <3>2. CASE r \in {a, b} /\ p \notin {a, b}
      <4>1. Within(p) \cap Within(h) = {} /\ Within(r) \subseteq Within(h)
        BY <1>3, <1>4, <1>14, <3>2
      <4> QED BY <4>1
    <3>3. CASE r \notin {a, b} /\ p \in {a, b}
      <4>1. Within(r) \cap Within(h) = {} /\ Within(p) \subseteq Within(h)
        BY <1>3, <1>4, <1>14, <3>3
      <4> QED BY <4>1
    <3>4. CASE r \notin {a, b} /\ p \notin {a, b}
      BY <1>14, <2>2, <3>4 DEF RangesApart
    <3> QED BY <3>1, <3>2, <3>3, <3>4
  <2>3. \A r \in Outstanding' : Within(r)' = Within(r)
    BY DEF Within
  <2> QED BY <2>1, <2>2 DEF RangesApart, Within
<1>16. Covered' = Covered
  <2>1. Covered' = UNION {Within(r) : r \in Outstanding'}
    BY DEF Covered, Within
  <2>2. Within(h) \subseteq Covered
    BY <1>2 DEF Covered
  <2>3. ASSUME NEW s, NEW r \in Outstanding', s \in Within(r) PROVE s \in Covered
    <3>1. CASE r \in Outstanding
      BY <2>3, <3>1 DEF Covered
    <3>2. CASE r \in {a, b}
      BY <1>3, <2>2, <2>3, <3>2
    <3> QED BY <1>14, <3>1, <3>2
  <2>4. ASSUME NEW s, NEW r \in Outstanding, s \in Within(r) PROVE s \in Covered'
    <3>1. CASE r = h
      BY <1>3, <1>14, <2>1, <2>4, <3>1
    <3>2. CASE r # h
      BY <1>14, <2>1, <2>4, <3>2
    <3> QED BY <3>1, <3>2
  <2>5. Covered' \subseteq Covered
    BY <2>1, <2>3
  <2>6. Covered \subseteq Covered'
    BY <2>4 DEF Covered
  <2> QED BY <2>5, <2>6
<1>17. Left' = Left
  <2>1. Left' = Covered' \ Blank
    BY DEF Left, Covered, Targets, Within
  <2> QED BY <1>16, <2>1, LeftIsCovered
<1>18. IsFiniteSet(Outstanding)
  BY OutstandingFinite
<1>19. Cardinality(Outstanding') = Cardinality(Outstanding) + 1
  <2> DEFINE T == Outstanding \ {h}
  <2>1. IsFiniteSet(T) /\ Cardinality(T) = Cardinality(Outstanding) - 1
    BY <1>2, <1>18, FS_RemoveElement
  <2>2. a \notin T /\ b \notin T \cup {a}
    BY <1>3, <1>5
  <2> HIDE DEF T
  <2>3. IsFiniteSet(T \cup {a}) /\ Cardinality(T \cup {a}) = Cardinality(T) + 1
    BY <2>1, <2>2, FS_AddElement
  <2>4. Cardinality((T \cup {a}) \cup {b}) = Cardinality(T \cup {a}) + 1
    BY <2>2, <2>3, FS_AddElement
  <2>5. Outstanding' = (T \cup {a}) \cup {b}
    BY <1>14 DEF T
  <2>6. Cardinality(Outstanding) \in Nat
    BY <1>18, FS_CardinalityType
  <2> QED BY <2>1, <2>3, <2>4, <2>5, <2>6
<1> QED BY <1>10, <1>11, <1>13, <1>15, <1>16, <1>17, <1>19

LEMMA RequestsFinite ==
  /\ IsFiniteSet(Polishers) /\ Cardinality(Polishers) \in Nat
  /\ IsFiniteSet(AtRequest) /\ Cardinality(AtRequest) \in Nat
<1>1. Len(PolishRange) \in Nat /\ Polishers = 1 .. Len(PolishRange)
  BY PolishConstants DEF Polishers
<1>2. IsFiniteSet(Polishers)
  BY <1>1, FS_Interval
<1>3. AtRequest \subseteq Polishers
  BY DEF AtRequest
<1> QED BY <1>2, <1>3, FS_Subset, FS_CardinalityType

LEMMA RetriedFinite ==
  ASSUME PolishTyped
  PROVE  IsFiniteSet(retried \cap Covered) /\ Cardinality(retried \cap Covered) \in Nat
BY OutstandingFinite, FS_Intersection, FS_CardinalityType

\* What the counters lose with a range that is done.
LEMMA DropCounts ==
  ASSUME PolishTyped, QueuesFit, RangesApart, NEW c \in Polishers, stack[c] # << >>,
         stack' = [stack EXCEPT ![c] = Tail(@)], retried' = retried
  PROVE  /\ Cardinality(Targets(RangeAt(c))) \in Nat /\ Targets(RangeAt(c)) \subseteq Left
         /\ IsFiniteSet(Targets(RangeAt(c)))
         /\ Cardinality(Left') + Cardinality(Targets(RangeAt(c))) = Cardinality(Left)
         /\ Cardinality(Outstanding') = Cardinality(Outstanding) - 1
         /\ 3 * Cardinality(Covered') + Cardinality(Outstanding) + Cardinality(retried \cap Covered) + 1
              <= 3 * Cardinality(Covered) + Cardinality(Outstanding') + Cardinality(retried' \cap Covered')
<1> DEFINE h == RangeAt(c)
<1>1. /\ Outstanding' = Outstanding \ {h}
      /\ Covered' = Covered \ Within(h) /\ Left' = Left \ Targets(h)
  BY DropsRange
<1>2. h \in Outstanding /\ h[1] \in Within(h) /\ Within(h) \subseteq Covered
  BY Heads
<1>3. Targets(h) = Within(h) \ Blank
  BY DEF Targets, Within
<1> HIDE DEF h
<1>4. Targets(h) \subseteq Left
  BY <1>2, <1>3, LeftIsCovered
<1>5. IsFiniteSet(Outstanding) /\ IsFiniteSet(Covered) /\ IsFiniteSet(Left)
  BY OutstandingFinite
<1>6. /\ IsFiniteSet(Targets(h)) /\ Cardinality(Targets(h)) \in Nat
      /\ Cardinality(Left \ Targets(h)) = Cardinality(Left) - Cardinality(Targets(h)) /\ Cardinality(Left) \in Nat
  <2>1. Left \cap Targets(h) = Targets(h)
    BY <1>4
  <2>2. IsFiniteSet(Targets(h)) /\ Cardinality(Targets(h)) \in Nat /\ Cardinality(Left) \in Nat
    BY <1>4, <1>5, FS_Subset, FS_CardinalityType
  <2>3. Cardinality(Left \ Targets(h)) = Cardinality(Left) - Cardinality(Left \cap Targets(h))
    BY <1>5, FS_Difference
  <2> QED BY <2>1, <2>2, <2>3
<1>7. Cardinality(Outstanding') = Cardinality(Outstanding) - 1 /\ Cardinality(Outstanding) \in Nat
  BY <1>1, <1>2, <1>5, FS_RemoveElement, FS_CardinalityType
<1> DEFINE C == Covered
           W == Within(h)
           R == retried \cap C
           K == retried \cap (C \ W)
<1> HIDE DEF C
<1>8. /\ IsFiniteSet(W) /\ Cardinality(W) \in Nat /\ Cardinality(W) >= 1
      /\ Cardinality(C \ W) = Cardinality(C) - Cardinality(W) /\ Cardinality(C) \in Nat
  <2>1. C \cap W = W /\ W # {} /\ W \subseteq C /\ IsFiniteSet(C)
    BY <1>2, <1>5 DEF C
  <2> HIDE DEF W
  <2>2. IsFiniteSet(W) /\ Cardinality(W) \in Nat /\ Cardinality(C) \in Nat
    BY <2>1, FS_Subset, FS_CardinalityType
  <2>3. Cardinality(W) # 0
    BY <2>1, <2>2, FS_EmptySet
  <2>4. Cardinality(C \ W) = Cardinality(C) - Cardinality(W)
    BY <2>1, FS_Difference
  <2> QED BY <2>2, <2>3, <2>4
<1>9. Cardinality(R) <= Cardinality(K) + Cardinality(W) /\ Cardinality(R) \in Nat /\ Cardinality(K) \in Nat
  <2>1. R \subseteq K \cup W
    OBVIOUS
  <2>2. K \subseteq C /\ R \subseteq C /\ IsFiniteSet(C) /\ IsFiniteSet(W)
    BY <1>5, <1>8 DEF C
  <2> HIDE DEF K, R, W
  <2>3. IsFiniteSet(K) /\ IsFiniteSet(R)
    BY <2>2, FS_Subset
  <2>4. /\ Cardinality(K) \in Nat /\ Cardinality(R) \in Nat /\ Cardinality(W) \in Nat
        /\ Cardinality(K \cap W) \in Nat
    BY <2>2, <2>3, FS_CardinalityType, FS_Intersection
  <2>5. /\ Cardinality(K \cup W) = Cardinality(K) + Cardinality(W) - Cardinality(K \cap W)
        /\ Cardinality(R) <= Cardinality(K \cup W)
    BY <2>1, <2>2, <2>3, FS_Union, FS_Subset
  <2> QED BY <2>4, <2>5
<1>10. /\ Cardinality(Covered') = Cardinality(C) - Cardinality(W)
       /\ Cardinality(retried \cap Covered) = Cardinality(R) /\ Cardinality(retried' \cap Covered') = Cardinality(K)
  BY <1>1, <1>8 DEF C
<1>11. 3 * Cardinality(Covered') + Cardinality(Outstanding) + Cardinality(retried \cap Covered) + 1
         <= 3 * Cardinality(Covered) + Cardinality(Outstanding') + Cardinality(retried' \cap Covered')
  <2>1. Cardinality(Covered) = Cardinality(C)
    BY DEF C
  <2> HIDE DEF K, R, W
  <2> QED BY <1>7, <1>8, <1>9, <1>10, <2>1
<1>12. Cardinality(Left') + Cardinality(Targets(h)) = Cardinality(Left)
  BY <1>1, <1>6
<1> QED BY <1>4, <1>6, <1>7, <1>11, <1>12 DEF h

LEMMA RequestEnds ==
  ASSUME PolishTyped, NEW c \in Polishers, polisher[c] = "asked", polisher' = [polisher EXCEPT ![c] = "next"]
  PROVE  Cardinality(AtRequest') = Cardinality(AtRequest) - 1
<1>1. AtRequest' = AtRequest \ {c} /\ c \in AtRequest
  BY DEF PolishTyped, AtRequest, Polishers
<1> QED BY <1>1, RequestsFinite, FS_RemoveElement

LEMMA RequestBegins ==
  ASSUME PolishTyped, NEW c \in Polishers, polisher[c] = "next", polisher' = [polisher EXCEPT ![c] = "asked"]
  PROVE  Cardinality(AtRequest') = Cardinality(AtRequest) + 1
<1>1. AtRequest' = AtRequest \cup {c} /\ c \notin AtRequest
  BY DEF PolishTyped, AtRequest, Polishers
<1> QED BY <1>1, RequestsFinite, FS_AddElement

LEMMA NotYetReviewed ==
  ASSUME ReviewsFit, NEW c \in Polishers, polisher[c] # "done", polishing' = polishing, decision' = decision
  PROVE  ReviewsFit'
<1>1. polishing \notin {"review", "published"}
  BY DEF ReviewsFit
<1> QED BY <1>1 DEF ReviewsFit, Segment

\* No other variable of the proposals is touched.
LEMMA SameRanges ==
  ASSUME PolishTyped, stack' = stack
  PROVE  /\ \A d \in Polishers : RangesOf(d)' = RangesOf(d)
         /\ Outstanding' = Outstanding /\ Covered' = Covered /\ Left' = Left
         /\ RangesApart' = RangesApart
<1>1. \A d \in Polishers : RangesOf(d)' = RangesOf(d)
  BY DEF RangesOf
<1>2. Outstanding' = Outstanding
  BY <1>1 DEF Outstanding, Polishers
<1>3. Covered' = Covered /\ Left' = Left
  BY <1>2 DEF Covered, Left, Within, Targets
<1>4. RangesApart' = RangesApart
  BY <1>2 DEF RangesApart, Within
<1> QED BY <1>1, <1>2, <1>3, <1>4

\* A worker of the proposals begins, or raises.
LEMMA WorkerMoves ==
  ASSUME PolishInv, NEW c \in Polishers, NEW w \in {"next", "raised"},
         \/ polisher[c] = "waiting" /\ w = "next"
         \/ polisher[c] = "asked" /\ w = "raised",
         polisher' = [polisher EXCEPT ![c] = w],
         UNCHANGED <<polishing, stack, retried, wording, completed, kept, unfinished, attempts, reviews>>
  PROVE  PolishInv'
<1>1. PolishTyped'
  BY DEF PolishInv, PolishTyped, reviews, Polishers, WorkerStates, Segment
<1>2. PolishTyped /\ RangesApart /\ polisher \in [Polishers -> WorkerStates]
  BY DEF PolishInv, PolishTyped
<1>3. /\ \A d \in Polishers : RangesOf(d)' = RangesOf(d)
      /\ Outstanding' = Outstanding /\ Covered' = Covered /\ Left' = Left
      /\ RangesApart' = RangesApart
  BY <1>2, SameRanges
<1>4. polisher'[c] = w /\ \A d \in Polishers : d # c => polisher'[d] = polisher[d]
  BY <1>2
<1>5. QueuesFit'
  <2>1. w = "raised" => stack[c] # << >>
    BY DEF PolishInv, QueuesFit
  <2>2. \A d \in Polishers : (polisher'[d] \in {"asked", "raised"} => stack[d] # << >>)
                             /\ (polisher'[d] = "done" => stack[d] = << >>)
    BY <1>4, <2>1 DEF PolishInv, QueuesFit
  <2> QED BY <1>3, <2>2 DEF PolishInv, QueuesFit, Polishers, OneEach
<1>6. CountsFit'
  <2>1. Edits' = Edits
    BY DEF Edits, Segment
  <2> QED BY <1>3, <2>1 DEF PolishInv, CountsFit, Segment
<1>7. Spent'
  <2>1. AtRequest' = AtRequest
    BY <1>4 DEF AtRequest, Polishers
  <2> QED BY <1>3, <2>1 DEF PolishInv, Spent
<1>8. ReviewsFit'
  BY NotYetReviewed DEF PolishInv, reviews
<1> QED BY <1>1, <1>2, <1>3, <1>5, <1>6, <1>7, <1>8 DEF PolishInv

NumbersNat ==
    /\ Cardinality(AtRequest) \in Nat /\ Cardinality(Covered) \in Nat /\ Cardinality(Outstanding) \in Nat
    /\ Cardinality(retried \cap Covered) \in Nat /\ attempts \in Nat

LEMMA NumbersAreNat == PolishTyped => NumbersNat
<1> SUFFICES ASSUME PolishTyped PROVE NumbersNat
  OBVIOUS
<1>1. Cardinality(AtRequest) \in Nat
  BY RequestsFinite
<1>2. Cardinality(Covered) \in Nat /\ Cardinality(Outstanding) \in Nat /\ Cardinality(retried \cap Covered) \in Nat
  BY OutstandingFinite, RetriedFinite
<1> QED BY <1>1, <1>2 DEF NumbersNat, PolishTyped

LEMMA NumbersAreNatNext == PolishTyped' => NumbersNat'
BY NumbersAreNat, PTL

LEMMA LengthsAreNat == Len(PolishRange) \in Nat /\ Segments \in Nat
BY PolishConstants

\* What a range that is done leaves to spend.
LEMMA DropSpends ==
  ASSUME PolishTyped, PolishTyped', Spent, attempts' = attempts,
         Cardinality(AtRequest') >= Cardinality(AtRequest) - 1,
         3 * Cardinality(Covered') + Cardinality(Outstanding) + Cardinality(retried \cap Covered) + 1
           <= 3 * Cardinality(Covered) + Cardinality(Outstanding') + Cardinality(retried' \cap Covered')
  PROVE  Spent'
<1> DEFINE a == Cardinality(AtRequest)
           b == Cardinality(Outstanding)
           d == Cardinality(retried \cap Covered)
           e == Cardinality(Covered)
           x == Cardinality(AtRequest')
           y == Cardinality(Outstanding')
           z == Cardinality(retried' \cap Covered')
           u == Cardinality(Covered')
<1>1. /\ a \in Nat /\ b \in Nat /\ d \in Nat /\ e \in Nat /\ x \in Nat /\ y \in Nat /\ z \in Nat /\ u \in Nat
      /\ attempts \in Nat /\ Len(PolishRange) \in Nat /\ Segments \in Nat
  BY NumbersAreNat, NumbersAreNatNext, LengthsAreNat DEF NumbersNat
<1>2. /\ attempts + 3 * e + Len(PolishRange) <= 3 * Segments + a + b + d
      /\ x >= a - 1 /\ 3 * u + b + d + 1 <= 3 * e + y + z
  BY DEF Spent
<1> HIDE DEF a, b, d, e, x, y, z, u
<1>3. attempts + 3 * u + Len(PolishRange) <= 3 * Segments + x + y + z
  BY <1>1, <1>2
<1> QED BY <1>3 DEF Spent, x, y, z, u

LEMMA TakesKeeps == ASSUME PolishInv, NEW c \in Polishers, TakesRange(c) PROVE PolishInv'
<1> USE DEF PolishInv
<1>1. /\ polisher[c] = "next" /\ polisher \in [Polishers -> WorkerStates]
      /\ UNCHANGED <<polishing, retried, wording, completed, kept, reviews>>
  BY DEF TakesRange, PolishTyped
<1>2. ReviewsFit' /\ Edits' = Edits
  <2>1. Edits' = Edits
    BY <1>1 DEF Edits, Segment
  <2> QED BY <1>1, <2>1, NotYetReviewed DEF reviews
<1>3. ASSUME polisher' = [polisher EXCEPT ![c] = "done"], stack[c] = << >>,
             UNCHANGED <<stack, unfinished, attempts>>
      PROVE  PolishInv'
  <2>1. /\ \A d \in Polishers : RangesOf(d)' = RangesOf(d)
        /\ Outstanding' = Outstanding /\ Covered' = Covered /\ Left' = Left
        /\ RangesApart' = RangesApart
    BY <1>3, SameRanges
  <2>2. polisher'[c] = "done" /\ \A d \in Polishers : d # c => polisher'[d] = polisher[d]
    BY <1>1, <1>3
  <2>3. PolishTyped'
    BY <1>1, <1>3 DEF PolishTyped, reviews, Polishers, WorkerStates, Segment
  <2>4. QueuesFit'
    <3>1. \A d \in Polishers : (polisher'[d] \in {"asked", "raised"} => stack[d] # << >>)
                               /\ (polisher'[d] = "done" => stack[d] = << >>)
      BY <1>3, <2>2 DEF QueuesFit
    <3> QED BY <1>3, <2>1, <3>1 DEF QueuesFit, Polishers, OneEach
  <2>5. CountsFit'
    BY <1>1, <1>2, <1>3, <2>1 DEF CountsFit, Segment
  <2>6. Spent'
    <3>1. AtRequest' = AtRequest
      BY <1>1, <2>2 DEF AtRequest, Polishers
    <3> QED BY <1>1, <1>3, <2>1, <3>1 DEF Spent
  <2> QED BY <1>2, <2>1, <2>3, <2>4, <2>5, <2>6
<1>4. ASSUME polisher' = [polisher EXCEPT ![c] = "asked"], stack[c] # << >>,
             attempts' = attempts + 1, UNCHANGED <<stack, unfinished>>
      PROVE  PolishInv'
  <2>1. /\ \A d \in Polishers : RangesOf(d)' = RangesOf(d)
        /\ Outstanding' = Outstanding /\ Covered' = Covered /\ Left' = Left
        /\ RangesApart' = RangesApart
    BY <1>4, SameRanges
  <2>2. polisher'[c] = "asked" /\ \A d \in Polishers : d # c => polisher'[d] = polisher[d]
    BY <1>1, <1>4
  <2>3. PolishTyped'
    BY <1>1, <1>4 DEF PolishTyped, reviews, Polishers, WorkerStates, Segment
  <2>4. QueuesFit'
    <3>1. \A d \in Polishers : (polisher'[d] \in {"asked", "raised"} => stack[d] # << >>)
                               /\ (polisher'[d] = "done" => stack[d] = << >>)
      BY <1>4, <2>2 DEF QueuesFit
    <3> QED BY <1>4, <2>1, <3>1 DEF QueuesFit, Polishers, OneEach
  <2>5. CountsFit'
    BY <1>1, <1>2, <1>4, <2>1 DEF CountsFit, Segment
  <2>6. Spent'
    <3>1. Cardinality(AtRequest') = Cardinality(AtRequest) + 1
      BY <1>1, <1>4, RequestBegins
    <3>2. Cardinality(AtRequest) \in Nat /\ Cardinality(Covered) \in Nat /\ Cardinality(Outstanding) \in Nat
          /\ Cardinality(retried \cap Covered) \in Nat /\ Len(PolishRange) \in Nat /\ Segments \in Nat /\ attempts \in Nat
      BY NumbersAreNat, LengthsAreNat DEF NumbersNat
    <3>3. Cardinality(AtRequest)' = Cardinality(AtRequest) + 1
      BY <3>1
    <3> QED BY <1>1, <1>4, <2>1, <3>2, <3>3 DEF Spent
  <2> QED BY <1>2, <2>1, <2>3, <2>4, <2>5, <2>6
<1>5. ASSUME stack[c] # << >>, Targets(Head(stack[c])) = {}, stack' = [stack EXCEPT ![c] = Tail(@)],
             unfinished' = unfinished - 1, UNCHANGED <<polisher, attempts>>
      PROVE  PolishInv'
  <2>1. /\ stack' \in [Polishers -> Seq(Segment \X Segment)]
        /\ \A d \in Polishers : OneEach(stack'[d])
        /\ \A d, e \in Polishers : d # e => RangesOf(d)' \cap RangesOf(e)' = {}
        /\ RangesApart'
        /\ Outstanding' = Outstanding \ {RangeAt(c)}
        /\ Left' = Left \ Targets(RangeAt(c))
    BY <1>5, DropsRange
  <2>2. Left' = Left
    BY <1>5, <2>1 DEF RangeAt
  <2>3. /\ Cardinality(Outstanding') = Cardinality(Outstanding) - 1
        /\ 3 * Cardinality(Covered') + Cardinality(Outstanding) + Cardinality(retried \cap Covered) + 1
             <= 3 * Cardinality(Covered) + Cardinality(Outstanding') + Cardinality(retried' \cap Covered')
    BY <1>1, <1>5, DropCounts
  <2>4. unfinished' \in Nat
    <3>1. RangeAt(c) \in Outstanding /\ IsFiniteSet(Outstanding)
      BY <1>5, Heads, OutstandingFinite
    <3>2. Cardinality(Outstanding) \in Nat /\ Cardinality(Outstanding) # 0
      BY <3>1, FS_CardinalityType, FS_EmptySet
    <3> QED BY <1>5, <3>2 DEF CountsFit
  <2>5. PolishTyped'
    BY <1>1, <1>5, <2>1, <2>4 DEF PolishTyped, reviews, Polishers, WorkerStates, Segment
  <2>6. QueuesFit'
    <3>1. \A d \in Polishers : d # c => stack'[d] = stack[d]
      BY <1>5, <2>1 DEF PolishTyped
    <3>2. \A d \in Polishers : (polisher[d] \in {"asked", "raised"} => stack'[d] # << >>)
                               /\ (polisher[d] = "done" => stack'[d] = << >>)
      BY <1>1, <3>1 DEF QueuesFit
    <3> QED BY <1>5, <2>1, <3>2 DEF QueuesFit, Polishers, OneEach
  <2>7. CountsFit'
    BY <1>1, <1>2, <1>5, <2>2, <2>3 DEF CountsFit, Segment
  <2>8. Spent'
    <3>1. AtRequest' = AtRequest
      BY <1>5 DEF AtRequest, Polishers
    <3>2. Cardinality(AtRequest') >= Cardinality(AtRequest) - 1
      BY <3>1, NumbersAreNat DEF NumbersNat
    <3> QED BY <1>5, <2>3, <2>5, <3>2, DropSpends
  <2> QED BY <1>2, <2>1, <2>5, <2>6, <2>7, <2>8
<1> QED BY <1>3, <1>4, <1>5 DEF TakesRange

\* A range is done: with corrections, or with the source kept.
LEMMA RangeDone ==
  ASSUME PolishInv, NEW c \in Polishers, Asked(c), Completes(c), polisher' = [polisher EXCEPT ![c] = "next"],
         kept' \in Nat, wording' \in [Segment -> {"source", "fixed"}],
         \A s \in Segment : wording'[s] # wording[s] => s \in Targets(RangeAt(c)),
         kept' + Cardinality(Edits') <= completed',
         UNCHANGED <<polishing, retried, attempts, reviews>>
  PROVE  PolishInv'
<1> USE DEF PolishInv
<1>1. /\ stack[c] # << >> /\ polisher[c] = "asked" /\ polisher \in [Polishers -> WorkerStates]
      /\ stack' = [stack EXCEPT ![c] = Tail(@)]
  BY DEF Asked, QueuesFit, PolishTyped, Completes
<1>2. /\ stack' \in [Polishers -> Seq(Segment \X Segment)]
      /\ \A d \in Polishers : OneEach(stack'[d])
      /\ \A d, e \in Polishers : d # e => RangesOf(d)' \cap RangesOf(e)' = {}
      /\ RangesApart'
      /\ Left' = Left \ Targets(RangeAt(c))
  BY <1>1, DropsRange
<1>3. /\ Cardinality(Targets(RangeAt(c))) \in Nat
      /\ Cardinality(Left') + Cardinality(Targets(RangeAt(c))) = Cardinality(Left)
      /\ Cardinality(Outstanding') = Cardinality(Outstanding) - 1
      /\ 3 * Cardinality(Covered') + Cardinality(Outstanding) + Cardinality(retried \cap Covered) + 1
           <= 3 * Cardinality(Covered) + Cardinality(Outstanding') + Cardinality(retried' \cap Covered')
  BY <1>1, DropCounts
<1>4. unfinished' \in Nat /\ unfinished' = Cardinality(Outstanding')
  <2>1. RangeAt(c) \in Outstanding /\ IsFiniteSet(Outstanding)
    BY <1>1, Heads, OutstandingFinite
  <2>2. Cardinality(Outstanding) \in Nat /\ Cardinality(Outstanding) # 0
    BY <2>1, FS_CardinalityType, FS_EmptySet
  <2> QED BY <1>3, <2>2 DEF CountsFit, Completes
<1>5. completed' \in Nat /\ completed' + Cardinality(Left') = Cardinality(Segment \ Blank)
  <2>1. completed' = completed + Cardinality(Targets(RangeAt(c))) /\ completed \in Nat
    BY DEF Completes, PolishTyped
  <2>2. Cardinality(Left') \in Nat
    <3>1. Left' \subseteq Left /\ IsFiniteSet(Left)
      BY <1>2, OutstandingFinite
    <3> QED BY <3>1, FS_Subset, FS_CardinalityType
  <2> QED BY <1>3, <2>1, <2>2 DEF CountsFit
<1>6. PolishTyped'
  <2>1. polisher' \in [Polishers -> WorkerStates]
    BY <1>1 DEF WorkerStates
  <2> QED BY <1>2, <1>4, <1>5, <2>1 DEF PolishTyped, reviews, Polishers, WorkerStates, Segment
<1>7. QueuesFit'
  <2>1. \A d \in Polishers : d # c => stack'[d] = stack[d] /\ polisher'[d] = polisher[d]
    BY <1>1, <1>2 DEF PolishTyped
  <2>2. polisher'[c] = "next"
    BY <1>1
  <2>3. \A d \in Polishers : (polisher'[d] \in {"asked", "raised"} => stack'[d] # << >>)
                             /\ (polisher'[d] = "done" => stack'[d] = << >>)
    BY <2>1, <2>2 DEF QueuesFit
  <2> QED BY <1>2, <2>3 DEF QueuesFit, Polishers, OneEach
<1>8. CountsFit'
  <2>1. ASSUME NEW s \in Left' PROVE wording'[s] = "source"
    <3>1. s \in Left /\ s \notin Targets(RangeAt(c)) /\ s \in Segment
      BY <1>2, LeftIsCovered, OutstandingTyped
    <3>2. wording'[s] = wording[s]
      BY <3>1
    <3> QED BY <3>1, <3>2 DEF CountsFit
  <2> QED BY <1>4, <1>5, <2>1 DEF CountsFit, Segment
<1>9. Spent'
  <2>1. Cardinality(AtRequest') = Cardinality(AtRequest) - 1
    BY <1>1, RequestEnds
  <2>2. Cardinality(AtRequest') >= Cardinality(AtRequest) - 1
    BY <2>1, NumbersAreNat DEF NumbersNat
  <2> QED BY <1>3, <1>6, <2>2, DropSpends
<1>10. ReviewsFit'
  BY <1>1, NotYetReviewed DEF reviews
<1> QED BY <1>2, <1>6, <1>7, <1>8, <1>9, <1>10

LEMMA EditsFinite == IsFiniteSet(Edits) /\ Cardinality(Edits) \in Nat
<1>1. Edits \subseteq Segment
  BY DEF Edits
<1> QED BY <1>1, SegmentsCount, FS_Subset, FS_CardinalityType

LEMMA CorrectsKeeps == ASSUME PolishInv, NEW c \in Polishers, Corrects(c) PROVE PolishInv'
<1> USE DEF PolishInv
<1>1. /\ Asked(c) /\ Completes(c) /\ polisher' = [polisher EXCEPT ![c] = "next"]
      /\ UNCHANGED <<polishing, retried, attempts, reviews>>
  BY DEF Corrects
<1>2. PICK fixed \in SUBSET Targets(RangeAt(c)), left \in SUBSET Targets(RangeAt(c)) :
         /\ fixed \cap left = {}
         /\ wording' = [s \in Segment |-> IF s \in fixed THEN "fixed" ELSE wording[s]]
         /\ kept' = kept + Cardinality(left)
  BY DEF Corrects
<1>3. stack[c] # << >> /\ stack' = [stack EXCEPT ![c] = Tail(@)] /\ wording \in [Segment -> {"source", "fixed"}]
  BY <1>1 DEF Asked, QueuesFit, Completes, PolishTyped
<1>4. /\ Targets(RangeAt(c)) \subseteq Left /\ IsFiniteSet(Targets(RangeAt(c)))
      /\ Cardinality(Targets(RangeAt(c))) \in Nat
  BY <1>1, <1>3, DropCounts
<1>5. wording' \in [Segment -> {"source", "fixed"}]
  BY <1>2, <1>3
<1>6. \A s \in Segment : wording'[s] # wording[s] => s \in Targets(RangeAt(c))
  BY <1>2, <1>3
<1>7. /\ IsFiniteSet(fixed) /\ IsFiniteSet(left) /\ Cardinality(fixed) \in Nat /\ Cardinality(left) \in Nat
      /\ Cardinality(fixed) + Cardinality(left) <= Cardinality(Targets(RangeAt(c)))
  <2>1. IsFiniteSet(fixed) /\ IsFiniteSet(left)
    BY <1>2, <1>4, FS_Subset
  <2>2. Cardinality(fixed \cup left) = Cardinality(fixed) + Cardinality(left) - Cardinality(fixed \cap left)
    BY <2>1, FS_Union
  <2>3. Cardinality(fixed \cap left) = 0
    BY <1>2, FS_EmptySet
  <2>4. Cardinality(fixed) \in Nat /\ Cardinality(left) \in Nat
    BY <2>1, FS_CardinalityType
  <2>5. Cardinality(fixed \cup left) <= Cardinality(Targets(RangeAt(c)))
    <3>1. fixed \cup left \subseteq Targets(RangeAt(c))
      BY <1>2
    <3> QED BY <1>4, <3>1, FS_Subset
  <2> QED BY <2>1, <2>2, <2>3, <2>4, <2>5
<1>8. Cardinality(Edits') = Cardinality(Edits) + Cardinality(fixed)
  <2>1. Left \subseteq Segment /\ \A s \in Left : wording[s] = "source"
    BY LeftIsCovered, OutstandingTyped DEF CountsFit
  <2>2. fixed \subseteq Segment /\ Edits \cap fixed = {}
    BY <1>2, <1>4, <2>1 DEF Edits
  <2>3. \A s \in Segment : wording'[s] = IF s \in fixed THEN "fixed" ELSE wording[s]
    BY <1>2
  <2>4. Edits' = Edits \cup fixed
    BY <2>2, <2>3 DEF Edits, Segment
  <2>5. Cardinality(Edits \cup fixed) = Cardinality(Edits) + Cardinality(fixed) - Cardinality(Edits \cap fixed)
    BY <1>7, EditsFinite, FS_Union
  <2>6. Cardinality(Edits \cap fixed) = 0
    BY <2>2, FS_EmptySet
  <2> QED BY <1>7, <2>4, <2>5, <2>6, EditsFinite
<1>9. kept \in Nat /\ completed \in Nat /\ completed' = completed + Cardinality(Targets(RangeAt(c)))
      /\ kept + Cardinality(Edits) <= completed
  BY <1>1 DEF PolishTyped, Completes, CountsFit
<1>10. kept' \in Nat
  BY <1>2, <1>7, <1>9
<1>11. kept' + Cardinality(Edits') <= completed'
  BY <1>2, <1>4, <1>7, <1>8, <1>9, EditsFinite
<1> QED BY <1>1, <1>5, <1>6, <1>10, <1>11, RangeDone

LEMMA SourceKeeps == ASSUME PolishInv, NEW c \in Polishers, KeepsSource(c) PROVE PolishInv'
<1> USE DEF PolishInv
<1>1. /\ Asked(c) /\ Completes(c) /\ polisher' = [polisher EXCEPT ![c] = "next"]
      /\ wording' = wording /\ UNCHANGED <<polishing, retried, attempts, reviews>>
      /\ kept' = kept + Cardinality(Targets(RangeAt(c)))
  BY DEF KeepsSource
<1>2. stack[c] # << >> /\ stack' = [stack EXCEPT ![c] = Tail(@)] /\ wording \in [Segment -> {"source", "fixed"}]
  BY <1>1 DEF Asked, QueuesFit, Completes, PolishTyped
<1>3. Cardinality(Targets(RangeAt(c))) \in Nat
  BY <1>1, <1>2, DropCounts
<1>4. Edits' = Edits
  BY <1>1 DEF Edits, Segment
<1>5. kept \in Nat /\ completed \in Nat /\ completed' = completed + Cardinality(Targets(RangeAt(c)))
      /\ kept + Cardinality(Edits) <= completed
  BY <1>1 DEF PolishTyped, Completes, CountsFit
<1>6. kept' \in Nat
  BY <1>1, <1>3, <1>5
<1>7. kept' + Cardinality(Edits') <= completed'
  BY <1>1, <1>3, <1>4, <1>5, EditsFinite
<1>8. wording' \in [Segment -> {"source", "fixed"}] /\ \A s \in Segment : wording'[s] = wording[s]
  BY <1>1, <1>2
<1> QED BY <1>1, <1>6, <1>7, <1>8, RangeDone

\* A range that is split is one more range, and one request less.
LEMMA SplitsKeeps == ASSUME PolishInv, NEW c \in Polishers, Splits(c) PROVE PolishInv'
<1> USE DEF PolishInv
<1>1. /\ stack[c] # << >> /\ polisher[c] = "asked" /\ polisher \in [Polishers -> WorkerStates]
      /\ ~Single(RangeAt(c)) /\ polishing' = polishing
      /\ stack' = [stack EXCEPT ![c] = Halves(Head(@)) \o Tail(@)]
      /\ unfinished' = unfinished + 1 /\ polisher' = [polisher EXCEPT ![c] = "next"]
      /\ UNCHANGED <<polishing, retried, wording, completed, kept, attempts, reviews>>
  BY DEF Splits, Asked, QueuesFit, PolishTyped
<1>2. /\ stack' \in [Polishers -> Seq(Segment \X Segment)]
      /\ \A d \in Polishers : OneEach(stack'[d])
      /\ \A d, e \in Polishers : d # e => RangesOf(d)' \cap RangesOf(e)' = {}
      /\ RangesApart'
      /\ Cardinality(Outstanding') = Cardinality(Outstanding) + 1
      /\ Covered' = Covered /\ Left' = Left
  BY <1>1, SplitsRange
<1>3. PolishTyped'
  BY <1>1, <1>2 DEF PolishTyped, reviews, Polishers, WorkerStates, Segment
<1>4. QueuesFit'
  <2>1. \A d \in Polishers : d # c => stack'[d] = stack[d] /\ polisher'[d] = polisher[d]
    BY <1>1, <1>2 DEF PolishTyped
  <2>2. polisher'[c] = "next"
    BY <1>1
  <2>3. \A d \in Polishers : (polisher'[d] \in {"asked", "raised"} => stack'[d] # << >>)
                             /\ (polisher'[d] = "done" => stack'[d] = << >>)
    BY <2>1, <2>2 DEF QueuesFit
  <2> QED BY <1>2, <2>3 DEF QueuesFit, Polishers, OneEach
<1>5. CountsFit'
  <2>1. Edits' = Edits
    BY <1>1 DEF Edits, Segment
  <2> QED BY <1>1, <1>2, <2>1 DEF CountsFit, Segment
<1>6. Spent'
  <2>1. Cardinality(AtRequest') = Cardinality(AtRequest) - 1
    BY <1>1, RequestEnds
  <2>2. NumbersNat
    BY NumbersAreNat
  <2>3. retried' \cap Covered' = retried \cap Covered
    BY <1>1, <1>2
  <2>4. attempts' = attempts
    BY <1>1
  <2>5. attempts + 3 * Cardinality(Covered) + Len(PolishRange)
          <= 3 * Segments + Cardinality(AtRequest') + Cardinality(Outstanding') + Cardinality(retried \cap Covered)
    BY <1>2, <2>1, <2>2, LengthsAreNat DEF Spent, NumbersNat
  <2> QED BY <1>2, <2>3, <2>4, <2>5 DEF Spent
<1>7. ReviewsFit'
  BY <1>1, NotYetReviewed DEF reviews
<1> QED BY <1>2, <1>3, <1>4, <1>5, <1>6, <1>7

LEMMA OnceMoreKeeps == ASSUME PolishInv, NEW c \in Polishers, AsksOnceMore(c) PROVE PolishInv'
<1> USE DEF PolishInv
<1> DEFINE s == RangeAt(c)[1]
<1>1. /\ stack[c] # << >> /\ polisher[c] = "asked" /\ polisher \in [Polishers -> WorkerStates]
      /\ s \notin retried /\ retried' = retried \cup {s} /\ polisher' = [polisher EXCEPT ![c] = "next"]
      /\ UNCHANGED <<polishing, stack, wording, completed, kept, unfinished, attempts, reviews>>
  BY DEF AsksOnceMore, Asked, QueuesFit, PolishTyped
<1>2. s \in Covered /\ s \in Segment
  BY <1>1, Heads
<1> HIDE DEF s
<1>3. PolishTyped'
  BY <1>1, <1>2 DEF PolishTyped, reviews, Polishers, WorkerStates, Segment
<1>4. /\ \A d \in Polishers : RangesOf(d)' = RangesOf(d)
      /\ Outstanding' = Outstanding /\ Covered' = Covered /\ Left' = Left
      /\ RangesApart' = RangesApart
  BY <1>1, SameRanges
<1>5. QueuesFit'
  <2>1. polisher'[c] = "next" /\ \A d \in Polishers : d # c => polisher'[d] = polisher[d]
    BY <1>1
  <2>2. \A d \in Polishers : (polisher'[d] \in {"asked", "raised"} => stack[d] # << >>)
                             /\ (polisher'[d] = "done" => stack[d] = << >>)
    BY <2>1 DEF QueuesFit
  <2> QED BY <1>1, <1>4, <2>2 DEF QueuesFit, Polishers, OneEach
<1>6. CountsFit'
  <2>1. Edits' = Edits
    BY <1>1 DEF Edits, Segment
  <2> QED BY <1>1, <1>4, <2>1 DEF CountsFit, Segment
<1>7. Spent'
  <2>1. Cardinality(AtRequest') = Cardinality(AtRequest) - 1
    BY <1>1, RequestEnds
  <2>2. Cardinality(retried' \cap Covered') = Cardinality(retried \cap Covered) + 1
    <3>1. retried' \cap Covered' = (retried \cap Covered) \cup {s} /\ s \notin retried \cap Covered
      BY <1>1, <1>2, <1>4
    <3> QED BY <3>1, RetriedFinite, FS_AddElement
  <2>3. attempts' = attempts /\ NumbersNat
    BY <1>1, NumbersAreNat
  <2>4. attempts + 3 * Cardinality(Covered) + Len(PolishRange)
          <= 3 * Segments + Cardinality(AtRequest') + Cardinality(Outstanding) + Cardinality(retried' \cap Covered')
    BY <2>1, <2>2, <2>3, LengthsAreNat DEF Spent, NumbersNat
  <2> QED BY <1>4, <2>3, <2>4 DEF Spent
<1>8. ReviewsFit'
  BY <1>1, NotYetReviewed DEF reviews
<1> QED BY <1>3, <1>4, <1>5, <1>6, <1>7, <1>8

\* The review leaves the proposals as they are.
LEMMA ProposalsStay ==
  ASSUME PolishInv, UNCHANGED <<stack, polisher, retried, wording, completed, kept, unfinished, attempts>>
  PROVE  QueuesFit' /\ RangesApart' /\ CountsFit' /\ Spent' /\ Edits' = Edits
<1> USE DEF PolishInv
<1>1. /\ \A d \in Polishers : RangesOf(d)' = RangesOf(d)
      /\ Outstanding' = Outstanding /\ Covered' = Covered /\ Left' = Left
      /\ RangesApart' = RangesApart
  BY SameRanges
<1>2. QueuesFit'
  BY <1>1 DEF QueuesFit, Polishers, OneEach
<1>3. Edits' = Edits
  BY DEF Edits, Segment
<1>4. CountsFit'
  BY <1>1, <1>3 DEF CountsFit, Segment
<1>5. Spent'
  <2>1. AtRequest' = AtRequest
    BY DEF AtRequest, Polishers
  <2> QED BY <1>1, <2>1 DEF Spent
<1> QED BY <1>1, <1>2, <1>3, <1>4, <1>5

LEMMA ReviewBeginsKeeps == ASSUME PolishInv, ReviewBegins PROVE PolishInv'
<1> USE DEF PolishInv
<1>1. /\ polishing = "propose" /\ polishing' = "review" /\ \A c \in Polishers : polisher[c] = "done"
      /\ reviewStack' = [n \in 1 .. BatchCount |-> <<BatchOf(n)>>]
      /\ reviewer' = [n \in 1 .. BatchCount |-> "waiting"]
      /\ UNCHANGED <<stack, polisher, retried, wording, completed, kept, unfinished, attempts, decision>>
  BY DEF ReviewBegins, proposal
<1>2. QueuesFit' /\ RangesApart' /\ CountsFit' /\ Spent' /\ Edits' = Edits
  BY <1>1, ProposalsStay
<1>3. PolishTyped'
  BY <1>1 DEF PolishTyped, Polishers, WorkerStates, Segment
<1>4. DOMAIN reviewer' = 1 .. BatchCount /\ DOMAIN reviewStack' = 1 .. BatchCount
  BY <1>1
<1>5. ASSUME NEW n \in 1 .. BatchCount PROVE reviewStack'[n] \in Seq(SUBSET Edits) /\ reviewStack'[n] # << >>
  <2>1. BatchOf(n) \in SUBSET Edits /\ reviewStack'[n] = <<BatchOf(n)>>
    BY <1>1 DEF BatchOf
  <2> QED BY <2>1
<1>6. \A s \in Segment : decision'[s] # "approved"
  BY <1>1 DEF ReviewsFit
<1>7. ReviewsFit'
  BY <1>1, <1>2, <1>4, <1>5, <1>6 DEF ReviewsFit, Segment, Polishers
<1> QED BY <1>2, <1>3, <1>7

LEMMA ReviewMoves ==
  ASSUME PolishInv, NEW n \in DOMAIN reviewer, polishing = "review", reviewer[n] # "done",
         NEW w \in WorkerStates, NEW q \in Seq(SUBSET Edits), w # "done" => q # << >>,
         DOMAIN reviewer' = DOMAIN reviewer, reviewer'[n] = w,
         \A m \in DOMAIN reviewer : m # n => reviewer'[m] = reviewer[m],
         DOMAIN reviewStack' = DOMAIN reviewStack, reviewStack'[n] = q,
         \A m \in DOMAIN reviewer : m # n => reviewStack'[m] = reviewStack[m],
         decision' \in [Segment -> {"none", "approved", "rejected"}],
         \A s \in Segment : decision'[s] = "approved" => s \in Edits,
         UNCHANGED <<polishing, proposal>>
  PROVE  PolishInv'
<1> USE DEF PolishInv
<1>1. QueuesFit' /\ RangesApart' /\ CountsFit' /\ Spent' /\ Edits' = Edits
  BY ProposalsStay DEF proposal
<1>2. DOMAIN reviewStack = DOMAIN reviewer
  BY DEF ReviewsFit
<1>3. PolishTyped'
  BY DEF PolishTyped, proposal, Polishers, Segment
<1>4. \A m \in DOMAIN reviewer : /\ reviewStack'[m] \in Seq(SUBSET Edits)
                                 /\ reviewer'[m] # "done" => reviewStack'[m] # << >>
  BY DEF ReviewsFit
<1>5. ReviewsFit'
  BY <1>1, <1>2, <1>4 DEF ReviewsFit, Segment, Polishers, proposal
<1> QED BY <1>1, <1>3, <1>5

LEMMA ReviewerKeeps == ASSUME PolishInv, NEW n \in DOMAIN reviewer, ReviewerStep(n) PROVE PolishInv'
<1> USE DEF PolishInv
<1>1. polishing = "review" /\ reviewer[n] \in {"waiting", "asked"} /\ UNCHANGED <<polishing, proposal>>
  BY DEF ReviewerStep, ReviewerStarts, Decides, Declines, ReviewSplits, ReviewerRaises, AtReview, MayStart
<1>2. /\ reviewStack[n] \in Seq(SUBSET Edits) /\ reviewStack[n] # << >>
      /\ decision \in [Segment -> {"none", "approved", "rejected"}]
      /\ \A s \in Segment : decision[s] = "approved" => s \in Edits
  BY <1>1 DEF ReviewsFit, PolishTyped
<1>3. DOMAIN reviewStack = DOMAIN reviewer
  BY <1>1 DEF ReviewsFit
<1>4. ASSUME NEW w \in {"asked", "raised"}, reviewer' = [reviewer EXCEPT ![n] = w], UNCHANGED <<reviewStack, decision>>
      PROVE  PolishInv'
  <2>1. PICK q : q = reviewStack[n]
    OBVIOUS
  <2>2. w \in WorkerStates /\ q \in Seq(SUBSET Edits) /\ w # "done" /\ q # << >>
    BY <1>2, <2>1 DEF WorkerStates
  <2>3. DOMAIN reviewer' = DOMAIN reviewer /\ reviewer'[n] = w /\ \A m \in DOMAIN reviewer : m # n => reviewer'[m] = reviewer[m]
    BY <1>4
  <2> QED BY <1>1, <1>2, <1>4, <2>1, <2>2, <2>3, ReviewMoves
<1>5. ASSUME NEW approved \in SUBSET Batch(n), Decided(n, approved)
      PROVE  PolishInv'
  <2>1. PICK q : q = Tail(reviewStack[n])
    OBVIOUS
  <2>2. PICK w : w = IF Len(reviewStack[n]) = 1 THEN "done" ELSE "asked"
    OBVIOUS
  <2>3. q \in Seq(SUBSET Edits) /\ w \in WorkerStates
    BY <1>2, <2>1, <2>2 DEF WorkerStates
  <2>4. w # "done" => q # << >>
    <3>1. PICK all : all = reviewStack[n]
      OBVIOUS
    <3>2. all \in Seq(SUBSET Edits) /\ all # << >> /\ q = Tail(all)
      BY <1>2, <2>1, <3>1
    <3>3. Len(all) # 1 => q # << >>
      <4>1. Len(all) \in Nat /\ Len(all) # 0
        BY <3>2
      <4>2. Len(q) = Len(all) - 1
        BY <3>2, <4>1
      <4>3. Len(all) # 1 => Len(q) # 0
        BY <4>1, <4>2
      <4> QED BY <4>3
    <3> QED BY <2>2, <3>1, <3>3
  <2>5. /\ DOMAIN reviewer' = DOMAIN reviewer /\ reviewer'[n] = w
        /\ \A m \in DOMAIN reviewer : m # n => reviewer'[m] = reviewer[m]
        /\ DOMAIN reviewStack' = DOMAIN reviewStack /\ reviewStack'[n] = q
        /\ \A m \in DOMAIN reviewer : m # n => reviewStack'[m] = reviewStack[m]
    BY <1>3, <1>5, <2>1, <2>2 DEF Decided
  <2>6. Batch(n) \subseteq Edits
    BY <1>2 DEF Batch
  <2>7. \A s \in Segment : decision'[s] = IF s \notin Batch(n) THEN decision[s]
                                          ELSE IF s \in approved THEN "approved" ELSE "rejected"
    BY <1>5 DEF Decided
  <2>8. decision' \in [Segment -> {"none", "approved", "rejected"}]
    BY <1>2, <1>5 DEF Decided
  <2>9. \A s \in Segment : decision'[s] = "approved" => s \in Edits
    BY <1>2, <2>6, <2>7
  <2> QED BY <1>1, <2>3, <2>4, <2>5, <2>8, <2>9, ReviewMoves
<1>6. ASSUME ReviewSplits(n) PROVE PolishInv'
  <2>1. PICK q : q = <<Lower(Head(reviewStack[n])), Head(reviewStack[n]) \ Lower(Head(reviewStack[n]))>> \o Tail(reviewStack[n])
    OBVIOUS
  <2>2. q \in Seq(SUBSET Edits) /\ q # << >>
    <3>1. PICK a, b : a = Lower(Head(reviewStack[n])) /\ b = Head(reviewStack[n]) \ a
      OBVIOUS
    <3>2. a \in SUBSET Edits /\ b \in SUBSET Edits /\ Tail(reviewStack[n]) \in Seq(SUBSET Edits)
      BY <1>2, <3>1 DEF Lower
    <3>3. q = <<a, b>> \o Tail(reviewStack[n])
      BY <2>1, <3>1
    <3> QED BY <3>2, <3>3
  <2>3. /\ DOMAIN reviewStack' = DOMAIN reviewStack /\ reviewStack'[n] = q
        /\ \A m \in DOMAIN reviewer : m # n => reviewStack'[m] = reviewStack[m]
        /\ UNCHANGED <<reviewer, decision>>
    BY <1>3, <1>6, <2>1 DEF ReviewSplits
  <2>4. PICK w : w = reviewer[n]
    OBVIOUS
  <2>5. w \in WorkerStates
    BY <1>1, <2>4 DEF WorkerStates
  <2> QED BY <1>1, <1>2, <2>2, <2>3, <2>4, <2>5, ReviewMoves
<1> QED BY <1>4, <1>5, <1>6
        DEF ReviewerStep, ReviewerStarts, Decides, Declines, ReviewerRaises, AtReview

LEMMA ComposesKeeps == ASSUME PolishInv, Composes PROVE PolishInv'
<1> USE DEF PolishInv
<1>1. /\ polishing = "review" /\ polishing' = "published"
      /\ wording' = [s \in Segment |-> IF wording[s] = "fixed" /\ Applied(s) THEN "fixed" ELSE "source"]
      /\ UNCHANGED <<stack, polisher, retried, completed, kept, unfinished, attempts, reviews>>
  BY DEF Composes
<1>2. PolishTyped'
  BY <1>1 DEF PolishTyped, reviews, Polishers, WorkerStates, Segment
<1>3. /\ \A d \in Polishers : RangesOf(d)' = RangesOf(d)
      /\ Outstanding' = Outstanding /\ Covered' = Covered /\ Left' = Left
      /\ RangesApart' = RangesApart
  BY <1>1, SameRanges
<1>4. QueuesFit'
  BY <1>1, <1>3 DEF QueuesFit, Polishers, OneEach
<1>5. \A s \in Segment : wording'[s] = IF wording[s] = "fixed" /\ decision[s] = "approved" THEN "fixed" ELSE "source"
  BY <1>1 DEF Applied
<1>6. CountsFit'
  <2>1. Edits' \subseteq Edits
    BY <1>5 DEF Edits, Segment
  <2>2. Cardinality(Edits') <= Cardinality(Edits)
    BY <2>1, EditsFinite, FS_Subset
  <2>3. IsFiniteSet(Edits')
    BY <2>1, EditsFinite, FS_Subset
  <2>4. Cardinality(Edits') \in Nat
    BY <2>3, FS_CardinalityType
  <2>5. kept' + Cardinality(Edits') <= completed'
    BY <1>1, <2>2, <2>4, EditsFinite DEF CountsFit, PolishTyped
  <2>6. \A s \in Left' : wording'[s] = "source"
    <3>1. Left \subseteq Segment
      BY LeftIsCovered, OutstandingTyped
    <3> QED BY <1>3, <1>5, <3>1 DEF CountsFit
  <2> QED BY <1>1, <1>3, <2>5, <2>6 DEF CountsFit, Segment
<1>7. Spent'
  <2>1. AtRequest' = AtRequest
    BY <1>1 DEF AtRequest, Polishers
  <2> QED BY <1>1, <1>3, <2>1 DEF Spent
<1>8. ReviewsFit'
  <2>1. \A c \in Polishers : polisher'[c] = "done"
    BY <1>1 DEF ReviewsFit
  <2>2. ASSUME NEW s \in Segment PROVE wording'[s] = "fixed" <=> decision'[s] = "approved"
    <3>1. decision[s] = "approved" => wording[s] = "fixed"
      BY <1>1 DEF ReviewsFit, Edits
    <3>2. decision' = decision
      BY <1>1 DEF reviews
    <3> QED BY <1>5, <3>1, <3>2
  <2> QED BY <1>1, <2>1, <2>2 DEF ReviewsFit, Segment, Polishers
<1> QED BY <1>2, <1>3, <1>4, <1>6, <1>7, <1>8

LEMMA FailsKeeps == ASSUME PolishInv, PolishFails PROVE PolishInv'
<1> USE DEF PolishInv
<1>1. polishing' = "failed" /\ UNCHANGED <<stack, polisher, retried, wording, completed, kept, unfinished, attempts, reviews>>
  BY DEF PolishFails, proposal
<1>2. QueuesFit' /\ RangesApart' /\ CountsFit' /\ Spent'
  BY <1>1, ProposalsStay
<1>3. PolishTyped'
  BY <1>1 DEF PolishTyped, reviews, Polishers, WorkerStates, Segment
<1>4. ReviewsFit'
  BY <1>1 DEF ReviewsFit
<1> QED BY <1>2, <1>3, <1>4

LEMMA PolishStutters == ASSUME PolishInv, UNCHANGED polishVars PROVE PolishInv'
<1> USE DEF PolishInv
<1>1. UNCHANGED <<polishing, stack, polisher, retried, wording, completed, kept, unfinished, attempts, reviewStack, reviewer, decision>>
  BY DEF polishVars, proposal, reviews
<1>2. QueuesFit' /\ RangesApart' /\ CountsFit' /\ Spent' /\ Edits' = Edits
  BY <1>1, ProposalsStay
<1>3. PolishTyped'
  BY <1>1 DEF PolishTyped, Polishers, WorkerStates, Segment
<1>4. ReviewsFit'
  BY <1>1, <1>2 DEF ReviewsFit, Segment, Polishers
<1> QED BY <1>2, <1>3, <1>4

LEMMA PolishStepKeeps == ASSUME PolishInv, [PolishNext]_polishVars PROVE PolishInv'
<1>1. ASSUME NEW c \in Polishers, ProposerStep(c) PROVE PolishInv'
  <2>1. CASE ProposerStarts(c)
    <3>1. /\ polisher[c] = "waiting" /\ polisher' = [polisher EXCEPT ![c] = "next"]
          /\ UNCHANGED <<polishing, stack, retried, wording, completed, kept, unfinished, attempts, reviews>>
      BY <2>1 DEF ProposerStarts, MayStart
    <3> QED BY <3>1, WorkerMoves
  <2>2. CASE ProposerRaises(c)
    <3>1. /\ polisher[c] = "asked" /\ polisher' = [polisher EXCEPT ![c] = "raised"]
          /\ UNCHANGED <<polishing, stack, retried, wording, completed, kept, unfinished, attempts, reviews>>
      BY <2>2 DEF ProposerRaises, Asked
    <3> QED BY <3>1, WorkerMoves
  <2> QED BY <1>1, <2>1, <2>2, TakesKeeps, SplitsKeeps, OnceMoreKeeps, SourceKeeps, CorrectsKeeps DEF ProposerStep
<1>2. CASE UNCHANGED polishVars
  BY <1>2, PolishStutters
<1> QED BY <1>1, <1>2, ReviewBeginsKeeps, ComposesKeeps, FailsKeeps, ReviewerKeeps DEF PolishNext

LEMMA PolishBegins == ASSUME PolishInit PROVE PolishInv
<1> USE DEF PolishInit
<1>1. /\ PolishRange \in Seq(Segment \X Segment) /\ Polishers = 1 .. Len(PolishRange) /\ Len(PolishRange) \in Nat
      /\ \A c \in Polishers : PolishRange[c] \in Segment \X Segment
      /\ \A c \in Polishers : stack[c] = <<PolishRange[c]>> /\ PolishRange[c][1] <= PolishRange[c][2]
      /\ \A c, d \in Polishers : c < d => PolishRange[c][2] < PolishRange[d][1]
      /\ \A s \in Segment : \E c \in Polishers : s \in PolishRange[c][1] .. PolishRange[c][2]
  <2>1. PolishRange \in Seq(Segment \X Segment) /\ Polishers = 1 .. Len(PolishRange) /\ Len(PolishRange) \in Nat
        /\ \A c \in Polishers : PolishRange[c] \in Segment \X Segment
    BY PolishConstants DEF Segment, Polishers
  <2> QED BY <2>1, PolishConstants DEF Segment, Polishers
<1>2. \A c \in Polishers : RangesOf(c) = {PolishRange[c]} /\ OneEach(stack[c]) /\ stack[c] # << >>
  <2>1. ASSUME NEW x PROVE DOMAIN <<x>> = {1} /\ <<x>>[1] = x /\ <<x>> # << >>
    OBVIOUS
  <2>2. \A c \in Polishers : DOMAIN stack[c] = {1} /\ stack[c][1] = PolishRange[c] /\ stack[c] # << >>
    BY <1>1, <2>1
  <2> QED BY <2>2 DEF RangesOf, OneEach
<1>3. Outstanding = {PolishRange[c] : c \in Polishers}
  BY <1>2 DEF Outstanding
<1>4. PolishTyped
  <2>1. stack \in [Polishers -> Seq(Segment \X Segment)]
    BY <1>1
  <2>2. unfinished \in Nat /\ reviewer = << >>
    BY <1>1
  <2> QED BY <2>1, <2>2 DEF PolishTyped, WorkerStates
<1>5. ASSUME NEW c \in Polishers, NEW d \in Polishers, c # d
      PROVE  Within(PolishRange[c]) \cap Within(PolishRange[d]) = {} /\ PolishRange[c] # PolishRange[d]
  <2>1. /\ PolishRange[c][1] \in Nat /\ PolishRange[c][2] \in Nat /\ PolishRange[c][1] \in Within(PolishRange[c])
        /\ PolishRange[d][1] \in Nat /\ PolishRange[d][2] \in Nat
    BY <1>1, RangesAreWithin
  <2>2. c < d \/ d < c
    BY <1>1, <1>5
  <2>3. PolishRange[c][2] < PolishRange[d][1] \/ PolishRange[d][2] < PolishRange[c][1]
    BY <1>1, <2>2
  <2>4. Within(PolishRange[c]) \cap Within(PolishRange[d]) = {}
    BY <2>1, <2>3 DEF Within
  <2> QED BY <2>1, <2>4
<1>6. QueuesFit
  BY <1>2, <1>5 DEF QueuesFit
<1>7. RangesApart
  <2>1. ASSUME NEW r \in Outstanding PROVE r[1] <= r[2]
    BY <1>1, <1>3
  <2>2. ASSUME NEW r \in Outstanding, NEW q \in Outstanding, r # q PROVE Within(r) \cap Within(q) = {}
    <3>1. PICK c \in Polishers, d \in Polishers : r = PolishRange[c] /\ q = PolishRange[d]
      BY <1>3
    <3>2. c # d
      BY <2>2, <3>1
    <3> QED BY <1>5, <3>1, <3>2
  <2> QED BY <2>1, <2>2 DEF RangesApart
<1>8. Covered = Segment
  <2>1. Covered \subseteq Segment
    BY <1>4, OutstandingTyped
  <2>2. ASSUME NEW s \in Segment PROVE s \in Covered
    <3>1. PICK c \in Polishers : s \in PolishRange[c][1] .. PolishRange[c][2]
      BY <1>1
    <3> QED BY <1>3, <3>1 DEF Covered, Within
  <2> QED BY <2>1, <2>2
<1>9. Cardinality(Outstanding) = Len(PolishRange)
  <2> DEFINE f == [c \in Polishers |-> PolishRange[c]]
  <2>1. f \in Injection(Polishers, Outstanding)
    BY <1>3, <1>5 DEF Injection, IsInjective
  <2>2. f \in Surjection(Polishers, Outstanding)
    BY <1>3 DEF Surjection
  <2> HIDE DEF f
  <2>3. Cardinality(Outstanding) = Cardinality(Polishers)
    <3>1. IsFiniteSet(Polishers) /\ IsFiniteSet(Outstanding)
      BY <1>4, RequestsFinite, OutstandingFinite
    <3>2. Cardinality(Outstanding) <= Cardinality(Polishers)
      BY <2>2, <3>1, FS_Surjection
    <3>3. Cardinality(Polishers) <= Cardinality(Outstanding)
      BY <2>1, <3>1, FS_Injection
    <3>4. Cardinality(Polishers) \in Nat /\ Cardinality(Outstanding) \in Nat
      BY <3>1, FS_CardinalityType
    <3> QED BY <3>2, <3>3, <3>4
  <2>4. Cardinality(Polishers) = Len(PolishRange)
    <3>1. PICK n \in Nat : n = Len(PolishRange) /\ Polishers = 1 .. n
      BY <1>1
    <3>2. Cardinality(1 .. n) = IF 1 > n THEN 0 ELSE n - 1 + 1
      BY FS_Interval
    <3>3. Cardinality(1 .. n) = n
      BY <3>2
    <3> QED BY <3>1, <3>3
  <2> QED BY <2>3, <2>4
<1>10. Edits = {}
  BY DEF Edits
<1>11. CountsFit
  <2>1. Left = Segment \ Blank
    BY <1>8, LeftIsCovered
  <2>2. Cardinality(Left) \in Nat /\ Cardinality(Edits) = 0
    BY <1>4, <1>10, OutstandingFinite, FS_EmptySet
  <2> QED BY <1>9, <2>1, <2>2 DEF CountsFit
<1>12. Spent
  <2>1. AtRequest = {} /\ retried \cap Covered = {}
    BY DEF AtRequest
  <2>2. Cardinality(AtRequest) = 0 /\ Cardinality(retried \cap Covered) = 0
    BY <2>1, FS_EmptySet
  <2> QED BY <1>1, <1>8, <1>9, <2>2, SegmentsCount DEF Spent
<1>13. ReviewsFit
  BY DEF ReviewsFit
<1> QED BY <1>4, <1>6, <1>7, <1>11, <1>12, <1>13 DEF PolishInv

\* As many requests are under way as there are workers, each with a range of
\* its own, and as many ranges are left as there are segments in them.
LEMMA SpentIsBounded == ASSUME PolishInv PROVE RequestsAreBounded
<1> USE DEF PolishInv
<1>1. /\ IsFiniteSet(Outstanding) /\ Cardinality(Outstanding) \in Nat
      /\ IsFiniteSet(Covered) /\ Cardinality(Covered) \in Nat
      /\ Cardinality(retried \cap Covered) \in Nat /\ Cardinality(AtRequest) \in Nat
  BY OutstandingFinite, RetriedFinite, RequestsFinite
<1>2. Cardinality(AtRequest) <= Cardinality(Outstanding)
  <2> DEFINE f == [c \in AtRequest |-> RangeAt(c)]
  <2>1. ASSUME NEW c \in AtRequest PROVE c \in Polishers /\ RangeAt(c) \in RangesOf(c) /\ RangeAt(c) \in Outstanding
    <3>1. c \in Polishers /\ stack[c] # << >>
      BY DEF AtRequest, QueuesFit
    <3> QED BY <3>1, Heads
  <2>2. \A c, d \in AtRequest : RangeAt(c) = RangeAt(d) => c = d
    BY <2>1 DEF QueuesFit
  <2>3. f \in Injection(AtRequest, Outstanding)
    BY <2>1, <2>2 DEF Injection, IsInjective
  <2> HIDE DEF f
  <2> QED BY <1>1, <2>3, FS_Injection
<1>3. Cardinality(Outstanding) <= Cardinality(Covered)
  <2> DEFINE f == [r \in Outstanding |-> r[1]]
  <2>1. ASSUME NEW r \in Outstanding PROVE r[1] \in Within(r) /\ r[1] \in Covered
    <3>1. r \in Segment \X Segment /\ r[1] <= r[2]
      BY OutstandingTyped DEF RangesApart
    <3>2. r[1] \in Within(r)
      BY <3>1, RangesAreWithin
    <3> QED BY <3>2 DEF Covered
  <2>2. \A r, q \in Outstanding : r[1] = q[1] => r = q
    BY <2>1 DEF RangesApart
  <2>3. f \in Injection(Outstanding, Covered)
    BY <2>1, <2>2 DEF Injection, IsInjective
  <2> HIDE DEF f
  <2> QED BY <1>1, <2>3, FS_Injection
<1>4. Cardinality(retried \cap Covered) <= Cardinality(Covered)
  BY <1>1, FS_Intersection
<1> DEFINE a == Cardinality(AtRequest)
           b == Cardinality(Outstanding)
           d == Cardinality(retried \cap Covered)
           e == Cardinality(Covered)
<1>5. a \in Nat /\ b \in Nat /\ d \in Nat /\ e \in Nat /\ a <= b /\ b <= e /\ d <= e
  BY <1>1, <1>2, <1>3, <1>4
<1>6. attempts + 3 * e + Len(PolishRange) <= 3 * Segments + a + b + d
  BY DEF Spent
<1>7. attempts \in Nat
  BY DEF PolishTyped
<1> HIDE DEF a, b, d, e
<1> QED BY <1>5, <1>6, <1>7, LengthsAreNat DEF RequestsAreBounded

LEMMA PolishInvIsSafe == PolishInv => PolishTypeOK /\ PolishSafety
<1> SUFFICES ASSUME PolishInv PROVE PolishTypeOK /\ PolishSafety
  OBVIOUS
<1> USE DEF PolishInv
<1>1. PolishTypeOK
  BY DEF PolishTyped, PolishTypeOK
<1>2. ProgressIsExact
  <2>1. ASSUME NEW r \in Outstanding, NEW q \in Outstanding, r # q PROVE Targets(r) \cap Targets(q) = {}
    <3>1. Within(r) \cap Within(q) = {}
      BY <2>1 DEF RangesApart
    <3> QED BY <3>1 DEF Targets, Within
  <2> QED BY <2>1 DEF ProgressIsExact, CountsFit
<1>3. PublishedIsApproved
  <2> SUFFICES ASSUME polishing = "published"
               PROVE  /\ \A s \in Segment : (wording[s] = "fixed") <=> (decision[s] = "approved")
                      /\ Left = {} /\ unfinished = 0
    BY DEF PublishedIsApproved
  <2>1. \A c \in Polishers : stack[c] = << >>
    BY DEF ReviewsFit, QueuesFit
  <2>2. \A c \in Polishers : RangesOf(c) = {}
    BY <2>1 DEF RangesOf
  <2>3. Outstanding = {}
    BY <2>2 DEF Outstanding
  <2>4. Left = {} /\ unfinished = 0
    BY <2>3, FS_EmptySet DEF Left, CountsFit
  <2> QED BY <2>4 DEF ReviewsFit
<1> QED BY <1>1, <1>2, <1>3, SpentIsBounded DEF PolishSafety

LEMMA PolishAlways == PolishSpec => []PolishInv
<1>1. PolishInit => PolishInv
  BY PolishBegins
<1>2. PolishInv /\ [PolishNext]_polishVars => PolishInv'
  BY PolishStepKeeps
<1> QED BY <1>1, <1>2, PTL DEF PolishSpec

\* Every variable of the correction of a transcript has its type. (worker/polish.py)
THEOREM PolishTypeCorrect == PolishSpec => []PolishTypeOK
BY PolishAlways, PolishInvIsSafe, PTL

\* Progress is what is left, a segment is in one range, the requests are bounded and only what
\* was approved is published, for any ranges, batches, workers and replies.
\* (worker/polish.py, worker/correction_review.py)
THEOREM PolishIsSafe == PolishSpec => []PolishSafety
BY PolishAlways, PolishInvIsSafe, PTL

----------------------------------------------------------------------------
(***************************************************************************)
(* ProfileSettings.                                                        *)
(***************************************************************************)

Settings ==
  [version : [Profile -> Version], catalog : SUBSET Model, enabled : SUBSET Model,
   conf : [Model -> {"local", "cloud"}], override : [File -> Some], assigned : [File -> Some],
   folder : Some, inside : SUBSET OwnFiles, template : Some, archived : SUBSET Profile,
   choosing : SUBSET OwnFiles, rule : Some]
Pendings == [kind : {"none", "delete", "folder", "template", "rule"}, p : Some, spared : BOOLEAN]
WorkInHand == [by : {"nobody", "cycle", "call"}, space : Space \cup {NoSpace}]

\* A profile that is named was made, and one that is chosen exists.
Made(s, p) == p = 0 \/ s.version[p].row # "none"
SelectionsFit(s) ==
  /\ \A f \in File : Made(s, s.override[f]) /\ Made(s, s.assigned[f])
  /\ Made(s, s.folder) /\ Made(s, s.template) /\ Made(s, s.rule)
  /\ s.template = 0 => s.choosing = {}

OneDefault(s) == \A p, q \in Default(s) : p = q
OverridesStand(s) == \A f \in OwnFiles : s.override[f] # 0 => Stands(s, s.override[f])
ModelsStand(s) == \A p \in Profile : Stands(s, p) => s.version[p].model \in s.catalog
SettingsFit(s) == SelectionsFit(s) /\ OneDefault(s) /\ OverridesStand(s) /\ ModelsStand(s)

ProfileInv ==
  /\ ProfileTypeOK /\ SettingsFit(settings) /\ Made(settings, asking.p)
  /\ WorkRunsAsResolved /\ VectorsFollowProfile

LEMMA ProfileTypes ==
  ASSUME ProfileTypeOK
  PROVE  /\ settings \in Settings /\ asking \in Pendings /\ underWay \in [File -> WorkInHand]
         /\ chunks \in [File -> Space \cup {NoSpace}] /\ edits \in 0 .. MaxEdits
  BY DEF ProfileTypeOK, Settings, Pendings, WorkInHand

LEMMA NoSpaceDiffers == NoSpace \notin Space
  <1> SUFFICES ASSUME NoSpace \in Space PROVE FALSE OBVIOUS
  <1>1. PICK m \in Model, c \in {"local", "cloud"} : <<>> = <<m, c>> BY DEF NoSpace, Space
  <1> QED BY <1>1

\* The layer that wins is one of the four.
LEMMA ChosenIs ==
  ASSUME NEW s, NEW f, Default(s) # {}
  PROVE  \/ Chosen(s, f) \in Default(s)
         \/ \E i \in 1 .. 4 : Layers(s, f)[i] # 0 /\ Chosen(s, f) = Layers(s, f)[i]
<1> DEFINE above == {i \in 1 .. 4 : Layers(s, f)[i] # 0}
<1>1. CASE above = {}
  BY <1>1 DEF Chosen
<1>2. CASE above # {}
  <2>1. \E i \in above : \A j \in above : i <= j
    <3>1. above \subseteq 1 .. 4 OBVIOUS
    <3> HIDE DEF above
    <3>2. CASE 1 \in above BY <3>1, <3>2
    <3>3. CASE 1 \notin above /\ 2 \in above BY <3>1, <3>3
    <3>4. CASE 1 \notin above /\ 2 \notin above /\ 3 \in above BY <3>1, <3>4
    <3>5. CASE 1 \notin above /\ 2 \notin above /\ 3 \notin above
      <4>1. PICK j \in above : TRUE BY <1>2
      <4>2. \A k \in above : k = 4 BY <3>1, <3>5
      <4> QED BY <4>1, <4>2
    <3> QED BY <3>2, <3>3, <3>4, <3>5
  <2>2. (CHOOSE i \in above : \A j \in above : i <= j) \in above
    BY <2>1
  <2>3. Chosen(s, f) = Layers(s, f)[CHOOSE i \in above : \A j \in above : i <= j]
    BY <1>2 DEF Chosen
  <2> QED BY <2>2, <2>3
<1> QED BY <1>1, <1>2

\* What decides about f is the same in t, or missing there.
Weakens(s, t, f) ==
  /\ Layers(t, f) = Layers(s, f) /\ Default(t) \in {Default(s), {}}
  /\ \A p \in Profile : Stands(t, p) /\ (p \in Default(s) \/ \E i \in 1 .. 4 : p = Layers(s, f)[i]) =>
       /\ Stands(s, p) /\ (Admits(t, p) => Admits(s, p))
       /\ t.version[p].model = s.version[p].model
       /\ t.conf[t.version[p].model] = s.conf[s.version[p].model]

LEMMA WeakerRunsOrFails ==
  ASSUME NEW s, NEW t, NEW f, Weakens(s, t, f),
         \A i \in 1 .. 4 : Layers(s, f)[i] \in Some
  PROVE  RunsOn(t, f) \in {RunsOn(s, f), NoSpace}
<1> SUFFICES ASSUME RunsOn(t, f) # NoSpace PROVE RunsOn(t, f) = RunsOn(s, f)
  OBVIOUS
<1>1. /\ Default(t) # {} /\ Admits(t, Chosen(t, f))
      /\ \A i \in 1 .. 4 : Layers(t, f)[i] # 0 => Stands(t, Layers(t, f)[i])
      /\ RunsOn(t, f) = <<t.version[Chosen(t, f)].model, t.conf[t.version[Chosen(t, f)].model]>>
  BY DEF RunsOn
<1>2. Default(s) = Default(t) /\ Layers(s, f) = Layers(t, f)
  BY <1>1 DEF Weakens
<1>3. Chosen(s, f) = Chosen(t, f)
  BY <1>2 DEF Chosen
<1> DEFINE p == Chosen(t, f)
<1>4. Stands(t, p) /\ p \in Profile
  <2>1. CASE p \in Default(t)
    BY <2>1 DEF Default
  <2>2. CASE \E i \in 1 .. 4 : Layers(t, f)[i] # 0 /\ p = Layers(t, f)[i]
    <3>1. PICK i \in 1 .. 4 : Layers(t, f)[i] # 0 /\ p = Layers(t, f)[i]
      BY <2>2
    <3>2. Stands(t, p) BY <1>1, <3>1
    <3>3. p \in Some \ {0} BY <1>2, <3>1
    <3> QED BY <3>2, <3>3 DEF Some, Profile
  <2> QED BY <2>1, <2>2, <1>1, ChosenIs
<1>5. p \in Default(s) \/ \E i \in 1 .. 4 : p = Layers(s, f)[i]
  BY <1>1, <1>2, ChosenIs
<1>6. /\ Stands(s, p) /\ Admits(s, p)
      /\ t.version[p].model = s.version[p].model
      /\ t.conf[t.version[p].model] = s.conf[s.version[p].model]
  BY <1>1, <1>4, <1>5 DEF Weakens
<1>7. \A i \in 1 .. 4 : Layers(s, f)[i] # 0 => Stands(s, Layers(s, f)[i])
  <2> SUFFICES ASSUME NEW i \in 1 .. 4, Layers(s, f)[i] # 0 PROVE Stands(s, Layers(s, f)[i])
    OBVIOUS
  <2>1. Stands(t, Layers(s, f)[i]) BY <1>1, <1>2
  <2>2. Layers(s, f)[i] \in Profile
    <3>1. Layers(s, f)[i] \in Some \ {0} OBVIOUS
    <3> QED BY <3>1 DEF Some, Profile
  <2> QED BY <2>1, <2>2 DEF Weakens
<1>8. RunsOn(s, f) = <<s.version[p].model, s.conf[s.version[p].model]>>
  BY <1>1, <1>2, <1>3, <1>6, <1>7 DEF RunsOn
<1> QED BY <1>1, <1>6, <1>8

LEMMA LayersTyped ==
  ASSUME NEW s \in Settings, NEW f \in File
  PROVE  \A i \in 1 .. 4 : Layers(s, f)[i] \in Some
<1>1. /\ s.override[f] \in Some /\ s.assigned[f] \in Some /\ s.template \in Some /\ s.folder \in Some
      /\ 0 \in Some
  BY ProfileConstants DEF Settings, Some
<1> SUFFICES ASSUME NEW i \in 1 .. 4 PROVE Layers(s, f)[i] \in Some
  OBVIOUS
<1>2. i = 1 \/ i = 2 \/ i = 3 \/ i = 4 OBVIOUS
<1> HIDE DEF Some
<1> QED BY <1>1, <1>2 DEF Layers

\* A change keeps the invariant when work that goes on resolves as before, and what is not
\* rewritten resolves as before or not at all.
LEMMA ChangeKeeps ==
  ASSUME ProfileInv, NEW new \in Settings, NEW F, Rewrites(new, F),
         SettingsFit(new), asking' \in Pendings, Made(new, asking'.p), underWay' \in [File -> WorkInHand],
         \A f \in OwnFiles : underWay'[f] # NoWork => RunsOn(new, f) = underWay'[f].space,
         \A f \in OwnFiles \ F : RunsOn(new, f) \in {RunsOn(settings, f), NoSpace}
  PROVE  ProfileInv'
<1>1. settings' = new /\ edits' = edits + 1 /\ edits < MaxEdits
  BY DEF Rewrites
<1>2. chunks' = [f \in File |-> IF f \in F /\ chunks[f] # RunsOn(new, f) THEN NoSpace ELSE chunks[f]]
  BY DEF Rewrites
<1>3. edits' \in 0 .. MaxEdits /\ chunks' \in [File -> Space \cup {NoSpace}]
  BY <1>1, <1>2, ProfileTypes, ProfileConstants DEF ProfileInv
<1>4. ProfileTypeOK'
  BY <1>1, <1>3 DEF ProfileTypeOK, Settings, Pendings, WorkInHand
<1>5. SettingsFit(settings)' /\ Made(settings, asking.p)'
  BY <1>1
<1>6. WorkRunsAsResolved'
  BY <1>1 DEF WorkRunsAsResolved
<1>7. VectorsFollowProfile'
  <2> SUFFICES ASSUME NEW f \in OwnFiles, chunks'[f] # NoSpace
               PROVE  RunsOn(new, f) \in {chunks'[f], NoSpace}
    BY <1>1 DEF VectorsFollowProfile
  <2>1. f \in File BY ProfileConstants
  <2>2. chunks'[f] = chunks[f] /\ (f \in F => chunks[f] = RunsOn(new, f))
    BY <1>2, <2>1
  <2>3. RunsOn(settings, f) \in {chunks[f], NoSpace}
    BY <2>2 DEF ProfileInv, VectorsFollowProfile
  <2> QED BY <2>2, <2>3
<1> QED BY <1>4, <1>5, <1>6, <1>7 DEF ProfileInv

\* Under the fence of what it bears on.
LEMMA FencedKeeps ==
  ASSUME ProfileInv, NEW new \in Settings, NEW F, Free(F), Rewrites(new, F),
         SettingsFit(new), asking' \in Pendings, Made(new, asking'.p), UNCHANGED underWay,
         \A f \in OwnFiles \ F : RunsOn(new, f) = RunsOn(settings, f)
  PROVE  ProfileInv'
<1>1. underWay' \in [File -> WorkInHand] BY ProfileTypes DEF ProfileInv
<1>2. \A f \in OwnFiles : underWay'[f] # NoWork => RunsOn(new, f) = underWay'[f].space
  BY DEF Free, ProfileInv, WorkRunsAsResolved
<1> QED BY <1>1, <1>2, ChangeKeeps

\* Layers decide, where models and profiles stay as they are.
LEMMA SameLayers ==
  ASSUME NEW s, NEW t, NEW f, Layers(t, f) = Layers(s, f),
         t.version = s.version, t.catalog = s.catalog, t.enabled = s.enabled, t.conf = s.conf
  PROVE  RunsOn(t, f) = RunsOn(s, f)
<1>1. \A p : Stands(t, p) = Stands(s, p) /\ Admits(t, p) = Admits(s, p)
  BY DEF Stands, Admits
<1>2. Default(t) = Default(s)
  BY DEF Default, Stands
<1>3. Chosen(t, f) = Chosen(s, f)
  BY <1>2 DEF Chosen
<1> QED BY <1>1, <1>2, <1>3 DEF RunsOn

\* A change of what recordings name, and of no profile and no model.
LEMMA NamingKeeps ==
  ASSUME ProfileInv, NEW new \in Settings, NEW F, Free(F), Rewrites(new, F), UNCHANGED underWay,
         new.version = settings.version, new.catalog = settings.catalog,
         new.enabled = settings.enabled, new.conf = settings.conf,
         SelectionsFit(new), OverridesStand(new), asking' \in Pendings, Made(settings, asking'.p),
         \A f \in OwnFiles \ F : Layers(new, f) = Layers(settings, f)
  PROVE  ProfileInv'
<1>1. Default(new) = Default(settings) /\ Made(new, asking'.p)
  BY DEF Default, Stands, Made
<1>2. ModelsStand(new)
  BY DEF ModelsStand, ProfileInv, SettingsFit, Stands
<1>3. SettingsFit(new)
  BY <1>1, <1>2 DEF SettingsFit, OneDefault, ProfileInv
<1>4. \A f \in OwnFiles \ F : RunsOn(new, f) = RunsOn(settings, f)
  BY SameLayers
<1> QED BY <1>1, <1>3, <1>4, FencedKeeps

LEMMA StandingIsMade ==
  ASSUME NEW s, NEW p, Stands(s, p)
  PROVE  Made(s, p)
  BY DEF Stands, Made

LEMMA SettingsKnown ==
  ASSUME ProfileInv
  PROVE  /\ settings \in Settings /\ asking \in Pendings /\ underWay \in [File -> WorkInHand]
         /\ SelectionsFit(settings) /\ OneDefault(settings) /\ OverridesStand(settings)
         /\ ModelsStand(settings) /\ Made(settings, asking.p) /\ 0 \in Some /\ Profile \subseteq Some
         /\ OwnFiles \subseteq File
  BY ProfileTypes, ProfileConstants DEF ProfileInv, SettingsFit, Some, Profile

LEMMA OverrideKeeps ==
  ASSUME ProfileInv, NEW f \in File, NEW p \in Some, p # 0 => Stands(settings, p),
         Change({f}, [settings EXCEPT !.override[f] = p])
  PROVE  ProfileInv'
<1> DEFINE new == [settings EXCEPT !.override[f] = p]
<1>1. new \in Settings
  BY SettingsKnown DEF Settings
<1>2. /\ new.version = settings.version /\ new.catalog = settings.catalog
      /\ new.enabled = settings.enabled /\ new.conf = settings.conf
      /\ new.assigned = settings.assigned /\ new.folder = settings.folder /\ new.inside = settings.inside
      /\ new.template = settings.template /\ new.choosing = settings.choosing /\ new.rule = settings.rule
      /\ new.override = [settings.override EXCEPT ![f] = p]
  BY SettingsKnown DEF Settings
<1>3. settings.override \in [File -> Some]
  BY SettingsKnown DEF Settings
<1>4. Free({f}) /\ Rewrites(new, {f}) /\ UNCHANGED <<underWay, asking>>
  BY DEF Change
<1> HIDE DEF new
<1>5. \A q : Made(new, q) = Made(settings, q) /\ Stands(new, q) = Stands(settings, q)
  BY <1>2 DEF Made, Stands
<1>6. \A g \in File : new.override[g] = IF g = f THEN p ELSE settings.override[g]
  BY <1>2, <1>3
<1>7. SelectionsFit(new)
  BY <1>2, <1>5, <1>6, SettingsKnown, StandingIsMade DEF SelectionsFit, Made
<1>8. OverridesStand(new)
  BY <1>5, <1>6, SettingsKnown DEF OverridesStand
<1>9. \A g \in OwnFiles \ {f} : Layers(new, g) = Layers(settings, g)
  BY <1>2, <1>6, SettingsKnown DEF Layers
<1> QED BY <1>1, <1>2, <1>4, <1>7, <1>8, <1>9, NamingKeeps, SettingsKnown

LEMMA MovingFoldersKeeps ==
  ASSUME ProfileInv, NEW f \in OwnFiles, Moves(f)
  PROVE  ProfileInv'
<1> DEFINE new == [settings EXCEPT !.inside = IF f \in @ THEN @ \ {f} ELSE @ \cup {f}]
<1>1. new \in Settings
  BY SettingsKnown DEF Settings, Moves
<1>2. /\ new.version = settings.version /\ new.catalog = settings.catalog /\ new.enabled = settings.enabled
      /\ new.conf = settings.conf /\ new.override = settings.override /\ new.assigned = settings.assigned
      /\ new.folder = settings.folder /\ new.template = settings.template /\ new.choosing = settings.choosing
      /\ new.rule = settings.rule /\ new.inside = (IF f \in settings.inside THEN settings.inside \ {f} ELSE settings.inside \cup {f})
  BY SettingsKnown DEF Settings
<1>3. Free({f}) /\ Rewrites(new, {f}) /\ UNCHANGED underWay /\ asking' \in Pendings /\ Made(settings, asking'.p)
  BY SettingsKnown DEF Change, Unfenced, Free, Moves, Pendings, Made, NoAsk
<1>4. TRUE
  BY SettingsKnown DEF SelectionsFit, Made, Settings, Stands, Moves
<1> HIDE DEF new
<1>5. \A q : Made(new, q) = Made(settings, q) /\ Stands(new, q) = Stands(settings, q)
  BY <1>2 DEF Made, Stands
<1>6. SelectionsFit(new)
  BY <1>2, <1>4, <1>5, SettingsKnown, StandingIsMade DEF SelectionsFit, Made
<1>7. OverridesStand(new)
  BY <1>2, <1>5, SettingsKnown DEF OverridesStand
<1>8. \A g \in OwnFiles \ {f} : Layers(new, g) = Layers(settings, g)
  BY <1>2, <1>4, SettingsKnown DEF Layers
<1> QED BY <1>1, <1>2, <1>3, <1>6, <1>7, <1>8, NamingKeeps

LEMMA DeletingFolderKeeps ==
  ASSUME ProfileInv, DeleteFolder
  PROVE  ProfileInv'
<1> DEFINE new == [settings EXCEPT !.inside = {}, !.folder = 0]
<1>1. new \in Settings
  BY SettingsKnown DEF Settings, DeleteFolder
<1>2. /\ new.version = settings.version /\ new.catalog = settings.catalog /\ new.enabled = settings.enabled
      /\ new.conf = settings.conf /\ new.override = settings.override /\ new.assigned = settings.assigned
      /\ new.template = settings.template /\ new.choosing = settings.choosing /\ new.rule = settings.rule
      /\ new.inside = {} /\ new.folder = 0
  BY SettingsKnown DEF Settings
<1>3. Free(settings.inside) /\ Rewrites(new, settings.inside) /\ UNCHANGED underWay /\ asking' \in Pendings /\ Made(settings, asking'.p)
  BY SettingsKnown DEF Change, Unfenced, Free, DeleteFolder, Pendings, Made, NoAsk
<1>4. settings.inside \subseteq OwnFiles
  BY SettingsKnown DEF SelectionsFit, Made, Settings, Stands, DeleteFolder
<1> HIDE DEF new
<1>5. \A q : Made(new, q) = Made(settings, q) /\ Stands(new, q) = Stands(settings, q)
  BY <1>2 DEF Made, Stands
<1>6. SelectionsFit(new)
  BY <1>2, <1>4, <1>5, SettingsKnown, StandingIsMade DEF SelectionsFit, Made
<1>7. OverridesStand(new)
  BY <1>2, <1>5, SettingsKnown DEF OverridesStand
<1>8. \A g \in OwnFiles \ settings.inside : Layers(new, g) = Layers(settings, g)
  BY <1>2, <1>4, SettingsKnown DEF Layers
<1> QED BY <1>1, <1>2, <1>3, <1>6, <1>7, <1>8, NamingKeeps

LEMMA SettingFolderKeeps ==
  ASSUME ProfileInv, SetsFolder
  PROVE  ProfileInv'
<1> DEFINE new == [settings EXCEPT !.folder = asking.p]
<1>0. asking.p \in Some
  BY SettingsKnown DEF Pendings, Settings, Some, Profile, SetsFolder, Proceeds
<1>1. new \in Settings
  BY <1>0, SettingsKnown DEF Settings
<1>2. /\ new.version = settings.version /\ new.catalog = settings.catalog /\ new.enabled = settings.enabled
      /\ new.conf = settings.conf /\ new.override = settings.override /\ new.assigned = settings.assigned
      /\ new.inside = settings.inside /\ new.template = settings.template /\ new.choosing = settings.choosing
      /\ new.rule = settings.rule /\ new.folder = asking.p
  BY SettingsKnown DEF Settings
<1>3. Free(settings.inside) /\ Rewrites(new, settings.inside) /\ UNCHANGED underWay /\ asking' \in Pendings /\ Made(settings, asking'.p)
  BY SettingsKnown DEF Change, Unfenced, Free, SetsFolder, Proceeds, Pendings, Made, NoAsk
<1>4. Made(settings, asking.p)
  BY SettingsKnown DEF SelectionsFit, Made, Settings, Stands, SetsFolder, Proceeds
<1> HIDE DEF new
<1>5. \A q : Made(new, q) = Made(settings, q) /\ Stands(new, q) = Stands(settings, q)
  BY <1>2 DEF Made, Stands
<1>6. SelectionsFit(new)
  BY <1>2, <1>4, <1>5, SettingsKnown, StandingIsMade DEF SelectionsFit, Made
<1>7. OverridesStand(new)
  BY <1>2, <1>5, SettingsKnown DEF OverridesStand
<1>8. \A g \in OwnFiles \ settings.inside : Layers(new, g) = Layers(settings, g)
  BY <1>2, <1>4, SettingsKnown DEF Layers
<1> QED BY <1>1, <1>2, <1>3, <1>6, <1>7, <1>8, NamingKeeps

LEMMA CreatingTemplateKeeps ==
  ASSUME ProfileInv, CreatesTemplate
  PROVE  ProfileInv'
<1> DEFINE new == [settings EXCEPT !.template = asking.p]
<1>0. asking.p \in Some
  BY SettingsKnown DEF Pendings, Settings, Some, Profile, CreatesTemplate, Proceeds
<1>1. new \in Settings
  BY <1>0, SettingsKnown DEF Settings
<1>2. /\ new.version = settings.version /\ new.catalog = settings.catalog /\ new.enabled = settings.enabled
      /\ new.conf = settings.conf /\ new.override = settings.override /\ new.assigned = settings.assigned
      /\ new.folder = settings.folder /\ new.inside = settings.inside /\ new.choosing = settings.choosing
      /\ new.rule = settings.rule /\ new.template = asking.p
  BY SettingsKnown DEF Settings
<1>3. Free({}) /\ Rewrites(new, {}) /\ UNCHANGED underWay /\ asking' \in Pendings /\ Made(settings, asking'.p)
  BY SettingsKnown DEF Change, Unfenced, Free, CreatesTemplate, Proceeds, Pendings, Made, NoAsk
<1>4. settings.choosing = {} /\ Made(settings, asking.p)
  BY SettingsKnown DEF SelectionsFit, Made, Settings, Stands, CreatesTemplate, Proceeds
<1> HIDE DEF new
<1>5. \A q : Made(new, q) = Made(settings, q) /\ Stands(new, q) = Stands(settings, q)
  BY <1>2 DEF Made, Stands
<1>6. SelectionsFit(new)
  BY <1>2, <1>4, <1>5, SettingsKnown, StandingIsMade DEF SelectionsFit, Made
<1>7. OverridesStand(new)
  BY <1>2, <1>5, SettingsKnown DEF OverridesStand
<1>8. \A g \in OwnFiles \ {} : Layers(new, g) = Layers(settings, g)
  BY <1>2, <1>4, SettingsKnown DEF Layers
<1> QED BY <1>1, <1>2, <1>3, <1>6, <1>7, <1>8, NamingKeeps

LEMMA VersioningTemplateKeeps ==
  ASSUME ProfileInv, NEW p \in Profile, VersionTemplate(p)
  PROVE  ProfileInv'
<1> DEFINE new == [settings EXCEPT !.template = p, !.archived = @ \cup {settings.template}]
<1>0. p \in Some /\ p # 0 /\ settings.template \in Profile
  BY SettingsKnown DEF Pendings, Settings, Some, Profile, VersionTemplate
<1>1. new \in Settings
  BY <1>0, SettingsKnown DEF Settings
<1>2. /\ new.version = settings.version /\ new.catalog = settings.catalog /\ new.enabled = settings.enabled
      /\ new.conf = settings.conf /\ new.override = settings.override /\ new.assigned = settings.assigned
      /\ new.folder = settings.folder /\ new.inside = settings.inside /\ new.choosing = settings.choosing
      /\ new.rule = settings.rule /\ new.template = p
  BY SettingsKnown DEF Settings
<1>3. Free(OwnFiles) /\ Rewrites(new, OwnFiles) /\ UNCHANGED underWay /\ asking' \in Pendings /\ Made(settings, asking'.p)
  BY SettingsKnown DEF Change, Unfenced, Free, VersionTemplate, Pendings, Made, NoAsk
<1>4. Made(settings, p) /\ p # 0
  BY SettingsKnown DEF SelectionsFit, Made, Settings, Stands, VersionTemplate
<1> HIDE DEF new
<1>5. \A q : Made(new, q) = Made(settings, q) /\ Stands(new, q) = Stands(settings, q)
  BY <1>2 DEF Made, Stands
<1>6. SelectionsFit(new)
  BY <1>2, <1>4, <1>5, SettingsKnown, StandingIsMade DEF SelectionsFit, Made
<1>7. OverridesStand(new)
  BY <1>2, <1>5, SettingsKnown DEF OverridesStand
<1>8. \A g \in OwnFiles \ OwnFiles : Layers(new, g) = Layers(settings, g)
  BY <1>2, <1>4, SettingsKnown DEF Layers
<1> QED BY <1>1, <1>2, <1>3, <1>6, <1>7, <1>8, NamingKeeps

LEMMA ArchivingTemplateKeeps ==
  ASSUME ProfileInv, ArchiveTemplate
  PROVE  ProfileInv'
<1> DEFINE new == [settings EXCEPT !.template = 0, !.choosing = {}, !.archived = @ \cup {settings.template}]
<1>0. settings.template \in Profile
  BY SettingsKnown DEF Pendings, Settings, Some, Profile, ArchiveTemplate
<1>1. new \in Settings
  BY <1>0, SettingsKnown DEF Settings
<1>2. /\ new.version = settings.version /\ new.catalog = settings.catalog /\ new.enabled = settings.enabled
      /\ new.conf = settings.conf /\ new.override = settings.override /\ new.assigned = settings.assigned
      /\ new.folder = settings.folder /\ new.inside = settings.inside /\ new.rule = settings.rule
      /\ new.template = 0 /\ new.choosing = {}
  BY SettingsKnown DEF Settings
<1>3. Free(settings.choosing) /\ Rewrites(new, settings.choosing) /\ UNCHANGED underWay /\ asking' \in Pendings /\ Made(settings, asking'.p)
  BY SettingsKnown DEF Change, Unfenced, Free, ArchiveTemplate, Pendings, Made, NoAsk
<1>4. TRUE
  BY SettingsKnown DEF SelectionsFit, Made, Settings, Stands, ArchiveTemplate
<1> HIDE DEF new
<1>5. \A q : Made(new, q) = Made(settings, q) /\ Stands(new, q) = Stands(settings, q)
  BY <1>2 DEF Made, Stands
<1>6. SelectionsFit(new)
  BY <1>2, <1>4, <1>5, SettingsKnown, StandingIsMade DEF SelectionsFit, Made
<1>7. OverridesStand(new)
  BY <1>2, <1>5, SettingsKnown DEF OverridesStand
<1>8. \A g \in OwnFiles \ settings.choosing : Layers(new, g) = Layers(settings, g)
  BY <1>2, <1>4, SettingsKnown DEF Layers
<1> QED BY <1>1, <1>2, <1>3, <1>6, <1>7, <1>8, NamingKeeps

LEMMA ChoosingTemplateKeeps ==
  ASSUME ProfileInv, NEW f \in OwnFiles, ChooseTemplate(f)
  PROVE  ProfileInv'
<1> DEFINE new == [settings EXCEPT !.choosing = IF f \in @ THEN @ \ {f} ELSE @ \cup {f}]
<1>1. new \in Settings
  BY SettingsKnown DEF Settings, ChooseTemplate
<1>2. /\ new.version = settings.version /\ new.catalog = settings.catalog /\ new.enabled = settings.enabled
      /\ new.conf = settings.conf /\ new.override = settings.override /\ new.assigned = settings.assigned
      /\ new.folder = settings.folder /\ new.inside = settings.inside /\ new.template = settings.template
      /\ new.rule = settings.rule /\ new.choosing = (IF f \in settings.choosing THEN settings.choosing \ {f} ELSE settings.choosing \cup {f})
  BY SettingsKnown DEF Settings
<1>3. Free({f}) /\ Rewrites(new, {f}) /\ UNCHANGED underWay /\ asking' \in Pendings /\ Made(settings, asking'.p)
  BY SettingsKnown DEF Change, Unfenced, Free, ChooseTemplate, Pendings, Made, NoAsk
<1>4. settings.template # 0
  BY SettingsKnown DEF SelectionsFit, Made, Settings, Stands, ChooseTemplate
<1> HIDE DEF new
<1>5. \A q : Made(new, q) = Made(settings, q) /\ Stands(new, q) = Stands(settings, q)
  BY <1>2 DEF Made, Stands
<1>6. SelectionsFit(new)
  BY <1>2, <1>4, <1>5, SettingsKnown, StandingIsMade DEF SelectionsFit, Made
<1>7. OverridesStand(new)
  BY <1>2, <1>5, SettingsKnown DEF OverridesStand
<1>8. \A g \in OwnFiles \ {f} : Layers(new, g) = Layers(settings, g)
  BY <1>2, <1>4, SettingsKnown DEF Layers
<1> QED BY <1>1, <1>2, <1>3, <1>6, <1>7, <1>8, NamingKeeps

LEMMA SavingRuleKeeps ==
  ASSUME ProfileInv, SavesRule
  PROVE  ProfileInv'
<1> DEFINE new == [settings EXCEPT !.rule = asking.p]
<1>0. asking.p \in Some
  BY SettingsKnown DEF Pendings, Settings, Some, Profile, SavesRule, Proceeds
<1>1. new \in Settings
  BY <1>0, SettingsKnown DEF Settings
<1>2. /\ new.version = settings.version /\ new.catalog = settings.catalog /\ new.enabled = settings.enabled
      /\ new.conf = settings.conf /\ new.override = settings.override /\ new.assigned = settings.assigned
      /\ new.folder = settings.folder /\ new.inside = settings.inside /\ new.template = settings.template
      /\ new.choosing = settings.choosing /\ new.rule = asking.p
  BY SettingsKnown DEF Settings
<1>3. Free({}) /\ Rewrites(new, {}) /\ UNCHANGED underWay /\ asking' \in Pendings /\ Made(settings, asking'.p)
  BY SettingsKnown DEF Change, Unfenced, Free, SavesRule, Proceeds, Pendings, Made, NoAsk
<1>4. Made(settings, asking.p)
  BY SettingsKnown DEF SelectionsFit, Made, Settings, Stands, SavesRule, Proceeds
<1> HIDE DEF new
<1>5. \A q : Made(new, q) = Made(settings, q) /\ Stands(new, q) = Stands(settings, q)
  BY <1>2 DEF Made, Stands
<1>6. SelectionsFit(new)
  BY <1>2, <1>4, <1>5, SettingsKnown, StandingIsMade DEF SelectionsFit, Made
<1>7. OverridesStand(new)
  BY <1>2, <1>5, SettingsKnown DEF OverridesStand
<1>8. \A g \in OwnFiles \ {} : Layers(new, g) = Layers(settings, g)
  BY <1>2, <1>4, SettingsKnown DEF Layers
<1> QED BY <1>1, <1>2, <1>3, <1>6, <1>7, <1>8, NamingKeeps

LEMMA DeletingRuleKeeps ==
  ASSUME ProfileInv, DeleteRule
  PROVE  ProfileInv'
<1> DEFINE new == [settings EXCEPT !.rule = 0]
<1>1. new \in Settings
  BY SettingsKnown DEF Settings, DeleteRule
<1>2. /\ new.version = settings.version /\ new.catalog = settings.catalog /\ new.enabled = settings.enabled
      /\ new.conf = settings.conf /\ new.override = settings.override /\ new.assigned = settings.assigned
      /\ new.folder = settings.folder /\ new.inside = settings.inside /\ new.template = settings.template
      /\ new.choosing = settings.choosing /\ new.rule = 0
  BY SettingsKnown DEF Settings
<1>3. Free({}) /\ Rewrites(new, {}) /\ UNCHANGED underWay /\ asking' \in Pendings /\ Made(settings, asking'.p)
  BY SettingsKnown DEF Change, Unfenced, Free, DeleteRule, Pendings, Made, NoAsk
<1>4. TRUE
  BY SettingsKnown DEF SelectionsFit, Made, Settings, Stands, DeleteRule
<1> HIDE DEF new
<1>5. \A q : Made(new, q) = Made(settings, q) /\ Stands(new, q) = Stands(settings, q)
  BY <1>2 DEF Made, Stands
<1>6. SelectionsFit(new)
  BY <1>2, <1>4, <1>5, SettingsKnown, StandingIsMade DEF SelectionsFit, Made
<1>7. OverridesStand(new)
  BY <1>2, <1>5, SettingsKnown DEF OverridesStand
<1>8. \A g \in OwnFiles \ {} : Layers(new, g) = Layers(settings, g)
  BY <1>2, <1>4, SettingsKnown DEF Layers
<1> QED BY <1>1, <1>2, <1>3, <1>6, <1>7, <1>8, NamingKeeps

LEMMA RunsOnTyped ==
  ASSUME NEW s \in Settings, NEW f \in File
  PROVE  RunsOn(s, f) \in Space \cup {NoSpace}
<1> SUFFICES ASSUME RunsOn(s, f) # NoSpace PROVE RunsOn(s, f) \in Space
  OBVIOUS
<1> DEFINE p == Chosen(s, f)
<1>1. /\ Default(s) # {} /\ RunsOn(s, f) = <<s.version[p].model, s.conf[s.version[p].model]>>
  BY DEF RunsOn
<1>2. p \in Profile
  <2>1. p \in Default(s) => p \in Profile
    BY DEF Default
  <2>2. ASSUME NEW i \in 1 .. 4, Layers(s, f)[i] # 0, p = Layers(s, f)[i] PROVE p \in Profile
    BY <2>2, LayersTyped DEF Some, Profile
  <2> QED BY <2>1, <2>2, <1>1, ChosenIs
<1> HIDE DEF p
<1>3. s.version[p].model \in Model
  BY <1>2 DEF Settings, Version
<1>4. s.conf[s.version[p].model] \in {"local", "cloud"}
  BY <1>3 DEF Settings
<1> QED BY <1>1, <1>3, <1>4 DEF Space

\* A rule that fires within a cycle makes the cycle resolve again.
LEMMA RuleFiresKeeps ==
  ASSUME ProfileInv, NEW f \in OwnFiles, RuleFires(f)
  PROVE  ProfileInv'
<1> DEFINE new == [settings EXCEPT !.assigned[f] = settings.rule]
<1>0. f \in File /\ settings.rule \in Some
  BY SettingsKnown DEF Settings
<1>1. new \in Settings
  BY <1>0, SettingsKnown DEF Settings
<1>2. /\ new.version = settings.version /\ new.catalog = settings.catalog /\ new.enabled = settings.enabled
      /\ new.conf = settings.conf /\ new.override = settings.override /\ new.folder = settings.folder
      /\ new.inside = settings.inside /\ new.template = settings.template
      /\ new.choosing = settings.choosing /\ new.rule = settings.rule
      /\ new.assigned = [settings.assigned EXCEPT ![f] = settings.rule]
  BY SettingsKnown DEF Settings
<1>3. settings.assigned \in [File -> Some]
  BY SettingsKnown DEF Settings
<1>4. /\ Rewrites(new, {f}) /\ UNCHANGED asking
      /\ underWay' = IF underWay[f] = NoWork THEN underWay
                     ELSE [underWay EXCEPT ![f] = IF RunsOn(new, f) = NoSpace THEN NoWork
                                                  ELSE [by |-> "cycle", space |-> RunsOn(new, f)]]
  BY DEF RuleFires
<1> HIDE DEF new
<1>5. \A q : Made(new, q) = Made(settings, q) /\ Stands(new, q) = Stands(settings, q)
  BY <1>2 DEF Made, Stands
<1>6. \A g \in File : new.assigned[g] = IF g = f THEN settings.rule ELSE settings.assigned[g]
  BY <1>2, <1>3
<1>7. SettingsFit(new)
  <2>1. SelectionsFit(new)
    BY <1>2, <1>5, <1>6, SettingsKnown DEF SelectionsFit, Made
  <2>2. OverridesStand(new) /\ ModelsStand(new)
    BY <1>2, <1>5, SettingsKnown DEF OverridesStand, ModelsStand
  <2>3. Default(new) = Default(settings)
    BY <1>2, <1>5 DEF Default
  <2> QED BY <2>1, <2>2, <2>3, SettingsKnown DEF SettingsFit, OneDefault
<1>8. \A g \in OwnFiles \ {f} : RunsOn(new, g) = RunsOn(settings, g)
  <2> SUFFICES ASSUME NEW g \in OwnFiles \ {f} PROVE RunsOn(new, g) = RunsOn(settings, g)
    OBVIOUS
  <2>1. Layers(new, g) = Layers(settings, g)
    BY <1>2, <1>6, SettingsKnown DEF Layers
  <2> QED BY <1>2, <2>1, SameLayers
<1>9. RunsOn(new, f) \in Space \cup {NoSpace}
  BY <1>0, <1>1, RunsOnTyped
<1>10. underWay' \in [File -> WorkInHand]
  BY <1>0, <1>4, <1>9, SettingsKnown DEF WorkInHand, NoWork
<1>11. ASSUME NEW g \in OwnFiles, underWay'[g] # NoWork
       PROVE  RunsOn(new, g) = underWay'[g].space
  <2>1. CASE g = f
    BY <1>0, <1>4, <1>11, <2>1, SettingsKnown
  <2>2. CASE g # f
    <3>1. underWay'[g] = underWay[g]
      BY <1>0, <1>4, <2>2, SettingsKnown
    <3> QED BY <3>1, <1>8, <1>11, <2>2 DEF ProfileInv, WorkRunsAsResolved
  <2> QED BY <2>1, <2>2
<1>12. asking' \in Pendings /\ Made(new, asking'.p)
  BY <1>4, <1>5, SettingsKnown
<1> QED BY <1>1, <1>4, <1>7, <1>8, <1>10, <1>11, <1>12, ChangeKeeps

\* Everything of the owner's workspace is free.
LEMMA LibraryKeeps ==
  ASSUME ProfileInv, NEW new \in Settings, NEW F, Free(OwnFiles), Rewrites(new, F), UNCHANGED underWay,
         asking' \in Pendings, Made(new, asking'.p), SettingsFit(new),
         \A f \in OwnFiles \ F : Weakens(settings, new, f)
  PROVE  ProfileInv'
<1>1. underWay' \in [File -> WorkInHand] BY SettingsKnown
<1>2. \A f \in OwnFiles : underWay'[f] # NoWork => RunsOn(new, f) = underWay'[f].space
  BY DEF Free
<1>3. \A f \in OwnFiles \ F : RunsOn(new, f) \in {RunsOn(settings, f), NoSpace}
  BY WeakerRunsOrFails, LayersTyped, SettingsKnown
<1> QED BY <1>1, <1>2, <1>3, ChangeKeeps

LEMMA ModelSwitchKeeps ==
  ASSUME ProfileInv, NEW m \in Model, SwitchModel(m) \/ SaveConnection(m)
  PROVE  ProfileInv'
<1>1. PICK new \in Settings :
        /\ Change(OwnFiles, new)
        /\ new.version = settings.version /\ new.catalog = settings.catalog
        /\ new.override = settings.override /\ new.assigned = settings.assigned
        /\ new.folder = settings.folder /\ new.template = settings.template
        /\ new.choosing = settings.choosing /\ new.rule = settings.rule
  <2>1. CASE SwitchModel(m)
    <3> DEFINE new == [settings EXCEPT !.enabled = IF m \in @ THEN @ \ {m} ELSE @ \cup {m}]
    <3>1. new \in Settings BY SettingsKnown DEF Settings
    <3>2. Change(OwnFiles, new) BY <2>1 DEF SwitchModel
    <3> WITNESS new \in Settings
    <3> QED BY <3>1, <3>2, SettingsKnown DEF Settings
  <2>2. CASE SaveConnection(m)
    <3> DEFINE new == [settings EXCEPT !.conf[m] = IF @ = "local" THEN "cloud" ELSE "local"]
    <3>1. new \in Settings BY SettingsKnown DEF Settings
    <3>2. Change(OwnFiles, new) BY <2>2 DEF SaveConnection
    <3> WITNESS new \in Settings
    <3> QED BY <3>1, <3>2, SettingsKnown DEF Settings
  <2> QED BY <2>1, <2>2
<1>2. \A q : Made(new, q) = Made(settings, q) /\ Stands(new, q) = Stands(settings, q)
  BY <1>1 DEF Made, Stands
<1>3. SettingsFit(new)
  <2>1. SelectionsFit(new)
    BY <1>1, <1>2, SettingsKnown DEF SelectionsFit
  <2>2. OverridesStand(new) /\ ModelsStand(new)
    BY <1>1, <1>2, SettingsKnown DEF OverridesStand, ModelsStand
  <2>3. Default(new) = Default(settings)
    BY <1>1, <1>2 DEF Default
  <2> QED BY <2>1, <2>2, <2>3, SettingsKnown DEF SettingsFit, OneDefault
<1>4. /\ Free(OwnFiles) /\ Rewrites(new, OwnFiles) /\ UNCHANGED underWay
      /\ asking' \in Pendings /\ Made(new, asking'.p)
  BY <1>1, <1>2, SettingsKnown DEF Change
<1> QED BY <1>3, <1>4, FencedKeeps

LEMMA VersionChanges ==
  ASSUME NEW v \in Version, NEW d \in BOOLEAN
  PROVE  LET w == [v EXCEPT !.default = d]
         IN  /\ w \in Version /\ w.row = v.row /\ w.model = v.model /\ w.private = v.private
             /\ w.default = d
  BY DEF Version

LEMMA LayersMade ==
  ASSUME ProfileInv, NEW f \in OwnFiles, NEW i \in 1 .. 4
  PROVE  Made(settings, Layers(settings, f)[i])
<1>1. i = 1 \/ i = 2 \/ i = 3 \/ i = 4 OBVIOUS
<1>2. /\ Made(settings, settings.override[f]) /\ Made(settings, settings.assigned[f])
      /\ Made(settings, settings.template) /\ Made(settings, settings.folder) /\ Made(settings, 0)
  BY SettingsKnown DEF SelectionsFit, Made
<1> HIDE DEF Made
<1> QED BY <1>1, <1>2 DEF Layers

\* A new version, which nothing names yet.
LEMMA NewProfileKeeps ==
  ASSUME ProfileInv, NEW m \in Model, NEW private \in BOOLEAN, NEW default \in BOOLEAN,
         NewProfile(m, private, default)
  PROVE  ProfileInv'
<1> DEFINE old == settings.version
           made == [row |-> "live", model |-> m, private |-> private, default |-> default]
           with(p) == [settings EXCEPT !.version = [q \in Profile |->
                         IF q = p THEN made ELSE [old[q] EXCEPT !.default = @ /\ ~default]]]
<1>1. PICK p \in Profile :
        /\ old[p].row = "none" /\ Admits(with(p), p)
        /\ IF default THEN Change(OwnFiles, with(p)) ELSE Unfenced(with(p)) /\ UNCHANGED asking
  BY DEF NewProfile
<1> DEFINE new == with(p)
<1>2. made \in Version /\ old \in [Profile -> Version]
  BY SettingsKnown DEF Version, Settings
<1>3. \A q \in Profile : [old[q] EXCEPT !.default = @ /\ ~default] = [old[q] EXCEPT !.default = old[q].default /\ ~default]
  BY <1>2 DEF Version
<1>4. \A q \in Profile \ {p} :
        LET w == [old[q] EXCEPT !.default = @ /\ ~default]
        IN  /\ w \in Version /\ w.row = old[q].row /\ w.model = old[q].model /\ w.private = old[q].private
            /\ w.default = (old[q].default /\ ~default)
  <2> SUFFICES ASSUME NEW q \in Profile \ {p}
               PROVE LET w == [old[q] EXCEPT !.default = old[q].default /\ ~default]
        IN  /\ w \in Version /\ w.row = old[q].row /\ w.model = old[q].model /\ w.private = old[q].private
            /\ w.default = (old[q].default /\ ~default)
    BY <1>3
  <2>1. old[q] \in Version BY <1>2
  <2>2. (old[q].default /\ ~default) \in BOOLEAN OBVIOUS
  <2> HIDE DEF old
  <2> QED BY <2>1, <2>2, VersionChanges
<1>5. /\ new.catalog = settings.catalog
      /\ new.enabled = settings.enabled /\ new.conf = settings.conf
      /\ new.override = settings.override /\ new.assigned = settings.assigned /\ new.folder = settings.folder
      /\ new.inside = settings.inside /\ new.template = settings.template
      /\ new.choosing = settings.choosing /\ new.rule = settings.rule
      /\ new.version = [q \in Profile |-> IF q = p THEN made ELSE [old[q] EXCEPT !.default = @ /\ ~default]]
  BY SettingsKnown DEF Settings
<1>6. new.version[p] = made /\ new.version \in [Profile -> Version]
  BY <1>2, <1>4, <1>5
<1>7. \A q \in Profile \ {p} :
        /\ new.version[q].row = old[q].row /\ new.version[q].model = old[q].model
        /\ new.version[q].private = old[q].private
        /\ new.version[q].default <=> old[q].default /\ ~default
  <2> SUFFICES ASSUME NEW q \in Profile \ {p}
               PROVE /\ new.version[q].row = old[q].row /\ new.version[q].model = old[q].model
                     /\ new.version[q].private = old[q].private
                     /\ new.version[q].default <=> old[q].default /\ ~default
    OBVIOUS
  <2> DEFINE w == [old[q] EXCEPT !.default = @ /\ ~default]
  <2>1. new.version[q] = w
    BY <1>5
  <2>2. /\ w.row = old[q].row /\ w.model = old[q].model /\ w.private = old[q].private
        /\ w.default = (old[q].default /\ ~default)
    BY <1>4
  <2> HIDE DEF w, new, old
  <2> QED BY <2>1, <2>2
<1>8. new \in Settings
  <2> DEFINE ver == new.version
  <2>1. new = [settings EXCEPT !.version = ver] BY <1>5
  <2>2. ver \in [Profile -> Version] BY <1>6
  <2> HIDE DEF ver, new
  <2> QED BY <2>1, <2>2, SettingsKnown DEF Settings
<1>9. Admits(new, p) /\ Rewrites(new, IF default THEN OwnFiles ELSE {}) /\ UNCHANGED <<underWay, asking>>
      /\ (default => Free(OwnFiles))
  BY <1>1 DEF Change, Unfenced
<1> HIDE DEF new
<1>10. \A q \in Some : Made(settings, q) => Made(new, q)
  BY <1>6, <1>7, <1>1 DEF Made, Some, Profile
<1>11. \A q \in Profile \ {p} : Stands(new, q) = Stands(settings, q)
  BY <1>7 DEF Stands
<1>12. Stands(new, p) /\ ~Stands(settings, p)
  BY <1>1, <1>6 DEF Stands, Profile
<1>13. SettingsFit(new)
  <2>1. SelectionsFit(new)
    BY <1>5, <1>10, SettingsKnown DEF SelectionsFit, Settings
  <2>2. OneDefault(new)
    <3>1. CASE default
      BY <1>7, <3>1 DEF OneDefault, Default
    <3>2. CASE ~default
      <4>1. Default(new) \subseteq Default(settings)
        BY <1>6, <1>7, <1>11, <3>2 DEF Default
      <4> QED BY <4>1, SettingsKnown DEF OneDefault
    <3> QED BY <3>1, <3>2
  <2>3. OverridesStand(new)
    <3> SUFFICES ASSUME NEW f \in OwnFiles, settings.override[f] # 0 PROVE Stands(new, settings.override[f])
      BY <1>5 DEF OverridesStand
    <3>1. Stands(settings, settings.override[f]) /\ settings.override[f] \in Profile
      BY SettingsKnown DEF OverridesStand, Settings, Some, Profile
    <3> QED BY <3>1, <1>11, <1>12
  <2>4. ModelsStand(new)
    BY <1>5, <1>6, <1>7, <1>9, <1>11, SettingsKnown DEF ModelsStand, Admits
  <2> QED BY <2>1, <2>2, <2>3, <2>4 DEF SettingsFit
<1>14. asking' \in Pendings /\ Made(new, asking'.p)
  BY <1>9, <1>10, SettingsKnown DEF Pendings
<1>15. CASE default
  BY <1>8, <1>9, <1>13, <1>14, <1>15, FencedKeeps
<1>16. CASE ~default
  <2>1. \A f \in OwnFiles : RunsOn(new, f) = RunsOn(settings, f)
    <3> SUFFICES ASSUME NEW f \in OwnFiles PROVE RunsOn(new, f) = RunsOn(settings, f)
      OBVIOUS
    <3>1. Layers(new, f) = Layers(settings, f)
      BY <1>5 DEF Layers
    <3>2. Default(new) = Default(settings)
      <4>1. \A q \in Profile \ {p} : q \in Default(new) <=> q \in Default(settings)
        BY <1>7, <1>11, <1>16 DEF Default
      <4>2. p \notin Default(new) /\ p \notin Default(settings)
        BY <1>6, <1>12, <1>16 DEF Default
      <4>3. Default(new) \subseteq Profile /\ Default(settings) \subseteq Profile
        BY DEF Default
      <4> QED BY <4>1, <4>2, <4>3
    <3>3. \A i \in 1 .. 4 : Layers(settings, f)[i] # p
      BY LayersMade, <1>1 DEF Made, Profile
    <3>4. p \notin Default(settings)
      BY <1>12 DEF Default
    <3>5. \A q \in Profile \ {p} : Admits(new, q) = Admits(settings, q)
      BY <1>5, <1>7 DEF Admits
    <3>6. Weakens(settings, new, f)
      BY <3>1, <3>2, <3>3, <3>4, <3>5, <1>5, <1>7, <1>11 DEF Weakens
    <3>7. Weakens(new, settings, f)
      BY <3>1, <3>2, <3>3, <3>4, <3>5, <1>5, <1>7, <1>11 DEF Weakens
    <3>8. \A i \in 1 .. 4 : Layers(settings, f)[i] \in Some /\ Layers(new, f)[i] \in Some
      BY <3>1, LayersTyped, SettingsKnown
    <3>9. /\ RunsOn(new, f) \in {RunsOn(settings, f), NoSpace}
          /\ RunsOn(settings, f) \in {RunsOn(new, f), NoSpace}
      BY <3>6, <3>7, <3>8, WeakerRunsOrFails
    <3> QED BY <3>9
  <2>2. Free({}) /\ Rewrites(new, {}) /\ UNCHANGED underWay
    BY <1>9, <1>16 DEF Free
  <2> QED BY <2>1, <2>2, <1>8, <1>13, <1>14, FencedKeeps
<1> QED BY <1>15, <1>16

LEMMA MakeDefaultKeeps ==
  ASSUME ProfileInv, NEW p \in Profile, MakeDefault(p)
  PROVE  ProfileInv'
<1> DEFINE old == settings.version
           ver == [q \in Profile |-> [old[q] EXCEPT !.default = q = p]]
           new == [settings EXCEPT !.version = ver]
<1>1. old \in [Profile -> Version]
  BY SettingsKnown DEF Settings
<1>2. Change(OwnFiles, new)
  BY DEF MakeDefault
<1> HIDE DEF old
<1>3. \A q \in Profile :
        /\ ver[q] \in Version /\ ver[q].row = old[q].row /\ ver[q].model = old[q].model
        /\ ver[q].default = (q = p)
  <2> SUFFICES ASSUME NEW q \in Profile
               PROVE  LET w == [old[q] EXCEPT !.default = q = p]
                      IN  w \in Version /\ w.row = old[q].row /\ w.model = old[q].model /\ w.default = (q = p)
    OBVIOUS
  <2>1. old[q] \in Version /\ (q = p) \in BOOLEAN BY <1>1
  <2> QED BY <2>1, VersionChanges
<1>4. ver \in [Profile -> Version]
  BY <1>3
<1> HIDE DEF ver
<1>5. new \in Settings
  BY <1>4, SettingsKnown DEF Settings
<1>6. /\ new.version = ver /\ new.catalog = settings.catalog
      /\ new.override = settings.override /\ new.assigned = settings.assigned /\ new.folder = settings.folder
      /\ new.template = settings.template /\ new.choosing = settings.choosing /\ new.rule = settings.rule
  BY SettingsKnown DEF Settings
<1> HIDE DEF new
<1>7. \A q \in Some : Made(settings, q) => Made(new, q)
  BY <1>3, <1>6 DEF Made, Some, Profile, old
<1>8. \A q \in Profile : Stands(new, q) = Stands(settings, q)
  BY <1>3, <1>6 DEF Stands, old
<1>9. SettingsFit(new)
  <2>1. SelectionsFit(new)
    BY <1>6, <1>7, SettingsKnown DEF SelectionsFit, Settings
  <2>2. OneDefault(new)
    BY <1>3, <1>6 DEF OneDefault, Default
  <2>3. OverridesStand(new)
    BY <1>6, <1>8, SettingsKnown DEF OverridesStand, Settings, Some, Profile
  <2>4. ModelsStand(new)
    BY <1>3, <1>6, <1>8, SettingsKnown DEF ModelsStand, old
  <2> QED BY <2>1, <2>2, <2>3, <2>4 DEF SettingsFit
<1>10. /\ Free(OwnFiles) /\ Rewrites(new, OwnFiles) /\ UNCHANGED underWay
       /\ asking' \in Pendings /\ Made(new, asking'.p)
  BY <1>2, <1>7, SettingsKnown DEF Change, Pendings
<1> QED BY <1>5, <1>9, <1>10, FencedKeeps

\* The profile that goes is named nowhere in the owner's workspace; were it the default by
\* now, nothing would resolve that has no layer of its own.
LEMMA DeletesProfileKeeps ==
  ASSUME ProfileInv, DeletesProfile
  PROVE  ProfileInv'
<1> DEFINE d == asking.p
           left == [settings.version[d] EXCEPT !.row = "gone", !.default = FALSE]
           ver == [settings.version EXCEPT ![d] = left]
           new == [settings EXCEPT !.version = ver]
<1>1. /\ asking' = NoAsk /\ Free(OwnFiles) /\ d \notin Uses(OwnFiles) /\ Stands(settings, d)
      /\ Rewrites([settings EXCEPT !.version[d].row = "gone", !.version[d].default = FALSE], {})
      /\ UNCHANGED underWay
  BY DEF DeletesProfile, Proceeds, Unfenced
<1>2. d \in Profile
  <2>1. d \in Some \ {0} BY <1>1, SettingsKnown DEF Pendings, Stands
  <2> QED BY <2>1 DEF Some, Profile
<1> HIDE DEF d
<1>3. settings.version \in [Profile -> Version]
  BY SettingsKnown DEF Settings
<1>4. left \in Version /\ left.row = "gone" /\ left.model = settings.version[d].model
  BY <1>2, <1>3 DEF Version
<1>5. [settings EXCEPT !.version[d].row = "gone", !.version[d].default = FALSE] = new
  BY <1>2, <1>3, SettingsKnown DEF Settings, Version
<1> HIDE DEF left
<1>6. /\ ver \in [Profile -> Version] /\ ver[d] = left
      /\ \A q \in Profile \ {d} : ver[q] = settings.version[q]
  BY <1>2, <1>3, <1>4
<1> HIDE DEF ver
<1>7. new \in Settings
  BY <1>6, SettingsKnown DEF Settings
<1>8. /\ new.version = ver /\ new.catalog = settings.catalog
      /\ new.enabled = settings.enabled /\ new.conf = settings.conf
      /\ new.override = settings.override /\ new.assigned = settings.assigned /\ new.folder = settings.folder
      /\ new.inside = settings.inside /\ new.template = settings.template
      /\ new.choosing = settings.choosing /\ new.rule = settings.rule
  BY SettingsKnown DEF Settings
<1> HIDE DEF new
<1>9. \A q \in Some : Made(settings, q) => Made(new, q)
  BY <1>4, <1>6, <1>8 DEF Made, Some, Profile
<1>10. /\ ~Stands(new, d)
       /\ \A q \in Profile \ {d} : Stands(new, q) = Stands(settings, q)
  BY <1>2, <1>4, <1>6, <1>8 DEF Stands
<1>11. Default(new) = Default(settings) \ {d}
  BY <1>6, <1>8, <1>10 DEF Default
<1>12. SettingsFit(new)
  <2>1. SelectionsFit(new)
    BY <1>8, <1>9, SettingsKnown DEF SelectionsFit, Settings
  <2>2. OneDefault(new)
    BY <1>11, SettingsKnown DEF OneDefault
  <2>3. OverridesStand(new)
    <3> SUFFICES ASSUME NEW f \in OwnFiles, settings.override[f] # 0 PROVE Stands(new, settings.override[f])
      BY <1>8 DEF OverridesStand
    <3>1. Stands(settings, settings.override[f]) /\ settings.override[f] \in Profile
      BY SettingsKnown DEF OverridesStand, Settings, Some, Profile
    <3>2. settings.override[f] # d
      BY <1>1 DEF Uses
    <3> QED BY <3>1, <3>2, <1>10
  <2>4. ModelsStand(new)
    BY <1>6, <1>8, <1>10, SettingsKnown DEF ModelsStand
  <2> QED BY <2>1, <2>2, <2>3, <2>4 DEF SettingsFit
<1>13. asking' \in Pendings /\ Made(new, asking'.p)
  BY <1>1, SettingsKnown DEF NoAsk, Pendings, Made
<1>14. ASSUME NEW f \in OwnFiles PROVE Weakens(settings, new, f)
  <2>1. Layers(new, f) = Layers(settings, f)
    BY <1>8 DEF Layers
  <2>2. Default(new) \in {Default(settings), {}}
    BY <1>11, SettingsKnown DEF OneDefault
  <2>3. \A q \in Profile \ {d} : Admits(new, q) = Admits(settings, q)
    BY <1>6, <1>8 DEF Admits
  <2>4. \A q \in Profile : Stands(new, q) =>
          /\ Stands(settings, q) /\ (Admits(new, q) => Admits(settings, q))
          /\ new.version[q].model = settings.version[q].model
          /\ new.conf[new.version[q].model] = settings.conf[settings.version[q].model]
    BY <1>6, <1>8, <1>10, <2>3
  <2> QED BY <2>1, <2>2, <2>4 DEF Weakens
<1> QED BY <1>1, <1>5, <1>7, <1>12, <1>13, <1>14, LibraryKeeps

LEMMA DeleteModelKeeps ==
  ASSUME ProfileInv, NEW m \in Model, DeleteModel(m)
  PROVE  ProfileInv'
<1> DEFINE new == [settings EXCEPT !.catalog = @ \ {m}]
<1>1. /\ Free(OwnFiles) /\ Rewrites(new, {}) /\ UNCHANGED <<underWay, asking>>
      /\ \A p \in Profile : Stands(settings, p) => settings.version[p].model # m
  BY DEF DeleteModel, Unfenced
<1>2. new \in Settings
  BY SettingsKnown DEF Settings
<1>3. /\ new.version = settings.version /\ new.catalog = settings.catalog \ {m}
      /\ new.enabled = settings.enabled /\ new.conf = settings.conf
      /\ new.override = settings.override /\ new.assigned = settings.assigned /\ new.folder = settings.folder
      /\ new.inside = settings.inside /\ new.template = settings.template
      /\ new.choosing = settings.choosing /\ new.rule = settings.rule
  BY SettingsKnown DEF Settings
<1> HIDE DEF new
<1>4. \A q : Made(new, q) = Made(settings, q) /\ Stands(new, q) = Stands(settings, q)
  BY <1>3 DEF Made, Stands
<1>5. Default(new) = Default(settings)
  BY <1>3, <1>4 DEF Default
<1>6. SettingsFit(new)
  <2>1. SelectionsFit(new)
    BY <1>3, <1>4, SettingsKnown DEF SelectionsFit
  <2>2. OverridesStand(new) /\ ModelsStand(new)
    BY <1>1, <1>3, <1>4, SettingsKnown DEF OverridesStand, ModelsStand
  <2> QED BY <2>1, <2>2, <1>5, SettingsKnown DEF SettingsFit, OneDefault
<1>7. ASSUME NEW f \in OwnFiles PROVE Weakens(settings, new, f)
  <2>1. Layers(new, f) = Layers(settings, f)
    BY <1>3 DEF Layers
  <2>2. \A q : Admits(new, q) => Admits(settings, q)
    BY <1>3 DEF Admits
  <2> QED BY <2>1, <2>2, <1>3, <1>4, <1>5 DEF Weakens
<1>8. asking' \in Pendings /\ Made(new, asking'.p)
  BY <1>1, <1>4, SettingsKnown
<1> QED BY <1>1, <1>2, <1>6, <1>7, <1>8, LibraryKeeps

\* A model that was not in the catalogue is selected by nobody.
LEMMA NewModelKeeps ==
  ASSUME ProfileInv, NEW m \in Model, NewModel(m)
  PROVE  ProfileInv'
<1> DEFINE new == [settings EXCEPT !.catalog = @ \cup {m}, !.enabled = @ \cup {m}]
<1>1. m \notin settings.catalog /\ Rewrites(new, {}) /\ UNCHANGED <<underWay, asking>>
  BY DEF NewModel, Unfenced
<1>2. new \in Settings
  BY SettingsKnown DEF Settings
<1>3. /\ new.version = settings.version /\ new.catalog = settings.catalog \cup {m}
      /\ new.enabled = settings.enabled \cup {m} /\ new.conf = settings.conf
      /\ new.override = settings.override /\ new.assigned = settings.assigned /\ new.folder = settings.folder
      /\ new.inside = settings.inside /\ new.template = settings.template
      /\ new.choosing = settings.choosing /\ new.rule = settings.rule
  BY SettingsKnown DEF Settings
<1> HIDE DEF new
<1>4. \A q : Made(new, q) = Made(settings, q) /\ Stands(new, q) = Stands(settings, q)
  BY <1>3 DEF Made, Stands
<1>5. Default(new) = Default(settings)
  BY <1>3, <1>4 DEF Default
<1>6. SettingsFit(new)
  <2>1. SelectionsFit(new)
    BY <1>3, <1>4, SettingsKnown DEF SelectionsFit
  <2>2. OverridesStand(new) /\ ModelsStand(new)
    BY <1>3, <1>4, SettingsKnown DEF OverridesStand, ModelsStand
  <2> QED BY <2>1, <2>2, <1>5, SettingsKnown DEF SettingsFit, OneDefault
<1>7. ASSUME NEW f \in OwnFiles PROVE RunsOn(new, f) = RunsOn(settings, f)
  <2>1. Layers(new, f) = Layers(settings, f)
    BY <1>3 DEF Layers
  <2>2. \A q \in Profile : Stands(settings, q) => (Admits(new, q) <=> Admits(settings, q))
    <3> SUFFICES ASSUME NEW q \in Profile, Stands(settings, q) PROVE Admits(new, q) <=> Admits(settings, q)
      OBVIOUS
    <3>1. settings.version[q].model # m
      BY <1>1, SettingsKnown DEF ModelsStand
    <3> QED BY <3>1, <1>3 DEF Admits
  <2>3. Weakens(settings, new, f) /\ Weakens(new, settings, f)
    BY <2>1, <2>2, <1>3, <1>4, <1>5 DEF Weakens
  <2>4. \A i \in 1 .. 4 : Layers(settings, f)[i] \in Some /\ Layers(new, f)[i] \in Some
    BY <2>1, LayersTyped, SettingsKnown
  <2>5. /\ RunsOn(new, f) \in {RunsOn(settings, f), NoSpace}
        /\ RunsOn(settings, f) \in {RunsOn(new, f), NoSpace}
    BY <2>3, <2>4, WeakerRunsOrFails
  <2> QED BY <2>5
<1>8. asking' \in Pendings /\ Made(new, asking'.p) /\ Free({})
  BY <1>1, <1>4, SettingsKnown DEF Free
<1> QED BY <1>1, <1>2, <1>6, <1>7, <1>8, FencedKeeps

LEMMA WorkKeeps ==
  ASSUME ProfileInv, Works
  PROVE  ProfileInv'
<1>1. PICK f \in File : (\E by \in {"cycle", "call"} : Begins(f, by)) \/ CycleEnds(f) \/ WorkFails(f)
  BY DEF Works
<1>2. CASE \E by \in {"cycle", "call"} : Begins(f, by)
  <2>1. PICK by \in {"cycle", "call"} : Begins(f, by)
    BY <1>2
  <2>2. /\ underWay' = [underWay EXCEPT ![f] = [by |-> by, space |-> RunsOn(settings, f)]]
        /\ UNCHANGED <<settings, chunks, asking, edits>>
    BY <2>1 DEF Begins
  <2>3. RunsOn(settings, f) \in Space \cup {NoSpace}
    BY SettingsKnown, RunsOnTyped
  <2>4. ProfileTypeOK'
    BY <2>2, <2>3 DEF ProfileInv, ProfileTypeOK
  <2>5. WorkRunsAsResolved'
    BY <2>2, SettingsKnown DEF ProfileInv, WorkRunsAsResolved
  <2> QED BY <2>2, <2>4, <2>5 DEF ProfileInv, VectorsFollowProfile
<1>3. CASE CycleEnds(f)
  <2>1. /\ chunks' = [chunks EXCEPT ![f] = underWay[f].space]
        /\ underWay' = [underWay EXCEPT ![f] = NoWork]
        /\ underWay[f].by = "cycle" /\ UNCHANGED <<settings, asking, edits>>
    BY <1>3 DEF CycleEnds
  <2>2. underWay[f].space \in Space \cup {NoSpace} /\ NoWork \in WorkInHand /\ underWay[f] # NoWork
    BY <2>1, SettingsKnown DEF WorkInHand, NoWork
  <2>3. ProfileTypeOK'
    BY <2>1, <2>2, ProfileTypes DEF ProfileInv, ProfileTypeOK, WorkInHand
  <2>4. WorkRunsAsResolved' /\ VectorsFollowProfile'
    <3>1. \A g \in File : /\ chunks'[g] = (IF g = f THEN underWay[f].space ELSE chunks[g])
                         /\ underWay'[g] = (IF g = f THEN NoWork ELSE underWay[g])
      BY <2>1, SettingsKnown, ProfileTypes DEF ProfileInv
    <3> QED BY <2>1, <2>2, <3>1, SettingsKnown DEF ProfileInv, WorkRunsAsResolved, VectorsFollowProfile
  <2> QED BY <2>1, <2>3, <2>4 DEF ProfileInv
<1>4. CASE WorkFails(f)
  <2>1. underWay' = [underWay EXCEPT ![f] = NoWork] /\ UNCHANGED <<settings, chunks, asking, edits>>
    BY <1>4 DEF WorkFails
  <2>2. NoWork \in WorkInHand
    BY DEF WorkInHand, NoWork
  <2>3. ProfileTypeOK'
    BY <2>1, <2>2 DEF ProfileInv, ProfileTypeOK, WorkInHand
  <2>4. WorkRunsAsResolved'
    BY <2>1, SettingsKnown DEF ProfileInv, WorkRunsAsResolved
  <2> QED BY <2>1, <2>3, <2>4 DEF ProfileInv, VectorsFollowProfile
<1> QED BY <1>1, <1>2, <1>3, <1>4

LEMMA AskingKeeps ==
  ASSUME ProfileInv, GivesUp \/ \E p \in Profile, k \in {"delete", "folder", "template", "rule"} : LooksUp(k, p)
  PROVE  ProfileInv'
<1>1. UNCHANGED <<settings, chunks, underWay, edits>> /\ asking' \in Pendings /\ Made(settings, asking'.p)
  <2>1. CASE GivesUp
    BY <2>1, SettingsKnown DEF GivesUp, NoAsk, Pendings, Made
  <2>2. ASSUME NEW p \in Profile, NEW k \in {"delete", "folder", "template", "rule"}, LooksUp(k, p)
        PROVE  UNCHANGED <<settings, chunks, underWay, edits>> /\ asking' \in Pendings /\ Made(settings, asking'.p)
    <3>1. settings.version[p].default \in BOOLEAN /\ p \in Some
      BY SettingsKnown DEF Settings, Version
    <3> QED BY <2>2, <3>1 DEF LooksUp, Pendings, Made, Stands
  <2> QED BY <2>1, <2>2
<1>2. ProfileTypeOK'
  BY <1>1 DEF ProfileInv, ProfileTypeOK, Pendings
<1>3. WorkRunsAsResolved' /\ VectorsFollowProfile'
  BY <1>1 DEF ProfileInv, WorkRunsAsResolved, VectorsFollowProfile
<1> QED BY <1>1, <1>2, <1>3 DEF ProfileInv

LEMMA ProfileBegins ==
  ASSUME ProfileInit
  PROVE  ProfileInv
<1>0. 0 \in Some /\ 1 \in Profile
  BY ProfileConstants DEF Some, Profile
<1>1. PICK m \in Model :
        settings = [version |-> [p \in Profile |-> [row |-> IF p = 1 THEN "live" ELSE "none",
                                                    model |-> m, private |-> FALSE, default |-> p = 1]],
                    catalog |-> Model, enabled |-> Model, conf |-> [x \in Model |-> "local"],
                    override |-> [f \in File |-> 0], assigned |-> [f \in File |-> 0],
                    folder |-> 0, inside |-> {}, template |-> 0, archived |-> {}, choosing |-> {},
                    rule |-> 0]
  BY DEF ProfileInit
<1>2. /\ chunks = [f \in File |-> NoSpace] /\ underWay = [f \in File |-> NoWork]
      /\ asking = NoAsk /\ edits = 0
  BY DEF ProfileInit
<1>3. [p \in Profile |-> [row |-> IF p = 1 THEN "live" ELSE "none",
                          model |-> m, private |-> FALSE, default |-> p = 1]] \in [Profile -> Version]
  BY DEF Version
<1>4. settings \in Settings
  BY <1>0, <1>1, <1>3 DEF Settings
<1>5. ProfileTypeOK
  BY <1>0, <1>2, <1>4, ProfileConstants DEF ProfileTypeOK, Settings, NoWork, NoAsk
<1>6. SettingsFit(settings)
  <2>1. SelectionsFit(settings) /\ OverridesStand(settings)
    BY <1>1, ProfileConstants DEF SelectionsFit, Made, OverridesStand
  <2>2. OneDefault(settings)
    BY <1>1 DEF OneDefault, Default
  <2>3. ModelsStand(settings)
    BY <1>1 DEF ModelsStand
  <2> QED BY <2>1, <2>2, <2>3 DEF SettingsFit
<1>7. Made(settings, asking.p) /\ WorkRunsAsResolved /\ VectorsFollowProfile
  BY <1>2, ProfileConstants DEF Made, NoAsk, WorkRunsAsResolved, VectorsFollowProfile
<1> QED BY <1>5, <1>6, <1>7 DEF ProfileInv

LEMMA ProfileStepKeeps ==
  ASSUME ProfileInv, [ProfileNext]_profileVars
  PROVE  ProfileInv'
<1>1. CASE Works
  BY <1>1, WorkKeeps
<1>2. CASE Owner
  <2>1. ASSUME NEW m \in Model, NEW private \in BOOLEAN, NEW default \in BOOLEAN, NewProfile(m, private, default)
        PROVE  ProfileInv'
    BY <2>1, NewProfileKeeps
  <2>2. ASSUME NEW m \in Model, SwitchModel(m) \/ SaveConnection(m) \/ DeleteModel(m) \/ NewModel(m)
        PROVE  ProfileInv'
    BY <2>2, ModelSwitchKeeps, DeleteModelKeeps, NewModelKeeps
  <2>3. ASSUME NEW p \in Profile, MakeDefault(p) \/ LooksUp("delete", p) PROVE ProfileInv'
    BY <2>3, MakeDefaultKeeps, AskingKeeps
  <2> QED BY <1>2, <2>1, <2>2, <2>3, DeletesProfileKeeps DEF Owner
<1>3. CASE Workspace
  <2>1. ASSUME NEW f \in File, ClearOverride(f) \/ \E p \in Profile : SelectOverride(f, p) PROVE ProfileInv'
    <3>1. CASE ClearOverride(f)
      BY <3>1, OverrideKeeps, SettingsKnown DEF ClearOverride
    <3>2. ASSUME NEW p \in Profile, SelectOverride(f, p) PROVE ProfileInv'
      BY <3>2, OverrideKeeps, SettingsKnown DEF SelectOverride
    <3> QED BY <2>1, <3>1, <3>2
  <2>2. ASSUME NEW f \in OwnFiles, Moves(f) \/ ChooseTemplate(f) \/ RuleFires(f) PROVE ProfileInv'
    BY <2>2, MovingFoldersKeeps, ChoosingTemplateKeeps, RuleFiresKeeps
  <2>3. ASSUME NEW p \in Profile,
               VersionTemplate(p) \/ \E k \in {"folder", "template", "rule"} : LooksUp(k, p)
        PROVE  ProfileInv'
    BY <2>3, VersioningTemplateKeeps, AskingKeeps
  <2> QED BY <1>3, <2>1, <2>2, <2>3, SettingFolderKeeps, DeletingFolderKeeps, CreatingTemplateKeeps,
             ArchivingTemplateKeeps, SavingRuleKeeps, DeletingRuleKeeps DEF Workspace
<1>4. CASE GivesUp
  BY <1>4, AskingKeeps
<1>5. CASE UNCHANGED profileVars
  BY <1>5 DEF profileVars, ProfileInv, ProfileTypeOK, WorkRunsAsResolved, VectorsFollowProfile
<1> QED BY <1>1, <1>2, <1>3, <1>4, <1>5 DEF ProfileNext

LEMMA ProfileInvHolds == ProfileSpec => []ProfileInv
BY ProfileBegins, ProfileStepKeeps, PTL DEF ProfileSpec


LEMMA DefaultsCounted ==
  ASSUME ProfileInv
  PROVE  Cardinality(Default(settings)) <= 1
<1> DEFINE D == Default(settings)
<1>1. \A p, q \in D : p = q
  BY SettingsKnown DEF OneDefault
<1>2. CASE D = {}
  BY <1>2, FS_EmptySet
<1>3. CASE D # {}
  <2>1. PICK p \in D : TRUE BY <1>3
  <2>2. D = {p} BY <1>1, <2>1
  <2> HIDE DEF D
  <2>3. Cardinality(D) = 1 BY <2>2, FS_Singleton
  <2> QED BY <2>3 DEF D
<1> QED BY <1>2, <1>3

LEMMA ProfileInvIsSafe == ProfileInv => ProfileSafety
BY DefaultsCounted, SettingsKnown DEF ProfileInv, ProfileSafety, SelectionsStand, OverridesStand, ModelsStand

\* Every variable of the settings has its type, whatever is edited and whoever works.
\* (providers/service.py)
THEOREM ProfileTypeCorrect == ProfileSpec => []ProfileTypeOK
<1>1. ProfileInv => ProfileTypeOK BY DEF ProfileInv
<1> QED BY <1>1, ProfileInvHolds, PTL

\* Work goes on as it was resolved, vectors are of the space in force, and what is selected
\* exists, for any number of recordings, profiles, models and edits. (providers/service.py
\* lock_recording_profile_change, delete_profile)
THEOREM ProfilesAreSafe == ProfileSpec => []ProfileSafety
BY ProfileInvHolds, ProfileInvIsSafe, PTL

----------------------------------------------------------------------------
(***************************************************************************)
(* Backups.                                                                *)
(***************************************************************************)

Libraries == [disk : Held, named : SUBSET (Media \ Cached)]
Transactions == [kind : {"none", "publish", "evict"}, named : SUBSET (Media \ Cached), before : Held]
Makings ==
  [step : {"none", "files", "snapped", "copying", "summed", "sided"},
   of : 0 .. MaxArchives, full : BOOLEAN, snap : SUBSET (Media \ Cached), meant : Held,
   opened : Held, pinned : Held, linked : SUBSET Media, copied : Held]
Entries ==
  [made : BOOLEAN, zip : BOOLEAN, sidecar : BOOLEAN, leaving : BOOLEAN,
   full : BOOLEAN, snap : SUBSET (Media \ Cached), meant : Held, holds : Held]
Passes == [step : {"none", "due", "planned", "deleting", "over"}, doomed : SUBSET Archive]
Errands == [step : {"idle", "read", "sending", "accepted", "refused"},
             of : 0 .. MaxArchives, life : 0 .. MaxSends + 1, new : BOOLEAN]
Outgoings ==
  [life : 0 .. MaxSends + 1, open : BOOLEAN,
   row : [Archive -> {"none", "running", "completed", "failed"}],
   got : [Archive -> SUBSET (1 .. MaxSends + 1)], by : [Courier -> Errands]]
RestoreStep == [step : {"none", "hashed", "extracted", "relinked", "ready"},
             of : 0 .. MaxArchives, sound : BOOLEAN, media : Held]
Tallies == [writes : 0 .. MaxWrites, sends : 0 .. MaxSends, byHand : SUBSET Archive, crashed : BOOLEAN]

LEMMA BackupTypes ==
  BackupTypeOK <=>
    /\ library \in Libraries /\ moving \in Transactions /\ making \in Makings
    /\ store \in [Archive -> Entries] /\ keeping \in [Archive -> Passes]
    /\ outgoing \in Outgoings /\ drill \in RestoreStep /\ counts \in Tallies
  BY DEF BackupTypeOK, Libraries, Transactions, Makings, Entries, Passes, Outgoings, Errands, RestoreStep, Tallies

LEMMA NullTypes ==
  /\ NoBytes \in Held /\ Unmoved \in Transactions /\ Unmade \in Makings /\ Bare \in Entries
  /\ Resting \in Errands /\ NoDrill \in RestoreStep
  /\ Unmade.step = "none" /\ Unmade.copied = NoBytes /\ NoDrill.step = "none" /\ Resting.step = "idle"
<1>1. NoBytes \in Held /\ 0 \in 0 .. MaxArchives /\ 0 \in 0 .. MaxSends + 1
  BY BackupConstants DEF NoBytes, Held, Bytes
<1> HIDE DEF Held, NoBytes
<1> QED BY <1>1 DEF Unmoved, Transactions, Unmade, Makings, Bare, Entries, Resting, Errands, NoDrill, RestoreStep

----------------------------------------------------------------------------
\* The archive being made: what the snapshot names stands still until it is opened, and
\* what is copied is what was opened.
Pinned(m) ==
  /\ making.step \in {"files", "snapped"} => making.copied[m] = 0
  /\ making.step = "snapped" /\ making.full /\ m \in making.snap => library.disk[m] = making.meant[m]
  /\ making.step = "copying" =>
       /\ making.opened[m] = making.meant[m] /\ making.copied[m] \in {0, making.opened[m]}
       /\ m \in making.snap => making.opened[m] # 0
  /\ making.step \in {"summed", "sided"} /\ making.full =>
       making.copied[m] = making.meant[m] /\ (m \in making.snap => making.copied[m] # 0)
MakingFits ==
  /\ \A m \in Media : Pinned(m)
  /\ making.step = "snapped" /\ making.full => moving.kind = "none"
  /\ making.step = "copying" => making.full
  /\ making.step # "none" => making.of \in Archive

\* An archive on the shelf, and one to come.
Whole(a) == \A m \in Media : /\ store[a].holds[m] = store[a].meant[m]
                             /\ m \in store[a].snap => store[a].holds[m] # 0
Stored(a) ==
  /\ keeping[a].step = "none" => ~store[a].made
  /\ ~store[a].made => ~store[a].zip /\ ~store[a].leaving /\ ~store[a].full
  /\ store[a].leaving => ~store[a].zip
  /\ store[a].zip => store[a].sidecar
  /\ store[a].full => Whole(a)
StoreFits ==
  /\ \A a \in Archive : Stored(a)
  /\ making.step # "none" => keeping[making.of].step = "none"
  /\ making.step = "sided" => store[making.of].sidecar

\* What retention may delete, or has deleted: enough newer archives are visible, and a
\* newer full one if it is one.
Newer(b) == {c \in Visible : c > b}
Expendable(b) ==
  /\ Cardinality(Newer(b)) >= KeepLatest
  /\ store[b].full => \E c \in Newer(b) : store[c].full
Doomed(b) == (store[b].made /\ ~store[b].zip) \/ \E a \in Archive : b \in keeping[a].doomed
KeepingFits ==
  /\ \A a \in Archive : \A b \in keeping[a].doomed : store[b].made
  /\ counts.byHand = {} => \A b \in Archive : Doomed(b) => Expendable(b)

\* A delivery under way is of an archive, and accepted when somebody has it.
SendingFits ==
  /\ \A c \in Courier : outgoing.by[c].step # "idle" => outgoing.by[c].of \in Archive /\ outgoing.by[c].life # 0
  /\ \A c \in Courier : outgoing.by[c].step = "accepted" => outgoing.got[outgoing.by[c].of] # {}
  /\ outgoing.life <= counts.sends + 1

\* What is restored is what the archive holds.
DrillFits ==
  /\ drill.step # "none" => drill.of \in Archive /\ store[drill.of].made /\ store[drill.of].full
  /\ drill.step \in {"extracted", "relinked", "ready"} => drill.media = store[drill.of].holds

BackupInv ==
  /\ BackupTypeOK /\ MakingFits /\ StoreFits /\ KeepingFits
  /\ SendingFits /\ DeliveriesAreHonest /\ DrillFits

LEMMA BackupTypesKnown ==
  ASSUME BackupInv
  PROVE  /\ library \in Libraries /\ moving \in Transactions /\ making \in Makings
         /\ store \in [Archive -> Entries] /\ keeping \in [Archive -> Passes]
         /\ outgoing \in Outgoings /\ drill \in RestoreStep /\ counts \in Tallies
  BY BackupTypes DEF BackupInv

LEMMA TypesNext ==
  ASSUME library' \in Libraries, moving' \in Transactions, making' \in Makings,
         store' \in [Archive -> Entries], keeping' \in [Archive -> Passes],
         outgoing' \in Outgoings, drill' \in RestoreStep, counts' \in Tallies
  PROVE  BackupTypeOK'
  BY DEF BackupTypeOK, Libraries, Transactions, Makings, Entries, Passes, Outgoings, Errands, RestoreStep, Tallies

\* What a step leaves alone.
LEMMA StoreStays ==
  ASSUME BackupInv, UNCHANGED <<store, keeping>>, making'.step = making.step, making'.of = making.of
  PROVE  StoreFits'
  BY DEF BackupInv, StoreFits, Stored, Whole

LEMMA KeepingStays ==
  ASSUME BackupInv, UNCHANGED <<store, keeping>>, counts'.byHand = counts.byHand
  PROVE  KeepingFits'
  BY DEF BackupInv, KeepingFits, Doomed, Expendable, Newer, Visible

LEMMA SendingStays ==
  ASSUME BackupInv, UNCHANGED outgoing, counts'.sends \in Nat, counts'.sends >= counts.sends,
         counts'.crashed = counts.crashed
  PROVE  SendingFits' /\ DeliveriesAreHonest'
<1>1. counts.sends \in Nat /\ outgoing.life \in Nat
  BY BackupTypesKnown, BackupConstants DEF Tallies, Outgoings
<1>2. outgoing.life <= counts'.sends + 1
  BY <1>1 DEF BackupInv, SendingFits
<1> QED BY <1>2 DEF BackupInv, SendingFits, DeliveriesAreHonest

LEMMA DrillStays ==
  ASSUME BackupInv, UNCHANGED <<drill, store>>
  PROVE  DrillFits'
  BY DEF BackupInv, DrillFits

\* What a step that moves files leaves as it was.
OnlyFiles ==
  /\ UNCHANGED <<store, keeping, outgoing, drill>>
  /\ making'.step = making.step /\ making'.of = making.of
  /\ making'.full = making.full /\ making'.snap = making.snap /\ making'.meant = making.meant
  /\ making'.opened = making.opened /\ making'.copied = making.copied
  /\ making' \in Makings /\ library' \in Libraries /\ moving' \in Transactions /\ counts' \in Tallies
  /\ counts'.byHand = counts.byHand /\ counts'.sends = counts.sends /\ counts'.crashed = counts.crashed
  /\ making.step = "snapped" /\ making.full =>
       moving' = moving /\ \A m \in making.snap : library'.disk[m] = library.disk[m]

LEMMA TouchesTypes ==
  ASSUME BackupInv, NEW d \in Held, Touches(d)
  PROVE  /\ counts' \in Tallies /\ library' \in Libraries /\ library'.disk = d
         /\ counts'.byHand = counts.byHand /\ counts'.sends = counts.sends
         /\ counts'.crashed = counts.crashed
<1>1. counts.writes + 1 \in 0 .. MaxWrites
  BY BackupTypesKnown, BackupConstants DEF Touches, Tallies
<1> DEFINE w == counts.writes + 1
<1>2. counts' = [counts EXCEPT !.writes = w] /\ library' = [library EXCEPT !.disk = d]
  BY DEF Touches
<1> HIDE DEF w
<1> QED BY <1>1, <1>2, BackupTypesKnown DEF Tallies, Libraries, w

LEMMA FilesTypes ==
  ASSUME BackupInv
  PROVE  /\ 0 \in Bytes /\ library.disk \in Held /\ library.named \in SUBSET (Media \ Cached)
         /\ moving.named \in SUBSET (Media \ Cached) /\ moving.before \in Held
         /\ making.pinned \in Held /\ making.linked \in SUBSET Media /\ making.snap \in SUBSET (Media \ Cached)
         /\ making.opened \in Held /\ making.copied \in Held /\ making.meant \in Held
         /\ making.full \in BOOLEAN
         /\ (counts.writes < MaxWrites => NewBytes \in Bytes)
  BY BackupTypesKnown, BackupConstants DEF Tallies, NewBytes, Bytes, Libraries, Transactions, Makings

LEMMA DetachesTypes ==
  ASSUME BackupInv, NEW ms, Detaches(ms)
  PROVE  /\ making'.step = making.step /\ making'.of = making.of
         /\ making'.full = making.full /\ making'.snap = making.snap /\ making'.meant = making.meant
         /\ making'.opened = making.opened /\ making'.copied = making.copied
         /\ making' \in Makings
  BY FilesTypes, BackupTypesKnown DEF Detaches, Makings

LEMMA FilesSteps ==
  ASSUME BackupInv, FilesMove
  PROVE  OnlyFiles
<1>1. ASSUME NEW m \in Referenced, Replaces(m) PROVE OnlyFiles
  <2> DEFINE d == [library.disk EXCEPT ![m] = NewBytes]
  <2>1. Touches(d) /\ LockFreeForFiles /\ Detaches({m}) /\ counts.writes < MaxWrites
        /\ moving' = [kind |-> "publish", named |-> library.named \cup {m}, before |-> library.disk]
        /\ UNCHANGED <<store, keeping, outgoing, drill>>
    BY <1>1 DEF Replaces, Touches
  <2>2. d \in Held
    BY <2>1, FilesTypes DEF Held
  <2>3. moving' \in Transactions
    BY <2>1, FilesTypes DEF Transactions, Referenced
  <2> HIDE DEF d
  <2> QED BY <2>1, <2>2, <2>3, TouchesTypes, DetachesTypes DEF OnlyFiles, LockFreeForFiles
<1>2. ASSUME NEW ms \in {Media, Referenced \ {Original}}, Evicts(ms) PROVE OnlyFiles
  <2> DEFINE d == [m \in Media |-> IF m \in ms THEN 0 ELSE library.disk[m]]
  <2>1. Touches(d) /\ LockFreeForFiles /\ Detaches(ms)
        /\ moving' = [kind |-> "evict", named |-> library.named \ ms, before |-> library.disk]
        /\ UNCHANGED <<store, keeping, outgoing, drill>>
    BY <1>2 DEF Evicts
  <2>2. d \in Held
    BY FilesTypes DEF Held
  <2>3. moving' \in Transactions
    BY <2>1, FilesTypes DEF Transactions
  <2> HIDE DEF d
  <2> QED BY <2>1, <2>2, <2>3, TouchesTypes, DetachesTypes DEF OnlyFiles, LockFreeForFiles
<1>3. ASSUME NEW m \in Cached, Caches(m) PROVE OnlyFiles
  <2> DEFINE d == [library.disk EXCEPT ![m] = NewBytes]
  <2>1. /\ Touches(d) /\ counts.writes < MaxWrites
        /\ making' = [making EXCEPT !.pinned[m] = IF m \in making.linked THEN NewBytes ELSE @]
        /\ UNCHANGED <<moving, store, keeping, outgoing, drill>>
    BY <1>3 DEF Caches, Touches
  <2>2. d \in Held /\ m \in Media /\ m \notin making.snap
    BY <2>1, FilesTypes, BackupConstants DEF Held
  <2>3. \A n \in making.snap : d[n] = library.disk[n]
    BY <2>2, FilesTypes DEF Held
  <2>4. /\ making'.step = making.step /\ making'.of = making.of
        /\ making'.full = making.full /\ making'.snap = making.snap /\ making'.meant = making.meant
        /\ making'.opened = making.opened /\ making'.copied = making.copied
        /\ making' \in Makings
    <3> DEFINE b == IF m \in making.linked THEN NewBytes ELSE making.pinned[m]
               pinned == [making.pinned EXCEPT ![m] = b]
    <3>1. pinned \in Held
      BY <2>1, FilesTypes DEF Held
    <3>2. making' = [making EXCEPT !.pinned = pinned]
      BY <2>1, FilesTypes, BackupTypesKnown DEF Makings
    <3> HIDE DEF pinned
    <3> QED BY <3>1, <3>2, BackupTypesKnown DEF Makings
  <2> HIDE DEF d
  <2> QED BY <2>1, <2>2, <2>3, <2>4, TouchesTypes, BackupTypesKnown DEF OnlyFiles
<1>4. CASE Commits \/ RollsBack
  <2>1. /\ moving' = Unmoved /\ moving.kind # "none"
        /\ UNCHANGED <<making, store, keeping, outgoing, drill, counts>>
    BY <1>4 DEF Commits, RollsBack
  <2>2. library' \in Libraries
    BY <1>4, FilesTypes, BackupTypesKnown DEF Commits, RollsBack, Libraries
  <2> QED BY <2>1, <2>2, NullTypes, BackupTypesKnown DEF OnlyFiles, BackupInv, MakingFits
<1> QED BY <1>1, <1>2, <1>3, <1>4 DEF FilesMove

LEMMA FilesKeep ==
  ASSUME BackupInv, FilesMove
  PROVE  BackupInv'
<1>1. OnlyFiles BY FilesSteps
<1>2. BackupTypeOK'
  BY <1>1, BackupTypesKnown, TypesNext DEF OnlyFiles
<1>3. MakingFits'
  <2>1. ASSUME NEW m \in Media PROVE Pinned(m)'
    <3>1. Pinned(m) BY DEF BackupInv, MakingFits
    <3> QED BY <1>1, <3>1 DEF OnlyFiles, Pinned
  <2>2. making.step # "none" => making.of \in Archive
    BY DEF BackupInv, MakingFits
  <2>3. making'.step # "none" => making'.of \in Archive
    BY <1>1, <2>2 DEF OnlyFiles
  <2>4. making'.step = "copying" => making'.full
    BY <1>1 DEF OnlyFiles, BackupInv, MakingFits
  <2>5. making'.step = "snapped" /\ making'.full => moving'.kind = "none"
    BY <1>1 DEF OnlyFiles, BackupInv, MakingFits
  <2> QED BY <2>1, <2>3, <2>4, <2>5 DEF MakingFits, Archive
<1>4. counts'.sends \in Nat /\ counts'.sends >= counts.sends
  BY <1>1, BackupTypesKnown, BackupConstants DEF OnlyFiles, Tallies
<1> QED BY <1>1, <1>2, <1>3, <1>4, StoreStays, KeepingStays, SendingStays, DrillStays DEF OnlyFiles, BackupInv

\* A step of the making that leaves the shelf as it was.
LEMMA MakingStays ==
  ASSUME BackupInv, UNCHANGED <<library, moving, making>>
  PROVE  MakingFits'
  BY DEF BackupInv, MakingFits, Pinned

LEMMA MakingKeeps ==
  ASSUME BackupInv, UNCHANGED <<library, moving, store, keeping, outgoing, drill, counts>>,
         making' \in Makings, MakingFits',
         making'.step # "none" => keeping[making'.of].step = "none",
         making'.step # "sided"
  PROVE  BackupInv'
<1>1. BackupTypeOK'
  BY BackupTypesKnown, TypesNext
<1>2. StoreFits'
  BY DEF BackupInv, StoreFits, Stored, Whole
<1>3. KeepingFits'
  BY KeepingStays
<1>4. counts'.sends \in Nat /\ counts'.sends >= counts.sends
  BY BackupTypesKnown, BackupConstants DEF Tallies
<1>5. SendingFits' /\ DeliveriesAreHonest'
  BY <1>4, SendingStays
<1> QED BY <1>1, <1>2, <1>3, <1>5, DrillStays DEF BackupInv

LEMMA StartsArchiveKeeps ==
  ASSUME BackupInv, NEW full \in BOOLEAN, StartsArchive(full)
  PROVE  BackupInv'
<1> PICK a \in Archive :
        /\ \A b \in Archive : keeping[b].step = "none" <=> b >= a
        /\ making' = [Unmade EXCEPT !.step = "files", !.of = a, !.full = full]
  BY DEF StartsArchive
<1>1. UNCHANGED <<library, moving, store, keeping, outgoing, drill, counts>>
  BY DEF StartsArchive
<1>2. a \in Nat /\ a \in 0 .. MaxArchives /\ a >= a
  BY BackupConstants DEF Archive
<1>3. keeping[a].step = "none"
  BY <1>2
<1>4. /\ making' \in Makings /\ making'.step = "files" /\ making'.of = a /\ making'.copied = NoBytes
  BY <1>2, NullTypes DEF Makings
<1>5. MakingFits'
  BY <1>4 DEF MakingFits, Pinned, NoBytes
<1> QED BY <1>1, <1>3, <1>4, <1>5, MakingKeeps

LEMMA UnderWay ==
  ASSUME BackupInv, making.step # "none"
  PROVE  /\ making.of \in Archive /\ keeping[making.of].step = "none"
         /\ ~store[making.of].made /\ ~store[making.of].zip /\ ~store[making.of].leaving
         /\ ~store[making.of].full
<1>1. making.of \in Archive /\ keeping[making.of].step = "none"
  BY DEF BackupInv, MakingFits, StoreFits
<1>2. Stored(making.of)
  BY <1>1 DEF BackupInv, StoreFits
<1> QED BY <1>1, <1>2 DEF Stored

LEMMA TakesSnapshotKeeps ==
  ASSUME BackupInv, TakesSnapshot
  PROVE  BackupInv'
<1> DEFINE meant == Only(library.named)
<1>1. /\ making.step = "files" /\ Barrier
      /\ making' = [making EXCEPT !.step = "snapped", !.snap = library.named, !.meant = meant]
      /\ UNCHANGED <<library, moving, store, keeping, outgoing, drill, counts>>
  BY DEF TakesSnapshot
<1>2. meant \in Held /\ \A m \in library.named : m \in Media => meant[m] = library.disk[m]
  BY FilesTypes DEF Only, Held
<1> HIDE DEF meant
<1>3. /\ making' \in Makings /\ making'.step = "snapped" /\ making'.of = making.of /\ making'.full = making.full
      /\ making'.snap = library.named /\ making'.meant = meant /\ making'.copied = making.copied
  BY <1>1, <1>2, FilesTypes, BackupTypesKnown DEF Makings
<1>4. ASSUME NEW m \in Media PROVE Pinned(m)'
  <2>1. making.copied[m] = 0
    BY <1>1 DEF BackupInv, MakingFits, Pinned
  <2> QED BY <1>1, <1>2, <1>3, <2>1 DEF Pinned
<1>5. MakingFits'
  BY <1>1, <1>3, <1>4, UnderWay DEF MakingFits, Barrier, Archive
<1> QED BY <1>1, <1>3, <1>5, UnderWay, MakingKeeps

LEMMA PinsKeeps ==
  ASSUME BackupInv, Pins
  PROVE  BackupInv'
<1> DEFINE meant == [m \in Media |-> IF m \in making.snap THEN making.meant[m] ELSE library.disk[m]]
           linked == {m \in Media : library.disk[m] # 0}
<1>1. /\ making.step = "snapped" /\ making.full
      /\ \A m \in making.snap : library.disk[m] # 0
      /\ making' = [making EXCEPT !.step = "copying", !.opened = library.disk, !.pinned = library.disk,
                                  !.meant = meant, !.linked = linked]
      /\ UNCHANGED <<library, moving, store, keeping, outgoing, drill, counts>>
  BY BackupTypesKnown DEF Pins, Makings
<1>2. meant \in Held /\ linked \in SUBSET Media
      /\ \A m \in Media : meant[m] = IF m \in making.snap THEN making.meant[m] ELSE library.disk[m]
  BY FilesTypes DEF Held
<1> HIDE DEF meant, linked
<1>3. /\ making' \in Makings /\ making'.step = "copying" /\ making'.of = making.of /\ making'.full = making.full
      /\ making'.snap = making.snap /\ making'.meant = meant /\ making'.copied = making.copied
      /\ making'.opened = library.disk
  BY <1>1, <1>2, FilesTypes, BackupTypesKnown DEF Makings
<1>4. ASSUME NEW m \in Media PROVE Pinned(m)'
  <2>1. making.copied[m] = 0 /\ (m \in making.snap => library.disk[m] = making.meant[m])
    BY <1>1 DEF BackupInv, MakingFits, Pinned
  <2> QED BY <1>1, <1>2, <1>3, <2>1 DEF Pinned
<1>5. MakingFits'
  BY <1>1, <1>3, <1>4, UnderWay DEF MakingFits, Archive
<1> QED BY <1>1, <1>3, <1>5, UnderWay, MakingKeeps

LEMMA CopiesKeeps ==
  ASSUME BackupInv, NEW n \in Media, Copies(n)
  PROVE  BackupInv'
<1> DEFINE copied == [making.copied EXCEPT ![n] = making.pinned[n]]
<1>1. /\ making.step = "copying" /\ making.opened[n] # 0 /\ making.pinned[n] = making.opened[n]
      /\ making' = [making EXCEPT !.copied = copied]
      /\ UNCHANGED <<library, moving, store, keeping, outgoing, drill, counts>>
  BY BackupTypesKnown DEF Copies, Unchanged, Makings
<1>2. copied \in Held /\ copied[n] = making.opened[n]
      /\ \A m \in Media : m # n => copied[m] = making.copied[m]
  BY <1>1, FilesTypes DEF Held
<1> HIDE DEF copied
<1>3. /\ making' \in Makings /\ making'.step = "copying" /\ making'.of = making.of /\ making'.full = making.full
      /\ making'.snap = making.snap /\ making'.meant = making.meant /\ making'.copied = copied
      /\ making'.opened = making.opened
  BY <1>1, <1>2, FilesTypes, BackupTypesKnown DEF Makings
<1>4. ASSUME NEW m \in Media PROVE Pinned(m)'
  <2>1. /\ making.opened[m] = making.meant[m] /\ making.copied[m] \in {0, making.opened[m]}
        /\ m \in making.snap => making.opened[m] # 0
    BY <1>1 DEF BackupInv, MakingFits, Pinned
  <2>2. copied[m] \in {0, making.opened[m]}
    BY <1>2, <2>1
  <2> QED BY <1>1, <1>3, <2>1, <2>2 DEF Pinned
<1>5. making.full
  BY <1>1 DEF BackupInv, MakingFits
<1>6. MakingFits'
  BY <1>1, <1>3, <1>4, <1>5, UnderWay DEF MakingFits, Archive
<1> QED BY <1>1, <1>3, <1>6, UnderWay, MakingKeeps

LEMMA PacksKeeps ==
  ASSUME BackupInv, Packs
  PROVE  BackupInv'
<1>1. /\ \/ making.step = "snapped" /\ ~making.full
         \/ making.step = "copying" /\ \A m \in Media : making.opened[m] # 0 => making.copied[m] # 0
      /\ making' = [making EXCEPT !.step = "summed", !.opened = NoBytes, !.pinned = NoBytes, !.linked = {}]
      /\ UNCHANGED <<library, moving, store, keeping, outgoing, drill, counts>>
  BY DEF Packs
<1>2. /\ making' \in Makings /\ making'.step = "summed" /\ making'.of = making.of /\ making'.full = making.full
      /\ making'.snap = making.snap /\ making'.meant = making.meant /\ making'.copied = making.copied
  BY <1>1, NullTypes, FilesTypes, BackupTypesKnown DEF Makings
<1>3. ASSUME NEW m \in Media PROVE Pinned(m)'
  <2>1. Pinned(m)
    BY DEF BackupInv, MakingFits
  <2>2. CASE ~making.full
    BY <1>2, <2>2 DEF Pinned
  <2>3. CASE making.full
    <3>1. /\ making.opened[m] = making.meant[m] /\ making.copied[m] \in {0, making.opened[m]}
          /\ m \in making.snap => making.opened[m] # 0
          /\ making.opened[m] # 0 => making.copied[m] # 0
      BY <1>1, <2>1, <2>3 DEF Pinned
    <3> QED BY <1>2, <3>1 DEF Pinned
  <2> QED BY <2>2, <2>3
<1>4. MakingFits'
  BY <1>1, <1>2, <1>3, UnderWay DEF MakingFits, Archive
<1> QED BY <1>1, <1>2, <1>4, UnderWay, MakingKeeps

\* Replacing the entry of one archive, and the pass of one.
LEMMA EntryStored ==
  ASSUME BackupInv, NEW a \in Archive, NEW e \in Entries, store' = [store EXCEPT ![a] = e]
  PROVE  /\ store' \in [Archive -> Entries] /\ store'[a] = e
         /\ \A b \in Archive : b # a => store'[b] = store[b]
  BY BackupTypesKnown

LEMMA EntryFields ==
  ASSUME BackupInv, NEW a \in Archive
  PROVE  /\ store[a] \in Entries /\ store[a].made \in BOOLEAN /\ store[a].zip \in BOOLEAN
         /\ store[a].leaving \in BOOLEAN /\ store[a].full \in BOOLEAN
         /\ keeping[a] \in Passes /\ keeping[a].doomed \in SUBSET Archive
  BY BackupTypesKnown DEF Entries, Passes

\* Archives are few, and enough newer ones stay enough when more appear.
LEMMA NewerFinite ==
  ASSUME NEW b
  PROVE  Newer(b) \in SUBSET Archive /\ IsFiniteSet(Newer(b)) /\ Cardinality(Newer(b)) \in Nat
<1>1. IsFiniteSet(Archive) BY BackupConstants, FS_Interval DEF Archive
<1>2. Newer(b) \in SUBSET Archive BY DEF Newer, Visible
<1> QED BY <1>1, <1>2, FS_Subset, FS_CardinalityType

LEMMA NewerFiniteNext ==
  ASSUME NEW b
  PROVE  Newer(b)' \in SUBSET Archive /\ IsFiniteSet(Newer(b)') /\ Cardinality(Newer(b)') \in Nat
<1>1. IsFiniteSet(Archive) BY BackupConstants, FS_Interval DEF Archive
<1>2. Newer(b)' \in SUBSET Archive BY DEF Newer, Visible
<1> QED BY <1>1, <1>2, FS_Subset, FS_CardinalityType

LEMMA EnoughStay ==
  ASSUME NEW b, NEW S \in SUBSET Newer(b)', Cardinality(S) >= KeepLatest
  PROVE  Cardinality(Newer(b)') >= KeepLatest
<1> DEFINE T == Newer(b)'
<1>1. IsFiniteSet(T) /\ Cardinality(T) \in Nat BY NewerFiniteNext
<1> HIDE DEF T
<1>2. S \subseteq T BY DEF T
<1>3. IsFiniteSet(S) /\ Cardinality(S) <= Cardinality(T) BY <1>1, <1>2, FS_Subset
<1>4. Cardinality(S) \in Nat BY <1>3, FS_CardinalityType
<1>5. Cardinality(T) >= KeepLatest BY <1>1, <1>3, <1>4, BackupConstants
<1> QED BY <1>5 DEF T

LEMMA MoreVisible ==
  ASSUME NEW b \in Archive, Expendable(b), Visible \subseteq Visible',
         \A c \in Visible \cup {b} : store'[c].full = store[c].full
  PROVE  Expendable(b)'
<1>1. Newer(b) \subseteq Newer(b)' BY DEF Newer
<1>2. Cardinality(Newer(b)') >= KeepLatest BY <1>1, EnoughStay DEF Expendable
<1>3. store'[b].full => \E c \in Newer(b)' : store'[c].full
  BY <1>1 DEF Expendable, Newer
<1> QED BY <1>2, <1>3 DEF Expendable

\* When an archive that can be spared is deleted, the others that could be spared still can.
LEMMA OneSpared ==
  ASSUME NEW b \in Archive, Expendable(b), NEW d \in Archive, Expendable(d),
         Visible' = Visible \ {d}, \A c \in Archive : store'[c].full = store[c].full
  PROVE  Expendable(b)'
<1>0. b \in Nat /\ d \in Nat /\ Archive \subseteq Nat /\ Visible \subseteq Archive
  BY BackupConstants DEF Archive, Visible
<1>1. CASE d > b
  <2>1. ASSUME NEW c \in Newer(d) PROVE c \in Newer(b)'
    <3>1. c \in Visible /\ c > d /\ c \in Nat BY <1>0 DEF Newer
    <3>2. c > b /\ c # d BY <1>0, <1>1, <3>1
    <3>3. c \in Visible' BY <3>1, <3>2
    <3> QED BY <3>2, <3>3 DEF Newer
  <2>2. Newer(d) \in SUBSET Newer(b)' BY <2>1
  <2>4. Cardinality(Newer(b)') >= KeepLatest BY <2>2, EnoughStay DEF Expendable
  <2>3. ASSUME store'[b].full PROVE \E c \in Newer(b)' : store'[c].full
    <3>1. PICK c \in Newer(b) : store[c].full
      BY <2>3 DEF Expendable
    <3>2. CASE c # d
      BY <1>0, <3>1, <3>2 DEF Newer
    <3>3. CASE c = d
      <4>1. PICK n \in Newer(d) : store[n].full
        BY <3>1, <3>3 DEF Expendable
      <4> QED BY <1>0, <2>1, <4>1 DEF Newer
    <3> QED BY <3>2, <3>3
  <2> QED BY <2>3, <2>4 DEF Expendable
<1>2. CASE ~(d > b)
  <2>1. Newer(b) \subseteq Newer(b)' BY <1>0, <1>2 DEF Newer
  <2>2. Cardinality(Newer(b)') >= KeepLatest BY <2>1, EnoughStay DEF Expendable
  <2>3. store'[b].full => \E c \in Newer(b)' : store'[c].full
    BY <1>0, <2>1 DEF Expendable, Newer
  <2> QED BY <2>2, <2>3 DEF Expendable
<1> QED BY <1>1, <1>2

LEMMA PutsSidecarKeeps ==
  ASSUME BackupInv, PutsSidecar
  PROVE  BackupInv'
<1> PICK a : a = making.of OBVIOUS
<1> DEFINE e == [store[a] EXCEPT !.sidecar = TRUE]
<1>1. /\ making.step = "summed" /\ making' = [making EXCEPT !.step = "sided"]
      /\ store' = [store EXCEPT ![a] = e]
      /\ UNCHANGED <<library, moving, keeping, outgoing, drill, counts>>
  BY DEF PutsSidecar
<1>2. a \in Archive /\ keeping[a].step = "none" /\ store[a] \in Entries
  BY <1>1, UnderWay, EntryFields
<1>3. /\ e \in Entries /\ e.sidecar /\ e.made = store[a].made /\ e.zip = store[a].zip /\ e.full = store[a].full
      /\ e.leaving = store[a].leaving /\ e.snap = store[a].snap /\ e.meant = store[a].meant
      /\ e.holds = store[a].holds
  BY <1>2 DEF Entries
<1>4. /\ making' \in Makings /\ making'.step = "sided" /\ making'.of = a /\ making'.full = making.full
      /\ making'.snap = making.snap /\ making'.meant = making.meant /\ making'.copied = making.copied
  BY <1>1, BackupTypesKnown DEF Makings
<1> HIDE DEF e
<1>5. /\ store' \in [Archive -> Entries] /\ store'[a] = e
      /\ \A b \in Archive : b # a => store'[b] = store[b]
  BY <1>1, <1>2, <1>3, EntryStored
<1>6. \A b \in Archive : /\ store'[b].made = store[b].made /\ store'[b].zip = store[b].zip
                         /\ store'[b].full = store[b].full /\ store'[b].leaving = store[b].leaving
                         /\ store'[b].snap = store[b].snap /\ store'[b].meant = store[b].meant
                         /\ store'[b].holds = store[b].holds
                         /\ store[b].sidecar => store'[b].sidecar
  BY <1>3, <1>5
<1>7. BackupTypeOK'
  BY <1>1, <1>4, <1>5, BackupTypesKnown, TypesNext
<1>8. MakingFits'
  <2>1. ASSUME NEW m \in Media PROVE Pinned(m)'
    <3>1. Pinned(m) BY DEF BackupInv, MakingFits
    <3> QED BY <1>1, <1>4, <3>1 DEF Pinned
  <2> QED BY <1>2, <1>4, <2>1 DEF MakingFits, Archive
<1>9. StoreFits'
  <2>1. ASSUME NEW b \in Archive PROVE Stored(b)'
    <3>1. Stored(b) BY DEF BackupInv, StoreFits
    <3> QED BY <1>1, <1>6, <3>1 DEF Stored, Whole
  <2> QED BY <1>1, <1>2, <1>3, <1>4, <1>5, <2>1 DEF StoreFits, Archive
<1>10. KeepingFits'
  <2>1. Visible' = Visible BY <1>6 DEF Visible
  <2>2. \A b \in Archive : Newer(b)' = Newer(b) /\ Newer(b) \subseteq Archive
    BY <2>1 DEF Newer, Visible
  <2>3. ASSUME NEW b \in Archive PROVE (Expendable(b) => Expendable(b)') /\ (Doomed(b)' => Doomed(b))
    <3>1. Doomed(b)' => Doomed(b) BY <1>1, <1>6 DEF Doomed, Archive
    <3>2. Expendable(b) => Expendable(b)' BY <1>6, <2>2 DEF Expendable
    <3> QED BY <3>1, <3>2
  <2>4. \A b \in Archive : keeping[b].doomed \subseteq Archive BY EntryFields
  <2> QED BY <1>1, <1>6, <2>3, <2>4 DEF BackupInv, KeepingFits, Archive
<1>11. counts'.sends \in Nat /\ counts'.sends >= counts.sends
  BY <1>1, BackupTypesKnown, BackupConstants DEF Tallies
<1>12. SendingFits' /\ DeliveriesAreHonest'
  BY <1>1, <1>11, SendingStays
<1>13. DrillFits'
  BY <1>1, <1>6 DEF BackupInv, DrillFits
<1> QED BY <1>7, <1>8, <1>9, <1>10, <1>12, <1>13 DEF BackupInv

LEMMA PutsArchiveKeeps ==
  ASSUME BackupInv, PutsArchive
  PROVE  BackupInv'
<1> PICK a : a = making.of OBVIOUS
<1> DEFINE e == [store[a] EXCEPT !.made = TRUE, !.zip = TRUE, !.full = making.full, !.snap = making.snap,
                                 !.meant = making.meant, !.holds = making.copied]
           p == [keeping[a] EXCEPT !.step = "due"]
<1>1. /\ making.step = "sided" /\ making' = Unmade
      /\ store' = [store EXCEPT ![a] = e] /\ keeping' = [keeping EXCEPT ![a] = p]
      /\ UNCHANGED <<library, moving, outgoing, drill, counts>>
  BY DEF PutsArchive
<1>2. /\ a \in Archive /\ keeping[a].step = "none" /\ store[a] \in Entries /\ keeping[a] \in Passes
      /\ ~store[a].made /\ ~store[a].zip /\ ~store[a].leaving /\ store[a].sidecar
  BY <1>1, UnderWay, EntryFields DEF BackupInv, StoreFits
<1>3. /\ e \in Entries /\ e.sidecar = store[a].sidecar /\ e.made /\ e.zip /\ e.full = making.full
      /\ e.leaving = store[a].leaving /\ e.snap = making.snap /\ e.meant = making.meant
      /\ e.holds = making.copied
  BY <1>2, FilesTypes DEF Entries
<1>4. p \in Passes /\ p.step = "due" /\ p.doomed = keeping[a].doomed
  BY <1>2 DEF Passes
<1> HIDE DEF e, p
<1>5. /\ store' \in [Archive -> Entries] /\ store'[a] = e
      /\ \A b \in Archive : b # a => store'[b] = store[b]
  BY <1>1, <1>2, <1>3, EntryStored
<1>6. /\ keeping' \in [Archive -> Passes] /\ keeping'[a] = p
      /\ \A b \in Archive : b # a => keeping'[b] = keeping[b]
  BY <1>1, <1>2, <1>4, BackupTypesKnown
<1>7. BackupTypeOK'
  BY <1>1, <1>5, <1>6, NullTypes, BackupTypesKnown, TypesNext
<1>8. MakingFits'
  BY <1>1, NullTypes DEF MakingFits, Pinned
<1>9. StoreFits'
  <2>1. ASSUME NEW b \in Archive, b # a PROVE Stored(b)'
    <3>1. Stored(b) BY DEF BackupInv, StoreFits
    <3> QED BY <1>5, <1>6, <2>1, <3>1 DEF Stored, Whole
  <2>2. Whole(a)' \/ ~making.full
    <3>1. ASSUME making.full, NEW m \in Media
          PROVE making.copied[m] = making.meant[m] /\ (m \in making.snap => making.copied[m] # 0)
      BY <1>1, <3>1 DEF BackupInv, MakingFits, Pinned
    <3> QED BY <1>3, <1>5, <3>1 DEF Whole
  <2>3. Stored(a)'
    BY <1>2, <1>3, <1>4, <1>5, <1>6, <2>2 DEF Stored
  <2> QED BY <1>1, <2>1, <2>3, NullTypes DEF StoreFits, Archive
<1>10. KeepingFits'
  <2>1. ASSUME NEW b \in Archive PROVE keeping'[b].doomed = keeping[b].doomed /\ keeping[b].doomed \subseteq Archive
    BY <1>4, <1>6, EntryFields
  <2>2. ASSUME NEW b \in Archive, NEW c \in keeping[b].doomed PROVE c # a /\ store'[c].made
    <3>1. store[c].made /\ c \in Archive BY <2>1, <2>2 DEF BackupInv, KeepingFits
    <3> QED BY <1>2, <1>5, <3>1
  <2>3. Visible \subseteq Visible' BY <1>2, <1>3, <1>5 DEF Visible
  <2>4. ASSUME NEW b \in Archive, Doomed(b)', \A c \in Archive : Doomed(c) => Expendable(c) PROVE Expendable(b)'
    <3>1. b # a BY <1>3, <1>5, <2>1, <2>2, <2>4 DEF Doomed, Archive
    <3>2. Doomed(b) BY <1>5, <2>1, <2>4, <3>1 DEF Doomed, Archive
    <3>3. \A c \in Visible \cup {b} : store'[c].full = store[c].full
      BY <1>2, <1>5, <3>1 DEF Visible
    <3> QED BY <2>3, <2>4, <3>2, <3>3, MoreVisible
  <2>5. \A b \in Archive : \A c \in keeping'[b].doomed : store'[c].made BY <2>1, <2>2
  <2> QED BY <1>1, <2>4, <2>5 DEF BackupInv, KeepingFits, Archive
<1>11. counts'.sends \in Nat /\ counts'.sends >= counts.sends
  BY <1>1, BackupTypesKnown, BackupConstants DEF Tallies
<1>12. SendingFits' /\ DeliveriesAreHonest'
  BY <1>1, <1>11, SendingStays
<1>13. DrillFits'
  <2>1. drill.step # "none" => drill.of \in Archive /\ drill.of # a
    BY <1>2 DEF BackupInv, DrillFits
  <2> QED BY <1>1, <1>5, <2>1 DEF BackupInv, DrillFits
<1> QED BY <1>7, <1>8, <1>9, <1>10, <1>12, <1>13 DEF BackupInv

\* What a step that deletes or plans leaves alone, and what it has to show.
SameContents ==
  \A b \in Archive : /\ store'[b].made = store[b].made /\ store'[b].full = store[b].full
                     /\ store'[b].snap = store[b].snap /\ store'[b].meant = store[b].meant
                     /\ store'[b].holds = store[b].holds

LEMMA ContentsKeep ==
  ASSUME BackupInv, UNCHANGED <<library, moving, outgoing, drill>>, SameContents,
         making' = making \/ making' = Unmade, counts' \in Tallies,
         counts'.sends >= counts.sends, counts'.crashed = counts.crashed,
         store' \in [Archive -> Entries], keeping' \in [Archive -> Passes], StoreFits', KeepingFits'
  PROVE  BackupInv'
<1>1. BackupTypeOK'
  BY BackupTypesKnown, NullTypes, TypesNext
<1>2. MakingFits'
  <2>1. CASE making' = making BY <2>1, MakingStays
  <2>2. CASE making' = Unmade BY <2>2, NullTypes DEF MakingFits, Pinned
  <2> QED BY <2>1, <2>2
<1>3. counts'.sends \in Nat
  BY BackupConstants DEF Tallies
<1>4. SendingFits' /\ DeliveriesAreHonest'
  BY <1>3, SendingStays
<1>5. DrillFits'
  BY DEF BackupInv, DrillFits, SameContents
<1> QED BY <1>1, <1>2, <1>4, <1>5 DEF BackupInv

LEMMA ArchiveFailsKeeps ==
  ASSUME BackupInv, ArchiveFails
  PROVE  BackupInv'
<1> PICK a : a = making.of OBVIOUS
<1> DEFINE e == [store[a] EXCEPT !.sidecar = FALSE]
           p == [keeping[a] EXCEPT !.step = "over"]
<1>1. /\ making.step # "none" /\ making' = Unmade
      /\ store' = [store EXCEPT ![a] = e] /\ keeping' = [keeping EXCEPT ![a] = p]
      /\ UNCHANGED <<library, moving, outgoing, drill, counts>>
  BY DEF ArchiveFails
<1>2. /\ a \in Archive /\ keeping[a].step = "none" /\ store[a] \in Entries /\ keeping[a] \in Passes
      /\ ~store[a].made /\ ~store[a].zip /\ ~store[a].leaving /\ ~store[a].full
  BY <1>1, UnderWay, EntryFields
<1>3. /\ e \in Entries /\ e.made = store[a].made /\ e.zip = store[a].zip /\ e.full = store[a].full
      /\ e.leaving = store[a].leaving /\ e.snap = store[a].snap /\ e.meant = store[a].meant
      /\ e.holds = store[a].holds
  BY <1>2 DEF Entries
<1>4. p \in Passes /\ p.step = "over" /\ p.doomed = keeping[a].doomed
  BY <1>2 DEF Passes
<1> HIDE DEF e, p
<1>5. /\ store' \in [Archive -> Entries] /\ store'[a] = e
      /\ \A b \in Archive : b # a => store'[b] = store[b]
  BY <1>1, <1>2, <1>3, EntryStored
<1>6. /\ keeping' \in [Archive -> Passes] /\ keeping'[a] = p
      /\ \A b \in Archive : b # a => keeping'[b] = keeping[b]
  BY <1>1, <1>2, <1>4, BackupTypesKnown
<1>7. SameContents
  BY <1>3, <1>5 DEF SameContents
<1>8. StoreFits'
  <2>1. ASSUME NEW b \in Archive, b # a PROVE Stored(b)'
    <3>1. Stored(b) BY DEF BackupInv, StoreFits
    <3> QED BY <1>5, <1>6, <2>1, <3>1 DEF Stored, Whole
  <2>2. Stored(a)'
    BY <1>2, <1>3, <1>4, <1>5, <1>6 DEF Stored
  <2> QED BY <1>1, <2>1, <2>2, NullTypes DEF StoreFits, Archive
<1>9. KeepingFits'
  <2>1. ASSUME NEW b \in Archive PROVE keeping'[b].doomed = keeping[b].doomed
    BY <1>4, <1>6
  <2>2. Visible' = Visible
    BY <1>2, <1>3, <1>5 DEF Visible
  <2>3. \A b \in Archive : store'[b].zip = store[b].zip
    BY <1>3, <1>5
  <2>4. ASSUME NEW b \in Archive, Doomed(b)', \A c \in Archive : Doomed(c) => Expendable(c) PROVE Expendable(b)'
    <3>1. Doomed(b) BY <1>7, <2>1, <2>3, <2>4 DEF Doomed, Archive, SameContents
    <3>2. \A c \in Visible \cup {b} : store'[c].full = store[c].full
      BY <1>7 DEF Visible, SameContents
    <3> QED BY <2>2, <2>4, <3>1, <3>2, MoreVisible
  <2>5. ASSUME NEW b \in Archive, NEW c \in keeping'[b].doomed PROVE store'[c].made
    <3>1. store[c].made /\ c \in Archive BY <2>1, <2>5, EntryFields DEF BackupInv, KeepingFits
    <3> QED BY <1>7, <3>1 DEF SameContents
  <2> QED BY <1>1, <2>4, <2>5 DEF BackupInv, KeepingFits, Archive
<1>10. counts \in Tallies /\ counts.sends >= counts.sends
  BY BackupTypesKnown, BackupConstants DEF Tallies
<1> QED BY <1>1, <1>5, <1>6, <1>7, <1>8, <1>9, <1>10, ContentsKeep

\* The largest of a set of archives.
LEMMA NewestOf ==
  ASSUME NEW S \in SUBSET Archive, S # {}
  PROVE  Max(S) \in S /\ \A n \in S : Max(S) >= n
<1> DEFINE T == {MaxArchives - n : n \in S}
           R == OpToRel(<, Nat)
<1>0. MaxArchives \in Nat /\ \A n \in S : n \in Nat /\ MaxArchives - n \in Nat
  BY BackupConstants DEF Archive
<1>1. T \in SUBSET Nat /\ T # {}
  BY <1>0
<1>2. PICK x \in T : \A y \in T : <<y, x>> \notin R
  <2>1. IsWellFoundedOn(R, Nat) BY NatLessThanWellFounded
  <2> HIDE DEF R, T
  <2> QED BY <1>1, <2>1, WFMin
<1>3. ASSUME NEW y \in T PROVE x <= y
  <2>1. x \in Nat /\ y \in Nat BY <1>1
  <2>2. <<y, x>> \notin R BY <1>2
  <2>3. ~(y < x)
    <3> HIDE DEF T
    <3> QED BY <2>1, <2>2 DEF OpToRel
  <2> QED BY <2>1, <2>3
<1>4. PICK m \in S : x = MaxArchives - m OBVIOUS
<1>5. \A n \in S : x <= MaxArchives - n BY <1>3
<1>6. \A n \in S : m >= n
  <2> HIDE DEF T
  <2> QED BY <1>0, <1>4, <1>5
<1> QED BY <1>6 DEF Max

LEMMA PlanIsExpendable ==
  ASSUME BackupInv, NEW b \in Plan
  PROVE  b \in Archive /\ store[b].made /\ Expendable(b)
<1>1. b \in Visible /\ b \in Archive /\ store[b].zip /\ Cardinality(Newer(b)) >= KeepLatest /\ b \notin NewestFull
  BY DEF Plan, Beyond, Visible, Newer
<1>2. store[b].made
  BY <1>1 DEF BackupInv, StoreFits, Stored
<1>3. ASSUME store[b].full PROVE \E c \in Newer(b) : store[c].full
  <2> DEFINE F == {a \in Visible : store[a].full}
  <2>1. b \in F /\ F \in SUBSET Archive /\ NewestFull = {Max(F)}
    BY <1>1, <1>3 DEF NewestFull, Visible
  <2> HIDE DEF F
  <2> PICK x : x = Max(F) OBVIOUS
  <2>2. x \in F /\ x >= b
    BY <2>1, NewestOf
  <2>3. x # b
    BY <1>1, <2>1
  <2>4. x \in Visible /\ store[x].full
    BY <2>2 DEF F
  <2>5. x \in Nat /\ b \in Nat
    BY <1>1, <2>4, BackupConstants DEF Archive, Visible
  <2>6. x > b
    BY <2>2, <2>3, <2>5
  <2> QED BY <2>4, <2>6 DEF Newer
<1> QED BY <1>1, <1>2, <1>3 DEF Expendable

\* A pass of retention goes on: it dooms what it doomed, or what is planned now.
LEMMA PassKeeps ==
  ASSUME BackupInv, NEW a \in Archive, NEW p \in Passes, keeping' = [keeping EXCEPT ![a] = p],
         keeping[a].step # "none", p.step # "none", p.doomed \subseteq keeping[a].doomed \cup Plan,
         UNCHANGED <<library, moving, making, store, outgoing, drill, counts>>
  PROVE  BackupInv'
<1>1. /\ keeping' \in [Archive -> Passes] /\ keeping'[a] = p
      /\ \A b \in Archive : b # a => keeping'[b] = keeping[b]
  BY BackupTypesKnown
<1>2. StoreFits'
  <2>1. ASSUME NEW b \in Archive PROVE Stored(b)'
    <3>1. Stored(b) BY DEF BackupInv, StoreFits
    <3>2. (keeping'[b].step = "none" => keeping[b].step = "none") /\ store' = store
      BY <1>1
    <3> QED BY <3>1, <3>2 DEF Stored, Whole
  <2>2. making.step # "none" => making.of \in Archive /\ keeping[making.of].step = "none"
    BY UnderWay
  <2> QED BY <1>1, <2>1, <2>2 DEF BackupInv, StoreFits, Archive
<1>3. KeepingFits'
  <2>1. ASSUME NEW b \in Archive, NEW c \in keeping'[b].doomed PROVE c \in keeping[b].doomed \/ c \in Plan
    BY <1>1, <2>1
  <2>2. ASSUME NEW b \in Archive, NEW c \in keeping'[b].doomed PROVE store[c].made
    BY <2>1, <2>2, PlanIsExpendable DEF BackupInv, KeepingFits
  <2>3. ASSUME NEW b \in Archive, Doomed(b)', \A c \in Archive : Doomed(c) => Expendable(c) PROVE Expendable(b)
    <3>1. CASE b \in Plan BY <3>1, PlanIsExpendable
    <3>2. CASE b \notin Plan
      <4>1. Doomed(b) BY <2>1, <2>3, <3>2 DEF Doomed, Archive
      <4> QED BY <2>3, <4>1
    <3> QED BY <3>1, <3>2
  <2>4. \A b \in Archive : Expendable(b)' <=> Expendable(b)
    BY DEF Expendable, Newer, Visible
  <2> QED BY <2>2, <2>3, <2>4 DEF BackupInv, KeepingFits, Archive
<1>4. SameContents
  BY DEF SameContents
<1>5. counts \in Tallies /\ counts.sends >= counts.sends
  BY BackupTypesKnown, BackupConstants DEF Tallies
<1> QED BY <1>1, <1>2, <1>3, <1>4, <1>5, BackupTypesKnown, ContentsKeep

LEMMA PlanningKeeps ==
  ASSUME BackupInv, NEW a \in Archive, PlansDeletion(a) \/ KeepingEnds(a)
  PROVE  BackupInv'
<1>1. keeping[a] \in Passes /\ keeping[a].doomed \in SUBSET Archive /\ Plan \in SUBSET Archive
  BY EntryFields DEF Plan, Beyond, Visible
<1>2. CASE PlansDeletion(a)
  <2> DEFINE p == IF keeping[a].step = "due" THEN [step |-> "planned", doomed |-> Plan]
                  ELSE [step |-> "deleting", doomed |-> keeping[a].doomed \cap Plan]
  <2>1. p \in Passes /\ p.step # "none" /\ p.doomed \subseteq keeping[a].doomed \cup Plan
    BY <1>1 DEF Passes
  <2>2. keeping' = [keeping EXCEPT ![a] = p] /\ keeping[a].step # "none"
        /\ UNCHANGED <<library, moving, making, store, outgoing, drill, counts>>
    BY <1>2, BackupTypesKnown DEF PlansDeletion
  <2> HIDE DEF p
  <2> QED BY <2>1, <2>2, PassKeeps
<1>3. CASE KeepingEnds(a)
  <2> DEFINE p == [step |-> "over", doomed |-> {}]
  <2>1. p \in Passes /\ p.step # "none" /\ p.doomed \subseteq keeping[a].doomed \cup Plan
    BY DEF Passes
  <2>2. keeping' = [keeping EXCEPT ![a] = p] /\ keeping[a].step # "none"
        /\ UNCHANGED <<library, moving, making, store, outgoing, drill, counts>>
    BY <1>3 DEF KeepingEnds
  <2> HIDE DEF p
  <2> QED BY <2>1, <2>2, PassKeeps
<1> QED BY <1>2, <1>3

LEMMA DeletesArchiveKeeps ==
  ASSUME BackupInv, NEW a \in Archive, NEW d \in Archive, DeletesArchive(a, d)
  PROVE  BackupInv'
<1> DEFINE e == [store[d] EXCEPT !.zip = FALSE, !.leaving = store[d].leaving \/ store[d].zip]
           p == [keeping[a] EXCEPT !.doomed = keeping[a].doomed \ {d}]
<1>1. /\ keeping[a].step = "deleting" /\ d \in keeping[a].doomed
      /\ UNCHANGED <<library, moving, making, outgoing, drill, counts>>
  BY DEF DeletesArchive
<1>2. /\ store[d] \in Entries /\ keeping[a] \in Passes /\ store[d].made
      /\ store[d].leaving \in BOOLEAN /\ store[d].zip \in BOOLEAN
  BY <1>1, EntryFields DEF BackupInv, KeepingFits
<1>3. store' = [store EXCEPT ![d] = e] /\ keeping' = [keeping EXCEPT ![a] = p]
  BY <1>2, BackupTypesKnown DEF DeletesArchive, Unlinked, Entries
<1>4. /\ e \in Entries /\ e.made = store[d].made /\ e.zip = FALSE /\ e.full = store[d].full
      /\ e.snap = store[d].snap /\ e.meant = store[d].meant /\ e.holds = store[d].holds
      /\ e.sidecar = store[d].sidecar
  BY <1>2 DEF Entries
<1>5. p \in Passes /\ p.step = "deleting" /\ p.doomed = keeping[a].doomed \ {d}
  BY <1>1, <1>2 DEF Passes
<1> HIDE DEF e, p
<1>6. /\ store' \in [Archive -> Entries] /\ store'[d] = e
      /\ \A b \in Archive : b # d => store'[b] = store[b]
  BY <1>3, <1>4, EntryStored
<1>7. /\ keeping' \in [Archive -> Passes] /\ keeping'[a] = p
      /\ \A b \in Archive : b # a => keeping'[b] = keeping[b]
  BY <1>3, <1>5, BackupTypesKnown
<1>8. SameContents
  BY <1>4, <1>6 DEF SameContents
<1>9. StoreFits'
  <2>1. ASSUME NEW b \in Archive PROVE keeping'[b].step = "none" => keeping[b].step = "none"
    BY <1>1, <1>5, <1>7
  <2>2. ASSUME NEW b \in Archive, b # d PROVE Stored(b)'
    <3>1. Stored(b) BY DEF BackupInv, StoreFits
    <3>2. store'[b] = store[b] BY <1>6, <2>2
    <3> QED BY <2>1, <3>1, <3>2 DEF Stored, Whole
  <2>3. Stored(d)'
    <3>1. Stored(d) BY DEF BackupInv, StoreFits
    <3> QED BY <1>2, <1>4, <1>6, <2>1, <3>1 DEF Stored, Whole
  <2>4. making.step # "none" => making.of \in Archive /\ keeping[making.of].step = "none" /\ ~store[making.of].made
    BY UnderWay
  <2>5. making.step # "none" => keeping'[making.of].step = "none" /\ store'[making.of].sidecar = store[making.of].sidecar
    BY <1>1, <1>2, <1>6, <1>7, <2>4
  <2> QED BY <1>1, <2>2, <2>3, <2>5 DEF BackupInv, StoreFits, Archive
<1>10. KeepingFits'
  <2>1. \A b \in Archive : keeping'[b].doomed \subseteq keeping[b].doomed /\ keeping[b].doomed \subseteq Archive
    BY <1>5, <1>7, EntryFields
  <2>2. ASSUME NEW b \in Archive, NEW c \in keeping'[b].doomed PROVE store'[c].made
    <3>1. c \in Archive /\ store[c].made BY <2>1, <2>2 DEF BackupInv, KeepingFits
    <3> QED BY <1>8, <3>1 DEF SameContents
  <2>3. Visible' = Visible \ {d}
    BY <1>4, <1>6 DEF Visible
  <2>4. ASSUME NEW b \in Archive, Doomed(b)', \A c \in Archive : Doomed(c) => Expendable(c) PROVE Expendable(b)'
    <3>1. Doomed(d) BY <1>1 DEF Doomed
    <3>2. CASE \E c \in Archive : b \in keeping'[c].doomed
      <4>1. Doomed(b) BY <2>1, <3>2 DEF Doomed
      <4> QED BY <1>8, <2>3, <2>4, <3>1, <4>1, OneSpared DEF SameContents
    <3>3. CASE store'[b].made /\ ~store'[b].zip
      <4>1. b = d \/ (store[b].made /\ ~store[b].zip) BY <1>6, <3>3
      <4>2. Doomed(b) BY <3>1, <4>1 DEF Doomed
      <4> QED BY <1>8, <2>3, <2>4, <3>1, <4>2, OneSpared DEF SameContents
    <3> QED BY <2>4, <3>2, <3>3 DEF Doomed, Archive
  <2> QED BY <1>1, <2>2, <2>4 DEF BackupInv, KeepingFits, Archive
<1>11. counts \in Tallies /\ counts.sends >= counts.sends
  BY BackupTypesKnown, BackupConstants DEF Tallies
<1> QED BY <1>1, <1>6, <1>7, <1>8, <1>9, <1>10, <1>11, ContentsKeep

LEMMA RemovesKeeps ==
  ASSUME BackupInv, NEW d \in Archive, Removes(d)
  PROVE  BackupInv'
<1> DEFINE e == [store[d] EXCEPT !.zip = FALSE, !.leaving = store[d].leaving \/ store[d].zip]
<1>1. /\ store[d].zip /\ counts.sends < MaxSends
      /\ UNCHANGED <<library, moving, making, keeping, outgoing, drill>>
  BY DEF Removes
<1>2. /\ store[d] \in Entries /\ store[d].made /\ store[d].leaving \in BOOLEAN /\ store[d].zip \in BOOLEAN
  BY <1>1, EntryFields DEF BackupInv, StoreFits, Stored
<1>3. store' = [store EXCEPT ![d] = e]
  BY <1>2, BackupTypesKnown DEF Removes, Unlinked, Entries
<1>4. /\ e \in Entries /\ e.made = store[d].made /\ e.zip = FALSE /\ e.full = store[d].full
      /\ e.snap = store[d].snap /\ e.meant = store[d].meant /\ e.holds = store[d].holds
      /\ e.sidecar = store[d].sidecar
  BY <1>2 DEF Entries
<1> HIDE DEF e
<1>5. /\ counts' \in Tallies /\ counts'.sends >= counts.sends /\ counts'.crashed = counts.crashed
      /\ counts'.byHand # {}
  <2> DEFINE n == counts.sends + 1
  <2>1. counts.sends \in Nat /\ n \in 0 .. MaxSends /\ n >= counts.sends
    BY <1>1, BackupTypesKnown, BackupConstants DEF Tallies
  <2>2. counts' = [counts EXCEPT !.sends = n, !.byHand = @ \cup {d}]
    BY DEF Removes
  <2> HIDE DEF n
  <2> QED BY <2>1, <2>2, BackupTypesKnown DEF Tallies
<1>6. /\ store' \in [Archive -> Entries] /\ store'[d] = e
      /\ \A b \in Archive : b # d => store'[b] = store[b]
  BY <1>3, <1>4, EntryStored
<1>7. SameContents
  BY <1>4, <1>6 DEF SameContents
<1>8. StoreFits'
  <2>2. ASSUME NEW b \in Archive, b # d PROVE Stored(b)'
    <3>1. Stored(b) BY DEF BackupInv, StoreFits
    <3>2. store'[b] = store[b] BY <1>6, <2>2
    <3> QED BY <1>1, <3>1, <3>2 DEF Stored, Whole
  <2>3. Stored(d)'
    <3>1. Stored(d) BY DEF BackupInv, StoreFits
    <3> QED BY <1>1, <1>2, <1>4, <1>6, <3>1 DEF Stored, Whole
  <2>4. making.step # "none" => making.of \in Archive /\ ~store[making.of].made
    BY UnderWay
  <2>5. making.step # "none" => store'[making.of].sidecar = store[making.of].sidecar
    BY <1>2, <1>6, <2>4
  <2> QED BY <1>1, <2>2, <2>3, <2>5 DEF BackupInv, StoreFits, Archive
<1>9. KeepingFits'
  <2>1. ASSUME NEW b \in Archive, NEW c \in keeping[b].doomed PROVE store'[c].made
    <3>1. c \in Archive /\ store[c].made BY <2>1, EntryFields DEF BackupInv, KeepingFits
    <3> QED BY <1>7, <3>1 DEF SameContents
  <2> QED BY <1>1, <1>5, <2>1 DEF KeepingFits, Archive
<1> QED BY <1>1, <1>5, <1>6, <1>7, <1>8, <1>9, BackupTypesKnown, ContentsKeep

LEMMA DropsSidecarKeeps ==
  ASSUME BackupInv, NEW d \in Archive, DropsSidecar(d)
  PROVE  BackupInv'
<1> DEFINE e == [store[d] EXCEPT !.sidecar = FALSE, !.leaving = FALSE]
<1>1. /\ store[d].leaving /\ store' = [store EXCEPT ![d] = e]
      /\ UNCHANGED <<library, moving, making, keeping, outgoing, drill, counts>>
  BY DEF DropsSidecar
<1>2. /\ store[d] \in Entries /\ store[d].made /\ ~store[d].zip
  BY <1>1, EntryFields DEF BackupInv, StoreFits, Stored
<1>4. /\ e \in Entries /\ e.made = store[d].made /\ e.zip = store[d].zip /\ e.full = store[d].full
      /\ e.snap = store[d].snap /\ e.meant = store[d].meant /\ e.holds = store[d].holds
      /\ ~e.leaving
  BY <1>2 DEF Entries
<1> HIDE DEF e
<1>6. /\ store' \in [Archive -> Entries] /\ store'[d] = e
      /\ \A b \in Archive : b # d => store'[b] = store[b]
  BY <1>1, <1>4, EntryStored
<1>7. SameContents
  BY <1>4, <1>6 DEF SameContents
<1>8. StoreFits'
  <2>2. ASSUME NEW b \in Archive, b # d PROVE Stored(b)'
    <3>1. Stored(b) BY DEF BackupInv, StoreFits
    <3>2. store'[b] = store[b] BY <1>6, <2>2
    <3> QED BY <1>1, <3>1, <3>2 DEF Stored, Whole
  <2>3. Stored(d)'
    <3>1. Stored(d) BY DEF BackupInv, StoreFits
    <3> QED BY <1>1, <1>2, <1>4, <1>6, <3>1 DEF Stored, Whole
  <2>4. making.step # "none" => making.of \in Archive /\ ~store[making.of].made
    BY UnderWay
  <2>5. making.step # "none" => store'[making.of].sidecar = store[making.of].sidecar
    BY <1>2, <1>6, <2>4
  <2> QED BY <1>1, <2>2, <2>3, <2>5 DEF BackupInv, StoreFits, Archive
<1>9. KeepingFits'
  <2>1. ASSUME NEW b \in Archive, NEW c \in keeping[b].doomed PROVE store'[c].made
    <3>1. c \in Archive /\ store[c].made BY <2>1, EntryFields DEF BackupInv, KeepingFits
    <3> QED BY <1>7, <3>1 DEF SameContents
  <2>2. \A b \in Archive : store'[b].zip = store[b].zip
    BY <1>4, <1>6
  <2>3. Visible' = Visible
    BY <2>2 DEF Visible
  <2>4. ASSUME NEW b \in Archive, Doomed(b)', \A c \in Archive : Doomed(c) => Expendable(c) PROVE Expendable(b)'
    <3>1. Doomed(b) BY <1>1, <1>7, <2>2, <2>4 DEF Doomed, Archive, SameContents
    <3>2. \A c \in Visible \cup {b} : store'[c].full = store[c].full
      BY <1>7 DEF Visible, SameContents
    <3> QED BY <2>3, <2>4, <3>1, <3>2, MoreVisible
  <2> QED BY <1>1, <2>1, <2>4 DEF BackupInv, KeepingFits, Archive
<1>10. counts \in Tallies /\ counts.sends >= counts.sends
  BY BackupTypesKnown, BackupConstants DEF Tallies
<1> QED BY <1>1, <1>6, <1>7, <1>8, <1>9, <1>10, BackupTypesKnown, ContentsKeep

\* A step of a delivery, and of a drill, leaves the shelf alone.
LEMMA DeliveryKeeps ==
  ASSUME BackupInv, UNCHANGED <<library, moving, making, store, keeping, drill>>,
         outgoing' \in Outgoings, counts' \in Tallies, counts'.byHand = counts.byHand,
         SendingFits', DeliveriesAreHonest'
  PROVE  BackupInv'
<1>1. BackupTypeOK'
  BY BackupTypesKnown, TypesNext
<1>2. StoreFits' /\ KeepingFits' /\ MakingFits' /\ DrillFits'
  BY StoreStays, KeepingStays, MakingStays, DrillStays
<1> QED BY <1>1, <1>2 DEF BackupInv

\* What a courier carries, written over what it carried before.
LEMMA CoursesTypes ==
  ASSUME BackupInv, NEW c \in Courier, NEW r \in Errands, Courses(c, r)
  PROVE  /\ outgoing' \in Outgoings /\ outgoing'.by[c] = r
         /\ \A d \in Courier : d # c => outgoing'.by[d] = outgoing.by[d]
         /\ outgoing'.row = outgoing.row /\ outgoing'.got = outgoing.got /\ outgoing'.life = outgoing.life
<1> DEFINE by == [outgoing.by EXCEPT ![c] = r]
<1>1. by \in [Courier -> Errands] /\ by[c] = r /\ \A d \in Courier : d # c => by[d] = outgoing.by[d]
  BY BackupTypesKnown DEF Outgoings
<1>2. outgoing' = [outgoing EXCEPT !.by = by]
  BY BackupTypesKnown DEF Courses, Outgoings
<1> HIDE DEF by
<1> QED BY <1>1, <1>2, BackupTypesKnown DEF Outgoings

LEMMA SenderFields ==
  ASSUME BackupInv, NEW c \in Courier
  PROVE  /\ outgoing.by[c] \in Errands /\ outgoing.by[c].life \in 0 .. MaxSends + 1
         /\ outgoing.row \in [Archive -> {"none", "running", "completed", "failed"}]
         /\ outgoing.got \in [Archive -> SUBSET (1 .. MaxSends + 1)]
         /\ outgoing.by \in [Courier -> Errands]
         /\ outgoing.by[c].step # "idle" =>
              outgoing.by[c].of \in Archive /\ outgoing.by[c].life \in 1 .. MaxSends + 1
         /\ outgoing.by[c].step = "accepted" => outgoing.got[outgoing.by[c].of] # {}
         /\ outgoing.by[c].step \in {"idle", "read", "sending", "accepted", "refused"}
<1>1. outgoing.by[c] \in Errands /\ outgoing.by \in [Courier -> Errands]
  BY BackupTypesKnown DEF Outgoings
<1>2. outgoing.by[c].life \in 0 .. MaxSends + 1
      /\ outgoing.by[c].step \in {"idle", "read", "sending", "accepted", "refused"}
  BY <1>1 DEF Errands
<1> QED BY <1>1, <1>2, BackupTypesKnown, BackupConstants DEF Outgoings, BackupInv, SendingFits

LEMMA LooksAtKeeps ==
  ASSUME BackupInv, NEW c \in Courier, NEW a \in Archive, LooksAt(c, a)
  PROVE  BackupInv'
<1> DEFINE r == [step |-> "read", of |-> a, life |-> outgoing.life, new |-> outgoing.row[a] = "none"]
<1>1. /\ outgoing.by[c] = Resting /\ outgoing.life # 0 /\ counts.sends < MaxSends
      /\ Courses(c, r) /\ UNCHANGED <<library, moving, making, store, keeping, drill>>
  BY DEF LooksAt
<1>2. r \in Errands /\ r.step = "read" /\ r.of = a /\ r.life # 0
  BY <1>1, BackupTypesKnown, BackupConstants DEF Errands, Outgoings, Archive
<1> HIDE DEF r
<1>3. /\ outgoing' \in Outgoings /\ outgoing'.by[c] = r
      /\ \A d \in Courier : d # c => outgoing'.by[d] = outgoing.by[d]
      /\ outgoing'.row = outgoing.row /\ outgoing'.got = outgoing.got /\ outgoing'.life = outgoing.life
  BY <1>1, <1>2, CoursesTypes
<1>4. /\ counts' \in Tallies /\ counts'.sends = counts.sends + 1 /\ counts'.byHand = counts.byHand
      /\ counts'.crashed = counts.crashed
  <2> DEFINE n == counts.sends + 1
  <2>1. n \in 0 .. MaxSends
    BY <1>1, BackupTypesKnown, BackupConstants DEF Tallies
  <2>2. counts' = [counts EXCEPT !.sends = n]
    BY DEF LooksAt
  <2> HIDE DEF n
  <2>3. counts' \in Tallies /\ counts'.sends = n /\ counts'.byHand = counts.byHand /\ counts'.crashed = counts.crashed
    BY <2>1, <2>2, BackupTypesKnown DEF Tallies
  <2> QED BY <2>3 DEF n
<1>5. SendingFits'
  <2>1. outgoing.life <= counts.sends + 1 /\ outgoing.life \in Nat /\ counts.sends \in Nat
    BY BackupTypesKnown, BackupConstants DEF BackupInv, SendingFits, Tallies, Outgoings
  <2>2. outgoing'.life <= counts'.sends + 1
    BY <1>3, <1>4, <2>1
  <2>3. ASSUME NEW d \in Courier
        PROVE /\ outgoing'.by[d].step # "idle" => outgoing'.by[d].of \in Archive /\ outgoing'.by[d].life # 0
              /\ outgoing'.by[d].step = "accepted" => outgoing'.got[outgoing'.by[d].of] # {}
    BY <1>2, <1>3 DEF BackupInv, SendingFits
  <2> QED BY <2>2, <2>3 DEF SendingFits
<1>6. DeliveriesAreHonest'
  <2>1. ASSUME NEW b \in Archive, outgoing'.row[b] = "running", ~counts'.crashed
        PROVE \E d \in Courier : outgoing'.by[d].of = b /\ outgoing'.by[d].step # "read"
    <3>1. PICK d \in Courier : outgoing.by[d].of = b /\ outgoing.by[d].step # "read"
      BY <1>3, <1>4, <2>1 DEF BackupInv, DeliveriesAreHonest
    <3>2. d # c
      BY <1>1, <3>1 DEF Resting, Archive
    <3> QED BY <1>3, <3>1, <3>2
  <2> QED BY <1>3, <2>1 DEF BackupInv, DeliveriesAreHonest, Archive
<1> QED BY <1>1, <1>3, <1>4, <1>5, <1>6, DeliveryKeeps

\* What a courier with archive a does: it goes on as r, the row becomes s, received is g.
RowStates == {"none", "running", "completed", "failed"}
Errand(c, a, r, s, g) ==
  /\ outgoing.by[c].of = a /\ outgoing.by[c].step # "idle"
  /\ outgoing' = [outgoing EXCEPT !.by = [@ EXCEPT ![c] = r], !.row = [@ EXCEPT ![a] = s],
                                  !.got = [@ EXCEPT ![a] = g]]
  /\ UNCHANGED <<library, moving, making, store, keeping, drill, counts>>
  /\ outgoing.got[a] \subseteq g
  /\ r.step # "idle" => r.of = a /\ r.life # 0
  /\ r.step = "accepted" \/ s = "completed" => g # {}
  /\ s = "running" => r.step \notin {"idle", "read"} \/ (s = outgoing.row[a] /\ outgoing.by[c].step = "read")

LEMMA ErrandKeeps ==
  ASSUME BackupInv, NEW c \in Courier, NEW a \in Archive, NEW r \in Errands, NEW s \in RowStates,
         NEW g \in SUBSET (1 .. MaxSends + 1), Errand(c, a, r, s, g)
  PROVE  BackupInv'
<1> DEFINE by == [outgoing.by EXCEPT ![c] = r]
           marks == [outgoing.row EXCEPT ![a] = s]
           got == [outgoing.got EXCEPT ![a] = g]
<1>1. /\ by \in [Courier -> Errands] /\ by[c] = r /\ \A d \in Courier : d # c => by[d] = outgoing.by[d]
      /\ marks \in [Archive -> {"none", "running", "completed", "failed"}] /\ marks[a] = s
      /\ \A b \in Archive : b # a => marks[b] = outgoing.row[b]
      /\ got \in [Archive -> SUBSET (1 .. MaxSends + 1)] /\ got[a] = g
      /\ \A b \in Archive : b # a => got[b] = outgoing.got[b]
  BY SenderFields DEF RowStates
<1>2. /\ outgoing' = [outgoing EXCEPT !.by = by, !.row = marks, !.got = got]
      /\ UNCHANGED <<library, moving, making, store, keeping, drill, counts>>
      /\ r.step # "idle" => r.of = a /\ r.life # 0
      /\ r.step = "accepted" \/ s = "completed" => g # {}
      /\ s = "running" => r.step \notin {"idle", "read"} \/ (s = outgoing.row[a] /\ outgoing.by[c].step = "read")
      /\ outgoing.by[c].of = a /\ outgoing.by[c].step # "idle" /\ outgoing.got[a] \subseteq g
  BY DEF Errand
<1> HIDE DEF by, marks, got
<1>3. /\ outgoing' \in Outgoings /\ outgoing'.by = by /\ outgoing'.row = marks /\ outgoing'.got = got
      /\ outgoing'.life = outgoing.life
  BY <1>1, <1>2, BackupTypesKnown DEF Outgoings
<1>4. \A b \in Archive : outgoing.got[b] \subseteq got[b]
  BY <1>1, <1>2
<1>5. SendingFits'
  <2>1. ASSUME NEW d \in Courier
        PROVE /\ outgoing'.by[d].step # "idle" => outgoing'.by[d].of \in Archive /\ outgoing'.by[d].life # 0
              /\ outgoing'.by[d].step = "accepted" => outgoing'.got[outgoing'.by[d].of] # {}
    <3>1. CASE d = c BY <1>1, <1>2, <1>3, <3>1
    <3>2. CASE d # c
      <4>1. by[d] = outgoing.by[d] BY <1>1, <3>2
      <4>2. /\ by[d].step # "idle" => by[d].of \in Archive /\ by[d].life # 0
            /\ by[d].step = "accepted" => by[d].of \in Archive /\ outgoing.got[by[d].of] # {}
        BY <4>1 DEF BackupInv, SendingFits
      <4>3. by[d].step = "accepted" => got[by[d].of] # {}
        BY <1>4, <4>2
      <4> QED BY <1>3, <4>2, <4>3
    <3> QED BY <3>1, <3>2
  <2>2. outgoing.life <= counts.sends + 1 BY DEF BackupInv, SendingFits
  <2> QED BY <1>2, <1>3, <2>1, <2>2 DEF SendingFits
<1>6. DeliveriesAreHonest'
  <2>1. ASSUME NEW b \in Archive, marks[b] = "completed" PROVE got[b] # {}
    BY <1>1, <1>2, <1>4, <2>1 DEF BackupInv, DeliveriesAreHonest
  <2>2. ASSUME NEW b \in Archive, marks[b] = "running", ~counts.crashed
        PROVE \E d \in Courier : by[d].of = b /\ by[d].step # "read"
    <3>0. CASE b = a /\ r.step \notin {"idle", "read"}
      BY <1>1, <1>2, <3>0
    <3>1. CASE ~(b = a /\ r.step \notin {"idle", "read"})
      <4>1. outgoing.row[b] = "running" /\ (b = a => outgoing.by[c].step = "read")
        BY <1>1, <1>2, <2>2, <3>1
      <4>2. PICK d \in Courier : outgoing.by[d].of = b /\ outgoing.by[d].step # "read"
        BY <2>2, <4>1 DEF BackupInv, DeliveriesAreHonest
      <4>3. d # c BY <1>2, <4>1, <4>2
      <4> QED BY <1>1, <4>2, <4>3
    <3> QED BY <3>0, <3>1
  <2> QED BY <1>2, <1>3, <2>1, <2>2 DEF DeliveriesAreHonest, Archive
<1> QED BY <1>2, <1>3, <1>5, <1>6, BackupTypesKnown, DeliveryKeeps

LEMMA SameRow ==
  ASSUME BackupInv, NEW c \in Courier, NEW a \in Archive, NEW by,
         outgoing' = [outgoing EXCEPT !.by = by]
  PROVE  outgoing' = [outgoing EXCEPT !.by = by, !.row = [@ EXCEPT ![a] = outgoing.row[a]],
                                      !.got = [@ EXCEPT ![a] = outgoing.got[a]]]
<1>1. [outgoing.row EXCEPT ![a] = outgoing.row[a]] = outgoing.row BY SenderFields
<1>2. [outgoing.got EXCEPT ![a] = outgoing.got[a]] = outgoing.got BY SenderFields
<1> QED BY <1>1, <1>2, BackupTypesKnown DEF Outgoings

LEMMA MarksRunningKeeps ==
  ASSUME BackupInv, NEW c \in Courier, MarksRunning(c)
  PROVE  BackupInv'
<1> PICK a : a = outgoing.by[c].of OBVIOUS
<1>1. /\ outgoing.by[c].step = "read"
      /\ UNCHANGED <<library, moving, making, store, keeping, drill, counts>>
  BY DEF MarksRunning
<1>2. a \in Archive /\ outgoing.by[c] \in Errands /\ outgoing.by[c].life # 0
      /\ outgoing.got[a] \in SUBSET (1 .. MaxSends + 1)
      /\ outgoing.row[a] \in {"none", "running", "completed", "failed"}
  BY <1>1, SenderFields
<1>3. outgoing.row[a] = "completed" => outgoing.got[a] # {}
  BY <1>2 DEF BackupInv, DeliveriesAreHonest
<1>4. CASE outgoing.by[c].new /\ outgoing.row[a] # "none"
  <2> DEFINE by == [outgoing.by EXCEPT ![c] = Resting]
  <2>1. outgoing' = [outgoing EXCEPT !.by = by]
    BY <1>4, BackupTypesKnown DEF MarksRunning, Courses, Outgoings
  <2> HIDE DEF by
  <2>2. outgoing' = [outgoing EXCEPT !.by = by, !.row = [@ EXCEPT ![a] = outgoing.row[a]],
                                     !.got = [@ EXCEPT ![a] = outgoing.got[a]]]
    BY <1>2, <2>1, SameRow
  <2>3. PICK r \in Errands : r = Resting /\ r.step = "idle"
    BY NullTypes
  <2>4. Errand(c, a, r, outgoing.row[a], outgoing.got[a])
    BY <1>1, <1>3, <2>2, <2>3 DEF by, Errand
  <2> QED BY <1>2, <2>3, <2>4, ErrandKeeps DEF RowStates
<1>5. CASE ~(outgoing.by[c].new /\ outgoing.row[a] # "none")
  <2> DEFINE r == [outgoing.by[c] EXCEPT !.step = "sending"]
  <2>1. r \in Errands /\ r.step = "sending" /\ r.of = a /\ r.life # 0
    BY <1>2 DEF Errands
  <2>2. outgoing' = [outgoing EXCEPT !.by[c].step = "sending", !.row[a] = "running"]
    BY <1>5 DEF MarksRunning
  <2>3. outgoing' = [outgoing EXCEPT !.by = [@ EXCEPT ![c] = r], !.row = [@ EXCEPT ![a] = "running"]]
    BY <2>2, BackupTypesKnown DEF Outgoings
  <2>4. outgoing' = [outgoing EXCEPT !.by = [@ EXCEPT ![c] = r], !.row = [@ EXCEPT ![a] = "running"],
                                     !.got = [@ EXCEPT ![a] = outgoing.got[a]]]
    <3>1. [outgoing.got EXCEPT ![a] = outgoing.got[a]] = outgoing.got BY SenderFields
    <3> QED BY <2>3, <3>1, BackupTypesKnown DEF Outgoings
  <2> HIDE DEF r
  <2>5. Errand(c, a, r, "running", outgoing.got[a])
    BY <1>1, <2>1, <2>4 DEF Errand
  <2> QED BY <1>2, <2>1, <2>5, ErrandKeeps DEF RowStates
<1> QED BY <1>4, <1>5

LEMMA SendsKeeps ==
  ASSUME BackupInv, NEW c \in Courier, Sends(c)
  PROVE  BackupInv'
<1> PICK a : a = outgoing.by[c].of OBVIOUS
<1>1. /\ outgoing.by[c].step = "sending"
      /\ UNCHANGED <<library, moving, making, store, keeping, drill, counts>>
  BY DEF Sends
<1>2. /\ a \in Archive /\ outgoing.by[c] \in Errands /\ outgoing.by[c].life \in 1 .. MaxSends + 1
      /\ outgoing.by[c].life # 0
      /\ outgoing.got[a] \in SUBSET (1 .. MaxSends + 1)
      /\ outgoing.row[a] \in {"none", "running", "completed", "failed"}
  BY <1>1, SenderFields
<1>3. outgoing.row[a] = "completed" => outgoing.got[a] # {}
  BY <1>2 DEF BackupInv, DeliveriesAreHonest
<1>4. ASSUME NEW reply \in {"accepted", "refused"},
             outgoing' = [outgoing EXCEPT !.got[a] = @ \cup {outgoing.by[c].life}, !.by[c].step = reply]
      PROVE  BackupInv'
  <2> DEFINE r == [outgoing.by[c] EXCEPT !.step = reply]
             g == outgoing.got[a] \cup {outgoing.by[c].life}
  <2>1. r \in Errands /\ r.step = reply /\ r.of = a /\ r.life # 0
    BY <1>2 DEF Errands
  <2>2. g \in SUBSET (1 .. MaxSends + 1) /\ g # {} /\ outgoing.got[a] \subseteq g
    BY <1>2
  <2>3. outgoing' = [outgoing EXCEPT !.by = [@ EXCEPT ![c] = r], !.got = [@ EXCEPT ![a] = g]]
    BY <1>4, BackupTypesKnown DEF Outgoings
  <2>4. outgoing' = [outgoing EXCEPT !.by = [@ EXCEPT ![c] = r], !.row = [@ EXCEPT ![a] = outgoing.row[a]],
                                     !.got = [@ EXCEPT ![a] = g]]
    <3>1. [outgoing.row EXCEPT ![a] = outgoing.row[a]] = outgoing.row BY SenderFields
    <3> QED BY <2>3, <3>1, BackupTypesKnown DEF Outgoings
  <2>5. r.step \notin {"idle", "read"}
    BY <2>1
  <2> HIDE DEF r, g
  <2>6. Errand(c, a, r, outgoing.row[a], g)
    BY <1>1, <2>1, <2>2, <2>4, <2>5 DEF Errand
  <2> QED BY <1>2, <2>1, <2>2, <2>6, ErrandKeeps DEF RowStates
<1>5. ASSUME Courses(c, [outgoing.by[c] EXCEPT !.step = "refused"]) PROVE BackupInv'
  <2> DEFINE r == [outgoing.by[c] EXCEPT !.step = "refused"]
             by == [outgoing.by EXCEPT ![c] = r]
  <2>1. r \in Errands /\ r.step = "refused" /\ r.of = a /\ r.life # 0
    BY <1>2 DEF Errands
  <2>2. outgoing' = [outgoing EXCEPT !.by = by]
    BY <1>5, BackupTypesKnown DEF Courses, Outgoings
  <2> HIDE DEF by, r
  <2>3. outgoing' = [outgoing EXCEPT !.by = by, !.row = [@ EXCEPT ![a] = outgoing.row[a]],
                                     !.got = [@ EXCEPT ![a] = outgoing.got[a]]]
    BY <1>2, <2>2, SameRow
  <2>4. Errand(c, a, r, outgoing.row[a], outgoing.got[a])
    BY <1>1, <1>3, <2>1, <2>3 DEF by, Errand
  <2> QED BY <1>2, <2>1, <2>4, ErrandKeeps DEF RowStates
<1> QED BY <1>4, <1>5 DEF Sends

LEMMA SettlesKeeps ==
  ASSUME BackupInv, NEW c \in Courier, Settles(c)
  PROVE  BackupInv'
<1> PICK a : a = outgoing.by[c].of OBVIOUS
<1>1. /\ outgoing.by[c].step \in {"accepted", "refused"}
      /\ UNCHANGED <<library, moving, making, store, keeping, drill, counts>>
  BY DEF Settles
<1>2. PICK reply \in SettledAs(outgoing.by[c]) :
        outgoing' = [outgoing EXCEPT !.by[c] = Resting, !.row[a] = reply]
  BY DEF Settles
<1>3. /\ a \in Archive /\ outgoing.got[a] \in SUBSET (1 .. MaxSends + 1)
      /\ outgoing.by[c].step = "accepted" => outgoing.got[a] # {}
  BY <1>1, SenderFields
<1>4. reply \in {"completed", "failed"} /\ (reply = "completed" => outgoing.by[c].step = "accepted")
  BY DEF SettledAs
<1>5. outgoing' = [outgoing EXCEPT !.by = [@ EXCEPT ![c] = Resting], !.row = [@ EXCEPT ![a] = reply],
                                   !.got = [@ EXCEPT ![a] = outgoing.got[a]]]
  <2>1. [outgoing.got EXCEPT ![a] = outgoing.got[a]] = outgoing.got BY SenderFields
  <2> QED BY <1>2, <2>1, BackupTypesKnown DEF Outgoings
<1>6. PICK r \in Errands : r = Resting /\ r.step = "idle"
  BY NullTypes
<1>7. outgoing' = [outgoing EXCEPT !.by = [@ EXCEPT ![c] = r], !.row = [@ EXCEPT ![a] = reply],
                                   !.got = [@ EXCEPT ![a] = outgoing.got[a]]]
  BY <1>5, <1>6
<1>8. Errand(c, a, r, reply, outgoing.got[a])
  BY <1>1, <1>3, <1>4, <1>6, <1>7 DEF Errand
<1> QED BY <1>3, <1>4, <1>6, <1>8, ErrandKeeps DEF RowStates

\* Revokes and Authorises touch neither a row nor a sender.
LEMMA DestinationKeeps ==
  ASSUME BackupInv, Revokes \/ Authorises
  PROVE  BackupInv'
<1>1. outgoing.life \in 0 .. MaxSends + 1 /\ counts.sends \in 0 .. MaxSends /\ outgoing.life <= counts.sends + 1
  BY BackupTypesKnown DEF Outgoings, Tallies, BackupInv, SendingFits
<1>2. PICK l \in 0 .. MaxSends + 1, open \in BOOLEAN :
        /\ outgoing' = [outgoing EXCEPT !.open = open, !.life = l]
        /\ l <= counts'.sends + 1
        /\ counts' \in Tallies /\ counts'.byHand = counts.byHand /\ counts'.crashed = counts.crashed
  <2>1. CASE Revokes
    <3>1. outgoing' = [outgoing EXCEPT !.open = FALSE, !.life = outgoing.life] /\ counts' = counts
      BY <2>1, BackupTypesKnown DEF Revokes, Outgoings
    <3> QED BY <1>1, <3>1, BackupTypesKnown
  <2>2. CASE Authorises
    <3> DEFINE l == outgoing.life + 1
               n == counts.sends + 1
    <3>1. l \in 0 .. MaxSends + 1 /\ n \in 0 .. MaxSends /\ l <= n + 1
      BY <1>1, <2>2, BackupConstants DEF Authorises
    <3>2. outgoing' = [outgoing EXCEPT !.open = TRUE, !.life = l] /\ counts' = [counts EXCEPT !.sends = n]
      BY <2>2 DEF Authorises
    <3> HIDE DEF l, n
    <3>3. counts' \in Tallies /\ counts'.sends = n /\ counts'.byHand = counts.byHand /\ counts'.crashed = counts.crashed
      BY <3>1, <3>2, BackupTypesKnown DEF Tallies
    <3> QED BY <3>1, <3>2, <3>3
  <2> QED BY <2>1, <2>2
<1>3. /\ outgoing' \in Outgoings /\ outgoing'.by = outgoing.by /\ outgoing'.row = outgoing.row
      /\ outgoing'.got = outgoing.got /\ outgoing'.life = l
  BY <1>2, BackupTypesKnown DEF Outgoings
<1>4. SendingFits'
  BY <1>2, <1>3 DEF BackupInv, SendingFits
<1>5. DeliveriesAreHonest'
  BY <1>2, <1>3 DEF BackupInv, DeliveriesAreHonest
<1>6. UNCHANGED <<library, moving, making, store, keeping, drill>>
  BY DEF Revokes, Authorises
<1> QED BY <1>2, <1>3, <1>4, <1>5, <1>6, DeliveryKeeps

LEMMA DrillKeeps ==
  ASSUME BackupInv, DrillStep
  PROVE  BackupInv'
<1>0. UNCHANGED <<library, moving, making, store, keeping, outgoing, counts>>
  BY DEF DrillStep, Drills, Unpacks, Relinks, Approves, Spoils, Discards
<1>1. drill \in RestoreStep /\ 0 \in 0 .. MaxArchives /\ Archive \subseteq 0 .. MaxArchives
  BY BackupTypesKnown, BackupConstants DEF Archive
<1>2. ASSUME NEW a \in Archive, Drills(a) PROVE drill' \in RestoreStep /\ DrillFits'
  <2>1. drill' = [NoDrill EXCEPT !.step = "hashed", !.of = a] /\ store[a].zip /\ store[a].full
    BY <1>2 DEF Drills
  <2>2. drill' \in RestoreStep /\ drill'.step = "hashed" /\ drill'.of = a
    BY <1>1, <2>1, NullTypes DEF RestoreStep
  <2>3. store[a].made
    BY <2>1, EntryFields DEF BackupInv, StoreFits, Stored
  <2> QED BY <1>0, <2>1, <2>2, <2>3 DEF DrillFits, Archive
<1>3. ASSUME Unpacks PROVE drill' \in RestoreStep /\ DrillFits'
  <2> PICK a : a = drill.of OBVIOUS
  <2>1. drill' = [drill EXCEPT !.step = "extracted", !.media = store[a].holds] /\ drill.step = "hashed"
    BY <1>3 DEF Unpacks
  <2>2. a \in Archive /\ store[a].made /\ store[a].full /\ store[a].holds \in Held
    BY <2>1, EntryFields DEF BackupInv, DrillFits, Entries
  <2>3. drill' \in RestoreStep /\ drill'.step = "extracted" /\ drill'.of = a /\ drill'.media = store[a].holds
    BY <1>1, <2>1, <2>2 DEF RestoreStep
  <2> QED BY <1>0, <2>2, <2>3 DEF DrillFits, Archive
<1>4. ASSUME Relinks \/ Approves \/ Spoils PROVE drill' \in RestoreStep /\ DrillFits'
  <2>1. /\ drill.step # "none" /\ drill' \in RestoreStep /\ drill'.of = drill.of /\ drill'.media = drill.media
        /\ drill'.step \in {"extracted", "relinked", "ready"} => drill.step \in {"extracted", "relinked", "ready"}
    BY <1>1, <1>4 DEF Relinks, Approves, Spoils, RestoreStep
  <2> QED BY <1>0, <2>1 DEF BackupInv, DrillFits, Archive
<1>5. ASSUME Discards PROVE drill' \in RestoreStep /\ DrillFits'
  <2>1. drill' = NoDrill BY <1>5 DEF Discards
  <2> QED BY <2>1, NullTypes DEF DrillFits
<1>6. drill' \in RestoreStep /\ DrillFits'
  BY <1>2, <1>3, <1>4, <1>5 DEF DrillStep
<1>7. BackupTypeOK'
  BY <1>0, <1>6, BackupTypesKnown, TypesNext
<1>8. counts.sends \in Nat /\ counts.sends >= counts.sends
  BY BackupTypesKnown, BackupConstants DEF Tallies
<1>9. StoreFits' /\ KeepingFits' /\ MakingFits'
  BY <1>0, StoreStays, KeepingStays, MakingStays
<1>10. SendingFits' /\ DeliveriesAreHonest'
  BY <1>0, <1>8, SendingStays
<1> QED BY <1>6, <1>7, <1>9, <1>10 DEF BackupInv

LEMMA DiesKeeps ==
  ASSUME BackupInv, Dies
  PROVE  BackupInv'
<1>1. /\ moving' = Unmoved /\ making' = Unmade /\ drill' = NoDrill /\ library' = library
      /\ store' = [a \in Archive |-> [store[a] EXCEPT !.leaving = FALSE]]
      /\ keeping' = [a \in Archive |-> IF keeping[a].step = "none" /\ a # making.of THEN keeping[a]
                                       ELSE [step |-> "over", doomed |-> {}]]
      /\ outgoing' = [outgoing EXCEPT !.by = [c \in Courier |-> Resting]]
      /\ counts' = [counts EXCEPT !.crashed = TRUE]
  BY DEF Dies
<1>2. store' \in [Archive -> Entries]
      /\ \A a \in Archive : /\ store'[a].made = store[a].made /\ store'[a].full = store[a].full
                            /\ store'[a].snap = store[a].snap /\ store'[a].meant = store[a].meant
                            /\ store'[a].holds = store[a].holds /\ store'[a].zip = store[a].zip
                            /\ store'[a].sidecar = store[a].sidecar /\ ~store'[a].leaving
  <2>1. ASSUME NEW a \in Archive
        PROVE /\ store'[a] \in Entries
              /\ store'[a].made = store[a].made /\ store'[a].full = store[a].full
              /\ store'[a].snap = store[a].snap /\ store'[a].meant = store[a].meant
              /\ store'[a].holds = store[a].holds /\ store'[a].zip = store[a].zip
              /\ store'[a].sidecar = store[a].sidecar /\ ~store'[a].leaving
    <3> DEFINE e == [store[a] EXCEPT !.leaving = FALSE]
    <3>1. store[a] \in Entries /\ store'[a] = e BY <1>1, EntryFields
    <3>2. e \in Entries /\ e.made = store[a].made /\ e.full = store[a].full /\ e.snap = store[a].snap
          /\ e.meant = store[a].meant /\ e.holds = store[a].holds /\ e.zip = store[a].zip
          /\ e.sidecar = store[a].sidecar /\ ~e.leaving
      BY <3>1 DEF Entries
    <3> HIDE DEF e
    <3> QED BY <3>1, <3>2
  <2>2. store' = [a \in Archive |-> store'[a]]
    BY <1>1
  <2> QED BY <2>1, <2>2
<1>3. keeping' \in [Archive -> Passes]
      /\ \A a \in Archive : /\ keeping'[a].doomed \subseteq keeping[a].doomed
                            /\ keeping'[a].step = "none" => keeping[a].step = "none"
  <2>1. ASSUME NEW a \in Archive
        PROVE /\ keeping'[a] \in Passes /\ keeping'[a].doomed \subseteq keeping[a].doomed
              /\ keeping'[a].step = "none" => keeping[a].step = "none"
    BY <1>1, EntryFields DEF Passes
  <2>2. keeping' = [a \in Archive |-> keeping'[a]]
    BY <1>1
  <2> QED BY <2>1, <2>2
<1>4. /\ outgoing' \in Outgoings /\ \A c \in Courier : outgoing'.by[c].step = "idle"
      /\ outgoing'.life = outgoing.life /\ outgoing'.row = outgoing.row /\ outgoing'.got = outgoing.got
  <2> DEFINE by == [c \in Courier |-> Resting]
  <2>1. by \in [Courier -> Errands] /\ \A c \in Courier : by[c].step = "idle"
    BY NullTypes
  <2>2. outgoing' = [outgoing EXCEPT !.by = by]
    BY <1>1
  <2> HIDE DEF by
  <2> QED BY <2>1, <2>2, BackupTypesKnown DEF Outgoings
<1>5. /\ counts' \in Tallies /\ counts'.crashed /\ counts'.byHand = counts.byHand /\ counts'.sends = counts.sends
  BY <1>1, BackupTypesKnown DEF Tallies
<1>6. BackupTypeOK'
  BY <1>1, <1>2, <1>3, <1>4, <1>5, NullTypes, BackupTypesKnown, TypesNext
<1>7. MakingFits' /\ DrillFits'
  BY <1>1, NullTypes DEF MakingFits, Pinned, DrillFits
<1>8. StoreFits'
  <2>1. ASSUME NEW b \in Archive PROVE Stored(b)'
    <3>1. Stored(b) BY DEF BackupInv, StoreFits
    <3> QED BY <1>2, <1>3, <3>1 DEF Stored, Whole
  <2> QED BY <1>1, <2>1, NullTypes DEF StoreFits, Archive
<1>9. KeepingFits'
  <2>1. ASSUME NEW b \in Archive, NEW c \in keeping'[b].doomed PROVE store'[c].made
    <3>1. c \in Archive /\ store[c].made BY <1>3, <2>1, EntryFields DEF BackupInv, KeepingFits
    <3> QED BY <1>2, <3>1
  <2>2. Visible' = Visible
    BY <1>2 DEF Visible
  <2>3. ASSUME NEW b \in Archive, Doomed(b)', \A c \in Archive : Doomed(c) => Expendable(c) PROVE Expendable(b)'
    <3>1. Doomed(b) BY <1>2, <1>3, <2>3 DEF Doomed, Archive
    <3>2. \A c \in Visible \cup {b} : store'[c].full = store[c].full
      BY <1>2 DEF Visible
    <3> QED BY <2>2, <2>3, <3>1, <3>2, MoreVisible
  <2> QED BY <1>5, <2>1, <2>3 DEF BackupInv, KeepingFits, Archive
<1>10. SendingFits' /\ DeliveriesAreHonest'
  BY <1>4, <1>5 DEF BackupInv, SendingFits, DeliveriesAreHonest
<1> QED BY <1>6, <1>7, <1>8, <1>9, <1>10 DEF BackupInv

----------------------------------------------------------------------------
LEMMA BackupBegins ==
  ASSUME BackupInit
  PROVE  BackupInv
<1>0. 0 \in 0 .. MaxArchives /\ 0 \in 0 .. MaxSends + 1 /\ 1 \in 0 .. MaxSends + 1 /\ 0 \in 0 .. MaxWrites
      /\ 0 \in 0 .. MaxSends /\ {0, 1} \subseteq Bytes
  BY BackupConstants DEF Bytes
<1>1. library \in Libraries
  BY <1>0 DEF BackupInit, Libraries, Held
<1>2. moving \in Transactions /\ making \in Makings /\ drill \in RestoreStep
  BY NullTypes DEF BackupInit
<1>3. store \in [Archive -> Entries] /\ keeping \in [Archive -> Passes]
  BY NullTypes DEF BackupInit, Passes
<1>4. outgoing \in Outgoings /\ counts \in Tallies
  BY <1>0, NullTypes DEF BackupInit, Outgoings, Tallies
<1>5. BackupTypeOK
  BY <1>1, <1>2, <1>3, <1>4, BackupTypes
<1>6. MakingFits /\ DrillFits
  BY NullTypes DEF BackupInit, MakingFits, Pinned, DrillFits
<1>7. StoreFits
  BY NullTypes DEF BackupInit, StoreFits, Stored, Bare
<1>8. KeepingFits
  BY DEF BackupInit, KeepingFits, Doomed, Bare
<1>9. SendingFits /\ DeliveriesAreHonest
  <2>1. outgoing.life <= counts.sends + 1 BY DEF BackupInit
  <2>2. \A c \in Courier : outgoing.by[c].step = "idle" BY NullTypes DEF BackupInit
  <2>3. \A a \in Archive : outgoing.row[a] = "none" BY DEF BackupInit
  <2> QED BY <2>1, <2>2, <2>3 DEF SendingFits, DeliveriesAreHonest
<1> QED BY <1>5, <1>6, <1>7, <1>8, <1>9 DEF BackupInv

LEMMA BackupStepKeeps ==
  ASSUME BackupInv, [BackupNext]_backupVars
  PROVE  BackupInv'
<1>1. CASE FilesMove BY <1>1, FilesKeep
<1>2. CASE Makes
  BY <1>2, StartsArchiveKeeps, TakesSnapshotKeeps, PinsKeeps, CopiesKeeps, PacksKeeps, PutsSidecarKeeps,
     PutsArchiveKeeps, ArchiveFailsKeeps DEF Makes
<1>3. CASE Keeps
  BY <1>3, PlanningKeeps, RemovesKeeps, DropsSidecarKeeps, DeletesArchiveKeeps DEF Keeps
<1>4. CASE Delivers
  BY <1>4, LooksAtKeeps, MarksRunningKeeps, SendsKeeps, SettlesKeeps, DestinationKeeps DEF Delivers
<1>5. CASE DrillStep BY <1>5, DrillKeeps
<1>6. CASE Dies BY <1>6, DiesKeeps
<1>7. CASE UNCHANGED backupVars
  <2>1. UNCHANGED <<library, moving, making, store, keeping, outgoing, drill, counts>>
    BY <1>7 DEF backupVars
  <2>2. BackupTypeOK' BY <2>1, BackupTypesKnown, TypesNext
  <2>3. StoreFits' /\ KeepingFits' /\ MakingFits' /\ DrillFits'
    BY <2>1, StoreStays, KeepingStays, MakingStays, DrillStays
  <2>4. SendingFits' /\ DeliveriesAreHonest'
    BY <2>1 DEF BackupInv, SendingFits, DeliveriesAreHonest
  <2> QED BY <2>2, <2>3, <2>4 DEF BackupInv
<1> QED BY <1>1, <1>2, <1>3, <1>4, <1>5, <1>6, <1>7 DEF BackupNext

LEMMA BackupInvIsSafe ==
  ASSUME BackupInv
  PROVE  BackupSafety
<1>1. ArchiveIsWhole /\ VisibleHasSidecar
  BY DEF BackupInv, StoreFits, Stored, Whole, ArchiveIsWhole, VisibleHasSidecar, Visible
<1>2. RetentionKeepsEnough
  <2>1. SUFFICES ASSUME counts.byHand = {}
                 PROVE  /\ \A a \in Archive \ Visible : store[a].made => Cardinality(Newer(a)) >= KeepLatest
                        /\ (\E a \in Archive : store[a].full) => NewestFull # {}
    BY DEF RetentionKeepsEnough, Newer
  <2>2. ASSUME NEW a \in Archive, store[a].made, a \notin Visible PROVE Expendable(a)
    BY <2>1, <2>2 DEF Visible, Doomed, BackupInv, KeepingFits
  <2>3. ASSUME NEW a \in Archive, store[a].full PROVE NewestFull # {}
    <3>1. \E c \in Visible : store[c].full
      <4>1. CASE a \in Visible BY <2>3, <4>1
      <4>2. CASE a \notin Visible
        <5>1. store[a].made BY <2>3 DEF BackupInv, StoreFits, Stored
        <5> QED BY <2>2, <2>3, <4>2, <5>1 DEF Expendable, Newer
      <4> QED BY <4>1, <4>2
    <3> QED BY <3>1 DEF NewestFull
  <2> QED BY <2>2, <2>3 DEF Expendable
<1>3. DeliveriesAreHonest
  BY DEF BackupInv
<1>4. RestoredIsWhole
  <2>1. ASSUME drill.step = "ready", NEW m \in store[drill.of].snap
        PROVE  drill.media[m] = store[drill.of].meant[m] /\ drill.media[m] # 0
    <3>1. drill.of \in Archive /\ store[drill.of].full /\ drill.media = store[drill.of].holds
      BY <2>1 DEF BackupInv, DrillFits
    <3>2. Whole(drill.of) /\ m \in Media
      BY <2>1, <3>1, EntryFields DEF BackupInv, StoreFits, Stored, Entries
    <3> QED BY <2>1, <3>1, <3>2 DEF Whole
  <2> QED BY <2>1 DEF RestoredIsWhole
<1> QED BY <1>1, <1>2, <1>3, <1>4 DEF BackupSafety

LEMMA BackupInvariant == BackupSpec => []BackupInv
<1>1. BackupInit => BackupInv BY BackupBegins
<1>2. BackupInv /\ [BackupNext]_backupVars => BackupInv' BY BackupStepKeeps
<1> QED BY <1>1, <1>2, PTL DEF BackupSpec

\* The state of archives, passes, deliveries and drills always has its type.
THEOREM BackupTypeCorrect == BackupSpec => []BackupTypeOK
<1>1. BackupInv => BackupTypeOK BY DEF BackupInv
<1> QED BY <1>1, BackupInvariant, PTL

\* However files move, requests die and retention, operators and couriers interleave: a full
\* archive holds the bytes its snapshot names, what is listed has its digest, retention keeps
\* enough, what is called delivered was accepted, and an approved drill has every file.
THEOREM BackupsAreSafe == BackupSpec => []BackupSafety
<1>1. BackupInv => BackupSafety BY BackupInvIsSafe
<1> QED BY <1>1, BackupInvariant, PTL
=============================================================================
