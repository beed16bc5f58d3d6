--------------------------- MODULE NoteReduction ---------------------------
(***************************************************************************)
(* Notes and mind maps of recordings that do not fit one request:          *)
(* src/src/localplaud/worker/summarize.py and mindmap.py.                  *)
(*                                                                         *)
(* The transcript is cut into chunks, each chunk gives a note, and the     *)
(* notes are reduced, group by group and round by round, until they fit.   *)
(* A model may ignore every limit it is given: a group is asked for twice, *)
(* a round in which no group shrank is the last, and so is the eighth.     *)
(* What does not fit then goes into one request for a note, and into one   *)
(* for every group for a mind map.                                         *)
(*                                                                         *)
(* A text is its length and the chunks it tells of.  All notes are of one  *)
(* line.                                                                   *)
(***************************************************************************)
EXTENDS Naturals, Sequences, FiniteSets, SequencesExt

CONSTANTS
    LongChunks,     \* chunks of the transcript, more than one
    ChunkChars,     \* what fits one request
    NoteLength,     \* how long a reply may be
    MaxRounds,      \* max_rounds of reduce_notes
    Writing         \* what is written: notes, maps

ASSUME ReductionConstants ==
    /\ {LongChunks, ChunkChars, MaxRounds} \subseteq Nat \ {0} /\ NoteLength \subseteq Nat
    /\ Writing \subseteq {"note", "map"}

VARIABLES
    writing,        \* what this one is
    reducing,       \* map, check, ask, tighten, finish, title, done or failed
    notes,          \* the notes of this round
    groups,         \* its groups that wait
    reduced,        \* their replies so far
    progressed,     \* one of them shrank
    rounds,         \* rounds so far
    result          \* the lengths of the final requests, and the title

reductionVars == <<writing, reducing, notes, groups, reduced, progressed, rounds, result>>

Text(length, tells) == [length |-> length, tells |-> tells]
Joined(texts) ==
    FoldLeft(LAMBDA n, t : n + t.length, 0, texts) + (IF texts = << >> THEN 0 ELSE 2 * (Len(texts) - 1))
Tells(texts) == UNION {texts[k].tells : k \in DOMAIN texts}

ReductionInit ==
    /\ writing \in Writing /\ reducing = "map"
    /\ notes = << >> /\ groups = << >> /\ reduced = << >>
    /\ progressed = FALSE /\ rounds = 0
    /\ result = [requests |-> << >>, title |-> "none"]

MapsChunk(length) ==
    /\ reducing = "map"
    /\ notes' = Append(notes, Text(length, {Len(notes) + 1}))
    /\ reducing' = IF Len(notes') = LongChunks THEN "check" ELSE "map"
    /\ UNCHANGED <<writing, groups, reduced, progressed, rounds, result>>

(* _chunk_text.                                                            *)
Pieces(t) ==
    LET whole == t.length \div ChunkChars  rest == t.length % ChunkChars IN
    [k \in 1 .. whole |-> Text(ChunkChars, t.tells)]
        \o (IF rest > 0 \/ whole = 0 THEN <<Text(rest, t.tells)>> ELSE << >>)

(* _group_notes.                                                           *)
Grouped(texts) ==
    FoldLeft(LAMBDA acc, t : IF acc # << >> /\ Joined(Append(Last(acc), t)) <= ChunkChars
                               THEN Append(Front(acc), Append(Last(acc), t))
                               ELSE Append(acc, <<t>>),
             << >>, FlattenSeq([k \in DOMAIN texts |-> Pieces(texts[k])]))

Fits(texts) == Joined(texts) <= ChunkChars

RoundBegins ==
    /\ reducing = "check" /\ ~Fits(notes) /\ rounds < MaxRounds
    /\ rounds' = rounds + 1
    /\ groups' = Grouped(notes) /\ reduced' = << >> /\ progressed' = FALSE
    /\ reducing' = "ask"
    /\ UNCHANGED <<writing, notes, result>>

Stays(length) == 10 * length > 8 * Joined(Head(groups))

TakesReply(length) ==
    /\ reduced' = Append(reduced, Text(length, Tells(Head(groups))))
    /\ groups' = Tail(groups)
    /\ progressed' = (progressed \/ ~Stays(length))
    /\ reducing' = "ask"

(* The first reply for a group, and the second if it was hardly shorter.   *)
Reduces(length) ==
    /\ reducing \in {"ask", "tighten"} /\ groups # << >>
    /\ IF reducing = "ask" /\ Stays(length)
         THEN reducing' = "tighten" /\ UNCHANGED <<groups, reduced, progressed>>
         ELSE TakesReply(length)
    /\ UNCHANGED <<writing, notes, rounds, result>>

RoundEnds ==
    /\ reducing = "ask" /\ groups = << >>
    /\ notes' = reduced /\ reduced' = << >>
    /\ reducing' = IF progressed THEN "check" ELSE "finish"
    /\ UNCHANGED <<writing, groups, progressed, rounds, result>>

ReductionEnds ==
    /\ reducing = "check" /\ (Fits(notes) \/ rounds = MaxRounds)
    /\ reducing' = "finish"
    /\ UNCHANGED <<writing, notes, groups, reduced, progressed, rounds, result>>

(* The requests that write the result: of a mind map, one for each group   *)
(* when the notes do not fit one, and the trees are merged.                *)
Finals ==
    IF writing = "map" /\ ~Fits(notes) THEN Grouped(notes) ELSE <<notes>>

(* The reply has no content, or its structure broke off; or the title is   *)
(* one of the template.                                                    *)
Writes(title) ==
    /\ reducing = "finish"
    /\ result' = [requests |-> [k \in DOMAIN Finals |-> Text(Joined(Finals[k]), Tells(Finals[k]))],
                  title |-> IF writing = "map" THEN "none" ELSE title]
    /\ reducing' = IF writing = "note" /\ title = "leaked" THEN "title" ELSE "done"
    /\ UNCHANGED <<writing, notes, groups, reduced, progressed, rounds>>

WriteRaises ==
    /\ reducing \in {"map", "ask", "tighten", "finish"} /\ (reducing = "ask" => groups # << >>)
    /\ reducing' = "failed"
    /\ UNCHANGED <<writing, notes, groups, reduced, progressed, rounds, result>>

(* One request for another title; whatever becomes of it, the note stays.  *)
RepairsTitle(title) ==
    /\ reducing = "title"
    /\ result' = [result EXCEPT !.title = title]
    /\ reducing' = "done"
    /\ UNCHANGED <<writing, notes, groups, reduced, progressed, rounds>>

ReductionNext ==
    \/ \E length \in NoteLength : MapsChunk(length) \/ Reduces(length)
    \/ RoundBegins \/ RoundEnds \/ ReductionEnds \/ WriteRaises
    \/ \E title \in {"good", "leaked", "none"} : Writes(title) \/ RepairsTitle(title)

ReductionSpec == ReductionInit /\ [][ReductionNext]_reductionVars

----------------------------------------------------------------------------
(* Properties.                                                             *)

ReductionTypeOK ==
    /\ writing \in Writing
    /\ reducing \in {"map", "check", "ask", "tighten", "finish", "title", "done", "failed"}
    /\ \A k \in DOMAIN notes : notes[k].length \in Nat /\ notes[k].tells \subseteq 1 .. LongChunks
    /\ progressed \in BOOLEAN /\ rounds \in 0 .. MaxRounds

(* Nothing of the recording is dropped on the way, however the model       *)
(* answers: while a round goes on its replies and its groups tell of every *)
(* chunk, and the final requests do, in the order of the recording (the    *)
(* pieces of one long note may end up in two).                             *)
InOrder(texts) ==
    \A k \in 2 .. Len(texts) :
        /\ Min(texts[k - 1].tells) <= Min(texts[k].tells)
        /\ Max(texts[k - 1].tells) <= Max(texts[k].tells)
EveryChunkIsTold ==
    /\ reducing \in {"ask", "tighten"} =>
         Tells(reduced) \cup UNION {Tells(groups[k]) : k \in DOMAIN groups} = 1 .. LongChunks
    /\ reducing \notin {"map", "failed"} => Tells(notes) = 1 .. LongChunks /\ InOrder(notes)
    /\ reducing = "done" => Tells(result.requests) = 1 .. LongChunks

(* Every request fits, but for the one of a note that eight rounds, or one *)
(* in which nothing shrank, left too long.                                 *)
RequestsFit ==
    /\ \A k \in DOMAIN groups : Joined(groups[k]) <= ChunkChars
    /\ reducing = "done" =>
         \A k \in DOMAIN result.requests :
             \/ result.requests[k].length <= ChunkChars
             \/ writing = "note" /\ (rounds = MaxRounds \/ ~progressed)

ReductionSafety == EveryChunkIsTold /\ RequestsFit
=============================================================================
