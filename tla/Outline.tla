------------------------------ MODULE Outline ------------------------------
(***************************************************************************)
(* The chapters of a recording: src/src/localplaud/worker/outline.py.      *)
(*                                                                         *)
(* The transcript is sent in parts, and a model names the segments where   *)
(* chapters start.  What it names is filtered, joined over the parts,      *)
(* thinned where starts are close, and merged to a limit, by the model or  *)
(* without it.  The result has to pass validate_chapters, or all the calls *)
(* were for nothing.  The other method cuts the time into windows.         *)
(*                                                                         *)
(* Titles are left out.  Times are whole milliseconds.                     *)
(***************************************************************************)
EXTENDS Naturals, Sequences, FiniteSets, SequencesExt

CONSTANTS
    Timeline,       \* the transcripts: sequences of segments with start and end
    PartOf,         \* how many segments go into one part
    OutlineReplies, \* what the model may answer: sequences of numbers
    MaxChapters,    \* MAX_CHAPTERS
    FewChapters,    \* as many as need no consolidation
    Gap,            \* MIN_CHAPTER_GAP_MS
    PerChapter      \* the time one chapter should take

ASSUME OutlineConstants ==
    /\ {PartOf, MaxChapters, FewChapters, PerChapter} \subseteq Nat \ {0}
    /\ Gap \in Nat \ {0}

VARIABLES
    segments,       \* the transcript
    outlining,      \* map, join, consolidate, done or failed
    part,           \* the part that is asked for
    tries,          \* refused answers to that request
    starts,         \* numbers of the segments where chapters start
    chapters        \* the outline

outlineVars == <<segments, outlining, part, tries, starts, chapters>>

Lesser(a, b) == IF a < b THEN a ELSE b
Greater(a, b) == IF a > b THEN a ELSE b

(* _segments: ordered, and of positive length.                             *)
Ordered(s) ==
    /\ s # << >>
    /\ \A k \in DOMAIN s : s[k].start < s[k].end
    /\ \A k \in 2 .. Len(s) : s[k - 1].start <= s[k].start

EndOf(s) == FoldLeft(LAMBDA e, x : Greater(e, x.end), 0, s)
End == EndOf(segments)

(* round() of Python: halves go to the even neighbour.                     *)
Rounded(a, b) ==
    LET down == a \div b  rest == 2 * (a % b) IN
    IF rest > b \/ (rest = b /\ down % 2 = 1) THEN down + 1 ELSE down

Target == Greater(1, Lesser(MaxChapters, Rounded(End, PerChapter)))
Limit == Lesser(MaxChapters, Greater(Target + Target \div 2, FewChapters))

OutlineInit ==
    /\ segments \in Timeline /\ Ordered(segments)
    /\ outlining = "map" /\ part = 1 /\ tries = 0
    /\ starts = << >> /\ chapters = << >>

(* _parts: every segment is in one part.                                   *)
Parts == (Len(segments) + PartOf - 1) \div PartOf
Ids(p) == ((p - 1) * PartOf + 1) .. Lesser(p * PartOf, Len(segments))

(* _parse_map and _parse_consolidation: what is out of range or out of     *)
(* order is passed over.                                                   *)
Named(raw, valid) ==
    FoldLeft(LAMBDA acc, n : IF n \in valid /\ (acc = << >> \/ n > Last(acc)) THEN Append(acc, n) ELSE acc,
             << >>, raw)

(* An answer without a usable chapter is asked for again, once.            *)
MapAnswers(raw) ==
    /\ outlining = "map"
    /\ LET found == Named(raw, Ids(part)) IN
         IF found = << >>
           THEN /\ outlining' = IF tries = 1 THEN "failed" ELSE "map"
                /\ tries' = tries + 1
                /\ UNCHANGED <<part, starts>>
           ELSE /\ starts' = starts \o found
                /\ tries' = 0
                /\ part' = part + 1
                /\ outlining' = IF part = Parts THEN "join" ELSE "map"
    /\ UNCHANGED <<segments, chapters>>

(* Mutant: what is close is measured from the first start, not the last.   *)
ApartFromFirst(ids) ==
    FoldLeft(LAMBDA acc, n :
               IF acc # << >> /\ segments[n].start < segments[Head(acc)].start + Gap THEN acc ELSE Append(acc, n),
             << >>, ids)

(* _fold_close_starts, after the first start was moved to the beginning.   *)
Apart(ids) ==
    FoldLeft(LAMBDA acc, n :
               IF acc # << >> /\ segments[n].start < segments[Last(acc)].start + Gap THEN acc ELSE Append(acc, n),
             << >>, ids)

Joins ==
    /\ outlining = "join"
    /\ starts' = Apart([starts EXCEPT ![1] = 1])
    /\ outlining' = IF Len(starts') > Limit THEN "consolidate" ELSE "cut"
    /\ UNCHANGED <<segments, part, tries, chapters>>

(* _merge_to_limit: the shortest chapter but the first joins the one       *)
(* before it.                                                              *)
Length(ids, k) ==
    (IF k < Len(ids) THEN segments[ids[k + 1]].start ELSE End) - segments[ids[k]].start
Shortest(ids) ==
    CHOOSE k \in 2 .. Len(ids) :
        \A l \in 2 .. Len(ids) : Length(ids, k) < Length(ids, l) \/ (Length(ids, k) = Length(ids, l) /\ k <= l)
Merged(ids) ==
    FoldLeft(LAMBDA acc, n : RemoveAt(acc, Shortest(acc)), ids, [n \in 1 .. Len(ids) - Limit |-> n])

(* Two answers; one that names no chapter or too many is not taken.        *)
Consolidates(raw) ==
    /\ outlining = "consolidate"
    /\ LET picked == Named(raw, DOMAIN starts)
           first == [k \in DOMAIN picked |-> IF k = 1 THEN 1 ELSE picked[k]] IN
         IF picked # << >> /\ Len(picked) <= Limit
           THEN /\ starts' = [k \in DOMAIN first |-> starts[first[k]]]
                /\ outlining' = "cut" /\ tries' = 0
           ELSE /\ starts' = IF tries = 1 THEN Merged(starts) ELSE starts
                /\ outlining' = IF tries = 1 THEN "cut" ELSE "consolidate"
                /\ tries' = tries + 1
    /\ UNCHANGED <<segments, part, chapters>>

Cut(ids) ==
    [k \in DOMAIN ids |->
        [start |-> IF k = 1 THEN 0 ELSE segments[ids[k]].start,
         end |-> IF k < Len(ids) THEN segments[ids[k + 1]].start ELSE End]]

Cuts ==
    /\ outlining = "cut"
    /\ chapters' = Cut(starts)
    /\ outlining' = "done"
    /\ UNCHANGED <<segments, part, tries, starts>>

OutlineNext ==
    \/ \E raw \in OutlineReplies : MapAnswers(raw) \/ Consolidates(raw)
    \/ Joins \/ Cuts

OutlineSpec == OutlineInit /\ [][OutlineNext]_outlineVars

(* time_slice_outline: a window begins with the first segment in it.       *)
Window == Greater(PerChapter, (End + MaxChapters - 1) \div MaxChapters)
Slices ==
    LET first(k) == k = 1 \/ segments[k].start \div Window # segments[k - 1].start \div Window IN
    SelectSeq([k \in DOMAIN segments |-> k], first)

----------------------------------------------------------------------------
(* Properties.                                                             *)

OutlineTypeOK ==
    /\ segments \in Timeline
    /\ outlining \in {"map", "join", "consolidate", "cut", "done", "failed"}
    /\ part \in 1 .. Parts + 1 /\ tries \in 0 .. 2
    /\ \A k \in DOMAIN starts : starts[k] \in DOMAIN segments

(* validate_chapters.                                                      *)
Covers(cs) ==
    /\ cs # << >> /\ cs[1].start = 0 /\ cs[Len(cs)].end = End
    /\ \A k \in DOMAIN cs : cs[k].start < cs[k].end
    /\ \A k \in 2 .. Len(cs) : cs[k - 1].end = cs[k].start

(* Whatever the model answers, a transcript that could be outlined at all  *)
(* gets an outline that covers it without a gap, in no more chapters than  *)
(* fit the list: what the calls have cost is never thrown away by the      *)
(* validation at the end.                                                  *)
OutlineCovers ==
    outlining = "done" =>
        /\ Covers(chapters)
        /\ Len(chapters) <= Limit
        /\ \A k \in 3 .. Len(chapters) : chapters[k].start - chapters[k - 1].start >= Gap

(* So does the outline of time slices.                                     *)
SlicesCover ==
    Covers(Cut(Slices)) /\ Len(Slices) <= MaxChapters

OutlineSafety == OutlineCovers /\ SlicesCover
=============================================================================
