-------------------------- MODULE TranscriptPolish --------------------------
(***************************************************************************)
(* The correction of a transcript: src/src/localplaud/worker/polish.py and *)
(* correction_review.py.                                                   *)
(*                                                                         *)
(* Ranges of segments are sent to a model, several at a time.  A reply     *)
(* that is late or of no use splits its range in two, down to one segment. *)
(* Then the edits are sent to a reviewer in batches, which split likewise. *)
(* Only edits the reviewer has approved are applied to the source.         *)
(*                                                                         *)
(* A segment has its source wording or one proposed edit.  A reply that    *)
(* numbers its segments anew, in order and completely, is put right and    *)
(* counts as a reply.  Timing, speakers and script are left out.           *)
(***************************************************************************)
EXTENDS Naturals, Sequences, FiniteSets

CONSTANTS
    Segments,       \* segments of the transcript
    Blank,          \* those without text
    PolishRange,    \* the ranges <<first, last>> that fit pipeline.polish_chunk_chars (_chunks):
                    \* one after the other, until the transcript ends
    ReviewBatch,    \* how many edits fit one review
    PolishWorkers   \* pipeline.polish_parallelism

ASSUME PolishConstants ==
    /\ Segments \in Nat \ {0} /\ Blank \subseteq 1 .. Segments
    /\ PolishRange \in Seq((1 .. Segments) \X (1 .. Segments))
    /\ \A c \in DOMAIN PolishRange : PolishRange[c][1] <= PolishRange[c][2]
    /\ \A c, d \in DOMAIN PolishRange : c < d => PolishRange[c][2] < PolishRange[d][1]
    /\ \A s \in 1 .. Segments : \E c \in DOMAIN PolishRange : s \in PolishRange[c][1] .. PolishRange[c][2]
    /\ ReviewBatch \in Nat \ {0} /\ PolishWorkers \in Nat \ {0}

VARIABLES
    polishing,      \* propose, review, published or failed
    stack,          \* the ranges that a worker of propose has to do
    polisher,       \* what that worker does
    retried,        \* segments that have been asked for twice by themselves
    wording,        \* polished: source or fixed
    completed,      \* target_segments_completed
    kept,           \* kept_source
    unfinished,     \* unfinished
    attempts,       \* attempts
    reviewStack,    \* the batches of edits that a worker of review has to do
    reviewer,       \* what that worker does
    decision        \* the decisions on the edits

proposal == <<stack, polisher, retried, wording, completed, kept, unfinished, attempts>>
reviews == <<reviewStack, reviewer, decision>>
polishVars == <<polishing, proposal, reviews>>

Segment == 1 .. Segments
Targets(range) == (range[1] .. range[2]) \ Blank
Polishers == DOMAIN PolishRange
WorkerStates == {"waiting", "next", "asked", "done", "raised"}

PolishInit ==
    /\ polishing = "propose"
    /\ stack = [c \in Polishers |-> <<PolishRange[c]>>]
    /\ polisher = [c \in Polishers |-> "waiting"]
    /\ retried = {}
    /\ wording = [s \in Segment |-> "source"]
    /\ completed = 0 /\ kept = 0 /\ attempts = 0
    /\ unfinished = Len(PolishRange)
    /\ reviewStack = << >> /\ reviewer = << >>
    /\ decision = [s \in Segment |-> "none"]

----------------------------------------------------------------------------
(* _propose_corrections.                                                   *)

Meets(workers) == \E c \in DOMAIN workers : workers[c] = "raised" /\ \A d \in 1 .. c - 1 : workers[d] = "done"
AtWork(workers) == {c \in DOMAIN workers : workers[c] \in {"next", "asked"}}
MayStart(workers, c) ==
    /\ workers[c] = "waiting" /\ \A d \in 1 .. c - 1 : workers[d] # "waiting"
    /\ Cardinality(AtWork(workers)) < PolishWorkers /\ ~Meets(workers)

ProposerStarts(c) ==
    /\ polishing = "propose" /\ MayStart(polisher, c)
    /\ polisher' = [polisher EXCEPT ![c] = "next"]
    /\ UNCHANGED <<polishing, stack, retried, wording, completed, kept, unfinished, attempts, reviews>>

(* A range of blank segments is left out; the last range ends the worker.  *)
TakesRange(c) ==
    /\ polisher[c] = "next"
    /\ \/ /\ stack[c] = << >>
          /\ polisher' = [polisher EXCEPT ![c] = "done"]
          /\ UNCHANGED <<stack, unfinished, attempts>>
       \/ /\ stack[c] # << >> /\ Targets(Head(stack[c])) = {}
          /\ stack' = [stack EXCEPT ![c] = Tail(@)]
          /\ unfinished' = unfinished - 1
          /\ UNCHANGED <<polisher, attempts>>
       \/ /\ stack[c] # << >> /\ Targets(Head(stack[c])) # {}
          /\ polisher' = [polisher EXCEPT ![c] = "asked"]
          /\ attempts' = attempts + 1
          /\ UNCHANGED <<stack, unfinished>>
    /\ UNCHANGED <<polishing, retried, wording, completed, kept, reviews>>

Asked(c) == polishing = "propose" /\ polisher[c] = "asked"
RangeAt(c) == Head(stack[c])
Single(range) == range[1] = range[2]

Completes(c) ==
    /\ stack' = [stack EXCEPT ![c] = Tail(@)]
    /\ completed' = completed + Cardinality(Targets(RangeAt(c)))
    /\ unfinished' = unfinished - 1

(* A segment that is missing in the reply, or empty there, stays as it is. *)
Corrects(c) ==
    /\ Asked(c)
    /\ \E fixed, left \in SUBSET Targets(RangeAt(c)) :
         /\ fixed \cap left = {}
         /\ wording' = [s \in Segment |-> IF s \in fixed THEN "fixed" ELSE wording[s]]
         /\ kept' = kept + Cardinality(left)
    /\ Completes(c)
    /\ polisher' = [polisher EXCEPT ![c] = "next"]
    /\ UNCHANGED <<polishing, retried, attempts, reviews>>

(* Mutant: the segment in the middle is in neither half.                   *)
HalvesApart(range) ==
    LET middle == range[1] + (range[2] + 1 - range[1]) \div 2 IN
    IF middle = range[2] THEN << <<range[1], middle - 1>> >>
    ELSE << <<range[1], middle - 1>>, <<middle + 1, range[2]>> >>

Halves(range) ==
    LET middle == range[1] + (range[2] + 1 - range[1]) \div 2 IN
    << <<range[1], middle - 1>>, <<middle, range[2]>> >>

Splits(c) ==
    /\ Asked(c) /\ ~Single(RangeAt(c))
    /\ stack' = [stack EXCEPT ![c] = Halves(Head(@)) \o Tail(@)]
    /\ unfinished' = unfinished + 1
    /\ polisher' = [polisher EXCEPT ![c] = "next"]
    /\ UNCHANGED <<polishing, retried, wording, completed, kept, attempts, reviews>>

(* A reply of no use for one segment is asked for once more, and then the  *)
(* source stays.                                                           *)
AsksOnceMore(c) ==
    /\ Asked(c) /\ Single(RangeAt(c)) /\ RangeAt(c)[1] \notin retried
    /\ retried' = retried \cup {RangeAt(c)[1]}
    /\ polisher' = [polisher EXCEPT ![c] = "next"]
    /\ UNCHANGED <<polishing, stack, wording, completed, kept, unfinished, attempts, reviews>>

KeepsSource(c) ==
    /\ Asked(c) /\ Single(RangeAt(c)) /\ RangeAt(c)[1] \in retried
    /\ kept' = kept + Cardinality(Targets(RangeAt(c)))
    /\ Completes(c)
    /\ polisher' = [polisher EXCEPT ![c] = "next"]
    /\ UNCHANGED <<polishing, retried, wording, attempts, reviews>>

(* A timeout on one segment, or a provider that is away.                   *)
ProposerRaises(c) ==
    /\ Asked(c)
    /\ polisher' = [polisher EXCEPT ![c] = "raised"]
    /\ UNCHANGED <<polishing, stack, retried, wording, completed, kept, unfinished, attempts, reviews>>

----------------------------------------------------------------------------
(* review_corrections.                                                     *)

Edits == {s \in Segment : wording[s] = "fixed"}
Rank(s) == Cardinality({e \in Edits : e < s})
BatchOf(n) == {s \in Edits : Rank(s) \div ReviewBatch = n - 1}
BatchCount == (Cardinality(Edits) + ReviewBatch - 1) \div ReviewBatch

ReviewBegins ==
    /\ polishing = "propose" /\ \A c \in Polishers : polisher[c] = "done"
    /\ polishing' = "review"
    /\ reviewStack' = [n \in 1 .. BatchCount |-> <<BatchOf(n)>>]
    /\ reviewer' = [n \in 1 .. BatchCount |-> "waiting"]
    /\ UNCHANGED <<proposal, decision>>

ReviewerStarts(n) ==
    /\ polishing = "review" /\ MayStart(reviewer, n)
    /\ reviewer' = [reviewer EXCEPT ![n] = "asked"]
    /\ UNCHANGED <<polishing, proposal, reviewStack, decision>>

AtReview(n) == polishing = "review" /\ reviewer[n] = "asked"
Batch(n) == Head(reviewStack[n])

Decided(n, approved) ==
    /\ decision' = [s \in Segment |-> IF s \notin Batch(n) THEN decision[s]
                                      ELSE IF s \in approved THEN "approved" ELSE "rejected"]
    /\ reviewStack' = [reviewStack EXCEPT ![n] = Tail(@)]
    /\ reviewer' = [reviewer EXCEPT ![n] = IF Len(reviewStack[n]) = 1 THEN "done" ELSE "asked"]

(* Every edit of the batch is decided; a reply that leaves one out is of   *)
(* no use.                                                                 *)
Decides(n) ==
    /\ AtReview(n)
    /\ \E approved \in SUBSET Batch(n) : Decided(n, approved)
    /\ UNCHANGED <<polishing, proposal>>

(* The provider will not look at the text of one edit.                     *)
Declines(n) ==
    /\ AtReview(n) /\ Cardinality(Batch(n)) = 1
    /\ Decided(n, {})
    /\ UNCHANGED <<polishing, proposal>>

Lower(batch) ==
    {s \in batch : Cardinality({e \in batch : e < s}) < Cardinality(batch) \div 2}

ReviewSplits(n) ==
    /\ AtReview(n) /\ Cardinality(Batch(n)) > 1
    /\ reviewStack' =
         [reviewStack EXCEPT ![n] = <<Lower(Head(@)), Head(@) \ Lower(Head(@))>> \o Tail(@)]
    /\ UNCHANGED <<polishing, proposal, reviewer, decision>>

ReviewerRaises(n) ==
    /\ AtReview(n)
    /\ reviewer' = [reviewer EXCEPT ![n] = "raised"]
    /\ UNCHANGED <<polishing, proposal, reviewStack, decision>>

Applied(s) == decision[s] = "approved"

(* The text is composed from the source once every batch has validated.    *)
Composes ==
    /\ polishing = "review" /\ \A n \in DOMAIN reviewer : reviewer[n] = "done"
    /\ polishing' = "published"
    /\ wording' = [s \in Segment |-> IF wording[s] = "fixed" /\ Applied(s) THEN "fixed" ELSE "source"]
    /\ UNCHANGED <<stack, polisher, retried, completed, kept, unfinished, attempts, reviews>>

(* The stage is left to the retries of the pipeline.                       *)
PolishFails ==
    /\ \/ polishing = "propose" /\ Meets(polisher) /\ AtWork(polisher) = {}
       \/ polishing = "review" /\ Meets(reviewer) /\ AtWork(reviewer) = {}
    /\ polishing' = "failed"
    /\ UNCHANGED <<proposal, reviews>>

ProposerStep(c) ==
    \/ ProposerStarts(c) \/ TakesRange(c) \/ Splits(c) \/ AsksOnceMore(c) \/ KeepsSource(c)
    \/ ProposerRaises(c) \/ Corrects(c)

ReviewerStep(n) ==
    \/ ReviewerStarts(n) \/ Decides(n) \/ Declines(n) \/ ReviewSplits(n) \/ ReviewerRaises(n)

PolishNext ==
    \/ \E c \in Polishers : ProposerStep(c)
    \/ ReviewBegins \/ Composes \/ PolishFails
    \/ \E n \in DOMAIN reviewer : ReviewerStep(n)

PolishSpec == PolishInit /\ [][PolishNext]_polishVars

----------------------------------------------------------------------------
(* Properties.                                                             *)

PolishTypeOK ==
    /\ polishing \in {"propose", "review", "published", "failed"}
    /\ DOMAIN stack = Polishers /\ polisher \in [Polishers -> WorkerStates]
    /\ retried \subseteq Segment /\ wording \in [Segment -> {"source", "fixed"}]
    /\ {completed, kept, unfinished, attempts} \subseteq Nat
    /\ \A n \in DOMAIN reviewer : reviewer[n] \in WorkerStates
    /\ decision \in [Segment -> {"none", "approved", "rejected"}]

RangesOf(c) == {stack[c][k] : k \in DOMAIN stack[c]}
Outstanding == UNION {RangesOf(c) : c \in Polishers}
Left == UNION {Targets(range) : range \in Outstanding}

(* However ranges split, fail and overlap in time, the counters shown as   *)
(* progress are those of what is left, and a segment is in one range only, *)
(* so that no reply overwrites another.                                    *)
ProgressIsExact ==
    /\ completed + Cardinality(Left) = Cardinality(Segment \ Blank)
    /\ unfinished = Cardinality(Outstanding)
    /\ \A r, q \in Outstanding : r # q => Targets(r) \cap Targets(q) = {}
    /\ \A s \in Left : wording[s] = "source"
    /\ kept + Cardinality(Edits) <= completed

(* The requests are bounded, whatever the model answers: for a range of n *)
(* segments 2 n - 1 for it and the halves of halves, and n for segments    *)
(* asked for once more.                                                    *)
RequestsAreBounded == attempts <= 3 * Segments - Len(PolishRange)

(* What is published was proposed and approved, edit by edit, and nothing  *)
(* that was approved is missing.                                           *)
PublishedIsApproved ==
    polishing = "published" =>
        /\ \A s \in Segment : (wording[s] = "fixed") <=> (decision[s] = "approved")
        /\ Left = {} /\ unfinished = 0

PolishSafety == ProgressIsExact /\ RequestsAreBounded /\ PublishedIsApproved
=============================================================================
