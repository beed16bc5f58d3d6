-------------------------- MODULE MCRecordingCycle --------------------------
(***************************************************************************)
(* Small libraries for RecordingCycle.  Each leaves out the stages and the *)
(* requests its question does not depend on.                               *)
(***************************************************************************)
EXTENDS RecordingCycle

Notes    == {"transcribe", "summarize", "mind_map"}
Outlined == Notes \cup {"outline"}

Plain ==
  [enabled |-> Stages, asrSpeakers |-> FALSE, rules |-> FALSE, evidence |-> FALSE,
   evictAudio |-> FALSE, contents |-> {"speech"}, candidates |-> 1, requests |-> {},
   threadsStart |-> TRUE, maxVersions |-> 5, maxNotes |-> 6, maxRequests |-> 1,
   maxFaults |-> 1, maxCrashes |-> 1]

\* Requests for the whole library beside edits, with speech, noise and silence,
\* crashes and every stage.
Library ==
  [Plain EXCEPT !.rules = TRUE, !.evidence = TRUE,
                !.contents = {"speech", "noise", "silence"},
                !.requests = {"edit", "force", "outline", "derived_all", "force_all"},
                !.maxVersions = 7, !.maxNotes = 4, !.maxRequests = 2]

\* Requests for one recording, whose audio is evicted and whose threads may not start.
Single ==
  [Plain EXCEPT !.enabled = Outlined \cup {"correct"}, !.asrSpeakers = TRUE,
                !.evictAudio = TRUE, !.threadsStart = FALSE, !.maxRequests = 3,
                !.requests = {"edit", "restore", "notes", "map", "outline",
                              "reprocess", "rename"},
                !.maxCrashes = 0]

Restart == [Plain EXCEPT !.evictAudio = TRUE, !.requests = {"notes"}, !.maxFaults = 0]

Reindex == [Plain EXCEPT !.enabled = {"transcribe", "summarize", "index"},
                         !.requests = {"edit"}, !.maxCrashes = 0]

\* A library queued for resumption while it is processed, with a provider to fall back on.
Bulk == [Plain EXCEPT !.enabled = {"transcribe", "summarize", "index"}, !.candidates = 2,
                      !.requests = {"resume_all", "edit"}, !.maxRequests = 2]

MCSafety  == {Library, Single, Bulk}
MCRestart == {Restart}
MCReindex == {Reindex}
=============================================================================
