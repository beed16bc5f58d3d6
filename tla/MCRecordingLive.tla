-------------------------- MODULE MCRecordingLive --------------------------
(***************************************************************************)
(* Liveness of one recording: that of its cycles (RecordingCycle), or that *)
(* of its audio file (AudioCache).  Each behaviour is one of one of them,  *)
(* which the initial state chooses, and the variables of the other stand   *)
(* at their initial values.                                                *)
(***************************************************************************)
EXTENDS MCAudioCache

CONSTANT Settings

VARIABLES
    system,
    setting, rowStatus, rowAudio, raw, canon, drafts, note, built,  \* of RecordingCycle
    run, waiting, asked, dropping, work, used

Cycle == INSTANCE RecordingCycle WITH
    status <- rowStatus, audio <- rowAudio, evicting <- dropping, spent <- used

cycleVars == <<setting, rowStatus, rowAudio, raw, canon, drafts, note, built,
               run, waiting, asked, dropping, work, used>>
liveVars == <<system, vars, cycleVars>>

(* A provider to fall back on, and everything a request may leave undone.  *)
LiveSettings ==
    {[enabled |-> {"transcribe", "summarize", "mind_map", "outline", "index"},
      asrSpeakers |-> FALSE, rules |-> FALSE, evidence |-> FALSE, evictAudio |-> FALSE,
      contents |-> {"speech"}, candidates |-> 2,
      requests |-> {"outline", "edit", "notes", "resume_all"}, threadsStart |-> TRUE,
      maxVersions |-> 5, maxNotes |-> 6, maxRequests |-> 2, maxFaults |-> 1, maxCrashes |-> 1]}

InAudio(A) == system = "audio" /\ A /\ UNCHANGED <<system, cycleVars>>
InCycle(A) == system = "cycle" /\ A /\ UNCHANGED <<system, vars>>

LiveInit ==
    /\ system \in {"audio", "cycle"}
    /\ Init /\ (system = "cycle" => status = "metadata_only")
    /\ Cycle!Init

LiveNext == InAudio(Next) \/ InCycle(Cycle!Next)

(* Fairness of AudioCache and Cycle!Fairness, one condition for one of     *)
(* each, as a behaviour is one of one system.                              *)
LiveFairness ==
    /\ \A f \in Fetchers :
         /\ WF_liveVars(InAudio(Download(f)) \/ InCycle(IF f = poll THEN Cycle!Work
                                                        ELSE IF f = web THEN Cycle!Recover
                                                        ELSE Cycle!Evict))
         /\ WF_liveVars(InAudio(Poll(f)) \/ InCycle(IF f = poll THEN Cycle!RetryDue
                                                    ELSE IF f = web THEN Cycle!Dispatch
                                                    ELSE Cycle!DispatchReindex))
    /\ WF_liveVars(InAudio(HourPasses) \/ InCycle(Cycle!ClaimRequest))
    /\ WF_liveVars(InAudio(StartUp) \/ InCycle(Cycle!QueueResume))
    /\ WF_liveVars(InAudio(PeriodicReset) \/ InCycle(Cycle!QueueForce))
    /\ WF_liveVars(InAudio(RetryError) \/ InCycle(Cycle!QueueDerived))
    /\ WF_liveVars(InAudio(EnterFull)) /\ WF_liveVars(InAudio(Finish))
    /\ WF_liveVars(InAudio(Evict)) /\ WF_liveVars(InAudio(Unlink))

LiveSpec == LiveInit /\ [][LiveNext]_liveVars /\ LiveFairness

----------------------------------------------------------------------------
(* A request that set a finished recording to derived work leaves it where *)
(* a worker finds it (api/app.py rebuild_notes).                           *)
RequestIsNotLost == Cycle!RequestIsNotLost

(* Once nobody asks for anything the recording comes to rest as done       *)
(* (pipeline.py _finish_processing_cycle, poll.py retry of failed work).   *)
EverythingSettles == system = "cycle" => Cycle!EverythingSettles

(* A failed stage of a queued recording is tried again (pipeline.py        *)
(* _pending_scope, docs/chapter-outline.md).                               *)
FailureIsRetried == Cycle!FailureIsRetried

(* A resumed cycle does not repeat what is complete and current            *)
(* (pipeline.py _process_file_claimed).                                    *)
ResumeDoesNotRepeat == Cycle!ResumeDoesNotRepeat
=============================================================================
