---------------------------- MODULE Automations ----------------------------
(***************************************************************************)
(* AutoFlow rules on one recording: evaluate_recording of                  *)
(* src/src/localplaud/automations.py, called by the poller, an import, the *)
(* web and, in the middle of a processing cycle, by the pipeline, and the  *)
(* deliveries of the runs (inbox notice, webhook or email).                *)
(*                                                                         *)
(* A rule runs once per version.  The row of the run, unique for rule and  *)
(* version, is inserted in the transaction that applies the actions; what  *)
(* the evaluator decided before it, it read outside of it.  Every rule     *)
(* here has actions that need the recording: while the pipeline holds it,  *)
(* other evaluators skip the rule and leave no trace.                      *)
(***************************************************************************)
EXTENDS Naturals, FiniteSets

CONSTANTS
    Rule,           \* rules that match the recording
    Priority,       \* their numeric priority: a lower number is stronger
    OnTranscript,   \* rules with a transcript_contains condition
    NoRule,         \* no template has been chosen by a rule
    Evaluator,      \* threads that call evaluate_recording
    Pipeline,       \* the one inside a processing cycle
    Edited,         \* bound: the rules the user edits
    MaxVersion,     \* bound: versions of a rule
    MaxTries        \* bound: nobody asks again for a delivery tried so often

ASSUME AutomationConstants ==
    /\ Priority \in [Rule -> Nat] /\ OnTranscript \subseteq Rule
    /\ Edited \subseteq Rule /\ NoRule \notin Rule /\ Pipeline \in Evaluator
    /\ MaxVersion \in Nat \ {0} /\ MaxTries \in Nat

VARIABLES
    rules,          \* automation_rules
    ran,            \* automation_runs, by rule and version
    template,       \* note_template_key of the recording: the rule that set it
    applied,        \* how often the actions of a version were committed
    transcribed,    \* the recording has a canonical transcript
    held,           \* the pipeline holds the claim of the recording
    ev,             \* the evaluators
    broken,         \* runs whose own actions failed
    notices,        \* inbox items of a run
    hook            \* delivery row of a run

autoVars == <<rules, ran, template, applied, transcribed, held, ev, broken, notices, hook>>

Run == Rule \X (1 .. MaxVersion)
NoHook == [status |-> "none", attempts |-> 0]
NoEv == [step |-> "idle", todo |-> {}, at |-> {}, send |-> {}, sees |-> FALSE]
AutoSteps == {"idle", "stages", "rules", "apply", "notice", "renotice", "row", "post", "derive"}

AutoTypeOK ==
    /\ rules \in [Rule -> [enabled : BOOLEAN, version : 1 .. MaxVersion]]
    /\ ran \in [Run -> {"none", "completed", "failed"}]
    /\ template \in Rule \cup {NoRule}
    /\ applied \in [Run -> Nat] /\ notices \in [Run -> Nat]
    /\ transcribed \in BOOLEAN /\ held \in BOOLEAN
    /\ ev \in [Evaluator -> [step : AutoSteps, todo : SUBSET Rule, at : SUBSET Run,
                             send : SUBSET Run, sees : BOOLEAN]]
    /\ broken \in SUBSET Run
    /\ hook \in [Run -> [status : {"none", "running", "completed", "failed"}, attempts : Nat]]

AutoInit ==
    /\ rules = [r \in Rule |-> [enabled |-> TRUE, version |-> 1]]
    /\ ran = [x \in Run |-> "none"]
    /\ template = NoRule
    /\ applied = [x \in Run |-> 0] /\ notices = [x \in Run |-> 0]
    /\ transcribed = FALSE /\ held = FALSE
    /\ ev = [e \in Evaluator |-> NoEv]
    /\ hook = [x \in Run |-> NoHook]
    /\ broken = {}

Recorded == <<ran, template, applied, broken>>
Sent == <<notices, hook>>

----------------------------------------------------------------------------
(* The user.                                                               *)

UpdateRule(r) ==
    /\ r \in Edited /\ rules[r].version < MaxVersion
    /\ rules' = [rules EXCEPT ![r].version = @ + 1]
    /\ UNCHANGED <<Recorded, transcribed, held, ev, Sent>>

ToggleRule(r) ==
    /\ r \in Edited
    /\ rules' = [rules EXCEPT ![r].enabled = ~@]
    /\ UNCHANGED <<Recorded, transcribed, held, ev, Sent>>

----------------------------------------------------------------------------
(* evaluate_recording.                                                     *)

Enabled == {r \in Rule : rules[r].enabled}

Evaluate(e) ==
    /\ e # Pipeline /\ ev[e].step = "idle"
    /\ ev' = [ev EXCEPT ![e] = [NoEv EXCEPT !.step = "rules", !.todo = Enabled]]
    /\ UNCHANGED <<rules, Recorded, transcribed, held, Sent>>

(* retry_run: the failed run is deleted, then the rules are evaluated.     *)
RetryRun(e, x) ==
    /\ e # Pipeline /\ ev[e].step = "idle" /\ ran[x] = "failed"
    /\ ran' = [ran EXCEPT ![x] = "none"]
    /\ broken' = broken \ {x}
    /\ ev' = [ev EXCEPT ![e] = [NoEv EXCEPT !.step = "rules", !.todo = Enabled]]
    /\ UNCHANGED <<rules, template, applied, transcribed, held, Sent>>

(* Higher numbers first: the strongest rule of the list executes last.     *)
Foremost(todo) == {r \in todo : \A q \in todo : Priority[q] <= Priority[r]}

Matches(r) == r \in OnTranscript => transcribed

Looks(e, r) ==
    /\ ev[e].step = "rules" /\ r \in Foremost(ev[e].todo)
    /\ LET x == <<r, rules[r].version>>
           due == rules[r].enabled /\ ran[x] = "none" /\ Matches(r)
       IN ev' = [ev EXCEPT ![e].todo = @ \ {r},
                           ![e].at = IF due THEN {x} ELSE {},
                           ![e].step = IF due THEN "apply" ELSE "rules"]
    /\ UNCHANGED <<rules, Recorded, transcribed, held, Sent>>

(* The unique constraint of automation_runs.                               *)
Taken(x) == ran[x] # "none"

(* ProfileMutationBusyError, for whoever does not hold the recording.      *)
Busy(e) == held /\ e # Pipeline

Continues(e) == ev' = [ev EXCEPT ![e].step = "rules", ![e].at = {}]

Skips(e, x) ==
    /\ ev[e].step = "apply" /\ x \in ev[e].at /\ ~Taken(x) /\ Busy(e)
    /\ Continues(e)
    /\ UNCHANGED <<rules, ran, template, applied, broken, transcribed, held, Sent>>

(* _apply_actions and the run, in one commit.  The pipeline puts the       *)
(* deliveries off to the end of its cycle, the others make them now.       *)
Applies(e, x) ==
    /\ ev[e].step = "apply" /\ x \in ev[e].at /\ ~Taken(x) /\ ~Busy(e)
    /\ ran' = [ran EXCEPT ![x] = "completed"]
    /\ template' = x[1]
    /\ applied' = [applied EXCEPT ![x] = @ + 1]
    /\ ev' = [ev EXCEPT ![e].at = {},
                        ![e].send = @ \cup {x},
                        ![e].step = IF e = Pipeline THEN "rules" ELSE "notice"]
    /\ UNCHANGED <<rules, broken, transcribed, held, Sent>>

(* A reference of the rule is gone: the savepoint takes the actions back.  *)
Fails(e, x) ==
    /\ ev[e].step = "apply" /\ x \in ev[e].at /\ ~Taken(x) /\ ~Busy(e)
    /\ ran' = [ran EXCEPT ![x] = "failed"]
    /\ broken' = broken \cup {x}
    /\ Continues(e)
    /\ UNCHANGED <<rules, template, applied, transcribed, held, Sent>>

(* Another evaluator was first: the flush fails and with it the whole call.*)
Collides(e, x) ==
    /\ ev[e].step = "apply" /\ x \in ev[e].at /\ Taken(x)
    /\ ev' = [ev EXCEPT ![e] = IF e = Pipeline THEN [NoEv EXCEPT !.step = "derive"] ELSE NoEv]
    /\ UNCHANGED <<rules, Recorded, transcribed, held, Sent>>

Evaluated(e) ==
    /\ ev[e].step = "rules" /\ ev[e].todo = {}
    /\ ev' = [ev EXCEPT ![e].step = IF e = Pipeline THEN "derive" ELSE "idle"]
    /\ UNCHANGED <<rules, Recorded, transcribed, held, Sent>>

----------------------------------------------------------------------------
(* The processing cycle around it.                                         *)

CycleBegins ==
    /\ ev[Pipeline].step = "idle" /\ ~held
    /\ held' = TRUE
    /\ ev' = [ev EXCEPT ![Pipeline].step = "stages"]
    /\ UNCHANGED <<rules, Recorded, transcribed, Sent>>

Transcribes ==
    /\ ev[Pipeline].step = "stages"
    /\ transcribed' = TRUE
    /\ ev' = [ev EXCEPT ![Pipeline].step = "rules", ![Pipeline].todo = Enabled]
    /\ UNCHANGED <<rules, Recorded, held, Sent>>

(* The derived stages end; then the deliveries, then the claim is released.*)
Derives ==
    /\ ev[Pipeline].step = "derive"
    /\ IF ev[Pipeline].send = {}
       THEN ev' = [ev EXCEPT ![Pipeline] = NoEv] /\ held' = FALSE
       ELSE ev' = [ev EXCEPT ![Pipeline].step = "notice"] /\ UNCHANGED held
    /\ UNCHANGED <<rules, Recorded, transcribed, Sent>>

(* The cycle fails, or the process dies: what was put off is lost with it. *)
CycleFails ==
    /\ ev[Pipeline].step # "idle"
    /\ held' = FALSE
    /\ ev' = [ev EXCEPT ![Pipeline] = NoEv]
    /\ UNCHANGED <<rules, Recorded, transcribed, Sent>>

EvaluatorDies(e) ==
    /\ e # Pipeline /\ ev[e].step # "idle"
    /\ ev' = [ev EXCEPT ![e] = NoEv]
    /\ UNCHANGED <<rules, Recorded, transcribed, held, Sent>>

----------------------------------------------------------------------------
(* deliver_run_downstream, and its parts asked for again by the user.      *)

AsksAgain(e, x, step) ==
    /\ e # Pipeline /\ ev[e].step = "idle" /\ ran[x] = "completed"
    /\ step = "row" => hook[x].status # "none" /\ hook[x].attempts < MaxTries
    /\ ev' = [ev EXCEPT ![e] = [NoEv EXCEPT !.step = step, !.send = {x},
                                             !.at = IF step = "row" THEN {x} ELSE {}]]
    /\ UNCHANGED <<rules, Recorded, transcribed, held, Sent>>

Delivered(e, x) ==
    LET rest == ev[e].send \ {x}
    IN ev' = [ev EXCEPT ![e].send = rest, ![e].at = {},
                        ![e].step = IF rest # {} THEN "notice"
                                    ELSE IF e = Pipeline THEN "derive" ELSE "rules"]

(* deliver_local_notification looks for the item, then inserts it.         *)
LooksForNotice(e, x) ==
    /\ ev[e].step \in {"notice", "renotice"} /\ ev[e].at = {} /\ x \in ev[e].send
    /\ ev' = [ev EXCEPT ![e].at = {x}, ![e].sees = notices[x] > 0]
    /\ UNCHANGED <<rules, Recorded, transcribed, held, Sent>>

(* Mutant: no look before the insert, and no unique constraint.            *)
UnseenAlways(e, x) == TRUE

Unseen(e, x) == ~ev[e].sees /\ notices[x] = 0

InsertsNotice(e, x) ==
    /\ ev[e].step \in {"notice", "renotice"} /\ x \in ev[e].at
    /\ notices' = IF Unseen(e, x) THEN [notices EXCEPT ![x] = @ + 1] ELSE notices
    /\ IF ev[e].step = "notice" THEN ev' = [ev EXCEPT ![e].step = "row"] ELSE Delivered(e, x)
    /\ UNCHANGED <<rules, Recorded, transcribed, held, hook>>

(* deliver_webhook and deliver_email: a row, the call, the outcome.        *)
WritesRow(e, x) ==
    /\ ev[e].step = "row" /\ x \in ev[e].at
    /\ IF hook[x].status = "completed"
       THEN Delivered(e, x) /\ UNCHANGED hook
       ELSE /\ hook' = [hook EXCEPT ![x] = [status |-> "running", attempts |-> @.attempts + 1]]
            /\ ev' = [ev EXCEPT ![e].step = "post"]
    /\ UNCHANGED <<rules, Recorded, transcribed, held, notices>>

Posts(e, x, ok) ==
    /\ ev[e].step = "post" /\ x \in ev[e].at
    /\ hook' = [hook EXCEPT ![x].status = IF ok THEN "completed" ELSE "failed"]
    /\ Delivered(e, x)
    /\ UNCHANGED <<rules, Recorded, transcribed, held, notices>>

----------------------------------------------------------------------------
EvaluatorStep(e) ==
    \/ \E r \in Rule : Looks(e, r)
    \/ Evaluated(e)
    \/ \E x \in Run :
         \/ Skips(e, x) \/ Applies(e, x) \/ Collides(e, x)
         \/ LooksForNotice(e, x) \/ InsertsNotice(e, x) \/ WritesRow(e, x)
         \/ \E ok \in BOOLEAN : Posts(e, x, ok)

AutoNext ==
    \/ \E r \in Rule : UpdateRule(r) \/ ToggleRule(r)
    \/ \E e \in Evaluator :
         \/ EvaluatorStep(e) \/ Evaluate(e) \/ EvaluatorDies(e)
         \/ \E x \in Run : Fails(e, x) \/ RetryRun(e, x) \/ AsksAgain(e, x, "renotice") \/ AsksAgain(e, x, "row")
    \/ CycleBegins \/ Transcribes \/ Derives \/ CycleFails

AutoSpec == AutoInit /\ [][AutoNext]_autoVars

----------------------------------------------------------------------------
(* Properties.                                                             *)

(* The actions of a rule version reach the recording once, however many    *)
(* evaluators look at it at a time.                                        *)
OncePerVersion == \A x \in Run : applied[x] <= 1

(* What reaches the recording is on record, and so is what is announced:   *)
(* neither a crash nor a failure leaves an action without its run or a     *)
(* message about actions that were taken back.                             *)
ActionsAreOnRecord ==
    /\ \A x \in Run : applied[x] > 0 <=> ran[x] = "completed"
    /\ template # NoRule => \E v \in 1 .. MaxVersion : ran[<<template, v>>] = "completed"
    /\ \A x \in Run : notices[x] > 0 \/ hook[x].status # "none" => ran[x] = "completed"

(* "Create exactly one inbox item for a completed run."                    *)
OneNotice == \A x \in Run : notices[x] <= 1

(* A rule that was skipped because a worker had the recording stays due:   *)
(* only a run whose own actions failed is closed without having applied.   *)
SkippedStaysDue == \A x \in Run : ran[x] = "failed" => x \in broken

AutomationSafety == OncePerVersion /\ ActionsAreOnRecord /\ OneNotice /\ SkippedStaysDue

(* What the docstring of evaluate_recording and docs/product-workflow.md   *)
(* say: "Lower numeric AutoFlow priority wins".                            *)
StrongestRuleWins ==
    (\A e \in Evaluator : ev[e].step = "idle") =>
        \A r \in Rule : ran[<<r, 1>>] = "completed" /\ template # NoRule
                            => Priority[template] <= Priority[r]
=============================================================================
