--------------------------- MODULE ServiceProofs ---------------------------
(***************************************************************************)
(* What the catalogue and the AutoFlow rules guarantee for every set of    *)
(* recordings, syncers, rules and evaluators and every bound.              *)
(***************************************************************************)
EXTENDS CatalogSync, Automations, TLAPS

----------------------------------------------------------------------------
(* AutoFlow rules: actions, their runs, and what is announced about them.  *)

AppliedAsRecorded ==
    \A x \in Run :
       /\ applied[x] = IF ran[x] = "completed" THEN 1 ELSE 0
       /\ notices[x] <= 1
       /\ notices[x] > 0 \/ hook[x].status # "none" => ran[x] = "completed"
       /\ ran[x] = "failed" => x \in broken

TemplateIsOfARun == template # NoRule => \E v \in 1 .. MaxVersion : ran[<<template, v>>] = "completed"

(* What an evaluator is about to deliver was committed, and outside of an  *)
(* attempt to apply a rule it looks at nothing else.                       *)
Delivers(e) ==
    /\ \A x \in ev[e].send : ran[x] = "completed"
    /\ ev[e].step # "apply" => ev[e].at \subseteq ev[e].send

AutoInv == AutoTypeOK /\ AppliedAsRecorded /\ TemplateIsOfARun /\ \A e \in Evaluator : Delivers(e)

EvRecords == [step : AutoSteps, todo : SUBSET Rule, at : SUBSET Run, send : SUBSET Run, sees : BOOLEAN]
HookRecords == [status : {"none", "running", "completed", "failed"}, attempts : Nat]

LEMMA AutoInitHolds == AutoInit => AutoInv
<1> SUFFICES ASSUME AutoInit PROVE AutoInv
  OBVIOUS
<1>1. NoEv \in EvRecords /\ NoHook \in HookRecords /\ 1 \in 1 .. MaxVersion
  BY AutomationConstants DEF NoEv, EvRecords, NoHook, HookRecords, AutoSteps
<1>2. AutoTypeOK
  BY <1>1 DEF AutoInit, AutoTypeOK, EvRecords, HookRecords
<1>3. AppliedAsRecorded /\ TemplateIsOfARun
  BY DEF AutoInit, AppliedAsRecorded, TemplateIsOfARun, NoHook
<1>4. ASSUME NEW e \in Evaluator PROVE Delivers(e)
  BY <1>4 DEF AutoInit, Delivers, NoEv
<1> QED BY <1>2, <1>3, <1>4 DEF AutoInv

\* One evaluator moves, and no run that was completed is taken back.
LEMMA DeliversStays ==
  ASSUME AutoInv, NEW e \in Evaluator, NEW new \in EvRecords, ev' = [ev EXCEPT ![e] = new],
         \A x \in Run : ran[x] = "completed" => ran'[x] = "completed",
         \A x \in new.send : ran'[x] = "completed",
         new.step # "apply" => new.at \subseteq new.send
  PROVE  ev' \in [Evaluator -> EvRecords] /\ \A d \in Evaluator : Delivers(d)'
<1>1. ev \in [Evaluator -> EvRecords]
  BY DEF AutoInv, AutoTypeOK, EvRecords
<1>2. ASSUME NEW d \in Evaluator PROVE Delivers(d)'
  <2>1. CASE d = e
    BY <1>1, <2>1 DEF Delivers
  <2>2. CASE d # e
    <3>1. ev'[d] = ev[d] /\ ev[d].send \subseteq Run /\ Delivers(d)
      BY <1>1, <2>2 DEF AutoInv, EvRecords
    <3> QED BY <3>1 DEF Delivers
  <2> QED BY <2>1, <2>2
<1> QED BY <1>1, <1>2

\* A step that touches neither runs nor messages.
LEMMA EvaluatorMoves ==
  ASSUME AutoInv, NEW e \in Evaluator, NEW new \in EvRecords,
         ev' = [ev EXCEPT ![e] = new],
         \A x \in new.send : ran[x] = "completed",
         new.step # "apply" => new.at \subseteq new.send,
         UNCHANGED <<ran, template, applied, broken, notices, hook>>,
         rules' \in [Rule -> [enabled : BOOLEAN, version : 1 .. MaxVersion]],
         transcribed' \in BOOLEAN, held' \in BOOLEAN
  PROVE  AutoInv'
<1>1. ev' \in [Evaluator -> EvRecords] /\ \A d \in Evaluator : Delivers(d)'
  BY DeliversStays
<1>2. AutoTypeOK'
  BY <1>1 DEF AutoInv, AutoTypeOK, EvRecords
<1>3. AppliedAsRecorded' /\ TemplateIsOfARun'
  BY DEF AutoInv, AppliedAsRecorded, TemplateIsOfARun
<1> QED BY <1>1, <1>2, <1>3 DEF AutoInv

LEMMA EvaluationKeepsAutoInv ==
  ASSUME AutoInv, NEW e \in Evaluator,
         \/ Evaluate(e) \/ EvaluatorDies(e) \/ Evaluated(e)
         \/ \E r \in Rule : Looks(e, r)
         \/ \E x \in Run :
              \/ Skips(e, x) \/ Collides(e, x) \/ LooksForNotice(e, x)
              \/ AsksAgain(e, x, "renotice") \/ AsksAgain(e, x, "row")
  PROVE  AutoInv'
<1>1. /\ ev[e] \in EvRecords
      /\ ev[e].step # "apply" => ev[e].at \subseteq ev[e].send
      /\ \A x \in ev[e].send : ran[x] = "completed"
  BY DEF AutoInv, AutoTypeOK, EvRecords, Delivers
<1>2. /\ rules \in [Rule -> [enabled : BOOLEAN, version : 1 .. MaxVersion]]
      /\ transcribed \in BOOLEAN /\ held \in BOOLEAN
      /\ \A x \in Run : notices[x] \in Nat
  BY DEF AutoInv, AutoTypeOK
<1>3. NoEv \in EvRecords /\ NoEv.send = {} /\ NoEv.at = {} /\ NoEv.step = "idle"
  BY DEF NoEv, EvRecords, AutoSteps
<1>4. Enabled \subseteq Rule
  BY DEF Enabled
<1> USE DEF EvRecords, AutoSteps
<1>5. CASE Evaluate(e)
  <2> DEFINE new == [NoEv EXCEPT !.step = "rules", !.todo = Enabled]
  <2>1. new \in EvRecords /\ new.send = {} /\ new.at = {}
    BY <1>3, <1>4 DEF NoEv
  <2>2. ev' = [ev EXCEPT ![e] = new] /\ UNCHANGED <<rules, ran, template, applied, broken, transcribed, held, notices, hook>>
    BY <1>5 DEF Evaluate, Recorded, Sent
  <2> HIDE DEF new
  <2> QED BY <1>2, <2>1, <2>2, EvaluatorMoves
<1>6. CASE EvaluatorDies(e)
  <2>1. ev' = [ev EXCEPT ![e] = NoEv] /\ UNCHANGED <<rules, ran, template, applied, broken, transcribed, held, notices, hook>>
    BY <1>6 DEF EvaluatorDies, Recorded, Sent
  <2> QED BY <1>2, <1>3, <2>1, EvaluatorMoves
<1>7. CASE Evaluated(e)
  <2> DEFINE new == [ev[e] EXCEPT !.step = IF e = Pipeline THEN "derive" ELSE "idle"]
  <2>1. new \in EvRecords /\ new.send = ev[e].send /\ new.at = ev[e].at /\ ev[e].step # "apply"
    BY <1>1, <1>7 DEF Evaluated
  <2>2. ev' = [ev EXCEPT ![e] = new] /\ UNCHANGED <<rules, ran, template, applied, broken, transcribed, held, notices, hook>>
    BY <1>7 DEF Evaluated, Recorded, Sent
  <2> HIDE DEF new
  <2> QED BY <1>1, <1>2, <2>1, <2>2, EvaluatorMoves
<1>8. ASSUME NEW r \in Rule, Looks(e, r) PROVE AutoInv'
  <2> DEFINE x == <<r, rules[r].version>>
             due == rules[r].enabled /\ ran[x] = "none" /\ Matches(r)
             new == [ev[e] EXCEPT !.todo = @ \ {r}, !.at = IF due THEN {x} ELSE {},
                                  !.step = IF due THEN "apply" ELSE "rules"]
  <2>1. x \in Run
    BY <1>2 DEF Run
  <2>2. new \in EvRecords /\ new.send = ev[e].send /\ (new.step # "apply" => new.at = {})
    <3> HIDE DEF x
    <3>1. CASE due
      BY <1>1, <2>1, <3>1
    <3>2. CASE ~due
      BY <1>1, <2>1, <3>2
    <3> QED BY <3>1, <3>2
  <2>3. ev' = [ev EXCEPT ![e] = new] /\ UNCHANGED <<rules, ran, template, applied, broken, transcribed, held, notices, hook>>
    BY <1>8 DEF Looks, Recorded, Sent
  <2> HIDE DEF new
  <2> QED BY <1>1, <1>2, <2>2, <2>3, EvaluatorMoves
<1>9. ASSUME NEW x \in Run, Skips(e, x) \/ Collides(e, x) \/ LooksForNotice(e, x) PROVE AutoInv'
  <2>1. CASE Skips(e, x)
    <3> DEFINE new == [ev[e] EXCEPT !.step = "rules", !.at = {}]
    <3>1. new \in EvRecords /\ new.send = ev[e].send /\ new.at = {}
      BY <1>1
    <3>2. ev' = [ev EXCEPT ![e] = new] /\ UNCHANGED <<rules, ran, template, applied, broken, transcribed, held, notices, hook>>
      BY <2>1 DEF Skips, Continues, Sent
    <3> HIDE DEF new
    <3> QED BY <1>1, <1>2, <3>1, <3>2, EvaluatorMoves
  <2>2. CASE Collides(e, x)
    <3> DEFINE new == IF e = Pipeline THEN [NoEv EXCEPT !.step = "derive"] ELSE NoEv
    <3>1. new \in EvRecords /\ new.send = {} /\ new.at = {}
      BY <1>3 DEF NoEv
    <3>2. ev' = [ev EXCEPT ![e] = new] /\ UNCHANGED <<rules, ran, template, applied, broken, transcribed, held, notices, hook>>
      BY <2>2 DEF Collides, Recorded, Sent
    <3> HIDE DEF new
    <3> QED BY <1>2, <3>1, <3>2, EvaluatorMoves
  <2>3. CASE LooksForNotice(e, x)
    <3> DEFINE new == [ev[e] EXCEPT !.at = {x}, !.sees = notices[x] > 0]
    <3>1. new \in EvRecords /\ new.send = ev[e].send /\ new.at = {x} /\ x \in ev[e].send
      <4>1. ASSUME NEW b \in BOOLEAN PROVE [ev[e] EXCEPT !.at = {x}, !.sees = b] \in EvRecords
        BY <1>1
      <4>2. (notices[x] > 0) \in BOOLEAN
        BY <1>2
      <4>3. new \in EvRecords
        BY <4>1, <4>2
      <4> QED BY <1>1, <2>3, <4>3 DEF LooksForNotice
    <3>2. ev' = [ev EXCEPT ![e] = new] /\ UNCHANGED <<rules, ran, template, applied, broken, transcribed, held, notices, hook>>
      BY <2>3 DEF LooksForNotice, Recorded, Sent
    <3> HIDE DEF new
    <3> QED BY <1>1, <1>2, <3>1, <3>2, EvaluatorMoves
  <2> QED BY <1>9, <2>1, <2>2, <2>3
<1>10. ASSUME NEW x \in Run, NEW step \in {"renotice", "row"}, AsksAgain(e, x, step) PROVE AutoInv'
  <2> DEFINE new == [NoEv EXCEPT !.step = step, !.send = {x}, !.at = IF step = "row" THEN {x} ELSE {}]
  <2>1. new \in EvRecords /\ new.send = {x} /\ new.at \subseteq {x} /\ ran[x] = "completed"
    BY <1>3, <1>10 DEF NoEv, AsksAgain
  <2>2. ev' = [ev EXCEPT ![e] = new] /\ UNCHANGED <<rules, ran, template, applied, broken, transcribed, held, notices, hook>>
    BY <1>10 DEF AsksAgain, Recorded, Sent
  <2> HIDE DEF new
  <2> QED BY <1>2, <2>1, <2>2, EvaluatorMoves
<1> QED BY <1>5, <1>6, <1>7, <1>8, <1>9, <1>10

\* Commits: the row of a run, in one step with its actions or without them.
LEMMA CommitKeepsAutoInv ==
  ASSUME AutoInv, NEW e \in Evaluator, NEW x \in Run,
         Applies(e, x) \/ Fails(e, x) \/ RetryRun(e, x)
  PROVE  AutoInv'
<1>1. /\ ev[e] \in EvRecords
      /\ \A y \in ev[e].send : ran[y] = "completed"
      /\ ev[e].step # "apply" => ev[e].at \subseteq ev[e].send
      /\ ran \in [Run -> {"none", "completed", "failed"}] /\ broken \in SUBSET Run
      /\ applied \in [Run -> Nat] /\ x[1] \in Rule /\ x[2] \in 1 .. MaxVersion /\ x = <<x[1], x[2]>>
  BY DEF AutoInv, AutoTypeOK, EvRecords, Delivers, Run
<1>2. /\ applied[x] = IF ran[x] = "completed" THEN 1 ELSE 0
      /\ notices[x] > 0 \/ hook[x].status # "none" => ran[x] = "completed"
  BY DEF AutoInv, AppliedAsRecorded
<1>3. CASE Applies(e, x)
  <2> DEFINE new == [ev[e] EXCEPT !.at = {}, !.send = @ \cup {x},
                                  !.step = IF e = Pipeline THEN "rules" ELSE "notice"]
  <2>1. new \in EvRecords /\ new.send = ev[e].send \cup {x} /\ new.at = {}
    BY <1>1 DEF EvRecords, AutoSteps
  <2>2. /\ ran[x] = "none" /\ ran' = [ran EXCEPT ![x] = "completed"] /\ template' = x[1]
        /\ ev' = [ev EXCEPT ![e] = new]
        /\ UNCHANGED <<rules, broken, transcribed, held, notices, hook>>
    BY <1>1, <1>3 DEF Applies, Taken, Sent
  <2>3. applied' = [applied EXCEPT ![x] = 1]
    <3>1. applied[x] = 0 /\ applied' = [applied EXCEPT ![x] = applied[x] + 1]
      BY <1>2, <1>3, <2>2 DEF Applies
    <3>2. applied[x] + 1 = 1
      BY <3>1
    <3> QED BY <3>1, <3>2
  <2> HIDE DEF new
  <2>4. ev' \in [Evaluator -> EvRecords] /\ \A d \in Evaluator : Delivers(d)'
    <3>1. \A y \in Run : ran[y] = "completed" => ran'[y] = "completed"
      BY <1>1, <2>2
    <3>2. \A y \in new.send : ran'[y] = "completed"
      BY <1>1, <2>1, <2>2 DEF EvRecords
    <3> QED BY <2>1, <2>2, <3>1, <3>2, DeliversStays
  <2>5. AutoTypeOK'
    BY <1>1, <2>2, <2>3, <2>4 DEF AutoInv, AutoTypeOK, EvRecords
  <2>6. AppliedAsRecorded'
    BY <1>1, <2>2, <2>3 DEF AutoInv, AppliedAsRecorded
  <2>7. TemplateIsOfARun'
    BY <1>1, <2>2 DEF TemplateIsOfARun
  <2> QED BY <2>4, <2>5, <2>6, <2>7 DEF AutoInv
<1>4. CASE Fails(e, x)
  <2> DEFINE new == [ev[e] EXCEPT !.step = "rules", !.at = {}]
  <2>1. new \in EvRecords /\ new.send = ev[e].send /\ new.at = {}
    BY <1>1 DEF EvRecords, AutoSteps
  <2>2. /\ ran[x] = "none" /\ ran' = [ran EXCEPT ![x] = "failed"] /\ broken' = broken \cup {x}
        /\ ev' = [ev EXCEPT ![e] = new]
        /\ UNCHANGED <<rules, template, applied, transcribed, held, notices, hook>>
    BY <1>1, <1>4 DEF Fails, Taken, Continues, Sent
  <2> HIDE DEF new
  <2>3. ev' \in [Evaluator -> EvRecords] /\ \A d \in Evaluator : Delivers(d)'
    <3>1. \A y \in Run : ran[y] = "completed" => ran'[y] = "completed"
      BY <1>1, <2>2
    <3>2. \A y \in new.send : ran'[y] = "completed"
      BY <1>1, <2>1, <2>2, <3>1 DEF EvRecords
    <3> QED BY <2>1, <2>2, <3>1, <3>2, DeliversStays
  <2>4. AutoTypeOK'
    BY <1>1, <2>2, <2>3 DEF AutoInv, AutoTypeOK, EvRecords
  <2>5. AppliedAsRecorded'
    BY <1>1, <1>2, <2>2 DEF AutoInv, AppliedAsRecorded
  <2>6. TemplateIsOfARun'
    BY <1>1, <2>2 DEF AutoInv, TemplateIsOfARun, Run, AutoTypeOK
  <2> QED BY <2>3, <2>4, <2>5, <2>6 DEF AutoInv
<1>5. CASE RetryRun(e, x)
  <2> DEFINE new == [NoEv EXCEPT !.step = "rules", !.todo = Enabled]
  <2>1. new \in EvRecords /\ new.send = {} /\ new.at = {}
    BY DEF EvRecords, AutoSteps, NoEv, Enabled
  <2>2. /\ ran[x] = "failed" /\ ran' = [ran EXCEPT ![x] = "none"] /\ broken' = broken \ {x}
        /\ ev' = [ev EXCEPT ![e] = new]
        /\ UNCHANGED <<rules, template, applied, transcribed, held, notices, hook>>
    BY <1>5 DEF RetryRun, Sent
  <2> HIDE DEF new
  <2>3. ev' \in [Evaluator -> EvRecords] /\ \A d \in Evaluator : Delivers(d)'
    <3>1. \A y \in Run : ran[y] = "completed" => ran'[y] = "completed"
      BY <1>1, <2>2
    <3> QED BY <2>1, <2>2, <3>1, DeliversStays
  <2>4. AutoTypeOK'
    BY <1>1, <2>2, <2>3 DEF AutoInv, AutoTypeOK, EvRecords
  <2>5. AppliedAsRecorded'
    BY <1>1, <1>2, <2>2 DEF AutoInv, AppliedAsRecorded
  <2>6. TemplateIsOfARun'
    BY <1>1, <2>2 DEF AutoInv, TemplateIsOfARun, Run, AutoTypeOK
  <2> QED BY <2>3, <2>4, <2>5, <2>6 DEF AutoInv
<1> QED BY <1>3, <1>4, <1>5

\* Messages: only about what is committed, and no second notice.
LEMMA DeliveryKeepsAutoInv ==
  ASSUME AutoInv, NEW e \in Evaluator, NEW x \in Run,
         InsertsNotice(e, x) \/ WritesRow(e, x) \/ \E ok \in BOOLEAN : Posts(e, x, ok)
  PROVE  AutoInv'
<1>1. /\ ev[e] \in EvRecords
      /\ \A y \in ev[e].send : ran[y] = "completed"
      /\ ev[e].step # "apply" => ev[e].at \subseteq ev[e].send
      /\ notices \in [Run -> Nat] /\ hook \in [Run -> HookRecords]
  BY DEF AutoInv, AutoTypeOK, EvRecords, HookRecords, Delivers
<1>2. ran[x] = "completed" /\ x \in ev[e].at /\ ev[e].step # "apply"
  BY <1>1 DEF InsertsNotice, WritesRow, Posts
<1>3. ASSUME NEW new \in EvRecords, ev' = [ev EXCEPT ![e] = new],
             new.send \subseteq ev[e].send, new.at \subseteq new.send,
             notices' \in [Run -> Nat], hook' \in [Run -> HookRecords],
             \A y \in Run : /\ notices'[y] <= 1
                            /\ y # x => notices'[y] = notices[y] /\ hook'[y] = hook[y],
             UNCHANGED <<rules, ran, template, applied, broken, transcribed, held>>
      PROVE  AutoInv'
  <2>1. ev' \in [Evaluator -> EvRecords] /\ \A d \in Evaluator : Delivers(d)'
    BY <1>1, <1>3, DeliversStays
  <2>2. AutoTypeOK'
    BY <1>3, <2>1 DEF AutoInv, AutoTypeOK, EvRecords, HookRecords
  <2>3. AppliedAsRecorded' /\ TemplateIsOfARun'
    BY <1>2, <1>3 DEF AutoInv, AppliedAsRecorded, TemplateIsOfARun
  <2> QED BY <2>1, <2>2, <2>3 DEF AutoInv
<1>4. \A y \in Run : notices[y] <= 1
  BY DEF AutoInv, AppliedAsRecorded
<1>5. ASSUME Delivered(e, x)
      PROVE  \E new \in EvRecords : /\ ev' = [ev EXCEPT ![e] = new]
                                    /\ new.send \subseteq ev[e].send /\ new.at \subseteq new.send
  <2> DEFINE rest == ev[e].send \ {x}
             new == [ev[e] EXCEPT !.send = rest, !.at = {},
                                  !.step = IF rest # {} THEN "notice"
                                           ELSE IF e = Pipeline THEN "derive" ELSE "rules"]
  <2>1. new \in EvRecords /\ new.send = rest /\ new.at = {}
    BY <1>1 DEF EvRecords, AutoSteps
  <2>2. ev' = [ev EXCEPT ![e] = new]
    BY <1>5 DEF Delivered
  <2> HIDE DEF new
  <2> QED BY <2>1, <2>2
<1>6. CASE InsertsNotice(e, x)
  <2>1. notices' \in [Run -> Nat] /\ \A y \in Run : notices'[y] <= 1 /\ (y # x => notices'[y] = notices[y])
    <3>1. CASE Unseen(e, x)
      <4>1. notices' = [notices EXCEPT ![x] = notices[x] + 1] /\ notices[x] = 0
        BY <1>6, <3>1 DEF InsertsNotice, Unseen
      <4>2. notices[x] + 1 = 1
        BY <4>1
      <4>3. notices' = [notices EXCEPT ![x] = 1]
        BY <4>1, <4>2
      <4> QED BY <1>1, <1>4, <4>3
    <3>2. CASE ~Unseen(e, x)
      BY <1>1, <1>4, <1>6, <3>2 DEF InsertsNotice
    <3> QED BY <3>1, <3>2
  <2>2. UNCHANGED <<rules, ran, template, applied, broken, transcribed, held, hook>>
    BY <1>6 DEF InsertsNotice, Recorded
  <2>3. CASE ev[e].step = "notice"
    <3> DEFINE new == [ev[e] EXCEPT !.step = "row"]
    <3>1. new \in EvRecords /\ new.send = ev[e].send /\ new.at = ev[e].at
      BY <1>1 DEF EvRecords, AutoSteps
    <3>2. ev' = [ev EXCEPT ![e] = new]
      BY <1>6, <2>3 DEF InsertsNotice
    <3> HIDE DEF new
    <3> QED BY <1>1, <1>2, <1>3, <2>1, <2>2, <3>1, <3>2
  <2>4. CASE ev[e].step # "notice"
    <3>1. Delivered(e, x)
      BY <1>6, <2>4 DEF InsertsNotice
    <3> QED BY <1>1, <1>3, <1>5, <2>1, <2>2, <3>1
  <2> QED BY <2>3, <2>4
<1>7. CASE WritesRow(e, x)
  <2>1. UNCHANGED <<rules, ran, template, applied, broken, transcribed, held, notices>>
    BY <1>7 DEF WritesRow, Recorded
  <2>2. CASE hook[x].status = "completed"
    <3>1. Delivered(e, x) /\ UNCHANGED hook
      BY <1>7, <2>2 DEF WritesRow
    <3> QED BY <1>1, <1>3, <1>4, <1>5, <2>1, <3>1
  <2>3. CASE hook[x].status # "completed"
    <3> DEFINE new == [ev[e] EXCEPT !.step = "post"]
    <3>1. new \in EvRecords /\ new.send = ev[e].send /\ new.at = ev[e].at
      BY <1>1 DEF EvRecords, AutoSteps
    <3>2. ev' = [ev EXCEPT ![e] = new]
      BY <1>7, <2>3 DEF WritesRow
    <3>3. hook' \in [Run -> HookRecords] /\ \A y \in Run : y # x => hook'[y] = hook[y]
      <4>1. hook[x].attempts \in Nat /\ hook[x].attempts + 1 \in Nat
        BY <1>1 DEF HookRecords
      <4>2. ASSUME NEW n \in Nat PROVE [status |-> "running", attempts |-> n] \in HookRecords
        BY DEF HookRecords
      <4>3. PICK h \in HookRecords : hook' = [hook EXCEPT ![x] = h]
        BY <1>7, <2>3, <4>1, <4>2 DEF WritesRow
      <4> QED BY <1>1, <4>3
    <3> HIDE DEF new
    <3> QED BY <1>1, <1>2, <1>3, <1>4, <2>1, <3>1, <3>2, <3>3
  <2> QED BY <2>2, <2>3
<1>8. ASSUME NEW ok \in BOOLEAN, Posts(e, x, ok) PROVE AutoInv'
  <2>1. hook' \in [Run -> HookRecords] /\ \A y \in Run : y # x => hook'[y] = hook[y]
    BY <1>1, <1>8 DEF Posts, HookRecords
  <2>2. Delivered(e, x) /\ UNCHANGED <<rules, ran, template, applied, broken, transcribed, held, notices>>
    BY <1>8 DEF Posts, Recorded
  <2> QED BY <1>1, <1>3, <1>4, <1>5, <2>1, <2>2
<1> QED BY <1>6, <1>7, <1>8

LEMMA CycleKeepsAutoInv ==
  ASSUME AutoInv, CycleBegins \/ Transcribes \/ Derives \/ CycleFails
  PROVE  AutoInv'
<1>1. /\ Pipeline \in Evaluator /\ ev[Pipeline] \in EvRecords
      /\ \A x \in ev[Pipeline].send : ran[x] = "completed"
      /\ ev[Pipeline].step # "apply" => ev[Pipeline].at \subseteq ev[Pipeline].send
      /\ rules \in [Rule -> [enabled : BOOLEAN, version : 1 .. MaxVersion]]
      /\ transcribed \in BOOLEAN /\ held \in BOOLEAN
  BY AutomationConstants DEF AutoInv, AutoTypeOK, EvRecords, Delivers
<1>2. NoEv \in EvRecords /\ NoEv.send = {} /\ NoEv.at = {}
  BY DEF NoEv, EvRecords, AutoSteps
<1>3. ASSUME NEW new \in EvRecords, ev' = [ev EXCEPT ![Pipeline] = new],
             new.send \subseteq ev[Pipeline].send, new.at \subseteq new.send,
             UNCHANGED <<ran, template, applied, broken, notices, hook, rules>>,
             transcribed' \in BOOLEAN, held' \in BOOLEAN
      PROVE  AutoInv'
  BY <1>1, <1>3, EvaluatorMoves
<1>4. CASE CycleBegins
  <2> DEFINE new == [ev[Pipeline] EXCEPT !.step = "stages"]
  <2>1. new \in EvRecords /\ new.send = ev[Pipeline].send /\ new.at = ev[Pipeline].at
        /\ ev[Pipeline].step # "apply"
    BY <1>1, <1>4 DEF EvRecords, AutoSteps, CycleBegins
  <2>2. /\ ev' = [ev EXCEPT ![Pipeline] = new] /\ held' = TRUE
        /\ UNCHANGED <<ran, template, applied, broken, notices, hook, rules, transcribed>>
    BY <1>4 DEF CycleBegins, Recorded, Sent
  <2> HIDE DEF new
  <2> QED BY <1>1, <1>3, <2>1, <2>2
<1>5. CASE Transcribes
  <2> DEFINE new == [ev[Pipeline] EXCEPT !.step = "rules", !.todo = Enabled]
  <2>1. new \in EvRecords /\ new.send = ev[Pipeline].send /\ new.at = ev[Pipeline].at
        /\ ev[Pipeline].step # "apply"
    BY <1>1, <1>5 DEF EvRecords, AutoSteps, Transcribes, Enabled
  <2>2. /\ ev' = [ev EXCEPT ![Pipeline] = new] /\ transcribed' = TRUE
        /\ UNCHANGED <<ran, template, applied, broken, notices, hook, rules, held>>
    BY <1>1, <1>5 DEF Transcribes, Recorded, Sent, AutoInv, AutoTypeOK, EvRecords
  <2> HIDE DEF new
  <2> QED BY <1>1, <1>3, <2>1, <2>2
<1>6. CASE Derives
  <2>1. UNCHANGED <<ran, template, applied, broken, notices, hook, rules, transcribed>>
    BY <1>6 DEF Derives, Recorded, Sent
  <2>2. CASE ev[Pipeline].send = {}
    <3>1. ev' = [ev EXCEPT ![Pipeline] = NoEv] /\ held' = FALSE
      BY <1>6, <2>2 DEF Derives
    <3> QED BY <1>1, <1>2, <1>3, <2>1, <3>1
  <2>3. CASE ev[Pipeline].send # {}
    <3> DEFINE new == [ev[Pipeline] EXCEPT !.step = "notice"]
    <3>1. new \in EvRecords /\ new.send = ev[Pipeline].send /\ new.at = ev[Pipeline].at
          /\ ev[Pipeline].step # "apply"
      BY <1>1, <1>6 DEF EvRecords, AutoSteps, Derives
    <3>2. ev' = [ev EXCEPT ![Pipeline] = new] /\ UNCHANGED held
      BY <1>6, <2>3 DEF Derives
    <3> HIDE DEF new
    <3> QED BY <1>1, <1>3, <2>1, <3>1, <3>2
  <2> QED BY <2>2, <2>3
<1>7. CASE CycleFails
  <2>1. /\ ev' = [ev EXCEPT ![Pipeline] = NoEv] /\ held' = FALSE
        /\ UNCHANGED <<ran, template, applied, broken, notices, hook, rules, transcribed>>
    BY <1>7 DEF CycleFails, Recorded, Sent
  <2> QED BY <1>1, <1>2, <1>3, <2>1
<1> QED BY <1>4, <1>5, <1>6, <1>7

LEMMA RuleKeepsAutoInv ==
  ASSUME AutoInv, NEW r \in Rule, UpdateRule(r) \/ ToggleRule(r)
  PROVE  AutoInv'
<1>1. rules' \in [Rule -> [enabled : BOOLEAN, version : 1 .. MaxVersion]]
  <2>1. rules \in [Rule -> [enabled : BOOLEAN, version : 1 .. MaxVersion]] /\ MaxVersion \in Nat
    BY AutomationConstants DEF AutoInv, AutoTypeOK
  <2>2. CASE UpdateRule(r)
    <3>1. rules[r].version + 1 \in 1 .. MaxVersion
      BY <2>1, <2>2 DEF UpdateRule
    <3>2. ASSUME NEW n \in 1 .. MaxVersion, rules' = [rules EXCEPT ![r].version = n]
          PROVE  rules' \in [Rule -> [enabled : BOOLEAN, version : 1 .. MaxVersion]]
      BY <2>1, <3>2
    <3> QED BY <2>2, <3>1, <3>2 DEF UpdateRule
  <2>3. CASE ToggleRule(r)
    BY <2>1, <2>3 DEF ToggleRule
  <2> QED BY <2>2, <2>3
<1>2. UNCHANGED <<ran, template, applied, broken, transcribed, held, ev, notices, hook>>
  BY DEF UpdateRule, ToggleRule, Recorded, Sent
<1>3. AutoTypeOK'
  BY <1>1, <1>2 DEF AutoInv, AutoTypeOK
<1>4. AppliedAsRecorded' /\ TemplateIsOfARun'
  BY <1>2 DEF AutoInv, AppliedAsRecorded, TemplateIsOfARun
<1>5. \A e \in Evaluator : Delivers(e)'
  BY <1>2 DEF AutoInv, Delivers
<1> QED BY <1>3, <1>4, <1>5 DEF AutoInv

LEMMA AutoStepHolds == AutoInv /\ [AutoNext]_autoVars => AutoInv'
<1> SUFFICES ASSUME AutoInv, [AutoNext]_autoVars PROVE AutoInv'
  OBVIOUS
<1>1. CASE UNCHANGED autoVars
  <2>1. UNCHANGED <<rules, ran, template, applied, transcribed, held, ev, broken, notices, hook>>
    BY <1>1 DEF autoVars
  <2>2. AutoTypeOK'
    BY <2>1 DEF AutoInv, AutoTypeOK
  <2>3. AppliedAsRecorded' /\ TemplateIsOfARun'
    BY <2>1 DEF AutoInv, AppliedAsRecorded, TemplateIsOfARun
  <2>4. \A e \in Evaluator : Delivers(e)'
    BY <2>1 DEF AutoInv, Delivers
  <2> QED BY <2>2, <2>3, <2>4 DEF AutoInv
<1>2. ASSUME NEW e \in Evaluator, EvaluatorStep(e) PROVE AutoInv'
  <2>1. ASSUME NEW x \in Run,
               \/ Skips(e, x) \/ Applies(e, x) \/ Collides(e, x)
               \/ LooksForNotice(e, x) \/ InsertsNotice(e, x) \/ WritesRow(e, x)
               \/ \E ok \in BOOLEAN : Posts(e, x, ok)
        PROVE  AutoInv'
    <3>1. CASE Skips(e, x) \/ Collides(e, x) \/ LooksForNotice(e, x)
      BY <3>1, EvaluationKeepsAutoInv
    <3>2. CASE Applies(e, x)
      BY <3>2, CommitKeepsAutoInv
    <3>3. CASE InsertsNotice(e, x) \/ WritesRow(e, x) \/ \E ok \in BOOLEAN : Posts(e, x, ok)
      BY <3>3, DeliveryKeepsAutoInv
    <3> QED BY <2>1, <3>1, <3>2, <3>3
  <2>2. CASE Evaluated(e) \/ \E r \in Rule : Looks(e, r)
    BY <2>2, EvaluationKeepsAutoInv
  <2> QED BY <1>2, <2>1, <2>2 DEF EvaluatorStep
<1>3. ASSUME NEW e \in Evaluator, NEW x \in Run,
             Fails(e, x) \/ RetryRun(e, x) \/ AsksAgain(e, x, "renotice") \/ AsksAgain(e, x, "row")
      PROVE  AutoInv'
  <2>1. CASE Fails(e, x) \/ RetryRun(e, x)
    BY <2>1, CommitKeepsAutoInv
  <2>2. CASE AsksAgain(e, x, "renotice") \/ AsksAgain(e, x, "row")
    BY <2>2, EvaluationKeepsAutoInv
  <2> QED BY <1>3, <2>1, <2>2
<1>4. ASSUME NEW e \in Evaluator, Evaluate(e) \/ EvaluatorDies(e) PROVE AutoInv'
  BY <1>4, EvaluationKeepsAutoInv
<1>5. CASE CycleBegins \/ Transcribes \/ Derives \/ CycleFails
  BY <1>5, CycleKeepsAutoInv
<1>6. ASSUME NEW r \in Rule, UpdateRule(r) \/ ToggleRule(r) PROVE AutoInv'
  BY <1>6, RuleKeepsAutoInv
<1> QED BY <1>1, <1>2, <1>3, <1>4, <1>5, <1>6 DEF AutoNext

\* The rules are well typed, every run is what its commits say, and nothing is
\* delivered that was not committed (automations.py evaluate_recording).
THEOREM AutomationInvariant == AutoSpec => []AutoInv
<1> QED BY AutoInitHolds, AutoStepHolds, PTL DEF AutoSpec

\* The actions of a rule version reach the recording once, on record and together
\* with their run; nothing is announced that was taken back, one inbox item is
\* written per run, and a rule skipped for a busy recording stays due, for any
\* number of rules and concurrent evaluators (automations.py evaluate_recording,
\* deliver_local_notification, integrations.py deliver_webhook).
THEOREM RulesRunOnce == AutoSpec => []AutomationSafety
<1>1. AutoInv => AutomationSafety
  <2> SUFFICES ASSUME AutoInv PROVE AutomationSafety
    OBVIOUS
  <2>1. AppliedAsRecorded /\ TemplateIsOfARun
    BY DEF AutoInv
  <2>2. OncePerVersion /\ OneNotice /\ SkippedStaysDue
    BY <2>1 DEF AppliedAsRecorded, OncePerVersion, OneNotice, SkippedStaysDue
  <2>3. ActionsAreOnRecord
    BY <2>1 DEF AppliedAsRecorded, TemplateIsOfARun, ActionsAreOnRecord
  <2> QED BY <2>2, <2>3 DEF AutomationSafety
<1> QED BY <1>1, AutomationInvariant, PTL

----------------------------------------------------------------------------
(* The catalogue: the line between the past and what comes after.          *)

(* A sync that lives holds the lock; what it writes or downloads, and what *)
(* it takes for the baseline, it does once there is one.                   *)
SyncFits(s) ==
    /\ sync[s].live => lock.owner = s /\ lock.fresh
    /\ sync[s].based \/ sync[s].step \in {"write", "download"} => baseline
    /\ sync[s].listing \subseteq cloud /\ sync[s].absent \subseteq cloud

(* An import that read no baseline has listed nothing uploaded after it.   *)
ImportFits ==
    /\ imp.at \subseteq imp.todo /\ imp.todo \subseteq cloud
    /\ imp.step \notin {"idle", "down"} => imp.run \in 1 .. ImportRuns
    /\ imp.step \in {"row", "insert", "refresh"} /\ ~imp.based => imp.todo \cap late = {}

RowsFit ==
    /\ \A r \in Recording : rec[r] # "none" => r \in cloud
    /\ ~baseline => history = {} /\ late = {} /\ \A r \in Recording : rec[r] # "downloaded"

CatalogInv ==
    /\ CatalogTypeOK
    /\ \A s \in Syncer : SyncFits(s)
    /\ ImportFits /\ RowsFit
    /\ HistoryStaysCold /\ LateIsQueued /\ OpenRunIsManned

SyncRecords ==
    [step : {"idle", "claim", "list", "read", "write", "release", "download"},
     based : BOOLEAN, listing : SUBSET Recording, absent : SUBSET Recording, live : BOOLEAN]
ImportRecords ==
    [step : {"idle", "start", "list", "baseline", "row", "insert", "refresh", "mark", "down"},
     run : 0 .. ImportRuns, todo : SUBSET Recording, based : BOOLEAN, at : SUBSET Recording]

LEMMA NullRecords ==
  /\ NoSync \in SyncRecords /\ ~NoSync.live /\ ~NoSync.based /\ NoSync.listing = {} /\ NoSync.absent = {}
  /\ NoSync.step = "idle"
  /\ NoImport \in ImportRecords /\ NoImport.todo = {} /\ NoImport.at = {} /\ NoImport.step = "idle"
<1>1. 0 \in 0 .. ImportRuns
  BY CatalogConstants
<1> QED BY <1>1 DEF NoSync, NoImport, SyncRecords, ImportRecords

LEMMA CatalogInitHolds == CatalogInit => CatalogInv
<1> SUFFICES ASSUME CatalogInit PROVE CatalogInv
  OBVIOUS
<1>1. CatalogTypeOK
  <2>1. 0 \in 0 .. CatalogCrashes
    BY CatalogConstants
  <2> QED BY <2>1, NullRecords, CatalogConstants
          DEF CatalogInit, CatalogTypeOK, SyncRecords, ImportRecords, Known
<1>2. \A s \in Syncer : SyncFits(s)
  BY NullRecords DEF CatalogInit, SyncFits
<1>3. ImportFits
  BY NullRecords DEF CatalogInit, ImportFits
<1>4. RowsFit /\ HistoryStaysCold /\ LateIsQueued
  BY DEF CatalogInit, RowsFit, HistoryStaysCold, LateIsQueued
<1>5. OpenRunIsManned
  BY DEF CatalogInit, OpenRunIsManned, Open
<1> QED BY <1>1, <1>2, <1>3, <1>4, <1>5 DEF CatalogInv

\* One syncer moves, and the lock is taken from nobody who lives.
LEMMA OneSyncMoves ==
  ASSUME CatalogInv, NEW s \in Syncer, NEW new \in SyncRecords, sync' = [sync EXCEPT ![s] = new],
         SyncFits(s)', baseline => baseline', cloud \subseteq cloud',
         \A u \in Syncer \ {s} : sync[u].live => lock' = lock
  PROVE  sync' \in [Syncer -> SyncRecords] /\ \A u \in Syncer : SyncFits(u)'
<1>1. sync \in [Syncer -> SyncRecords]
  BY DEF CatalogInv, CatalogTypeOK, SyncRecords
<1>2. ASSUME NEW u \in Syncer, u # s PROVE SyncFits(u)'
  <2>1. sync'[u] = sync[u] /\ SyncFits(u)
    BY <1>1, <1>2 DEF CatalogInv
  <2> QED BY <1>2, <2>1 DEF SyncFits
<1> QED BY <1>1, <1>2

\* Steps that leave the rows, the baseline and the import alone.
LEMMA SyncOnly ==
  ASSUME CatalogInv, NEW s \in Syncer, NEW new \in SyncRecords, sync' = [sync EXCEPT ![s] = new],
         new.live => lock'.owner = s /\ lock'.fresh,
         new.based \/ new.step \in {"write", "download"} => baseline,
         new.listing \subseteq cloud, new.absent \subseteq cloud,
         \A u \in Syncer \ {s} : sync[u].live => lock' = lock,
         lock' \in [owner : Syncer \cup {Nobody}, fresh : BOOLEAN],
         UNCHANGED <<cloud, rec, baseline, imp, importRun, history, late, crashed>>
  PROVE  CatalogInv'
<1>1. sync'[s] = new
  BY DEF CatalogInv, CatalogTypeOK
<1>2. SyncFits(s)'
  BY <1>1 DEF SyncFits
<1>3. sync' \in [Syncer -> SyncRecords] /\ \A u \in Syncer : SyncFits(u)'
  BY <1>2, OneSyncMoves
<1>4. CatalogTypeOK'
  BY <1>3 DEF CatalogInv, CatalogTypeOK, SyncRecords
<1> QED BY <1>3, <1>4
        DEF CatalogInv, ImportFits, RowsFit, HistoryStaysCold, LateIsQueued, OpenRunIsManned

LEMMA SyncKeepsCatalogInv ==
  ASSUME CatalogInv, NEW s \in Syncer,
         \/ CheckBegins(s) \/ Claim(s) \/ ListingBusy(s) \/ Lists(s) \/ ListFails(s)
         \/ ReadsRows(s) \/ WriteConflicts(s) \/ Release(s) \/ PollEnds(s)
  PROVE  CatalogInv'
<1>1. /\ sync \in [Syncer -> SyncRecords] /\ sync[s] \in SyncRecords /\ SyncFits(s)
      /\ cloud \in SUBSET Recording /\ baseline \in BOOLEAN
      /\ lock \in [owner : Syncer \cup {Nobody}, fresh : BOOLEAN]
  BY DEF CatalogInv, CatalogTypeOK, SyncRecords
<1>2. \A u \in Syncer : sync[u].live => lock.owner = u /\ lock.fresh
  BY DEF CatalogInv, SyncFits
<1>3. [owner |-> Nobody, fresh |-> FALSE] \in [owner : Syncer \cup {Nobody}, fresh : BOOLEAN]
  OBVIOUS
<1> DEFINE rest == UNCHANGED <<cloud, rec, baseline, imp, importRun, history, late, crashed>>
<1>4. ASSUME NEW new \in SyncRecords, sync' = [sync EXCEPT ![s] = new], rest, UNCHANGED lock,
             new.live => sync[s].live,
             new.based \/ new.step \in {"write", "download"} => baseline,
             new.listing \subseteq cloud, new.absent \subseteq cloud
      PROVE  CatalogInv'
  BY <1>1, <1>2, <1>4, SyncOnly
<1>5. CASE CheckBegins(s)
  <2> DEFINE new == [sync[s] EXCEPT !.step = "claim"]
  <2>1. /\ new \in SyncRecords /\ new.step = "claim" /\ new.live = sync[s].live
        /\ new.based = sync[s].based /\ new.listing = sync[s].listing /\ new.absent = sync[s].absent
    BY <1>1 DEF SyncRecords
  <2>2. sync' = [sync EXCEPT ![s] = new] /\ rest /\ UNCHANGED lock
    BY <1>5 DEF CheckBegins, Goes, untouched
  <2> HIDE DEF new
  <2> QED BY <1>1, <1>4, <2>1, <2>2 DEF SyncFits
<1>6. CASE Claim(s)
  <2> DEFINE new == [sync[s] EXCEPT !.step = "list", !.live = TRUE]
  <2>1. /\ new \in SyncRecords /\ new.step = "list"
        /\ new.based = sync[s].based /\ new.listing = sync[s].listing /\ new.absent = sync[s].absent
    BY <1>1 DEF SyncRecords
  <2>2. sync' = [sync EXCEPT ![s] = new] /\ rest /\ lock' = [owner |-> s, fresh |-> TRUE] /\ ~lock.fresh
    BY <1>1, <1>6 DEF Claim, untouched, LockIsFree, SyncRecords
  <2>3. lock' \in [owner : Syncer \cup {Nobody}, fresh : BOOLEAN] /\ lock'.owner = s /\ lock'.fresh
    BY <2>2
  <2>4. \A u \in Syncer \ {s} : sync[u].live => lock' = lock
    BY <1>2, <2>2
  <2> HIDE DEF new
  <2> QED BY <1>1, <2>1, <2>2, <2>3, <2>4, SyncOnly DEF SyncFits
<1>7. CASE ListingBusy(s)
  <2> DEFINE new == [sync[s] EXCEPT !.step = IF sync[s].based THEN "download" ELSE "idle"]
  <2>1. /\ new \in SyncRecords /\ (new.step \in {"write", "download"} => sync[s].based)
        /\ new.live = sync[s].live
        /\ new.based = sync[s].based /\ new.listing = sync[s].listing /\ new.absent = sync[s].absent
    BY <1>1 DEF SyncRecords
  <2>2. sync' = [sync EXCEPT ![s] = new] /\ rest /\ UNCHANGED lock
    BY <1>7 DEF ListingBusy, Goes, untouched
  <2> HIDE DEF new
  <2> QED BY <1>1, <1>4, <2>1, <2>2 DEF SyncFits
<1>8. CASE Lists(s)
  <2> DEFINE new == [sync[s] EXCEPT !.listing = cloud, !.step = "read"]
  <2>1. /\ new \in SyncRecords /\ new.step = "read" /\ new.live = sync[s].live
        /\ new.based = sync[s].based /\ new.listing = cloud /\ new.absent = sync[s].absent
    BY <1>1 DEF SyncRecords
  <2>2. sync' = [sync EXCEPT ![s] = new] /\ rest /\ UNCHANGED lock
    BY <1>1, <1>8 DEF Lists, untouched, SyncRecords
  <2> HIDE DEF new
  <2> QED BY <1>1, <1>4, <2>1, <2>2 DEF SyncFits
<1>9. CASE ListFails(s)
  <2> DEFINE new == [sync[s] EXCEPT !.step = "release", !.based = FALSE]
  <2>1. /\ new \in SyncRecords /\ new.step = "release" /\ new.live = sync[s].live
        /\ ~new.based /\ new.listing = sync[s].listing /\ new.absent = sync[s].absent
    BY <1>1 DEF SyncRecords
  <2>2. sync' = [sync EXCEPT ![s] = new] /\ rest /\ UNCHANGED lock
    BY <1>1, <1>9 DEF ListFails, untouched, SyncRecords
  <2> HIDE DEF new
  <2> QED BY <1>1, <1>4, <2>1, <2>2 DEF SyncFits
<1>10. CASE ReadsRows(s)
  <2> DEFINE new == [sync[s] EXCEPT !.absent = {r \in sync[s].listing : rec[r] = "none"}, !.step = "write"]
  <2>1. /\ new \in SyncRecords /\ new.live = sync[s].live
        /\ new.listing = sync[s].listing /\ new.absent \subseteq sync[s].listing
    BY <1>1 DEF SyncRecords
  <2>2. sync' = [sync EXCEPT ![s] = new] /\ rest /\ UNCHANGED lock /\ baseline
    BY <1>1, <1>10 DEF ReadsRows, untouched, SyncRecords
  <2> HIDE DEF new
  <2> QED BY <1>1, <1>4, <2>1, <2>2 DEF SyncFits
<1>11. CASE WriteConflicts(s)
  <2> DEFINE new == [NoSync EXCEPT !.step = "release", !.live = sync[s].live]
  <2>1. /\ new \in SyncRecords /\ new.step = "release" /\ new.live = sync[s].live
        /\ ~new.based /\ new.listing = {} /\ new.absent = {}
    BY <1>1 DEF SyncRecords, NoSync
  <2>2. sync' = [sync EXCEPT ![s] = new] /\ rest /\ UNCHANGED lock
    BY <1>11 DEF WriteConflicts, untouched
  <2> HIDE DEF new
  <2> QED BY <1>1, <1>4, <2>1, <2>2 DEF SyncFits
<1>12. CASE Release(s)
  <2> DEFINE new == [sync[s] EXCEPT !.step = IF sync[s].based THEN "download" ELSE "idle", !.live = FALSE]
  <2>1. /\ new \in SyncRecords /\ (new.step \in {"write", "download"} => sync[s].based) /\ ~new.live
        /\ new.based = sync[s].based /\ new.listing = sync[s].listing /\ new.absent = sync[s].absent
    BY <1>1 DEF SyncRecords
  <2>2. sync' = [sync EXCEPT ![s] = new] /\ rest /\ lock' = Released(s)
    BY <1>1, <1>12 DEF Release, untouched, SyncRecords
  <2>3. lock' \in [owner : Syncer \cup {Nobody}, fresh : BOOLEAN] /\ (lock.owner # s => lock' = lock)
    BY <1>1, <1>3, <2>2 DEF Released
  <2>4. \A u \in Syncer \ {s} : sync[u].live => lock' = lock
    BY <1>2, <2>3
  <2> HIDE DEF new
  <2> QED BY <1>1, <2>1, <2>2, <2>3, <2>4, SyncOnly DEF SyncFits
<1>13. CASE PollEnds(s)
  <2> DEFINE new == [sync[s] EXCEPT !.step = "idle"]
  <2>1. /\ new \in SyncRecords /\ new.step = "idle" /\ new.live = sync[s].live
        /\ new.based = sync[s].based /\ new.listing = sync[s].listing /\ new.absent = sync[s].absent
    BY <1>1 DEF SyncRecords
  <2>2. sync' = [sync EXCEPT ![s] = new] /\ rest /\ UNCHANGED lock
    BY <1>13 DEF PollEnds, Goes, untouched
  <2> HIDE DEF new
  <2> QED BY <1>1, <1>4, <2>1, <2>2 DEF SyncFits
<1> QED BY <1>5, <1>6, <1>7, <1>8, <1>9, <1>10, <1>11, <1>12, <1>13

\* Steps of the import that leave the rows alone.
LEMMA ImportOnly ==
  ASSUME CatalogInv, imp' \in ImportRecords,
         importRun' \in [1 .. ImportRuns -> Open \cup {"none", "completed", "failed"}],
         ImportFits', OpenRunIsManned',
         UNCHANGED <<cloud, rec, baseline, lock, sync, history, late, crashed>>
  PROVE  CatalogInv'
<1>1. CatalogTypeOK'
  BY DEF CatalogInv, CatalogTypeOK, ImportRecords
<1> QED BY <1>1 DEF CatalogInv, SyncFits, RowsFit, HistoryStaysCold, LateIsQueued

\* The status of the run of the import is all that changes of the runs.
LEMMA RunIsMarked ==
  ASSUME CatalogInv, imp.run \in 1 .. ImportRuns, imp.step # "down",
         NEW status \in Open \cup {"completed", "failed"},
         importRun' = [importRun EXCEPT ![imp.run] = status],
         imp'.run = imp.run \/ status \notin Open
  PROVE  /\ importRun' \in [1 .. ImportRuns -> Open \cup {"none", "completed", "failed"}]
         /\ OpenRunIsManned'
<1>1. importRun \in [1 .. ImportRuns -> Open \cup {"none", "completed", "failed"}]
  BY DEF CatalogInv, CatalogTypeOK
<1>2. importRun' \in [1 .. ImportRuns -> Open \cup {"none", "completed", "failed"}]
  BY <1>1
<1>3. ASSUME NEW i \in 1 .. ImportRuns, importRun'[i] \in Open PROVE imp'.run = i
  <2>1. CASE i = imp.run
    BY <1>1, <1>3, <2>1
  <2>2. CASE i # imp.run
    <3>1. importRun'[i] = importRun[i]
      BY <1>1, <2>2
    <3> QED BY <1>1, <1>3, <2>2, <3>1 DEF CatalogInv, OpenRunIsManned
  <2> QED BY <2>1, <2>2
<1> QED BY <1>2, <1>3 DEF OpenRunIsManned

LEMMA ImportKeepsCatalogInv ==
  ASSUME CatalogInv,
         \/ \E i \in 1 .. ImportRuns : StartImport(i)
         \/ ImportBegins \/ ImportLists \/ ImportReadsBaseline \/ ImportFails
         \/ ImportAdvances \/ ImportCompletes \/ ServiceStarts
         \/ \E r \in Recording : ImportRow(r)
  PROVE  CatalogInv'
<1>1. /\ imp \in ImportRecords /\ ImportFits /\ OpenRunIsManned
      /\ importRun \in [1 .. ImportRuns -> Open \cup {"none", "completed", "failed"}]
      /\ cloud \in SUBSET Recording /\ late \in SUBSET Recording /\ baseline \in BOOLEAN
  BY DEF CatalogInv, CatalogTypeOK, ImportRecords
<1> DEFINE rest == UNCHANGED <<cloud, rec, baseline, lock, sync, history, late, crashed>>
\* The run goes on, with the same runs in the table.
<1>2. ASSUME imp' \in ImportRecords, imp'.run = imp.run, imp.step \notin {"idle", "down"},
             imp'.at \subseteq imp'.todo, imp'.todo \subseteq cloud,
             imp'.step \in {"row", "insert", "refresh"} /\ ~imp'.based => imp'.todo \cap late = {},
             rest, UNCHANGED importRun
      PROVE  CatalogInv'
  <2>1. ImportFits'
    BY <1>1, <1>2 DEF ImportFits
  <2>2. OpenRunIsManned'
    BY <1>1, <1>2 DEF OpenRunIsManned
  <2> QED BY <1>1, <1>2, <2>1, <2>2, ImportOnly
\* The run ends.
<1>3. ASSUME imp.step \notin {"idle", "down"}, imp' = NoImport, rest,
             NEW status \in {"completed", "failed"}, importRun' = [importRun EXCEPT ![imp.run] = status]
      PROVE  CatalogInv'
  <2>1. status \notin Open /\ imp.run \in 1 .. ImportRuns
    BY <1>1, <1>3 DEF Open, ImportFits
  <2>2. /\ importRun' \in [1 .. ImportRuns -> Open \cup {"none", "completed", "failed"}]
        /\ OpenRunIsManned'
    BY <1>3, <2>1, RunIsMarked
  <2>3. imp' \in ImportRecords /\ ImportFits'
    BY <1>3, NullRecords DEF ImportFits
  <2> QED BY <1>3, <2>2, <2>3, ImportOnly
<1>4. ASSUME NEW i \in 1 .. ImportRuns, StartImport(i) PROVE CatalogInv'
  <2> DEFINE new == [NoImport EXCEPT !.step = "start", !.run = i]
  <2>0. i \in 0 .. ImportRuns
    BY CatalogConstants
  <2>1. new \in ImportRecords /\ new.step = "start" /\ new.run = i /\ new.todo = {} /\ new.at = {}
    BY <2>0 DEF NoImport, ImportRecords
  <2>2. /\ imp' = new /\ rest /\ importRun' = [importRun EXCEPT ![i] = "queued"]
        /\ \A k \in 1 .. ImportRuns : importRun[k] \notin Open
    BY <1>4 DEF StartImport, Rests, untouched
  <2> HIDE DEF new
  <2>3. importRun' \in [1 .. ImportRuns -> Open \cup {"none", "completed", "failed"}]
    BY <1>1, <1>4, <2>2 DEF Open
  <2>4. ImportFits'
    BY <1>4, <2>1, <2>2 DEF ImportFits
  <2>5. OpenRunIsManned'
    <3>1. ASSUME NEW k \in 1 .. ImportRuns, importRun'[k] \in Open PROVE k = i
      BY <1>1, <1>4, <2>2, <3>1
    <3>2. DOMAIN importRun' = 1 .. ImportRuns
      BY <2>3
    <3> QED BY <2>1, <2>2, <3>1, <3>2 DEF OpenRunIsManned
  <2> QED BY <2>1, <2>2, <2>3, <2>4, <2>5, ImportOnly
<1>5. CASE ImportBegins
  <2> DEFINE new == [imp EXCEPT !.step = "list"]
  <2>1. /\ new \in ImportRecords /\ new.step = "list" /\ new.run = imp.run
        /\ new.todo = imp.todo /\ new.at = imp.at
    BY <1>1 DEF ImportRecords
  <2>2. /\ imp' = new /\ rest /\ importRun' = [importRun EXCEPT ![imp.run] = "running"]
        /\ imp.step = "start"
    BY <1>5 DEF ImportBegins, Rests, untouched
  <2> HIDE DEF new
  <2>3. imp.run \in 1 .. ImportRuns /\ "running" \in Open
    BY <1>1, <2>2 DEF ImportFits, Open
  <2>4. /\ importRun' \in [1 .. ImportRuns -> Open \cup {"none", "completed", "failed"}]
        /\ OpenRunIsManned'
    BY <2>1, <2>2, <2>3, RunIsMarked
  <2>5. ImportFits'
    BY <1>1, <2>1, <2>2, <2>3 DEF ImportFits
  <2> QED BY <2>1, <2>2, <2>4, <2>5, ImportOnly
<1>6. CASE ImportLists
  <2> DEFINE new == [imp EXCEPT !.step = "baseline", !.todo = cloud]
  <2>1. /\ new \in ImportRecords /\ new.step = "baseline" /\ new.run = imp.run
        /\ new.todo = cloud /\ new.at = imp.at
    BY <1>1 DEF ImportRecords
  <2>2. imp' = new /\ rest /\ UNCHANGED importRun /\ imp.step = "list"
    BY <1>6 DEF ImportLists, Rests, untouched
  <2> HIDE DEF new
  <2> QED BY <1>1, <1>2, <2>1, <2>2 DEF ImportFits
<1>7. CASE ImportReadsBaseline
  <2> DEFINE new == [imp EXCEPT !.step = "row", !.based = baseline]
  <2>1. /\ new \in ImportRecords /\ new.run = imp.run /\ new.based = baseline
        /\ new.todo = imp.todo /\ new.at = imp.at
    BY <1>1 DEF ImportRecords
  <2>2. imp' = new /\ rest /\ UNCHANGED importRun /\ imp.step = "baseline"
    BY <1>7 DEF ImportReadsBaseline, Rests, untouched
  <2> HIDE DEF new
  <2>3. ~baseline => late = {}
    BY DEF CatalogInv, RowsFit
  <2> QED BY <1>1, <1>2, <2>1, <2>2, <2>3 DEF ImportFits
<1>8. ASSUME NEW r \in Recording, ImportRow(r) PROVE CatalogInv'
  <2> DEFINE new == [imp EXCEPT !.at = {r}, !.step = IF rec[r] = "none" THEN "insert" ELSE "refresh"]
  <2>1. /\ new \in ImportRecords /\ new.run = imp.run /\ new.based = imp.based
        /\ new.todo = imp.todo /\ new.at = {r}
    BY <1>1 DEF ImportRecords
  <2>2. imp' = new /\ rest /\ UNCHANGED importRun /\ imp.step = "row" /\ r \in imp.todo
    BY <1>8 DEF ImportRow, Rests, untouched
  <2> HIDE DEF new
  <2> QED BY <1>1, <1>2, <2>1, <2>2 DEF ImportFits
<1>9. CASE ImportFails
  BY <1>3, <1>9 DEF ImportFails, Rests, untouched
<1>10. CASE ImportAdvances
  <2> DEFINE new == [imp EXCEPT !.step = "row", !.todo = @ \ imp.at, !.at = {}]
  <2>1. /\ new \in ImportRecords /\ new.run = imp.run /\ new.based = imp.based
        /\ new.todo = imp.todo \ imp.at /\ new.at = {}
    BY <1>1 DEF ImportRecords
  <2>2. imp' = new /\ rest /\ UNCHANGED importRun /\ imp.step = "refresh"
    BY <1>1, <1>10 DEF ImportAdvances, Rests, untouched, ImportRecords
  <2> HIDE DEF new
  <2> QED BY <1>1, <1>2, <2>1, <2>2 DEF ImportFits
<1>11. CASE ImportCompletes
  BY <1>3, <1>11 DEF ImportCompletes, Rests, untouched
<1>12. CASE ServiceStarts
  <2>1. imp' = NoImport /\ rest /\ importRun' = [i \in 1 .. ImportRuns |-> Interrupted(importRun[i])]
    BY <1>1, <1>12 DEF ServiceStarts, Rests, untouched
  <2>2. \A i \in 1 .. ImportRuns :
            Interrupted(importRun[i]) \in {"none", "completed", "failed"}
    BY <1>1 DEF Interrupted, Open
  <2>3. importRun' \in [1 .. ImportRuns -> Open \cup {"none", "completed", "failed"}]
    BY <2>1, <2>2
  <2>4. OpenRunIsManned'
    BY <2>1, <2>2 DEF OpenRunIsManned, Open
  <2>5. imp' \in ImportRecords /\ ImportFits'
    BY <2>1, NullRecords DEF ImportFits
  <2> QED BY <2>1, <2>3, <2>4, <2>5, ImportOnly
<1> QED BY <1>4, <1>5, <1>6, <1>7, <1>8, <1>9, <1>10, <1>11, <1>12

\* A row keeps its side of the line, and is made for what the cloud holds.
LEMMA RowsKeepCatalogInv ==
  ASSUME CatalogInv, rec' \in [Recording -> Known \cup {"none"}],
         sync' \in [Syncer -> SyncRecords], \A u \in Syncer : SyncFits(u)',
         imp' = imp \/ (imp' = [imp EXCEPT !.step = "refresh"] /\ imp.step = "insert"),
         \A r \in Recording : rec'[r] # "none" => r \in cloud,
         ~baseline => \A r \in Recording : rec'[r] # "downloaded",
         \A r \in history : rec'[r] = "metadata_only",
         \A r \in late \ Overlong : rec'[r] # "metadata_only",
         UNCHANGED <<cloud, baseline, lock, importRun, history, late, crashed>>
  PROVE  CatalogInv'
<1>1. imp \in ImportRecords /\ ImportFits /\ OpenRunIsManned
  BY DEF CatalogInv, CatalogTypeOK, ImportRecords
<1>2. imp' \in ImportRecords /\ ImportFits' /\ OpenRunIsManned'
  <2>1. CASE imp' = imp
    BY <1>1, <2>1 DEF ImportFits, OpenRunIsManned
  <2>2. CASE imp' = [imp EXCEPT !.step = "refresh"] /\ imp.step = "insert"
    <3>1. /\ imp' \in ImportRecords /\ imp'.step = "refresh" /\ imp'.run = imp.run
          /\ imp'.based = imp.based /\ imp'.todo = imp.todo /\ imp'.at = imp.at
      BY <1>1, <2>2 DEF ImportRecords
    <3> QED BY <1>1, <2>2, <3>1 DEF ImportFits, OpenRunIsManned
  <2> QED BY <2>1, <2>2
<1>3. CatalogTypeOK'
  BY <1>2 DEF CatalogInv, CatalogTypeOK, SyncRecords, ImportRecords
<1> QED BY <1>2, <1>3 DEF CatalogInv, RowsFit, HistoryStaysCold, LateIsQueued

LEMMA UploadKeepsCatalogInv ==
  ASSUME CatalogInv, NEW r \in Recording, Upload(r)
  PROVE  CatalogInv'
<1>1. /\ r \notin cloud /\ cloud' = cloud \cup {r} /\ late' = IF baseline THEN late \cup {r} ELSE late
      /\ UNCHANGED <<rec, baseline, lock, sync, imp, importRun, history, crashed>>
  BY DEF Upload
<1>2. rec[r] = "none" /\ r \notin imp.todo
  BY <1>1 DEF CatalogInv, RowsFit, ImportFits
<1>3. CatalogTypeOK'
  BY <1>1 DEF CatalogInv, CatalogTypeOK
<1>4. \A s \in Syncer : SyncFits(s)'
  BY <1>1 DEF CatalogInv, SyncFits
<1>5. ImportFits'
  BY <1>1, <1>2 DEF CatalogInv, ImportFits
<1>6. RowsFit' /\ HistoryStaysCold' /\ OpenRunIsManned'
  BY <1>1 DEF CatalogInv, RowsFit, HistoryStaysCold, OpenRunIsManned
<1>7. LateIsQueued'
  BY <1>1, <1>2 DEF CatalogInv, LateIsQueued
<1> QED BY <1>3, <1>4, <1>5, <1>6, <1>7 DEF CatalogInv

LEMMA WritesKeepCatalogInv ==
  ASSUME CatalogInv, NEW s \in Syncer,
         \/ PollBegins(s) \/ WritesRows(s)
         \/ \E r \in Recording, ok \in BOOLEAN : Downloads(s, r, ok)
         \/ ImportInserts
  PROVE  CatalogInv'
<1>1. /\ sync \in [Syncer -> SyncRecords] /\ sync[s] \in SyncRecords /\ SyncFits(s)
      /\ rec \in [Recording -> Known \cup {"none"}] /\ baseline \in BOOLEAN
      /\ cloud \in SUBSET Recording /\ history \in SUBSET Recording /\ late \in SUBSET Recording
  BY DEF CatalogInv, CatalogTypeOK, SyncRecords
<1>2. /\ \A r \in Recording : rec[r] # "none" => r \in cloud
      /\ ~baseline => history = {} /\ late = {} /\ \A r \in Recording : rec[r] # "downloaded"
      /\ \A r \in history : rec[r] = "metadata_only"
      /\ \A r \in late \ Overlong : rec[r] # "metadata_only"
  BY DEF CatalogInv, RowsFit, HistoryStaysCold, LateIsQueued
<1>3. \A u \in Syncer : SyncFits(u)
  BY DEF CatalogInv
<1> DEFINE rest == UNCHANGED <<cloud, baseline, lock, importRun, history, late, crashed>>
<1>4. CASE PollBegins(s)
  <2> DEFINE new == [sync[s] EXCEPT !.step = "claim", !.based = baseline]
  <2>1. /\ new \in SyncRecords /\ new.step = "claim" /\ new.live = sync[s].live
        /\ new.based = baseline /\ new.listing = sync[s].listing /\ new.absent = sync[s].absent
    BY <1>1 DEF SyncRecords
  <2>2. /\ sync' = [sync EXCEPT ![s] = new] /\ rest /\ UNCHANGED imp
        /\ rec' = [r \in Recording |-> IF baseline /\ rec[r] = "error" THEN "discovered" ELSE rec[r]]
    BY <1>1, <1>4 DEF PollBegins, untouched, SyncRecords
  <2> HIDE DEF new
  <2>3. SyncFits(s)'
    BY <1>1, <2>1, <2>2 DEF SyncFits
  <2>4. sync' \in [Syncer -> SyncRecords] /\ \A u \in Syncer : SyncFits(u)'
    BY <2>1, <2>2, <2>3, OneSyncMoves
  <2>5. rec' \in [Recording -> Known \cup {"none"}]
    BY <1>1, <2>2 DEF Known
  <2>6. /\ \A r \in Recording : rec'[r] # "none" => r \in cloud
        /\ ~baseline => \A r \in Recording : rec'[r] # "downloaded"
        /\ \A r \in history : rec'[r] = "metadata_only"
        /\ \A r \in late \ Overlong : rec'[r] # "metadata_only"
    BY <1>1, <1>2, <2>2
  <2> QED BY <2>2, <2>4, <2>5, <2>6, RowsKeepCatalogInv
<1>5. CASE WritesRows(s)
  <2> DEFINE new == [sync[s] EXCEPT !.step = "release", !.listing = {}, !.absent = {}]
  <2>1. /\ new \in SyncRecords /\ new.step = "release" /\ new.live = sync[s].live
        /\ new.based = sync[s].based /\ new.listing = {} /\ new.absent = {}
    BY <1>1 DEF SyncRecords
  <2>2. /\ sync' = [sync EXCEPT ![s] = new] /\ rest /\ UNCHANGED imp
        /\ sync[s].step = "write" /\ \A r \in sync[s].absent : rec[r] = "none"
        /\ rec' = [r \in Recording |-> IF r \in sync[s].absent THEN NewStatus(r, TRUE) ELSE rec[r]]
    BY <1>1, <1>5 DEF WritesRows, untouched, SyncRecords
  <2> HIDE DEF new
  <2>3. SyncFits(s)'
    BY <1>1, <2>1, <2>2 DEF SyncFits
  <2>4. sync' \in [Syncer -> SyncRecords] /\ \A u \in Syncer : SyncFits(u)'
    BY <2>1, <2>2, <2>3, OneSyncMoves
  <2>5. rec' \in [Recording -> Known \cup {"none"}]
    BY <1>1, <2>2 DEF Known, NewStatus
  <2>6. baseline /\ sync[s].absent \subseteq cloud
    BY <1>1, <2>2 DEF SyncFits
  <2>7. /\ \A r \in Recording : rec'[r] # "none" => r \in cloud
        /\ \A r \in history : rec'[r] = "metadata_only"
        /\ \A r \in late \ Overlong : rec'[r] # "metadata_only"
    BY <1>1, <1>2, <2>2, <2>6 DEF NewStatus
  <2> QED BY <2>2, <2>4, <2>5, <2>6, <2>7, RowsKeepCatalogInv
<1>6. ASSUME NEW r \in Recording, NEW ok \in BOOLEAN, Downloads(s, r, ok) PROVE CatalogInv'
  <2>1. /\ UNCHANGED <<sync, imp>> /\ rest /\ sync[s].step = "download" /\ rec[r] = "discovered"
        /\ rec' = [rec EXCEPT ![r] = IF ok THEN "downloaded" ELSE "error"]
    BY <1>6 DEF Downloads, untouched
  <2>2. sync' \in [Syncer -> SyncRecords] /\ \A u \in Syncer : SyncFits(u)'
    BY <1>1, <1>3, <2>1 DEF SyncFits
  <2>3. rec' \in [Recording -> Known \cup {"none"}]
    BY <1>1, <2>1 DEF Known
  <2>4. baseline
    BY <1>1, <2>1 DEF SyncFits
  <2>5. /\ \A q \in Recording : rec'[q] # "none" => q \in cloud
        /\ \A q \in history : rec'[q] = "metadata_only"
        /\ \A q \in late \ Overlong : rec'[q] # "metadata_only"
    BY <1>1, <1>2, <2>1
  <2> QED BY <2>1, <2>2, <2>3, <2>4, <2>5, RowsKeepCatalogInv
<1>7. CASE ImportInserts
  <2>1. /\ UNCHANGED sync /\ rest /\ imp.step = "insert" /\ imp' = [imp EXCEPT !.step = "refresh"]
        /\ \A r \in imp.at : rec[r] = "none"
        /\ rec' = [r \in Recording |-> IF r \in imp.at THEN NewStatus(r, imp.based) ELSE rec[r]]
    BY <1>7 DEF ImportInserts, Rests, untouched
  <2>2. sync' \in [Syncer -> SyncRecords] /\ \A u \in Syncer : SyncFits(u)'
    BY <1>1, <1>3, <2>1 DEF SyncFits
  <2>3. rec' \in [Recording -> Known \cup {"none"}]
    BY <1>1, <2>1 DEF Known, NewStatus
  <2>4. imp.at \subseteq cloud /\ (~imp.based => imp.at \cap late = {}) /\ imp.based \in BOOLEAN
    BY <2>1 DEF CatalogInv, CatalogTypeOK, ImportFits
  <2>5. /\ \A q \in Recording : rec'[q] # "none" => q \in cloud
        /\ ~baseline => \A q \in Recording : rec'[q] # "downloaded"
        /\ \A q \in history : rec'[q] = "metadata_only"
        /\ \A q \in late \ Overlong : rec'[q] # "metadata_only"
    BY <1>1, <1>2, <2>1, <2>4 DEF NewStatus
  <2> QED BY <2>1, <2>2, <2>3, <2>5, RowsKeepCatalogInv
<1> QED BY <1>4, <1>5, <1>6, <1>7

\* The line is drawn: everything that has a row, or is seen, is the past.
LEMMA BaselineKeepsCatalogInv ==
  ASSUME CatalogInv, NEW s \in Syncer, FirstSync(s)
  PROVE  CatalogInv'
<1>1. /\ sync \in [Syncer -> SyncRecords] /\ sync[s] \in SyncRecords /\ SyncFits(s)
      /\ rec \in [Recording -> Known \cup {"none"}]
      /\ cloud \in SUBSET Recording
  BY DEF CatalogInv, CatalogTypeOK, SyncRecords
<1> DEFINE new == [sync[s] EXCEPT !.step = "release", !.listing = {}]
<1>2. /\ new \in SyncRecords /\ new.step = "release" /\ new.live = sync[s].live
      /\ new.based = sync[s].based /\ new.listing = {} /\ new.absent = sync[s].absent
  BY <1>1 DEF SyncRecords
<1>3. /\ sync' = [sync EXCEPT ![s] = new] /\ ~baseline /\ baseline'
      /\ rec' = [r \in Recording |->
                   IF rec[r] = "none" /\ r \in sync[s].listing THEN NewStatus(r, FALSE) ELSE Cold(r)]
      /\ history' = sync[s].listing \cup {r \in Recording : rec[r] # "none"}
      /\ UNCHANGED <<cloud, lock, imp, importRun, late, crashed>>
  BY <1>1 DEF FirstSync, SyncRecords
<1> HIDE DEF new
<1>4. /\ \A r \in Recording : rec[r] # "none" => r \in cloud
      /\ late = {} /\ \A r \in Recording : rec[r] # "downloaded"
  BY <1>3 DEF CatalogInv, RowsFit
<1>5. sync[s].listing \subseteq cloud
  BY <1>1 DEF SyncFits
<1>6. SyncFits(s)'
  BY <1>1, <1>2, <1>3 DEF SyncFits
<1>7. sync' \in [Syncer -> SyncRecords] /\ \A u \in Syncer : SyncFits(u)'
  BY <1>2, <1>3, <1>6, OneSyncMoves
<1>8. \A r \in Recording : rec'[r] \in {"none", "metadata_only"}
  BY <1>1, <1>3, <1>4 DEF NewStatus, Cold, Known
<1>9. rec' \in [Recording -> Known \cup {"none"}]
  BY <1>3, <1>8 DEF Known
<1>10. CatalogTypeOK'
  <2>1. history' \in SUBSET Recording /\ baseline' \in BOOLEAN
    BY <1>1, <1>3, <1>5 DEF FirstSync
  <2> QED BY <1>3, <1>7, <1>9, <2>1 DEF CatalogInv, CatalogTypeOK, SyncRecords
<1>11. \A r \in Recording : (rec'[r] # "none") <=> (r \in history')
  BY <1>1, <1>3, <1>4, <1>5 DEF NewStatus, Cold, Known
<1>12. HistoryStaysCold'
  BY <1>8, <1>10, <1>11 DEF HistoryStaysCold, CatalogTypeOK
<1>13. LateIsQueued'
  BY <1>3, <1>4 DEF LateIsQueued
<1>14. RowsFit'
  BY <1>1, <1>3, <1>4, <1>5, <1>11 DEF RowsFit
<1>15. ImportFits' /\ OpenRunIsManned'
  BY <1>3 DEF CatalogInv, ImportFits, OpenRunIsManned
<1> QED BY <1>7, <1>10, <1>12, <1>13, <1>14, <1>15 DEF CatalogInv

LEMMA ExpiryKeepsCatalogInv ==
  ASSUME CatalogInv, LockExpires
  PROVE  CatalogInv'
<1>1. /\ sync \in [Syncer -> SyncRecords]
      /\ lock \in [owner : Syncer \cup {Nobody}, fresh : BOOLEAN]
  BY DEF CatalogInv, CatalogTypeOK, SyncRecords
<1> DEFINE s == lock.owner
<1>2. s \in Syncer /\ sync[s] \in SyncRecords /\ SyncFits(s)
  BY <1>1 DEF LockExpires, CatalogInv
<1> DEFINE new == [sync[s] EXCEPT !.live = FALSE]
<1>3. /\ new \in SyncRecords /\ new.step = sync[s].step /\ ~new.live
      /\ new.based = sync[s].based /\ new.listing = sync[s].listing /\ new.absent = sync[s].absent
  BY <1>2 DEF SyncRecords
<1>4. /\ sync' = [sync EXCEPT ![s] = new] /\ lock' = [lock EXCEPT !.fresh = FALSE]
      /\ UNCHANGED <<cloud, rec, baseline, imp, importRun, history, late, crashed>>
  BY DEF LockExpires, untouched
<1>5. lock' \in [owner : Syncer \cup {Nobody}, fresh : BOOLEAN]
  BY <1>1, <1>4
<1>6. \A u \in Syncer \ {s} : ~sync[u].live
  BY DEF CatalogInv, SyncFits
<1> HIDE DEF new, s
<1>7. /\ new.based \/ new.step \in {"write", "download"} => baseline
      /\ new.listing \subseteq cloud /\ new.absent \subseteq cloud
  BY <1>2, <1>3 DEF SyncFits
<1> QED BY <1>2, <1>3, <1>4, <1>5, <1>6, <1>7, SyncOnly

\* The import is gone with the service, its run is closed at the next start.
LEMMA DeathKeepsCatalogInv ==
  ASSUME CatalogInv, ServiceDies
  PROVE  CatalogInv'
<1>1. /\ imp' = [NoImport EXCEPT !.step = "down"] /\ sync' = [sync EXCEPT ![Daemon] = NoSync]
      /\ crashed' = crashed + 1 /\ crashed < CatalogCrashes
      /\ UNCHANGED <<cloud, rec, baseline, lock, importRun, history, late>>
  BY DEF ServiceDies
<1>2. Daemon \in Syncer /\ NoSync \in SyncRecords
  BY CatalogConstants, NullRecords
<1>3. sync' \in [Syncer -> SyncRecords] /\ sync'[Daemon] = NoSync
  BY <1>1, <1>2 DEF CatalogInv, CatalogTypeOK, SyncRecords
<1>4. SyncFits(Daemon)'
  BY <1>3, NullRecords DEF SyncFits
<1>5. \A u \in Syncer : SyncFits(u)'
  BY <1>1, <1>2, <1>4, OneSyncMoves
<1>6. /\ imp' \in ImportRecords /\ imp'.step = "down" /\ imp'.todo = {} /\ imp'.at = {}
  <2>1. 0 \in 0 .. ImportRuns
    BY CatalogConstants
  <2> QED BY <1>1, <2>1 DEF NoImport, ImportRecords
<1>7. crashed' \in 0 .. CatalogCrashes
  BY <1>1, CatalogConstants DEF CatalogInv, CatalogTypeOK
<1>8. CatalogTypeOK'
  BY <1>1, <1>3, <1>6, <1>7 DEF CatalogInv, CatalogTypeOK, SyncRecords, ImportRecords
<1>9. ImportFits' /\ OpenRunIsManned'
  BY <1>1, <1>6 DEF ImportFits, OpenRunIsManned
<1>10. RowsFit' /\ HistoryStaysCold' /\ LateIsQueued'
  BY <1>1 DEF CatalogInv, RowsFit, HistoryStaysCold, LateIsQueued
<1> QED BY <1>5, <1>8, <1>9, <1>10 DEF CatalogInv

LEMMA CatalogStepHolds == CatalogInv /\ [CatalogNext]_catalogVars => CatalogInv'
<1> SUFFICES ASSUME CatalogInv, [CatalogNext]_catalogVars PROVE CatalogInv'
  OBVIOUS
<1>1. ASSUME NEW r \in Recording, Upload(r) PROVE CatalogInv'
  BY <1>1, UploadKeepsCatalogInv
<1>2. ASSUME NEW s \in Syncer,
             PollBegins(s) \/ WritesRows(s) \/ \E r \in Recording, ok \in BOOLEAN : Downloads(s, r, ok)
      PROVE  CatalogInv'
  BY <1>2, WritesKeepCatalogInv
<1>3. ASSUME NEW s \in Syncer, FirstSync(s) PROVE CatalogInv'
  BY <1>3, BaselineKeepsCatalogInv
<1>4. ASSUME NEW s \in Syncer,
             \/ CheckBegins(s) \/ Claim(s) \/ ListingBusy(s) \/ Lists(s) \/ ListFails(s)
             \/ ReadsRows(s) \/ WriteConflicts(s) \/ Release(s) \/ PollEnds(s)
      PROVE  CatalogInv'
  BY <1>4, SyncKeepsCatalogInv
<1>5. CASE ImportInserts
  BY <1>5, WritesKeepCatalogInv, CatalogConstants
<1>6. CASE ImportStep \/ \E i \in 1 .. ImportRuns : StartImport(i)
  BY <1>5, <1>6, ImportKeepsCatalogInv DEF ImportStep
<1>7. CASE LockExpires
  BY <1>7, ExpiryKeepsCatalogInv
<1>8. CASE ServiceDies
  BY <1>8, DeathKeepsCatalogInv
<1>9. CASE UNCHANGED catalogVars
  BY <1>9 DEF catalogVars, CatalogInv, CatalogTypeOK, SyncFits, ImportFits, RowsFit,
              HistoryStaysCold, LateIsQueued, OpenRunIsManned
<1> QED BY <1>1, <1>2, <1>3, <1>4, <1>6, <1>7, <1>8, <1>9 DEF CatalogNext, SyncStep

\* Whoever lists, imports, dies or outlives its lock, the catalogue is of its types,
\* and rows stay on their side of the baseline and are of what the cloud holds
\* (poll.py sync_file_list, imports.py _run_plaud_metadata_import).
THEOREM CatalogInvariant == CatalogSpec => []CatalogInv
<1>1. CatalogInit => CatalogInv
  BY CatalogInitHolds
<1>2. CatalogInv /\ [CatalogNext]_catalogVars => CatalogInv'
  BY CatalogStepHolds
<1> QED BY <1>1, <1>2, PTL DEF CatalogSpec

\* The past stays metadata only, what comes after the baseline is queued whichever
\* path sees it first, two syncs list at a time only past the 15 minutes of the lock,
\* and no import run is open without a thread while the service is up, for any
\* number of recordings, syncers and crashes (poll.py new_file_status, sync_file_list,
\* _claim_catalog_sync, imports.py recover_interrupted_imports).
THEOREM BaselineHolds == CatalogSpec => []CatalogSafety
<1>1. CatalogInv => CatalogSafety
  <2> SUFFICES ASSUME CatalogInv PROVE OneListing
    BY DEF CatalogInv, CatalogSafety
  <2> QED BY DEF CatalogInv, SyncFits, OneListing
<1> QED BY <1>1, CatalogInvariant, PTL
=============================================================================
