-------------------------- MODULE MaintenanceGate --------------------------
(***************************************************************************)
(* The maintenance gate of src/src/localplaud/maintenance.py.              *)
(*                                                                         *)
(* An operator command (begin, status, resume) and the service processes   *)
(* share a directory: request.json asks for a pause, resume.json names the *)
(* last pause that was ended, and every process leaves a receipt of what   *)
(* its Gate counts.  Inside a process threads reserve tickets before they  *)
(* work; while a request stands no new work is admitted, and what was      *)
(* admitted goes on, may hand off detached threads, and closes its         *)
(* tickets.  The operator stops the services when status says that all of  *)
(* them are quiescent.                                                     *)
(*                                                                         *)
(* request.json is a number: 0 when absent, else the nonce of the pause.   *)
(* A process is told from its successor after a restart by its birth, as   *)
(* pid and start time do.                                                  *)
(***************************************************************************)
EXTENDS Naturals, FiniteSets, Functions

CONSTANTS
    Process,        \* the service processes, each with a Gate of its own
    Thread,         \* their threads
    Home,           \* the process a thread belongs to
    NoOne,          \* nobody holds the lock of a Gate
    MaxRequests,    \* bound: how often the operator begins a pause
    MaxBirths       \* bound: how often a process is started

ASSUME GateConstants ==
    /\ Home \in [Thread -> Process]
    /\ NoOne \notin Thread
    /\ MaxRequests \in Nat
    /\ MaxBirths \in Nat
    /\ IsFiniteSet(Thread)

VARIABLES
    request,        \* request.json
    requests,       \* the number of nonces issued so far
    resumed,        \* resume.json
    cli,            \* the operator command that holds the control flock
    answer,         \* the last answer of status
    holder,         \* Gate.lock of each process
    active,         \* Gate.active
    serving,        \* Gate.serving
    birth,          \* the incarnation of each process
    draft,          \* the snapshot the reporter of a process is about to write
    receipt,        \* the receipt of a process in the control directory
    loc,            \* what a thread is doing
    kind,           \* how the work of a thread was admitted
    sees,           \* the request a thread saw while it reserves
    tickets         \* the tickets that are not closed yet: <<thread, level>>

gateVars == <<request, requests, resumed, cli, answer, holder, active, serving,
              birth, draft, receipt, loc, kind, sees, tickets>>

(* Admission.  "new": a request, a scheduled activity or a thread started  *)
(* from outside; "continuation": a remote job read or cancelled; "handed": *)
(* a detached thread of admitted work; "future": the same on a pool, whose *)
(* done callback closes the ticket once more.                              *)
Kinds == {"none", "new", "continuation", "handed", "future"}
Outer == 1
Inner == 2
Snapshots == [birth : Nat, request : Nat, quiescent : BOOLEAN]
NoSnapshot == [birth |-> 0, request |-> 0, quiescent |-> FALSE]
Locations == {"idle", "asking", "pending", "working", "asking inner", "inner", "callback"}
Idle(t) == loc[t] = "idle"
Nonces == 0 .. requests
TicketsOf(p) == {k \in tickets : Home[k[1]] = p}

GateTypeOK ==
    /\ request \in Nat /\ requests \in Nat /\ resumed \in Nat
    /\ cli \in [cmd : {"none", "status", "resume"}, read : SUBSET Process, asked : Nat, good : BOOLEAN]
    /\ answer \in [request : Nat, births : [Process -> Nat], quiescent : BOOLEAN]
    /\ holder \in [Process -> Thread \cup {NoOne}]
    /\ active \in [Process -> Nat]
    /\ serving \in [Process -> BOOLEAN]
    /\ birth \in [Process -> Nat]
    /\ draft \in [Process -> Snapshots]
    /\ receipt \in [Process -> Snapshots]
    /\ loc \in [Thread -> Locations]
    /\ kind \in [Thread -> Kinds]
    /\ sees \in [Thread -> Nat]
    /\ tickets \in SUBSET (Thread \X {Outer, Inner})

NoCommand == [cmd |-> "none", read |-> {}, asked |-> 0, good |-> FALSE]

GateInit ==
    /\ request = 0 /\ requests = 0 /\ resumed = 0
    /\ cli = NoCommand
    /\ answer = [request |-> 0, births |-> [p \in Process |-> 0], quiescent |-> FALSE]
    /\ holder = [p \in Process |-> NoOne]
    /\ active = [p \in Process |-> 0]
    /\ serving = [p \in Process |-> FALSE]
    /\ birth = [p \in Process |-> 1]
    /\ draft = [p \in Process |-> NoSnapshot]
    /\ receipt = [p \in Process |-> NoSnapshot]
    /\ loc = [t \in Thread |-> "idle"]
    /\ kind = [t \in Thread |-> "none"]
    /\ sees = [t \in Thread |-> 0]
    /\ tickets = {}

commandVars == <<request, requests, resumed, cli, answer>>
processVars == <<serving, birth, draft, receipt>>
threadVars == <<holder, active, loc, kind, sees, tickets>>

----------------------------------------------------------------------------
(* Reservations.  Gate.reserve reads request.json and counts under one     *)
(* lock; the file itself belongs to the operator and changes meanwhile.    *)

Ask(t, k) ==
    /\ Idle(t)
    /\ holder[Home[t]] = NoOne
    /\ holder' = [holder EXCEPT ![Home[t]] = t]
    /\ loc' = [loc EXCEPT ![t] = "asking"]
    /\ kind' = [kind EXCEPT ![t] = k]
    /\ sees' = [sees EXCEPT ![t] = request]
    /\ UNCHANGED <<active, tickets>>

(* A queue item inside admitted work is a new admission: inherit = False.  *)
AskInner(t) ==
    /\ loc[t] = "working" /\ kind[t] # "continuation"
    /\ holder[Home[t]] = NoOne
    /\ holder' = [holder EXCEPT ![Home[t]] = t]
    /\ loc' = [loc EXCEPT ![t] = "asking inner"]
    /\ sees' = [sees EXCEPT ![t] = request]
    /\ UNCHANGED <<active, kind, tickets>>

Admissible(t) ==
    \/ sees[t] = 0
    \/ loc[t] = "asking" /\ kind[t] = "continuation"

Level(t) == IF loc[t] \in {"asking inner", "inner"} THEN Inner ELSE Outer

(* The lock is given back with the ticket taken, or with MaintenancePaused.*)
Admit(t) ==
    /\ loc[t] \in {"asking", "asking inner"}
    /\ Admissible(t)
    /\ tickets' = tickets \cup {<<t, Level(t)>>}
    /\ active' = [active EXCEPT ![Home[t]] = @ + 1]
    /\ holder' = [holder EXCEPT ![Home[t]] = NoOne]
    /\ loc' = [loc EXCEPT ![t] = IF @ = "asking" THEN "working" ELSE "inner"]
    /\ sees' = [sees EXCEPT ![t] = 0]
    /\ UNCHANGED kind

(* Mutant: MaintenancePaused is raised with the lock in hand.              *)
RefuseKeepsLock(t) ==
    /\ loc[t] \in {"asking", "asking inner"}
    /\ ~Admissible(t)
    /\ loc' = [loc EXCEPT ![t] = IF @ = "asking" THEN "idle" ELSE "working"]
    /\ kind' = [kind EXCEPT ![t] = IF loc[t] = "asking" THEN "none" ELSE @]
    /\ sees' = [sees EXCEPT ![t] = 0]
    /\ UNCHANGED <<holder, active, tickets>>

Refuse(t) ==
    /\ loc[t] \in {"asking", "asking inner"}
    /\ ~Admissible(t)
    /\ holder' = [holder EXCEPT ![Home[t]] = NoOne]
    /\ loc' = [loc EXCEPT ![t] = IF @ = "asking" THEN "idle" ELSE "working"]
    /\ kind' = [kind EXCEPT ![t] = IF loc[t] = "asking" THEN "none" ELSE @]
    /\ sees' = [sees EXCEPT ![t] = 0]
    /\ UNCHANGED <<active, tickets>>

(* tracked_thread.start and tracked_submit: admitted work reserves for a   *)
(* detached thread before that thread exists, whatever the request says.   *)
HandOff(t, u, k) ==
    /\ loc[t] = "working" /\ kind[t] = "new"
    /\ Idle(u) /\ Home[u] = Home[t] /\ holder[Home[t]] = NoOne
    /\ k \in {"handed", "future"}
    /\ loc' = [loc EXCEPT ![u] = "pending"]
    /\ kind' = [kind EXCEPT ![u] = k]
    /\ tickets' = tickets \cup {<<u, Outer>>}
    /\ active' = [active EXCEPT ![Home[t]] = @ + 1]
    /\ UNCHANGED <<holder, sees>>

Begin(t) ==
    /\ loc[t] = "pending"
    /\ loc' = [loc EXCEPT ![t] = "working"]
    /\ UNCHANGED <<holder, active, kind, sees, tickets>>

----------------------------------------------------------------------------
(* Ticket.close counts down once, whoever calls it again.                  *)

(* Mutant: close without its flag.                                         *)
CountDownAlways(k) == active[Home[k[1]]] - 1

CountDown(k) ==
    IF k \in tickets THEN active[Home[k[1]]] - 1 ELSE active[Home[k[1]]]

Close(t, level) ==
    /\ holder[Home[t]] = NoOne
    /\ active' = [active EXCEPT ![Home[t]] = CountDown(<<t, level>>)]
    /\ tickets' = tickets \ {<<t, level>>}

CloseInner(t) ==
    /\ loc[t] = "inner"
    /\ Close(t, Inner)
    /\ loc' = [loc EXCEPT ![t] = "working"]
    /\ UNCHANGED <<holder, kind, sees>>

(* The work returns, or raises; a pool cancels a future that has not       *)
(* begun, and a thread that cannot be started gives its ticket back.       *)
Finish(t) ==
    /\ loc[t] \in {"working", "pending"}
    /\ Close(t, Outer)
    /\ loc' = [loc EXCEPT ![t] = IF kind[t] = "future" THEN "callback" ELSE "idle"]
    /\ kind' = [kind EXCEPT ![t] = IF kind[t] = "future" THEN @ ELSE "none"]
    /\ UNCHANGED <<holder, sees>>

DoneCallback(t) ==
    /\ loc[t] = "callback"
    /\ Close(t, Outer)
    /\ loc' = [loc EXCEPT ![t] = "idle"]
    /\ kind' = [kind EXCEPT ![t] = "none"]
    /\ UNCHANGED <<holder, sees>>

ThreadStep(t) ==
    \/ Admit(t) \/ Refuse(t) \/ Begin(t)
    \/ CloseInner(t) \/ Finish(t) \/ DoneCallback(t)

ThreadMoves ==
    /\ \E t \in Thread :
         \/ ThreadStep(t)
         \/ AskInner(t)
         \/ \E k \in {"new", "continuation"} : Ask(t, k)
         \/ \E u \in Thread, k \in {"handed", "future"} : HandOff(t, u, k)
    /\ UNCHANGED <<commandVars, processVars>>

----------------------------------------------------------------------------
(* The processes: start, die, and report.                                  *)

Serve(p) ==
    /\ ~serving[p]
    /\ serving' = [serving EXCEPT ![p] = TRUE]
    /\ UNCHANGED <<commandVars, threadVars, birth, draft, receipt>>

Ours(p) == {t \in Thread : Home[t] = p}
Reset(f, p, v) == [t \in Thread |-> IF Home[t] = p THEN v ELSE f[t]]

Die(p) ==
    /\ birth[p] < MaxBirths
    /\ birth' = [birth EXCEPT ![p] = @ + 1]
    /\ serving' = [serving EXCEPT ![p] = FALSE]
    /\ draft' = [draft EXCEPT ![p] = NoSnapshot]
    /\ holder' = [holder EXCEPT ![p] = NoOne]
    /\ active' = [active EXCEPT ![p] = 0]
    /\ loc' = Reset(loc, p, "idle")
    /\ kind' = Reset(kind, p, "none")
    /\ sees' = Reset(sees, p, 0)
    /\ tickets' = tickets \ TicketsOf(p)
    /\ UNCHANGED <<commandVars, receipt>>

(* Gate.snapshot, taken under the lock; the file is written without it.    *)
Snapshot(p) ==
    /\ holder[p] = NoOne /\ request # 0
    /\ draft' = [draft EXCEPT ![p] =
         [birth |-> birth[p], request |-> request,
          quiescent |-> serving[p] /\ active[p] = 0]]
    /\ UNCHANGED <<commandVars, threadVars, serving, birth, receipt>>

WriteReceipt(p) ==
    /\ draft[p] # NoSnapshot
    /\ receipt' = [receipt EXCEPT ![p] = draft[p]]
    /\ draft' = [draft EXCEPT ![p] = NoSnapshot]
    /\ UNCHANGED <<commandVars, threadVars, serving, birth>>

----------------------------------------------------------------------------
(* The operator.  One command at a time holds the flock; begin fails when  *)
(* a request stands, resume when its nonce is another one.                 *)

BeginPause ==
    /\ cli.cmd = "none" /\ request = 0 /\ requests < MaxRequests
    /\ requests' = requests + 1
    /\ request' = requests + 1
    /\ UNCHANGED <<resumed, cli, answer, processVars, threadVars>>

ResumeWrites ==
    /\ cli.cmd = "none" /\ request # 0
    /\ resumed' = request
    /\ cli' = [NoCommand EXCEPT !.cmd = "resume"]
    /\ UNCHANGED <<request, requests, answer, processVars, threadVars>>

ResumeUnlinks ==
    /\ cli.cmd = "resume"
    /\ request' = 0
    /\ cli' = NoCommand
    /\ UNCHANGED <<requests, resumed, answer, processVars, threadVars>>

StatusBegins ==
    /\ cli.cmd = "none" /\ request # 0
    /\ cli' = [cmd |-> "status", read |-> {}, asked |-> request, good |-> TRUE]
    /\ answer' = [request |-> request, births |-> birth, quiescent |-> FALSE]
    /\ UNCHANGED <<request, requests, resumed, processVars, threadVars>>

(* Mutant: the receipt of an earlier pause counts as well.                 *)
CurrentOfAnyRequest(p, recent) ==
    /\ recent
    /\ receipt[p].birth = answer.births[p] /\ birth[p] = answer.births[p]
    /\ receipt[p].quiescent

(* A receipt counts when it is of this request and of the process that     *)
(* lives now, and not older than two seconds (recent).                     *)
Current(p, recent) ==
    /\ recent
    /\ receipt[p].birth = answer.births[p] /\ birth[p] = answer.births[p]
    /\ receipt[p].request = cli.asked
    /\ receipt[p].quiescent

StatusReads(p, recent) ==
    /\ cli.cmd = "status" /\ p \notin cli.read
    /\ cli' = [cli EXCEPT !.read = @ \cup {p}, !.good = @ /\ Current(p, recent)]
    /\ UNCHANGED <<request, requests, resumed, answer, processVars, threadVars>>

StatusAnswers ==
    /\ cli.cmd = "status" /\ cli.read = Process
    /\ answer' = [answer EXCEPT !.quiescent = cli.good]
    /\ cli' = NoCommand
    /\ UNCHANGED <<request, requests, resumed, processVars, threadVars>>

(* The command is interrupted: the flock goes with it, the files stay.     *)
CommandDies ==
    /\ cli.cmd # "none"
    /\ cli' = NoCommand
    /\ UNCHANGED <<request, requests, resumed, answer, processVars, threadVars>>

Operator ==
    \/ BeginPause \/ ResumeWrites \/ ResumeUnlinks
    \/ StatusBegins \/ StatusAnswers \/ CommandDies
    \/ \E p \in Process, recent \in BOOLEAN : StatusReads(p, recent)

Reporting == \E p \in Process : Snapshot(p) \/ WriteReceipt(p)

GateNext ==
    \/ ThreadMoves
    \/ Operator
    \/ Reporting
    \/ \E p \in Process : Serve(p) \/ Die(p)

GateSpec == GateInit /\ [][GateNext]_gateVars

(* Admitted work ends: provider calls, transfers and streams have time     *)
(* limits, a batch has finitely many items, and the lock, held for one     *)
(* read, is got in the end (strong fairness).  Nobody has to begin         *)
(* anything, and nobody has to resume.                                     *)
Alone(A) == A /\ UNCHANGED <<commandVars, processVars>>
GateFairness ==
    \A t \in Thread :
       /\ WF_gateVars(Alone(Admit(t) \/ Refuse(t) \/ Begin(t)))
       /\ SF_gateVars(Alone(CloseInner(t)))
       /\ SF_gateVars(Alone(Finish(t)))

GateLive == GateSpec /\ GateFairness

----------------------------------------------------------------------------
(* Properties.                                                             *)

(* What Gate.active says is the number of tickets that are open: no close  *)
(* is lost and none counts twice.                                          *)
ActiveCountsTickets == \A p \in Process : active[p] = Cardinality(TicketsOf(p))

Fresh(t) == kind[t] \in {"new", "handed", "future"}

Quiet(p) ==
    \A t \in Ours(p) :
       /\ Fresh(t) => loc[t] \in {"idle", "callback"} \/ (loc[t] = "asking" /\ sees[t] # 0)
       /\ loc[t] # "inner"

(* When status has answered that the services are quiescent, and the pause *)
(* it was asked about still stands, then no process it looked at works or  *)
(* can begin to, except for reads and cancellations of remote jobs: the    *)
(* operator may stop them.  The answer is composed of receipts written at  *)
(* different times by processes that go on.                                *)
AnswerHolds ==
    (answer.quiescent /\ request = answer.request) =>
        \A p \in Process : birth[p] = answer.births[p] => Quiet(p)

(* While a pause stands, admitted work drains: no refusal, no ticket and,  *)
(* in the remote worker, no wait for the GPU lock leaves threads waiting   *)
(* for each other or for the end of the pause.                             *)
PauseDrains ==
    \A p \in Process : (request # 0) ~> (request = 0 \/ Quiet(p))

=============================================================================
