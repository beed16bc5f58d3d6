---------------------------- MODULE ClaimService ----------------------------
(***************************************************************************)
(* What the durable processing claim promises to the rest of localplaud,   *)
(* without saying how: a recording has at most one holder, at most         *)
(* Capacity recordings are held at once across every workspace and every   *)
(* process, and only the holder of a recording publishes results for it.   *)
(* A holding may end at any time (released, expired, recovered after a     *)
(* crash), for several recordings at once.  ProcessingLease implements it. *)
(***************************************************************************)
EXTENDS Naturals, FiniteSets

CONSTANTS
  Recordings,   \* recording ids (PlaudFile rows)
  Workers,      \* execution contexts that may process a recording
  Capacity,     \* pipeline.concurrency of the host
  NoWorker      \* the null holder

VARIABLES
  holder,       \* holder[r]: who may write recording r now
  publisher     \* publisher[r]: who wrote the published result of r

serviceVars == <<holder, publisher>>

Held == {r \in Recordings : holder[r] # NoWorker}

ServiceInit ==
  /\ holder = [r \in Recordings |-> NoWorker]
  /\ publisher = [r \in Recordings |-> NoWorker]

Acquire(w, r) ==
  /\ holder[r] = NoWorker
  /\ Cardinality(Held) < Capacity
  /\ holder' = [holder EXCEPT ![r] = w]
  /\ UNCHANGED publisher

\* Every recording of S is given back.
Vacate(S) ==
  /\ holder' = [r \in Recordings |-> IF r \in S THEN NoWorker ELSE holder[r]]
  /\ UNCHANGED publisher

Publish(w, r) ==
  /\ holder[r] = w
  /\ publisher' = [publisher EXCEPT ![r] = w]
  /\ UNCHANGED holder

ServiceNext ==
  \/ \E w \in Workers, r \in Recordings : Acquire(w, r) \/ Publish(w, r)
  \/ \E S \in SUBSET Recordings : Vacate(S)

ServiceSpec == ServiceInit /\ [][ServiceNext]_serviceVars
=============================================================================
