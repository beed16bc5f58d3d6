------------------------- MODULE RemoteWorkerProofs -------------------------
(***************************************************************************)
(* What the worker host guarantees for every number of jobs, threads,      *)
(* submissions, pauses and restarts.  The first part is about the          *)
(* maintenance gate alone: Gate.active counts the open tickets, and an     *)
(* answer of status that all is quiescent stays true while the pause       *)
(* stands.  The second carries its invariant over to the worker, whose     *)
(* every step is a step of the gate or leaves it alone.                    *)
(***************************************************************************)
EXTENDS RemoteWorker, FiniteSetTheorems, TLAPS

(* A thread holds the tickets its location says, the lock while it         *)
(* reserves, and the kind it was admitted as until it is idle again.       *)
InOrder(t) ==
    /\ <<t, Outer>> \in tickets <=> loc[t] \in {"pending", "working", "asking inner", "inner"}
    /\ <<t, Inner>> \in tickets <=> loc[t] = "inner"
    /\ loc[t] \in {"asking", "asking inner"} => holder[Home[t]] = t
    /\ loc[t] # "idle" => kind[t] # "none"
    /\ loc[t] \in {"asking inner", "inner"} => kind[t] # "continuation"

ThreadsAreInOrder == \A t \in Thread : InOrder(t)

(* A snapshot never names a later pause or incarnation, and one that       *)
(* calls its process quiescent in the pause that stands is right as long   *)
(* as that incarnation lives, however late it is written and read.         *)
Honest(s, p) ==
    /\ s.birth <= birth[p] /\ s.request <= requests
    /\ (s.quiescent /\ s.birth = birth[p] /\ s.request = request /\ request # 0) => Quiet(p)

SnapshotsAreHonest == \A p \in Process : Honest(draft[p], p) /\ Honest(receipt[p], p)

NoncesAreIssued ==
    /\ request <= requests /\ answer.request <= requests
    /\ answer.quiescent => answer.request # 0
    /\ \A p \in Process : answer.births[p] <= birth[p]

(* While status reads the receipts one by one, what it has read so far is  *)
(* quiet: the flock keeps begin and resume away from the pause.            *)
StatusIsSound ==
    cli.cmd = "status" =>
       /\ request # 0 /\ cli.asked = request /\ answer.request = request
       /\ ~answer.quiescent
       /\ \A p \in cli.read : (cli.good /\ birth[p] = answer.births[p]) => Quiet(p)

Counted == IsFiniteSet(tickets) /\ ActiveCountsTickets

GateInv ==
    /\ GateTypeOK
    /\ Counted
    /\ ThreadsAreInOrder
    /\ SnapshotsAreHonest
    /\ NoncesAreIssued
    /\ StatusIsSound
    /\ AnswerHolds

----------------------------------------------------------------------------
(* Counting tickets.                                                       *)

Keys == Thread \X {Outer, Inner}

LEMMA SomeTicketsAreFinite ==
  ASSUME IsFiniteSet(tickets), NEW p \in Process
  PROVE  IsFiniteSet(TicketsOf(p)) /\ Cardinality(TicketsOf(p)) \in Nat
<1>1. TicketsOf(p) \subseteq tickets
  BY DEF TicketsOf
<1>2. IsFiniteSet(TicketsOf(p))
  BY <1>1, FS_Subset
<1> QED BY <1>2, FS_CardinalityType

\* A ticket that is taken is counted once.
LEMMA TakingCounts ==
  ASSUME GateTypeOK, IsFiniteSet(tickets), ActiveCountsTickets,
         NEW k \in Keys, k \notin tickets,
         tickets' = tickets \cup {k}, active' = [active EXCEPT ![Home[k[1]]] = @ + 1]
  PROVE  IsFiniteSet(tickets') /\ active' \in [Process -> Nat] /\ ActiveCountsTickets'
<1> DEFINE home == Home[k[1]]
<1>1. home \in Process /\ k[1] \in Thread
  BY GateConstants DEF Keys
<1>2. IsFiniteSet(tickets')
  BY FS_AddElement
<1>3. ASSUME NEW p \in Process
      PROVE  TicketsOf(p)' = IF p = home THEN TicketsOf(p) \cup {k} ELSE TicketsOf(p)
  BY <1>1, <1>3 DEF TicketsOf
<1>4. active[home] \in Nat /\ active[home] = Cardinality(TicketsOf(home))
  BY <1>1 DEF GateTypeOK, ActiveCountsTickets
<1>5. k \notin TicketsOf(home)
  BY DEF TicketsOf
<1>6. Cardinality(TicketsOf(home) \cup {k}) = active[home] + 1
  BY <1>1, <1>4, <1>5, SomeTicketsAreFinite, FS_AddElement
<1>7. active[home] + 1 \in Nat
  BY <1>4
<1>8. ASSUME NEW n \in Nat, active' = [active EXCEPT ![home] = n],
             n = Cardinality(TicketsOf(home) \cup {k})
      PROVE  active' \in [Process -> Nat] /\ ActiveCountsTickets'
  <2>1. active \in [Process -> Nat]
    BY DEF GateTypeOK
  <2>3. active' \in [Process -> Nat]
    BY <1>8, <2>1
  <2>2. ASSUME NEW p \in Process PROVE active'[p] = Cardinality(TicketsOf(p)')
    <3>1. CASE p = home
      BY <1>3, <1>8, <2>1, <2>2, <3>1
    <3>2. CASE p # home
      BY <1>3, <1>8, <2>1, <2>2, <3>2 DEF ActiveCountsTickets
    <3> QED BY <3>1, <3>2
  <2> QED BY <2>2, <2>3 DEF ActiveCountsTickets
<1> QED BY <1>2, <1>6, <1>7, <1>8

\* A ticket that is closed counts down once, a second close not at all.
LEMMA ClosingCounts ==
  ASSUME GateTypeOK, IsFiniteSet(tickets), ActiveCountsTickets,
         NEW t \in Thread, NEW level \in {Outer, Inner}, Close(t, level)
  PROVE  IsFiniteSet(tickets') /\ active' \in [Process -> Nat] /\ ActiveCountsTickets'
<1> DEFINE k == <<t, level>>
           home == Home[t]
<1>1. home \in Process /\ k[1] = t /\ tickets' = tickets \ {k}
  BY GateConstants DEF Close
<1>2. IsFiniteSet(tickets')
  BY <1>1, FS_RemoveElement
<1>3. ASSUME NEW p \in Process
      PROVE  TicketsOf(p)' = IF p = home THEN TicketsOf(p) \ {k} ELSE TicketsOf(p)
  BY <1>1, <1>3 DEF TicketsOf
<1>4. active[home] \in Nat /\ active[home] = Cardinality(TicketsOf(home))
  BY <1>1 DEF GateTypeOK, ActiveCountsTickets
<1>5. k \in TicketsOf(home) <=> k \in tickets
  BY <1>1 DEF TicketsOf
<1>6. CountDown(k) = Cardinality(TicketsOf(home) \ {k}) /\ CountDown(k) \in Nat
  <2>1. IsFiniteSet(TicketsOf(home))
    BY <1>1, SomeTicketsAreFinite
  <2>2. Cardinality(TicketsOf(home) \ {k})
          = IF k \in TicketsOf(home) THEN active[home] - 1 ELSE active[home]
    BY <1>4, <2>1, FS_RemoveElement
  <2>3. IsFiniteSet(TicketsOf(home) \ {k})
    BY <2>1, FS_RemoveElement
  <2>4. Cardinality(TicketsOf(home) \ {k}) \in Nat
    BY <2>3, FS_CardinalityType
  <2> QED BY <1>1, <1>5, <2>2, <2>4 DEF CountDown
<1>7. active' = [active EXCEPT ![home] = CountDown(k)]
  BY DEF Close
<1>8. ASSUME NEW n \in Nat, active' = [active EXCEPT ![home] = n],
             n = Cardinality(TicketsOf(home) \ {k})
      PROVE  active' \in [Process -> Nat] /\ ActiveCountsTickets'
  <2>1. active \in [Process -> Nat]
    BY DEF GateTypeOK
  <2>3. active' \in [Process -> Nat]
    BY <1>8, <2>1
  <2>2. ASSUME NEW p \in Process PROVE active'[p] = Cardinality(TicketsOf(p)')
    <3>1. CASE p = home
      BY <1>3, <1>8, <2>1, <2>2, <3>1
    <3>2. CASE p # home
      BY <1>3, <1>8, <2>1, <2>2, <3>2 DEF ActiveCountsTickets
    <3> QED BY <3>1, <3>2
  <2> QED BY <2>2, <2>3 DEF ActiveCountsTickets
<1> QED BY <1>2, <1>6, <1>7, <1>8

----------------------------------------------------------------------------
(* What one thread does: types, tickets, and the order of the threads.     *)

ThreadTypes ==
    /\ holder \in [Process -> Thread \cup {NoOne}]
    /\ active \in [Process -> Nat]
    /\ loc \in [Thread -> Locations]
    /\ kind \in [Thread -> Kinds]
    /\ sees \in [Thread -> Nat]
    /\ tickets \in SUBSET Keys

\* A step of one thread that gets or gives back at most the lock of its own
\* process leaves the other threads in order.
LEMMA OthersStayInOrder ==
  ASSUME ThreadsAreInOrder, NEW t \in Thread, InOrder(t)',
         holder[Home[t]] \in {t, NoOne} \/ holder' = holder,
         \A p \in Process : p # Home[t] => holder'[p] = holder[p],
         \A u \in Thread \ {t} : loc'[u] = loc[u] /\ kind'[u] = kind[u],
         \A v \in Thread \ {t}, l \in {Outer, Inner} : <<v, l>> \in tickets' <=> <<v, l>> \in tickets
  PROVE  ThreadsAreInOrder'
<1>1. ASSUME NEW u \in Thread, u # t PROVE InOrder(u)'
  <2>1. loc'[u] = loc[u] /\ kind'[u] = kind[u] /\ InOrder(u)
    BY <1>1 DEF ThreadsAreInOrder
  <2>3. /\ <<u, Outer>> \in tickets' <=> <<u, Outer>> \in tickets
        /\ <<u, Inner>> \in tickets' <=> <<u, Inner>> \in tickets
    BY <1>1
  <2>4. ASSUME loc[u] \in {"asking", "asking inner"} PROVE holder'[Home[u]] = u
    <3>1. holder[Home[u]] = u /\ u # NoOne /\ Home[u] \in Process
      BY <2>1, <2>4, GateConstants DEF InOrder
    <3>2. CASE Home[u] = Home[t]
      BY <1>1, <3>1, <3>2
    <3>3. CASE Home[u] # Home[t]
      BY <3>1, <3>3
    <3> QED BY <3>2, <3>3
  <2> QED BY <2>1, <2>3, <2>4 DEF InOrder
<1> QED BY <1>1 DEF ThreadsAreInOrder

LEMMA ThreadStepIsOrderly ==
  ASSUME GateTypeOK, Counted, ThreadsAreInOrder, NEW t \in Thread,
         \/ ThreadStep(t) \/ AskInner(t)
         \/ \E k \in {"new", "continuation"} : Ask(t, k)
         \/ \E u \in Thread, k \in {"handed", "future"} : HandOff(t, u, k)
  PROVE  ThreadTypes' /\ Counted' /\ ThreadsAreInOrder'
<1>1. /\ Home[t] \in Process
      /\ holder \in [Process -> Thread \cup {NoOne}] /\ active \in [Process -> Nat]
      /\ loc \in [Thread -> Locations] /\ kind \in [Thread -> Kinds]
      /\ sees \in [Thread -> Nat] /\ tickets \in SUBSET Keys /\ request \in Nat
  BY GateConstants DEF GateTypeOK, Keys
<1>0. \A u \in Thread : <<u, Outer>> # <<u, Inner>>
  BY DEF Outer, Inner
<1> USE <1>1 DEF Locations, Kinds, Outer, Inner
<1>2. ASSUME NEW k \in {"new", "continuation"}, Ask(t, k)
      PROVE  ThreadTypes' /\ Counted' /\ ThreadsAreInOrder'
  <2>1. ThreadTypes'
    BY <1>2 DEF ThreadTypes, Ask
  <2>2. Counted'
    BY <1>2 DEF Ask, Counted, ActiveCountsTickets, TicketsOf
  <2>3. ThreadsAreInOrder'
    <3>1. InOrder(t)
      BY <1>2 DEF ThreadsAreInOrder
    <3>2. InOrder(t)'
      BY <1>2, <3>1 DEF Ask, Idle, InOrder
    <3>3. /\ holder[Home[t]] \in {t, NoOne} \/ holder' = holder
          /\ \A p \in Process : p # Home[t] => holder'[p] = holder[p]
          /\ \A v \in Thread \ {t} : loc'[v] = loc[v] /\ kind'[v] = kind[v]
      BY <1>2, <3>1 DEF Ask, Idle, InOrder
    <3>4. \A v \in Thread \ {t}, l \in {Outer, Inner} : <<v, l>> \in tickets' <=> <<v, l>> \in tickets
      BY <1>2 DEF Ask, Idle
    <3> QED BY <3>2, <3>3, <3>4, OthersStayInOrder
  <2> QED BY <2>1, <2>2, <2>3
<1>3. CASE AskInner(t)
  <2>1. ThreadTypes'
    BY <1>3 DEF ThreadTypes, AskInner
  <2>2. Counted'
    BY <1>3 DEF AskInner, Counted, ActiveCountsTickets, TicketsOf
  <2>3. ThreadsAreInOrder'
    <3>1. InOrder(t)
      BY <1>3 DEF ThreadsAreInOrder
    <3>2. InOrder(t)'
      BY <1>3, <3>1 DEF AskInner, InOrder
    <3>3. /\ holder[Home[t]] \in {t, NoOne} \/ holder' = holder
          /\ \A p \in Process : p # Home[t] => holder'[p] = holder[p]
          /\ \A v \in Thread \ {t} : loc'[v] = loc[v] /\ kind'[v] = kind[v]
      BY <1>3, <3>1 DEF AskInner, InOrder
    <3>4. \A v \in Thread \ {t}, l \in {Outer, Inner} : <<v, l>> \in tickets' <=> <<v, l>> \in tickets
      BY <1>3 DEF AskInner
    <3> QED BY <3>2, <3>3, <3>4, OthersStayInOrder
  <2> QED BY <2>1, <2>2, <2>3
<1>4. CASE Admit(t)
  <2>1. <<t, Level(t)>> \in Keys \ tickets
    <3>1. InOrder(t)
      BY DEF ThreadsAreInOrder
    <3>2. CASE loc[t] = "asking"
      BY <1>4, <3>1, <3>2 DEF Admit, Level, InOrder, Keys
    <3>3. CASE loc[t] = "asking inner"
      BY <1>4, <3>1, <3>3 DEF Admit, Level, InOrder, Keys
    <3> QED BY <1>4, <3>2, <3>3 DEF Admit
  <2>2. Counted' /\ active' \in [Process -> Nat]
    BY <1>4, <2>1, TakingCounts DEF Admit, Counted
  <2>3. ThreadTypes'
    BY <1>4, <2>1, <2>2 DEF ThreadTypes, Admit
  <2>4. ThreadsAreInOrder'
    <3>1. InOrder(t)
      BY <1>4 DEF ThreadsAreInOrder
    <3>2. InOrder(t)'
      <4>1. /\ loc[t] \in {"asking", "asking inner"} /\ tickets' = tickets \cup {<<t, Level(t)>>}
            /\ loc' = [loc EXCEPT ![t] = IF @ = "asking" THEN "working" ELSE "inner"]
            /\ kind' = kind
        BY <1>4 DEF Admit
      <4>2. CASE loc[t] = "asking"
        <5>1. loc'[t] = "working" /\ Level(t) = Outer
          BY <4>1, <4>2 DEF Level
        <5>2. <<t, Outer>> \in tickets' /\ <<t, Inner>> \notin tickets'
          BY <1>0, <3>1, <4>1, <4>2, <5>1 DEF InOrder
        <5> QED BY <3>1, <4>1, <4>2, <5>1, <5>2 DEF InOrder
      <4>3. CASE loc[t] = "asking inner"
        <5>1. loc'[t] = "inner" /\ Level(t) = Inner
          BY <4>1, <4>3 DEF Level
        <5>2. <<t, Outer>> \in tickets' /\ <<t, Inner>> \in tickets'
          BY <3>1, <4>1, <4>3, <5>1 DEF InOrder
        <5> QED BY <3>1, <4>1, <4>3, <5>1, <5>2 DEF InOrder
      <4> QED BY <4>1, <4>2, <4>3
    <3>3. /\ holder[Home[t]] \in {t, NoOne} \/ holder' = holder
          /\ \A p \in Process : p # Home[t] => holder'[p] = holder[p]
          /\ \A v \in Thread \ {t} : loc'[v] = loc[v] /\ kind'[v] = kind[v]
      BY <1>4, <3>1 DEF Admit, Level, InOrder
    <3>4. \A v \in Thread \ {t}, l \in {Outer, Inner} : <<v, l>> \in tickets' <=> <<v, l>> \in tickets
      BY <1>4 DEF Admit, Level
    <3> QED BY <3>2, <3>3, <3>4, OthersStayInOrder
  <2> QED BY <2>2, <2>3, <2>4
<1>5. CASE Refuse(t)
  <2>1. ThreadTypes'
    BY <1>5 DEF ThreadTypes, Refuse
  <2>2. Counted'
    BY <1>5 DEF Refuse, Counted, ActiveCountsTickets, TicketsOf
  <2>3. ThreadsAreInOrder'
    <3>1. InOrder(t)
      BY <1>5 DEF ThreadsAreInOrder
    <3>2. InOrder(t)'
      BY <1>5, <3>1 DEF Refuse, InOrder
    <3>3. /\ holder[Home[t]] \in {t, NoOne} \/ holder' = holder
          /\ \A p \in Process : p # Home[t] => holder'[p] = holder[p]
          /\ \A v \in Thread \ {t} : loc'[v] = loc[v] /\ kind'[v] = kind[v]
      BY <1>5, <3>1 DEF Refuse, InOrder
    <3>4. \A v \in Thread \ {t}, l \in {Outer, Inner} : <<v, l>> \in tickets' <=> <<v, l>> \in tickets
      BY <1>5 DEF Refuse
    <3> QED BY <3>2, <3>3, <3>4, OthersStayInOrder
  <2> QED BY <2>1, <2>2, <2>3
<1>6. ASSUME NEW u \in Thread, NEW k \in {"handed", "future"}, HandOff(t, u, k)
      PROVE  ThreadTypes' /\ Counted' /\ ThreadsAreInOrder'
  <2>1. <<u, Outer>> \in Keys \ tickets
    <3>1. InOrder(u)
      BY DEF ThreadsAreInOrder
    <3> QED BY <1>6, <3>1 DEF HandOff, Idle, InOrder, Keys
  <2>2. Counted' /\ active' \in [Process -> Nat]
    BY <1>6, <2>1, TakingCounts DEF HandOff, Counted
  <2>3. ThreadTypes'
    BY <1>6, <2>1, <2>2 DEF ThreadTypes, HandOff
  <2>4. ThreadsAreInOrder'
    <3>1. InOrder(u) /\ Home[u] = Home[t]
      BY <1>6 DEF ThreadsAreInOrder, HandOff
    <3>2. InOrder(u)'
      <4>1. /\ loc[u] = "idle" /\ tickets' = tickets \cup {<<u, Outer>>}
            /\ loc' = [loc EXCEPT ![u] = "pending"] /\ kind' = [kind EXCEPT ![u] = k]
        BY <1>6 DEF HandOff, Idle
      <4>2. loc'[u] = "pending" /\ kind'[u] = k /\ k \in {"handed", "future"}
        BY <1>6, <4>1
      <4>3. <<u, Outer>> \in tickets' /\ <<u, Inner>> \notin tickets'
        BY <1>0, <3>1, <4>1 DEF InOrder
      <4> QED BY <4>2, <4>3 DEF InOrder
    <3>3. /\ holder[Home[u]] \in {u, NoOne} \/ holder' = holder
          /\ \A p \in Process : p # Home[u] => holder'[p] = holder[p]
          /\ \A v \in Thread \ {u} : loc'[v] = loc[v] /\ kind'[v] = kind[v]
      BY <1>6, <3>1 DEF HandOff, Idle, InOrder
    <3>4. \A v \in Thread \ {u}, l \in {Outer, Inner} : <<v, l>> \in tickets' <=> <<v, l>> \in tickets
      BY <1>6 DEF HandOff, Idle
    <3> QED BY <3>2, <3>3, <3>4, OthersStayInOrder
  <2> QED BY <2>2, <2>3, <2>4
<1>7. CASE Begin(t)
  <2>1. ThreadTypes'
    BY <1>7 DEF ThreadTypes, Begin
  <2>2. Counted'
    BY <1>7 DEF Begin, Counted, ActiveCountsTickets, TicketsOf
  <2>3. ThreadsAreInOrder'
    <3>1. InOrder(t)
      BY <1>7 DEF ThreadsAreInOrder
    <3>2. InOrder(t)'
      BY <1>7, <3>1 DEF Begin, InOrder
    <3>3. /\ holder[Home[t]] \in {t, NoOne} \/ holder' = holder
          /\ \A p \in Process : p # Home[t] => holder'[p] = holder[p]
          /\ \A v \in Thread \ {t} : loc'[v] = loc[v] /\ kind'[v] = kind[v]
      BY <1>7, <3>1 DEF Begin, InOrder
    <3>4. \A v \in Thread \ {t}, l \in {Outer, Inner} : <<v, l>> \in tickets' <=> <<v, l>> \in tickets
      BY <1>7 DEF Begin
    <3> QED BY <3>2, <3>3, <3>4, OthersStayInOrder
  <2> QED BY <2>1, <2>2, <2>3
<1>8. CASE CloseInner(t)
  <2>1. Counted' /\ active' \in [Process -> Nat]
    BY <1>8, ClosingCounts DEF CloseInner, Counted
  <2>2. ThreadTypes'
    BY <1>8, <2>1 DEF ThreadTypes, CloseInner, Close
  <2>3. ThreadsAreInOrder'
    <3>1. InOrder(t)
      BY <1>8 DEF ThreadsAreInOrder
    <3>2. InOrder(t)'
      <4>1. /\ loc[t] = "inner" /\ tickets' = tickets \ {<<t, Inner>>}
            /\ loc' = [loc EXCEPT ![t] = "working"] /\ kind' = kind
        BY <1>8 DEF CloseInner, Close
      <4>2. <<t, Outer>> \in tickets' /\ <<t, Inner>> \notin tickets'
        BY <1>0, <3>1, <4>1 DEF InOrder
      <4> QED BY <3>1, <4>1, <4>2 DEF InOrder
    <3>3. /\ holder[Home[t]] \in {t, NoOne} \/ holder' = holder
          /\ \A p \in Process : p # Home[t] => holder'[p] = holder[p]
          /\ \A v \in Thread \ {t} : loc'[v] = loc[v] /\ kind'[v] = kind[v]
      BY <1>8, <3>1 DEF CloseInner, Close, InOrder
    <3>4. \A v \in Thread \ {t}, l \in {Outer, Inner} : <<v, l>> \in tickets' <=> <<v, l>> \in tickets
      BY <1>8 DEF CloseInner, Close
    <3> QED BY <3>2, <3>3, <3>4, OthersStayInOrder
  <2> QED BY <2>1, <2>2, <2>3
<1>9. CASE Finish(t) \/ DoneCallback(t)
  <2>1. Counted' /\ active' \in [Process -> Nat]
    BY <1>9, ClosingCounts DEF Finish, DoneCallback, Counted
  <2>2. ThreadTypes'
    BY <1>9, <2>1 DEF ThreadTypes, Finish, DoneCallback, Close
  <2>3. ThreadsAreInOrder'
    <3>1. InOrder(t)
      BY <1>9 DEF ThreadsAreInOrder
    <3>2. InOrder(t)'
      BY <1>9, <3>1 DEF Finish, DoneCallback, Close, InOrder
    <3>3. /\ holder[Home[t]] \in {t, NoOne} \/ holder' = holder
          /\ \A p \in Process : p # Home[t] => holder'[p] = holder[p]
          /\ \A v \in Thread \ {t} : loc'[v] = loc[v] /\ kind'[v] = kind[v]
      BY <1>9, <3>1 DEF Finish, DoneCallback, Close, InOrder
    <3>4. \A v \in Thread \ {t}, l \in {Outer, Inner} : <<v, l>> \in tickets' <=> <<v, l>> \in tickets
      BY <1>9 DEF Finish, DoneCallback, Close
    <3> QED BY <3>2, <3>3, <3>4, OthersStayInOrder
  <2> QED BY <2>1, <2>2, <2>3
<1> QED BY <1>2, <1>3, <1>4, <1>5, <1>6, <1>7, <1>8, <1>9 DEF ThreadStep

----------------------------------------------------------------------------
(* Quiet is stable while a pause stands.                                   *)

Rests(t) ==
    /\ Fresh(t) => loc[t] \in {"idle", "callback"} \/ (loc[t] = "asking" /\ sees[t] # 0)
    /\ loc[t] # "inner"

\* Gate.reserve admits nothing but continuations while request.json stands, and
\* only admitted work takes inner tickets or hands off threads.
LEMMA PausedThreadsStayAtRest ==
  ASSUME GateTypeOK, ThreadsAreInOrder, request # 0, ThreadMoves, NEW p \in Process, Quiet(p)
  PROVE  Quiet(p)'
<1>1. \A v \in Ours(p) : Rests(v)
  BY DEF Quiet, Rests
<1>2. /\ loc \in [Thread -> Locations] /\ kind \in [Thread -> Kinds]
      /\ sees \in [Thread -> Nat] /\ request \in Nat
  BY DEF GateTypeOK
<1>3. SUFFICES ASSUME NEW v \in Thread, Home[v] = p PROVE Rests(v)'
  BY DEF Quiet, Rests, Ours, Fresh
<1>4. Rests(v) /\ InOrder(v)
  BY <1>1, <1>3 DEF Ours, ThreadsAreInOrder
<1>5. PICK t \in Thread :
         \/ ThreadStep(t) \/ AskInner(t)
         \/ \E k \in {"new", "continuation"} : Ask(t, k)
         \/ \E u \in Thread, k \in {"handed", "future"} : HandOff(t, u, k)
  BY DEF ThreadMoves
<1> USE <1>2 DEF Rests, Fresh, Locations, Kinds
<1>6. CASE ThreadStep(t)
  <2>1. CASE t # v
    <3>1. loc'[v] = loc[v] /\ kind'[v] = kind[v] /\ sees'[v] = sees[v]
      BY <1>6, <2>1 DEF ThreadStep, Admit, Refuse, Begin, CloseInner, Finish, DoneCallback
    <3> QED BY <1>4, <3>1
  <2>2. CASE t = v
    <3>1. CASE Admit(t)
      <4>1. /\ loc[v] \in {"asking", "asking inner"} /\ Admissible(v) /\ kind' = kind
            /\ loc' = [loc EXCEPT ![v] = IF @ = "asking" THEN "working" ELSE "inner"]
        BY <2>2, <3>1 DEF Admit
      <4>2. loc[v] = "asking" /\ kind[v] = "continuation"
        BY <1>4, <4>1 DEF Admissible, InOrder
      <4> QED BY <4>1, <4>2
    <3>2. CASE Refuse(t)
      BY <1>4, <2>2, <3>2 DEF Refuse, InOrder
    <3>3. CASE Begin(t)
      BY <1>4, <2>2, <3>3 DEF Begin
    <3>4. CASE CloseInner(t)
      BY <1>4, <2>2, <3>4 DEF CloseInner
    <3>5. CASE Finish(t)
      BY <1>4, <2>2, <3>5 DEF Finish
    <3>6. CASE DoneCallback(t)
      BY <2>2, <3>6 DEF DoneCallback
    <3> QED BY <1>6, <3>1, <3>2, <3>3, <3>4, <3>5, <3>6 DEF ThreadStep
  <2> QED BY <2>1, <2>2
<1>7. CASE AskInner(t)
  BY <1>4, <1>7 DEF AskInner, InOrder
<1>8. ASSUME NEW k \in {"new", "continuation"}, Ask(t, k) PROVE Rests(v)'
  BY <1>4, <1>8 DEF Ask
<1>9. ASSUME NEW u \in Thread, NEW k \in {"handed", "future"}, HandOff(t, u, k) PROVE Rests(v)'
  <2>1. CASE u = v
    <3>1. Rests(t)
      BY <1>1, <1>3, <1>9, <2>1 DEF HandOff, Ours
    <3> QED BY <1>9, <3>1 DEF HandOff
  <2>2. CASE u # v
    <3>1. loc'[v] = loc[v] /\ kind'[v] = kind[v] /\ sees'[v] = sees[v]
      BY <1>9, <2>2 DEF HandOff
    <3> QED BY <1>4, <3>1
  <2> QED BY <2>1, <2>2
<1> QED BY <1>5, <1>6, <1>7, <1>8, <1>9

\* Gate.snapshot: no ticket is open and nobody holds the lock.
LEMMA NoTicketIsQuiet ==
  ASSUME GateTypeOK, Counted, ThreadsAreInOrder,
         NEW p \in Process, active[p] = 0, holder[p] = NoOne
  PROVE  Quiet(p)
<1>1. TicketsOf(p) = {}
  <2>1. IsFiniteSet(TicketsOf(p)) /\ Cardinality(TicketsOf(p)) = 0
    BY SomeTicketsAreFinite DEF Counted, ActiveCountsTickets
  <2> QED BY <2>1, FS_EmptySet
<1>2. ASSUME NEW t \in Ours(p) PROVE loc[t] \in {"idle", "callback"}
  <2>1. t \in Thread /\ Home[t] = p /\ InOrder(t) /\ loc[t] \in Locations /\ t # NoOne
    BY <1>2, GateConstants DEF Ours, ThreadsAreInOrder, GateTypeOK
  <2>2. <<t, Outer>> \notin tickets
    BY <1>1, <2>1 DEF TicketsOf
  <2> QED BY <2>1, <2>2 DEF InOrder, Locations
<1> QED BY <1>2 DEF Quiet

----------------------------------------------------------------------------
(* The invariant holds in every reachable state.                           *)

LEMMA GateInitHolds == GateInit => GateInv
<1> SUFFICES ASSUME GateInit PROVE GateInv
  OBVIOUS
<1>1. GateTypeOK
  BY GateConstants DEF GateInit, GateTypeOK, NoCommand, NoSnapshot, Snapshots, Locations, Kinds
<1>2. Counted
  <2>1. \A p \in Process : TicketsOf(p) = {}
    BY DEF GateInit, TicketsOf
  <2> QED BY <2>1, FS_EmptySet DEF GateInit, Counted, ActiveCountsTickets
<1>3. ThreadsAreInOrder
  BY DEF GateInit, ThreadsAreInOrder, InOrder
<1>4. SnapshotsAreHonest
  BY DEF GateInit, SnapshotsAreHonest, Honest, NoSnapshot
<1>5. NoncesAreIssued /\ StatusIsSound /\ AnswerHolds
  BY DEF GateInit, NoncesAreIssued, StatusIsSound, AnswerHolds, NoCommand
<1> QED BY <1>1, <1>2, <1>3, <1>4, <1>5 DEF GateInv

\* What the threads do is not written by the operator or the reporters.
LEMMA ThreadsStand ==
  ASSUME UNCHANGED threadVars
  PROVE  /\ Counted => Counted'
         /\ ThreadsAreInOrder => ThreadsAreInOrder'
         /\ \A p \in Process : Quiet(p)' <=> Quiet(p)
BY DEF threadVars, Counted, ActiveCountsTickets, TicketsOf, ThreadsAreInOrder, InOrder,
       Quiet, Ours, Fresh

LEMMA ThreadMovesKeepInv == GateInv /\ ThreadMoves => GateInv'
<1> SUFFICES ASSUME GateInv, ThreadMoves PROVE GateInv'
  OBVIOUS
<1>1. /\ GateTypeOK /\ Counted /\ ThreadsAreInOrder /\ SnapshotsAreHonest
      /\ NoncesAreIssued /\ StatusIsSound /\ AnswerHolds
  BY DEF GateInv
<1>2. UNCHANGED <<commandVars, processVars>>
  BY DEF ThreadMoves
<1>3. ThreadTypes' /\ Counted' /\ ThreadsAreInOrder'
  BY <1>1, ThreadStepIsOrderly DEF ThreadMoves
<1>4. GateTypeOK'
  BY <1>1, <1>2, <1>3 DEF GateTypeOK, ThreadTypes, Keys, commandVars, processVars
<1>5. ASSUME NEW p \in Process, request # 0, Quiet(p) PROVE Quiet(p)'
  BY <1>1, <1>5, PausedThreadsStayAtRest
<1>6. SnapshotsAreHonest'
  BY <1>1, <1>2, <1>5 DEF SnapshotsAreHonest, Honest, commandVars, processVars
<1>7. NoncesAreIssued'
  BY <1>1, <1>2 DEF NoncesAreIssued, commandVars, processVars
<1>8. StatusIsSound'
  BY <1>1, <1>2, <1>5 DEF StatusIsSound, commandVars, processVars, GateTypeOK
<1>9. AnswerHolds'
  BY <1>1, <1>2, <1>5 DEF AnswerHolds, NoncesAreIssued, commandVars, processVars
<1> QED BY <1>3, <1>4, <1>6, <1>7, <1>8, <1>9 DEF GateInv

LEMMA ProcessesKeepInv ==
  ASSUME GateInv, NEW p \in Process, Serve(p) \/ Die(p) \/ Snapshot(p) \/ WriteReceipt(p)
  PROVE  GateInv'
<1>1. /\ GateTypeOK /\ Counted /\ ThreadsAreInOrder /\ SnapshotsAreHonest
      /\ NoncesAreIssued /\ StatusIsSound /\ AnswerHolds
  BY DEF GateInv
<1>2. CASE Serve(p)
  <2>1. GateTypeOK'
    BY <1>1, <1>2 DEF GateTypeOK, Serve, commandVars, threadVars
  <2>2. UNCHANGED <<commandVars, threadVars, birth, draft, receipt>>
    BY <1>2 DEF Serve
  <2>3. SnapshotsAreHonest' /\ NoncesAreIssued' /\ StatusIsSound' /\ AnswerHolds'
    BY <1>1, <2>2, ThreadsStand
       DEF SnapshotsAreHonest, Honest, NoncesAreIssued, StatusIsSound, AnswerHolds, commandVars,
           GateTypeOK
  <2> QED BY <1>1, <2>1, <2>2, <2>3, ThreadsStand DEF GateInv
<1>3. CASE Die(p)
  <2>1. birth[p] \in Nat /\ birth[p] + 1 \in Nat /\ birth \in [Process -> Nat]
    BY <1>1 DEF GateTypeOK
  <2>2. birth' = [birth EXCEPT ![p] = birth[p] + 1]
    BY <1>3 DEF Die
  <2>3. birth' \in [Process -> Nat] /\ birth'[p] = birth[p] + 1
        /\ \A q \in Process : birth[q] <= birth'[q] /\ (q # p => birth'[q] = birth[q])
    <3>1. ASSUME NEW n \in Nat, birth' = [birth EXCEPT ![p] = n], birth[p] <= n
          PROVE  /\ birth' \in [Process -> Nat] /\ birth'[p] = n
                 /\ \A q \in Process : birth[q] <= birth'[q] /\ (q # p => birth'[q] = birth[q])
      BY <2>1, <3>1
    <3> QED BY <2>1, <2>2, <3>1
  <2>4. /\ UNCHANGED <<commandVars, receipt>>
        /\ draft' = [draft EXCEPT ![p] = NoSnapshot]
        /\ holder' = [holder EXCEPT ![p] = NoOne] /\ active' = [active EXCEPT ![p] = 0]
        /\ loc' = Reset(loc, p, "idle") /\ kind' = Reset(kind, p, "none")
        /\ sees' = Reset(sees, p, 0) /\ tickets' = tickets \ TicketsOf(p)
        /\ serving' = [serving EXCEPT ![p] = FALSE]
    BY <1>3 DEF Die
  <2>5. GateTypeOK'
    <3>1. loc' \in [Thread -> Locations] /\ kind' \in [Thread -> Kinds] /\ sees' \in [Thread -> Nat]
      BY <1>1, <2>4 DEF GateTypeOK, Reset, Locations, Kinds
    <3>2. NoSnapshot \in Snapshots
      BY DEF NoSnapshot, Snapshots
    <3>3. /\ draft' \in [Process -> Snapshots] /\ serving' \in [Process -> BOOLEAN]
          /\ holder' \in [Process -> Thread \cup {NoOne}] /\ active' \in [Process -> Nat]
          /\ tickets' \in SUBSET (Thread \X {Outer, Inner})
      BY <1>1, <2>4, <3>2 DEF GateTypeOK
    <3> QED BY <1>1, <2>3, <2>4, <3>1, <3>3 DEF GateTypeOK, commandVars
  <2>6. Counted'
    <3>1. IsFiniteSet(tickets')
      BY <1>1, <2>4, FS_Subset DEF Counted
    <3>2. ASSUME NEW q \in Process PROVE active'[q] = Cardinality(TicketsOf(q)')
      <4>1. CASE q = p
        <5>1. TicketsOf(q)' = {} /\ active'[q] = 0
          BY <1>1, <2>4, <4>1 DEF TicketsOf, GateTypeOK
        <5> QED BY <5>1, FS_EmptySet
      <4>2. CASE q # p
        <5>1. TicketsOf(q)' = TicketsOf(q) /\ active'[q] = active[q]
          BY <1>1, <2>4, <4>2 DEF TicketsOf, GateTypeOK
        <5> QED BY <1>1, <5>1 DEF Counted, ActiveCountsTickets
      <4> QED BY <4>1, <4>2
    <3> QED BY <3>1, <3>2 DEF Counted, ActiveCountsTickets
  <2>7. \A t \in Thread : Home[t] # p =>
          /\ loc'[t] = loc[t] /\ kind'[t] = kind[t] /\ sees'[t] = sees[t]
          /\ holder'[Home[t]] = holder[Home[t]]
          /\ <<t, Outer>> \in tickets' <=> <<t, Outer>> \in tickets
          /\ <<t, Inner>> \in tickets' <=> <<t, Inner>> \in tickets
    BY <1>1, <2>4, GateConstants DEF GateTypeOK, Reset, TicketsOf
  <2>8. \A t \in Thread : Home[t] = p =>
          /\ loc'[t] = "idle" /\ kind'[t] = "none"
          /\ <<t, Outer>> \notin tickets' /\ <<t, Inner>> \notin tickets'
    BY <1>1, <2>4 DEF GateTypeOK, Reset, TicketsOf
  <2>9. ThreadsAreInOrder'
    <3>1. ASSUME NEW t \in Thread PROVE InOrder(t)'
      <4>1. CASE Home[t] = p
        BY <2>8, <3>1, <4>1 DEF InOrder
      <4>2. CASE Home[t] # p
        BY <1>1, <2>7, <3>1, <4>2 DEF ThreadsAreInOrder, InOrder
      <4> QED BY <4>1, <4>2
    <3> QED BY <3>1 DEF ThreadsAreInOrder
  <2>10. \A q \in Process : q # p => (Quiet(q)' <=> Quiet(q))
    BY <2>7 DEF Quiet, Ours, Fresh
  <2>11. Quiet(p)'
    BY <2>8 DEF Quiet, Ours, Fresh
  <2>12. SnapshotsAreHonest'
    <3>1. ASSUME NEW q \in Process PROVE Honest(draft[q], q)' /\ Honest(receipt[q], q)'
      <4>1. CASE q = p
        <5>1. draft'[q] = NoSnapshot
          BY <1>1, <2>4, <4>1 DEF GateTypeOK
        <5>2. NoSnapshot.birth = 0 /\ NoSnapshot.request = 0 /\ ~NoSnapshot.quiescent
          BY DEF NoSnapshot
        <5>3. receipt[q].birth <= birth'[q] /\ receipt[q].request <= requests
          <6>1. receipt[q].birth <= birth[q] /\ receipt[q].request <= requests
            BY <1>1 DEF SnapshotsAreHonest, Honest
          <6>2. receipt[q].birth \in Nat /\ birth[q] \in Nat
            BY <1>1 DEF GateTypeOK, Snapshots
          <6> QED BY <2>1, <2>3, <4>1, <6>1, <6>2
        <5> QED BY <1>1, <2>3, <2>4, <2>11, <4>1, <5>1, <5>2, <5>3
                DEF Honest, commandVars, GateTypeOK
      <4>2. CASE q # p
        <5>1. draft'[q] = draft[q] /\ birth'[q] = birth[q]
          BY <1>1, <2>3, <2>4, <4>2 DEF GateTypeOK
        <5> QED BY <1>1, <2>4, <2>10, <4>2, <5>1 DEF SnapshotsAreHonest, Honest, commandVars
      <4> QED BY <4>1, <4>2
    <3> QED BY <3>1 DEF SnapshotsAreHonest
  <2>13. NoncesAreIssued'
    <3>1. \A q \in Process : answer.births[q] \in Nat /\ birth[q] \in Nat /\ birth'[q] \in Nat
      BY <1>1, <2>3 DEF GateTypeOK
    <3> QED BY <1>1, <2>3, <2>4, <3>1 DEF NoncesAreIssued, commandVars
  <2>14. \A q \in Process : q # p /\ birth'[q] = answer.births[q] => birth[q] = answer.births[q]
    BY <2>3
  <2>15. StatusIsSound'
    BY <1>1, <2>4, <2>10, <2>11, <2>14 DEF StatusIsSound, commandVars, GateTypeOK
  <2>16. AnswerHolds'
    BY <1>1, <2>4, <2>10, <2>11, <2>14 DEF AnswerHolds, commandVars
  <2> QED BY <2>5, <2>6, <2>9, <2>12, <2>13, <2>15, <2>16 DEF GateInv
<1>4. CASE Snapshot(p)
  <2>1. /\ UNCHANGED <<commandVars, threadVars, serving, birth, receipt>>
        /\ holder[p] = NoOne /\ request # 0
        /\ draft' = [draft EXCEPT ![p] = [birth |-> birth[p], request |-> request,
                                          quiescent |-> serving[p] /\ active[p] = 0]]
    BY <1>4 DEF Snapshot
  <2>2. PICK s \in Snapshots :
           /\ draft' = [draft EXCEPT ![p] = s]
           /\ s.birth = birth[p] /\ s.request = request /\ (s.quiescent => active[p] = 0)
    <3> DEFINE s == [birth |-> birth[p], request |-> request,
                     quiescent |-> serving[p] /\ active[p] = 0]
    <3>1. s \in Snapshots
      BY <1>1 DEF GateTypeOK, Snapshots
    <3>2. s.birth = birth[p] /\ s.request = request /\ (s.quiescent => active[p] = 0)
      OBVIOUS
    <3>3. draft' = [draft EXCEPT ![p] = s]
      BY <2>1
    <3> HIDE DEF s
    <3> QED BY <3>1, <3>2, <3>3
  <2>3. s.quiescent => Quiet(p)
    BY <1>1, <2>1, <2>2, NoTicketIsQuiet
  <2>4. GateTypeOK'
    BY <1>1, <2>1, <2>2 DEF GateTypeOK, commandVars, threadVars
  <2>5. SnapshotsAreHonest'
    <3>1. ASSUME NEW q \in Process PROVE Honest(draft[q], q)' /\ Honest(receipt[q], q)'
      <4>1. draft'[q] = IF q = p THEN s ELSE draft[q]
        BY <1>1, <2>2 DEF GateTypeOK
      <4>2. Quiet(q)' <=> Quiet(q)
        BY <2>1, ThreadsStand
      <4>3. s.birth <= birth[p] /\ s.request <= requests
        BY <1>1, <2>2 DEF GateTypeOK, NoncesAreIssued
      <4>4. Honest(s, p) /\ Honest(draft[q], q) /\ Honest(receipt[q], q)
        BY <1>1, <2>3, <4>3 DEF SnapshotsAreHonest, Honest
      <4> QED BY <2>1, <4>1, <4>2, <4>4 DEF Honest, commandVars
    <3> QED BY <3>1 DEF SnapshotsAreHonest
  <2>6. NoncesAreIssued' /\ StatusIsSound' /\ AnswerHolds'
    BY <1>1, <2>1, ThreadsStand DEF NoncesAreIssued, StatusIsSound, AnswerHolds, commandVars, GateTypeOK
  <2> QED BY <1>1, <2>1, <2>4, <2>5, <2>6, ThreadsStand DEF GateInv
<1>5. CASE WriteReceipt(p)
  <2>1. /\ UNCHANGED <<commandVars, threadVars, serving, birth>>
        /\ receipt' = [receipt EXCEPT ![p] = draft[p]]
        /\ draft' = [draft EXCEPT ![p] = NoSnapshot]
    BY <1>5 DEF WriteReceipt
  <2>2. NoSnapshot \in Snapshots /\ ~NoSnapshot.quiescent
        /\ NoSnapshot.birth = 0 /\ NoSnapshot.request = 0
    BY DEF NoSnapshot, Snapshots
  <2>3. GateTypeOK'
    BY <1>1, <2>1, <2>2 DEF GateTypeOK, commandVars, threadVars
  <2>4. SnapshotsAreHonest'
    <3>1. ASSUME NEW q \in Process PROVE Honest(draft[q], q)' /\ Honest(receipt[q], q)'
      <4>1. /\ draft'[q] = IF q = p THEN NoSnapshot ELSE draft[q]
            /\ receipt'[q] = IF q = p THEN draft[p] ELSE receipt[q]
        BY <1>1, <2>1 DEF GateTypeOK
      <4>2. Quiet(q)' <=> Quiet(q)
        BY <2>1, ThreadsStand
      <4>3. birth[q] \in Nat /\ requests \in Nat
        BY <1>1 DEF GateTypeOK
      <4>4. Honest(NoSnapshot, q) /\ Honest(draft[q], q) /\ Honest(receipt[q], q)
        BY <1>1, <2>2, <4>3 DEF SnapshotsAreHonest, Honest
      <4> QED BY <2>1, <4>1, <4>2, <4>4 DEF Honest, commandVars
    <3> QED BY <3>1 DEF SnapshotsAreHonest
  <2>5. NoncesAreIssued' /\ StatusIsSound' /\ AnswerHolds'
    BY <1>1, <2>1, ThreadsStand DEF NoncesAreIssued, StatusIsSound, AnswerHolds, commandVars, GateTypeOK
  <2> QED BY <1>1, <2>1, <2>3, <2>4, <2>5, ThreadsStand DEF GateInv
<1> QED BY <1>2, <1>3, <1>4, <1>5

LEMMA OperatorKeepsInv == GateInv /\ Operator => GateInv'
<1> SUFFICES ASSUME GateInv, Operator PROVE GateInv'
  OBVIOUS
<1>1. /\ GateTypeOK /\ Counted /\ ThreadsAreInOrder /\ SnapshotsAreHonest
      /\ NoncesAreIssued /\ StatusIsSound /\ AnswerHolds
  BY DEF GateInv
<1>2. UNCHANGED <<processVars, threadVars>>
  BY DEF Operator, BeginPause, ResumeWrites, ResumeUnlinks, StatusBegins, StatusReads,
         StatusAnswers, CommandDies
<1>3. Counted' /\ ThreadsAreInOrder' /\ \A p \in Process : Quiet(p)' <=> Quiet(p)
  BY <1>1, <1>2, ThreadsStand
<1>4. SUFFICES GateTypeOK' /\ SnapshotsAreHonest' /\ NoncesAreIssued' /\ StatusIsSound' /\ AnswerHolds'
  BY <1>3 DEF GateInv
<1>5. /\ request \in Nat /\ requests \in Nat /\ requests + 1 \in Nat
      /\ birth \in [Process -> Nat]
      /\ \A p \in Process : draft[p] \in Snapshots /\ receipt[p] \in Snapshots
  BY <1>1 DEF GateTypeOK
<1>6. NoCommand \in [cmd : {"none", "status", "resume"}, read : SUBSET Process, asked : Nat, good : BOOLEAN]
  BY DEF NoCommand
<1>7. CASE BeginPause
  <2>1. /\ cli.cmd = "none" /\ requests' = requests + 1 /\ request' = requests + 1
        /\ UNCHANGED <<resumed, cli, answer>>
    BY <1>7 DEF BeginPause
  <2>2. GateTypeOK'
    BY <1>1, <1>2, <1>5, <2>1 DEF GateTypeOK, processVars, threadVars
  <2>3. ASSUME NEW n \in Nat, requests < n, requests' = n, request' = n
        PROVE  SnapshotsAreHonest' /\ NoncesAreIssued' /\ AnswerHolds'
    <3>1. ASSUME NEW s \in Snapshots, NEW p \in Process, Honest(s, p)
          PROVE  s.birth <= birth'[p] /\ s.request <= requests' /\ s.request # request'
      BY <1>2, <1>5, <2>3, <3>1 DEF Honest, Snapshots, processVars
    <3>2. SnapshotsAreHonest'
      BY <1>1, <1>2, <1>5, <3>1 DEF SnapshotsAreHonest, Honest, processVars
    <3>3. answer.request <= n /\ answer.request # n
      BY <1>1, <1>5, <2>3 DEF NoncesAreIssued, GateTypeOK
    <3> QED BY <1>1, <1>2, <2>1, <2>3, <3>2, <3>3
            DEF NoncesAreIssued, AnswerHolds, processVars
  <2>4. StatusIsSound'
    BY <2>1 DEF StatusIsSound
  <2> QED BY <1>5, <2>1, <2>2, <2>3, <2>4
<1>8. CASE ResumeWrites
  <2>1. UNCHANGED <<request, requests, answer>> /\ resumed' = request
        /\ cli' = [NoCommand EXCEPT !.cmd = "resume"]
    BY <1>8 DEF ResumeWrites
  <2>2. /\ cli'.cmd = "resume"
        /\ cli' \in [cmd : {"none", "status", "resume"}, read : SUBSET Process, asked : Nat,
                     good : BOOLEAN]
    BY <1>6, <2>1 DEF NoCommand
  <2>3. GateTypeOK'
    BY <1>1, <1>2, <2>1, <2>2 DEF GateTypeOK, processVars, threadVars
  <2> QED BY <1>1, <1>2, <1>3, <2>1, <2>2, <2>3
          DEF SnapshotsAreHonest, Honest, NoncesAreIssued, StatusIsSound, AnswerHolds, processVars
<1>9. CASE ResumeUnlinks
  <2>1. UNCHANGED <<requests, resumed, answer>> /\ request' = 0 /\ cli' = NoCommand
    BY <1>9 DEF ResumeUnlinks
  <2>2. GateTypeOK'
    BY <1>1, <1>2, <1>6, <2>1 DEF GateTypeOK, processVars, threadVars
  <2>3. cli'.cmd = "none"
    BY <2>1 DEF NoCommand
  <2>4. SnapshotsAreHonest'
    BY <1>1, <1>2, <2>1 DEF SnapshotsAreHonest, Honest, processVars
  <2> QED BY <1>1, <1>2, <1>5, <2>1, <2>2, <2>3, <2>4
          DEF NoncesAreIssued, StatusIsSound, AnswerHolds, processVars
<1>10. CASE StatusBegins
  <2>1. UNCHANGED <<request, requests, resumed>> /\ request # 0
        /\ cli' = [cmd |-> "status", read |-> {}, asked |-> request, good |-> TRUE]
        /\ answer' = [request |-> request, births |-> birth, quiescent |-> FALSE]
    BY <1>10 DEF StatusBegins
  <2>2. GateTypeOK'
    BY <1>1, <1>2, <1>5, <2>1 DEF GateTypeOK, processVars, threadVars
  <2>3. SnapshotsAreHonest'
    BY <1>1, <1>2, <1>3, <2>1 DEF SnapshotsAreHonest, Honest, processVars
  <2>4. NoncesAreIssued'
    <3>1. \A p \in Process : birth[p] <= birth[p]
      BY <1>5
    <3> QED BY <1>1, <1>2, <2>1, <3>1 DEF NoncesAreIssued, processVars
  <2>5. StatusIsSound' /\ AnswerHolds'
    BY <2>1 DEF StatusIsSound, AnswerHolds
  <2> QED BY <2>2, <2>3, <2>4, <2>5
<1>11. ASSUME NEW p \in Process, NEW recent \in BOOLEAN, StatusReads(p, recent)
       PROVE  GateTypeOK' /\ SnapshotsAreHonest' /\ NoncesAreIssued' /\ StatusIsSound' /\ AnswerHolds'
  <2>1. UNCHANGED <<request, requests, resumed, answer>> /\ cli.cmd = "status"
        /\ cli' = [cli EXCEPT !.read = @ \cup {p}, !.good = @ /\ Current(p, recent)]
    BY <1>11 DEF StatusReads
  <2>2. /\ cli'.cmd = "status" /\ cli'.read = cli.read \cup {p} /\ cli'.asked = cli.asked
        /\ cli'.good = (cli.good /\ Current(p, recent))
        /\ cli' \in [cmd : {"none", "status", "resume"}, read : SUBSET Process, asked : Nat,
                     good : BOOLEAN]
    BY <1>1, <2>1 DEF GateTypeOK, Current
  <2>3. GateTypeOK'
    BY <1>1, <1>2, <2>1, <2>2 DEF GateTypeOK, processVars, threadVars
  <2>4. Current(p, recent) => Quiet(p)
    BY <1>1, <2>1 DEF Current, SnapshotsAreHonest, Honest, StatusIsSound
  <2>5. StatusIsSound'
    BY <1>1, <1>2, <1>3, <2>1, <2>2, <2>4 DEF StatusIsSound, processVars, GateTypeOK
  <2> QED BY <1>1, <1>2, <1>3, <2>1, <2>3, <2>5
          DEF SnapshotsAreHonest, Honest, NoncesAreIssued, AnswerHolds, processVars
<1>12. CASE StatusAnswers
  <2>1. UNCHANGED <<request, requests, resumed>> /\ cli.cmd = "status" /\ cli.read = Process
        /\ answer' = [answer EXCEPT !.quiescent = cli.good] /\ cli' = NoCommand
    BY <1>12 DEF StatusAnswers
  <2>2. /\ answer'.request = answer.request /\ answer'.births = answer.births
        /\ answer'.quiescent = cli.good
        /\ answer' \in [request : Nat, births : [Process -> Nat], quiescent : BOOLEAN]
    BY <1>1, <2>1 DEF GateTypeOK
  <2>3. GateTypeOK'
    BY <1>1, <1>2, <1>6, <2>1, <2>2 DEF GateTypeOK, processVars, threadVars
  <2>4. AnswerHolds' /\ NoncesAreIssued'
    BY <1>1, <1>2, <1>3, <2>1, <2>2 DEF AnswerHolds, NoncesAreIssued, StatusIsSound, processVars
  <2>5. StatusIsSound'
    BY <2>1 DEF StatusIsSound, NoCommand
  <2> QED BY <1>1, <1>2, <1>3, <2>1, <2>3, <2>4, <2>5 DEF SnapshotsAreHonest, Honest, processVars
<1>13. CASE CommandDies
  <2>1. UNCHANGED <<request, requests, resumed, answer>> /\ cli' = NoCommand
    BY <1>13 DEF CommandDies
  <2>2. GateTypeOK'
    BY <1>1, <1>2, <1>6, <2>1 DEF GateTypeOK, processVars, threadVars
  <2>3. cli'.cmd = "none"
    BY <2>1 DEF NoCommand
  <2> QED BY <1>1, <1>2, <1>3, <2>1, <2>2, <2>3
          DEF SnapshotsAreHonest, Honest, NoncesAreIssued, StatusIsSound, AnswerHolds, processVars
<1> QED BY <1>7, <1>8, <1>9, <1>10, <1>11, <1>12, <1>13 DEF Operator

LEMMA GateStep == GateInv /\ [GateNext]_gateVars => GateInv'
<1> SUFFICES ASSUME GateInv, [GateNext]_gateVars PROVE GateInv'
  OBVIOUS
<1>1. CASE UNCHANGED gateVars
  <2>1. UNCHANGED threadVars
    BY <1>1 DEF gateVars, threadVars
  <2>2. GateTypeOK'
    BY <1>1 DEF GateInv, gateVars, GateTypeOK
  <2>3. SnapshotsAreHonest' /\ NoncesAreIssued' /\ StatusIsSound' /\ AnswerHolds'
    BY <1>1, <2>1, ThreadsStand
       DEF GateInv, gateVars, SnapshotsAreHonest, Honest, NoncesAreIssued, StatusIsSound,
           AnswerHolds, GateTypeOK
  <2> QED BY <2>1, <2>2, <2>3, ThreadsStand DEF GateInv
<1>2. CASE GateNext
  <2>1. CASE Reporting
    BY <2>1, ProcessesKeepInv DEF Reporting
  <2>2. CASE \E p \in Process : Serve(p) \/ Die(p)
    BY <2>2, ProcessesKeepInv
  <2> QED BY <1>2, <2>1, <2>2, ThreadMovesKeepInv, OperatorKeepsInv DEF GateNext
<1> QED BY <1>1, <1>2

\* The invariant of the gate: types, counts, threads in order, honest snapshots,
\* and what status knows so far (maintenance.py Gate, status).
THEOREM GateInvariant == GateSpec => []GateInv
<1> QED BY GateInitHolds, GateStep, PTL DEF GateSpec

\* The gate's state is well typed: Gate.active never counts below zero, however
\* closes, cancelled futures and deaths of processes interleave (maintenance.py Gate).
THEOREM GateTypeCorrect == GateSpec => []GateTypeOK
<1>1. GateInv => GateTypeOK
  BY DEF GateInv
<1> QED BY <1>1, GateInvariant, PTL

\* Gate.active is the number of open tickets in every reachable state
\* (maintenance.py Gate.reserve, Ticket.close).
THEOREM ActiveIsExact == GateSpec => []ActiveCountsTickets
<1>1. GateInv => ActiveCountsTickets
  BY DEF GateInv, Counted
<1> QED BY <1>1, GateInvariant, PTL

\* An answer of status that the services are quiescent stays true while the
\* pause it was asked about stands: nothing but reads and cancellations of
\* remote jobs runs in a process it looked at (maintenance.py status, Gate.snapshot).
THEOREM QuiescentAnswersHold == GateSpec => []AnswerHolds
<1>1. GateInv => AnswerHolds
  BY DEF GateInv
<1> QED BY <1>1, GateInvariant, PTL
----------------------------------------------------------------------------
(* The worker host.                                                        *)

Tasks == [op : Ops, step : JobSteps, todo : SUBSET Job, job : Job, seen : Rows,
          resumed : Nat, old : BOOLEAN]

JobTypeOK ==
    /\ task \in [Thread -> Tasks] /\ row \in [Job -> Rows]
    /\ gpu \in Thread \cup {NoOne}
    /\ told \in SUBSET Job /\ crossed \in SUBSET Job /\ orphans \in SUBSET Job

SideTypeOK ==
    /\ boot \in BOOLEAN /\ scanDue \in BOOLEAN
    /\ lastResumed \in Nat /\ submits \in Nat

----------------------------------------------------------------------------
(* The invariant: where a thread is, and whose the GPU is.                 *)

OnStage == {"begin", "start", "run", "ok", "failed", "end"}
Outside == {"read", "write", "check", "defer", "gpu", "done", "list"}
Working == {"start", "run", "ok", "failed"}
Carrying == {"check", "defer", "gpu", "ask", "begin"} \cup Working

Works(t) == task[t].step \in Working
Executes(t) == task[t].step \in {"run", "ok", "failed"}

InPlace(t) ==
    /\ Home[t] # Main => task[t].step = "none"
    /\ task[t].step = "asked" => loc[t] = "asking"
    /\ task[t].step = "ask" => loc[t] \in {"working", "asking inner"}
    /\ task[t].step \in Outside => loc[t] = "working"
    /\ task[t].step \in OnStage => loc[t] = "inner"
    /\ task[t].step \in {"none", "asked", "read", "write", "list"} => task[t].todo = {}
    /\ task[t].step \in OnStage \cup {"ask"} => gpu = t
    /\ task[t].old => task[t].step = "write"

(* What an executor has read still has its inputs when it begins.          *)
InputsFit ==
    /\ InputsAreKept
    /\ \A t \in Thread : task[t].step = "start" => Row(t).inputs \/ Row(t).cancel

(* A job that is unfinished and was begun in this life is being executed.  *)
RunsFit ==
    /\ birth[Main] # 0
    /\ RunsOncePerLife
    /\ \A t \in Thread : task[t].step = "start" => task[t].seen.runs < birth[Main]
    /\ \A j \in Job : row[j].status \in Unfinished =>
          row[j].runs < birth[Main] \/ \E t \in Thread : Executes(t) /\ task[t].job = j

Carries(t, j) == (task[t].job = j /\ task[t].step \in Carrying) \/ j \in task[t].todo

Carried ==
    \A j \in Job : row[j].status \in Unfinished =>
        row[j].deferred \/ j \in orphans \/ \E t \in Thread : Carries(t, j)

(* While a job is executed and nobody submits it beside, its row says so,  *)
(* and a handler that saw it queued has seen it before.                    *)
ExecutorIsSeen(t) ==
    /\ task[t].step = "start" =>
         /\ task[t].seen.status \in Unfinished
         /\ Row(t).status \in {task[t].seen.status, "cancelled"}
    /\ Executes(t) => Row(t).status \in {"running", "cancelled"}
    /\ task[t].step = "ok" /\ task[t].job \in told => task[t].seen.cancel
    /\ Executes(t) => \A u \in Thread :
         task[u].job = task[t].job /\ task[u].step = "write" /\ task[u].seen.status = "queued"
             => task[u].old

CancelsFit ==
    /\ CancelledNeverSucceeds
    /\ \A j \in told : row[j].cancel
    /\ \A t \in Thread : Works(t) /\ task[t].job \notin crossed => ExecutorIsSeen(t)
    /\ \A t, u \in Thread : task[t].step \in {"ok", "failed"} /\ task[u].step = "write" => ~task[u].old

DataFits == InputsFit /\ RunsFit /\ Carried /\ CancelsFit

JobFacts == JobTypeOK /\ (\A t \in Thread : InPlace(t)) /\ DataFits
JobInv == JobFacts /\ SideTypeOK

----------------------------------------------------------------------------
(* The worker uses the gate as a process may.                              *)

LEMMA WorkerStepsAreGateSteps == [WorkerNext]_workerVars => [GateNext]_gateVars
<1> SUFFICES ASSUME [WorkerNext]_workerVars PROVE GateNext \/ UNCHANGED gateVars
  OBVIOUS
<1>1. ASSUME NEW t \in Thread, JobStep(t) PROVE GateNext \/ UNCHANGED gateVars
  <2>1. CASE Granted(t) \/ Refused(t) \/ ReleasesStage(t) \/ Returns(t)
    BY <2>1 DEF Granted, Refused, ReleasesStage, Returns, ThreadStep, ThreadMoves, stillGate, GateNext
  <2>2. CASE AsksForStage(t)
    BY <2>2 DEF AsksForStage, ThreadMoves, stillGate, GateNext
  <2>3. CASE Reads(t) \/ CancelWrites(t) \/ Checks(t) \/ Defers(t) \/ TakesGpu(t)
             \/ BeginReads(t) \/ BeginWrites(t) \/ EndWrites(t)
    BY <2>3 DEF Reads, CancelWrites, Checks, Defers, TakesGpu, BeginReads, BeginWrites, EndWrites, Still
  <2>4. CASE \/ \E b \in BOOLEAN : SubmitWrites(t, b) \/ StageEnds(t, b) \/ ListsJobs(t, b)
             \/ \E j \in Job : TakesNext(t, j)
    BY <2>4 DEF SubmitWrites, StageEnds, ListsJobs, TakesNext, Still
  <2> QED BY <1>1, <2>1, <2>2, <2>3, <2>4 DEF JobStep
<1>2. ASSUME NEW t \in Thread, Dispatch(t) \/ BootResumes(t) PROVE GateNext
  BY <1>2 DEF Dispatch, BootResumes, ThreadMoves, stillGate, GateNext
<1>3. ASSUME NEW t \in Thread, NEW j \in Job, NEW op \in {"submit", "cancel"}, Arrive(t, op, j)
      PROVE  GateNext
  BY <1>3 DEF Arrive, ThreadMoves, stillGate, GateNext
<1>4. CASE ReporterSeesPause \/ BootPaused \/ UNCHANGED workerVars
  BY <1>4 DEF ReporterSeesPause, BootPaused, workerVars
<1>5. CASE WorkerServes \/ WorkerDies
  BY <1>5, WorkerConstants DEF WorkerServes, WorkerDies, GateNext
<1>6. CASE Pauses
  BY <1>6 DEF Pauses, Operator, GateNext
<1> QED BY <1>1, <1>2, <1>3, <1>4, <1>5, <1>6 DEF WorkerNext

\* The worker host reserves and releases as maintenance.py lets a process do: every
\* behaviour of it is one of the maintenance gate (remote/server.py _admit_job,
\* execute_job, resume_deferred_jobs).
THEOREM WorkerImplementsGate == WorkerSpec => GateSpec
<1>1. WorkerInit => GateInit
  BY DEF WorkerInit
<1> QED BY <1>1, WorkerStepsAreGateSteps, PTL DEF WorkerSpec, GateSpec

----------------------------------------------------------------------------
(* One thread moves.                                                       *)

LEMMA NullTask ==
  /\ NoRow \in Rows /\ NoTask \in Tasks
  /\ NoTask.step = "none" /\ NoTask.todo = {} /\ ~NoTask.old
<1>1. \E j \in Job : TRUE
  BY WorkerConstants
<1>2. (CHOOSE j \in Job : TRUE) \in Job
  BY <1>1
<1>3. NoRow \in Rows
  BY DEF NoRow, Rows
<1> QED BY <1>2, <1>3 DEF NoTask, Tasks, Ops, JobSteps

LEMMA OthersStayInPlace ==
  ASSUME JobFacts, NEW t \in Thread, NEW new \in Tasks, task' = [task EXCEPT ![t] = new],
         \A u \in Thread \ {t} : loc'[u] = loc[u],
         gpu' = gpu \/ (gpu' = t /\ gpu = NoOne) \/ (gpu' = NoOne /\ gpu = t),
         InPlace(t)'
  PROVE  /\ task' \in [Thread -> Tasks] /\ gpu' \in Thread \cup {NoOne}
         /\ \A u \in Thread : InPlace(u)'
<1>1. task \in [Thread -> Tasks] /\ gpu \in Thread \cup {NoOne} /\ NoOne \notin Thread
  BY GateConstants DEF JobFacts, JobTypeOK
<1>2. ASSUME NEW u \in Thread, u # t PROVE InPlace(u)'
  <2>1. task'[u] = task[u] /\ loc'[u] = loc[u] /\ InPlace(u)
    BY <1>1, <1>2 DEF JobFacts
  <2>2. gpu = u => gpu' = u
    BY <1>1, <1>2
  <2> QED BY <2>1, <2>2 DEF InPlace
<1> QED BY <1>1, <1>2

\* A step between two points at which a thread has no row in hand, and writes none.
LEMMA NothingIsWritten ==
  ASSUME JobFacts, NEW t \in Thread, NEW new \in Tasks, task' = [task EXCEPT ![t] = new],
         UNCHANGED <<row, told, crossed, orphans, birth>>,
         task[t].step \notin Working, new.step \notin Working,
         \A j \in Job : row[j].status \in Unfinished /\ Carries(t, j) =>
             (new.job = j /\ new.step \in Carrying) \/ j \in new.todo,
         new.step = "write" => ~new.old /\ new.seen = row[new.job]
  PROVE  DataFits'
<1>1. /\ task \in [Thread -> Tasks] /\ task'[t] = new
      /\ \A u \in Thread \ {t} : task'[u] = task[u]
  BY DEF JobFacts, JobTypeOK
<1>2. \A u \in Thread : Works(u)' => u # t /\ Works(u)
  BY <1>1 DEF Works
<1>3. \A u \in Thread : Executes(u) => u # t /\ Executes(u)'
  BY <1>1 DEF Executes, Working
<1>4. InputsFit'
  BY <1>1, <1>2 DEF JobFacts, DataFits, InputsFit, InputsAreKept, Row, Works, Working
<1>5. RunsFit'
  <2>1. \A u \in Thread : task'[u].step = "start" => task[u].step = "start" /\ task'[u] = task[u]
    BY <1>1, <1>2 DEF Works, Working
  <2>2. \A j \in Job : row[j].status \in Unfinished =>
            row[j].runs < birth[Main] \/ \E u \in Thread : Executes(u)' /\ task'[u].job = j
    BY <1>1, <1>3 DEF JobFacts, DataFits, RunsFit
  <2> QED BY <2>1, <2>2 DEF JobFacts, DataFits, RunsFit, RunsOncePerLife
<1>6. Carried'
  <2>1. ASSUME NEW j \in Job, row[j].status \in Unfinished, NEW u \in Thread, Carries(u, j)
        PROVE  Carries(u, j)'
    BY <1>1, <2>1 DEF Carries
  <2> QED BY <2>1 DEF JobFacts, DataFits, Carried
<1>7. CancelsFit'
  <2>1. ASSUME NEW u \in Thread, Works(u)', task'[u].job \notin crossed PROVE ExecutorIsSeen(u)'
    <3>1. u # t /\ task'[u] = task[u] /\ ExecutorIsSeen(u) /\ Works(u)
      BY <1>1, <1>2, <2>1 DEF JobFacts, DataFits, CancelsFit
    <3>2. ASSUME Executes(u), NEW v \in Thread, task'[v].job = task'[u].job,
                 task'[v].step = "write", task'[v].seen.status = "queued"
          PROVE  task'[v].old
      <4>1. CASE v = t
        BY <1>1, <3>1, <3>2, <4>1 DEF ExecutorIsSeen, Row
      <4>2. CASE v # t
        BY <1>1, <3>1, <3>2, <4>2 DEF ExecutorIsSeen
      <4> QED BY <4>1, <4>2
    <3>3. Executes(u)' <=> Executes(u)
      BY <3>1 DEF Executes
    <3> QED BY <3>1, <3>2, <3>3 DEF ExecutorIsSeen, Row
  <2>2. ASSUME NEW u \in Thread, NEW v \in Thread, task'[u].step \in {"ok", "failed"},
               task'[v].step = "write"
        PROVE  ~task'[v].old
    <3>1. u # t /\ task'[u] = task[u]
      BY <1>1, <2>2 DEF Working
    <3> QED BY <1>1, <2>2, <3>1 DEF JobFacts, DataFits, CancelsFit
  <2> QED BY <2>1, <2>2 DEF JobFacts, DataFits, CancelsFit, CancelledNeverSucceeds
<1> QED BY <1>4, <1>5, <1>6, <1>7 DEF DataFits

LEMMA QuietStep ==
  ASSUME JobFacts, NEW t \in Thread, NEW new \in Tasks, task' = [task EXCEPT ![t] = new],
         UNCHANGED <<row, told, crossed, orphans, birth>>,
         \A u \in Thread \ {t} : loc'[u] = loc[u],
         gpu' = gpu \/ (gpu' = t /\ gpu = NoOne) \/ (gpu' = NoOne /\ gpu = t),
         InPlace(t)',
         task[t].step \notin Working, new.step \notin Working,
         \A j \in Job : row[j].status \in Unfinished /\ Carries(t, j) =>
             (new.job = j /\ new.step \in Carrying) \/ j \in new.todo,
         new.step = "write" => ~new.old /\ new.seen = row[new.job]
  PROVE  JobFacts'
<1>1. DataFits'
  BY NothingIsWritten
<1>2. /\ task' \in [Thread -> Tasks] /\ gpu' \in Thread \cup {NoOne}
      /\ \A u \in Thread : InPlace(u)'
  BY OthersStayInPlace
<1> QED BY <1>1, <1>2 DEF JobFacts, JobTypeOK

Begins(t, new) ==
    /\ task' = [task EXCEPT ![t] = new]
    /\ loc[t] = "idle" /\ loc' = [loc EXCEPT ![t] = "asking"]
    /\ UNCHANGED <<row, gpu, told, crossed, orphans, birth>>

LEMMA ArrivalsKeepFacts ==
  ASSUME JobFacts, GateTypeOK, NEW t \in Thread,
         \/ Dispatch(t) \/ BootResumes(t)
         \/ \E j \in Job, op \in {"submit", "cancel"} : Arrive(t, op, j)
  PROVE  JobFacts'
<1>1. /\ task \in [Thread -> Tasks] /\ task[t] \in Tasks /\ InPlace(t)
      /\ loc \in [Thread -> Locations]
  BY DEF JobFacts, JobTypeOK, GateTypeOK
<1>2. ASSUME NEW new \in Tasks, Begins(t, new), Home[t] = Main,
             new.step = "asked", new.todo = {}, ~new.old
      PROVE  JobFacts'
  <2>1. task[t].step = "none" /\ task[t].todo = {}
    BY <1>1, <1>2 DEF InPlace, Begins, Tasks, JobSteps, Outside, OnStage
  <2>2. task'[t] = new /\ loc'[t] = "asking"
    BY <1>1, <1>2 DEF Begins
  <2>3. InPlace(t)'
    BY <1>2, <2>2 DEF InPlace, Outside, OnStage
  <2>4. \A j \in Job : ~Carries(t, j)
    BY <2>1 DEF Carries, Carrying, Working
  <2>5. task[t].step \notin Working /\ new.step \notin Working /\ new.step # "write"
    BY <1>2, <2>1 DEF Working
  <2>6. \A u \in Thread \ {t} : loc'[u] = loc[u]
    BY <1>1, <1>2 DEF Begins
  <2> QED BY <1>2, <2>3, <2>4, <2>5, <2>6, QuietStep DEF Begins
<1>3. CASE Dispatch(t)
  <2> DEFINE new == [NoTask EXCEPT !.op = "scan", !.step = "asked", !.resumed = resumed]
  <2>1. new \in Tasks /\ new.step = "asked" /\ new.todo = {} /\ ~new.old
    BY NullTask DEF Tasks, Ops, JobSteps, GateTypeOK
  <2>2. Begins(t, new) /\ Home[t] = Main
    BY <1>3 DEF Dispatch, Begins, Ask, Idle, stillGate, processVars
  <2> HIDE DEF new
  <2> QED BY <1>2, <2>1, <2>2
<1>4. CASE BootResumes(t)
  <2> DEFINE new == [NoTask EXCEPT !.op = "resume", !.step = "asked"]
  <2>1. new \in Tasks /\ new.step = "asked" /\ new.todo = {} /\ ~new.old
    BY NullTask DEF Tasks, Ops, JobSteps
  <2>2. Begins(t, new) /\ Home[t] = Main
    BY <1>4 DEF BootResumes, Begins, Ask, Idle, stillGate, processVars
  <2> HIDE DEF new
  <2> QED BY <1>2, <2>1, <2>2
<1>5. ASSUME NEW j \in Job, NEW op \in {"submit", "cancel"}, Arrive(t, op, j) PROVE JobFacts'
  <2> DEFINE new == [NoTask EXCEPT !.op = op, !.step = "asked", !.job = j]
  <2>1. new \in Tasks /\ new.step = "asked" /\ new.todo = {} /\ ~new.old
    BY NullTask DEF Tasks, Ops, JobSteps
  <2>2. Begins(t, new) /\ Home[t] = Main
    BY <1>5 DEF Arrive, Begins, Ask, Idle, stillGate, processVars
  <2> HIDE DEF new
  <2> QED BY <1>2, <2>1, <2>2
<1> QED BY <1>3, <1>4, <1>5

LEMMA AnswersKeepFacts ==
  ASSUME JobFacts, GateTypeOK, NEW t \in Thread, Granted(t) \/ Refused(t)
  PROVE  JobFacts'
<1>1. /\ task \in [Thread -> Tasks] /\ task[t] \in Tasks /\ InPlace(t)
      /\ loc \in [Thread -> Locations]
  BY DEF JobFacts, JobTypeOK, GateTypeOK
<1>2. CASE Granted(t)
  <2> DEFINE next == IF task[t].step = "ask" THEN "begin"
                     ELSE IF task[t].op \in {"resume", "scan"} THEN "list" ELSE "read"
  <2> DEFINE new == [task[t] EXCEPT !.step = next, !.seen = NoRow]
  <2>1. /\ task[t].step \in {"asked", "ask"} /\ loc[t] \in {"asking", "asking inner"}
        /\ loc' = [loc EXCEPT ![t] = IF @ = "asking" THEN "working" ELSE "inner"]
        /\ UNCHANGED <<row, gpu, told, crossed, orphans, birth>>
    BY <1>2 DEF Granted, Admit, stillGate, processVars
  <2>2. task' = [task EXCEPT ![t] = new]
    BY <1>1, <1>2 DEF Granted, Step, Tasks
  <2>3. (task[t].step = "ask" /\ next = "begin") \/ (task[t].step = "asked" /\ next \in {"list", "read"})
    BY <2>1
  <2>4. /\ new \in Tasks /\ new.step = next /\ new.todo = task[t].todo /\ new.job = task[t].job
        /\ new.old = task[t].old
    BY <1>1, <2>3, NullTask DEF Tasks, JobSteps
  <2> HIDE DEF new, next
  <2>5. CASE task[t].step = "ask"
    <3>1. loc'[t] = "inner" /\ task'[t] = new /\ gpu' = t /\ Home[t] = Main /\ new.step = "begin" /\ ~new.old
      BY <1>1, <2>1, <2>2, <2>3, <2>4, <2>5 DEF InPlace
    <3>2. InPlace(t)'
      BY <3>1 DEF InPlace, Outside, OnStage
    <3>3. \A j \in Job : Carries(t, j) => (new.job = j /\ new.step \in Carrying) \/ j \in new.todo
      BY <2>4, <3>1 DEF Carries, Carrying
    <3> QED BY <1>1, <2>1, <2>2, <2>4, <2>5, <3>1, <3>2, <3>3, QuietStep DEF Working
  <2>6. CASE task[t].step = "asked"
    <3>1. /\ loc'[t] = "working" /\ task'[t] = new /\ Home[t] = Main /\ new.step \in {"list", "read"} /\ ~new.old
          /\ new.todo = {}
      BY <1>1, <2>1, <2>2, <2>3, <2>4, <2>6 DEF InPlace
    <3>2. InPlace(t)'
      BY <3>1 DEF InPlace, Outside, OnStage
    <3>3. \A j \in Job : ~Carries(t, j)
      BY <2>4, <2>6, <3>1 DEF Carries, Carrying, Working
    <3> QED BY <1>1, <2>1, <2>2, <2>4, <2>6, <3>1, <3>2, <3>3, QuietStep DEF Working
  <2> QED BY <2>1, <2>5, <2>6
<1>3. CASE Refused(t)
  <2>1. /\ task[t].step \in {"asked", "ask"} /\ loc[t] \in {"asking", "asking inner"}
        /\ loc' = [loc EXCEPT ![t] = IF @ = "asking" THEN "idle" ELSE "working"]
        /\ UNCHANGED <<row, gpu, told, crossed, orphans, birth>>
    BY <1>3 DEF Refused, Refuse, stillGate, processVars
  <2>2. CASE task[t].step = "ask"
    <3> DEFINE new == [task[t] EXCEPT !.step = "defer"]
    <3>1. /\ new \in Tasks /\ new.step = "defer" /\ new.todo = task[t].todo /\ new.job = task[t].job
          /\ new.old = task[t].old
      BY <1>1 DEF Tasks, JobSteps
    <3>2. task' = [task EXCEPT ![t] = new]
      BY <1>3, <2>2 DEF Refused
    <3> HIDE DEF new
    <3>3. loc'[t] = "working" /\ task'[t] = new /\ Home[t] = Main /\ ~new.old
      BY <1>1, <2>1, <2>2, <3>1, <3>2 DEF InPlace
    <3>4. InPlace(t)'
      BY <3>1, <3>3 DEF InPlace, Outside, OnStage
    <3>5. \A j \in Job : Carries(t, j) => (new.job = j /\ new.step \in Carrying) \/ j \in new.todo
      BY <3>1 DEF Carries, Carrying
    <3> QED BY <1>1, <2>1, <2>2, <3>1, <3>2, <3>4, <3>5, QuietStep DEF Working
  <2>3. CASE task[t].step = "asked"
    <3>1. task' = [task EXCEPT ![t] = NoTask]
      BY <1>3, <2>3 DEF Refused
    <3>2. task'[t] = NoTask /\ task[t].todo = {}
      BY <1>1, <2>3, <3>1 DEF InPlace
    <3>3. InPlace(t)'
      BY <3>2, NullTask DEF InPlace, Outside, OnStage
    <3>4. \A j \in Job : ~Carries(t, j)
      BY <2>3, <3>2 DEF Carries, Carrying, Working
    <3> QED BY <1>1, <2>1, <2>3, <3>1, <3>3, <3>4, NullTask, QuietStep DEF Working
  <2> QED BY <2>1, <2>2, <2>3
<1> QED BY <1>2, <1>3

\* Steps of admitted work that stay where they are in the gate.
LEMMA WorkKeepsFacts ==
  ASSUME JobFacts, GateTypeOK, NEW t \in Thread,
         \/ Reads(t) \/ Checks(t) \/ TakesGpu(t)
         \/ \E found \in BOOLEAN : ListsJobs(t, found)
         \/ \E j \in Job : TakesNext(t, j)
  PROVE  JobFacts'
<1>1. /\ task \in [Thread -> Tasks] /\ task[t] \in Tasks /\ InPlace(t)
      /\ loc \in [Thread -> Locations] /\ row \in [Job -> Rows]
  BY DEF JobFacts, JobTypeOK, GateTypeOK
<1>2. ASSUME NEW new \in Tasks, task' = [task EXCEPT ![t] = new],
             UNCHANGED <<row, told, crossed, orphans, birth, loc>>,
             gpu' = gpu \/ (gpu' = t /\ gpu = NoOne),
             Home[t] = Main, loc[t] = "working",
             task[t].step \in Outside,
             new.step \in {"write", "done", "check", "defer", "gpu", "ask"}, ~new.old,
             new.step = "ask" => gpu' = t,
             new.step = "write" => new.todo = {} /\ new.seen = row[new.job],
             \A j \in Job : Carries(t, j) => (new.job = j /\ new.step \in Carrying) \/ j \in new.todo
      PROVE  JobFacts'
  <2>1. task'[t] = new
    BY <1>1, <1>2
  <2>2. InPlace(t)'
    BY <1>2, <2>1 DEF InPlace, Outside, OnStage
  <2>3. task[t].step \notin Working /\ new.step \notin Working
    BY <1>2 DEF Outside, Working
  <2> QED BY <1>2, <2>2, <2>3, QuietStep
<1>3. CASE Reads(t)
  <2> DEFINE new == [task[t] EXCEPT !.seen = Row(t), !.step = "write"]
  <2>1. /\ new \in Tasks /\ new.step = "write" /\ new.todo = task[t].todo /\ new.job = task[t].job
        /\ new.old = task[t].old /\ new.seen = row[new.job]
    BY <1>1 DEF Tasks, JobSteps, Row
  <2>2. task' = [task EXCEPT ![t] = new]
    BY <1>1, <1>3 DEF Reads, Tasks
  <2>3. /\ UNCHANGED <<row, told, crossed, orphans, birth, loc, gpu>> /\ task[t].step = "read"
        /\ Home[t] = Main /\ loc[t] = "working"
    BY <1>3 DEF Reads, Still, Work, gateVars
  <2> HIDE DEF new
  <2>4. task[t].todo = {} /\ ~task[t].old /\ task[t].step \notin Carrying
    BY <1>1, <2>3 DEF InPlace, Carrying, Working
  <2> QED BY <1>2, <2>1, <2>2, <2>3, <2>4 DEF Carries, Outside
<1>4. CASE Checks(t)
  <2> DEFINE new == [task[t] EXCEPT !.step = IF request # 0 THEN "defer" ELSE "gpu", !.seen = NoRow]
  <2>1. /\ new \in Tasks /\ new.step \in {"defer", "gpu"} /\ new.todo = task[t].todo /\ new.job = task[t].job
        /\ new.old = task[t].old
    BY <1>1, NullTask DEF Tasks, JobSteps
  <2>2. task' = [task EXCEPT ![t] = new]
    BY <1>1, <1>4 DEF Checks, Step, Tasks
  <2>3. /\ UNCHANGED <<row, told, crossed, orphans, birth, loc, gpu>> /\ task[t].step = "check"
        /\ Home[t] = Main /\ loc[t] = "working"
    BY <1>4 DEF Checks, Still, Work, gateVars
  <2> HIDE DEF new
  <2>4. ~task[t].old
    BY <1>1, <2>3 DEF InPlace
  <2>5. \A j \in Job : Carries(t, j) => (new.job = j /\ new.step \in Carrying) \/ j \in new.todo
    BY <2>1 DEF Carries, Carrying
  <2> QED BY <1>2, <2>1, <2>2, <2>3, <2>4, <2>5 DEF Outside
<1>5. CASE TakesGpu(t)
  <2> DEFINE new == [task[t] EXCEPT !.step = "ask", !.seen = NoRow]
  <2>1. /\ new \in Tasks /\ new.step = "ask" /\ new.todo = task[t].todo /\ new.job = task[t].job
        /\ new.old = task[t].old
    BY <1>1, NullTask DEF Tasks, JobSteps
  <2>2. task' = [task EXCEPT ![t] = new]
    BY <1>1, <1>5 DEF TakesGpu, Step, Tasks
  <2>3. /\ UNCHANGED <<row, told, crossed, orphans, birth, loc>> /\ task[t].step = "gpu"
        /\ gpu = NoOne /\ gpu' = t /\ Home[t] = Main /\ loc[t] = "working"
    BY <1>5 DEF TakesGpu, Work, gateVars
  <2> HIDE DEF new
  <2>4. ~task[t].old
    BY <1>1, <2>3 DEF InPlace
  <2>5. \A j \in Job : Carries(t, j) => (new.job = j /\ new.step \in Carrying) \/ j \in new.todo
    BY <2>1 DEF Carries, Carrying
  <2> QED BY <1>2, <2>1, <2>2, <2>3, <2>4, <2>5 DEF Outside
<1>6. ASSUME NEW found \in BOOLEAN, ListsJobs(t, found) PROVE JobFacts'
  <2> DEFINE all == {j \in Job : row[j].status \in Unfinished
                                   /\ (task[t].op = "scan" => row[j].deferred)}
  <2> DEFINE list == IF found THEN all ELSE {}
  <2> DEFINE new == [task[t] EXCEPT !.step = "done", !.todo = list]
  <2>1. list \in SUBSET Job
    OBVIOUS
  <2>2. task' = [task EXCEPT ![t].step = "done", ![t].todo = list]
    BY <1>6, Zenon DEF ListsJobs
  <2> HIDE DEF list
  <2>3. new \in Tasks /\ new.step = "done" /\ new.old = task[t].old
    BY <1>1, <2>1 DEF Tasks, JobSteps
  <2>6. task' = [task EXCEPT ![t] = new]
    BY <1>1, <2>2 DEF Tasks
  <2>4. /\ UNCHANGED <<row, told, crossed, orphans, birth, loc, gpu>> /\ task[t].step = "list"
        /\ Home[t] = Main /\ loc[t] = "working"
    BY <1>6 DEF ListsJobs, Work, gateVars
  <2> HIDE DEF new
  <2>5. task[t].todo = {} /\ ~task[t].old /\ task[t].step \notin Carrying
    BY <1>1, <2>4 DEF InPlace, Carrying, Working
  <2>7. new.step \in {"write", "done", "check", "defer", "gpu", "ask"} /\ task[t].step \in Outside
    BY <2>3, <2>4 DEF Outside
  <2>8. \A j \in Job : ~Carries(t, j)
    BY <2>5 DEF Carries
  <2>9. new.step # "write" /\ new.step # "ask" /\ ~new.old
    BY <2>3, <2>5
  <2> QED BY <1>2, <2>3, <2>4, <2>6, <2>7, <2>8, <2>9
<1>7. ASSUME NEW j \in Job, TakesNext(t, j) PROVE JobFacts'
  <2> DEFINE new == [task[t] EXCEPT !.step = "check", !.job = j, !.todo = @ \ {j}]
  <2>1. /\ new \in Tasks /\ new.step = "check" /\ new.todo = task[t].todo \ {j} /\ new.job = j
        /\ new.old = task[t].old
    BY <1>1 DEF Tasks, JobSteps
  <2>2. task' = [task EXCEPT ![t] = new]
    BY <1>1, <1>7 DEF TakesNext, Tasks
  <2>3. /\ UNCHANGED <<row, told, crossed, orphans, birth, loc, gpu>> /\ task[t].step = "done"
        /\ Home[t] = Main /\ loc[t] = "working"
    BY <1>7 DEF TakesNext, Still, Work, gateVars
  <2> HIDE DEF new
  <2>4. ~task[t].old
    BY <1>1, <2>3 DEF InPlace
  <2>5. \A i \in Job : Carries(t, i) => (new.job = i /\ new.step \in Carrying) \/ i \in new.todo
    BY <2>1, <2>3 DEF Carries, Carrying, Working
  <2> QED BY <1>2, <2>1, <2>2, <2>3, <2>4, <2>5 DEF Outside
<1> QED BY <1>3, <1>4, <1>5, <1>6, <1>7

LEMMA LeavesKeepFacts ==
  ASSUME JobFacts, GateTypeOK, NEW t \in Thread, ReleasesStage(t) \/ Returns(t)
  PROVE  JobFacts'
<1>1. /\ task \in [Thread -> Tasks] /\ task[t] \in Tasks /\ InPlace(t)
      /\ loc \in [Thread -> Locations]
  BY DEF JobFacts, JobTypeOK, GateTypeOK
<1>2. CASE ReleasesStage(t)
  <2> DEFINE new == [task[t] EXCEPT !.step = "done", !.seen = NoRow]
  <2>1. /\ new \in Tasks /\ new.step = "done" /\ new.todo = task[t].todo /\ new.old = task[t].old
    BY <1>1, NullTask DEF Tasks, JobSteps
  <2>2. task' = [task EXCEPT ![t] = new]
    BY <1>1, <1>2 DEF ReleasesStage, Step, Tasks
  <2>3. /\ UNCHANGED <<row, told, crossed, orphans, birth>> /\ task[t].step = "end"
        /\ gpu' = NoOne /\ loc' = [loc EXCEPT ![t] = "working"]
    BY <1>2 DEF ReleasesStage, CloseInner, stillGate, processVars
  <2> HIDE DEF new
  <2>4. ~task[t].old /\ gpu = t /\ Home[t] = Main /\ task'[t] = new /\ loc'[t] = "working"
    BY <1>1, <2>2, <2>3 DEF InPlace, OnStage
  <2>5. InPlace(t)'
    BY <2>1, <2>4 DEF InPlace, Outside, OnStage
  <2>6. \A j \in Job : Carries(t, j) => j \in new.todo
    BY <2>1, <2>3 DEF Carries, Carrying, Working
  <2> QED BY <1>1, <2>1, <2>2, <2>3, <2>4, <2>5, <2>6, QuietStep DEF Working
<1>3. CASE Returns(t)
  <2>1. /\ task' = [task EXCEPT ![t] = NoTask] /\ task[t].step = "done" /\ task[t].todo = {}
        /\ UNCHANGED <<row, told, crossed, orphans, birth, gpu>>
        /\ loc' = [loc EXCEPT ![t] = IF kind[t] = "future" THEN "callback" ELSE "idle"]
    BY <1>3 DEF Returns, Finish, stillGate, processVars
  <2>2. task'[t] = NoTask
    BY <1>1, <2>1
  <2>3. InPlace(t)'
    BY <2>2, NullTask DEF InPlace, Outside, OnStage
  <2>4. \A j \in Job : ~Carries(t, j)
    BY <2>1 DEF Carries, Carrying, Working
  <2> QED BY <1>1, <2>1, <2>3, <2>4, NullTask, QuietStep DEF Working
<1> QED BY <1>2, <1>3

----------------------------------------------------------------------------
(* The row of a job is written.                                            *)

\* What a step on the row of one job leaves of the other rows and threads.
LEMMA OneRowMoves ==
  ASSUME JobFacts, NEW t \in Thread, NEW new \in Tasks, task' = [task EXCEPT ![t] = new],
         NEW r \in Rows, row' = [row EXCEPT ![task[t].job] = r],
         \A u \in Thread \ {t} : loc'[u] = loc[u],
         gpu' = gpu \/ (gpu' = t /\ gpu = NoOne) \/ (gpu' = NoOne /\ gpu = t),
         InPlace(t)',
         told' \in SUBSET Job, crossed' \in SUBSET Job, orphans' \in SUBSET Job
  PROVE  /\ JobTypeOK' /\ \A u \in Thread : InPlace(u)'
         /\ task'[t] = new /\ \A u \in Thread \ {t} : task'[u] = task[u]
         /\ task[t].job \in Job
         /\ row'[task[t].job] = r /\ \A j \in Job \ {task[t].job} : row'[j] = row[j]
<1>1. task \in [Thread -> Tasks] /\ row \in [Job -> Rows]
  BY DEF JobFacts, JobTypeOK
<1>2. task[t].job \in Job
  BY <1>1 DEF Tasks
<1>3. /\ task' \in [Thread -> Tasks] /\ gpu' \in Thread \cup {NoOne}
      /\ \A u \in Thread : InPlace(u)'
  BY OthersStayInPlace
<1>4. row' \in [Job -> Rows]
  BY <1>1, <1>2
<1> QED BY <1>1, <1>2, <1>3, <1>4 DEF JobTypeOK

LEMMA SubmitKeepsFacts ==
  ASSUME JobFacts, GateTypeOK, NEW t \in Thread, NEW outdated \in BOOLEAN, SubmitWrites(t, outdated)
  PROVE  JobFacts'
<1> DEFINE j == task[t].job
<1>1. /\ task \in [Thread -> Tasks] /\ task[t] \in Tasks /\ InPlace(t) /\ row \in [Job -> Rows]
      /\ loc \in [Thread -> Locations] /\ j \in Job /\ row[j] \in Rows
      /\ told \in SUBSET Job /\ crossed \in SUBSET Job /\ orphans \in SUBSET Job
  BY DEF JobFacts, JobTypeOK, GateTypeOK, Tasks
<1>2. /\ task[t].step = "write" /\ Home[t] = Main /\ loc[t] = "working"
      /\ UNCHANGED <<birth, loc, gpu>>
  BY DEF SubmitWrites, Still, Work, At, gateVars
<1>3. task[t].todo = {} /\ task[t].step \notin Carrying /\ task[t].step \notin Working
  BY <1>1, <1>2 DEF InPlace, Carrying, Working
<1>4. \A i \in Job : ~Carries(t, i)
  BY <1>3 DEF Carries
<1> DEFINE fresh == task[t].seen.status = "none" /\ Row(t).status = "none"
<1> DEFINE again == Resubmits(task[t].seen, outdated)
<1>5. CASE ~fresh /\ ~again
  <2> DEFINE new == [NoTask EXCEPT !.step = "done"]
  <2>1. new \in Tasks /\ new.step = "done" /\ new.todo = {} /\ ~new.old
    BY NullTask DEF Tasks, JobSteps
  <2>2. task' = [task EXCEPT ![t] = new] /\ UNCHANGED <<row, told, crossed, orphans>>
    BY <1>5 DEF SubmitWrites
  <2> HIDE DEF new
  <2>3. InPlace(t)'
    BY <1>1, <1>2, <2>1, <2>2 DEF InPlace, Outside, OnStage
  <2> QED BY <1>2, <1>3, <1>4, <2>1, <2>2, <2>3, QuietStep DEF Working
<1>6. CASE fresh \/ again
  <2> DEFINE r == IF fresh THEN [NoRow EXCEPT !.status = "queued", !.inputs = TRUE]
                  ELSE Requeued(row[j], task[t].seen)
  <2> DEFINE new == [NoTask EXCEPT !.op = "execute", !.step = "check", !.job = j]
  <2>1. r \in Rows /\ r.status = "queued" /\ r.inputs /\ r.runs = 0
    <3>1. /\ [NoRow EXCEPT !.status = "queued", !.inputs = TRUE] \in Rows
          /\ [NoRow EXCEPT !.status = "queued", !.inputs = TRUE].status = "queued"
          /\ [NoRow EXCEPT !.status = "queued", !.inputs = TRUE].inputs
          /\ [NoRow EXCEPT !.status = "queued", !.inputs = TRUE].runs = 0
      BY DEF NoRow, Rows
    <3>2. LET q == Requeued(row[j], task[t].seen)
          IN  q \in Rows /\ q.status = "queued" /\ q.inputs /\ q.runs = 0
      BY <1>1 DEF Requeued, Rows
    <3> QED BY <3>1, <3>2
  <2>2. new \in Tasks /\ new.step = "check" /\ new.todo = {} /\ new.job = j /\ ~new.old
    BY <1>1, NullTask DEF Tasks, JobSteps, Ops
  <2>3. /\ task' = [task EXCEPT ![t] = new] /\ row' = [row EXCEPT ![j] = r]
        /\ told' = told \ {j} /\ crossed' = (crossed \ {j}) \cup (InHand \cap {j})
        /\ orphans' = orphans \ {j}
    BY <1>6 DEF SubmitWrites, SetRow, Row
  <2> HIDE DEF r, new, fresh, again
  <2>4. task'[t] = new
    BY <1>1, <2>3
  <2>5. InPlace(t)'
    BY <1>2, <2>2, <2>4 DEF InPlace, Outside, OnStage
  <2>6. told' \in SUBSET Job /\ crossed' \in SUBSET Job /\ orphans' \in SUBSET Job
    BY <1>1, <2>3
  <2>7. /\ JobTypeOK' /\ \A u \in Thread : InPlace(u)'
        /\ \A u \in Thread \ {t} : task'[u] = task[u]
        /\ row'[j] = r /\ \A i \in Job \ {j} : row'[i] = row[i]
    <3>1. \A u \in Thread \ {t} : loc'[u] = loc[u]
      BY <1>2
    <3>2. gpu' = gpu
      BY <1>2
    <3> QED BY <2>1, <2>2, <2>3, <2>5, <2>6, <3>1, <3>2, OneRowMoves
  <2>8. InputsFit'
    <3>1. InputsAreKept'
      BY <2>1, <2>7 DEF JobFacts, DataFits, InputsFit, InputsAreKept
    <3>2. ASSUME NEW u \in Thread, task'[u].step = "start" PROVE (Row(u).inputs \/ Row(u).cancel)'
      <4>1. u # t /\ task'[u] = task[u] /\ task[u].job \in Job
        BY <1>1, <2>2, <2>4, <2>7, <3>2 DEF Tasks
      <4> QED BY <2>1, <2>7, <3>2, <4>1 DEF JobFacts, DataFits, InputsFit, Row
    <3> QED BY <3>1, <3>2 DEF InputsFit
  <2>9. RunsFit'
    <3>1. 0 < birth[Main] /\ birth[Main] \in Nat
      BY WorkerConstants DEF JobFacts, DataFits, RunsFit, GateTypeOK
    <3>2. \A i \in Job : row'[i].runs <= birth[Main]
      BY <2>1, <2>7, <3>1 DEF JobFacts, DataFits, RunsFit, RunsOncePerLife
    <3>3. \A u \in Thread : task'[u].step = "start" => task'[u].seen.runs < birth[Main]
      BY <2>2, <2>4, <2>7 DEF JobFacts, DataFits, RunsFit
    <3>4. ASSUME NEW i \in Job, row'[i].status \in Unfinished
          PROVE  row'[i].runs < birth[Main] \/ \E u \in Thread : Executes(u)' /\ task'[u].job = i
      <4>1. CASE i = j
        BY <2>1, <2>7, <3>1, <4>1
      <4>2. CASE i # j
        <5>1. row'[i] = row[i]
          BY <2>7, <4>2
        <5>2. \A u \in Thread : Executes(u) => u # t
          BY <1>3 DEF Executes, Working
        <5> QED BY <2>7, <3>4, <5>1, <5>2 DEF JobFacts, DataFits, RunsFit, Executes
      <4> QED BY <4>1, <4>2
    <3> QED BY <1>2, <3>1, <3>2, <3>3, <3>4 DEF RunsFit, RunsOncePerLife
  <2>10. Carried'
    <3>1. \A i \in Job : i = j => Carries(t, i)'
      BY <2>2, <2>4 DEF Carries, Carrying
    <3>2. ASSUME NEW i \in Job, i # j, row'[i].status \in Unfinished
          PROVE  row'[i].deferred \/ i \in orphans' \/ \E u \in Thread : Carries(u, i)'
      <4>1. row'[i] = row[i]
        BY <2>7, <3>2
      <4>2. \A u \in Thread : Carries(u, i) => Carries(u, i)'
        BY <1>4, <2>7 DEF Carries
      <4>3. row[i].deferred \/ i \in orphans \/ \E u \in Thread : Carries(u, i)
        BY <3>2, <4>1 DEF JobFacts, DataFits, Carried
      <4>4. i \in orphans => i \in orphans'
        BY <2>3, <3>2
      <4>5. CASE row[i].deferred
        BY <4>1, <4>5
      <4>6. CASE i \in orphans
        BY <4>4, <4>6
      <4>7. CASE \E u \in Thread : Carries(u, i)
        BY <4>2, <4>7
      <4> QED BY <4>3, <4>5, <4>6, <4>7
    <3> QED BY <3>1, <3>2 DEF Carried
  <2>11. CancelsFit'
    <3>1. ASSUME NEW u \in Thread, Works(u)', task'[u].job \notin crossed' PROVE ExecutorIsSeen(u)'
      <4>1. u # t /\ task'[u] = task[u] /\ Works(u) /\ task[u].job \in Job
        BY <1>1, <2>2, <2>4, <2>7, <3>1 DEF Works, Working, Tasks
      <4>2. task[u].job # j
        BY <2>3, <3>1, <4>1 DEF InHand, Works, Working
      <4>3. task[u].job \notin crossed /\ row'[task[u].job] = row[task[u].job]
        BY <2>3, <2>7, <3>1, <4>1, <4>2
      <4>4. ExecutorIsSeen(u)
        BY <4>1, <4>3 DEF JobFacts, DataFits, CancelsFit
      <4>5. ASSUME Executes(u), NEW v \in Thread, task'[v].job = task[u].job, task'[v].step = "write",
                   task'[v].seen.status = "queued"
            PROVE  task'[v].old
        <5>1. v # t /\ task'[v] = task[v]
          BY <2>2, <2>4, <2>7, <4>5
        <5> QED BY <4>4, <4>5, <5>1 DEF ExecutorIsSeen
      <4> QED BY <2>3, <4>1, <4>3, <4>4, <4>5 DEF ExecutorIsSeen, Row, Executes
    <3>2. \A u, v \in Thread : task'[u].step \in {"ok", "failed"} /\ task'[v].step = "write" => ~task'[v].old
      BY <2>2, <2>4, <2>7 DEF JobFacts, DataFits, CancelsFit
    <3>3. \A i \in told' : row'[i].cancel /\ (i \notin crossed' => row'[i].status # "succeeded")
      BY <1>1, <2>3, <2>7 DEF JobFacts, DataFits, CancelsFit, CancelledNeverSucceeds
    <3> QED BY <3>1, <3>2, <3>3 DEF CancelsFit, CancelledNeverSucceeds
  <2> QED BY <2>7, <2>8, <2>9, <2>10, <2>11 DEF JobFacts, DataFits
<1> QED BY <1>5, <1>6

\* A step of a thread that has no row in hand, which may mark a row as deferred,
\* as cancelled, or as to be cancelled.
LEMMA MarksKeepFacts ==
  ASSUME JobFacts, GateTypeOK, NEW t \in Thread, CancelWrites(t) \/ Defers(t)
  PROVE  JobFacts'
<1> DEFINE j == task[t].job
<1>1. /\ task \in [Thread -> Tasks] /\ task[t] \in Tasks /\ InPlace(t) /\ row \in [Job -> Rows]
      /\ loc \in [Thread -> Locations] /\ j \in Job /\ row[j] \in Rows
      /\ told \in SUBSET Job /\ crossed \in SUBSET Job /\ orphans \in SUBSET Job
      /\ gpu \in Thread \cup {NoOne} /\ birth[Main] \in Nat
  BY WorkerConstants DEF JobFacts, JobTypeOK, GateTypeOK, Tasks
<1>2. task[t].step \in {"write", "defer"} /\ task[t].step \notin Working
  BY DEF CancelWrites, Defers, At, Working
<1>3. ASSUME NEW new \in Tasks, task' = [task EXCEPT ![t] = new],
             new.step = "done", ~new.old, new.todo = task[t].todo,
             NEW r \in Rows, row' = [row EXCEPT ![j] = r],
             r.runs = row[j].runs, row[j].cancel => r.cancel,
             r.inputs = row[j].inputs \/ r.cancel,
             r.status \in {row[j].status, "cancelled"},
             task[t].step = "write" => orphans' = orphans /\ r.deferred = row[j].deferred,
             task[t].step = "defer" => orphans' = orphans \ {j} /\ (r.status \in Unfinished => r.deferred),
             \/ told' = told
             \/ /\ told' = told \cup {j} /\ r.cancel /\ r.status = "cancelled"
                /\ task[t].step = "write" /\ task[t].seen.status = "queued",
             UNCHANGED <<crossed, birth, loc>>, Home[t] = Main, loc[t] = "working",
             gpu' = gpu \/ (gpu' = NoOne /\ gpu = t)
      PROVE  JobFacts'
  <2>1. task'[t] = new
    BY <1>1, <1>3
  <2>2. InPlace(t)'
    BY <1>3, <2>1 DEF InPlace, Outside, OnStage
  <2>3. told' \in SUBSET Job /\ crossed' \in SUBSET Job /\ orphans' \in SUBSET Job
    BY <1>1, <1>2, <1>3
  <2>4. /\ JobTypeOK' /\ \A u \in Thread : InPlace(u)'
        /\ \A u \in Thread \ {t} : task'[u] = task[u]
        /\ row'[j] = r /\ \A i \in Job \ {j} : row'[i] = row[i]
    <3>1. \A u \in Thread \ {t} : loc'[u] = loc[u]
      BY <1>3
    <3>2. gpu' = gpu \/ (gpu' = t /\ gpu = NoOne) \/ (gpu' = NoOne /\ gpu = t)
      BY <1>3
    <3>3. /\ task' = [task EXCEPT ![t] = new] /\ row' = [row EXCEPT ![task[t].job] = r]
          /\ new \in Tasks /\ r \in Rows
      BY <1>3
    <3> QED BY <2>2, <2>3, <3>1, <3>2, <3>3, OneRowMoves
  <2>5. /\ \A i \in Job : row'[i].status \in {row[i].status, "cancelled"} /\ row'[i].runs = row[i].runs
        /\ \A i \in Job : (row[i].cancel => row'[i].cancel) /\ (row'[i].inputs = row[i].inputs \/ row'[i].cancel)
    BY <1>3, <2>4
  <2>6. \A i \in Job : row'[i].status \in Unfinished => row[i].status \in Unfinished
    BY <2>5 DEF Unfinished
  <2>7. \A u \in Thread : Works(u)' \/ Works(u) => u # t /\ task'[u] = task[u] /\ task[u].job \in Job
    BY <1>1, <1>2, <1>3, <2>1, <2>4 DEF Works, Working, Tasks
  <2>8. InputsFit'
    <3>1. InputsAreKept'
      BY <2>5, <2>6 DEF JobFacts, DataFits, InputsFit, InputsAreKept
    <3>2. ASSUME NEW u \in Thread, task'[u].step = "start" PROVE (Row(u).inputs \/ Row(u).cancel)'
      BY <2>5, <2>7, <3>2 DEF JobFacts, DataFits, InputsFit, Row, Works, Working
    <3> QED BY <3>1, <3>2 DEF InputsFit
  <2>9. RunsFit'
    <3>1. \A u \in Thread : Executes(u) => Executes(u)' /\ task'[u].job = task[u].job
      BY <2>7 DEF Executes, Works, Working
    <3>2. \A u \in Thread : task'[u].step = "start" => task'[u].seen.runs < birth[Main]
      BY <2>7 DEF JobFacts, DataFits, RunsFit, Works, Working
    <3>3. ASSUME NEW i \in Job, row'[i].status \in Unfinished
          PROVE  row'[i].runs < birth[Main] \/ \E u \in Thread : Executes(u)' /\ task'[u].job = i
      BY <2>5, <2>6, <3>1, <3>3 DEF JobFacts, DataFits, RunsFit
    <3>4. \A i \in Job : row'[i].runs <= birth[Main]
      BY <2>5 DEF JobFacts, DataFits, RunsFit, RunsOncePerLife
    <3> QED BY <1>3, <3>2, <3>3, <3>4 DEF JobFacts, DataFits, RunsFit, RunsOncePerLife
  <2>10. Carried'
    <3>1. ASSUME NEW i \in Job, row'[i].status \in Unfinished
          PROVE  row'[i].deferred \/ i \in orphans' \/ \E u \in Thread : Carries(u, i)'
      <4>1. row[i].deferred \/ i \in orphans \/ \E u \in Thread : Carries(u, i)
        BY <2>6, <3>1 DEF JobFacts, DataFits, Carried
      <4>2. \A u \in Thread : Carries(u, i) => Carries(u, i)' \/ (u = t /\ i = j /\ task[t].step = "defer")
        BY <1>2, <1>3, <2>1, <2>4 DEF Carries, Carrying, Working
      <4>3. CASE i = j /\ task[t].step = "defer"
        BY <1>3, <2>4, <3>1, <4>3
      <4>4. CASE i = j /\ task[t].step = "write"
        BY <1>3, <2>4, <4>1, <4>2, <4>4
      <4>5. CASE i # j
        <5>1. row'[i] = row[i] /\ (i \in orphans => i \in orphans')
          BY <1>2, <1>3, <2>4, <4>5
        <5> QED BY <4>1, <4>2, <4>5, <5>1
      <4> QED BY <1>2, <4>3, <4>4, <4>5
    <3> QED BY <3>1 DEF Carried
  <2>11. CancelsFit'
    <3>1. ASSUME NEW u \in Thread, Works(u)', task'[u].job \notin crossed' PROVE ExecutorIsSeen(u)'
      <4>1. u # t /\ task'[u] = task[u] /\ Works(u) /\ task[u].job \in Job /\ task[u].job \notin crossed
        BY <1>3, <2>7, <3>1 DEF Works
      <4>2. ExecutorIsSeen(u)
        BY <4>1 DEF JobFacts, DataFits, CancelsFit
      <4>3. row'[task[u].job].status \in {row[task[u].job].status, "cancelled"}
        BY <2>5, <4>1
      <4>4. ASSUME task[u].step = "ok", task[u].job \in told' PROVE task[u].seen.cancel
        <5>1. CASE task[u].job \in told
          BY <4>2, <4>4, <5>1 DEF ExecutorIsSeen
        <5>2. CASE task[u].job \notin told
          <6>1. task[u].job = j /\ task[t].step = "write" /\ task[t].seen.status = "queued"
            BY <1>3, <4>4, <5>2
          <6>2. task[t].old
            BY <4>2, <4>4, <6>1 DEF ExecutorIsSeen, Executes
          <6>3. ~task[t].old
            BY <4>4, <6>1 DEF JobFacts, DataFits, CancelsFit
          <6> QED BY <6>2, <6>3
        <5> QED BY <5>1, <5>2
      <4>5. ASSUME Executes(u), NEW v \in Thread, task'[v].job = task[u].job, task'[v].step = "write",
                   task'[v].seen.status = "queued"
            PROVE  task'[v].old
        <5>1. v # t /\ task'[v] = task[v]
          BY <1>3, <2>1, <2>4, <4>5
        <5> QED BY <4>2, <4>5, <5>1 DEF ExecutorIsSeen
      <4> QED BY <4>1, <4>2, <4>3, <4>4, <4>5 DEF ExecutorIsSeen, Row, Executes
    <3>2. \A u, v \in Thread : task'[u].step \in {"ok", "failed"} /\ task'[v].step = "write" => ~task'[v].old
      BY <1>3, <2>1, <2>4 DEF JobFacts, DataFits, CancelsFit
    <3>3. \A i \in told' : row'[i].cancel
      BY <1>1, <1>3, <2>4, <2>5 DEF JobFacts, DataFits, CancelsFit
    <3>4. \A i \in told' \ crossed' : row'[i].status # "succeeded"
      <4>1. ASSUME NEW i \in told' \ crossed', i \in told PROVE row'[i].status # "succeeded"
        BY <1>1, <1>3, <2>5, <4>1 DEF JobFacts, DataFits, CancelsFit, CancelledNeverSucceeds
      <4> QED BY <1>3, <2>4, <4>1
    <3> QED BY <3>1, <3>2, <3>3, <3>4 DEF CancelsFit, CancelledNeverSucceeds
  <2> QED BY <2>4, <2>8, <2>9, <2>10, <2>11 DEF JobFacts, DataFits
<1>4. CASE CancelWrites(t)
  <2> DEFINE seen == task[t].seen
  <2> DEFINE marked == IF seen.status \in Unfinished THEN [row[j] EXCEPT !.cancel = TRUE] ELSE row[j]
  <2> DEFINE r == IF seen.status = "queued" THEN [marked EXCEPT !.status = "cancelled", !.inputs = FALSE] ELSE marked
  <2> DEFINE new == [NoTask EXCEPT !.step = "done"]
  <2>1. new \in Tasks /\ new.step = "done" /\ new.todo = {} /\ ~new.old
    BY NullTask DEF Tasks, JobSteps
  <2>2. /\ task' = [task EXCEPT ![t] = new] /\ row' = [row EXCEPT ![j] = r]
        /\ told' = IF seen.status = "queued" THEN told \cup {j} ELSE told
        /\ UNCHANGED <<crossed, orphans, birth, loc, gpu>> /\ task[t].step = "write"
        /\ Home[t] = Main /\ loc[t] = "working"
    BY <1>4 DEF CancelWrites, SetRow, Row, Still, Work, At, gateVars
  <2>3. /\ r \in Rows /\ r.runs = row[j].runs /\ (row[j].cancel => r.cancel) /\ r.deferred = row[j].deferred
        /\ (r.inputs = row[j].inputs \/ r.cancel) /\ r.status \in {row[j].status, "cancelled"}
        /\ (seen.status = "queued" => r.cancel /\ r.status = "cancelled")
    BY <1>1 DEF Rows, Unfinished
  <2>4. task[t].todo = {}
    BY <1>1, <2>2 DEF InPlace
  <2> HIDE DEF r, new
  <2> QED BY <1>3, <2>1, <2>2, <2>3, <2>4
<1>5. CASE Defers(t)
  <2> DEFINE r == Deferred(row[j])
  <2> DEFINE new == [task[t] EXCEPT !.step = "done", !.seen = NoRow]
  <2>1. /\ new \in Tasks /\ new.step = "done" /\ new.todo = task[t].todo /\ new.old = task[t].old
    BY <1>1, NullTask DEF Tasks, JobSteps
  <2>2. task' = [task EXCEPT ![t] = new]
    BY <1>1, <1>5 DEF Defers, Step, Tasks
  <2>3. /\ row' = [row EXCEPT ![j] = r] /\ orphans' = orphans \ {j}
        /\ UNCHANGED <<told, crossed, birth, loc>> /\ task[t].step = "defer"
        /\ gpu' = IF gpu = t THEN NoOne ELSE gpu
        /\ Home[t] = Main /\ loc[t] = "working"
    BY <1>5 DEF Defers, SetRow, Row, Work, gateVars
  <2>4. /\ r \in Rows /\ r.runs = row[j].runs /\ r.cancel = row[j].cancel /\ r.inputs = row[j].inputs
        /\ r.status = row[j].status /\ (r.status \in Unfinished => r.deferred)
    BY <1>1 DEF Rows, Deferred
  <2>5. ~task[t].old
    BY <1>1, <2>3 DEF InPlace
  <2> HIDE DEF r, new
  <2> QED BY <1>3, <2>1, <2>2, <2>3, <2>4, <2>5
<1> QED BY <1>4, <1>5

----------------------------------------------------------------------------
(* The executor, who has the GPU for itself.                               *)

LEMMA OneExecutor ==
  ASSUME JobFacts, NEW t \in Thread, gpu = t
  PROVE  \A u \in Thread : Works(u) \/ Executes(u) => u = t
<1>1. \A u \in Thread : InPlace(u)
  BY DEF JobFacts
<1> QED BY <1>1 DEF InPlace, Works, Working, Executes, OnStage

\* The row is read, before the stage or after it.
LEMMA ExecutorReads ==
  ASSUME JobFacts, GateTypeOK, NEW t \in Thread,
         BeginReads(t) \/ \E ok \in BOOLEAN : StageEnds(t, ok)
  PROVE  JobFacts'
<1> DEFINE j == task[t].job
<1>1. /\ task \in [Thread -> Tasks] /\ task[t] \in Tasks /\ InPlace(t) /\ row \in [Job -> Rows]
      /\ j \in Job /\ row[j] \in Rows
  BY DEF JobFacts, JobTypeOK, Tasks
<1>2. task[t].step \in {"begin", "run"} /\ loc[t] = "inner"
  BY DEF BeginReads, StageEnds
<1>3. gpu = t /\ Home[t] = Main /\ ~task[t].old
  BY <1>1, <1>2 DEF InPlace, OnStage
<1>4. \A u \in Thread : Works(u) \/ Executes(u) => u = t
  BY <1>3, OneExecutor
<1>5. UNCHANGED <<row, told, crossed, orphans, birth, loc, gpu>>
  BY DEF BeginReads, StageEnds, Still, gateVars
<1>6. CASE BeginReads(t) /\ Row(t).status \notin Unfinished
  <2> DEFINE new == [task[t] EXCEPT !.step = "end", !.seen = NoRow]
  <2>1. /\ new \in Tasks /\ new.step = "end" /\ new.todo = task[t].todo /\ new.old = task[t].old
    BY <1>1, NullTask DEF Tasks, JobSteps
  <2>2. task' = [task EXCEPT ![t] = new] /\ task[t].step = "begin"
    BY <1>1, <1>6 DEF BeginReads, Step, Tasks
  <2> HIDE DEF new
  <2>3. task'[t] = new
    BY <1>1, <2>2
  <2>4. InPlace(t)'
    BY <1>2, <1>3, <1>5, <2>1, <2>3 DEF InPlace, Outside, OnStage
  <2>5. \A i \in Job : row[i].status \in Unfinished /\ Carries(t, i) => i \in new.todo
    BY <1>6, <2>1 DEF Carries, Row
  <2> QED BY <1>5, <2>1, <2>2, <2>4, <2>5, QuietStep DEF Working
<1>7. ASSUME NEW step \in {"start", "ok", "failed"},
             step = "start" => task[t].step = "begin" /\ row[j].status \in Unfinished,
             step # "start" => task[t].step = "run",
             step # "start" => \A u \in Thread : task[u].step = "write" => ~task[u].old,
             task' = [task EXCEPT ![t].seen = row[j], ![t].step = step]
      PROVE  JobFacts'
  <2> DEFINE new == [task[t] EXCEPT !.seen = row[j], !.step = step]
  <2>1. /\ new \in Tasks /\ new.step = step /\ new.seen = row[j] /\ new.job = j
        /\ new.todo = task[t].todo /\ new.old = task[t].old
    BY <1>1 DEF Tasks, JobSteps
  <2>2. task' = [task EXCEPT ![t] = new]
    BY <1>1, <1>7 DEF Tasks
  <2> HIDE DEF new
  <2>3. task'[t] = new /\ \A u \in Thread \ {t} : task'[u] = task[u]
    BY <1>1, <2>2
  <2>4. InPlace(t)'
    BY <1>2, <1>3, <1>5, <1>7, <2>1, <2>3 DEF InPlace, Outside, OnStage
  <2>5. /\ task' \in [Thread -> Tasks] /\ gpu' \in Thread \cup {NoOne}
        /\ \A u \in Thread : InPlace(u)'
    BY <1>5, <2>1, <2>2, <2>4, OthersStayInPlace
  <2>6. \A u \in Thread : Works(u)' => u = t
    BY <1>4, <2>3 DEF Works
  <2>7. InputsFit'
    <3>1. row[j].status \in Unfinished => row[j].inputs \/ row[j].cancel
      BY <1>1 DEF JobFacts, DataFits, InputsFit, InputsAreKept
    <3>2. ASSUME NEW u \in Thread, task'[u].step = "start" PROVE (Row(u).inputs \/ Row(u).cancel)'
      <4>1. u = t /\ step = "start" /\ task'[u].job = j
        BY <2>1, <2>3, <2>6, <3>2 DEF Works, Working
      <4> QED BY <1>5, <1>7, <3>1, <4>1 DEF Row
    <3> QED BY <1>5, <3>2 DEF JobFacts, DataFits, InputsFit, InputsAreKept
  <2>8. RunsFit'
    <3>1. step = "start" => row[j].runs < birth[Main]
      BY <1>1, <1>3, <1>4, <1>7 DEF JobFacts, DataFits, RunsFit, Executes
    <3>2. \A u \in Thread : task'[u].step = "start" => task'[u].seen.runs < birth[Main]
      BY <2>1, <2>3, <2>6, <3>1 DEF Works, Working
    <3>3. ASSUME NEW i \in Job, row[i].status \in Unfinished
          PROVE  row[i].runs < birth[Main] \/ \E u \in Thread : Executes(u)' /\ task'[u].job = i
      <4>1. row[i].runs < birth[Main] \/ \E u \in Thread : Executes(u) /\ task[u].job = i
        BY <3>3 DEF JobFacts, DataFits, RunsFit
      <4>2. ASSUME NEW u \in Thread, Executes(u), task[u].job = i PROVE Executes(u)' /\ task'[u].job = i
        <5>1. u = t /\ task[t].step # "begin"
          BY <1>4, <4>2 DEF Executes
        <5> QED BY <1>7, <2>1, <2>3, <4>2, <5>1 DEF Executes
      <4> QED BY <4>1, <4>2
    <3> QED BY <1>5, <3>2, <3>3 DEF JobFacts, DataFits, RunsFit, RunsOncePerLife
  <2>9. Carried'
    <3>1. \A u \in Thread, i \in Job : Carries(u, i) => Carries(u, i)'
      BY <1>7, <2>1, <2>3 DEF Carries, Carrying, Working
    <3> QED BY <1>5, <3>1 DEF JobFacts, DataFits, Carried
  <2>10. CancelsFit'
    <3>1. ASSUME NEW u \in Thread, Works(u)', task'[u].job \notin crossed' PROVE ExecutorIsSeen(u)'
      <4>1. u = t /\ task'[u] = new /\ j \notin crossed
        BY <1>5, <2>1, <2>3, <2>6, <3>1
      <4>2. CASE step = "start"
        BY <1>5, <1>7, <2>1, <4>1, <4>2 DEF ExecutorIsSeen, Executes, Row
      <4>3. CASE step # "start"
        <5>1. ExecutorIsSeen(t) /\ Executes(t)
          BY <1>7, <4>1, <4>3 DEF JobFacts, DataFits, CancelsFit, Works, Working, Executes
        <5>2. j \in told => row[j].cancel
          BY DEF JobFacts, DataFits, CancelsFit
        <5>3. ASSUME NEW v \in Thread, task'[v].job = j, task'[v].step = "write",
                     task'[v].seen.status = "queued"
              PROVE  task'[v].old
          <6>1. v # t /\ task'[v] = task[v]
            BY <1>7, <2>1, <2>3, <5>3
          <6> QED BY <5>1, <5>3, <6>1 DEF ExecutorIsSeen
        <5> QED BY <1>5, <2>1, <4>1, <4>3, <5>1, <5>2, <5>3 DEF ExecutorIsSeen, Executes, Row
      <4> QED BY <4>2, <4>3
    <3>2. ASSUME NEW u \in Thread, NEW v \in Thread, task'[u].step \in {"ok", "failed"},
                 task'[v].step = "write"
          PROVE  ~task'[v].old
      <4>1. u = t /\ step # "start" /\ v # t
        BY <1>7, <2>1, <2>3, <2>6, <3>2 DEF Works, Working
      <4> QED BY <1>7, <2>3, <3>2, <4>1
    <3> QED BY <1>5, <3>1, <3>2 DEF JobFacts, DataFits, CancelsFit, CancelledNeverSucceeds
  <2> QED BY <1>5, <2>5, <2>7, <2>8, <2>9, <2>10 DEF JobFacts, JobTypeOK, DataFits
<1>8. CASE BeginReads(t) /\ Row(t).status \in Unfinished
  BY <1>7, <1>8 DEF BeginReads, Row
<1>9. ASSUME NEW ok \in BOOLEAN, StageEnds(t, ok) PROVE JobFacts'
  <2> DEFINE step == IF ok THEN "ok" ELSE "failed"
  <2>1. /\ step \in {"start", "ok", "failed"} /\ step # "start" /\ task[t].step = "run"
        /\ \A u \in Thread : task[u].step = "write" => ~task[u].old
        /\ task' = [task EXCEPT ![t].seen = row[j], ![t].step = step]
    BY <1>9 DEF StageEnds, Row
  <2> HIDE DEF step
  <2> QED BY <1>7, <2>1
<1> QED BY <1>6, <1>8, <1>9

\* A job ends: its row is finished, and no executor is left.
LEMMA EndsKeepFacts ==
  ASSUME JobFacts, GateTypeOK, NEW t \in Thread,
         EndWrites(t) \/ (BeginWrites(t) /\ task[t].seen.cancel)
  PROVE  JobFacts'
<1> DEFINE j == task[t].job
<1>1. /\ task \in [Thread -> Tasks] /\ task[t] \in Tasks /\ InPlace(t) /\ row \in [Job -> Rows]
      /\ loc \in [Thread -> Locations] /\ j \in Job /\ row[j] \in Rows
      /\ told \in SUBSET Job /\ crossed \in SUBSET Job /\ orphans \in SUBSET Job
      /\ birth \in [Process -> Nat] /\ birth[Main] \in Nat
  BY WorkerConstants DEF JobFacts, JobTypeOK, GateTypeOK, Tasks
<1>2. task[t].step \in Working /\ loc[t] = "inner"
  BY DEF EndWrites, BeginWrites, Working
<1>3. gpu = t /\ Home[t] = Main /\ ~task[t].old
  BY <1>1, <1>2 DEF InPlace, OnStage, Working
<1>4. \A u \in Thread : Works(u) \/ Executes(u) => u = t
  BY <1>3, OneExecutor
<1> DEFINE new == [task[t] EXCEPT !.step = "end", !.seen = NoRow]
<1>5. /\ new \in Tasks /\ new.step = "end" /\ new.todo = task[t].todo /\ new.old = task[t].old
      /\ new.job = j
  BY <1>1, NullTask DEF Tasks, JobSteps
<1>6. /\ task' = [task EXCEPT ![t] = new]
      /\ UNCHANGED <<told, crossed, birth, loc, gpu>>
      /\ orphans' \in {orphans, orphans \ {j}}
  BY <1>1 DEF EndWrites, BeginWrites, Step, Still, Tasks, gateVars
<1> DEFINE end == IF EndWrites(t)
                  THEN [row[j] EXCEPT !.status = Outcome(task[t].seen, task[t].step = "ok"),
                                      !.inputs = FALSE, !.made = birth[Main]]
                  ELSE [row[j] EXCEPT !.status = "cancelled", !.inputs = FALSE]
<1>7. row' = [row EXCEPT ![j] = end]
  BY DEF EndWrites, BeginWrites, SetRow, Row
<1>8. /\ end \in Rows /\ end.status \in {"succeeded", "failed", "cancelled"}
      /\ end.runs = row[j].runs /\ end.cancel = row[j].cancel
      /\ end.status = "succeeded" => task[t].step = "ok" /\ ~task[t].seen.cancel
  <2>1. CASE EndWrites(t)
    BY <1>1, <2>1 DEF Rows, Outcome
  <2>2. CASE ~EndWrites(t)
    BY <1>1, <2>2 DEF Rows
  <2> QED BY <2>1, <2>2
<1> HIDE DEF new, end
<1>9. task'[t] = new
  BY <1>1, <1>6
<1>10. InPlace(t)'
  BY <1>2, <1>3, <1>5, <1>6, <1>9 DEF InPlace, Outside, OnStage
<1>11. told' \in SUBSET Job /\ crossed' \in SUBSET Job /\ orphans' \in SUBSET Job
  BY <1>1, <1>6
<1>12. /\ JobTypeOK' /\ \A u \in Thread : InPlace(u)'
       /\ \A u \in Thread \ {t} : task'[u] = task[u]
       /\ row'[j] = end /\ \A i \in Job \ {j} : row'[i] = row[i]
  <2>1. \A u \in Thread \ {t} : loc'[u] = loc[u]
    BY <1>6
  <2>2. gpu' = gpu
    BY <1>6
  <2> QED BY <1>5, <1>6, <1>7, <1>8, <1>10, <1>11, <2>1, <2>2, OneRowMoves
<1>13. \A u \in Thread : task'[u].step \notin Working
  BY <1>4, <1>5, <1>9, <1>12 DEF Works, Working
<1>14. row'[j].status \notin Unfinished
  BY <1>8, <1>12 DEF Unfinished
<1>15. InputsFit'
  BY <1>12, <1>13, <1>14 DEF JobFacts, DataFits, InputsFit, InputsAreKept, Working
<1>16. RunsFit'
  <2>1. \A i \in Job : row'[i].runs <= birth[Main]
    BY <1>8, <1>12 DEF JobFacts, DataFits, RunsFit, RunsOncePerLife
  <2>2. ASSUME NEW i \in Job, row'[i].status \in Unfinished PROVE row'[i].runs < birth[Main]
    <3>1. i # j /\ row'[i] = row[i]
      BY <1>12, <1>14, <2>2
    <3>2. ~\E u \in Thread : Executes(u) /\ task[u].job = i
      BY <1>4, <3>1
    <3> QED BY <2>2, <3>1, <3>2 DEF JobFacts, DataFits, RunsFit
  <2> QED BY <1>6, <1>13, <2>1, <2>2 DEF JobFacts, DataFits, RunsFit, RunsOncePerLife, Working
<1>17. Carried'
  <2>1. ASSUME NEW i \in Job, row'[i].status \in Unfinished
        PROVE  row'[i].deferred \/ i \in orphans' \/ \E u \in Thread : Carries(u, i)'
    <3>1. i # j /\ row'[i] = row[i]
      BY <1>12, <1>14, <2>1
    <3>2. \A u \in Thread : Carries(u, i) => Carries(u, i)'
      BY <1>5, <1>9, <1>12, <3>1 DEF Carries
    <3>3. i \in orphans => i \in orphans'
      BY <1>6, <3>1
    <3>4. row[i].deferred \/ i \in orphans \/ \E u \in Thread : Carries(u, i)
      BY <2>1, <3>1 DEF JobFacts, DataFits, Carried
    <3>5. CASE row[i].deferred
      BY <3>1, <3>5
    <3>6. CASE i \in orphans
      BY <3>3, <3>6
    <3>7. CASE \E u \in Thread : Carries(u, i)
      BY <3>2, <3>7
    <3> QED BY <3>4, <3>5, <3>6, <3>7
  <2> QED BY <2>1 DEF Carried
<1>18. CancelsFit'
  <2>1. \A i \in told : row'[i].cancel
    BY <1>1, <1>8, <1>12 DEF JobFacts, DataFits, CancelsFit
  <2>2. ASSUME NEW i \in told \ crossed PROVE row'[i].status # "succeeded"
    <3>1. CASE i = j
      <4>1. Works(t) /\ ExecutorIsSeen(t)
        BY <1>2, <2>2, <3>1 DEF JobFacts, DataFits, CancelsFit, Works
      <4> QED BY <1>8, <1>12, <2>2, <3>1, <4>1 DEF ExecutorIsSeen
    <3>2. CASE i # j
      BY <1>1, <1>12, <2>2, <3>2 DEF JobFacts, DataFits, CancelsFit, CancelledNeverSucceeds
    <3> QED BY <3>1, <3>2
  <2> QED BY <1>6, <1>13, <2>1, <2>2 DEF CancelsFit, CancelledNeverSucceeds, Works, Working
<1> QED BY <1>12, <1>15, <1>16, <1>17, <1>18 DEF JobFacts, DataFits

\* A job begins: the row says so unless it was cancelled meanwhile, and the
\* handlers that have read it before are marked.
LEMMA BeginKeepsFacts ==
  ASSUME JobFacts, GateTypeOK, NEW t \in Thread, BeginWrites(t), ~task[t].seen.cancel
  PROVE  JobFacts'
<1> DEFINE j == task[t].job
<1>1. /\ task \in [Thread -> Tasks] /\ task[t] \in Tasks /\ InPlace(t) /\ row \in [Job -> Rows]
      /\ loc \in [Thread -> Locations] /\ j \in Job /\ row[j] \in Rows
      /\ told \in SUBSET Job /\ crossed \in SUBSET Job /\ orphans \in SUBSET Job
      /\ birth[Main] \in Nat /\ task[t].seen \in Rows
  BY WorkerConstants DEF JobFacts, JobTypeOK, GateTypeOK, Tasks
<1>2. task[t].step = "start" /\ loc[t] = "inner"
  BY DEF BeginWrites
<1>3. gpu = t /\ Home[t] = Main /\ ~task[t].old
  BY <1>1, <1>2 DEF InPlace, OnStage
<1>4. \A u \in Thread : Works(u) \/ Executes(u) => u = t
  BY <1>3, OneExecutor
<1> DEFINE begun == [row[j] EXCEPT !.status = IF task[t].seen.status = "running" THEN @ ELSE "running",
                                   !.runs = task[t].seen.runs + 1]
<1> DEFINE mine == [task[t] EXCEPT !.step = "run", !.seen = NoRow]
<1> DEFINE theirs(u) == [task[u] EXCEPT !.old = task[u].step = "write"]
<1>5. /\ task' = [u \in Thread |-> IF u = t THEN mine ELSE theirs(u)]
      /\ row' = [row EXCEPT ![j] = begun]
      /\ UNCHANGED <<told, crossed, birth, loc, gpu>> /\ orphans' = orphans \ {j}
  BY DEF BeginWrites, SetRow, Row, Still, gateVars
<1>6. /\ begun \in Rows /\ begun.inputs = row[j].inputs /\ begun.cancel = row[j].cancel
      /\ begun.runs = task[t].seen.runs + 1
      /\ begun.status = IF task[t].seen.status = "running" THEN row[j].status ELSE "running"
  <2>1. task[t].seen.runs + 1 \in Nat
    BY <1>1 DEF Rows
  <2>2. ASSUME NEW n \in Nat
        PROVE LET b == [row[j] EXCEPT !.status = IF task[t].seen.status = "running" THEN @ ELSE "running", !.runs = n]
              IN  /\ b \in Rows /\ b.inputs = row[j].inputs /\ b.cancel = row[j].cancel /\ b.runs = n
                  /\ b.status = IF task[t].seen.status = "running" THEN row[j].status ELSE "running"
    BY <1>1 DEF Rows
  <2> QED BY <2>1, <2>2
<1>7. mine \in Tasks /\ mine.step = "run" /\ mine.job = j /\ mine.todo = task[t].todo /\ mine.old = task[t].old
  BY <1>1, NullTask DEF Tasks, JobSteps
<1>8. ASSUME NEW u \in Thread
      PROVE  /\ theirs(u) \in Tasks /\ theirs(u).step = task[u].step /\ theirs(u).job = task[u].job
             /\ theirs(u).todo = task[u].todo /\ theirs(u).seen = task[u].seen
             /\ theirs(u).old <=> task[u].step = "write"
  <2>1. task[u] \in Tasks
    BY <1>1
  <2>2. ASSUME NEW b \in BOOLEAN
        PROVE  LET v == [task[u] EXCEPT !.old = b]
               IN  /\ v \in Tasks /\ v.step = task[u].step /\ v.job = task[u].job
                   /\ v.todo = task[u].todo /\ v.seen = task[u].seen /\ v.old = b
    BY <2>1 DEF Tasks
  <2>3. (task[u].step = "write") \in BOOLEAN
    OBVIOUS
  <2> QED BY <2>2, <2>3, Zenon
<1> HIDE DEF begun, mine, theirs
<1>9. /\ task'[t] = mine /\ row'[j] = begun /\ \A i \in Job \ {j} : row'[i] = row[i]
      /\ \A u \in Thread \ {t} : task'[u] = theirs(u)
  BY <1>1, <1>5
<1>10. task' \in [Thread -> Tasks] /\ row' \in [Job -> Rows]
  BY <1>1, <1>5, <1>6, <1>7, <1>8
<1>11. JobTypeOK'
  BY <1>1, <1>5, <1>10 DEF JobFacts, JobTypeOK
<1>12. ASSUME NEW u \in Thread PROVE InPlace(u)'
  <2>1. CASE u = t
    BY <1>2, <1>3, <1>5, <1>7, <1>9, <2>1 DEF InPlace, Outside, OnStage
  <2>2. CASE u # t
    <3>1. InPlace(u)
      BY DEF JobFacts
    <3> QED BY <1>5, <1>8, <1>9, <2>2, <3>1 DEF InPlace
  <2> QED BY <2>1, <2>2
<1>13. \A u \in Thread : Works(u)' => u = t
  BY <1>4, <1>8, <1>9 DEF Works
<1>14. Executes(t)' /\ task'[t].job = j
  BY <1>7, <1>9 DEF Executes
<1>15. InputsFit'
  <2>1. row[j].inputs \/ row[j].cancel
    BY <1>2 DEF JobFacts, DataFits, InputsFit, Row
  <2>2. InputsAreKept'
    BY <1>6, <1>9, <2>1 DEF JobFacts, DataFits, InputsFit, InputsAreKept
  <2>3. \A u \in Thread : task'[u].step # "start"
    BY <1>7, <1>9, <1>13 DEF Works, Working
  <2> QED BY <2>2, <2>3 DEF InputsFit
<1>16. RunsFit'
  <2>1. task[t].seen.runs + 1 <= birth[Main]
    BY <1>1, <1>2 DEF JobFacts, DataFits, RunsFit, Rows
  <2>2. \A i \in Job : row'[i].runs <= birth[Main]
    BY <1>6, <1>9, <2>1 DEF JobFacts, DataFits, RunsFit, RunsOncePerLife
  <2>3. \A u \in Thread : task'[u].step # "start"
    BY <1>7, <1>9, <1>13 DEF Works, Working
  <2>4. ASSUME NEW i \in Job, row'[i].status \in Unfinished
        PROVE  row'[i].runs < birth[Main] \/ \E u \in Thread : Executes(u)' /\ task'[u].job = i
    <3>1. CASE i = j
      BY <1>14, <3>1
    <3>2. CASE i # j
      <4>1. ~\E u \in Thread : Executes(u) /\ task[u].job = i
        BY <1>4, <3>2
      <4> QED BY <1>9, <2>4, <3>2, <4>1 DEF JobFacts, DataFits, RunsFit
    <3> QED BY <3>1, <3>2
  <2> QED BY <1>5, <2>2, <2>3, <2>4 DEF JobFacts, DataFits, RunsFit, RunsOncePerLife
<1>17. Carried'
  <2>1. ASSUME NEW i \in Job, row'[i].status \in Unfinished
        PROVE  row'[i].deferred \/ i \in orphans' \/ \E u \in Thread : Carries(u, i)'
    <3>1. CASE i = j
      <4>1. Carries(t, i)'
        BY <1>7, <1>9, <3>1 DEF Carries, Carrying, Working
      <4> QED BY <4>1
    <3>2. CASE i # j
      <4>1. row'[i] = row[i] /\ (i \in orphans => i \in orphans')
        BY <1>5, <1>9, <3>2
      <4>2. \A u \in Thread : Carries(u, i) => Carries(u, i)'
        BY <1>7, <1>8, <1>9, <3>2 DEF Carries
      <4>3. row[i].deferred \/ i \in orphans \/ \E u \in Thread : Carries(u, i)
        BY <2>1, <4>1 DEF JobFacts, DataFits, Carried
      <4>4. CASE row[i].deferred
        BY <4>1, <4>4
      <4>5. CASE i \in orphans
        BY <4>1, <4>5
      <4>6. CASE \E u \in Thread : Carries(u, i)
        BY <4>2, <4>6
      <4> QED BY <4>3, <4>4, <4>5, <4>6
    <3> QED BY <3>1, <3>2
  <2> QED BY <2>1 DEF Carried
<1>18. CancelsFit'
  <2>1. j \notin crossed =>
          task[t].seen.status \in Unfinished /\ row[j].status \in {task[t].seen.status, "cancelled"}
    BY <1>2 DEF JobFacts, DataFits, CancelsFit, Works, Working, ExecutorIsSeen, Row
  <2>2. j \notin crossed => row'[j].status \in {"running", "cancelled"}
    BY <1>6, <1>9, <2>1
  <2>3. \A i \in told : row'[i].cancel
    BY <1>1, <1>6, <1>9 DEF JobFacts, DataFits, CancelsFit
  <2>4. \A i \in told \ crossed : row'[i].status # "succeeded"
    BY <1>1, <1>9, <2>2 DEF JobFacts, DataFits, CancelsFit, CancelledNeverSucceeds
  <2>5. j \notin crossed => ExecutorIsSeen(t)'
    <3>1. \A v \in Thread : task'[v].step = "write" => task'[v].old
      BY <1>7, <1>8, <1>9
    <3> QED BY <1>7, <1>9, <2>2, <3>1 DEF ExecutorIsSeen, Row
  <2>6. \A u \in Thread : task'[u].step \notin {"ok", "failed"}
    BY <1>7, <1>9, <1>13 DEF Works, Working
  <2>7. \A u \in Thread : Works(u)' /\ task'[u].job \notin crossed => ExecutorIsSeen(u)'
    BY <1>13, <1>14, <2>5
  <2> QED BY <1>5, <2>3, <2>4, <2>6, <2>7 DEF CancelsFit, CancelledNeverSucceeds
<1> QED BY <1>11, <1>12, <1>15, <1>16, <1>17, <1>18 DEF JobFacts, DataFits

----------------------------------------------------------------------------
(* The process, its gate, and the theorem.                                 *)

\* Steps that leave the jobs alone, a second reservation among them.
LEMMA GateStepsKeepFacts ==
  ASSUME JobFacts, GateTypeOK, UNCHANGED <<row, task, gpu, told, crossed, orphans, birth>>,
         UNCHANGED loc \/ \E t \in Thread : AsksForStage(t)
  PROVE  JobFacts'
<1>1. ASSUME NEW u \in Thread PROVE InPlace(u)'
  <2>1. InPlace(u)
    BY DEF JobFacts
  <2>2. CASE UNCHANGED loc
    BY <2>1, <2>2 DEF InPlace
  <2>3. ASSUME NEW t \in Thread, AsksForStage(t) PROVE InPlace(u)'
    <3>1. task[t].step = "ask" /\ loc' = [loc EXCEPT ![t] = "asking inner"]
      BY <2>3 DEF AsksForStage, AskInner
    <3>2. loc \in [Thread -> Locations]
      BY DEF GateTypeOK
    <3>3. CASE u = t
      BY <2>1, <3>1, <3>2, <3>3 DEF InPlace, Outside, OnStage
    <3>4. CASE u # t
      BY <2>1, <3>1, <3>2, <3>4 DEF InPlace
    <3> QED BY <3>3, <3>4
  <2> QED BY <2>2, <2>3
<1>2. JobTypeOK'
  BY DEF JobFacts, JobTypeOK
<1>3. InputsFit' /\ RunsFit' /\ Carried'
  BY DEF JobFacts, DataFits, InputsFit, InputsAreKept, RunsFit, RunsOncePerLife, Carried, Carries,
         Executes, Row
<1>4. CancelsFit'
  BY DEF JobFacts, DataFits, CancelsFit, CancelledNeverSucceeds, Works, ExecutorIsSeen, Executes, Row
<1> QED BY <1>1, <1>2, <1>3, <1>4 DEF JobFacts, DataFits

LEMMA DeathKeepsFacts ==
  ASSUME JobFacts, GateTypeOK, WorkerDies
  PROVE  JobFacts'
<1>1. /\ task \in [Thread -> Tasks] /\ row \in [Job -> Rows]
      /\ birth \in [Process -> Nat] /\ birth[Main] \in Nat /\ Main \in Process
      /\ \A u \in Thread : InPlace(u)
  BY WorkerConstants DEF JobFacts, JobTypeOK, GateTypeOK
<1>2. /\ task' = [t \in Thread |-> IF Home[t] = Main THEN NoTask ELSE task[t]]
      /\ loc' = [t \in Thread |-> IF Home[t] = Main THEN "idle" ELSE loc[t]]
      /\ birth' = [birth EXCEPT ![Main] = @ + 1] /\ gpu' = NoOne
      /\ orphans' = orphans \cup {j \in Job : row[j].status \in Unfinished /\ ~row[j].deferred}
      /\ UNCHANGED <<row, told, crossed>>
  BY DEF WorkerDies, Die, Reset
<1>3. birth'[Main] = birth[Main] + 1
  BY <1>1, <1>2
<1>4. \A t \in Thread : task'[t] \in Tasks /\ task'[t].step = "none" /\ task'[t].todo = {} /\ ~task'[t].old
  BY <1>1, <1>2, NullTask DEF InPlace
<1>5. \A t \in Thread : InPlace(t)'
  BY <1>4 DEF InPlace, Outside, OnStage
<1>6. JobTypeOK'
  BY <1>2, <1>4 DEF JobFacts, JobTypeOK
<1>7. \A t \in Thread : task'[t].step \notin Working
  BY <1>4 DEF Working
<1>8. InputsFit'
  BY <1>2, <1>4 DEF JobFacts, DataFits, InputsFit, InputsAreKept
<1>9. RunsFit'
  <2>1. \A j \in Job : row[j].runs \in Nat /\ row[j].runs <= birth[Main]
    BY <1>1 DEF JobFacts, DataFits, RunsFit, RunsOncePerLife, Rows
  <2>2. birth'[Main] # 0 /\ \A j \in Job : row'[j].runs < birth'[Main] /\ row'[j].runs <= birth'[Main]
    BY <1>1, <1>2, <1>3, <2>1
  <2> QED BY <1>4, <2>2 DEF RunsFit, RunsOncePerLife
<1>10. Carried'
  BY <1>2 DEF Carried
<1>11. CancelsFit'
  BY <1>2, <1>4, <1>7 DEF JobFacts, DataFits, CancelsFit, CancelledNeverSucceeds, Works
<1> QED BY <1>5, <1>6, <1>8, <1>9, <1>10, <1>11 DEF JobFacts, DataFits

LEMMA JobFactsStay == JobFacts /\ GateTypeOK /\ [WorkerNext]_workerVars => JobFacts'
<1> SUFFICES ASSUME JobFacts, GateTypeOK, [WorkerNext]_workerVars PROVE JobFacts'
  OBVIOUS
<1>1. ASSUME NEW t \in Thread, JobStep(t) PROVE JobFacts'
  <2>1. CASE Granted(t) \/ Refused(t)
    BY <2>1, AnswersKeepFacts
  <2>2. CASE \/ Reads(t) \/ Checks(t) \/ TakesGpu(t)
             \/ \E b \in BOOLEAN : ListsJobs(t, b)
             \/ \E j \in Job : TakesNext(t, j)
    BY <2>2, WorkKeepsFacts
  <2>3. CASE CancelWrites(t) \/ Defers(t)
    BY <2>3, MarksKeepFacts
  <2>4. ASSUME NEW b \in BOOLEAN, SubmitWrites(t, b) PROVE JobFacts'
    BY <2>4, SubmitKeepsFacts
  <2>5. CASE BeginReads(t) \/ \E b \in BOOLEAN : StageEnds(t, b)
    BY <2>5, ExecutorReads
  <2>6. CASE BeginWrites(t) \/ EndWrites(t)
    BY <2>6, BeginKeepsFacts, EndsKeepFacts
  <2>7. CASE ReleasesStage(t) \/ Returns(t)
    BY <2>7, LeavesKeepFacts
  <2>8. CASE AsksForStage(t)
    BY <2>8, GateStepsKeepFacts DEF AsksForStage, stillGate, processVars, jobVars
  <2> QED BY <1>1, <2>1, <2>2, <2>3, <2>4, <2>5, <2>6, <2>7, <2>8 DEF JobStep
<1>2. ASSUME NEW t \in Thread,
             \/ Dispatch(t) \/ BootResumes(t)
             \/ \E j \in Job, op \in {"submit", "cancel"} : Arrive(t, op, j)
      PROVE  JobFacts'
  BY <1>2, ArrivalsKeepFacts
<1>3. CASE WorkerDies
  BY <1>3, DeathKeepsFacts
<1>4. CASE ReporterSeesPause \/ BootPaused \/ UNCHANGED workerVars
  BY <1>4, GateStepsKeepFacts DEF ReporterSeesPause, BootPaused, workerVars, gateVars, jobVars
<1>5. CASE WorkerServes
  BY <1>5, GateStepsKeepFacts DEF WorkerServes, Serve, jobVars, threadVars
<1>6. CASE Pauses
  BY <1>6, GateStepsKeepFacts
     DEF Pauses, BeginPause, ResumeWrites, ResumeUnlinks, jobVars, threadVars, processVars
<1> QED BY <1>1, <1>2, <1>3, <1>4, <1>5, <1>6 DEF WorkerNext

LEMMA SideTypesStay == JobInv /\ GateTypeOK /\ [WorkerNext]_workerVars => SideTypeOK'
<1> SUFFICES ASSUME JobInv, GateTypeOK, [WorkerNext]_workerVars PROVE SideTypeOK'
  OBVIOUS
<1>1. /\ boot \in BOOLEAN /\ scanDue \in BOOLEAN /\ lastResumed \in Nat /\ submits \in Nat
      /\ submits + 1 \in Nat /\ \A t \in Thread : task[t].resumed \in Nat
  BY DEF JobInv, SideTypeOK, JobFacts, JobTypeOK, Tasks
<1>2. ASSUME NEW t \in Thread, JobStep(t) PROVE SideTypeOK'
  <2>1. CASE Granted(t)
    <3>1. scanDue' \in BOOLEAN
      BY <2>1, Zenon DEF Granted
    <3> QED BY <1>1, <2>1, <3>1 DEF Granted, SideTypeOK
  <2>2. CASE Refused(t)
    <3>1. scanDue' \in BOOLEAN
      BY <2>2, Zenon DEF Refused
    <3> QED BY <1>1, <2>2, <3>1 DEF Refused, SideTypeOK
  <2>3. ASSUME NEW b \in BOOLEAN, ListsJobs(t, b) PROVE SideTypeOK'
    <3>1. scanDue' \in BOOLEAN
      BY <2>3, Zenon DEF ListsJobs
    <3> QED BY <1>1, <2>3, <3>1 DEF ListsJobs, SideTypeOK
  <2>4. CASE \/ Reads(t) \/ CancelWrites(t) \/ Checks(t) \/ BeginReads(t) \/ BeginWrites(t) \/ EndWrites(t)
             \/ \E b \in BOOLEAN : SubmitWrites(t, b) \/ StageEnds(t, b)
             \/ \E j \in Job : TakesNext(t, j)
    <3>1. Still(t)
      BY <2>4 DEF Reads, CancelWrites, Checks, BeginReads, BeginWrites, EndWrites, SubmitWrites,
                  StageEnds, TakesNext
    <3> QED BY <1>1, <3>1 DEF Still, SideTypeOK
  <2>5. CASE Defers(t) \/ TakesGpu(t) \/ AsksForStage(t) \/ ReleasesStage(t) \/ Returns(t)
    <3>1. UNCHANGED <<boot, scanDue, lastResumed, submits>>
      <4>1. CASE Defers(t) \/ ReleasesStage(t) \/ Returns(t)
        BY <4>1 DEF Defers, ReleasesStage, Returns, jobVars
      <4>2. CASE TakesGpu(t)
        BY <4>2, Zenon DEF TakesGpu
      <4>3. CASE AsksForStage(t)
        BY <4>3, Zenon DEF AsksForStage, jobVars
      <4> QED BY <2>5, <4>1, <4>2, <4>3
    <3> QED BY <1>1, <3>1 DEF SideTypeOK
  <2> QED BY <1>2, <2>1, <2>2, <2>3, <2>4, <2>5 DEF JobStep
<1>3. ASSUME NEW t \in Thread,
             \/ Dispatch(t) \/ BootResumes(t)
             \/ \E j \in Job, op \in {"submit", "cancel"} : Arrive(t, op, j)
      PROVE  SideTypeOK'
  BY <1>1, <1>3 DEF Dispatch, BootResumes, Arrive, SideTypeOK
<1>4. CASE ReporterSeesPause \/ BootPaused \/ WorkerDies
  <2>1. boot' \in BOOLEAN /\ scanDue' \in BOOLEAN
    BY <1>1, <1>4, Zenon DEF ReporterSeesPause, BootPaused, WorkerDies
  <2>2. lastResumed' \in Nat /\ submits' \in Nat
    BY <1>1, <1>4 DEF ReporterSeesPause, BootPaused, WorkerDies
  <2> QED BY <2>1, <2>2 DEF SideTypeOK
<1>5. CASE UNCHANGED workerVars \/ WorkerServes \/ Pauses
  BY <1>1, <1>5 DEF workerVars, WorkerServes, Pauses, jobVars, SideTypeOK
<1> QED BY <1>2, <1>3, <1>4, <1>5 DEF WorkerNext

LEMMA JobInvHolds == WorkerInit => JobInv
<1> SUFFICES ASSUME WorkerInit PROVE JobInv
  OBVIOUS
<1>1. /\ task = [t \in Thread |-> NoTask] /\ row = [j \in Job |-> NoRow] /\ gpu = NoOne
      /\ told = {} /\ crossed = {} /\ orphans = {} /\ birth = [p \in Process |-> 1]
  BY DEF WorkerInit, GateInit
<1>2. JobTypeOK
  <2>1. NoRow \in Rows /\ NoTask \in Tasks
    BY NullTask
  <2>2. task \in [Thread -> Tasks] /\ row \in [Job -> Rows]
    BY <1>1, <2>1
  <2> QED BY <1>1, <2>2 DEF JobTypeOK
<1>9. SideTypeOK
  <2>1. boot \in BOOLEAN /\ scanDue \in BOOLEAN
    BY Zenon DEF WorkerInit
  <2> QED BY <2>1 DEF WorkerInit, SideTypeOK
<1>3. \A t \in Thread : InPlace(t)
  BY <1>1, NullTask DEF InPlace, Outside, OnStage
<1>4. \A j \in Job : row[j].status \notin Unfinished /\ row[j].runs = 0
  BY <1>1 DEF NoRow, Unfinished
<1>5. birth[Main] = 1
  BY <1>1, WorkerConstants
<1>6. \A t \in Thread : task[t].step = "none"
  BY <1>1, NullTask
<1>7. InputsFit /\ RunsFit /\ Carried
  BY <1>4, <1>5, <1>6 DEF InputsFit, InputsAreKept, RunsFit, RunsOncePerLife, Carried
<1>8. CancelsFit
  BY <1>1, <1>6 DEF CancelsFit, CancelledNeverSucceeds, Works, Working
<1> QED BY <1>2, <1>3, <1>7, <1>8, <1>9 DEF JobInv, JobFacts, DataFits

\* Where every thread of the worker host is, whose the GPU is, and what the rows of the
\* jobs and the rows the handlers have read say about each other (remote/server.py
\* execute_job, submit_job, cancel_job).
THEOREM WorkerInvariant == WorkerSpec => []JobInv
<1>1. WorkerSpec => []GateTypeOK
  BY WorkerImplementsGate, GateTypeCorrect, PTL
<1>2. JobInv /\ GateTypeOK /\ [WorkerNext]_workerVars => JobInv'
  BY JobFactsStay, SideTypesStay DEF JobInv
<1> QED BY <1>1, <1>2, JobInvHolds, PTL DEF WorkerSpec

\* The variables of the worker host keep their types (remote/server.py, remote/models.py).
THEOREM WorkerTypeCorrect == WorkerSpec => []WorkerTypeOK
<1>1. JobInv => WorkerTypeOK
  BY DEF JobInv, SideTypeOK, JobFacts, JobTypeOK, WorkerTypeOK, Tasks
<1> QED BY <1>1, WorkerInvariant, PTL

\* An unfinished job has its inputs, a job the controller was told is cancelled does
\* not succeed unless a submission crossed its execution, one life of the process runs a
\* submission once, and no job that the process has accepted is dropped by a pause, for
\* any number of jobs, requests, pauses and restarts (remote/server.py submit_job,
\* cancel_job, execute_job, resume_deferred_jobs).
THEOREM JobsAreSafe == WorkerSpec => []JobSafety
<1>1. ASSUME JobInv PROVE JobSafety
  <2>1. InputsAreKept /\ CancelledNeverSucceeds /\ RunsOncePerLife
    BY <1>1 DEF JobInv, JobFacts, DataFits, InputsFit, CancelsFit, RunsFit
  <2>2. \A j \in Job, t \in Thread : Carries(t, j) => InFlight(j)
    BY DEF Carries, Carrying, Working, InFlight
  <2>3. NoJobIsDropped
    BY <1>1, <2>2 DEF JobInv, JobFacts, DataFits, Carried, NoJobIsDropped
  <2> QED BY <2>1, <2>3 DEF JobSafety
<1> QED BY <1>1, WorkerInvariant, PTL
=============================================================================
