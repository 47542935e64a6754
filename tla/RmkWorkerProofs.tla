---------------------------- MODULE RmkWorkerProofs ----------------------------
(***************************************************************************)
(* Proofs about the two jobs of src/rmk_worker.rs, which share no state:   *)
(* the hill climb on retrieval policies (RmkPolicy), for any number of     *)
(* workers, turns, policies, episodes and failures, and the memory         *)
(* pressure sweep (PressureSweep), for all memories, sweepers, gains and   *)
(* targets.                                                                *)
(***************************************************************************)
EXTENDS RmkPolicy, PressureSweep, FiniteSetTheorems, TLAPS

-----------------------------------------------------------------------------
(***************************************************************************)
(* RmkPolicy: the inductive invariant.                                     *)
(***************************************************************************)

Judging == {"mean", "predecessor", "compare", "reject"}

\* The policy a cycle judges is a row of the table.
CurrentExists ==
  \A w \in Workers : pc[w] \in Judging => current[w] \in Ids /\ status[current[w]] # "none"

TInv == TypeOK /\ CurrentExists /\ EpisodesAreItsOwn

\* Policies that serve, or did until another worker rejected them during w's cycle.
Known(w) == Accepted \cup overtaken[w]

\* q is the other accepted policy before p, as far as policies are accepted.
Adjacent(q, p) == q # p /\ \A r \in Accepted : r <= q \/ r >= p

\* What a worker has read is still so when it acts on it, or another worker has
\* rejected it meanwhile; episodes are never lost.
StillSo(w) ==
  /\ pc[w] \in Judging => current[w] \in Known(w) /\ from[w] = current[w]
  /\ pc[w] = "insert" => from[w] \in Known(w)
  /\ pc[w] \in {"predecessor", "compare", "reject"} =>
       n[current[w]] >= MIN_EPISODES_PER_POLICY
  /\ pc[w] \in {"compare", "reject"} =>
       previous[w] \in Known(w) /\ Adjacent(previous[w], current[w])
  /\ pc[w] = "reject" => n[previous[w]] >= MIN_EPISODES_PER_POLICY

IInv == TInv /\ \A w \in Workers : StillSo(w)

-----------------------------------------------------------------------------
(***************************************************************************)
(* Episodes and types.                                                     *)
(***************************************************************************)

\* A turn that begins under x joins x's turns in flight and no others.
LEMMA TurnJoins ==
  ASSUME TypeOK, NEW t \in Turns, turn[t] = NoTurn, NEW x, turn' = [turn EXCEPT ![t] = x],
         NEW p \in Ids
  PROVE  Cardinality(InFlight(p)') = Cardinality(InFlight(p)) + (IF x = p THEN 1 ELSE 0)
<1>1. IsFiniteSet(InFlight(p)) /\ t \notin InFlight(p)
  BY TurnsAssumption, FS_Subset DEF InFlight, NoTurn, Ids
<1>2. InFlight(p)' = IF x = p THEN InFlight(p) \cup {t} ELSE InFlight(p)
  BY DEF TypeOK, InFlight, NoTurn, Ids
<1>3. Cardinality(InFlight(p)) \in Nat
  BY <1>1, FS_CardinalityType
<1>4. CASE x = p
  <2>1. Cardinality(InFlight(p) \cup {t}) = Cardinality(InFlight(p)) + 1
    BY <1>1, FS_AddElement
  <2> QED BY <1>2, <1>4, <2>1
<1>5. CASE x # p
  BY <1>2, <1>3, <1>5
<1> QED BY <1>4, <1>5

\* A turn that ends leaves the turns of its policy and no others.
LEMMA TurnLeaves ==
  ASSUME TypeOK, NEW t \in Turns, turn[t] # NoTurn, turn' = [turn EXCEPT ![t] = NoTurn],
         NEW p \in Ids
  PROVE  /\ Cardinality(InFlight(p)) \in Nat
         /\ Cardinality(InFlight(p)') \in Nat
         /\ turn[t] = p => Cardinality(InFlight(p)) = Cardinality(InFlight(p)') + 1
         /\ turn[t] # p => Cardinality(InFlight(p)') = Cardinality(InFlight(p))
<1>1. IsFiniteSet(InFlight(p))
  BY TurnsAssumption, FS_Subset DEF InFlight
<1>2. InFlight(p)' = InFlight(p) \ {t}
  BY DEF TypeOK, InFlight, NoTurn, Ids
<1>3. IsFiniteSet(InFlight(p)')
  BY <1>1, <1>2, FS_Subset
<1>4. Cardinality(InFlight(p)) \in Nat /\ Cardinality(InFlight(p)') \in Nat
  BY <1>1, <1>3, FS_CardinalityType
<1>5. CASE turn[t] = p
  <2>1. t \in InFlight(p)
    BY <1>5 DEF InFlight
  <2>2. Cardinality(InFlight(p)') = Cardinality(InFlight(p)) - 1
    BY <1>1, <1>2, <2>1, FS_RemoveElement
  <2> QED BY <1>4, <1>5, <2>2
<1>6. CASE turn[t] # p
  <2>1. InFlight(p)' = InFlight(p)
    BY <1>2, <1>6 DEF InFlight
  <2> QED BY <1>4, <1>6, <2>1
<1> QED BY <1>5, <1>6

\* An inserted episode counts for its policy and keeps reward below count.
LEMMA EpisodeInserted ==
  ASSUME TypeOK, NEW x \in Ids \cup {Defaults}, InsertEpisode(x)
  PROVE  /\ episodes' \in Nat /\ n' \in [Ids -> Nat] /\ total' \in [Ids -> Nat]
         /\ \A p \in Ids : total'[p] <= n'[p]
         /\ \A p \in Ids : n'[p] = n[p] + (IF x = p THEN 1 ELSE 0)
<1>1. episodes' \in Nat
  BY DEF TypeOK, InsertEpisode
<1>0. n \in [Ids -> Nat] /\ total \in [Ids -> Nat] /\ \A p \in Ids : total[p] <= n[p]
  BY DEF TypeOK
<1>2. CASE x = Defaults
  <2>1. n' = n /\ total' = total /\ \A p \in Ids : x # p
    BY <1>2 DEF InsertEpisode, Defaults, Ids
  <2> QED BY <1>0, <1>1, <2>1
<1>3. CASE x # Defaults
  <2>1. x \in Ids
    BY <1>3
  <2>2. PICK r \in {0, 1} : total' = [total EXCEPT ![x] = @ + r]
    BY <1>3 DEF InsertEpisode
  <2>3. n' = [n EXCEPT ![x] = @ + 1]
    BY <1>3 DEF InsertEpisode
  <2> QED BY <1>0, <1>1, <2>1, <2>2, <2>3
<1> QED BY <1>2, <1>3

\* Beginning, logging and dropping keep types and the count of each policy's turns.
LEMMA TurnStep ==
  ASSUME TypeOK, EpisodesAreItsOwn, NEW t \in Turns, Turn(t)
  PROVE  /\ TypeOK' /\ EpisodesAreItsOwn'
         /\ \A p \in Ids : n'[p] >= n[p]
         /\ UNCHANGED policies /\ UNCHANGED worker
<1>1. CASE BeginTurn(t)
  <2>1. PICK x \in Serving \cup {Defaults} : turn' = [turn EXCEPT ![t] = x]
    BY <1>1 DEF BeginTurn
  <2>2. x \in Ids \cup {Defaults} /\ x # NoTurn
    BY DEF Serving, Newest, Accepted, Ids, Defaults, NoTurn
  <2>3. turn[t] = NoTurn /\ turn' \in [Turns -> Ids \cup {Defaults, NoTurn}] /\ turn'[t] = x
    BY <1>1, <2>1, <2>2 DEF BeginTurn, TypeOK
  <2>4. answered' = [p \in Ids |-> IF p = x THEN answered[p] + 1 ELSE answered[p]]
    BY <1>1, <2>3 DEF BeginTurn, Answering, NoTurn, Ids
  <2>5. answered' \in [Ids -> Nat]
    BY <2>4 DEF TypeOK
  <2>6. ASSUME NEW p \in Ids PROVE n[p] + Cardinality(InFlight(p)') = answered'[p]
    <3>1. Cardinality(InFlight(p)') = Cardinality(InFlight(p)) + (IF x = p THEN 1 ELSE 0)
      BY <2>1, <2>3, TurnJoins
    <3>2. n[p] + Cardinality(InFlight(p)) = answered[p]
      BY DEF EpisodesAreItsOwn
    <3>3. Cardinality(InFlight(p)) \in Nat
      BY TurnsAssumption, FS_Subset, FS_CardinalityType DEF InFlight
    <3> QED BY <2>4, <3>1, <3>2, <3>3 DEF TypeOK
  <2>7. UNCHANGED <<policies, log, worker, bounds>>
    BY <1>1 DEF BeginTurn
  <2>8. TypeOK'
    BY <2>3, <2>5, <2>7 DEF TypeOK, policies, log, worker, bounds
  <2>9. EpisodesAreItsOwn'
    BY <2>6, <2>7 DEF EpisodesAreItsOwn, log
  <2> QED BY <2>7, <2>8, <2>9 DEF log, TypeOK
<1>2. CASE LogEpisode(t)
  <2>1. turn[t] \in Ids \cup {Defaults} /\ turn[t] # NoTurn
    BY <1>2 DEF LogEpisode, TypeOK
  <2>2. turn' = [turn EXCEPT ![t] = NoTurn] /\ InsertEpisode(turn[t])
    BY <1>2 DEF LogEpisode
  <2>3. UNCHANGED <<policies, answered, worker, bounds>>
    BY <1>2 DEF LogEpisode
  <2>4. /\ episodes' \in Nat /\ n' \in [Ids -> Nat] /\ total' \in [Ids -> Nat]
        /\ \A p \in Ids : total'[p] <= n'[p]
        /\ \A p \in Ids : n'[p] = n[p] + (IF turn[t] = p THEN 1 ELSE 0)
    BY <2>1, <2>2, EpisodeInserted
  <2>5. TypeOK'
    BY <2>2, <2>3, <2>4 DEF TypeOK, policies, worker, bounds
  <2>6. ASSUME NEW p \in Ids PROVE n'[p] + Cardinality(InFlight(p)') = answered[p]
    <3>1. /\ Cardinality(InFlight(p)) \in Nat
          /\ Cardinality(InFlight(p)') \in Nat
          /\ turn[t] = p => Cardinality(InFlight(p)) = Cardinality(InFlight(p)') + 1
          /\ turn[t] # p => Cardinality(InFlight(p)') = Cardinality(InFlight(p))
      BY <2>1, <2>2, TurnLeaves
    <3>2. n[p] + Cardinality(InFlight(p)) = answered[p]
      BY DEF EpisodesAreItsOwn
    <3> QED BY <2>4, <3>1, <3>2 DEF TypeOK
  <2>7. EpisodesAreItsOwn'
    BY <2>3, <2>6 DEF EpisodesAreItsOwn
  <2>8. \A p \in Ids : n'[p] >= n[p]
    <3>1. n \in [Ids -> Nat]
      BY DEF TypeOK
    <3> QED BY <2>4, <3>1
  <2> QED BY <2>3, <2>5, <2>7, <2>8
<1>3. CASE DropEpisode(t)
  <2>1. turn[t] # NoTurn /\ turn' = [turn EXCEPT ![t] = NoTurn]
    BY <1>3 DEF DropEpisode
  <2>2. answered' = [p \in Ids |-> IF p = turn[t] THEN answered[p] - 1 ELSE answered[p]]
    <3>1. turn'[t] = NoTurn
      BY <2>1 DEF TypeOK
    <3>2. \A p \in Ids : p # NoTurn
      BY DEF Ids, NoTurn
    <3>3. \A p \in Ids : answered[p] + -1 = answered[p] - 1
      BY DEF TypeOK
    <3> QED BY <1>3, <3>1, <3>2, <3>3 DEF DropEpisode, Answering
  <2>3. UNCHANGED <<policies, log, worker, bounds>>
    BY <1>3 DEF DropEpisode
  <2>4. ASSUME NEW p \in Ids
        PROVE  answered'[p] \in Nat /\ n[p] + Cardinality(InFlight(p)') = answered'[p]
    <3>1. /\ Cardinality(InFlight(p)) \in Nat
          /\ Cardinality(InFlight(p)') \in Nat
          /\ turn[t] = p => Cardinality(InFlight(p)) = Cardinality(InFlight(p)') + 1
          /\ turn[t] # p => Cardinality(InFlight(p)') = Cardinality(InFlight(p))
      BY <2>1, TurnLeaves
    <3>2. n[p] + Cardinality(InFlight(p)) = answered[p]
      BY DEF EpisodesAreItsOwn
    <3> QED BY <2>2, <3>1, <3>2 DEF TypeOK
  <2>5. answered' \in [Ids -> Nat]
    BY <2>2, <2>4
  <2>6. TypeOK'
    BY <2>1, <2>3, <2>5 DEF TypeOK, policies, log, worker, bounds
  <2>7. EpisodesAreItsOwn'
    BY <2>3, <2>4 DEF EpisodesAreItsOwn, log
  <2> QED BY <2>3, <2>6, <2>7 DEF log, TypeOK
<1> QED BY <1>1, <1>2, <1>3 DEF Turn

\* Episodes are untouched by a step that leaves turns and counts alone.
LEMMA EpisodesKept ==
  ASSUME EpisodesAreItsOwn, UNCHANGED <<n, conversations>>
  PROVE  EpisodesAreItsOwn'
BY DEF EpisodesAreItsOwn, InFlight, conversations

\* A new row takes the next id and is accepted.
LEMMA InsertType ==
  ASSUME TypeOK, NEW b \in Ids \cup {Defaults}, InsertPolicy(b)
  PROVE  /\ created' \in 0..MaxPolicies
         /\ status' \in [Ids -> {"none", "accepted", "rejected"}]
         /\ base' \in [Ids -> Ids \cup {Defaults}]
         /\ created + 1 \in Ids
         /\ \A p \in Ids : status'[p] = "none" <=> p > created'
<1>1. /\ created \in 0..MaxPolicies
      /\ status \in [Ids -> {"none", "accepted", "rejected"}]
      /\ base \in [Ids -> Ids \cup {Defaults}]
      /\ \A p \in Ids : status[p] = "none" <=> p > created
  BY DEF TypeOK
<1>2. created + 1 \in Ids /\ created' = created + 1 /\ created' \in 0..MaxPolicies
  BY <1>1, BoundsAssumption DEF InsertPolicy, Ids
<1>3. status' \in [Ids -> {"none", "accepted", "rejected"}] /\ base' \in [Ids -> Ids \cup {Defaults}]
  BY <1>1, <1>2 DEF InsertPolicy
<1>4. \A p \in Ids : status'[p] = "none" <=> p > created'
  BY <1>1, <1>2, BoundsAssumption DEF InsertPolicy, Ids
<1> QED BY <1>2, <1>3, <1>4

\* The end of a cycle forgets what the worker has read.
LEMMA EndCycleType ==
  ASSUME TypeOK, NEW w \in Workers, EndCycle(w)
  PROVE  /\ pc' \in [Workers -> Queries]
         /\ current' \in [Workers -> Ids \cup {Defaults}]
         /\ previous' \in [Workers -> Ids \cup {Defaults}]
         /\ perf' \in [Workers -> [n : Nat, total : Nat]]
         /\ from' \in [Workers -> Ids \cup {Defaults}]
         /\ overtaken' \in [Workers -> SUBSET Ids]
         /\ pc'[w] = "count"
         /\ \A v \in Workers \ {w} : pc'[v] = pc[v] /\ current'[v] = current[v] /\ from'[v] = from[v]
                                     /\ previous'[v] = previous[v] /\ overtaken'[v] = overtaken[v]
BY DEF TypeOK, EndCycle, Queries

\* The seeding and the candidate are the two ways to insert.
LEMMA Inserting ==
  ASSUME TInv, NEW w \in Workers, SeedDefaults(w) \/ InsertCandidate(w)
  PROVE  /\ \E b \in Ids \cup {Defaults} : InsertPolicy(b)
         /\ EndCycle(w)
         /\ UNCHANGED <<log, conversations, bounds>>
<1>1. CASE SeedDefaults(w)
  BY <1>1 DEF SeedDefaults
<1>2. CASE InsertCandidate(w)
  BY <1>2 DEF InsertCandidate, TInv, TypeOK
<1> QED BY <1>1, <1>2

LEMMA InsertingType ==
  ASSUME TInv, NEW w \in Workers, SeedDefaults(w) \/ InsertCandidate(w)
  PROVE  TInv'
<1>1. PICK b \in Ids \cup {Defaults} : InsertPolicy(b)
  BY Inserting
<1>2. EndCycle(w) /\ UNCHANGED <<log, conversations, bounds>>
  BY Inserting
<1>3. TypeOK'
  BY <1>1, <1>2, InsertType, EndCycleType DEF TInv, TypeOK, log, conversations, bounds
<1>4. CurrentExists'
  <2>1. \A p \in Ids : status[p] # "none" => status'[p] # "none"
    BY <1>1 DEF TInv, TypeOK, InsertPolicy
  <2> QED BY <1>2, <2>1, EndCycleType DEF TInv, CurrentExists, Judging
<1>5. EpisodesAreItsOwn'
  BY <1>2, EpisodesKept DEF TInv, log
<1> QED BY <1>3, <1>4, <1>5 DEF TInv

\* A rejection marks an existing row and tells the others past their first read.
LEMMA RejectType ==
  ASSUME TInv, NEW w \in Workers, Reject(w)
  PROVE  /\ TypeOK'
         /\ current[w] \in Ids /\ status' = [status EXCEPT ![current[w]] = "rejected"]
         /\ status[current[w]] # "none"
<1>1. current[w] \in Ids /\ status[current[w]] # "none"
  BY DEF TInv, CurrentExists, Reject, Judging
<1>2. status' = [status EXCEPT ![current[w]] = "rejected"]
  BY DEF Reject, MarkRejected
<1>3. overtaken' \in [Workers -> SUBSET Ids]
  BY <1>1 DEF Reject, MarkRejected, TInv, TypeOK
<1>4. TypeOK'
  BY <1>1, <1>2, <1>3 DEF Reject, Advance, TInv, TypeOK, Queries, log, conversations, bounds
<1> QED BY <1>1, <1>2, <1>4

\* Every step keeps the types, and no row ever disappears.
LEMMA TypeStep == TInv /\ [Next]_vars => TInv'
<1> SUFFICES ASSUME TInv, [Next]_vars PROVE TInv'
  OBVIOUS
<1> USE DEF TInv
<1>1. ASSUME NEW t \in Turns, Turn(t) PROVE TInv'
  BY <1>1, TurnStep DEF CurrentExists, policies, worker
<1>2. ASSUME NEW p \in Ids, AggregateFeedback(p) PROVE TInv'
  <2>1. TypeOK'
    BY <1>2 DEF AggregateFeedback, TypeOK, policies, conversations, worker
  <2> QED BY <1>2, <2>1, EpisodesKept DEF AggregateFeedback, CurrentExists, policies, worker
<1>3. ASSUME TypeOK', CurrentExists', UNCHANGED <<log, conversations>> PROVE TInv'
  BY <1>3, EpisodesKept DEF log
<1>5. ASSUME NEW w \in Workers, CountEpisodes(w) PROVE TInv'
  <2>1. TypeOK' /\ CurrentExists'
    BY <1>5 DEF CountEpisodes, Advance, TypeOK, CurrentExists, Queries, Judging, policies, log,
      conversations, bounds
  <2> QED BY <1>3, <1>5, <2>1 DEF CountEpisodes
<1>6. ASSUME NEW w \in Workers, LoadServing(w) PROVE TInv'
  <2>1. CASE Serving = {} /\ Advance(w, "seed") /\ UNCHANGED <<current, from>>
    <3>1. TypeOK' /\ CurrentExists'
      BY <1>6, <2>1 DEF LoadServing, Advance, TypeOK, CurrentExists, Queries, Judging, policies,
        log, conversations, bounds
    <3> QED BY <1>3, <1>6, <3>1 DEF LoadServing
  <2>2. ASSUME NEW p \in Serving, Advance(w, "mean"), current' = [current EXCEPT ![w] = p],
               from' = [from EXCEPT ![w] = p]
        PROVE  TInv'
    <3>1. p \in Ids /\ status[p] # "none"
      BY DEF Serving, Newest, Accepted
    <3>2. TypeOK' /\ CurrentExists'
      BY <1>6, <2>2, <3>1 DEF LoadServing, Advance, TypeOK, CurrentExists, Queries, Judging,
        policies, log, conversations, bounds
    <3> QED BY <1>3, <1>6, <3>2 DEF LoadServing
  <2> QED BY <1>6, <2>1, <2>2 DEF LoadServing
<1>7. ASSUME NEW w \in Workers, SeedDefaults(w) \/ InsertCandidate(w) PROVE TInv'
  BY <1>7, InsertingType
<1>8. ASSUME NEW w \in Workers, MeasureCurrent(w) PROVE TInv'
  <2>1. TypeOK' /\ CurrentExists'
    BY <1>8 DEF MeasureCurrent, Advance, TypeOK, CurrentExists, Queries, Judging, policies, log,
      conversations, bounds
  <2> QED BY <1>3, <1>8, <2>1 DEF MeasureCurrent
<1>9. ASSUME NEW w \in Workers, LoadPrevious(w) PROVE TInv'
  <2>1. pc' \in [Workers -> Queries] /\ previous' \in [Workers -> Ids \cup {Defaults}]
    <3>1. pc \in [Workers -> Queries] /\ previous \in [Workers -> Ids \cup {Defaults}]
      BY DEF TypeOK
    <3>2. PreviousAccepted(current[w]) \subseteq Ids
      BY DEF PreviousAccepted, Newest, Accepted
    <3>3. CASE Advance(w, "insert") /\ UNCHANGED previous
      BY <3>1, <3>3 DEF Advance, Queries
    <3>4. ASSUME NEW q \in PreviousAccepted(current[w]), Advance(w, "compare"),
                 previous' = [previous EXCEPT ![w] = q]
          PROVE  pc' \in [Workers -> Queries] /\ previous' \in [Workers -> Ids \cup {Defaults}]
      BY <3>1, <3>2, <3>4 DEF Advance, Queries
    <3> QED BY <1>9, <3>3, <3>4 DEF LoadPrevious
  <2>2. TypeOK'
    BY <1>9, <2>1 DEF LoadPrevious, TypeOK, policies, log, conversations, bounds
  <2>3. CurrentExists'
    <3>1. pc[w] = "predecessor" /\ UNCHANGED <<status, current>>
      BY <1>9 DEF LoadPrevious, policies
    <3>2. \A v \in Workers : pc'[v] \in Judging => pc[v] \in Judging
      BY <1>9, <3>1 DEF LoadPrevious, Advance, TypeOK, Judging
    <3> QED BY <3>1, <3>2 DEF CurrentExists
  <2> QED BY <1>3, <1>9, <2>2, <2>3 DEF LoadPrevious
<1>10. ASSUME NEW w \in Workers, Compare(w) PROVE TInv'
  <2>1. TypeOK' /\ CurrentExists'
    BY <1>10 DEF Compare, Advance, TypeOK, CurrentExists, Queries, Judging, policies, log,
      conversations, bounds
  <2> QED BY <1>3, <1>10, <2>1 DEF Compare
<1>11. ASSUME NEW w \in Workers, Reject(w) PROVE TInv'
  <2>1. TypeOK'
    BY <1>11, RejectType
  <2>2. CurrentExists'
    BY <1>11, RejectType DEF Reject, Advance, TypeOK, CurrentExists, Judging
  <2> QED BY <1>3, <1>11, <2>1, <2>2 DEF Reject
<1>12. ASSUME NEW w \in Workers, AbandonCycle(w) PROVE TInv'
  <2>1. TypeOK'
    BY <1>12, EndCycleType DEF AbandonCycle, TypeOK, policies, log, conversations
  <2>2. CurrentExists'
    BY <1>12, EndCycleType DEF AbandonCycle, CurrentExists, Judging, policies
  <2> QED BY <1>3, <1>12, <2>1, <2>2 DEF AbandonCycle
<1>13. CASE UNCHANGED vars
  <2>1. TypeOK' /\ CurrentExists'
    BY <1>13 DEF vars, TypeOK, CurrentExists, policies, log, conversations, worker, bounds
  <2> QED BY <1>3, <1>13, <2>1 DEF vars
<1> QED BY <1>1, <1>2, <1>5, <1>6, <1>7, <1>8, <1>9, <1>10, <1>11, <1>12, <1>13
  DEF Next, UpdatePolicy

\* An empty table and idle workers are well typed.
LEMMA TypeInit == Init => TInv
<1> SUFFICES ASSUME Init PROVE TInv
  OBVIOUS
<1>1. TypeOK /\ CurrentExists
  BY BoundsAssumption DEF Init, TypeOK, CurrentExists, Queries, Judging, Ids, Defaults, NoTurn
<1>2. \A p \in Ids : InFlight(p) = {}
  BY DEF Init, InFlight, NoTurn, Ids
<1>3. EpisodesAreItsOwn
  <2>1. Cardinality({}) = 0
    BY FS_EmptySet
  <2>2. \A p \in Ids : n[p] = 0 /\ answered[p] = 0 /\ Cardinality(InFlight(p)) = 0
    BY <1>2, <2>1 DEF Init
  <2> QED BY <2>2 DEF EpisodesAreItsOwn
<1> QED BY <1>1, <1>3 DEF TInv

\* Type correctness, for any number of workers.
THEOREM TypeCorrect == Spec => []TypeOK
<1>1. TInv => TypeOK
  BY DEF TInv
<1> QED BY TypeInit, TypeStep, <1>1, PTL DEF Spec

\* Every policy has exactly the episodes of the turns it answered, for any number of
\* turns and workers (proxy.rs, insert_episode).
THEOREM EpisodesOwned == Spec => []EpisodesAreItsOwn
<1>1. TInv => EpisodesAreItsOwn
  BY DEF TInv
<1> QED BY TypeInit, TypeStep, <1>1, PTL DEF Spec

-----------------------------------------------------------------------------
(***************************************************************************)
(* The hill climb, with any number of workers.                             *)
(***************************************************************************)

\* What a worker relies on survives a step that leaves its cycle and all policies
\* alone, if no policy loses episodes.
LEMMA StillSoKept ==
  ASSUME IInv, UNCHANGED policies, n' \in [Ids -> Nat], \A p \in Ids : n'[p] >= n[p],
         NEW w \in Workers, UNCHANGED <<pc[w], current[w], previous[w], from[w], overtaken[w]>>
  PROVE  StillSo(w)'
<1>1. Accepted' = Accepted /\ Known(w)' = Known(w)
  BY DEF policies, Accepted, Known
<1>2. Adjacent(previous[w], current[w])' <=> Adjacent(previous[w], current[w])
  BY <1>1 DEF Adjacent
<1>3. StillSo(w)
  BY DEF IInv
<1>4. n \in [Ids -> Nat] /\ MIN_EPISODES_PER_POLICY \in Nat /\ Known(w) \subseteq Ids
  BY ThresholdAssumption DEF IInv, TInv, TypeOK, Known, Accepted
<1>5. pc[w] \in {"predecessor", "compare", "reject"} => n'[current[w]] >= MIN_EPISODES_PER_POLICY
  BY <1>3, <1>4 DEF StillSo, Judging
<1>6. pc[w] = "reject" => n'[previous[w]] >= MIN_EPISODES_PER_POLICY
  BY <1>3, <1>4 DEF StillSo
<1> QED BY <1>1, <1>2, <1>3, <1>5, <1>6 DEF StillSo, Judging

\* A new row is newer than everything a worker has read.
LEMMA InsertStep ==
  ASSUME IInv, NEW w \in Workers, SeedDefaults(w) \/ InsertCandidate(w), NEW v \in Workers
  PROVE  StillSo(v)'
<1>1. TypeOK
  BY DEF IInv, TInv
<1>2. PICK b \in Ids \cup {Defaults} : InsertPolicy(b)
  BY Inserting DEF IInv
<1>3. EndCycle(w) /\ UNCHANGED <<log, conversations, bounds>>
  BY Inserting DEF IInv
<1>4. CASE v = w
  BY <1>1, <1>3, <1>4, EndCycleType DEF StillSo, Judging
<1>5. CASE v # w
  <2>1. UNCHANGED <<pc[v], current[v], previous[v], from[v], overtaken[v], n>>
    BY <1>1, <1>3, <1>5, EndCycleType DEF log
  <2>2. Accepted' = Accepted \cup {created + 1}
    <3>1. created + 1 \in Ids
      BY <1>1, <1>2, InsertType
    <3>2. status' = [status EXCEPT ![created + 1] = "accepted"]
      BY <1>2 DEF InsertPolicy
    <3>3. status \in [Ids -> {"none", "accepted", "rejected"}]
      BY <1>1 DEF TypeOK
    <3> QED BY <3>1, <3>2, <3>3 DEF Accepted
  <2>3. Known(v) \subseteq Known(v)'
    BY <2>1, <2>2 DEF Known
  <2>4. pc[v] \in Judging => current[v] \in Ids /\ current[v] <= created
    BY <1>1 DEF IInv, TInv, CurrentExists, TypeOK, Ids
  <2>5. ASSUME pc[v] \in {"compare", "reject"}, Adjacent(previous[v], current[v])
        PROVE  Adjacent(previous[v], current[v])'
    <3>1. created + 1 >= current[v]
      BY <1>1, <2>4, <2>5, BoundsAssumption DEF Judging, TypeOK, Ids
    <3> QED BY <2>1, <2>2, <2>5, <3>1 DEF Adjacent
  <2>6. StillSo(v)
    BY DEF IInv
  <2> QED BY <2>1, <2>3, <2>5, <2>6 DEF StillSo, Judging
<1> QED BY <1>4, <1>5

\* A rejection takes nothing from another worker but what it is told of, and leaves
\* the rejecting one the predecessor it explores from.
LEMMA RejectStep ==
  ASSUME IInv, NEW w \in Workers, Reject(w), NEW v \in Workers
  PROVE  StillSo(v)'
<1>1. TypeOK /\ StillSo(v) /\ StillSo(w)
  BY DEF IInv, TInv
<1>2. current[w] \in Ids /\ status' = [status EXCEPT ![current[w]] = "rejected"]
  BY RejectType DEF IInv
<1>3. Accepted' = Accepted \ {current[w]}
  BY <1>1, <1>2 DEF Accepted, TypeOK
<1>4. CASE v = w
  <2>1. previous[w] \in Known(w) /\ previous[w] # current[w]
    BY <1>1 DEF Reject, StillSo, Adjacent
  <2>2. pc'[w] = "insert" /\ from'[w] = previous[w] /\ overtaken'[w] = overtaken[w]
    BY <1>1 DEF Reject, Advance, MarkRejected, TypeOK
  <2>3. from'[w] \in Known(w)'
    BY <1>3, <2>1, <2>2 DEF Known
  <2> QED BY <1>4, <2>2, <2>3 DEF StillSo, Judging
<1>5. CASE v # w
  <2>1. UNCHANGED <<pc[v], current[v], previous[v], from[v], n>>
    BY <1>1, <1>5 DEF Reject, Advance, TypeOK, log
  <2>2. CASE pc[v] \in {"count", "serving", "seed"}
    BY <2>1, <2>2 DEF StillSo, Judging
  <2>3. CASE pc[v] \notin {"count", "serving", "seed"}
    <3>1. overtaken'[v] = overtaken[v] \cup {current[w]}
      BY <1>5, <2>3 DEF Reject, MarkRejected
    <3>2. Known(v) \subseteq Known(v)'
      BY <1>3, <3>1 DEF Known
    <3>3. Adjacent(previous[v], current[v]) => Adjacent(previous[v], current[v])'
      BY <1>3, <2>1 DEF Adjacent
    <3> QED BY <1>1, <2>1, <3>2, <3>3 DEF StillSo, Judging
  <2> QED BY <2>2, <2>3
<1> QED BY <1>4, <1>5

\* The other steps of a cycle read, and change nothing but the cycle.
LEMMA ReadStep ==
  ASSUME IInv, NEW w \in Workers,
         \/ CountEpisodes(w) \/ LoadServing(w) \/ MeasureCurrent(w) \/ LoadPrevious(w)
         \/ Compare(w) \/ AbandonCycle(w)
  PROVE  StillSo(w)'
<1>1. TypeOK /\ StillSo(w)
  BY DEF IInv, TInv
<1>2. CASE CountEpisodes(w)
  BY <1>1, <1>2 DEF CountEpisodes, Advance, StillSo, Judging, TypeOK
<1>3. CASE LoadServing(w)
  <2>1. UNCHANGED <<policies, overtaken>>
    BY <1>3 DEF LoadServing
  <2>2. Known(w)' = Known(w)
    BY <2>1 DEF policies, Known, Accepted
  <2>3. CASE Advance(w, "seed")
    BY <1>1, <2>3 DEF Advance, StillSo, Judging, TypeOK
  <2>4. ASSUME NEW p \in Serving, Advance(w, "mean"), current' = [current EXCEPT ![w] = p],
               from' = [from EXCEPT ![w] = p]
        PROVE  StillSo(w)'
    <3>1. pc'[w] = "mean" /\ current'[w] = p /\ from'[w] = p
      BY <1>1, <2>4 DEF Advance, TypeOK
    <3>2. p \in Known(w)
      BY DEF Serving, Newest, Known
    <3> QED BY <2>2, <3>1, <3>2 DEF StillSo, Judging
  <2> QED BY <1>3, <2>3, <2>4 DEF LoadServing
<1>4. CASE MeasureCurrent(w)
  <2>1. pc[w] = "mean" /\ UNCHANGED <<policies, n, current, previous, from, overtaken>>
    BY <1>4 DEF MeasureCurrent, log
  <2>2. \/ pc'[w] = "predecessor" /\ n[current[w]] >= MIN_EPISODES_PER_POLICY
        \/ pc'[w] = "insert"
    BY <1>1, <1>4 DEF MeasureCurrent, Advance, TypeOK
  <2>3. Known(w)' = Known(w)
    BY <2>1 DEF policies, Known, Accepted
  <2> QED BY <1>1, <2>1, <2>2, <2>3 DEF StillSo, Judging
<1>5. CASE LoadPrevious(w)
  <2>1. pc[w] = "predecessor" /\ UNCHANGED <<policies, n, current, from, overtaken>>
    BY <1>5 DEF LoadPrevious, log
  <2>2. \/ pc'[w] = "insert"
        \/ pc'[w] = "compare" /\ previous'[w] \in PreviousAccepted(current[w])
    BY <1>1, <1>5 DEF LoadPrevious, Advance, TypeOK
  <2>3. Known(w)' = Known(w) /\ Accepted' = Accepted
    BY <2>1 DEF policies, Known, Accepted
  <2>4. ASSUME previous'[w] \in PreviousAccepted(current[w])
        PROVE  previous'[w] \in Known(w) /\ Adjacent(previous'[w], current[w])
    <3>1. Accepted \subseteq Int /\ current[w] \in Int
      <4>1. current[w] \in Ids
        BY <2>1 DEF IInv, TInv, CurrentExists, Judging
      <4> QED BY <4>1, BoundsAssumption DEF Accepted, Ids
    <3>2. previous'[w] \in Accepted \ {current[w]}
          /\ \A r \in Accepted \ {current[w]} : r <= previous'[w]
      BY <2>4 DEF PreviousAccepted, Newest
    <3> QED BY <3>1, <3>2 DEF Known, Adjacent
  <2>5. Adjacent(previous'[w], current[w]) => Adjacent(previous[w], current[w])'
    BY <2>1, <2>3 DEF Adjacent
  <2> QED BY <1>1, <2>1, <2>2, <2>3, <2>4, <2>5 DEF StillSo, Judging
<1>6. CASE Compare(w)
  <2>1. pc[w] = "compare" /\ UNCHANGED <<policies, n, current, previous, from, overtaken>>
    BY <1>6 DEF Compare, log
  <2>2. \/ pc'[w] = "insert"
        \/ pc'[w] = "reject" /\ n[previous[w]] >= MIN_EPISODES_PER_POLICY
    BY <1>1, <1>6 DEF Compare, Advance, TypeOK
  <2>3. Known(w)' = Known(w) /\ Accepted' = Accepted
    BY <2>1 DEF policies, Known, Accepted
  <2>4. Adjacent(previous[w], current[w]) => Adjacent(previous[w], current[w])'
    BY <2>1, <2>3 DEF Adjacent
  <2> QED BY <1>1, <2>1, <2>2, <2>3, <2>4 DEF StillSo, Judging
<1>7. CASE AbandonCycle(w)
  <2>1. pc'[w] = "count"
    BY <1>1, <1>7, EndCycleType DEF AbandonCycle
  <2> QED BY <2>1 DEF StillSo, Judging
<1> QED BY <1>2, <1>3, <1>4, <1>5, <1>6, <1>7

\* Those steps do not reach another worker's cycle.
LEMMA ReadFrame ==
  ASSUME TypeOK, NEW w \in Workers, NEW v \in Workers \ {w},
         \/ CountEpisodes(w) \/ LoadServing(w) \/ MeasureCurrent(w) \/ LoadPrevious(w)
         \/ Compare(w) \/ AbandonCycle(w)
  PROVE  UNCHANGED <<policies, n, pc[v], current[v], previous[v], from[v], overtaken[v]>>
<1>1. CASE CountEpisodes(w)
  BY <1>1 DEF CountEpisodes, Advance, TypeOK, log
<1>2. CASE LoadServing(w)
  BY <1>2 DEF LoadServing, Advance, TypeOK, log
<1>3. CASE MeasureCurrent(w)
  BY <1>3 DEF MeasureCurrent, Advance, TypeOK, log
<1>4. CASE LoadPrevious(w)
  BY <1>4 DEF LoadPrevious, Advance, TypeOK, log
<1>5. CASE Compare(w)
  BY <1>5 DEF Compare, Advance, TypeOK, log
<1>6. CASE AbandonCycle(w)
  BY <1>6, EndCycleType DEF AbandonCycle, log
<1> QED BY <1>1, <1>2, <1>3, <1>4, <1>5, <1>6

\* Every step keeps what every worker relies on.
LEMMA StepPreserves == IInv /\ [Next]_vars => IInv'
<1> SUFFICES ASSUME IInv, [Next]_vars PROVE IInv'
  OBVIOUS
<1>0. TInv /\ TInv' /\ n \in [Ids -> Nat] /\ n' \in [Ids -> Nat]
  BY TypeStep DEF IInv, TInv, TypeOK
<1> SUFFICES ASSUME NEW v \in Workers PROVE StillSo(v)'
  BY <1>0 DEF IInv
<1>1. ASSUME NEW t \in Turns, Turn(t) PROVE StillSo(v)'
  <2>1. UNCHANGED policies /\ UNCHANGED worker /\ \A p \in Ids : n'[p] >= n[p]
    BY <1>0, <1>1, TurnStep DEF TInv
  <2> QED BY <1>0, <2>1, StillSoKept DEF worker
<1>2. ASSUME NEW p \in Ids, AggregateFeedback(p) PROVE StillSo(v)'
  BY <1>0, <1>2, StillSoKept DEF AggregateFeedback, worker
<1>3. ASSUME NEW w \in Workers,
             \/ CountEpisodes(w) \/ LoadServing(w) \/ MeasureCurrent(w) \/ LoadPrevious(w)
             \/ Compare(w) \/ AbandonCycle(w)
      PROVE  StillSo(v)'
  <2>1. CASE v = w
    BY <1>3, <2>1, ReadStep
  <2>2. CASE v # w
    <3>1. UNCHANGED <<policies, n, pc[v], current[v], previous[v], from[v], overtaken[v]>>
      BY <1>0, <1>3, <2>2, ReadFrame DEF TInv
    <3> QED BY <1>0, <3>1, StillSoKept
  <2> QED BY <2>1, <2>2
<1>4. ASSUME NEW w \in Workers, SeedDefaults(w) \/ InsertCandidate(w) PROVE StillSo(v)'
  BY <1>4, InsertStep
<1>5. ASSUME NEW w \in Workers, Reject(w) PROVE StillSo(v)'
  BY <1>5, RejectStep
<1>6. CASE UNCHANGED vars
  BY <1>0, <1>6, StillSoKept DEF vars, log, worker
<1> QED BY <1>1, <1>2, <1>3, <1>4, <1>5, <1>6 DEF Next, UpdatePolicy

\* Before anything ran there is nothing to rely on.
LEMMA InitEstablishes == Init => IInv
BY TypeInit DEF Init, IInv, StillSo, Judging

-----------------------------------------------------------------------------
(***************************************************************************)
(* The steps of the three action properties.                               *)
(***************************************************************************)

LosesLastToARace ==
  Accepted # {} /\ Accepted' = {} =>
    \E w \in Workers : pc[w] = "reject" /\ previous[w] \in overtaken[w]

RejectsForPredecessor ==
  \A p \in Accepted : status'[p] = "rejected" =>
    \E w \in Workers : \E q \in (Accepted \cup overtaken[w]) \ {p} :
      /\ pc[w] = "reject" /\ current[w] = p
      /\ \A r \in Accepted : r <= q \/ r >= p
      /\ n[p] >= MIN_EPISODES_PER_POLICY
      /\ n[q] >= MIN_EPISODES_PER_POLICY

ExploresFromKnown ==
  created' # created =>
    \E w \in Workers :
      /\ pc[w] \in {"seed", "insert"} /\ pc'[w] = "count"
      /\ base'[created'] \in Accepted \cup overtaken[w] \cup {Defaults}

\* Only Reject takes a policy out of service, and it takes the one that was judged.
LEMMA OnlyRejectRejects ==
  ASSUME IInv, [Next]_vars, NEW p \in Accepted, p \notin Accepted'
  PROVE  \E w \in Workers : Reject(w) /\ current[w] = p
<1>1. status' # status /\ p \in Ids /\ status[p] = "accepted" /\ status'[p] # "accepted"
  BY DEF Accepted
<1>2. ASSUME NEW b, InsertPolicy(b) PROVE FALSE
  BY <1>1, <1>2 DEF InsertPolicy, IInv, TInv, TypeOK
<1>3. ASSUME UNCHANGED policies PROVE FALSE
  BY <1>1, <1>3 DEF policies
<1>4. ASSUME NEW t \in Turns, Turn(t) PROVE FALSE
  BY <1>3, <1>4 DEF Turn, BeginTurn, LogEpisode, DropEpisode
<1>5. PICK w \in Workers : Reject(w)
  BY <1>2, <1>3, <1>4 DEF Next, AggregateFeedback, UpdatePolicy, CountEpisodes, LoadServing,
    SeedDefaults, MeasureCurrent, LoadPrevious, Compare, InsertCandidate, AbandonCycle, vars
<1>6. p = current[w]
  BY <1>1, <1>5, RejectType DEF IInv, TInv, TypeOK
<1> QED BY <1>5, <1>6

LEMMA RejectionStep == IInv /\ [Next]_vars => RejectsForPredecessor
<1> SUFFICES ASSUME IInv, [Next]_vars, NEW p \in Accepted, status'[p] = "rejected"
             PROVE  \E w \in Workers : \E q \in (Accepted \cup overtaken[w]) \ {p} :
                      /\ pc[w] = "reject" /\ current[w] = p
                      /\ \A r \in Accepted : r <= q \/ r >= p
                      /\ n[p] >= MIN_EPISODES_PER_POLICY
                      /\ n[q] >= MIN_EPISODES_PER_POLICY
  BY DEF RejectsForPredecessor
<1>1. p \notin Accepted'
  BY DEF Accepted
<1>2. PICK w \in Workers : Reject(w) /\ current[w] = p
  BY <1>1, OnlyRejectRejects
<1>3. StillSo(w) /\ pc[w] = "reject"
  BY <1>2 DEF IInv, Reject
<1>4. /\ previous[w] \in (Accepted \cup overtaken[w]) \ {p}
      /\ \A r \in Accepted : r <= previous[w] \/ r >= p
      /\ n[p] >= MIN_EPISODES_PER_POLICY
      /\ n[previous[w]] >= MIN_EPISODES_PER_POLICY
  BY <1>2, <1>3 DEF StillSo, Known, Adjacent
<1> QED BY <1>2, <1>3, <1>4

LEMMA LossStep == IInv /\ [Next]_vars => LosesLastToARace
<1> SUFFICES ASSUME IInv, [Next]_vars, NEW p \in Accepted, Accepted' = {}
             PROVE  \E w \in Workers : pc[w] = "reject" /\ previous[w] \in overtaken[w]
  BY DEF LosesLastToARace
<1>1. PICK w \in Workers : Reject(w) /\ current[w] = p
  BY OnlyRejectRejects
<1>2. previous[w] \in Known(w) /\ previous[w] # p /\ pc[w] = "reject"
  BY <1>1 DEF IInv, StillSo, Adjacent, Reject
<1>3. previous[w] \notin Accepted
  <2>1. Accepted' = Accepted \ {p}
    BY <1>1, RejectType DEF IInv, TInv, TypeOK, Accepted
  <2> QED BY <1>2, <2>1
<1> QED BY <1>2, <1>3 DEF Known

\* Only the seeding and InsertCandidate insert; the latter from what it knows.
LEMMA ExploringStep == IInv /\ [Next]_vars => ExploresFromKnown
<1> SUFFICES ASSUME IInv, [Next]_vars, created' # created
             PROVE  \E w \in Workers :
                      /\ pc[w] \in {"seed", "insert"} /\ pc'[w] = "count"
                      /\ base'[created'] \in Accepted \cup overtaken[w] \cup {Defaults}
  BY DEF ExploresFromKnown
<1>1. ASSUME UNCHANGED policies PROVE FALSE
  BY <1>1 DEF policies
<1>2. ASSUME NEW t \in Turns, Turn(t) PROVE FALSE
  BY <1>1, <1>2 DEF Turn, BeginTurn, LogEpisode, DropEpisode
<1>3. PICK w \in Workers : SeedDefaults(w) \/ InsertCandidate(w)
  BY <1>1, <1>2 DEF Next, AggregateFeedback, UpdatePolicy, CountEpisodes, LoadServing,
    MeasureCurrent, LoadPrevious, Compare, Reject, AbandonCycle, vars
<1>4. TypeOK
  BY DEF IInv, TInv
<1>5. pc'[w] = "count"
  BY <1>3, <1>4, EndCycleType DEF SeedDefaults, InsertCandidate
<1>6. CASE SeedDefaults(w)
  <2>1. InsertPolicy(Defaults) /\ pc[w] = "seed"
    BY <1>6 DEF SeedDefaults
  <2>2. created + 1 \in Ids
    BY <1>4, <2>1, InsertType
  <2>3. base'[created'] = Defaults
    BY <1>4, <2>1, <2>2 DEF InsertPolicy, TypeOK
  <2> QED BY <1>5, <2>1, <2>3
<1>7. CASE InsertCandidate(w)
  <2>1. InsertPolicy(from[w]) /\ pc[w] = "insert" /\ from[w] \in Known(w)
    BY <1>7 DEF InsertCandidate, IInv, StillSo
  <2>2. created + 1 \in Ids
    BY <1>4, <2>1, InsertType DEF TypeOK
  <2>3. base'[created'] = from[w]
    BY <1>4, <2>1, <2>2 DEF InsertPolicy, TypeOK
  <2> QED BY <1>5, <2>1, <2>3 DEF Known
<1> QED BY <1>3, <1>6, <1>7

\* An agent loses its last serving policy only when two workers reject each other's
\* (update_policy_for_agent takes no lock).
THEOREM LastPolicyRaced == Spec => LastPolicyLostOnlyToARace
<1>1. IInv /\ [Next]_vars => [LosesLastToARace]_vars
  BY LossStep
<1>2. Spec => [][LosesLastToARace]_vars
  BY InitEstablishes, StepPreserves, <1>1, PTL DEF Spec
<1> QED BY <1>2 DEF LastPolicyLostOnlyToARace, LosesLastToARace

\* A policy is rejected only for the one before it, and both have enough episodes
\* (get_previous_accepted_policy, MIN_EPISODES_PER_POLICY).
THEOREM RejectionsAreComparisons == Spec => RejectedForItsPredecessor
<1>1. IInv /\ [Next]_vars => [RejectsForPredecessor]_vars
  BY RejectionStep
<1>2. Spec => [][RejectsForPredecessor]_vars
  BY InitEstablishes, StepPreserves, <1>1, PTL DEF Spec
<1> QED BY <1>2 DEF RejectedForItsPredecessor, RejectsForPredecessor

\* No worker compounds a regression it could know of (rmk_worker.rs on the hill climb).
THEOREM KnownRegressionsEnd == Spec => CompoundsNoKnownRegression
<1>1. IInv /\ [Next]_vars => [ExploresFromKnown]_vars
  BY ExploringStep
<1>2. Spec => [][ExploresFromKnown]_vars
  BY InitEstablishes, StepPreserves, <1>1, PTL DEF Spec
<1> QED BY <1>2 DEF CompoundsNoKnownRegression, ExploresFromKnown

-----------------------------------------------------------------------------
(***************************************************************************)
(* PressureSweep: the inductive invariant.                                 *)
(***************************************************************************)

\* A sweeper is between two statements exactly if it holds the lock.
LockHeld == \A s \in Sweepers : statement[s] # "lock" <=> lock = s

\* What the holder of the lock will store is one update of what is stored.
Computed ==
  \A s \in Sweepers : statement[s] \in {"fetch", "write"} => state[s] = Update(ctl, counted[s])

\* While nobody else writes memories, what a sweep has read of them still holds.
Undisturbed ==
  \A s \in Sweepers \ disturbed :
    /\ statement[s] \in {"control", "fetch", "write"} => counted[s] = Cardinality(Active)
    /\ statement[s] = "write" => evict[s] \subseteq Active /\ restore[s] \subseteq Live \ Active

SweepInv ==
  /\ SweepTypeOK
  /\ LockHeld
  /\ Computed
  /\ Undisturbed

-----------------------------------------------------------------------------
(***************************************************************************)
(* The controller.                                                         *)
(***************************************************************************)

\* The target is raised to one, so errors can be scaled by it.
LEMMA GoalPositive == Goal \in Nat \ {0} /\ IntegralBound \in Nat
BY TargetAssumption DEF Goal, IntegralBound

\* A clamped integer lies in the range.
LEMMA ClampBounds ==
  ASSUME NEW x \in Int, NEW lo \in Int, NEW hi \in Int, lo <= hi
  PROVE  Clamp(x, lo, hi) \in lo..hi
BY DEF Clamp

\* A value in the range is left alone.
LEMMA ClampIdentity ==
  ASSUME NEW lo \in Int, NEW hi \in Int, NEW x \in lo..hi
  PROVE  Clamp(x, lo, hi) = x
BY DEF Clamp

\* The integral never leaves its range.
LEMMA AccumulateType ==
  ASSUME NEW c \in ControllerState, NEW error \in Int
  PROVE  Accumulate(c, error) \in -IntegralBound..IntegralBound
<1>1. c.integral \in -IntegralBound..IntegralBound
  BY DEF ControllerState
<1>2. c.integral + error \in Int /\ -IntegralBound \in Int /\ IntegralBound \in Int
      /\ -IntegralBound <= IntegralBound
  BY <1>1, GoalPositive
<1>3. Clamp(c.integral + error, -IntegralBound, IntegralBound) \in -IntegralBound..IntegralBound
  BY <1>2, ClampBounds
<1> QED BY <1>1, <1>3 DEF Accumulate

\* One cycle keeps aggressiveness and integral in their ranges, for any gains
\* and any count.
LEMMA UpdateType ==
  ASSUME NEW c \in ControllerState, NEW count \in Nat
  PROVE  Update(c, count) \in ControllerState
<1> DEFINE error == count - Target
           i == Accumulate(c, error)
           delta == (Kp * error + Ki * i) \div Goal
           change == Clamp(delta, -MaxChange, MaxChange)
<1>1. error \in Int
  BY TargetAssumption
<1>2. i \in -IntegralBound..IntegralBound
  BY <1>1, AccumulateType
<1>3. i \in Int
  BY <1>2, GoalPositive
<1>4. Kp * error \in Int /\ Ki * i \in Int
  BY <1>1, <1>3, ParamsAssumption
<1>5. delta \in Int
  <2> HIDE DEF error, i
  <2> QED BY <1>4, GoalPositive
<1>6. change \in Int
  <2> HIDE DEF delta
  <2>1. -MaxChange \in Int /\ MaxChange \in Int /\ -MaxChange <= MaxChange
    BY ParamsAssumption
  <2> QED BY <1>5, <2>1, ClampBounds
<1>7. c.aggressiveness \in Int
  BY UnitAssumption DEF ControllerState
<1>8. Clamp(c.aggressiveness + change, 0, One) \in 0..One
  <2> HIDE DEF change
  <2>1. c.aggressiveness + change \in Int /\ One \in Int /\ 0 <= One
    BY <1>6, <1>7, UnitAssumption
  <2> QED BY <2>1 DEF Clamp
<1>9. [aggressiveness |-> Clamp(c.aggressiveness + change, 0, One), integral |-> i] \in ControllerState
  <2> HIDE DEF change, i
  <2> QED BY <1>2, <1>8 DEF ControllerState
<1>10. Update(c, count) = IF Outside(error)
         THEN [aggressiveness |-> Clamp(c.aggressiveness + change, 0, One), integral |-> i] ELSE c
  BY DEF Update
<1> HIDE DEF error, i, change
<1> QED BY <1>9, <1>10

\* What is stored is in range, so reading it back clamps nothing.
LEMMA ReadBack ==
  ASSUME NEW c \in ControllerState
  PROVE  [aggressiveness |-> Clamp(c.aggressiveness, 0, One),
          integral |-> Clamp(c.integral, -IntegralBound, IntegralBound)] = c
<1>1. c.aggressiveness \in 0..One /\ c.integral \in -IntegralBound..IntegralBound
  BY DEF ControllerState
<1>2. One \in Int /\ IntegralBound \in Int /\ -IntegralBound \in Int
  BY UnitAssumption, GoalPositive
<1>3. Clamp(c.aggressiveness, 0, One) = c.aggressiveness
  BY <1>1, <1>2, ClampIdentity
<1>4. Clamp(c.integral, -IntegralBound, IntegralBound) = c.integral
  BY <1>1, <1>2, ClampIdentity
<1> QED BY <1>3, <1>4 DEF ControllerState

-----------------------------------------------------------------------------
(***************************************************************************)
(* Types.                                                                  *)
(***************************************************************************)

\* The active memories are finitely many.
LEMMA ActiveFinite == IsFiniteSet(Active) /\ Cardinality(Active) \in Nat
<1>1. Active \in SUBSET Mems
  BY DEF Active, Live
<1> QED BY <1>1, MemsAssumption, FS_Subset, FS_CardinalityType

\* No controller row reads as a controller at rest.
LEMMA ZeroType == Zero \in ControllerState
BY UnitAssumption, GoalPositive DEF Zero, ControllerState

\* A write of a memory by somebody else keeps the types.
LEMMA OthersType ==
  ASSUME SweepTypeOK, NEW m \in Mems, Others(m)
  PROVE  SweepTypeOK'
<1> USE DEF SweepTypeOK, Touch, sweep
<1>1. CASE StoreMemory(m) \/ Archive(m) \/ RestoreMemory(m) \/ DeleteMemory(m)
  BY <1>1 DEF StoreMemory, Archive, RestoreMemory, DeleteMemory, SetLife, Lives
<1>2. CASE ChangePressure(m)
  BY <1>2 DEF ChangePressure
<1>3. CASE GrowOld(m)
  BY <1>3 DEF GrowOld
<1> QED BY <1>1, <1>2, <1>3 DEF Others

\* Every step keeps the types.
LEMMA SweepTypeStep == SweepTypeOK /\ [SweepNext]_sweepVars => SweepTypeOK'
<1> SUFFICES ASSUME SweepTypeOK, [SweepNext]_sweepVars PROVE SweepTypeOK'
  OBVIOUS
<1> USE DEF SweepTypeOK, memories, limits, Statements
<1>1. ASSUME NEW s \in Sweepers, Lock(s) PROVE SweepTypeOK'
  BY <1>1 DEF Lock, MoveTo
<1>2. ASSUME NEW s \in Sweepers, CountActive(s) PROVE SweepTypeOK'
  BY <1>2, ActiveFinite DEF CountActive, MoveTo
<1>3. ASSUME NEW s \in Sweepers, UpdateController(s) PROVE SweepTypeOK'
  <2>1. state' = [state EXCEPT ![s] = Update(ctl, counted[s])]
    BY <1>3, ReadBack DEF UpdateController
  <2>2. Update(ctl, counted[s]) \in ControllerState
    BY UpdateType
  <2> QED BY <1>3, <2>1, <2>2 DEF UpdateController, MoveTo
<1>4. ASSUME NEW s \in Sweepers, FetchAndDecide(s) PROVE SweepTypeOK'
  <2>1. evict' \in [Sweepers -> SUBSET Mems]
    BY <1>4 DEF FetchAndDecide, Active, Live
  <2>2. restore' \in [Sweepers -> SUBSET Mems]
    BY <1>4 DEF FetchAndDecide, Live
  <2> QED BY <1>4, <2>1, <2>2 DEF FetchAndDecide, MoveTo
<1>5. ASSUME NEW s \in Sweepers, Commit(s) PROVE SweepTypeOK'
  BY <1>5, ZeroType DEF Commit, EndSweep, MoveTo
<1>6. ASSUME NEW s \in Sweepers, RollBack(s) PROVE SweepTypeOK'
  BY <1>6, ZeroType DEF RollBack
<1>7. ASSUME NEW m \in Mems, Others(m) PROVE SweepTypeOK'
  BY <1>7, OthersType
<1>8. CASE UNCHANGED sweepVars
  BY <1>8 DEF sweepVars, sweep
<1> QED BY <1>1, <1>2, <1>3, <1>4, <1>5, <1>6, <1>7, <1>8 DEF SweepNext, Sweep

\* At the start every sweeper is idle and the controller at rest.
LEMMA SweepTypeInit == SweepInit => SweepTypeOK
BY ZeroType, SweepBoundsAssumption DEF SweepInit, SweepTypeOK, Lives, Statements

\* Type correctness, the ranges of the controller among it, for any gains.
THEOREM SweepTypeCorrect == SweepSpec => []SweepTypeOK
BY SweepTypeInit, SweepTypeStep, PTL DEF SweepSpec

-----------------------------------------------------------------------------
(***************************************************************************)
(* The advisory lock and what it protects.                                 *)
(***************************************************************************)

\* Whoever is not waiting has the lock, so nobody else is between two statements.
LEMMA OneAtATime ==
  ASSUME LockHeld, NEW s \in Sweepers, NEW v \in Sweepers, statement[s] # "lock", statement[v] # "lock"
  PROVE  v = s
BY DEF LockHeld

\* The sweeper that moves is alone, before and after.
LEMMA LockStep == SweepTypeOK /\ LockHeld /\ [SweepNext]_sweepVars => LockHeld'
<1> SUFFICES ASSUME SweepTypeOK, LockHeld, [SweepNext]_sweepVars PROVE LockHeld'
  OBVIOUS
<1> USE FreeAssumption DEF SweepTypeOK, LockHeld
<1>1. ASSUME NEW s \in Sweepers, Lock(s) PROVE LockHeld'
  BY <1>1 DEF Lock, MoveTo
<1>2. ASSUME NEW s \in Sweepers, CountActive(s) \/ UpdateController(s) \/ FetchAndDecide(s)
      PROVE  LockHeld'
  BY <1>2 DEF CountActive, UpdateController, FetchAndDecide, MoveTo
<1>3. ASSUME NEW s \in Sweepers, Commit(s) PROVE LockHeld'
  BY <1>3 DEF Commit, EndSweep, MoveTo
<1>4. ASSUME NEW s \in Sweepers, RollBack(s) PROVE LockHeld'
  BY <1>4 DEF RollBack
<1>5. ASSUME NEW m \in Mems, Others(m) PROVE LockHeld'
  BY <1>5 DEF Others, StoreMemory, Archive, RestoreMemory, DeleteMemory, ChangePressure, GrowOld,
    Touch, sweep
<1>6. CASE UNCHANGED sweepVars
  BY <1>6 DEF sweepVars, sweep
<1> QED BY <1>1, <1>2, <1>3, <1>4, <1>5, <1>6 DEF SweepNext, Sweep

\* Writers of memories do not touch the sweeps.
LEMMA OthersKeepSweeps ==
  ASSUME NEW m \in Mems, Others(m)
  PROVE  UNCHANGED <<ctl, statement, counted, state, evict, restore>> /\ disturbed' = Sweepers
BY DEF Others, StoreMemory, Archive, RestoreMemory, DeleteMemory, ChangePressure, GrowOld, Touch, sweep

\* The controller row does not change between its update and the commit.
LEMMA ComputedStep == SweepTypeOK /\ LockHeld /\ Computed /\ [SweepNext]_sweepVars => Computed'
<1> SUFFICES ASSUME SweepTypeOK, LockHeld, Computed, [SweepNext]_sweepVars,
                    NEW v \in Sweepers, statement'[v] \in {"fetch", "write"}
             PROVE  state'[v] = Update(ctl', counted'[v])
  BY DEF Computed
<1>1. ASSUME NEW s \in Sweepers, Lock(s) \/ CountActive(s) \/ FetchAndDecide(s)
      PROVE  state'[v] = Update(ctl', counted'[v])
  <2>1. ctl' = ctl /\ state' = state
    BY <1>1 DEF Lock, CountActive, FetchAndDecide
  <2>2. statement[v] \in {"fetch", "write"} /\ counted'[v] = counted[v]
    BY <1>1 DEF Lock, CountActive, FetchAndDecide, MoveTo, SweepTypeOK
  <2> QED BY <2>1, <2>2 DEF Computed
<1>2. ASSUME NEW s \in Sweepers, UpdateController(s)
      PROVE  state'[v] = Update(ctl', counted'[v])
  <2>1. ctl' = ctl /\ counted' = counted /\ state' = [state EXCEPT ![s] = Update(ctl, counted[s])]
    BY <1>2, ReadBack DEF UpdateController, SweepTypeOK
  <2>2. CASE v = s
    BY <2>1, <2>2 DEF SweepTypeOK
  <2>3. CASE v # s
    BY <1>2, <2>1, <2>3 DEF UpdateController, MoveTo, SweepTypeOK, Computed
  <2> QED BY <2>2, <2>3
<1>3. ASSUME NEW s \in Sweepers, Commit(s) \/ RollBack(s)
      PROVE  state'[v] = Update(ctl', counted'[v])
  <2>1. statement[s] # "lock" /\ statement'[s] = "lock" /\ statement'[v] # "lock"
    BY <1>3 DEF Commit, EndSweep, MoveTo, RollBack, SweepTypeOK
  <2>2. v # s /\ statement[v] = statement'[v]
    BY <1>3, <2>1 DEF Commit, EndSweep, MoveTo, RollBack, SweepTypeOK
  <2> QED BY <2>1, <2>2, OneAtATime
<1>4. ASSUME NEW m \in Mems, Others(m)
      PROVE  state'[v] = Update(ctl', counted'[v])
  BY <1>4, OthersKeepSweeps DEF Computed
<1>5. CASE UNCHANGED sweepVars
  BY <1>5 DEF sweepVars, sweep, Computed
<1> QED BY <1>1, <1>2, <1>3, <1>4, <1>5 DEF SweepNext, Sweep

\* What a sweep has read of the memories holds until somebody writes them.
LEMMA UndisturbedStep == SweepTypeOK /\ LockHeld /\ Undisturbed /\ [SweepNext]_sweepVars => Undisturbed'
<1> SUFFICES ASSUME SweepTypeOK, LockHeld, Undisturbed, [SweepNext]_sweepVars,
                    NEW v \in Sweepers, v \notin disturbed'
             PROVE  /\ statement'[v] \in {"control", "fetch", "write"} => counted'[v] = Cardinality(Active')
                    /\ statement'[v] = "write" => evict'[v] \subseteq Active' /\ restore'[v] \subseteq Live' \ Active'
  BY DEF Undisturbed
<1> DEFINE Holds == /\ statement'[v] \in {"control", "fetch", "write"} => counted'[v] = Cardinality(Active')
                    /\ statement'[v] = "write" => evict'[v] \subseteq Active' /\ restore'[v] \subseteq Live' \ Active'
<1>a. ASSUME UNCHANGED memories PROVE Active' = Active /\ Live' = Live
  BY <1>a DEF memories, Active, Live
<1>b. ASSUME UNCHANGED memories, UNCHANGED <<statement[v], counted[v], evict[v], restore[v]>>, v \notin disturbed
      PROVE  Holds
  BY <1>a, <1>b DEF Undisturbed
<1>1. ASSUME NEW s \in Sweepers, Lock(s) PROVE Holds
  <2>1. CASE v = s
    BY <1>1, <2>1 DEF Lock, MoveTo, SweepTypeOK
  <2>2. CASE v # s
    BY <1>1, <1>b, <2>2 DEF Lock, MoveTo, SweepTypeOK
  <2> QED BY <2>1, <2>2
<1>2. ASSUME NEW s \in Sweepers, CountActive(s) PROVE Holds
  <2>1. CASE v = s
    BY <1>2, <1>a, <2>1 DEF CountActive, MoveTo, SweepTypeOK
  <2>2. CASE v # s
    BY <1>2, <1>b, <2>2 DEF CountActive, MoveTo, SweepTypeOK
  <2> QED BY <2>1, <2>2
<1>3. ASSUME NEW s \in Sweepers, UpdateController(s) PROVE Holds
  <2>1. CASE v = s
    BY <1>3, <1>a, <2>1 DEF UpdateController, MoveTo, SweepTypeOK, Undisturbed
  <2>2. CASE v # s
    BY <1>3, <1>b, <2>2 DEF UpdateController, MoveTo, SweepTypeOK
  <2> QED BY <2>1, <2>2
<1>4. ASSUME NEW s \in Sweepers, FetchAndDecide(s) PROVE Holds
  <2>1. CASE v = s
    <3>1. counted'[v] = Cardinality(Active')
      BY <1>4, <1>a, <2>1 DEF FetchAndDecide, MoveTo, SweepTypeOK, Undisturbed
    <3>2. evict'[v] \subseteq Active'
      BY <1>4, <1>a, <2>1 DEF FetchAndDecide, SweepTypeOK
    <3>3. restore'[v] \subseteq Live' \ Active'
      BY <1>4, <1>a, <2>1 DEF FetchAndDecide, SweepTypeOK, Active
    <3> QED BY <3>1, <3>2, <3>3
  <2>2. CASE v # s
    BY <1>4, <1>b, <2>2 DEF FetchAndDecide, MoveTo, SweepTypeOK
  <2> QED BY <2>1, <2>2
<1>5. ASSUME NEW s \in Sweepers, Commit(s) \/ RollBack(s) PROVE Holds
  <2>1. statement[s] # "lock" /\ statement'[s] = "lock"
    BY <1>5 DEF Commit, EndSweep, MoveTo, RollBack, SweepTypeOK
  <2>2. ASSUME statement'[v] # "lock" PROVE v # s /\ statement[v] = statement'[v]
    BY <1>5, <2>1, <2>2 DEF Commit, EndSweep, MoveTo, RollBack, SweepTypeOK
  <2>3. statement'[v] = "lock"
    BY <2>1, <2>2, OneAtATime
  <2> QED BY <2>3
<1>6. ASSUME NEW m \in Mems, Others(m) PROVE Holds
  BY <1>6, OthersKeepSweeps
<1>7. CASE UNCHANGED sweepVars
  BY <1>7, <1>b DEF sweepVars, sweep
<1> QED BY <1>1, <1>2, <1>3, <1>4, <1>5, <1>6, <1>7 DEF SweepNext, Sweep

\* The inductive invariant holds at the start.
LEMMA SweepInvInit == SweepInit => SweepInv
<1> SUFFICES ASSUME SweepInit PROVE SweepInv
  OBVIOUS
<1>1. SweepTypeOK
  BY SweepTypeInit
<1>2. LockHeld /\ Computed /\ Undisturbed
  BY FreeAssumption DEF SweepInit, LockHeld, Computed, Undisturbed
<1> QED BY <1>1, <1>2 DEF SweepInv

\* Every step keeps it.
LEMMA SweepInvNext == SweepInv /\ [SweepNext]_sweepVars => SweepInv'
BY SweepTypeStep, LockStep, ComputedStep, UndisturbedStep DEF SweepInv

-----------------------------------------------------------------------------
(***************************************************************************)
(* The two promises of a commit.                                           *)
(***************************************************************************)

Serial == \A s \in Sweepers : Commit(s) => ctl' = Update(ctl, counted[s])

Exact == \A s \in Sweepers \ disturbed : Commit(s) => Report(s) = Cardinality(Active')

\* Taking some elements out of a finite set and adding others counts as it should.
LEMMA Exchange ==
  ASSUME NEW A, IsFiniteSet(A), NEW E \in SUBSET A, NEW R, IsFiniteSet(R), A \cap R = {}
  PROVE  Cardinality((A \ E) \cup R) = Cardinality(A) - Cardinality(E) + Cardinality(R)
<1>1. A \cap E = E /\ (A \ E) \cap R = {}
  OBVIOUS
<1>2. IsFiniteSet(A \ E) /\ Cardinality(A \ E) = Cardinality(A) - Cardinality(E)
  BY <1>1, FS_Difference
<1>3. Cardinality((A \ E) \cup R) = Cardinality(A \ E) + Cardinality(R) - Cardinality({})
  BY <1>1, <1>2, FS_Union
<1>4. Cardinality({}) = 0
  BY FS_EmptySet
<1>5. IsFiniteSet(E)
  BY FS_Subset
<1>6. Cardinality(A) \in Nat /\ Cardinality(E) \in Nat /\ Cardinality(R) \in Nat
  BY <1>5, FS_CardinalityType
<1> QED BY <1>2, <1>3, <1>4, <1>6

\* A commit of an undisturbed sweep takes away evict, adds restore and nothing else.
LEMMA ExactStep == SweepInv => Exact
<1> SUFFICES ASSUME SweepInv, NEW s \in Sweepers \ disturbed, Commit(s)
             PROVE  Report(s) = Cardinality(Active')
  BY DEF Exact
<1>1. /\ counted[s] = Cardinality(Active)
      /\ evict[s] \subseteq Active /\ restore[s] \subseteq Live \ Active
  BY DEF SweepInv, Undisturbed, Commit, EndSweep, MoveTo
<1>2. Active' = (Active \ evict[s]) \cup restore[s]
  BY <1>1 DEF Active, Live, Commit, SweepInv, SweepTypeOK
<1>3. IsFiniteSet(restore[s])
  BY MemsAssumption, FS_Subset DEF SweepInv, SweepTypeOK
<1>4. Cardinality((Active \ evict[s]) \cup restore[s])
        = Cardinality(Active) - Cardinality(evict[s]) + Cardinality(restore[s])
  BY <1>1, <1>3, ActiveFinite, Exchange
<1>5. Report(s) = Cardinality(Active) - Cardinality(evict[s]) + Cardinality(restore[s])
  BY <1>1 DEF Report
<1> QED BY <1>2, <1>4, <1>5

\* No update of the controller is lost, for any number of sweepers
\* (pg_advisory_xact_lock over read, decide and write).
THEOREM UpdatesSerial == SweepSpec => UpdatesAreSerial
<1>1. SweepInv /\ [SweepNext]_sweepVars => [Serial]_sweepVars
  <2> SUFFICES ASSUME SweepInv, NEW s \in Sweepers, Commit(s) PROVE ctl' = Update(ctl, counted[s])
    BY DEF Serial
  <2>1. statement[s] = "write" /\ ctl' = state[s]
    BY DEF Commit, EndSweep, MoveTo
  <2> QED BY <2>1 DEF SweepInv, Computed
<1>2. SweepSpec => [][Serial]_sweepVars
  BY SweepInvInit, SweepInvNext, <1>1, PTL DEF SweepSpec
<1> QED BY <1>2 DEF UpdatesAreSerial, Serial

\* The report of an undisturbed sweep is the number of active memories.
THEOREM ReportsExact == SweepSpec => ReportIsExact
<1>1. SweepInv /\ [SweepNext]_sweepVars => [Exact]_sweepVars
  BY ExactStep
<1>2. SweepSpec => [][Exact]_sweepVars
  BY SweepInvInit, SweepInvNext, <1>1, PTL DEF SweepSpec
<1> QED BY <1>2 DEF ReportIsExact, Exact
=============================================================================
