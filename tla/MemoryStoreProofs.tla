-------------------------- MODULE MemoryStoreProofs --------------------------
(***************************************************************************)
(* Proofs about MemoryStore, for any requests, memories, size of the pool  *)
(* and number of faults.                                                   *)
(***************************************************************************)
EXTENDS MemoryStore, TLAPS

-----------------------------------------------------------------------------
(***************************************************************************)
(* The inductive invariant: a transaction that changed a row keeps its     *)
(* lock to the end, so between its statements only it touches the row and  *)
(* its versions; and what a handler carries from a label it read is never  *)
(* more than that label allowed.                                           *)
(***************************************************************************)

\* What a request carries suits what it does, and only patches and status
\* changes open a transaction.
ArgumentsFit ==
    \A r \in Requests :
        /\ req[r].op = "status" => req[r].arg \in Statuses
        /\ req[r].op \in {"label", "patch"} => req[r].arg \in Labels
        /\ req[r].at \in {"read_label", "embed", "next_ver"} => req[r].op = "patch"
        /\ req[r].at \in InTx => req[r].op \in {"patch", "status"}

\* An open change holds the lock of its live row, and nobody else holds one.
LocksExclude ==
    /\ \A r \in Requests : req[r].at \in InTx =>
            /\ lock[req[r].on] = r
            /\ memory[req[r].on].life = "live"
    /\ \A m \in Memories : lock[m] # NoOne =>
            /\ req[lock[m]].on = m
            /\ req[lock[m]].at \in InTx

\* The id of a row to come belongs to one create.
IdsAreReserved ==
    \A r \in Requests : req[r].at \in {"dedup", "insert"} =>
        /\ memory[req[r].on].life = "unborn"
        /\ \A q \in Requests \ {r} : req[q].at # "idle" => req[q].on # req[r].on

\* A handler is torn in the last steps of its transaction only.
TornAtTheEnd == \A r \in Requests : req[r].torn => req[r].at \in {"commit", "ended"}

\* A version tells a row.
Tells(v, row) == v.content = row.content /\ v.status = row.status

\* The latest version tells the row as its committed change, when one is about to
\* commit, or as it is.
Told(m) ==
    /\ versions[m] # << >>
    /\ \A q \in Requests : (lock[m] = q /\ req[q].at = "commit") => Tells(Latest(m), Pending(q))
    /\ (\A q \in Requests : lock[m] = q => req[q].at # "commit") => Tells(Latest(m), memory[m])

\* As long as no handler was torn on it, a row there is told.
VersionsTell == \A m \in Memories : (Present(m) /\ Untorn(m)) => Told(m)

\* A shielded row is private, and no handler carries it to the remote provider.
ShieldHolds ==
    \A r \in Requests :
        /\ \A m \in shielded[r] : IsPrivate(memory[m].label) /\ memory[m].life # "unborn"
        /\ (req[r].at = "embed" /\ req[r].on \in shielded[r]) => IsPrivate(req[r].arg)
        /\ req[r].at \in {"detect", "prompt"} => req[r].on \notin shielded[r]
        /\ req[r].at = "prompt" => req[r].cands \cap shielded[r] = {}

\* All of it.
IInv ==
    /\ TypeOK /\ ArgumentsFit /\ LocksExclude /\ IdsAreReserved /\ TornAtTheEnd
    /\ VersionsTell /\ NumbersNeverCollide /\ ShieldHolds /\ LabelledBeforeStaysLocal

\* The parts of TypeOK, the types apart from the last conjunct.
RequestType ==
    [op : Ops, on : Memories,
     at : {"idle", "read_label", "embed", "begin", "update", "next_ver", "version", "commit",
           "dedup", "insert", "detect", "prompt", "conflict", "ended"},
     arg : Labels \cup Statuses, next : Nat, torn : BOOLEAN, cands : SUBSET Memories]

RowType == [life : Lives, content : Requests \cup {NoOne}, status : Statuses, label : Labels]

VersionType == [content : Requests \cup {NoOne}, status : Statuses, by : Requests \cup {NoOne}]

Types ==
    /\ memory \in [Memories -> RowType]
    /\ versions \in [Memories -> Seq(VersionType)]
    /\ lock \in [Memories -> Requests \cup {NoOne}]
    /\ conflicts \subseteq SUBSET Memories
    /\ req \in [Requests -> RequestType]
    /\ shielded \in [Requests -> SUBSET Memories]
    /\ remote \subseteq [via : {"embedder", "extractor"}, label : Labels, shielded : BOOLEAN]
    /\ faults \in 0..MaxFaults

OrphansHaveNoVersions == \A m \in Memories : ~Present(m) => versions[m] = <<>>

\* TypeOK is its types and its fact about versions.
LEMMA TypesApart == TypeOK <=> Types /\ OrphansHaveNoVersions
BY DEF TypeOK, Types, OrphansHaveNoVersions, RequestType, RowType, VersionType

\* The record of a request that has not arrived.
LEMMA IdleIsTyped == Idle \in RequestType /\ Idle.at = "idle" /\ Idle.op = "create" /\ Idle.torn = FALSE /\ Idle.cands = {}
BY ConstantsAssumption DEF Idle, RequestType, Ops, Labels, Statuses

\* What the end of a handler leaves of its request.
LEMMA EndDoes ==
    ASSUME Types, NEW r \in Requests, NEW torn \in BOOLEAN, End(r, torn)
    PROVE  /\ req' \in [Requests -> RequestType]
           /\ \A q \in Requests \ {r} : req'[q] = req[q]
           /\ req'[r].op = "create" /\ req'[r].at = "ended" /\ req'[r].on = req[r].on
           /\ req'[r].torn = (req[r].torn \/ torn)
           /\ req'[r].cands = {}
<1> DEFINE new == [Idle EXCEPT !.on = req[r].on, !.at = "ended", !.torn = req[r].torn \/ torn]
<1>1. req[r] \in RequestType
  BY DEF Types
<1>2. /\ new \in RequestType
      /\ new.op = "create" /\ new.at = "ended" /\ new.on = req[r].on
      /\ new.torn = (req[r].torn \/ torn) /\ new.cands = {}
  <2> DEFINE t == req[r].torn \/ torn
  <2>1. t \in BOOLEAN
    BY <1>1 DEF RequestType
  <2> HIDE DEF t
  <2>2. new = [Idle EXCEPT !.on = req[r].on, !.at = "ended", !.torn = t]
    BY DEF t
  <2>3. /\ new \in RequestType
        /\ new.op = "create" /\ new.at = "ended" /\ new.on = req[r].on
        /\ new.torn = t /\ new.cands = {}
    BY <1>1, <2>1, <2>2, IdleIsTyped DEF RequestType
  <2> QED
    BY <2>3 DEF t
<1>3. req' = [req EXCEPT ![r] = new]
  BY DEF End
<1> HIDE DEF new
<1> QED
  BY <1>2, <1>3 DEF Types

\* What a move to another place leaves of a request.
LEMMA GotoDoes ==
    ASSUME Types, NEW r \in Requests, NEW at, Goto(r, at),
           at \in {"begin", "update", "next_ver", "version", "commit", "insert", "detect", "conflict"}
    PROVE  /\ req' \in [Requests -> RequestType]
           /\ \A q \in Requests \ {r} : req'[q] = req[q]
           /\ req'[r] = [req[r] EXCEPT !.at = at]
<1> DEFINE new == [req[r] EXCEPT !.at = at]
<1>1. req[r] \in RequestType
  BY DEF Types
<1>2. new \in RequestType
  BY <1>1 DEF RequestType
<1>3. req' = [req EXCEPT ![r] = new]
  BY <1>1 DEF Goto, Types
<1> HIDE DEF new
<1>4. /\ req' \in [Requests -> RequestType]
      /\ \A q \in Requests \ {r} : req'[q] = req[q]
      /\ req'[r] = new
  BY <1>2, <1>3 DEF Types
<1> QED
  BY <1>4 DEF new

\* What the read of a label leaves of a patch.
LEMMA ReadLabelDoes ==
    ASSUME Types, NEW r \in Requests, ReadLabel(r), Present(req[r].on)
    PROVE  /\ req' \in [Requests -> RequestType]
           /\ \A q \in Requests \ {r} : req'[q] = req[q]
           /\ req'[r] = [req[r] EXCEPT !.at = "embed", !.arg = memory[req[r].on].label]
<1> DEFINE label == memory[req[r].on].label
           new == [req[r] EXCEPT !.at = "embed", !.arg = label]
<1>1. req[r] \in RequestType /\ label \in Labels
  BY DEF Types, RequestType, RowType
<1>2. req' = [req EXCEPT ![r] = new]
  BY <1>1 DEF ReadLabel, Types
<1> HIDE DEF label
<1>3. new \in RequestType
  BY <1>1 DEF RequestType
<1> HIDE DEF new
<1>4. /\ req' \in [Requests -> RequestType]
      /\ \A q \in Requests \ {r} : req'[q] = req[q]
      /\ req'[r] = new
  BY <1>2, <1>3 DEF Types
<1> QED
  BY <1>4 DEF new, label

\* The change about to commit is a row with the life and the label it has.
LEMMA PendingIsTyped ==
    ASSUME Types, ArgumentsFit, NEW r \in Requests, req[r].at \in InTx
    PROVE  /\ Pending(r) \in RowType
           /\ Pending(r).life = memory[req[r].on].life
           /\ Pending(r).label = memory[req[r].on].label
<1>1. req[r] \in RequestType /\ memory[req[r].on] \in RowType
  BY DEF Types, RequestType
<1>2. CASE req[r].op = "patch"
  BY <1>1, <1>2 DEF Pending, RowType
<1>3. CASE req[r].op = "status"
  BY <1>1, <1>3 DEF Pending, RowType, ArgumentsFit
<1> QED
  BY <1>2, <1>3 DEF ArgumentsFit

\* A version is well typed.
LEMMA VersionIsTyped ==
    ASSUME NEW c \in Requests \cup {NoOne}, NEW st \in Statuses, NEW by \in Requests \cup {NoOne}
    PROVE  /\ Version(c, st, by) \in VersionType
           /\ Version(c, st, by).content = c
           /\ Version(c, st, by).status = st
BY DEF Version, VersionType

\* So is a new row.
LEMMA RowIsTyped ==
    ASSUME NEW life \in Lives, NEW c \in Requests \cup {NoOne}
    PROVE  Row(life, c) \in RowType
BY DEF Row, RowType, Statuses, Labels

\* The initial states are well typed.
LEMMA InitIsTyped == Init => Types
<1> SUFFICES ASSUME Init PROVE Types
  OBVIOUS
<1>1. memory \in [Memories -> RowType]
  BY RowIsTyped DEF Init, Lives
<1>2. versions \in [Memories -> Seq(VersionType)]
  <2>1. Version(NoOne, "active", NoOne) \in VersionType
    BY VersionIsTyped DEF Statuses
  <2>2. <<Version(NoOne, "active", NoOne)>> \in Seq(VersionType) /\ << >> \in Seq(VersionType)
    BY <2>1
  <2> QED
    BY <2>2 DEF Init
<1>3. req \in [Requests -> RequestType]
  BY IdleIsTyped DEF Init
<1> QED
  BY <1>1, <1>2, <1>3, ConstantsAssumption DEF Init, Types

Sendings == [via : {"embedder", "extractor"}, label : Labels, shielded : BOOLEAN]

\* So is what is sent.
LEMMA SendsAreTyped ==
    ASSUME Types, NEW r \in Requests, NEW via \in {"embedder", "extractor"},
           NEW ms \in SUBSET Memories, Send(r, via, ms)
    PROVE  remote' \subseteq Sendings
<1> DEFINE Sent(m) == [via |-> via, label |-> memory[m].label, shielded |-> m \in shielded[r]]
<1>1. ASSUME NEW m \in ms PROVE Sent(m) \in Sendings
  <2> DEFINE l == memory[m].label
             h == m \in shielded[r]
  <2>1. l \in Labels /\ h \in BOOLEAN
    BY DEF Types, RowType
  <2> HIDE DEF l, h
  <2>2. [via |-> via, label |-> l, shielded |-> h] \in Sendings
    BY <2>1 DEF Sendings
  <2> QED
    BY <2>2 DEF l, h
<1>2. remote' = remote \cup {Sent(m) : m \in ms}
  BY DEF Send
<1>3. remote \subseteq Sendings
  BY DEF Types, Sendings
<1> HIDE DEF Sent
<1> QED
  BY <1>1, <1>2, <1>3

\* What a request that arrives asks for.
Asks(r, op, m, arg) ==
    /\ op = "create" => /\ memory[m].life = "unborn"
                        /\ \A q \in Requests : req[q].at # "idle" => req[q].on # m
    /\ op # "create" => Present(m)
    /\ arg \in CASE op = "label" -> Labels [] op = "status" -> Statuses [] OTHER -> {"unknown"}
    /\ req'[r] = [req[r] EXCEPT !.op = op, !.on = m, !.arg = arg, !.at = Entry(op)]

\* Where a request of each kind begins.
LEMMA EntryIsAPlace ==
    ASSUME NEW op \in Ops
    PROVE  /\ Entry(op) \in {"read_label", "dedup", "begin"}
           /\ Entry(op) = "read_label" <=> op = "patch"
           /\ Entry(op) = "dedup" <=> op = "create"
BY DEF Entry, Ops

\* What an arrival leaves of a request.
LEMMA ArriveDoes ==
    ASSUME Types, NEW r \in Requests, Arrive(r)
    PROVE  /\ req' \in [Requests -> RequestType]
           /\ \A q \in Requests \ {r} : req'[q] = req[q]
           /\ \E op \in Ops, m \in Memories, arg \in Labels \cup Statuses : Asks(r, op, m, arg)
<1>1. PICK op \in Ops, m \in Memories, arg \in Labels \cup Statuses :
        /\ op = "create" =>
            /\ memory[m].life = "unborn"
            /\ \A q \in Requests : req[q].at # "idle" => req[q].on # m
        /\ op # "create" => Present(m)
        /\ arg \in CASE op = "label" -> Labels [] op = "status" -> Statuses [] OTHER -> {"unknown"}
        /\ req' = [req EXCEPT ![r] = [@ EXCEPT !.op = op, !.on = m, !.arg = arg, !.at = Entry(op)]]
  BY DEF Arrive
<1> DEFINE new == [req[r] EXCEPT !.op = op, !.on = m, !.arg = arg, !.at = Entry(op)]
<1>2. new \in RequestType
  <2>1. req[r] \in RequestType
    BY DEF Types
  <2> QED
    BY <2>1, EntryIsAPlace DEF RequestType
<1>3. req' = [req EXCEPT ![r] = new]
  BY <1>1 DEF Types
<1> HIDE DEF new
<1>4. /\ req' \in [Requests -> RequestType]
      /\ \A q \in Requests \ {r} : req'[q] = req[q]
      /\ req'[r] = new
  BY <1>2, <1>3 DEF Types
<1>5. Asks(r, op, m, arg)
  BY <1>1, <1>4 DEF Asks, new
<1> QED
  BY <1>4, <1>5

\* Every step keeps the types.
LEMMA TypesStep ==
    ASSUME Types, ArgumentsFit, [Next]_vars
    PROVE  Types'
<1>0. CASE UNCHANGED vars
  BY <1>0 DEF Types, vars
<1>1. ASSUME NEW r \in Requests, Arrive(r) PROVE Types'
  <2>1. req' \in [Requests -> RequestType]
    BY <1>1, ArriveDoes
  <2> QED
    BY <1>1, <2>1 DEF Arrive, Types
<1>2. ASSUME NEW r \in Requests, ReadLabel(r) PROVE Types'
  <2>1. req' \in [Requests -> RequestType]
    <3>1. CASE Present(req[r].on)
      BY <1>2, <3>1, ReadLabelDoes
    <3>2. CASE ~Present(req[r].on)
      BY <1>2, <3>2, EndDoes DEF ReadLabel
    <3> QED
      BY <3>1, <3>2
  <2> QED
    BY <1>2, <2>1 DEF ReadLabel, Types
<1>3. ASSUME NEW r \in Requests, EmbedPatch(r) PROVE Types'
  <2>1. req' \in [Requests -> RequestType]
    BY <1>3, EndDoes, GotoDoes DEF EmbedPatch
  <2>2. remote' \subseteq Sendings
    <3>1. {req[r].on} \in SUBSET Memories
      BY DEF Types, RequestType
    <3>2. Send(r, "embedder", {req[r].on}) \/ UNCHANGED remote
      BY <1>3 DEF EmbedPatch
    <3> QED
      BY <3>1, <3>2, SendsAreTyped DEF Types, Sendings
  <2> QED
    BY <1>3, <2>1, <2>2 DEF EmbedPatch, Types, Sendings
<1>4. ASSUME NEW r \in Requests, Begin(r) PROVE Types'
  <2>1. req' \in [Requests -> RequestType]
    BY <1>4, GotoDoes DEF Begin
  <2> QED
    BY <1>4, <2>1 DEF Begin, Types
<1>5. ASSUME NEW r \in Requests, OpenChange(r) PROVE Types'
  <2>1. req' \in [Requests -> RequestType]
    BY <1>5, EndDoes, GotoDoes DEF OpenChange
  <2>2. lock' \in [Memories -> Requests \cup {NoOne}]
    BY <1>5 DEF OpenChange, Take, Types
  <2> QED
    BY <1>5, <2>1, <2>2 DEF OpenChange, Types
<1>6. ASSUME NEW r \in Requests, ChangeRow(r) PROVE Types'
  <2>1. req' \in [Requests -> RequestType]
    BY <1>6, EndDoes DEF ChangeRow
  <2>2. memory' \in [Memories -> RowType]
    <3>1. req[r] \in RequestType /\ memory[req[r].on] \in RowType
      BY DEF Types, RequestType
    <3>2. req[r].op = "label" => [memory[req[r].on] EXCEPT !.label = req[r].arg] \in RowType
      BY <3>1 DEF RowType, ArgumentsFit
    <3>3. \A life \in Lives : [memory[req[r].on] EXCEPT !.life = life] \in RowType
      BY <3>1 DEF RowType
    <3>4. "archived" \in Lives /\ "live" \in Lives
      BY DEF Lives
    <3>5. \/ UNCHANGED memory
          \/ req[r].op = "label" /\ memory' = [memory EXCEPT ![req[r].on] = [memory[req[r].on] EXCEPT !.label = req[r].arg]]
          \/ memory' = [memory EXCEPT ![req[r].on] = [memory[req[r].on] EXCEPT !.life = "archived"]]
          \/ memory' = [memory EXCEPT ![req[r].on] = [memory[req[r].on] EXCEPT !.life = "live"]]
      BY <1>6 DEF ChangeRow
    <3> QED
      BY <3>2, <3>3, <3>4, <3>5 DEF Types
  <2>3. shielded' \in [Requests -> SUBSET Memories]
    BY <1>6 DEF ChangeRow, Types
  <2> QED
    BY <1>6, <2>1, <2>2, <2>3 DEF ChangeRow, Types
<1>7. ASSUME NEW r \in Requests, DeleteRow(r) PROVE Types'
  <2>1. req' \in [Requests -> RequestType]
    BY <1>7, EndDoes DEF DeleteRow
  <2>2. memory' \in [Memories -> RowType]
    <3>1. req[r].on \in Memories /\ memory[req[r].on] \in RowType
      BY DEF Types, RequestType
    <3> DEFINE life == IF Present(req[r].on) THEN "deleted" ELSE memory[req[r].on].life
    <3>2. life \in Lives
      BY <3>1 DEF Lives, RowType
    <3>3. memory' = [memory EXCEPT ![req[r].on] = [memory[req[r].on] EXCEPT !.life = life]]
      BY <1>7 DEF DeleteRow, Types
    <3> HIDE DEF life
    <3>4. [memory[req[r].on] EXCEPT !.life = life] \in RowType
      BY <3>1, <3>2 DEF RowType
    <3> QED
      BY <3>3, <3>4 DEF Types
  <2>3. versions' \in [Memories -> Seq(VersionType)]
    <3>1. << >> \in Seq(VersionType)
      OBVIOUS
    <3> QED
      BY <1>7, <3>1 DEF DeleteRow, Types
  <2>4. conflicts' \subseteq SUBSET Memories
    BY <1>7 DEF DeleteRow, Types
  <2> QED
    BY <1>7, <2>1, <2>2, <2>3, <2>4 DEF DeleteRow, Types
<1>8. ASSUME NEW r \in Requests, BumpDuplicate(r) PROVE Types'
  <2>1. req' \in [Requests -> RequestType]
    BY <1>8, EndDoes DEF BumpDuplicate
  <2> QED
    BY <1>8, <2>1 DEF BumpDuplicate, Types
<1>9. ASSUME NEW r \in Requests, NextVersion(r) PROVE Types'
  <2> DEFINE n == Len(versions[req[r].on]) + 1
             new == [req[r] EXCEPT !.at = "version", !.next = n]
  <2>1. req[r] \in RequestType /\ n \in Nat
    <3>1. req[r] \in RequestType /\ versions[req[r].on] \in Seq(VersionType)
      BY DEF Types, RequestType
    <3> QED
      BY <3>1
  <2>2. req' = [req EXCEPT ![r] = new]
    BY <1>9, <2>1 DEF NextVersion, Types
  <2> HIDE DEF n
  <2>3. new \in RequestType
    BY <2>1 DEF RequestType
  <2> HIDE DEF new
  <2>4. req' \in [Requests -> RequestType]
    BY <2>2, <2>3 DEF Types
  <2> QED
    BY <1>9, <2>4 DEF NextVersion, Types
<1>10. ASSUME NEW r \in Requests, InsertVersion(r) PROVE Types'
  <2>1. req' \in [Requests -> RequestType]
    BY <1>10, EndDoes, GotoDoes DEF InsertVersion
  <2>2. lock' \in [Memories -> Requests \cup {NoOne}]
    BY <1>10 DEF InsertVersion, Release, Types
  <2>3. versions' \in [Memories -> Seq(VersionType)]
    <3>1. Pending(r) \in RowType
      BY <1>10, PendingIsTyped DEF InsertVersion, InTx
    <3> DEFINE v == Version(Pending(r).content, Pending(r).status, r)
    <3>2. v \in VersionType
      BY <3>1, VersionIsTyped DEF RowType
    <3>3. req[r].on \in Memories
      BY DEF Types, RequestType
    <3>4. UNCHANGED versions \/ versions' = [versions EXCEPT ![req[r].on] = Append(versions[req[r].on], v)]
      BY <1>10, <3>3 DEF InsertVersion, Append1, Types
    <3> HIDE DEF v
    <3>5. Append(versions[req[r].on], v) \in Seq(VersionType)
      BY <3>2, <3>3 DEF Types
    <3> QED
      BY <3>4, <3>5 DEF Types
  <2> QED
    BY <1>10, <2>1, <2>2, <2>3 DEF InsertVersion, Types
<1>11. ASSUME NEW r \in Requests, Commit(r) PROVE Types'
  <2>1. req' \in [Requests -> RequestType]
    BY <1>11, EndDoes DEF Commit
  <2>2. lock' \in [Memories -> Requests \cup {NoOne}]
    BY <1>11 DEF Commit, Release, Types
  <2>3. Pending(r) \in RowType
    BY <1>11, PendingIsTyped DEF Commit, InTx
  <2>4. memory' \in [Memories -> RowType]
    BY <1>11, <2>3 DEF Commit, Types
  <2> QED
    BY <1>11, <2>1, <2>2, <2>4 DEF Commit, Types
<1>12. ASSUME NEW r \in Requests, CheckDuplicate(r) PROVE Types'
  <2>1. req' \in [Requests -> RequestType]
    <3>1. CASE Goto(r, "insert")
      BY <3>1, GotoDoes
    <3>2. ASSUME NEW m \in Memories, req' = [req EXCEPT ![r].at = "begin", ![r].on = m]
          PROVE  req' \in [Requests -> RequestType]
      <4>1. req[r] \in RequestType
        BY DEF Types
      <4>2. [req[r] EXCEPT !.at = "begin", !.on = m] \in RequestType
        BY <4>1 DEF RequestType
      <4> QED
        BY <3>2, <4>1, <4>2 DEF Types
    <3> QED
      BY <1>12, <3>1, <3>2 DEF CheckDuplicate
  <2> QED
    BY <1>12, <2>1 DEF CheckDuplicate, Types
<1>13. ASSUME NEW r \in Requests, InsertMemory(r) PROVE Types'
  <2>1. req' \in [Requests -> RequestType]
    BY <1>13, EndDoes, GotoDoes DEF InsertMemory
  <2>2. memory' \in [Memories -> RowType]
    <3>1. Row("live", r) \in RowType
      BY RowIsTyped DEF Lives
    <3> QED
      BY <1>13, <3>1 DEF InsertMemory, Types
  <2>3. versions' \in [Memories -> Seq(VersionType)]
    <3>1. Version(r, "active", r) \in VersionType
      BY VersionIsTyped DEF Statuses
    <3>2. <<Version(r, "active", r)>> \in Seq(VersionType)
      BY <3>1
    <3> QED
      BY <1>13, <3>2 DEF InsertMemory, Types
  <2> QED
    BY <1>13, <2>1, <2>2, <2>3 DEF InsertMemory, Types
<1>14. ASSUME NEW r \in Requests, FetchCandidates(r) PROVE Types'
  <2>1. req' \in [Requests -> RequestType]
    <3>1. CASE End(r, FALSE)
      BY <3>1, EndDoes
    <3>2. CASE req' = [req EXCEPT ![r].cands = Candidates(r), ![r].at = "prompt"]
      <4>1. req[r] \in RequestType /\ Candidates(r) \in SUBSET Memories
        BY DEF Types, Candidates
      <4>2. [req[r] EXCEPT !.cands = Candidates(r), !.at = "prompt"] \in RequestType
        BY <4>1 DEF RequestType
      <4> QED
        BY <3>2, <4>2 DEF Types
    <3> QED
      BY <1>14, <3>1, <3>2 DEF FetchCandidates
  <2> QED
    BY <1>14, <2>1 DEF FetchCandidates, Types
<1>15. ASSUME NEW r \in Requests, Prompt(r) PROVE Types'
  <2>1. req' \in [Requests -> RequestType]
    BY <1>15, EndDoes, GotoDoes DEF Prompt
  <2>2. req[r].cands \cup {req[r].on} \in SUBSET Memories
    BY DEF Types, RequestType
  <2>3. remote' \subseteq Sendings
    BY <1>15, <2>2, SendsAreTyped DEF Prompt
  <2> QED
    BY <1>15, <2>1, <2>3 DEF Prompt, Types, Sendings
<1>16. ASSUME NEW r \in Requests, StoreConflicts(r) PROVE Types'
  <2>1. req' \in [Requests -> RequestType]
    BY <1>16, EndDoes DEF StoreConflicts
  <2>2. req[r].on \in Memories /\ req[r].cands \subseteq Memories
    BY DEF Types, RequestType
  <2>3. conflicts' \subseteq SUBSET Memories
    <3>1. PICK flagged \in SUBSET req[r].cands : conflicts' = conflicts \cup
            {{m, req[r].on} : m \in {x \in flagged : Present(x) /\ Present(req[r].on)}}
      BY <1>16 DEF StoreConflicts
    <3> DEFINE pair(m) == {m, req[r].on}
    <3>2. ASSUME NEW m \in flagged PROVE pair(m) \in SUBSET Memories
      BY <2>2
    <3>3. conflicts' = conflicts \cup {pair(m) : m \in {x \in flagged : Present(x) /\ Present(req[r].on)}}
      BY <3>1
    <3> HIDE DEF pair
    <3>4. conflicts' \subseteq SUBSET Memories
      BY <3>2, <3>3 DEF Types
    <3> QED
      BY <3>4
  <2> QED
    BY <1>16, <2>1, <2>3 DEF StoreConflicts, Types
<1>17. ASSUME NEW r \in Requests, AcquireTimesOut(r) PROVE Types'
  <2>1. req' \in [Requests -> RequestType]
    <3>1. CASE End(r, FALSE)
      BY <3>1, EndDoes
    <3>2. CASE req' = [req EXCEPT ![r].at = "commit", ![r].torn = TRUE]
      <4>1. req[r] \in RequestType
        BY DEF Types
      <4>2. [req[r] EXCEPT !.at = "commit", !.torn = TRUE] \in RequestType
        BY <4>1 DEF RequestType
      <4> QED
        BY <3>2, <4>1, <4>2 DEF Types
    <3> QED
      BY <1>17, <3>1, <3>2 DEF AcquireTimesOut
  <2>2. lock' \in [Memories -> Requests \cup {NoOne}]
    BY <1>17 DEF AcquireTimesOut, Release, Types
  <2> QED
    BY <1>17, <2>1, <2>2 DEF AcquireTimesOut, Types
<1>18. ASSUME NEW r \in Requests, Drop(r) PROVE Types'
  <2>1. req' \in [Requests -> RequestType]
    <3>1. (req[r].at = "commit") \in BOOLEAN
      OBVIOUS
    <3> QED
      BY <1>18, <3>1, EndDoes DEF Drop
  <2>2. lock' \in [Memories -> Requests \cup {NoOne}]
    BY <1>18 DEF Drop, Release, Types
  <2>3. faults' \in 0..MaxFaults
    BY <1>18, ConstantsAssumption DEF Drop, Types
  <2> QED
    BY <1>18, <2>1, <2>2, <2>3 DEF Drop, Types
<1> QED
  BY <1>0, <1>1, <1>2, <1>3, <1>4, <1>5, <1>6, <1>7, <1>8, <1>9, <1>10, <1>11, <1>12, <1>13,
     <1>14, <1>15, <1>16, <1>17, <1>18 DEF Next, Step

\* The next place of a request that goes on with what it was asked.
Goes(r, from, to) ==
    /\ req[r].at = from /\ req'[r].at = to
    /\ req'[r].op = req[r].op
    /\ req'[r].torn = req[r].torn

\* The ways a request goes from one place to another.
Moves(r) ==
    \/ /\ req[r].at = "idle" /\ req'[r].torn = req[r].torn
       /\ \E op \in Ops, m \in Memories, arg \in Labels \cup Statuses :
            /\ Asks(r, op, m, arg)
            /\ req'[r].op = op /\ req'[r].on = m /\ req'[r].arg = arg /\ req'[r].at = Entry(op)
    \/ /\ req[r].at \notin {"idle", "ended"}
       /\ req'[r].at = "ended" /\ req'[r].op = "create" /\ req'[r].on = req[r].on
       /\ req[r].torn => req'[r].torn
    \/ /\ Goes(r, "read_label", "embed") /\ req'[r].on = req[r].on
       /\ req'[r].arg = memory[req[r].on].label /\ req'[r].arg \in Labels
    \/ /\ req'[r].on = req[r].on /\ req'[r].arg = req[r].arg
       /\ \/ Goes(r, "embed", "begin")
          \/ Goes(r, "begin", "update")
          \/ Goes(r, "update", "next_ver") /\ req[r].op = "patch"
          \/ Goes(r, "update", "version") /\ req[r].op = "status"
          \/ Goes(r, "next_ver", "version") /\ req'[r].next = Len(versions[req[r].on]) + 1
          \/ Goes(r, "version", "commit")
          \/ Goes(r, "dedup", "insert")
          \/ Goes(r, "insert", "detect")
          \/ Goes(r, "detect", "prompt") /\ req'[r].cands = Candidates(r)
          \/ Goes(r, "prompt", "conflict")
    \/ /\ req'[r].on = req[r].on /\ req'[r].arg = req[r].arg
       /\ req[r].at = "version" /\ req'[r].at = "commit" /\ req'[r].op = req[r].op /\ req'[r].torn
    \/ /\ Goes(r, "dedup", "begin") /\ req'[r].arg = req[r].arg
       /\ memory[req'[r].on].life = "live"

\* A plain move changes the place alone.
LEMMA GotoGoes ==
    ASSUME Types, NEW r \in Requests, NEW at, Goto(r, at),
           at \in {"begin", "update", "next_ver", "version", "commit", "insert", "detect", "conflict"}
    PROVE  /\ Goes(r, req[r].at, at)
           /\ req'[r].on = req[r].on /\ req'[r].arg = req[r].arg
           /\ \A q \in Requests \ {r} : req'[q] = req[q]
<1>1. req[r] \in RequestType
  BY DEF Types
<1>2. req'[r] = [req[r] EXCEPT !.at = at] /\ \A q \in Requests \ {r} : req'[q] = req[q]
  BY GotoDoes
<1> QED
  BY <1>1, <1>2 DEF Goes, RequestType

\* A step of one request.
Acts(r) == Arrive(r) \/ Step(r) \/ Drop(r)

\* A step moves its own request, in one of these ways.
LEMMA RequestStep ==
    ASSUME Types, NEW r \in Requests, Acts(r)
    PROVE  /\ \A q \in Requests \ {r} : req'[q] = req[q]
           /\ Moves(r)
<1> DEFINE Goal == (\A q \in Requests \ {r} : req'[q] = req[q]) /\ Moves(r)
<1>0. req[r] \in RequestType
  BY DEF Types
<1>1. CASE Arrive(r)
  <2>1. PICK op \in Ops, m \in Memories, arg \in Labels \cup Statuses : Asks(r, op, m, arg)
    BY <1>1, ArriveDoes
  <2>2. /\ req'[r].op = op /\ req'[r].on = m /\ req'[r].arg = arg /\ req'[r].at = Entry(op)
        /\ req'[r].torn = req[r].torn
    BY <1>0, <2>1 DEF Asks, RequestType
  <2> QED
    BY <1>1, <2>1, <2>2, ArriveDoes DEF Moves, Arrive
<1>2. ASSUME NEW torn \in BOOLEAN, End(r, torn), req[r].at \notin {"idle", "ended"} PROVE Goal
  BY <1>2, EndDoes DEF Moves
<1>3. CASE ReadLabel(r)
  <2>1. CASE Present(req[r].on)
    <3>1. memory[req[r].on].label \in Labels
      BY <1>0 DEF Types, RowType, RequestType
    <3> DEFINE label == memory[req[r].on].label
    <3>2. req'[r] = [req[r] EXCEPT !.at = "embed", !.arg = label] /\ req[r].at = "read_label"
      BY <1>3, <2>1, ReadLabelDoes DEF ReadLabel
    <3> HIDE DEF label
    <3>3. Goes(r, "read_label", "embed") /\ req'[r].on = req[r].on /\ req'[r].arg = label
      BY <1>0, <3>2 DEF RequestType, Goes
    <3> QED
      BY <1>3, <2>1, <3>1, <3>3, ReadLabelDoes DEF Moves, label
  <2>2. CASE ~Present(req[r].on)
    BY <1>2, <1>3, <2>2 DEF ReadLabel
  <2> QED
    BY <2>1, <2>2
<1>4. CASE EmbedPatch(r)
  BY <1>2, <1>4, GotoGoes DEF EmbedPatch, Moves
<1>5. CASE Begin(r)
  BY <1>5, GotoGoes DEF Begin, Moves
<1>6. CASE OpenChange(r)
  <2>1. CASE End(r, FALSE)
    BY <1>2, <1>6, <2>1 DEF OpenChange, RowIsFree
  <2>2. CASE req[r].op = "patch" /\ Goto(r, "next_ver")
    BY <1>6, <2>2, GotoGoes DEF OpenChange, RowIsFree, Moves
  <2>3. CASE req[r].op = "status" /\ Goto(r, "version")
    BY <1>6, <2>3, GotoGoes DEF OpenChange, RowIsFree, Moves
  <2> QED
    BY <1>6, <2>1, <2>2, <2>3 DEF OpenChange
<1>7. CASE ChangeRow(r) \/ DeleteRow(r) \/ BumpDuplicate(r)
  BY <1>2, <1>7 DEF ChangeRow, DeleteRow, BumpDuplicate, RowIsFree
<1>8. CASE NextVersion(r)
  <2> DEFINE n == Len(versions[req[r].on]) + 1
  <2>1. /\ req'[r] = [req[r] EXCEPT !.at = "version", !.next = n]
        /\ \A q \in Requests \ {r} : req'[q] = req[q]
        /\ req[r].at = "next_ver"
    BY <1>8, <1>0 DEF NextVersion, Types
  <2> HIDE DEF n
  <2>2. /\ Goes(r, "next_ver", "version") /\ req'[r].on = req[r].on /\ req'[r].arg = req[r].arg
        /\ req'[r].next = n
    BY <1>0, <2>1 DEF Goes, RequestType
  <2> QED
    BY <2>1, <2>2 DEF Moves, n
<1>9. CASE InsertVersion(r)
  <2>1. CASE End(r, FALSE)
    BY <1>2, <1>9, <2>1 DEF InsertVersion
  <2>2. CASE Goto(r, "commit")
    BY <1>9, <2>2, GotoGoes DEF InsertVersion, Moves
  <2> QED
    BY <1>9, <2>1, <2>2 DEF InsertVersion
<1>10. CASE Commit(r)
  BY <1>2, <1>10 DEF Commit
<1>11. CASE CheckDuplicate(r)
  <2>1. CASE Goto(r, "insert")
    BY <1>11, <2>1, GotoGoes DEF CheckDuplicate, Moves
  <2>2. ASSUME NEW m \in Memories, memory[m].life = "live", req' = [req EXCEPT ![r].at = "begin", ![r].on = m]
        PROVE  Goal
    <3>1. req'[r] = [req[r] EXCEPT !.at = "begin", !.on = m] /\ \A q \in Requests \ {r} : req'[q] = req[q]
      BY <2>2, <1>0 DEF Types
    <3>2. Goes(r, "dedup", "begin") /\ req'[r].arg = req[r].arg /\ req'[r].on = m
      BY <1>11, <1>0, <3>1 DEF CheckDuplicate, Goes, RequestType
    <3> QED
      BY <2>2, <3>1, <3>2 DEF Moves
  <2> QED
    BY <1>11, <2>1, <2>2 DEF CheckDuplicate
<1>12. CASE InsertMemory(r)
  <2>1. CASE End(r, FALSE)
    BY <1>2, <1>12, <2>1 DEF InsertMemory
  <2>2. CASE Goto(r, "detect")
    BY <1>12, <2>2, GotoGoes DEF InsertMemory, Moves
  <2> QED
    BY <1>12, <2>1, <2>2 DEF InsertMemory
<1>13. CASE FetchCandidates(r)
  <2>1. CASE End(r, FALSE)
    BY <1>2, <1>13, <2>1 DEF FetchCandidates
  <2>2. CASE req' = [req EXCEPT ![r].cands = Candidates(r), ![r].at = "prompt"]
    <3>1. req'[r] = [req[r] EXCEPT !.cands = Candidates(r), !.at = "prompt"] /\ \A q \in Requests \ {r} : req'[q] = req[q]
      BY <2>2, <1>0 DEF Types
    <3>2. /\ Goes(r, "detect", "prompt") /\ req'[r].arg = req[r].arg /\ req'[r].on = req[r].on
          /\ req'[r].cands = Candidates(r)
      BY <1>13, <1>0, <3>1 DEF FetchCandidates, Goes, RequestType
    <3> QED
      BY <3>1, <3>2 DEF Moves
  <2> QED
    BY <1>13, <2>1, <2>2 DEF FetchCandidates
<1>14. CASE Prompt(r)
  <2>1. CASE End(r, FALSE)
    BY <1>2, <1>14, <2>1 DEF Prompt
  <2>2. CASE Goto(r, "conflict")
    BY <1>14, <2>2, GotoGoes DEF Prompt, Moves
  <2> QED
    BY <1>14, <2>1, <2>2 DEF Prompt
<1>15. CASE StoreConflicts(r)
  BY <1>2, <1>15 DEF StoreConflicts
<1>16. CASE AcquireTimesOut(r)
  <2>1. CASE End(r, FALSE)
    BY <1>2, <1>16, <2>1 DEF AcquireTimesOut, GivesUp, WaitsForPool
  <2>2. CASE req[r].at = "version" /\ req' = [req EXCEPT ![r].at = "commit", ![r].torn = TRUE]
    <3>1. req'[r] = [req[r] EXCEPT !.at = "commit", !.torn = TRUE] /\ \A q \in Requests \ {r} : req'[q] = req[q]
      BY <2>2, <1>0 DEF Types
    <3>2. /\ req'[r].on = req[r].on /\ req'[r].arg = req[r].arg
          /\ req'[r].at = "commit" /\ req'[r].op = req[r].op /\ req'[r].torn
      BY <1>0, <3>1 DEF RequestType
    <3> QED
      BY <2>2, <3>1, <3>2 DEF Moves
  <2> QED
    BY <1>16, <2>1, <2>2 DEF AcquireTimesOut
<1>17. CASE Drop(r)
  <2>1. (req[r].at = "commit") \in BOOLEAN
    OBVIOUS
  <2> QED
    BY <1>2, <1>17, <2>1 DEF Drop
<1> QED
  BY <1>1, <1>3, <1>4, <1>5, <1>6, <1>7, <1>8, <1>9, <1>10, <1>11, <1>12, <1>13, <1>14, <1>15,
     <1>16, <1>17 DEF Acts, Step

\* A step changes at most the row its request is on, under its lock or with the row free.
LEMMA RowsStep ==
    ASSUME Types, ArgumentsFit, NEW r \in Requests, Acts(r), NEW m \in Memories
    PROVE  \/ memory'[m] = memory[m]
           \/ /\ m = req[r].on /\ req[r].at = "update" /\ lock[m] = NoOne /\ Present(m)
              /\ memory'[m].content = memory[m].content /\ memory'[m].status = memory[m].status
              /\ memory'[m].life # "unborn" /\ (memory'[m].life \in {"live", "archived"} \/ versions'[m] = << >>)
              /\ memory'[m].label = memory[m].label \/ IsPrivate(memory'[m].label)
                    \/ \A q \in Requests : m \notin shielded'[q]
           \/ m = req[r].on /\ req[r].at = "commit" /\ memory'[m] = Pending(r)
           \/ m = req[r].on /\ req[r].at = "insert" /\ memory'[m] = Row("live", r)
<1>0. req[r] \in RequestType /\ memory[m] \in RowType
  BY DEF Types
<1>1. CASE UNCHANGED memory
  BY <1>1
<1>2. CASE ChangeRow(r)
  <2>1. CASE m # req[r].on
    BY <1>2, <2>1 DEF ChangeRow, Types
  <2>2. CASE m = req[r].on /\ ~UNCHANGED memory
    <3>1. /\ req[r].at = "update" /\ lock[m] = NoOne /\ Present(m)
      BY <1>2, <2>2 DEF ChangeRow, RowIsFree, Present
    <3>2. \/ memory'[m] = [memory[m] EXCEPT !.label = req[r].arg]
          \/ memory'[m] = [memory[m] EXCEPT !.life = "archived"]
          \/ memory'[m] = [memory[m] EXCEPT !.life = "live"]
      BY <1>2, <2>2 DEF ChangeRow, Types
    <3>3. /\ memory'[m].content = memory[m].content /\ memory'[m].status = memory[m].status
          /\ memory'[m].life \in {"live", "archived"}
      BY <1>0, <3>1, <3>2 DEF RowType, Present
    <3>4. IsPrivate(memory'[m].label) \/ \A q \in Requests : m \notin shielded'[q]
      BY <1>2, <2>2 DEF ChangeRow, Types
    <3> QED
      BY <2>2, <3>1, <3>3, <3>4
  <2> QED
    BY <1>1, <2>1, <2>2
<1>3. CASE DeleteRow(r)
  <2>1. CASE m # req[r].on
    BY <1>3, <2>1 DEF DeleteRow, Types
  <2>2. CASE m = req[r].on /\ Present(m)
    <3>1. memory'[m] = [memory[m] EXCEPT !.life = "deleted"] /\ req[r].at = "update" /\ lock[m] = NoOne
      BY <1>3, <2>2 DEF DeleteRow, RowIsFree, Types
    <3>2. /\ memory'[m].content = memory[m].content /\ memory'[m].status = memory[m].status
          /\ memory'[m].life # "unborn" /\ memory'[m].label = memory[m].label
      BY <1>0, <3>1 DEF RowType
    <3>3. versions'[m] = << >>
      BY <1>3, <2>2 DEF DeleteRow, Types
    <3> QED
      BY <2>2, <3>1, <3>2, <3>3
  <2>3. CASE m = req[r].on /\ ~Present(m)
    <3>1. memory'[m] = [memory[m] EXCEPT !.life = @]
      BY <1>3, <2>3 DEF DeleteRow, Types
    <3> QED
      BY <1>0, <3>1 DEF RowType
  <2> QED
    BY <2>1, <2>2, <2>3
<1>4. CASE Commit(r)
  BY <1>4 DEF Commit, Types
<1>5. CASE InsertMemory(r)
  BY <1>5 DEF InsertMemory, Types
<1>6. CASE Arrive(r) \/ ReadLabel(r) \/ EmbedPatch(r) \/ Begin(r) \/ OpenChange(r) \/ BumpDuplicate(r)
  BY <1>1, <1>6 DEF Arrive, ReadLabel, EmbedPatch, Begin, OpenChange, BumpDuplicate
<1>7. CASE NextVersion(r) \/ InsertVersion(r) \/ CheckDuplicate(r) \/ FetchCandidates(r) \/ Prompt(r)
  BY <1>1, <1>7 DEF NextVersion, InsertVersion, CheckDuplicate, FetchCandidates, Prompt
<1>8. CASE StoreConflicts(r) \/ AcquireTimesOut(r) \/ Drop(r)
  BY <1>1, <1>8 DEF StoreConflicts, AcquireTimesOut, Drop
<1> QED
  BY <1>2, <1>3, <1>4, <1>5, <1>6, <1>7, <1>8 DEF Acts, Step

\* A step takes the lock of its row with its change, and drops it with its end.
LEMMA LocksStep ==
    ASSUME Types, NEW r \in Requests, Acts(r), ArgumentsFit
    PROVE  \/ /\ lock' = lock
              /\ req[r].at \in InTx <=> req'[r].at \in InTx
           \/ /\ req[r].at = "update" /\ req'[r].at \in InTx /\ UNCHANGED memory
              /\ lock[req[r].on] = NoOne /\ memory[req[r].on].life = "live"
              /\ lock' = [lock EXCEPT ![req[r].on] = r]
           \/ /\ req'[r].at = "ended"
              /\ lock' = [m \in Memories |-> IF lock[m] = r THEN NoOne ELSE lock[m]]
<1> DEFINE Goal ==
           \/ /\ lock' = lock
              /\ req[r].at \in InTx <=> req'[r].at \in InTx
           \/ /\ req[r].at = "update" /\ req'[r].at \in InTx /\ UNCHANGED memory
              /\ lock[req[r].on] = NoOne /\ memory[req[r].on].life = "live"
              /\ lock' = [lock EXCEPT ![req[r].on] = r]
           \/ /\ req'[r].at = "ended"
              /\ lock' = [m \in Memories |-> IF lock[m] = r THEN NoOne ELSE lock[m]]
<1>0. req[r] \in RequestType
  BY DEF Types
<1>1. ASSUME NEW torn \in BOOLEAN, End(r, torn), UNCHANGED lock, req[r].at \notin InTx PROVE Goal
  BY <1>1, EndDoes DEF InTx
<1>2. ASSUME NEW torn \in BOOLEAN, End(r, torn), Release(r) PROVE Goal
  BY <1>2, EndDoes DEF Release
<1>3. ASSUME NEW at, Goto(r, at), UNCHANGED lock,
             at \in {"begin", "update", "version", "commit", "insert", "detect", "conflict"},
             req[r].at \in InTx <=> at \in InTx
      PROVE Goal
  BY <1>3, GotoGoes DEF Goes
<1>4. CASE Arrive(r)
  <2>1. req'[r].at \notin InTx /\ req[r].at \notin InTx
    <3>1. PICK op \in Ops, m \in Memories, arg \in Labels \cup Statuses : Asks(r, op, m, arg)
      BY <1>4, ArriveDoes
    <3>2. req'[r].at = Entry(op)
      BY <1>0, <3>1 DEF Asks, RequestType
    <3> QED
      BY <1>4, <3>2, EntryIsAPlace DEF InTx, Arrive
  <2> QED
    BY <1>4, <2>1 DEF Arrive
<1>5. CASE ReadLabel(r)
  <2>1. CASE End(r, FALSE)
    BY <1>1, <1>5, <2>1 DEF ReadLabel, InTx
  <2>2. CASE Present(req[r].on)
    <3> DEFINE label == memory[req[r].on].label
    <3>1. req'[r] = [req[r] EXCEPT !.at = "embed", !.arg = label] /\ req[r].at = "read_label" /\ UNCHANGED lock
      BY <1>5, <2>2, ReadLabelDoes DEF ReadLabel
    <3> HIDE DEF label
    <3>2. req'[r].at = "embed"
      BY <1>0, <3>1 DEF RequestType
    <3> QED
      BY <3>1, <3>2 DEF InTx
  <2> QED
    BY <1>5, <2>1, <2>2 DEF ReadLabel
<1>6. CASE EmbedPatch(r) \/ Begin(r)
  BY <1>1, <1>3, <1>6 DEF EmbedPatch, Begin, InTx
<1>7. CASE OpenChange(r)
  <2>1. CASE End(r, FALSE) /\ UNCHANGED lock
    BY <1>1, <1>7, <2>1 DEF OpenChange, RowIsFree, InTx
  <2>2. CASE memory[req[r].on].life = "live"
    <3>1. Goto(r, IF req[r].op = "patch" THEN "next_ver" ELSE "version") /\ Take(r) /\ UNCHANGED memory
          /\ req[r].at = "update" /\ lock[req[r].on] = NoOne
      BY <1>7, <2>2 DEF OpenChange, RowIsFree
    <3>2. req'[r].at \in InTx
      BY <3>1, GotoGoes DEF Goes, InTx
    <3> QED
      BY <2>2, <3>1, <3>2 DEF Take
  <2> QED
    BY <1>7, <2>1, <2>2 DEF OpenChange
<1>8. CASE ChangeRow(r) \/ DeleteRow(r) \/ BumpDuplicate(r) \/ StoreConflicts(r)
  BY <1>1, <1>8 DEF ChangeRow, DeleteRow, BumpDuplicate, StoreConflicts, RowIsFree, InTx
<1>9. CASE NextVersion(r)
  <2> DEFINE n == Len(versions[req[r].on]) + 1
  <2>1. req'[r] = [req[r] EXCEPT !.at = "version", !.next = n] /\ req[r].at = "next_ver" /\ UNCHANGED lock
    BY <1>9, <1>0 DEF NextVersion, Types
  <2> HIDE DEF n
  <2>2. req'[r].at = "version"
    BY <1>0, <2>1 DEF RequestType
  <2> QED
    BY <2>1, <2>2 DEF InTx
<1>10. CASE InsertVersion(r)
  BY <1>2, <1>3, <1>10 DEF InsertVersion, InTx
<1>11. CASE Commit(r)
  BY <1>2, <1>11 DEF Commit
<1>12. CASE CheckDuplicate(r)
  <2>1. CASE Goto(r, "insert")
    BY <1>3, <1>12, <2>1 DEF CheckDuplicate, InTx
  <2>2. ASSUME NEW m \in Memories, req' = [req EXCEPT ![r].at = "begin", ![r].on = m]
        PROVE  Goal
    <3>1. req'[r].at = "begin"
      BY <2>2, <1>0 DEF Types, RequestType
    <3> QED
      BY <1>12, <3>1 DEF CheckDuplicate, InTx
  <2> QED
    BY <1>12, <2>1, <2>2 DEF CheckDuplicate
<1>13. CASE InsertMemory(r) \/ Prompt(r)
  BY <1>1, <1>3, <1>13 DEF InsertMemory, Prompt, InTx
<1>14. CASE FetchCandidates(r)
  <2>1. CASE End(r, FALSE)
    BY <1>1, <1>14, <2>1 DEF FetchCandidates, InTx
  <2>2. CASE req' = [req EXCEPT ![r].cands = Candidates(r), ![r].at = "prompt"]
    <3>1. req'[r].at = "prompt"
      BY <2>2, <1>0 DEF Types, RequestType
    <3> QED
      BY <1>14, <3>1 DEF FetchCandidates, InTx
  <2> QED
    BY <1>14, <2>1, <2>2 DEF FetchCandidates
<1>15. CASE AcquireTimesOut(r)
  <2>1. CASE End(r, FALSE) /\ Release(r)
    BY <1>2, <2>1
  <2>2. CASE req[r].at = "version" /\ UNCHANGED lock /\ req' = [req EXCEPT ![r].at = "commit", ![r].torn = TRUE]
    <3>1. req'[r].at = "commit"
      BY <2>2, <1>0 DEF Types, RequestType
    <3> QED
      BY <2>2, <3>1 DEF InTx
  <2> QED
    BY <1>15, <2>1, <2>2 DEF AcquireTimesOut
<1>16. CASE Drop(r)
  <2>1. (req[r].at = "commit") \in BOOLEAN
    OBVIOUS
  <2> QED
    BY <1>2, <1>16, <2>1 DEF Drop
<1> QED
  BY <1>4, <1>5, <1>6, <1>7, <1>8, <1>9, <1>10, <1>11, <1>12, <1>13, <1>14, <1>15, <1>16 DEF Acts, Step

\* A step changes at most the versions of the row its request is on.
LEMMA VersionsStep ==
    ASSUME Types, NEW r \in Requests, Acts(r), NEW m \in Memories
    PROVE  \/ versions'[m] = versions[m]
           \/ /\ m = req[r].on /\ req[r].at = "version" /\ req'[r].at = "commit" /\ UNCHANGED memory
              /\ versions'[m] = Append(versions[m], Version(Pending(r).content, Pending(r).status, r))
           \/ /\ m = req[r].on /\ req[r].at = "update" /\ lock[m] = NoOne
              /\ versions'[m] = << >> /\ ~Present(m)'
           \/ /\ m = req[r].on /\ req[r].at = "insert"
              /\ versions'[m] = <<Version(r, "active", r)>> /\ memory'[m] = Row("live", r)
<1>1. CASE UNCHANGED versions
  BY <1>1
<1>2. CASE DeleteRow(r)
  <2>1. CASE m # req[r].on
    BY <1>2, <2>1 DEF DeleteRow, Types
  <2>2. CASE m = req[r].on
    <3>1. versions'[m] = << >> /\ req[r].at = "update" /\ lock[m] = NoOne
      BY <1>2, <2>2 DEF DeleteRow, RowIsFree, Types
    <3>2. memory[m] \in RowType
      BY DEF Types
    <3> DEFINE life == IF Present(m) THEN "deleted" ELSE memory[m].life
    <3>3. memory'[m] = [memory[m] EXCEPT !.life = life]
      BY <1>2, <2>2 DEF DeleteRow, Types
    <3>4. life \notin {"live", "archived"}
      BY DEF Present
    <3> HIDE DEF life
    <3>5. ~Present(m)'
      BY <3>2, <3>3, <3>4 DEF Present, RowType
    <3> QED
      BY <2>2, <3>1, <3>5
  <2> QED
    BY <2>1, <2>2
<1>3. CASE InsertVersion(r)
  <2>1. CASE Goto(r, "commit") /\ Append1(req[r].on, Version(Pending(r).content, Pending(r).status, r))
    <3>1. req'[r].at = "commit"
      BY <2>1, GotoGoes DEF Goes
    <3> DEFINE v == Version(Pending(r).content, Pending(r).status, r)
    <3>2. versions' = [versions EXCEPT ![req[r].on] = Append(@, v)]
      BY <2>1 DEF Append1
    <3> HIDE DEF v
    <3>3. versions'[m] = IF m = req[r].on THEN Append(versions[m], v) ELSE versions[m]
      BY <3>2 DEF Types
    <3> QED
      BY <1>3, <3>1, <3>3 DEF InsertVersion, v
  <2> QED
    BY <1>1, <1>3, <2>1 DEF InsertVersion
<1>4. CASE InsertMemory(r)
  BY <1>4 DEF InsertMemory, Types
<1>5. CASE Arrive(r) \/ ReadLabel(r) \/ EmbedPatch(r) \/ Begin(r) \/ OpenChange(r) \/ BumpDuplicate(r)
  BY <1>1, <1>5 DEF Arrive, ReadLabel, EmbedPatch, Begin, OpenChange, BumpDuplicate
<1>6. CASE ChangeRow(r) \/ NextVersion(r) \/ Commit(r) \/ CheckDuplicate(r) \/ FetchCandidates(r) \/ Prompt(r)
  BY <1>1, <1>6 DEF ChangeRow, NextVersion, Commit, CheckDuplicate, FetchCandidates, Prompt
<1>7. CASE StoreConflicts(r) \/ AcquireTimesOut(r) \/ Drop(r)
  BY <1>1, <1>7 DEF StoreConflicts, AcquireTimesOut, Drop
<1> QED
  BY <1>2, <1>3, <1>4, <1>5, <1>6, <1>7 DEF Acts, Step

\* A version that was written is the one announced, unless the handler is torn.
LEMMA VersionWritten ==
    ASSUME Types, NEW r \in Requests, Acts(r), req[r].at = "version", req'[r].at = "commit"
    PROVE  \/ req'[r].torn
           \/ versions'[req[r].on] = Append(versions[req[r].on], Version(Pending(r).content, Pending(r).status, r))
<1>0. req[r] \in RequestType
  BY DEF Types
<1>1. CASE InsertVersion(r)
  <2>1. ~End(r, FALSE)
    BY EndDoes
  <2> DEFINE v == Version(Pending(r).content, Pending(r).status, r)
  <2>2. versions' = [versions EXCEPT ![req[r].on] = Append(@, v)]
    BY <1>1, <2>1 DEF InsertVersion, Append1
  <2> HIDE DEF v
  <2>3. versions'[req[r].on] = Append(versions[req[r].on], v)
    BY <1>0, <2>2 DEF Types, RequestType
  <2> QED
    BY <2>3 DEF v
<1>2. CASE AcquireTimesOut(r)
  <2>1. ~End(r, FALSE)
    BY EndDoes
  <2>2. req' = [req EXCEPT ![r].at = "commit", ![r].torn = TRUE]
    BY <1>2, <2>1 DEF AcquireTimesOut
  <2> QED
    BY <1>0, <2>2 DEF Types, RequestType
<1>3. CASE Drop(r)
  <2>1. (req[r].at = "commit") \in BOOLEAN
    OBVIOUS
  <2> QED
    BY <1>3, <2>1, EndDoes DEF Drop
<1>4. ~Arrive(r) /\ ~ReadLabel(r) /\ ~EmbedPatch(r) /\ ~Begin(r) /\ ~OpenChange(r) /\ ~ChangeRow(r)
  BY DEF Arrive, ReadLabel, EmbedPatch, Begin, OpenChange, ChangeRow, RowIsFree
<1>5. ~DeleteRow(r) /\ ~BumpDuplicate(r) /\ ~NextVersion(r) /\ ~Commit(r) /\ ~CheckDuplicate(r)
  BY DEF DeleteRow, BumpDuplicate, NextVersion, Commit, CheckDuplicate, RowIsFree
<1>6. ~InsertMemory(r) /\ ~FetchCandidates(r) /\ ~Prompt(r) /\ ~StoreConflicts(r)
  BY DEF InsertMemory, FetchCandidates, Prompt, StoreConflicts
<1> QED
  BY <1>1, <1>2, <1>3, <1>4, <1>5, <1>6 DEF Acts, Step

\* A transaction about to commit commits what it announced, or is torn.
LEMMA CommitStep ==
    ASSUME Types, NEW r \in Requests, Acts(r), req[r].at = "commit"
    PROVE  /\ req'[r].at = "ended" /\ versions' = versions
           /\ lock' = [m \in Memories |-> IF lock[m] = r THEN NoOne ELSE lock[m]]
           /\ req'[r].torn \/ memory'[req[r].on] = Pending(r)
<1>0. req[r] \in RequestType
  BY DEF Types
<1>1. CASE Commit(r)
  BY <1>0, <1>1, EndDoes DEF Commit, Release, Types, RequestType
<1>2. CASE Drop(r)
  <2>1. End(r, TRUE)
    BY <1>2 DEF Drop, End
  <2>2. req'[r].torn /\ req'[r].at = "ended"
    BY <1>0, <2>1, EndDoes
  <2> QED
    BY <1>2, <2>2 DEF Drop, Release
<1>4. ~Arrive(r) /\ ~ReadLabel(r) /\ ~EmbedPatch(r) /\ ~Begin(r) /\ ~OpenChange(r) /\ ~ChangeRow(r)
  BY DEF Arrive, ReadLabel, EmbedPatch, Begin, OpenChange, ChangeRow, RowIsFree
<1>5. ~DeleteRow(r) /\ ~BumpDuplicate(r) /\ ~NextVersion(r) /\ ~InsertVersion(r) /\ ~CheckDuplicate(r)
  BY DEF DeleteRow, BumpDuplicate, NextVersion, InsertVersion, CheckDuplicate, RowIsFree
<1>6. ~InsertMemory(r) /\ ~FetchCandidates(r) /\ ~Prompt(r) /\ ~StoreConflicts(r) /\ ~AcquireTimesOut(r)
  BY DEF InsertMemory, FetchCandidates, Prompt, StoreConflicts, AcquireTimesOut, GivesUp, WaitsForPool
<1> QED
  BY <1>1, <1>2, <1>4, <1>5, <1>6 DEF Acts, Step

\* Arguments stay fit.
LEMMA ArgumentsStep ==
    ASSUME Types, ArgumentsFit, NEW r \in Requests, Acts(r)
    PROVE  ArgumentsFit'
<1>1. Moves(r) /\ \A q \in Requests \ {r} : req'[q] = req[q]
  BY RequestStep
<1> SUFFICES ASSUME NEW q \in Requests
             PROVE  /\ req'[q].op = "status" => req'[q].arg \in Statuses
                    /\ req'[q].op \in {"label", "patch"} => req'[q].arg \in Labels
                    /\ req'[q].at \in {"read_label", "embed", "next_ver"} => req'[q].op = "patch"
                    /\ req'[q].at \in InTx => req'[q].op \in {"patch", "status"}
  BY DEF ArgumentsFit
<1>2. CASE q # r
  BY <1>1, <1>2 DEF ArgumentsFit
<1>3. CASE q = r
  <2>1. CASE req[r].at = "idle"
    <3>1. PICK op \in Ops, m \in Memories, arg \in Labels \cup Statuses :
            /\ Asks(r, op, m, arg)
            /\ req'[r].op = op /\ req'[r].on = m /\ req'[r].arg = arg /\ req'[r].at = Entry(op)
      BY <1>1, <2>1 DEF Moves, Goes
    <3>2. "unknown" \in Labels
      BY DEF Labels
    <3> QED
      BY <1>3, <3>1, <3>2, EntryIsAPlace DEF Asks, InTx
  <2>2. CASE req[r].at # "idle"
    BY <1>1, <1>3, <2>2 DEF Moves, Goes, ArgumentsFit, InTx
  <2> QED
    BY <2>1, <2>2
<1> QED
  BY <1>2, <1>3

\* Torn handlers stay at their end.
LEMMA TornStep ==
    ASSUME Types, TornAtTheEnd, NEW r \in Requests, Acts(r)
    PROVE  TornAtTheEnd'
<1>1. Moves(r) /\ \A q \in Requests \ {r} : req'[q] = req[q]
  BY RequestStep
<1> QED
  BY <1>1 DEF Moves, Goes, TornAtTheEnd

\* Nobody else changes a locked row, so its holder still finds it live.
LEMMA LocksExcludeStep ==
    ASSUME Types, ArgumentsFit, LocksExclude, IdsAreReserved, NEW r \in Requests, Acts(r)
    PROVE  LocksExclude'
<1>1. Moves(r) /\ \A q \in Requests \ {r} : req'[q] = req[q]
  BY RequestStep
<1>2. \A q \in Requests : req[q].on \in Memories
  BY DEF Types, RequestType
<1>3. ASSUME NEW q \in Requests, req'[q].at \in InTx
      PROVE  lock'[req'[q].on] = q /\ memory'[req'[q].on].life = "live"
  <2>1. CASE q # r
    <3>1. req'[q] = req[q] /\ lock[req[q].on] = q /\ memory[req[q].on].life = "live"
      BY <1>1, <1>3, <2>1 DEF LocksExclude
    <3>2. lock'[req[q].on] = q
      <4> DEFINE m == req[q].on
      <4>1. m \in Memories /\ lock[m] = q /\ q # NoOne /\ q # r
        BY <1>2, <2>1, <3>1, ConstantsAssumption
      <4>2. CASE lock[req[r].on] = NoOne /\ lock' = [lock EXCEPT ![req[r].on] = r]
        BY <4>1, <4>2 DEF Types
      <4>3. CASE lock' = [x \in Memories |-> IF lock[x] = r THEN NoOne ELSE lock[x]]
        BY <4>1, <4>3
      <4>4. \/ lock' = lock
            \/ lock[req[r].on] = NoOne /\ lock' = [lock EXCEPT ![req[r].on] = r]
            \/ lock' = [x \in Memories |-> IF lock[x] = r THEN NoOne ELSE lock[x]]
        BY LocksStep
      <4> QED
        BY <4>1, <4>2, <4>3, <4>4
    <3>3. memory'[req[q].on] = memory[req[q].on]
      <4> DEFINE m == req[q].on
      <4>1. ~(m = req[r].on /\ req[r].at = "update" /\ lock[m] = NoOne)
        BY <3>1, ConstantsAssumption
      <4>2. ~(m = req[r].on /\ req[r].at = "commit")
        BY <2>1, <3>1 DEF LocksExclude, InTx
      <4>3. ~(m = req[r].on /\ req[r].at = "insert")
        BY <3>1 DEF IdsAreReserved
      <4>4. m \in Memories
        BY <1>2
      <4> QED
        BY <4>1, <4>2, <4>3, <4>4, RowsStep
    <3> QED
      BY <3>1, <3>2, <3>3
  <2>2. CASE q = r
    <3>1. req'[r].on = req[r].on /\ req[r].at \in InTx \cup {"update"} /\ req'[r].at # "ended"
      <4>1. req[r].at # "idle"
        BY <1>1, <1>3, <2>2, EntryIsAPlace DEF Moves, Goes, InTx
      <4> QED
        BY <1>1, <1>3, <2>2, <4>1 DEF Moves, Goes, InTx
    <3>2. CASE req[r].at \in InTx
      <4>1. lock' = lock
        BY <1>3, <2>2, <3>1, <3>2, LocksStep DEF InTx
      <4>2. memory'[req[r].on] = memory[req[r].on]
        <5>1. CASE req[r].at = "commit"
          BY <5>1, <3>1, CommitStep
        <5>2. CASE req[r].at # "commit"
          BY <1>2, <3>2, <5>2, RowsStep DEF InTx
        <5> QED
          BY <5>1, <5>2
      <4> QED
        BY <2>2, <3>1, <3>2, <4>1, <4>2 DEF LocksExclude
    <3>3. CASE req[r].at = "update"
      <4>1. /\ UNCHANGED memory /\ memory[req[r].on].life = "live"
            /\ lock' = [lock EXCEPT ![req[r].on] = r]
        BY <1>3, <2>2, <3>1, <3>3, LocksStep DEF InTx
      <4> QED
        BY <1>2, <2>2, <3>1, <4>1 DEF Types
    <3> QED
      BY <3>1, <3>2, <3>3
  <2> QED
    BY <2>1, <2>2
<1>4. ASSUME NEW m \in Memories, lock'[m] # NoOne
      PROVE  req'[lock'[m]].on = m /\ req'[lock'[m]].at \in InTx
  <2>1. lock[m] \in Requests \cup {NoOne} /\ (lock[m] # NoOne => req[lock[m]].on = m /\ req[lock[m]].at \in InTx)
    BY DEF Types, LocksExclude
  <2>2. CASE lock' = lock /\ (req[r].at \in InTx <=> req'[r].at \in InTx)
    <3>1. CASE lock[m] # r
      BY <1>1, <1>4, <2>1, <2>2, <3>1
    <3>2. CASE lock[m] = r
      <4>1. req[r].on = m /\ req[r].at \in InTx /\ req'[r].at \in InTx
        BY <1>4, <2>1, <2>2, <3>2
      <4>2. req'[r].on = req[r].on
        BY <1>1, <4>1 DEF Moves, Goes, InTx
      <4> QED
        BY <2>2, <3>2, <4>1, <4>2
    <3> QED
      BY <3>1, <3>2
  <2>3. CASE /\ req[r].at = "update" /\ req'[r].at \in InTx
             /\ lock[req[r].on] = NoOne
             /\ lock' = [lock EXCEPT ![req[r].on] = r]
    <3>1. CASE m = req[r].on
      <4>1. lock'[m] = r
        BY <2>3, <3>1 DEF Types
      <4>2. req'[r].on = req[r].on
        BY <1>1, <2>3 DEF Moves, Goes, InTx
      <4> QED
        BY <2>3, <3>1, <4>1, <4>2
    <3>2. CASE m # req[r].on
      <4>1. lock'[m] = lock[m]
        BY <2>3, <3>2 DEF Types
      <4>2. lock[m] # r
        BY <1>4, <2>1, <2>3, <3>2
      <4> QED
        BY <1>1, <1>4, <2>1, <4>1, <4>2
    <3> QED
      BY <3>1, <3>2
  <2>4. CASE lock' = [x \in Memories |-> IF lock[x] = r THEN NoOne ELSE lock[x]]
    BY <1>1, <1>4, <2>1, <2>4
  <2> QED
    BY <2>2, <2>3, <2>4, LocksStep
<1> QED
  BY <1>3, <1>4 DEF LocksExclude

\* A reserved id stays unborn until its create inserts it.
LEMMA IdsStep ==
    ASSUME Types, ArgumentsFit, IdsAreReserved, NEW r \in Requests, Acts(r)
    PROVE  IdsAreReserved'
<1>1. Moves(r) /\ \A q \in Requests \ {r} : req'[q] = req[q]
  BY RequestStep
<1>2. \A q \in Requests : req[q].on \in Memories /\ req'[q].on \in Memories
  <2>1. req[r].on \in Memories
    BY DEF Types, RequestType
  <2>2. Types'
    <3>1. [Next]_vars
      BY DEF Acts, Next
    <3> QED
      BY <3>1, TypesStep
  <2> QED
    BY <2>2 DEF Types, RequestType
<1> SUFFICES ASSUME NEW q \in Requests, req'[q].at \in {"dedup", "insert"}
             PROVE  /\ memory'[req'[q].on].life = "unborn"
                    /\ \A p \in Requests \ {q} : req'[p].at # "idle" => req'[p].on # req'[q].on
  BY DEF IdsAreReserved
<1>3. CASE q # r
  <2>1. /\ req'[q] = req[q] /\ memory[req[q].on].life = "unborn"
        /\ \A p \in Requests \ {q} : req[p].at # "idle" => req[p].on # req[q].on
    BY <1>1, <1>3 DEF IdsAreReserved
  <2>2. memory'[req[q].on] = memory[req[q].on]
    BY <1>2, <1>3, <2>1, RowsStep
  <2>3. req'[r].at # "idle" => req'[r].on # req[q].on
    <3>1. CASE req[r].at = "idle"
      <4>1. PICK op \in Ops, m \in Memories, arg \in Labels \cup Statuses :
              Asks(r, op, m, arg) /\ req'[r].on = m
        BY <1>1, <3>1 DEF Moves, Goes
      <4>2. CASE op = "create"
        BY <1>3, <2>1, <4>1, <4>2 DEF Asks
      <4>3. CASE op # "create"
        BY <2>1, <4>1, <4>3 DEF Asks, Present
      <4> QED
        BY <4>2, <4>3
    <3>2. CASE req[r].at # "idle" /\ req'[r].on = req[r].on
      BY <1>3, <2>1, <3>2
    <3>3. CASE memory[req'[r].on].life = "live"
      BY <2>1, <3>3
    <3> QED
      BY <1>1, <3>1, <3>2, <3>3 DEF Moves, Goes
  <2> QED
    BY <1>1, <2>1, <2>2, <2>3
<1>4. CASE q = r
  <2>1. CASE req[r].at = "idle"
    <3>1. PICK op \in Ops, m \in Memories, arg \in Labels \cup Statuses :
            Asks(r, op, m, arg) /\ req'[r].on = m /\ req'[r].at = Entry(op)
      BY <1>1, <2>1 DEF Moves, Goes
    <3>2. op = "create"
      BY <1>4, <3>1, EntryIsAPlace
    <3>3. memory'[m] = memory[m]
      BY <2>1, RowsStep
    <3> QED
      BY <1>1, <1>4, <3>1, <3>2, <3>3 DEF Asks
  <2>2. CASE req[r].at = "dedup" /\ req'[r].on = req[r].on
    <3>1. memory'[req[r].on] = memory[req[r].on]
      BY <1>2, <2>2, RowsStep
    <3> QED
      BY <1>1, <1>4, <2>2, <3>1 DEF IdsAreReserved
  <2> QED
    BY <1>1, <1>4, <2>1, <2>2 DEF Moves, Goes
<1> QED
  BY <1>3, <1>4

\* Versions go with their row.
LEMMA OrphansStep ==
    ASSUME Types, ArgumentsFit, OrphansHaveNoVersions, LocksExclude, NEW r \in Requests, Acts(r)
    PROVE  OrphansHaveNoVersions'
<1> SUFFICES ASSUME NEW m \in Memories, ~Present(m)'
             PROVE  versions'[m] = << >>
  BY DEF OrphansHaveNoVersions
<1>1. memory'[m].life \notin {"live", "archived"}
  BY DEF Present
<1>2. CASE memory'[m] = memory[m]
  <2>1. ~Present(m) /\ versions[m] = << >>
    BY <1>1, <1>2 DEF Present, OrphansHaveNoVersions
  <2>2. ~(m = req[r].on /\ req[r].at = "version")
    BY <2>1 DEF LocksExclude, InTx, Present
  <2>3. memory'[m] # Row("live", r)
    BY <1>1 DEF Row
  <2> QED
    BY <2>1, <2>2, <2>3, VersionsStep
<1>3. CASE m = req[r].on /\ req[r].at = "commit" /\ memory'[m] = Pending(r)
  <2>1. memory[m].life = "live"
    BY <1>3 DEF LocksExclude, InTx
  <2>2. Pending(r).life = memory[m].life
    BY <1>3, PendingIsTyped DEF InTx
  <2> QED
    BY <1>1, <1>3, <2>1, <2>2
<1>4. CASE memory'[m] = Row("live", r)
  BY <1>1, <1>4 DEF Row
<1> QED
  BY <1>1, <1>2, <1>3, <1>4, RowsStep

\* The lock on the row keeps the number a patch has read free.
LEMMA NumbersStep ==
    ASSUME Types, ArgumentsFit, LocksExclude, IdsAreReserved, NumbersNeverCollide,
           NEW r \in Requests, Acts(r)
    PROVE  NumbersNeverCollide'
<1>1. Moves(r) /\ \A q \in Requests \ {r} : req'[q] = req[q]
  BY RequestStep
<1>2. \A q \in Requests : req[q].on \in Memories
  BY DEF Types, RequestType
<1> SUFFICES ASSUME NEW q \in Requests, req'[q].at = "version", req'[q].op = "patch"
             PROVE  req'[q].next = Len(versions'[req'[q].on]) + 1
  BY DEF NumbersNeverCollide
<1>3. CASE q # r
  <2>1. /\ req'[q] = req[q] /\ req[q].next = Len(versions[req[q].on]) + 1
        /\ lock[req[q].on] = q /\ memory[req[q].on].life = "live"
    BY <1>1, <1>3 DEF NumbersNeverCollide, LocksExclude, InTx
  <2>2. ~(req[q].on = req[r].on /\ req[r].at = "version")
    BY <1>3, <2>1 DEF LocksExclude, InTx
  <2>3. ~(req[q].on = req[r].on /\ req[r].at = "insert")
    BY <2>1 DEF IdsAreReserved
  <2>4. lock[req[q].on] # NoOne
    BY <2>1, ConstantsAssumption
  <2>5. versions'[req[q].on] = versions[req[q].on]
    BY <1>2, <2>2, <2>3, <2>4, VersionsStep
  <2> QED
    BY <2>1, <2>5
<1>4. CASE q = r
  <2>1. req[r].at # "idle"
    BY <1>1, <1>4, EntryIsAPlace DEF Moves, Goes
  <2>2. /\ req[r].at = "next_ver" /\ req'[r].on = req[r].on
        /\ req'[r].next = Len(versions[req[r].on]) + 1
    BY <1>1, <1>4, <2>1 DEF Moves, Goes
  <2>3. versions'[req[r].on] = versions[req[r].on]
    BY <1>2, <2>2, VersionsStep
  <2> QED
    BY <1>4, <2>2, <2>3
<1> QED
  BY <1>3, <1>4

\* A row that is untorn after a step was untorn before it.
LEMMA UntornBefore ==
    ASSUME Types, TornAtTheEnd, NEW r \in Requests, Acts(r), NEW m \in Memories, Untorn(m)'
    PROVE  Untorn(m)
<1>1. Moves(r) /\ \A q \in Requests \ {r} : req'[q] = req[q]
  BY RequestStep
<1> SUFFICES ASSUME NEW q \in Requests, req[q].on = m, req[q].torn
             PROVE  FALSE
  BY DEF Untorn
<1>2. ~(req'[q].on = m /\ req'[q].torn)
  BY DEF Untorn
<1>3. q = r
  BY <1>1, <1>2
<1>4. req[r].at \in {"commit", "ended"}
  BY <1>3 DEF TornAtTheEnd
<1> QED
  BY <1>1, <1>2, <1>3, <1>4 DEF Moves, Goes

\* A pending change depends on its request and its row alone.
LEMMA PendingStays ==
    ASSUME NEW q \in Requests, req'[q].op = req[q].op, req'[q].on = req[q].on, req'[q].arg = req[q].arg,
           memory'[req[q].on] = memory[req[q].on]
    PROVE  Pending(q)' = Pending(q)
BY DEF Pending

\* Every step that changes a row or its versions changes both, or neither.
LEMMA VersionsTellStep ==
    ASSUME Types, ArgumentsFit, LocksExclude, IdsAreReserved, TornAtTheEnd, VersionsTell,
           NEW r \in Requests, Acts(r)
    PROVE  VersionsTell'
<1>1. Moves(r) /\ \A q \in Requests \ {r} : req'[q] = req[q]
  BY RequestStep
<1>0. req[r].on \in Memories
  BY DEF Types, RequestType
<1> SUFFICES ASSUME NEW m \in Memories, Present(m)', Untorn(m)'
             PROVE  Told(m)'
  BY DEF VersionsTell
<1>2. Untorn(m)
  BY UntornBefore
<1>3. versions[m] \in Seq(VersionType) /\ lock[m] \in Requests \cup {NoOne} /\ NoOne \notin Requests
  BY ConstantsAssumption DEF Types
<1>4. ASSUME memory'[m] = memory[m], versions'[m] = versions[m], lock'[m] = lock[m], lock[m] # r
      PROVE  Told(m)'
  <2>1. Present(m) /\ Latest(m)' = Latest(m)
    BY <1>4 DEF Present, Latest
  <2>2. Told(m)
    BY <1>2, <2>1 DEF VersionsTell
  <2>3. ASSUME NEW q \in Requests, lock[m] = q
        PROVE  req'[q] = req[q] /\ Pending(q)' = Pending(q)
    <3>1. req'[q] = req[q] /\ req[q].on = m
      BY <1>1, <1>3, <1>4, <2>3 DEF LocksExclude
    <3> QED
      BY <1>4, <3>1, PendingStays
  <2>4. ASSUME NEW q \in Requests, lock'[m] = q, req'[q].at = "commit"
        PROVE  Tells(Latest(m)', Pending(q)')
    BY <1>4, <2>1, <2>2, <2>3, <2>4 DEF Told
  <2>5. ASSUME \A q \in Requests : lock'[m] = q => req'[q].at # "commit"
        PROVE  Tells(Latest(m)', memory'[m])
    BY <1>4, <2>1, <2>2, <2>3, <2>5 DEF Told
  <2> QED
    BY <1>4, <2>2, <2>4, <2>5 DEF Told, Tells
<1>5. \A q \in Requests : lock[m] = q => req[q].on = m /\ req[q].at \in InTx
  BY <1>3 DEF LocksExclude
<1>6. \/ lock'[m] = lock[m]
      \/ /\ m = req[r].on /\ req[r].at = "update" /\ req'[r].at \in InTx /\ UNCHANGED memory
         /\ lock[m] = NoOne /\ lock'[m] = r
      \/ lock[m] = r /\ req'[r].at = "ended" /\ lock'[m] = NoOne
  <2>1. CASE lock' = [lock EXCEPT ![req[r].on] = r]
    BY <1>0, <1>3, <2>1, LocksStep, EndDoes DEF Types, InTx
  <2>2. CASE req'[r].at = "ended" /\ lock' = [x \in Memories |-> IF lock[x] = r THEN NoOne ELSE lock[x]]
    BY <2>2
  <2>3. CASE lock' = lock
    BY <2>3
  <2> QED
    BY <2>1, <2>2, <2>3, LocksStep
<1>7. CASE m # req[r].on
  BY <1>4, <1>5, <1>6, <1>7, RowsStep, VersionsStep
<1>8. CASE m = req[r].on /\ req[r].at = "update"
  <2>1. versions'[m] = versions[m]
    BY <1>8, VersionsStep
  <2>2. lock[m] # r
    BY <1>5, <1>8 DEF InTx
  <2>3. CASE lock'[m] = lock[m]
    <3>1. CASE memory'[m] = memory[m]
      BY <1>4, <2>1, <2>2, <2>3, <3>1
    <3>2. CASE memory'[m] # memory[m]
      <4>1. /\ lock[m] = NoOne /\ Present(m)
            /\ memory'[m].content = memory[m].content /\ memory'[m].status = memory[m].status
        BY <1>8, <3>2, RowsStep
      <4>2. versions[m] # << >> /\ Tells(Latest(m), memory[m])
        BY <1>2, <1>3, <4>1 DEF VersionsTell, Told
      <4> QED
        BY <1>3, <2>1, <2>3, <4>1, <4>2 DEF Told, Tells, Latest
    <3> QED
      BY <3>1, <3>2
  <2>4. CASE req'[r].at \in InTx /\ UNCHANGED memory /\ lock[m] = NoOne /\ lock'[m] = r
    <3>1. req'[r].at # "commit"
      BY <1>1, <1>8 DEF Moves, Goes
    <3>2. versions[m] # << >> /\ Tells(Latest(m), memory[m])
      BY <1>2, <1>3, <2>4 DEF VersionsTell, Told, Present
    <3> QED
      BY <2>1, <2>4, <3>1, <3>2 DEF Told, Latest, Tells
  <2> QED
    BY <1>6, <2>2, <2>3, <2>4
<1>9. CASE m = req[r].on /\ req[r].at \in {"next_ver", "version"}
  <2>1. lock[m] = r /\ memory[m].life = "live" /\ memory'[m] = memory[m]
    BY <1>9, RowsStep DEF LocksExclude, InTx
  <2>2. versions[m] # << >> /\ (req[r].at # "commit" => Tells(Latest(m), memory[m]))
    BY <1>2, <1>9, <2>1 DEF VersionsTell, Told, Present
  <2>3. CASE req'[r].at = "commit"
    <3>1. /\ req[r].at = "version" /\ req'[r].on = req[r].on /\ req'[r].op = req[r].op
          /\ req'[r].arg = req[r].arg
      BY <1>1, <1>9, <2>3 DEF Moves, Goes
    <3>2. ~req'[r].torn
      BY <1>9, <3>1 DEF Untorn
    <3>3. versions'[m] = Append(versions[m], Version(Pending(r).content, Pending(r).status, r))
      BY <1>9, <2>3, <3>1, <3>2, VersionWritten
    <3>4. Pending(r)' = Pending(r)
      BY <1>9, <2>1, <3>1, PendingStays
    <3>5. Pending(r) \in RowType
      BY <1>9, PendingIsTyped DEF InTx
    <3> DEFINE v == Version(Pending(r).content, Pending(r).status, r)
    <3>6. v \in VersionType /\ v.content = Pending(r).content /\ v.status = Pending(r).status
      BY <3>5, VersionIsTyped DEF RowType
    <3>7. versions'[m] # << >> /\ versions'[m][Len(versions'[m])] = v
      <4> HIDE DEF v
      <4>1. versions'[m] = Append(versions[m], v) /\ v \in VersionType
        BY <3>3, <3>6 DEF v
      <4> QED
        BY <1>3, <4>1
    <3>8. Tells(Latest(m)', Pending(r)')
      BY <3>4, <3>6, <3>7 DEF Tells, Latest
    <3>9. lock'[m] = r
      BY <1>6, <2>1, <2>3
    <3> QED
      BY <2>3, <3>7, <3>8, <3>9 DEF Told
  <2>4. CASE req'[r].at # "commit"
    <3>1. versions'[m] = versions[m]
      BY <1>9, <2>4, VersionsStep
    <3>2. lock'[m] \in {r, NoOne}
      BY <1>6, <2>1
    <3> QED
      BY <1>3, <1>9, <2>1, <2>2, <2>4, <3>1, <3>2 DEF Told, Tells, Latest
  <2> QED
    BY <2>3, <2>4
<1>10. CASE m = req[r].on /\ req[r].at = "commit"
  <2>1. lock[m] = r /\ memory[m].life = "live"
    BY <1>10 DEF LocksExclude, InTx
  <2>2. versions[m] # << >> /\ Tells(Latest(m), Pending(r))
    BY <1>2, <1>10, <2>1 DEF VersionsTell, Told, Present
  <2>3. /\ versions' = versions /\ lock'[m] = NoOne
        /\ req'[r].torn \/ memory'[m] = Pending(r)
    BY <1>10, <2>1, CommitStep
  <2>4. req'[r].on = req[r].on
    BY <1>1, <1>10, CommitStep DEF Moves, Goes
  <2>5. memory'[m] = Pending(r)
    BY <1>10, <2>3, <2>4 DEF Untorn
  <2> QED
    BY <1>3, <2>2, <2>3, <2>5 DEF Told, Tells, Latest
<1>11. CASE m = req[r].on /\ req[r].at = "insert"
  <2>1. memory[m].life = "unborn"
    BY <1>11 DEF IdsAreReserved
  <2>2. lock[m] = NoOne /\ lock'[m] = NoOne
    <3>1. lock[m] = NoOne
      BY <1>3, <2>1 DEF LocksExclude
    <3> QED
      BY <1>6, <1>3, <1>11, <3>1
  <2>3. memory'[m] # memory[m]
    BY <2>1 DEF Present
  <2>4. memory'[m] = Row("live", r)
    BY <1>11, <2>3, RowsStep
  <2>5. versions'[m] = <<Version(r, "active", r)>>
    <3>1. InsertMemory(r)
      <4>1. ~UNCHANGED memory
        BY <2>3
      <4>2. ~ChangeRow(r) /\ ~DeleteRow(r) /\ ~Commit(r)
        BY <1>11 DEF ChangeRow, DeleteRow, Commit, RowIsFree
      <4>3. ~Arrive(r) /\ ~ReadLabel(r) /\ ~EmbedPatch(r) /\ ~Begin(r) /\ ~OpenChange(r) /\ ~BumpDuplicate(r)
        BY <4>1 DEF Arrive, ReadLabel, EmbedPatch, Begin, OpenChange, BumpDuplicate
      <4>4. ~NextVersion(r) /\ ~InsertVersion(r) /\ ~CheckDuplicate(r) /\ ~FetchCandidates(r) /\ ~Prompt(r)
        BY <4>1 DEF NextVersion, InsertVersion, CheckDuplicate, FetchCandidates, Prompt
      <4>5. ~StoreConflicts(r) /\ ~AcquireTimesOut(r) /\ ~Drop(r)
        BY <4>1 DEF StoreConflicts, AcquireTimesOut, Drop
      <4> QED
        BY <4>2, <4>3, <4>4, <4>5 DEF Acts, Step
    <3> QED
      BY <1>11, <3>1 DEF InsertMemory, Types
  <2>6. versions'[m] # << >> /\ Latest(m)' = Version(r, "active", r)
    BY <2>5 DEF Latest
  <2> QED
    BY <1>3, <2>2, <2>4, <2>6 DEF Told, Tells, Row, Version
<1>12. CASE m = req[r].on /\ req[r].at \notin InTx \cup {"update", "insert"}
  <2>1. memory'[m] = memory[m] /\ versions'[m] = versions[m]
    BY <1>12, RowsStep, VersionsStep DEF InTx
  <2>2. lock[m] # r
    BY <1>5, <1>12
  <2> QED
    BY <1>4, <1>6, <1>12, <2>1, <2>2
<1> QED
  BY <1>7, <1>8, <1>9, <1>10, <1>11, <1>12 DEF InTx

\* After its arrival a request is only ever shielded from fewer rows.
LEMMA ShieldsOnlyFall ==
    ASSUME Types, NEW r \in Requests, Acts(r), NEW q \in Requests
    PROVE  \/ shielded'[q] \subseteq shielded[q]
           \/ /\ q = r /\ req[r].at = "idle" /\ UNCHANGED memory
              /\ shielded'[q] = {m \in Memories : Present(m) /\ IsPrivate(memory[m].label)}
<1>1. CASE Arrive(r)
  BY <1>1 DEF Arrive, Types
<1>2. CASE ChangeRow(r)
  BY <1>2 DEF ChangeRow
<1>3. CASE ReadLabel(r) \/ EmbedPatch(r) \/ Begin(r) \/ OpenChange(r) \/ BumpDuplicate(r)
  BY <1>3 DEF ReadLabel, EmbedPatch, Begin, OpenChange, BumpDuplicate
<1>4. CASE DeleteRow(r) \/ NextVersion(r) \/ InsertVersion(r) \/ Commit(r) \/ CheckDuplicate(r)
  BY <1>4 DEF DeleteRow, NextVersion, InsertVersion, Commit, CheckDuplicate
<1>5. CASE InsertMemory(r) \/ FetchCandidates(r) \/ Prompt(r)
  BY <1>5 DEF InsertMemory, FetchCandidates, Prompt
<1>6. CASE StoreConflicts(r) \/ AcquireTimesOut(r) \/ Drop(r)
  BY <1>6 DEF StoreConflicts, AcquireTimesOut, Drop
<1> QED
  BY <1>1, <1>2, <1>3, <1>4, <1>5, <1>6 DEF Acts, Step

\* No step takes the label of a shielded row away, or carries it on.
LEMMA ShieldStep ==
    ASSUME Types, ArgumentsFit, LocksExclude, IdsAreReserved, ShieldHolds, NEW r \in Requests, Acts(r)
    PROVE  ShieldHolds'
<1>1. Moves(r) /\ \A q \in Requests \ {r} : req'[q] = req[q]
  BY RequestStep
<1>2. req[r].on \in Memories /\ \A q \in Requests : shielded[q] \subseteq Memories
  BY DEF Types, RequestType
<1>3. ASSUME NEW q \in Requests, NEW m \in shielded'[q]
      PROVE  IsPrivate(memory'[m].label) /\ memory'[m].life # "unborn"
  <2>1. CASE UNCHANGED memory /\ shielded'[q] = {x \in Memories : Present(x) /\ IsPrivate(memory[x].label)}
    BY <1>3, <2>1 DEF Present
  <2>2. CASE shielded'[q] \subseteq shielded[q]
    <3>1. m \in Memories /\ IsPrivate(memory[m].label) /\ memory[m].life # "unborn"
      BY <1>2, <1>3, <2>2 DEF ShieldHolds
    <3>2. CASE m = req[r].on /\ req[r].at = "commit" /\ memory'[m] = Pending(r)
      BY <3>1, <3>2, PendingIsTyped DEF InTx
    <3>3. ~(m = req[r].on /\ req[r].at = "insert")
      BY <3>1 DEF IdsAreReserved
    <3>4. CASE memory'[m] = memory[m]
      BY <3>1, <3>4
    <3>5. CASE /\ memory'[m].life # "unborn"
               /\ memory'[m].label = memory[m].label \/ IsPrivate(memory'[m].label)
                     \/ \A p \in Requests : m \notin shielded'[p]
      BY <1>3, <3>1, <3>5
    <3> QED
      BY <3>1, <3>2, <3>3, <3>4, <3>5, RowsStep
  <2> QED
    BY <2>1, <2>2, ShieldsOnlyFall
<1>4. ASSUME NEW q \in Requests, req'[q].at # "idle", req[q].at # "idle"
      PROVE  shielded'[q] \subseteq shielded[q]
  BY <1>4, ShieldsOnlyFall
<1>5. ASSUME NEW q \in Requests, q # r
      PROVE  req'[q] = req[q] /\ shielded'[q] \subseteq shielded[q]
  BY <1>1, <1>5, ShieldsOnlyFall
<1>6. ASSUME NEW q \in Requests, req'[q].at = "embed", req'[q].on \in shielded'[q]
      PROVE  IsPrivate(req'[q].arg)
  <2>1. CASE q # r
    BY <1>5, <1>6, <2>1 DEF ShieldHolds
  <2>2. CASE q = r
    <3>1. req[r].at = "read_label" /\ req'[r].on = req[r].on /\ req'[r].arg = memory[req[r].on].label
      BY <1>1, <1>6, <2>2, EntryIsAPlace DEF Moves, Goes
    <3> QED
      BY <1>4, <1>6, <2>2, <3>1 DEF ShieldHolds
  <2> QED
    BY <2>1, <2>2
<1>7. ASSUME NEW q \in Requests, req'[q].at \in {"detect", "prompt"}
      PROVE  req'[q].on \notin shielded'[q]
  <2>1. CASE q # r
    BY <1>5, <1>7, <2>1 DEF ShieldHolds
  <2>2. CASE q = r
    <3>1. req[r].at \in {"insert", "detect"} /\ req'[r].on = req[r].on
      BY <1>1, <1>7, <2>2, EntryIsAPlace DEF Moves, Goes
    <3>2. req[r].on \notin shielded[r]
      BY <3>1 DEF ShieldHolds, IdsAreReserved
    <3> QED
      BY <1>4, <1>7, <2>2, <3>1, <3>2
  <2> QED
    BY <2>1, <2>2
<1>8. ASSUME NEW q \in Requests, req'[q].at = "prompt"
      PROVE  req'[q].cands \cap shielded'[q] = {}
  <2>1. CASE q # r
    BY <1>5, <1>8, <2>1 DEF ShieldHolds
  <2>2. CASE q = r
    <3>1. req[r].at = "detect" /\ req'[r].cands = Candidates(r)
      BY <1>1, <1>8, <2>2, EntryIsAPlace DEF Moves, Goes
    <3>2. Candidates(r) \cap shielded[r] = {}
      BY DEF Candidates, ShieldHolds
    <3> QED
      BY <1>4, <1>8, <2>2, <3>1, <3>2
  <2> QED
    BY <2>1, <2>2
<1> QED
  BY <1>3, <1>6, <1>7, <1>8 DEF ShieldHolds

\* Nothing shielded is sent.
LEMMA RemoteStep ==
    ASSUME Types, ArgumentsFit, ShieldHolds, LabelledBeforeStaysLocal, NEW r \in Requests, Acts(r)
    PROVE  LabelledBeforeStaysLocal'
<1>1. ASSUME NEW via, NEW ms \in SUBSET Memories, Send(r, via, ms), ms \cap shielded[r] = {}
      PROVE  LabelledBeforeStaysLocal'
  <2> DEFINE Sent(m) == [via |-> via, label |-> memory[m].label, shielded |-> m \in shielded[r]]
  <2>1. \A m \in ms : ~Sent(m).shielded
    BY <1>1
  <2>2. remote' = remote \cup {Sent(m) : m \in ms}
    BY <1>1 DEF Send
  <2> HIDE DEF Sent
  <2> QED
    BY <2>1, <2>2 DEF LabelledBeforeStaysLocal
<1>2. CASE UNCHANGED remote
  BY <1>2 DEF LabelledBeforeStaysLocal
<1>3. CASE EmbedPatch(r)
  <2>1. CASE LaneOf(req[r].arg) = "remote"
    <3>1. ~IsPrivate(req[r].arg)
      BY <2>1 DEF LaneOf, IsPrivate
    <3>2. req[r].on \notin shielded[r]
      BY <1>3, <3>1 DEF EmbedPatch, ShieldHolds
    <3>3. {req[r].on} \in SUBSET Memories
      BY DEF Types, RequestType
    <3> QED
      BY <1>1, <1>3, <2>1, <3>2, <3>3 DEF EmbedPatch
  <2>2. CASE LaneOf(req[r].arg) # "remote"
    BY <1>2, <1>3, <2>2 DEF EmbedPatch
  <2> QED
    BY <2>1, <2>2
<1>4. CASE Prompt(r)
  <2>1. req[r].cands \cup {req[r].on} \in SUBSET Memories
    BY DEF Types, RequestType
  <2>2. (req[r].cands \cup {req[r].on}) \cap shielded[r] = {}
    BY <1>4 DEF Prompt, ShieldHolds
  <2> QED
    BY <1>1, <1>4, <2>1, <2>2 DEF Prompt
<1>5. CASE Arrive(r) \/ ReadLabel(r) \/ Begin(r) \/ OpenChange(r) \/ ChangeRow(r) \/ BumpDuplicate(r)
  BY <1>2, <1>5 DEF Arrive, ReadLabel, Begin, OpenChange, ChangeRow, BumpDuplicate
<1>6. CASE DeleteRow(r) \/ NextVersion(r) \/ InsertVersion(r) \/ Commit(r) \/ CheckDuplicate(r)
  BY <1>2, <1>6 DEF DeleteRow, NextVersion, InsertVersion, Commit, CheckDuplicate
<1>7. CASE InsertMemory(r) \/ FetchCandidates(r) \/ StoreConflicts(r) \/ AcquireTimesOut(r) \/ Drop(r)
  BY <1>2, <1>7 DEF InsertMemory, FetchCandidates, StoreConflicts, AcquireTimesOut, Drop
<1> QED
  BY <1>3, <1>4, <1>5, <1>6, <1>7 DEF Acts, Step

\* The invariant holds initially ...
LEMMA InitEstablishes == Init => IInv
<1> SUFFICES ASSUME Init PROVE IInv
  OBVIOUS
<1>1. Types
  BY InitIsTyped
<1>2. \A r \in Requests : req[r].at = "idle" /\ req[r].op = "create" /\ req[r].torn = FALSE
  BY IdleIsTyped DEF Init
<1>3. OrphansHaveNoVersions
  BY DEF Init, OrphansHaveNoVersions, Present, Row
<1>4. ArgumentsFit /\ LocksExclude /\ IdsAreReserved /\ TornAtTheEnd /\ NumbersNeverCollide
  BY <1>2 DEF Init, ArgumentsFit, LocksExclude, IdsAreReserved, TornAtTheEnd, NumbersNeverCollide, InTx
<1>5. ShieldHolds /\ LabelledBeforeStaysLocal
  BY <1>2 DEF Init, ShieldHolds, LabelledBeforeStaysLocal
<1>6. VersionsTell
  <2> SUFFICES ASSUME NEW m \in Memories, Present(m) PROVE Told(m)
    BY DEF VersionsTell
  <2>1. m \in Stored /\ memory[m] = Row("live", NoOne)
    BY DEF Init, Present, Row
  <2>2. versions[m] = <<Version(NoOne, "active", NoOne)>>
    BY <2>1 DEF Init
  <2>3. Latest(m) = Version(NoOne, "active", NoOne) /\ versions[m] # << >>
    BY <2>2 DEF Latest
  <2> QED
    BY <1>2, <2>1, <2>3 DEF Told, Tells, Row, Version
<1> QED
  BY <1>1, <1>3, <1>4, <1>5, <1>6, TypesApart DEF IInv

\* ... and every step keeps it.
LEMMA StepKeeps == IInv /\ [Next]_vars => IInv'
<1> SUFFICES ASSUME IInv, [Next]_vars PROVE IInv'
  OBVIOUS
<1>1. Types /\ OrphansHaveNoVersions
  BY TypesApart DEF IInv
<1>2. Types'
  BY <1>1, TypesStep DEF IInv
<1>3. CASE UNCHANGED vars
  <2>1. OrphansHaveNoVersions' /\ ArgumentsFit' /\ LocksExclude' /\ IdsAreReserved' /\ TornAtTheEnd'
    BY <1>1, <1>3 DEF IInv, vars, OrphansHaveNoVersions, Present, ArgumentsFit, LocksExclude, IdsAreReserved, TornAtTheEnd
  <2>2. NumbersNeverCollide' /\ ShieldHolds' /\ LabelledBeforeStaysLocal'
    BY <1>3 DEF IInv, vars, NumbersNeverCollide, ShieldHolds, LabelledBeforeStaysLocal
  <2>3. VersionsTell'
    BY <1>3 DEF IInv, vars, VersionsTell, Told, Tells, Latest, Pending, Present, Untorn
  <2>4. TypeOK'
    BY <1>2, <2>1, TypesApart DEF TypeOK, Types, OrphansHaveNoVersions, RequestType, RowType, VersionType, Present
  <2> QED
    BY <2>1, <2>2, <2>3, <2>4 DEF IInv
<1>4. ASSUME NEW r \in Requests, Acts(r) PROVE IInv'
  <2>1. OrphansHaveNoVersions' /\ ArgumentsFit' /\ LocksExclude' /\ IdsAreReserved' /\ TornAtTheEnd'
    BY <1>1, <1>4, OrphansStep, ArgumentsStep, LocksExcludeStep, IdsStep, TornStep DEF IInv
  <2>2. NumbersNeverCollide' /\ ShieldHolds' /\ LabelledBeforeStaysLocal'
    BY <1>1, <1>4, NumbersStep, ShieldStep, RemoteStep DEF IInv
  <2>3. VersionsTell'
    BY <1>1, <1>4, VersionsTellStep DEF IInv
  <2>4. TypeOK'
    BY <1>2, <2>1, TypesApart DEF TypeOK, Types, OrphansHaveNoVersions, RequestType, RowType, VersionType, Present
  <2> QED
    BY <2>1, <2>2, <2>3, <2>4 DEF IInv
<1> QED
  BY <1>3, <1>4 DEF Next, Acts

\* The invariant holds of every behaviour.
THEOREM Invariance == Spec => []IInv
BY InitEstablishes, StepKeeps, PTL DEF Spec

\* The variables keep their types, and versions belong to rows that are there.
THEOREM TypeCorrect == Spec => []TypeOK
<1>1. IInv => TypeOK
  BY DEF IInv
<1> QED
  BY <1>1, Invariance, PTL

\* However many requests interleave over however small a pool, a row at rest is told by
\* its latest version, unless a handler was torn between the two.
THEOREM VersionsAgree == Spec => []LatestVersionAgrees
<1>1. IInv => LatestVersionAgrees
  <2> SUFFICES ASSUME IInv, NEW m \in Memories, Present(m), lock[m] = NoOne, Untorn(m)
               PROVE  versions[m] # << >> /\ Tells(Latest(m), memory[m])
    BY DEF LatestVersionAgrees, Tells
  <2>1. Told(m)
    BY DEF IInv, VersionsTell
  <2> QED
    BY <2>1, ConstantsAssumption DEF Told
<1> QED
  BY <1>1, Invariance, PTL

\* No version number is taken twice: UNIQUE (memory_id, version_number) never fails.
THEOREM NumbersStayFree == Spec => []NumbersNeverCollide
<1>1. IInv => NumbersNeverCollide
  BY DEF IInv
<1> QED
  BY <1>1, Invariance, PTL

\* No row labelled private before a request arrived, and ever since, is sent out for it.
THEOREM LabelsHold == Spec => []LabelledBeforeStaysLocal
<1>1. IInv => LabelledBeforeStaysLocal
  BY DEF IInv
<1> QED
  BY <1>1, Invariance, PTL
=============================================================================
