--------------------------- MODULE CredentialsProofs ---------------------------
(***************************************************************************)
(* Proofs about src/credentials: who is authenticated (CredentialCache),   *)
(* for all credentials, requests, capacities, lifetimes and bounds, and    *)
(* for which agents a credential may act (AgentGrants), for all ids,       *)
(* agents, tenants and writers.  They share no state.                      *)
(***************************************************************************)
EXTENDS CredentialCache, AgentGrants, FiniteSetTheorems, TLAPS

-----------------------------------------------------------------------------
(***************************************************************************)
(* CredentialCache: the inductive invariant.                               *)
(***************************************************************************)

\* A row that has a revocation time is the row of a revoked credential, and
\* neither that time nor an acceptance lies in the future.
RevocationIsRecorded ==
  \A c \in Credentials :
    /\ revokedAt[c] # Never => row[c].status = "revoked"
    /\ revokedAt[c] <= mono
    /\ accepted[c] <= mono

Loaded(r) == req[r].pc = "loaded"

\* An answer on the way is no older than MaxLag, and if it says active it was
\* read before any revocation; its expiry is the expiry of the row.
AnswersAreRecent ==
  \A r \in Requests : Loaded(r) =>
    /\ req[r].fetched <= mono /\ mono - req[r].fetched <= MaxLag
    /\ row[req[r].cred] # Unissued
    /\ req[r].record.expires = row[req[r].cred].expires
    /\ req[r].record.status = "active" /\ revokedAt[req[r].cred] # Never
         => req[r].fetched <= revokedAt[req[r].cred]

\* A cached record of a revoked credential dies in time, and any entry dies with
\* its credential.
EntriesDie ==
  \A c \in DOMAIN cache :
    /\ revokedAt[c] # Never => cache[c].tick <= revokedAt[c] + MaxLag + TTL
    /\ row[c] # Unissued
    /\ row[c].expires # NoExpiry => cache[c].wall <= row[c].expires

CacheIsBounded == IsFiniteSet(DOMAIN cache) /\ CacheWithinCapacity

IInv ==
  /\ TypeOK
  /\ RevocationIsRecorded
  /\ AnswersAreRecent
  /\ EntriesDie
  /\ RevocationTakesEffect
  /\ CacheIsBounded

-----------------------------------------------------------------------------
(***************************************************************************)
(* What a step does to the cache.                                          *)
(***************************************************************************)

\* No entry is added or changed.
Shrinks ==
  /\ DOMAIN cache' \subseteq DOMAIN cache
  /\ \A k \in DOMAIN cache' : cache'[k] = cache[k]

\* Only Admit adds an entry; every other step of authenticate, of the process
\* or of an operator leaves the entries alone or drops some.
LEMMA OnlyAdmitAdds ==
  ASSUME [Next]_vars, \A r \in Requests : ~Admit(r)
  PROVE  Shrinks
<1>1. ASSUME NEW r \in Requests, NEW c \in Asks[r],
             ServeFromCache(r, c) \/ \E s \in BOOLEAN : MissCache(r, c, s)
      PROVE  Shrinks
  BY <1>1 DEF ServeFromCache, MissCache, Without, Shrinks
<1>2. ASSUME NEW r \in Requests, FetchRow(r) \/ GiveUp(r) \/ Reject(r)
      PROVE  Shrinks
  BY <1>2 DEF FetchRow, GiveUp, Reject, Shrinks
<1>3. ASSUME NEW c \in Credentials, Manage(c)
      PROVE  Shrinks
  BY <1>3 DEF Manage, Issue, Revoke, Invalidate, RevokeReplyLost, RevokeElsewhere, Without, Shrinks
<1>4. CASE Restart \/ Tick \/ SetWallClock \/ UNCHANGED vars
  BY <1>4 DEF Restart, Tick, SetWallClock, vars, Without, Shrinks
<1>. QED BY <1>1, <1>2, <1>3, <1>4 DEF Next, Authenticate

\* A loaded request carries a whole answer.
LEMMA LoadedIsHolding ==
  ASSUME TypeOK, NEW r \in Requests, Loaded(r)
  PROVE  req[r] \in Holding
BY DEF TypeOK, Loaded, Idle, Asking, Holding

\* The entry insert writes has its type, and its deadlines are no later than a
\* TTL from now and the credential's own expiry.
LEMMA NewEntryDeadlines ==
  ASSUME TypeOK, NEW record \in Record
  PROVE  /\ NewEntry(record) \in Entry
         /\ NewEntry(record).record = record
         /\ NewEntry(record).tick = mono + TTL
         /\ record.expires # NoExpiry => NewEntry(record).wall <= record.expires
<1>1. record.expires # NoExpiry => record.expires \in Int
  BY DEF Record, Expiries
<1>2. mono \in Int /\ wall \in Int /\ TTL \in Int
  BY TTLAssumption DEF TypeOK
<1>3. DEFINE w == IF record.expires # NoExpiry /\ record.expires < wall + TTL
                  THEN record.expires ELSE wall + TTL
<1>4. w \in Int /\ (record.expires # NoExpiry => w <= record.expires)
  BY <1>1, <1>2
<1>5. NewEntry(record) = [record |-> record, tick |-> mono + TTL, wall |-> w]
  BY DEF NewEntry
<1>. HIDE DEF w
<1>. QED BY <1>2, <1>4, <1>5 DEF Entry

\* insert puts the new entry at its key and keeps the others it does not evict.
LEMMA InsertAdds ==
  ASSUME NEW c, NEW record, Insert(c, record)
  PROVE  /\ c \in DOMAIN cache'
         /\ cache'[c] = NewEntry(record)
         /\ DOMAIN cache' \subseteq DOMAIN cache \cup {c}
         /\ \A k \in DOMAIN cache' \ {c} : cache'[k] = cache[k]
BY DEF Insert

\* Whatever insert evicts, the cache stays finite and within its capacity.
LEMMA InsertStaysWithin ==
  ASSUME CacheIsBounded, NEW c, NEW record, Insert(c, record)
  PROVE  CacheIsBounded'
<1>. DEFINE D == DOMAIN cache
<1>c. IsFiniteSet(D) /\ Cardinality(D) <= Capacity /\ Capacity \in Nat \ {0}
  BY CapacityAssumption DEF CacheIsBounded, CacheWithinCapacity
<1>1. PICK V \in Victims(c) : DOMAIN cache' = (D \ V) \cup {c}
  BY DEF Insert
<1>2. IsFiniteSet(D \ V) /\ Cardinality(D \ V) <= Cardinality(D) /\ Cardinality(D \ V) \in Nat
      /\ Cardinality(D) \in Nat
  BY <1>c, FS_Subset, FS_CardinalityType
<1>3. c \in D \ V \/ Cardinality(D \ V) < Capacity
  <2>1. CASE Cached(c) \/ Cardinality(D) < Capacity
    <3>1. V = {}
      BY <1>1, <2>1 DEF Victims
    <3>. QED BY <2>1, <3>1, <1>2, <1>c DEF Cached
  <2>2. CASE ~(Cached(c) \/ Cardinality(D) < Capacity) /\ Cardinality(D \ Expired) < Capacity
    <3>1. V = Expired
      BY <1>1, <2>2 DEF Victims
    <3>. QED BY <2>2, <3>1
  <2>3. CASE ~(Cached(c) \/ Cardinality(D) < Capacity) /\ ~(Cardinality(D \ Expired) < Capacity)
    <3>1. PICK v \in D \ Expired : V = Expired \cup {v}
      BY <1>1, <2>3 DEF Victims
    <3>2. IsFiniteSet(D \ {v}) /\ Cardinality(D \ {v}) = Cardinality(D) - 1
      BY <1>c, <3>1, FS_RemoveElement
    <3>3. D \ V \subseteq D \ {v}
      BY <3>1
    <3>4. Cardinality(D \ V) <= Cardinality(D \ {v})
      BY <3>2, <3>3, FS_Subset
    <3>. QED BY <3>2, <3>4, <1>2, <1>c
  <2>. QED BY <2>1, <2>2, <2>3
<1>4. /\ IsFiniteSet((D \ V) \cup {c})
      /\ Cardinality((D \ V) \cup {c}) =
           IF c \in D \ V THEN Cardinality(D \ V) ELSE Cardinality(D \ V) + 1
  BY <1>2, FS_AddElement
<1>5. Cardinality((D \ V) \cup {c}) <= Capacity
  BY <1>2, <1>3, <1>4, <1>c
<1>. QED BY <1>1, <1>4, <1>5 DEF CacheIsBounded, CacheWithinCapacity

-----------------------------------------------------------------------------
(***************************************************************************)
(* The invariant holds at first and every step preserves it.               *)
(***************************************************************************)

\* The empty cache and the unissued rows satisfy every part.
LEMMA InitEstablishes == Init => IInv
<1>. SUFFICES ASSUME Init PROVE IInv
  OBVIOUS
<1>1. TypeOK
  BY DEF Init, TypeOK
<1>2. DOMAIN cache = {}
  BY DEF Init
<1>3. RevocationIsRecorded /\ AnswersAreRecent /\ EntriesDie /\ RevocationTakesEffect
  BY <1>2 DEF Init, RevocationIsRecorded, AnswersAreRecent, EntriesDie, RevocationTakesEffect,
              Loaded, Idle, Never
<1>4. CacheIsBounded
  BY <1>2, FS_EmptySet, CapacityAssumption DEF CacheIsBounded, CacheWithinCapacity
<1>. QED BY <1>1, <1>3, <1>4 DEF IInv

\* Time never goes back on the monotonic clock, and only Tick moves it.
LEMMA ClocksRun ==
  ASSUME mono \in Nat, wall \in Int, jumps \in Nat, [Next]_vars
  PROVE  /\ mono <= mono' /\ (mono' # mono => Tick)
         /\ mono' \in Nat /\ wall' \in Int /\ jumps' \in Nat
<1>1. CASE UNCHANGED clocks
  BY <1>1 DEF clocks
<1>2. CASE Tick
  BY <1>2 DEF Tick
<1>3. CASE SetWallClock
  BY <1>3 DEF SetWallClock
<1>4. ASSUME NEW r \in Requests, Authenticate(r) PROVE UNCHANGED clocks
  BY <1>4 DEF Authenticate, ServeFromCache, MissCache, FetchRow, GiveUp, Admit, Reject
<1>5. ASSUME NEW c \in Credentials, Manage(c) PROVE UNCHANGED clocks
  BY <1>5 DEF Manage, Issue, Revoke, Invalidate, RevokeReplyLost, RevokeElsewhere
<1>6. CASE Restart \/ UNCHANGED vars
  BY <1>1, <1>6 DEF Restart, vars, clocks
<1>. QED BY <1>1, <1>2, <1>3, <1>4, <1>5, <1>6 DEF Next

\* Every step preserves the types.
LEMMA TypeStep ==
  ASSUME TypeOK, [Next]_vars
  PROVE  TypeOK'
<1>t. mono \in Nat /\ TTL \in Nat
  BY TTLAssumption DEF TypeOK
<1>1. ASSUME NEW r \in Requests, Admit(r) PROVE TypeOK'
  <2>1. req[r] \in Holding
    BY <1>1, LoadedIsHolding DEF Admit, Loaded
  <2>2. req[r].cred \in Credentials /\ req[r].record \in Record
    BY <2>1 DEF Holding
  <2>3. Insert(req[r].cred, req[r].record)
    BY <1>1 DEF Admit
  <2>4. DOMAIN cache' \subseteq Credentials
    BY <2>2, <2>3, InsertAdds DEF TypeOK
  <2>5. ASSUME NEW k \in DOMAIN cache'
        PROVE  cache'[k] \in Entry /\ cache'[k].tick <= mono + TTL
    <3>1. CASE k = req[r].cred
      BY <3>1, <2>2, <2>3, <1>t, InsertAdds, NewEntryDeadlines
    <3>2. CASE k # req[r].cred
      BY <3>2, <2>3, InsertAdds DEF TypeOK
    <3>. QED BY <3>1, <3>2
  <2>6. accepted' \in [Credentials -> Nat \cup {Never}]
    BY <1>1, <2>2 DEF Admit, Accept, TypeOK
  <2>7. UNCHANGED <<row, revoking, mono, wall, jumps, revokedAt, revokedHere>>
    BY <1>1 DEF Admit, clocks
  <2>8. req' \in [Requests -> {Idle} \cup Asking \cup Holding]
    BY <1>1 DEF Admit, TypeOK
  <2>. QED BY <2>4, <2>5, <2>6, <2>7, <2>8 DEF TypeOK
<1>2. ASSUME \A r \in Requests : ~Admit(r) PROVE TypeOK'
  <2>1. Shrinks
    BY <1>2, OnlyAdmitAdds
  <2>2. mono <= mono' /\ mono' \in Nat /\ wall' \in Int /\ jumps' \in Nat
    BY ClocksRun DEF TypeOK
  <2>3. DOMAIN cache' \subseteq Credentials
        /\ \A c \in DOMAIN cache' : cache'[c] \in Entry /\ cache'[c].tick <= mono' + TTL
    <3>. SUFFICES ASSUME NEW c \in DOMAIN cache'
                  PROVE  c \in Credentials /\ cache'[c] \in Entry /\ cache'[c].tick <= mono' + TTL
      OBVIOUS
    <3>1. c \in DOMAIN cache /\ cache'[c] = cache[c]
      BY <2>1 DEF Shrinks
    <3>2. c \in Credentials /\ cache[c] \in Entry /\ cache[c].tick <= mono + TTL
      BY <3>1 DEF TypeOK
    <3>3. cache[c].tick \in Int
      BY <3>2 DEF Entry
    <3>. QED BY <3>1, <3>2, <3>3, <2>2, <1>t
  <2>4. row' \in [Credentials -> Record \cup {Unissued}]
    <3>1. ASSUME NEW c \in Credentials, Issue(c)
          PROVE  row' \in [Credentials -> Record \cup {Unissued}]
      <4>1. [status |-> "active", expires |-> IF Lifetime[c] = NoExpiry THEN NoExpiry
                                              ELSE wall + Lifetime[c]] \in Record
        BY LifetimeAssumption DEF TypeOK, Record, Expiries
      <4>. QED BY <3>1, <4>1 DEF Issue, TypeOK
    <3>2. ASSUME NEW c \in Credentials, RevokeRow(c)
          PROVE  row' \in [Credentials -> Record \cup {Unissued}]
      <4>1. CASE row[c].status = "active"
        <5>1. row[c] \in Record
          BY <4>1 DEF TypeOK, Unissued
        <5>2. [row[c] EXCEPT !.status = "revoked"] \in Record
          BY <5>1 DEF Record
        <5>. QED BY <3>2, <4>1, <5>2 DEF RevokeRow, TypeOK
      <4>2. CASE row[c].status # "active"
        BY <3>2, <4>2 DEF RevokeRow, TypeOK
      <4>. QED BY <4>1, <4>2
    <3>3. CASE row' = row
      BY <3>3 DEF TypeOK
    <3>. QED
      BY <1>2, <3>1, <3>2, <3>3
      DEF Next, Authenticate, Manage, ServeFromCache, MissCache, FetchRow, GiveUp, Reject, Revoke,
          Invalidate, RevokeReplyLost, RevokeElsewhere, Restart, Tick, SetWallClock, vars
  <2>5. req' \in [Requests -> {Idle} \cup Asking \cup Holding]
    <3>1. ASSUME NEW r \in Requests, NEW c \in Asks[r], NEW secret \in BOOLEAN,
                 MissCache(r, c, secret)
          PROVE  req' \in [Requests -> {Idle} \cup Asking \cup Holding]
      <4>1. c \in Credentials
        BY AsksAssumption
      <4>2. [pc |-> "fetching", cred |-> c, secret |-> secret, at |-> wall] \in Asking
        BY <4>1 DEF Asking, TypeOK
      <4>. QED BY <3>1, <4>2 DEF MissCache, TypeOK
    <3>2. ASSUME NEW r \in Requests, FetchRow(r)
          PROVE  req' \in [Requests -> {Idle} \cup Asking \cup Holding]
      <4>1. req[r] \in Asking
        BY <3>2 DEF FetchRow, TypeOK, Idle, Holding
      <4>2. row[req[r].cred] \in Record
        BY <3>2, <4>1 DEF FetchRow, TypeOK, Asking
      <4>3. [pc |-> "loaded", cred |-> req[r].cred, secret |-> req[r].secret, at |-> req[r].at,
             record |-> row[req[r].cred], fetched |-> mono] \in Holding
        BY <4>1, <4>2, <1>t DEF Asking, Holding
      <4>. QED BY <3>2, <4>3 DEF FetchRow, Hold, TypeOK
    <3>3. CASE req' = req \/ \E r \in Requests : req' = [req EXCEPT ![r] = Idle]
      BY <3>3 DEF TypeOK
    <3>4. CASE Restart
      BY <3>4 DEF Restart, TypeOK
    <3>. QED
      BY <1>2, <3>1, <3>2, <3>3, <3>4
      DEF Next, Authenticate, Manage, ServeFromCache, GiveUp, Reject, Issue, Revoke,
          Invalidate, RevokeReplyLost, RevokeElsewhere, Tick, SetWallClock, vars
  <2>6. revoking' \subseteq Credentials /\ revokedHere' \subseteq Credentials
    BY <1>2 DEF TypeOK, Next, Authenticate, Manage, ServeFromCache, MissCache, FetchRow, GiveUp,
                Reject, Issue, Revoke, Invalidate, RevokeReplyLost, RevokeElsewhere, Restart,
                Tick, SetWallClock, vars, history
  <2>7. revokedAt' \in [Credentials -> Nat \cup {Never}]
    BY <1>2 DEF TypeOK, Next, Authenticate, Manage, ServeFromCache, MissCache, FetchRow, GiveUp,
                Reject, Issue, Revoke, RevokeRow, Invalidate, RevokeReplyLost, RevokeElsewhere,
                Restart, Tick, SetWallClock, vars, history
  <2>8. accepted' \in [Credentials -> Nat \cup {Never}]
    BY <1>2 DEF TypeOK, Next, Authenticate, Manage, ServeFromCache, Accept, MissCache, FetchRow,
                GiveUp, Reject, Issue, Revoke, Invalidate, RevokeReplyLost, RevokeElsewhere,
                Restart, Tick, SetWallClock, vars, history
  <2>. QED BY <2>2, <2>3, <2>4, <2>5, <2>6, <2>7, <2>8 DEF TypeOK
<1>. QED BY <1>1, <1>2
\* What becomes of a row: once issued it keeps its expiry and stays issued, and a
\* revocation time, once set, stays; when it is set it is the present.
RowsMove ==
  \A c \in Credentials :
    /\ row[c] # Unissued => row'[c] # Unissued /\ row'[c].expires = row[c].expires
    /\ row'[c].status = row[c].status \/ row[c].status # "revoked"
    /\ revokedAt[c] # Never => revokedAt'[c] = revokedAt[c]
    /\ revokedAt'[c] # revokedAt[c] => revokedAt'[c] = mono /\ mono' = mono
    /\ revokedAt'[c] # Never => row'[c].status = "revoked"

\* Only Issue and the revocations touch a row, and they do as RowsMove says.
LEMMA RowStep ==
  ASSUME TypeOK, RevocationIsRecorded, [Next]_vars
  PROVE  RowsMove
<1>1. ASSUME UNCHANGED <<row, revokedAt>> PROVE RowsMove
  BY <1>1 DEF RowsMove, RevocationIsRecorded
<1>2. ASSUME NEW c \in Credentials, Issue(c) PROVE RowsMove
  BY <1>2 DEF Issue, RowsMove, RevocationIsRecorded, TypeOK, Unissued, history
<1>3. ASSUME NEW c \in Credentials, RevokeRow(c), mono' = mono PROVE RowsMove
  <2>1. CASE row[c].status = "active"
    <3>1. revokedAt[c] = Never
      BY <2>1 DEF RevocationIsRecorded
    <3>2. row[c] \in Record
      BY <2>1 DEF TypeOK, Unissued
    <3>3. /\ row'[c].status = "revoked" /\ row'[c].expires = row[c].expires
          /\ revokedAt'[c] = mono
          /\ \A k \in Credentials \ {c} : row'[k] = row[k] /\ revokedAt'[k] = revokedAt[k]
      BY <1>3, <2>1, <3>2 DEF RevokeRow, TypeOK, Record
    <3>. QED BY <1>3, <2>1, <3>1, <3>3 DEF RowsMove, RevocationIsRecorded, Unissued
  <2>2. CASE row[c].status # "active"
    BY <1>1, <1>3, <2>2 DEF RevokeRow
  <2>. QED BY <2>1, <2>2
<1>. QED
  BY <1>1, <1>2, <1>3
  DEF Next, Authenticate, Manage, ServeFromCache, MissCache, FetchRow, GiveUp, Admit, Reject,
      Revoke, Invalidate, RevokeReplyLost, RevokeElsewhere, Restart, Tick, SetWallClock,
      vars, clocks, history

\* A revocation time is never in the future and belongs to a revoked row.
LEMMA RecordStep ==
  ASSUME TypeOK, TypeOK', RevocationIsRecorded, [Next]_vars
  PROVE  RevocationIsRecorded'
<1>1. RowsMove /\ mono <= mono'
  BY RowStep, ClocksRun DEF TypeOK
<1>2. ASSUME NEW c \in Credentials PROVE revokedAt'[c] <= mono'
  BY <1>1 DEF RowsMove, RevocationIsRecorded, TypeOK, Never
<1>3. ASSUME NEW c \in Credentials PROVE accepted'[c] <= mono'
  <2>1. accepted'[c] = accepted[c] \/ accepted'[c] = mono
    BY DEF TypeOK, Next, Authenticate, Manage, ServeFromCache, Accept, MissCache, FetchRow,
           GiveUp, Admit, Reject, Issue, Revoke, Invalidate, RevokeReplyLost, RevokeElsewhere,
           Restart, Tick, SetWallClock, vars, history
  <2>. QED BY <2>1, <1>1 DEF RevocationIsRecorded, TypeOK, Never
<1>. QED BY <1>1, <1>2, <1>3 DEF RowsMove, RevocationIsRecorded

\* What is asked of the requests: a step that leaves an answer loaded loaded it
\* from the row just now, or left it as it was.
LEMMA AnswerStep ==
  ASSUME TypeOK, TypeOK', RevocationIsRecorded, AnswersAreRecent, [Next]_vars
  PROVE  AnswersAreRecent'
<1>. SUFFICES ASSUME NEW r \in Requests, Loaded(r)'
              PROVE  /\ req'[r].fetched <= mono' /\ mono' - req'[r].fetched <= MaxLag
                     /\ row'[req'[r].cred] # Unissued
                     /\ req'[r].record.expires = row'[req'[r].cred].expires
                     /\ req'[r].record.status = "active" /\ revokedAt'[req'[r].cred] # Never
                          => req'[r].fetched <= revokedAt'[req'[r].cred]
  BY DEF AnswersAreRecent
<1>1. CASE FetchRow(r)
  <2>1. req[r] \in Asking
    BY <1>1 DEF FetchRow, TypeOK, Idle, Holding
  <2>2. /\ req'[r].fetched = mono /\ req'[r].cred = req[r].cred
        /\ req'[r].record = row[req[r].cred] /\ row[req[r].cred] # Unissued
        /\ req[r].cred \in Credentials
    BY <1>1, <2>1 DEF FetchRow, Hold, TypeOK, Asking
  <2>3. UNCHANGED <<row, mono, revokedAt>>
    BY <1>1 DEF FetchRow, clocks, history
  <2>4. revokedAt[req[r].cred] # Never => req'[r].record.status # "active"
    BY <2>2 DEF RevocationIsRecorded
  <2>. QED BY <2>2, <2>3, <2>4, BoundsAssumption DEF TypeOK
<1>2. CASE ~FetchRow(r)
  <2>1. req'[r] = req[r]
    <3>1. ASSUME NEW q \in Requests, NEW c \in Credentials, NEW s \in BOOLEAN, MissCache(q, c, s)
          PROVE  req'[r] = req[r]
      BY <3>1 DEF MissCache, TypeOK, Loaded
    <3>2. ASSUME NEW q \in Requests, q # r, FetchRow(q) PROVE req'[r] = req[r]
      BY <3>2 DEF FetchRow, Hold, TypeOK
    <3>3. ASSUME NEW q \in Requests, req' = [req EXCEPT ![q] = Idle] PROVE req'[r] = req[r]
      BY <3>3 DEF TypeOK, Loaded, Idle
    <3>4. CASE Restart
      BY <3>4 DEF Restart, Loaded, Idle
    <3>5. CASE UNCHANGED req
      BY <3>5
    <3>6. ASSUME NEW q \in Requests, Authenticate(q) PROVE req'[r] = req[r]
      BY <3>6, <3>1, <3>2, <3>3, <3>5, <1>2, AsksAssumption
      DEF Authenticate, ServeFromCache, GiveUp, Admit, Reject
    <3>7. ASSUME NEW c \in Credentials, Manage(c) PROVE req'[r] = req[r]
      BY <3>7 DEF Manage, Issue, Revoke, Invalidate, RevokeReplyLost, RevokeElsewhere
    <3>. QED BY <3>4, <3>5, <3>6, <3>7 DEF Next, Tick, SetWallClock, vars
  <2>2. Loaded(r)
    BY <2>1 DEF Loaded
  <2>3. req[r] \in Holding
    BY <2>2, LoadedIsHolding
  <2>4. req[r].cred \in Credentials /\ req[r].fetched \in Int
    BY <2>3 DEF Holding
  <2>5. RowsMove /\ mono <= mono' /\ (mono' # mono => Tick)
    BY RowStep, ClocksRun DEF TypeOK
  <2>6. mono' - req[r].fetched <= MaxLag
    BY <2>2, <2>4, <2>5, BoundsAssumption DEF Tick, TypeOK, Loaded, AnswersAreRecent
  <2>. DEFINE c == req[r].cred
  <2>7. row'[c] # Unissued /\ req[r].record.expires = row'[c].expires
    BY <2>2, <2>4, <2>5 DEF RowsMove, AnswersAreRecent
  <2>8. req[r].record.status = "active" /\ revokedAt'[c] # Never
          => req[r].fetched <= revokedAt'[c]
    BY <2>2, <2>4, <2>5 DEF RowsMove, AnswersAreRecent
  <2>9. req[r].fetched <= mono'
    BY <2>2, <2>4, <2>5 DEF AnswersAreRecent, TypeOK
  <2>. QED BY <2>1, <2>6, <2>7, <2>8, <2>9
<1>. QED BY <1>1, <1>2

\* An answer that is admitted is active, and admitted in time.
LEMMA AdmittedInTime ==
  ASSUME TypeOK, AnswersAreRecent, NEW r \in Requests, Admit(r)
  PROVE  /\ req[r].cred \in Credentials /\ req[r].record \in Record
         /\ row[req[r].cred] # Unissued
         /\ req[r].record.expires = row[req[r].cred].expires
         /\ revokedAt[req[r].cred] # Never => mono <= revokedAt[req[r].cred] + MaxLag
<1>1. req[r] \in Holding /\ Loaded(r)
  BY LoadedIsHolding DEF Admit, Loaded
<1>2. req[r].cred \in Credentials /\ req[r].record \in Record /\ req[r].fetched \in Int
  BY <1>1 DEF Holding
<1>3. req[r].record.status = "active"
  BY DEF Admit, Verified, Usable
<1>4. revokedAt[req[r].cred] \in Int
  BY <1>2 DEF TypeOK, Never
<1>. QED BY <1>1, <1>2, <1>3, <1>4, BoundsAssumption DEF AnswersAreRecent, TypeOK

\* An entry is written with deadlines that hold, and later revocations find
\* every entry at most a TTL from its end.
LEMMA EntryStep ==
  ASSUME TypeOK, TypeOK', RevocationIsRecorded, AnswersAreRecent, EntriesDie, [Next]_vars
  PROVE  EntriesDie'
<1>t. mono \in Nat /\ TTL \in Nat /\ MaxLag \in Nat
  BY TTLAssumption, BoundsAssumption DEF TypeOK
<1>. SUFFICES ASSUME NEW k \in DOMAIN cache'
              PROVE  /\ revokedAt'[k] # Never => cache'[k].tick <= revokedAt'[k] + MaxLag + TTL
                     /\ row'[k] # Unissued
                     /\ row'[k].expires # NoExpiry => cache'[k].wall <= row'[k].expires
  BY DEF EntriesDie
<1>r. RowsMove
  BY RowStep
<1>k. k \in Credentials /\ revokedAt[k] \in Int
  BY DEF TypeOK, Never
<1>1. ASSUME NEW r \in Requests, Admit(r), k = req[r].cred
      PROVE  /\ revokedAt'[k] # Never => cache'[k].tick <= revokedAt'[k] + MaxLag + TTL
             /\ row'[k] # Unissued
             /\ row'[k].expires # NoExpiry => cache'[k].wall <= row'[k].expires
  <2>1. UNCHANGED <<row, revokedAt>> /\ Insert(k, req[r].record)
    BY <1>1 DEF Admit
  <2>2. cache'[k] = NewEntry(req[r].record)
    BY <2>1, InsertAdds
  <2>3. /\ req[r].record \in Record /\ row[k] # Unissued
        /\ req[r].record.expires = row[k].expires
        /\ revokedAt[k] # Never => mono <= revokedAt[k] + MaxLag
    BY <1>1, AdmittedInTime
  <2>4. cache'[k].tick = mono + TTL
        /\ (row[k].expires # NoExpiry => cache'[k].wall <= row[k].expires)
    BY <2>2, <2>3, NewEntryDeadlines
  <2>. QED BY <2>1, <2>3, <2>4, <1>t, <1>k
<1>2. ASSUME k \in DOMAIN cache, cache'[k] = cache[k]
      PROVE  /\ revokedAt'[k] # Never => cache'[k].tick <= revokedAt'[k] + MaxLag + TTL
             /\ row'[k] # Unissued
             /\ row'[k].expires # NoExpiry => cache'[k].wall <= row'[k].expires
  <2>1. cache[k].tick \in Int /\ cache[k].tick <= mono + TTL
    BY <1>2 DEF TypeOK, Entry
  <2>2. row'[k] # Unissued /\ row'[k].expires = row[k].expires
    BY <1>2, <1>k, <1>r DEF RowsMove, EntriesDie
  <2>3. revokedAt'[k] # Never => cache[k].tick <= revokedAt'[k] + MaxLag + TTL
    <3>1. CASE revokedAt'[k] = revokedAt[k]
      BY <3>1, <1>2 DEF EntriesDie
    <3>2. CASE revokedAt'[k] # revokedAt[k]
      BY <3>2, <2>1, <1>k, <1>r, <1>t DEF RowsMove
    <3>. QED BY <3>1, <3>2
  <2>. QED BY <1>2, <2>2, <2>3 DEF EntriesDie
<1>3. CASE \E r \in Requests : Admit(r)
  <2>1. PICK r \in Requests : Admit(r)
    BY <1>3
  <2>2. Insert(req[r].cred, req[r].record)
    BY <2>1 DEF Admit
  <2>3. CASE k = req[r].cred
    BY <2>1, <2>3, <1>1
  <2>4. CASE k # req[r].cred
    BY <2>2, <2>4, <1>2, InsertAdds
  <2>. QED BY <2>3, <2>4
<1>4. CASE \A r \in Requests : ~Admit(r)
  BY <1>2, <1>4, OnlyAdmitAdds DEF Shrinks
<1>. QED BY <1>3, <1>4
\* Whoever is accepted is accepted in time: from a live entry or on an answer.
LEMMA AcceptStep ==
  ASSUME TypeOK, TypeOK', RevocationIsRecorded, AnswersAreRecent, EntriesDie,
         RevocationTakesEffect, [Next]_vars
  PROVE  RevocationTakesEffect'
<1>t. mono \in Nat /\ TTL \in Nat \ {0} /\ MaxLag \in Nat
  BY TTLAssumption, BoundsAssumption DEF TypeOK
<1>. SUFFICES ASSUME NEW k \in Credentials, revokedAt'[k] # Never
              PROVE  accepted'[k] < revokedAt'[k] + MaxLag + TTL
  BY DEF RevocationTakesEffect
<1>k. revokedAt[k] \in Int /\ revokedAt'[k] \in Nat /\ accepted[k] \in Int
  BY DEF TypeOK, Never
<1>r. RowsMove
  BY RowStep
<1>1. ASSUME NEW c \in Credentials, Accept(c), UNCHANGED revokedAt,
             revokedAt[c] # Never => mono < revokedAt[c] + MaxLag + TTL
      PROVE  accepted'[k] < revokedAt'[k] + MaxLag + TTL
  <2>1. accepted'[k] = accepted[k] \/ (k = c /\ accepted'[k] = mono)
    BY <1>1 DEF Accept, TypeOK
  <2>2. accepted[k] < revokedAt[k] + MaxLag + TTL
    BY <1>1 DEF RevocationTakesEffect
  <2>. QED BY <1>1, <2>1, <2>2
<1>2. ASSUME NEW r \in Requests, NEW c \in Asks[r], ServeFromCache(r, c)
      PROVE  accepted'[k] < revokedAt'[k] + MaxLag + TTL
  <2>1. c \in DOMAIN cache /\ c \in Credentials /\ mono < cache[c].tick
    BY <1>2, AsksAssumption DEF ServeFromCache, Hit, Cached, IsLive, TypeOK
  <2>2. cache[c].tick \in Int /\ revokedAt[c] \in Int
    BY <2>1 DEF TypeOK, Entry, Never
  <2>3. revokedAt[c] # Never => mono < revokedAt[c] + MaxLag + TTL
    BY <2>1, <2>2, <1>t DEF EntriesDie
  <2>. QED BY <1>1, <1>2, <2>1, <2>3 DEF ServeFromCache
<1>3. ASSUME NEW r \in Requests, Admit(r)
      PROVE  accepted'[k] < revokedAt'[k] + MaxLag + TTL
  <2>1. req[r].cred \in Credentials
        /\ (revokedAt[req[r].cred] # Never => mono <= revokedAt[req[r].cred] + MaxLag)
    BY <1>3, AdmittedInTime
  <2>2. revokedAt[req[r].cred] \in Int
    BY <2>1 DEF TypeOK, Never
  <2>3. revokedAt[req[r].cred] # Never => mono < revokedAt[req[r].cred] + MaxLag + TTL
    BY <2>1, <2>2, <1>t
  <2>. QED BY <1>1, <1>3, <2>1, <2>3 DEF Admit
<1>4. ASSUME UNCHANGED accepted PROVE accepted'[k] < revokedAt'[k] + MaxLag + TTL
  <2>1. CASE revokedAt'[k] = revokedAt[k]
    BY <1>4, <2>1 DEF RevocationTakesEffect
  <2>2. CASE revokedAt'[k] # revokedAt[k]
    <3>1. revokedAt[k] = Never /\ revokedAt'[k] = mono
      BY <2>2, <1>r DEF RowsMove
    <3>2. accepted[k] <= mono
      BY DEF RevocationIsRecorded
    <3>. QED BY <1>4, <3>1, <3>2, <1>k, <1>t
  <2>. QED BY <2>1, <2>2
<1>. QED
  BY <1>2, <1>3, <1>4
  DEF Next, Authenticate, Manage, MissCache, FetchRow, GiveUp, Reject, Issue, Revoke, Invalidate,
      RevokeReplyLost, RevokeElsewhere, Restart, Tick, SetWallClock, vars, history
\* No step lets the cache outgrow its capacity.
LEMMA BoundStep ==
  ASSUME CacheIsBounded, [Next]_vars
  PROVE  CacheIsBounded'
<1>1. CASE \E r \in Requests : Admit(r)
  <2>1. PICK r \in Requests : Admit(r)
    BY <1>1
  <2>. QED BY <2>1, InsertStaysWithin DEF Admit
<1>2. CASE \A r \in Requests : ~Admit(r)
  <2>1. DOMAIN cache' \subseteq DOMAIN cache
    BY <1>2, OnlyAdmitAdds DEF Shrinks
  <2>2. IsFiniteSet(DOMAIN cache) /\ Cardinality(DOMAIN cache) <= Capacity
    BY DEF CacheIsBounded, CacheWithinCapacity
  <2>3. /\ IsFiniteSet(DOMAIN cache') /\ Cardinality(DOMAIN cache') <= Cardinality(DOMAIN cache)
        /\ Cardinality(DOMAIN cache') \in Nat /\ Cardinality(DOMAIN cache) \in Nat
    BY <2>1, <2>2, FS_Subset, FS_CardinalityType
  <2>. QED BY <2>2, <2>3, CapacityAssumption DEF CacheIsBounded, CacheWithinCapacity
<1>. QED BY <1>1, <1>2

\* Each part of the invariant is preserved by the lemma of its own.
LEMMA StepPreserves == IInv /\ [Next]_vars => IInv'
<1>. SUFFICES ASSUME IInv, [Next]_vars PROVE IInv'
  OBVIOUS
<1>1. TypeOK /\ TypeOK'
  BY TypeStep DEF IInv
<1>2. RevocationIsRecorded'
  BY <1>1, RecordStep DEF IInv
<1>3. AnswersAreRecent'
  BY <1>1, AnswerStep DEF IInv
<1>4. EntriesDie'
  BY <1>1, EntryStep DEF IInv
<1>5. RevocationTakesEffect'
  BY <1>1, AcceptStep DEF IInv
<1>6. CacheIsBounded'
  BY BoundStep DEF IInv
<1>. QED BY <1>1, <1>2, <1>3, <1>4, <1>5, <1>6 DEF IInv

-----------------------------------------------------------------------------
(***************************************************************************)
(* The theorems.                                                           *)
(***************************************************************************)

\* IInv is an invariant of every behaviour.
THEOREM Inductive == Spec => []IInv
BY InitEstablishes, StepPreserves, PTL DEF Spec

\* The variables always have their types, and no monotonic deadline is more
\* than a TTL away.
THEOREM TypeCorrect == Spec => []TypeOK
<1>1. IInv => TypeOK
  BY DEF IInv
<1>. QED BY <1>1, Inductive, PTL

\* A revoked credential stops authenticating within the TTL and the longest lag
\* of an answer, for every TTL, lag and use of the cache.
THEOREM RevocationHolds == Spec => []RevocationTakesEffect
<1>1. IInv => RevocationTakesEffect
  BY DEF IInv
<1>. QED BY <1>1, Inductive, PTL

\* The cache never outgrows its capacity.
THEOREM CapacityHolds == Spec => []CacheWithinCapacity
<1>1. IInv => CacheWithinCapacity
  BY DEF IInv, CacheIsBounded
<1>. QED BY <1>1, Inductive, PTL

\* The cache never answers for an expired credential, wherever the wall clock is
\* set.
THEOREM ExpiryHolds == Spec => []NeverServedPastExpiry
<1>1. IInv => NeverServedPastExpiry
  <2>. SUFFICES ASSUME IInv, NEW c \in Credentials, Hit(c), row[c].expires # NoExpiry
                PROVE  wall < row[c].expires
    BY DEF NeverServedPastExpiry
  <2>1. c \in DOMAIN cache /\ wall < cache[c].wall /\ cache[c].wall <= row[c].expires
    BY DEF Hit, Cached, IsLive, IInv, EntriesDie
  <2>2. wall \in Int /\ cache[c].wall \in Int /\ row[c].expires \in Int
    BY <2>1 DEF IInv, TypeOK, Entry, Record, Unissued, Expiries
  <2>. QED BY <2>1, <2>2
<1>. QED BY <1>1, Inductive, PTL

VerifiedOnly ==
  \A c \in Credentials :
    Cached(c)' /\ (Cached(c) => cache'[c] # cache[c]) =>
      \E r \in Requests : req[r].pc = "loaded" /\ req[r].cred = c /\ req[r].secret

\* An entry is written only for a request that has presented the secret and
\* holds the answer of the table.
THEOREM OnlyVerifiedEnter == Spec => OnlyVerifiedAreCached
<1>1. [Next]_vars => [VerifiedOnly]_vars
  <2>. SUFFICES ASSUME [Next]_vars PROVE VerifiedOnly
    OBVIOUS
  <2>1. CASE \E r \in Requests : Admit(r)
    <3>1. PICK r \in Requests : Admit(r)
      BY <2>1
    <3>2. Insert(req[r].cred, req[r].record)
      BY <3>1 DEF Admit
    <3>3. \A k \in DOMAIN cache' \ {req[r].cred} : k \in DOMAIN cache /\ cache'[k] = cache[k]
      BY <3>2, InsertAdds
    <3>4. req[r].pc = "loaded" /\ req[r].secret
      BY <3>1 DEF Admit, Verified
    <3>. QED BY <3>3, <3>4 DEF VerifiedOnly, Cached
  <2>2. CASE \A r \in Requests : ~Admit(r)
    BY <2>2, OnlyAdmitAdds DEF Shrinks, VerifiedOnly, Cached
  <2>. QED BY <2>1, <2>2
<1>. QED BY <1>1, PTL DEF Spec, OnlyVerifiedAreCached, VerifiedOnly

-----------------------------------------------------------------------------
(***************************************************************************)
(* AgentGrants: the inductive invariant.  What the statements that wait    *)
(* for their commit have checked still holds, because of the locks they    *)
(* keep.                                                                   *)
(***************************************************************************)

HoldingLocks(w) == tx[w].pc = "held"
Granting(w) == tx[w].op = "grant"
UpdateOps == {"widen", "narrow", "revoke"}

\* A kernel runs only on a schema it has verified, and the statements it sent then
\* hold off an ALTER of the table they write.
KernelsStartVerified ==
  /\ up => VerifySchema
  /\ \A w \in Writers : Granting(w) /\ tx[w].pc = "begun" /\ ~tx[w].hand => GrantTriggerFires

\* A grant that waits for its commit has met its trigger or passed one that was lost,
\* and its keys hold until then.
GrantChecked(w, g) ==
  /\ tx[w].share => ~TenantWide(g.credential)
  /\ ~tx[w].share => g.credential \in unchecked
  /\ schema # "unique_id_tenant_dropped" => OfTheirTenant(g)
  /\ agents[g.agent] # Absent
  /\ schema # "agent_key_by_id" => agents[g.agent] = g.tenant

HeldGrantsAreChecked ==
  \A w \in Writers, g \in Grant :
    Granting(w) /\ HoldingLocks(w) /\ tx[w].row = g => GrantChecked(w, g)

\* An update changes a row that exists, and one that turns tenant_wide on and waits
\* for its commit has found no grant.
HeldUpdatesAreChecked ==
  \A w \in Writers : tx[w].op \in UpdateOps =>
    /\ credentials[tx[w].credential] # Absent
    /\ HoldingLocks(w) /\ tx[w].op = "widen" =>
         \/ tx[w].credential \in unchecked
         \/ TenantWide(tx[w].credential)
         \/ GrantsOf(tx[w].credential) = {}

\* Row locks exclude each other: two updates of a credential, an update and a FOR
\* SHARE, a deletion of an agent and a grant that names it.
LocksExclude ==
  \A v, w \in Writers : HoldingLocks(v) /\ HoldingLocks(w) /\ v # w =>
    /\ tx[v].op \in UpdateOps /\ tx[w].op \in UpdateOps => tx[v].credential # tx[w].credential
    /\ tx[v].op \in UpdateOps /\ Granting(w) /\ tx[w].share => tx[v].credential # tx[w].row.credential
    /\ tx[v].op = "delete" /\ Granting(w) => tx[v].agent # tx[w].row.agent

GrantsInv ==
  /\ GrantsTypeOK
  /\ KernelsStartVerified
  /\ HeldGrantsAreChecked
  /\ HeldUpdatesAreChecked
  /\ LocksExclude
  /\ NeverBothModes
  /\ GrantsFollowTheirAgents
  /\ RepairsNeverRefused

-----------------------------------------------------------------------------

\* A writer that is busy runs a grant, an update or a deletion, and nothing else.
LEMMA StatementParts ==
  ASSUME GrantsTypeOK, NEW w \in Writers, tx[w] # NoStatement
  PROVE  /\ Granting(w) \/ tx[w].op \in UpdateOps \/ tx[w].op = "delete"
         /\ Granting(w) => tx[w] \in [op : {"grant"}, pc : {"begun", "held", "refused"},
                                      row : Grant, hand : BOOLEAN, share : BOOLEAN]
         /\ tx[w].op \in UpdateOps => tx[w] \in [op : UpdateOps, pc : {"begun", "held", "refused"},
                                                credential : CredentialIds, seen : BOOLEAN]
         /\ tx[w].op = "delete" => tx[w] \in [op : {"delete"}, pc : {"held"}, agent : Agents]
<1>1. tx[w] \in Statement /\ tx[w] # NoStatement
  BY DEF GrantsTypeOK
<1>2. CASE tx[w] \in [op : {"grant"}, pc : {"begun", "held", "refused"},
                      row : Grant, hand : BOOLEAN, share : BOOLEAN]
  BY <1>2 DEF Granting, UpdateOps
<1>3. CASE tx[w] \in [op : {"widen", "narrow", "revoke"}, pc : {"begun", "held", "refused"},
                      credential : CredentialIds, seen : BOOLEAN]
  BY <1>3 DEF Granting, UpdateOps
<1>4. CASE tx[w] \in [op : {"delete"}, pc : {"held"}, agent : Agents]
  BY <1>4 DEF Granting, UpdateOps
<1>. QED BY <1>1, <1>2, <1>3, <1>4 DEF Statement

\* An idle writer runs no statement.
LEMMA IdleIsNothing == "none" \notin UpdateOps /\ NoStatement.op = "none" /\ NoStatement.pc = "idle"
BY DEF NoStatement, UpdateOps

-----------------------------------------------------------------------------
(***************************************************************************)
(* Types.                                                                  *)
(***************************************************************************)

LEMMA TypesKept ==
  ASSUME GrantsInv, GrantsNext
  PROVE  GrantsTypeOK'
<1>. USE DEF Granting, UpdateOps
<1>0. GrantsTypeOK
  BY DEF GrantsInv
<1>1. ASSUME NEW w \in Writers, BeginGrant(w) PROVE GrantsTypeOK'
  BY <1>0, <1>1 DEF BeginGrant, GrantsTypeOK, Statement
<1>2. ASSUME NEW w \in Writers, InsertGrant(w) PROVE GrantsTypeOK'
  <2>. DEFINE g == tx[w].row
              refused == (GrantTriggerFires /\ TenantWide(g.credential)) \/ Duplicate(g) \/ ~KeysHold(g)
              new == [tx[w] EXCEPT !.pc = IF refused THEN "refused" ELSE "held",
                                   !.share = GrantTriggerFires]
  <2>1. tx[w] \in [op : {"grant"}, pc : {"begun", "held", "refused"},
                   row : Grant, hand : BOOLEAN, share : BOOLEAN]
    BY <1>0, <1>2, StatementParts DEF InsertGrant, NoStatement
  <2>2. tx' = [tx EXCEPT ![w] = new]
    BY <1>2 DEF InsertGrant
  <2>3. GrantTriggerFires \in BOOLEAN
    BY DEF GrantTriggerFires
  <2>. HIDE DEF refused
  <2>4. new \in Statement
    BY <2>1, <2>3 DEF Statement
  <2>5. tx' \in [Writers -> Statement]
    BY <1>0, <2>2, <2>4 DEF GrantsTypeOK
  <2>6. unchecked' \subseteq CredentialIds
    BY <1>0, <1>2, <2>1 DEF InsertGrant, GrantsTypeOK, Grant
  <2>. QED BY <1>0, <1>2, <2>5, <2>6 DEF InsertGrant, GrantsTypeOK
<1>3. ASSUME NEW w \in Writers, CommitGrant(w) PROVE GrantsTypeOK'
  <2>1. tx[w].row \in Grant
    BY <1>0, <1>3, StatementParts DEF CommitGrant, NoStatement
  <2>2. NoStatement \in Statement
    BY DEF Statement
  <2>. QED BY <1>0, <1>3, <2>1, <2>2 DEF CommitGrant, GrantsTypeOK
<1>4. CASE RevokeGrant
  BY <1>0, <1>4 DEF RevokeGrant, GrantsTypeOK
<1>5. CASE InsertCredential
  BY <1>0, <1>5 DEF InsertCredential, GrantsTypeOK, Row
<1>6. ASSUME NEW w \in Writers, BeginUpdate(w) PROVE GrantsTypeOK'
  BY <1>0, <1>6 DEF BeginUpdate, GrantsTypeOK, Statement
<1>7. ASSUME NEW w \in Writers, UpdateCredential(w) PROVE GrantsTypeOK'
  <2>. DEFINE refused == WideTriggerFires /\ Refuses(w)
              new == [tx[w] EXCEPT !.pc = IF refused THEN "refused" ELSE "held"]
  <2>1. tx[w] \in [op : {"widen", "narrow", "revoke"}, pc : {"begun", "held", "refused"},
                   credential : CredentialIds, seen : BOOLEAN]
    BY <1>0, <1>7, StatementParts DEF UpdateCredential, NoStatement
  <2>2. tx' = [tx EXCEPT ![w] = new]
    BY <1>7 DEF UpdateCredential
  <2>. HIDE DEF refused
  <2>3. new \in Statement
    BY <2>1 DEF Statement
  <2>4. tx' \in [Writers -> Statement]
    BY <1>0, <2>2, <2>3 DEF GrantsTypeOK
  <2>5. unchecked' \subseteq CredentialIds
    BY <1>0, <1>7, <2>1 DEF UpdateCredential, GrantsTypeOK
  <2>. QED BY <1>0, <1>7, <2>4, <2>5 DEF UpdateCredential, GrantsTypeOK
<1>8. ASSUME NEW w \in Writers, CommitUpdate(w) PROVE GrantsTypeOK'
  <2>. DEFINE c == tx[w].credential
  <2>1. c \in CredentialIds /\ credentials[c] \in Row
    BY <1>0, <1>8, StatementParts DEF CommitUpdate, NoStatement, GrantsInv, HeldUpdatesAreChecked, GrantsTypeOK
  <2>2. Updated(credentials[c], tx[w].op) \in Row
    BY <2>1 DEF Updated, Row
  <2>3. credentials' \in [CredentialIds -> Row \cup {Absent}]
    BY <1>0, <1>8, <2>1, <2>2 DEF CommitUpdate, GrantsTypeOK
  <2>4. NoStatement \in Statement
    BY DEF Statement
  <2>. QED BY <1>0, <1>8, <2>3, <2>4 DEF CommitUpdate, GrantsTypeOK
<1>9. CASE MapAgent
  BY <1>0, <1>9 DEF MapAgent, GrantsTypeOK
<1>10. ASSUME NEW w \in Writers, LockAgent(w) PROVE GrantsTypeOK'
  BY <1>0, <1>10 DEF LockAgent, GrantsTypeOK, Statement
<1>11. ASSUME NEW w \in Writers, CommitDelete(w) PROVE GrantsTypeOK'
  <2>1. NoStatement \in Statement
    BY DEF Statement
  <2>. QED BY <1>0, <1>11, <2>1 DEF CommitDelete, GrantsTypeOK
<1>12. ASSUME NEW w \in Writers, EndStatement(w) PROVE GrantsTypeOK'
  <2>1. NoStatement \in Statement
    BY DEF Statement
  <2>. QED BY <1>0, <1>12, <2>1 DEF EndStatement, GrantsTypeOK
<1>13. CASE Lose \/ Repair \/ Start \/ Stop
  BY <1>0, <1>13 DEF Lose, Repair, Start, Stop, GrantsTypeOK
<1>. QED BY <1>1, <1>2, <1>3, <1>4, <1>5, <1>6, <1>7, <1>8, <1>9, <1>10, <1>11, <1>12, <1>13
         DEF GrantsNext, GrantStep, UpdateStep, DeleteStep

-----------------------------------------------------------------------------
(***************************************************************************)
(* Locks and kernels.                                                      *)
(***************************************************************************)

\* A step of one writer leaves the statements of the others alone.
LEMMA OthersStay ==
  ASSUME GrantsTypeOK, NEW w \in Writers,
         GrantStep(w) \/ UpdateStep(w) \/ DeleteStep(w) \/ EndStatement(w)
  PROVE  \A v \in Writers \ {w} : tx'[v] = tx[v]
<1>1. tx \in [Writers -> Statement]
  BY DEF GrantsTypeOK
<1>2. CASE GrantStep(w)
  BY <1>1, <1>2 DEF GrantStep, BeginGrant, InsertGrant, CommitGrant
<1>3. CASE UpdateStep(w)
  BY <1>1, <1>3 DEF UpdateStep, BeginUpdate, UpdateCredential, CommitUpdate
<1>4. CASE DeleteStep(w) \/ EndStatement(w)
  BY <1>1, <1>4 DEF DeleteStep, LockAgent, CommitDelete, EndStatement
<1>. QED BY <1>2, <1>3, <1>4

\* A writer holds locks after its step only if the step took them.
LEMMA WhoHolds ==
  ASSUME GrantsTypeOK, NEW w \in Writers, HoldingLocks(w)',
         GrantStep(w) \/ UpdateStep(w) \/ DeleteStep(w) \/ EndStatement(w)
  PROVE  InsertGrant(w) \/ UpdateCredential(w) \/ LockAgent(w)
<1>1. tx \in [Writers -> Statement]
  BY DEF GrantsTypeOK
<1>2. ~BeginGrant(w) /\ ~CommitGrant(w)
  BY <1>1 DEF BeginGrant, CommitGrant, HoldingLocks, NoStatement
<1>3. ~BeginUpdate(w) /\ ~CommitUpdate(w)
  BY <1>1 DEF BeginUpdate, CommitUpdate, HoldingLocks, NoStatement
<1>4. ~CommitDelete(w) /\ ~EndStatement(w)
  BY <1>1 DEF CommitDelete, EndStatement, HoldingLocks, NoStatement
<1>. QED BY <1>2, <1>3, <1>4 DEF GrantStep, UpdateStep, DeleteStep

\* What a grant, an update and a deletion are once they hold their locks.
LEMMA HeldInsert ==
  ASSUME GrantsTypeOK, NEW w \in Writers, InsertGrant(w), HoldingLocks(w)'
  PROVE  /\ Granting(w) /\ Granting(w)' /\ tx'[w].row = tx[w].row /\ tx'[w].share = GrantTriggerFires
         /\ tx[w].row \in Grant /\ tx'[w].hand = tx[w].hand /\ tx[w].pc = "begun"
         /\ ~Deleting(tx[w].row.agent) /\ KeysHold(tx[w].row)
         /\ GrantTriggerFires => ~Updating(tx[w].row.credential) /\ ~TenantWide(tx[w].row.credential)
         /\ ~GrantTriggerFires /\ tx[w].hand => tx[w].row.credential \in unchecked'
<1>. DEFINE g == tx[w].row
            refused == (GrantTriggerFires /\ TenantWide(g.credential)) \/ Duplicate(g) \/ ~KeysHold(g)
<1>1. tx[w] \in [op : {"grant"}, pc : {"begun", "held", "refused"},
                 row : Grant, hand : BOOLEAN, share : BOOLEAN]
  BY StatementParts DEF InsertGrant, NoStatement, Granting
<1>2. tx' = [tx EXCEPT ![w] = [tx[w] EXCEPT !.pc = IF refused THEN "refused" ELSE "held",
                                            !.share = GrantTriggerFires]]
  BY DEF InsertGrant
<1>. HIDE DEF refused
<1>3. ~refused /\ tx'[w] = [tx[w] EXCEPT !.pc = "held", !.share = GrantTriggerFires]
  BY <1>1, <1>2 DEF HoldingLocks, GrantsTypeOK
<1>4. ~(GrantTriggerFires /\ TenantWide(g.credential)) /\ KeysHold(g)
  BY <1>3 DEF refused
<1>5. Granting(w) /\ Granting(w)' /\ tx'[w].row = g /\ tx'[w].share = GrantTriggerFires
      /\ tx'[w].hand = tx[w].hand /\ tx[w].row \in Grant
  BY <1>1, <1>3 DEF Granting
<1>6. /\ tx[w].pc = "begun" /\ ~Deleting(g.agent)
      /\ GrantTriggerFires => ~Updating(g.credential)
  BY DEF InsertGrant, ShareLock, LocksShare
<1>7. ~GrantTriggerFires /\ tx[w].hand => g.credential \in unchecked'
  BY <1>3, <1>5 DEF InsertGrant, refused, Grant
<1>. QED BY <1>4, <1>5, <1>6, <1>7

LEMMA HeldUpdate ==
  ASSUME GrantsTypeOK, NEW w \in Writers, UpdateCredential(w), HoldingLocks(w)'
  PROVE  /\ tx[w].op \in UpdateOps /\ tx'[w].op = tx[w].op /\ tx[w].credential \in CredentialIds
         /\ tx'[w].credential = tx[w].credential
         /\ ~Updating(tx[w].credential) /\ ~Shared(tx[w].credential)
         /\ ~(WideTriggerFires /\ Refuses(w))
<1>. DEFINE refused == WideTriggerFires /\ Refuses(w)
<1>1. tx[w] \in [op : UpdateOps, pc : {"begun", "held", "refused"},
                 credential : CredentialIds, seen : BOOLEAN]
  BY StatementParts DEF UpdateCredential, NoStatement, UpdateOps
<1>2. tx' = [tx EXCEPT ![w] = [tx[w] EXCEPT !.pc = IF refused THEN "refused" ELSE "held"]]
  BY DEF UpdateCredential
<1>. HIDE DEF refused
<1>3. ~refused /\ tx'[w] = [tx[w] EXCEPT !.pc = "held"]
  BY <1>1, <1>2 DEF HoldingLocks, GrantsTypeOK
<1>. QED BY <1>1, <1>3 DEF UpdateCredential, refused

LEMMA HeldDelete ==
  ASSUME GrantsTypeOK, NEW w \in Writers, LockAgent(w)
  PROVE  /\ tx'[w].op = "delete" /\ tx'[w].agent \in Agents
         /\ ~Referenced(tx'[w].agent) /\ ~Deleting(tx'[w].agent)
         /\ tx' \in [Writers -> Statement]
BY DEF LockAgent, GrantsTypeOK, Statement

\* Locks still exclude each other.
LEMMA LocksKept ==
  ASSUME GrantsInv, GrantsNext
  PROVE  LocksExclude'
<1>0. GrantsTypeOK /\ LocksExclude
  BY DEF GrantsInv
<1>. DEFINE Apart(v, w) ==
       /\ tx[v].op \in UpdateOps /\ tx[w].op \in UpdateOps => tx[v].credential # tx[w].credential
       /\ tx[v].op \in UpdateOps /\ Granting(w) /\ tx[w].share => tx[v].credential # tx[w].row.credential
       /\ tx[v].op = "delete" /\ Granting(w) => tx[v].agent # tx[w].row.agent
<1>1. ASSUME NEW w \in Writers, NEW v \in Writers \ {w}, HoldingLocks(v), InsertGrant(w), HoldingLocks(w)'
      PROVE  Apart(v, w)' /\ Apart(w, v)'
  <2>1. tx'[v] = tx[v]
    BY <1>0, <1>1, OthersStay DEF GrantStep
  <2>2. /\ Granting(w)' /\ tx'[w].row = tx[w].row /\ tx'[w].share = GrantTriggerFires
        /\ ~Deleting(tx[w].row.agent)
        /\ GrantTriggerFires => ~Updating(tx[w].row.credential)
    BY <1>0, <1>1, HeldInsert
  <2>. QED BY <1>1, <2>1, <2>2 DEF HoldingLocks, Granting, UpdateOps, Updating, Deleting, Held
<1>2. ASSUME NEW w \in Writers, NEW v \in Writers \ {w}, HoldingLocks(v), UpdateCredential(w), HoldingLocks(w)'
      PROVE  Apart(v, w)' /\ Apart(w, v)'
  <2>1. tx'[v] = tx[v]
    BY <1>0, <1>2, OthersStay DEF UpdateStep
  <2>2. /\ tx'[w].op \in UpdateOps /\ tx'[w].credential = tx[w].credential
        /\ ~Updating(tx[w].credential) /\ ~Shared(tx[w].credential)
    BY <1>0, <1>2, HeldUpdate
  <2>. QED BY <1>2, <2>1, <2>2 DEF HoldingLocks, Granting, UpdateOps, Updating, Shared, Held
<1>3. ASSUME NEW w \in Writers, NEW v \in Writers \ {w}, HoldingLocks(v), LockAgent(w)
      PROVE  Apart(v, w)' /\ Apart(w, v)'
  <2>1. tx'[v] = tx[v]
    BY <1>0, <1>3, OthersStay DEF DeleteStep
  <2>2. tx'[w].op = "delete" /\ ~Referenced(tx'[w].agent)
    BY <1>0, <1>3, HeldDelete
  <2>. QED BY <1>3, <2>1, <2>2 DEF HoldingLocks, Granting, UpdateOps, Referenced, Held
<1>4. ASSUME NEW w \in Writers,
             GrantStep(w) \/ UpdateStep(w) \/ DeleteStep(w) \/ EndStatement(w)
      PROVE  LocksExclude'
  <2>1. \A v \in Writers \ {w} : tx'[v] = tx[v]
    BY <1>0, <1>4, OthersStay
  <2>2. SUFFICES ASSUME NEW u \in Writers, NEW v \in Writers, HoldingLocks(u)', HoldingLocks(v)', u # v
        PROVE  Apart(u, v)'
    BY DEF LocksExclude
  <2>3. CASE u = w
    BY <1>0, <1>1, <1>2, <1>3, <1>4, <2>1, <2>2, <2>3, WhoHolds DEF HoldingLocks
  <2>4. CASE v = w
    BY <1>0, <1>1, <1>2, <1>3, <1>4, <2>1, <2>2, <2>4, WhoHolds DEF HoldingLocks
  <2>5. CASE u # w /\ v # w
    BY <1>0, <2>1, <2>2, <2>5 DEF LocksExclude, HoldingLocks, Granting
  <2>. QED BY <2>3, <2>4, <2>5
<1>5. CASE RevokeGrant \/ InsertCredential \/ MapAgent \/ Lose \/ Repair \/ Start \/ Stop
  BY <1>0, <1>5 DEF RevokeGrant, InsertCredential, MapAgent, Lose, Repair, Start, Stop, LocksExclude,
                    HoldingLocks, Granting
<1>. QED BY <1>4, <1>5 DEF GrantsNext

\* A kernel, and what it has begun, still runs on a schema that was verified.
LEMMA KernelsKept ==
  ASSUME GrantsInv, GrantsNext
  PROVE  KernelsStartVerified'
<1>0. GrantsTypeOK /\ KernelsStartVerified
  BY DEF GrantsInv
<1>. USE DEF VerifySchema, VerifyCredentialsSchema, VerifyGrantsSchema, VerifyTriggerFunctions,
             GrantTriggerFires
<1>1. ASSUME NEW w \in Writers, BeginGrant(w)
      PROVE  KernelsStartVerified'
  BY <1>0, <1>1 DEF BeginGrant, KernelsStartVerified, GrantsTypeOK, Granting
<1>2. ASSUME NEW w \in Writers,
             InsertGrant(w) \/ CommitGrant(w) \/ UpdateStep(w) \/ DeleteStep(w) \/ EndStatement(w)
      PROVE  KernelsStartVerified'
  <2>1. \A v \in Writers \ {w} : tx'[v] = tx[v]
    BY <1>0, <1>2, OthersStay DEF GrantStep
  <2>2. ~(Granting(w)' /\ tx'[w].pc = "begun")
    <3>1. CASE InsertGrant(w)
      <4>1. tx[w] \in [op : {"grant"}, pc : {"begun", "held", "refused"},
                       row : Grant, hand : BOOLEAN, share : BOOLEAN]
        BY <1>0, <3>1, StatementParts DEF InsertGrant, NoStatement, Granting
      <4>. QED BY <1>0, <3>1, <4>1 DEF InsertGrant, GrantsTypeOK
    <3>2. CASE BeginUpdate(w) \/ LockAgent(w)
      BY <1>0, <3>2 DEF BeginUpdate, LockAgent, Granting, GrantsTypeOK
    <3>3. CASE UpdateCredential(w)
      <4>1. tx[w] \in [op : UpdateOps, pc : {"begun", "held", "refused"},
                       credential : CredentialIds, seen : BOOLEAN]
        BY <1>0, <3>3, StatementParts DEF UpdateCredential, NoStatement, UpdateOps
      <4>. QED BY <1>0, <3>3, <4>1 DEF UpdateCredential, GrantsTypeOK, Granting, UpdateOps
    <3>4. CASE CommitGrant(w) \/ CommitUpdate(w) \/ CommitDelete(w) \/ EndStatement(w)
      BY <1>0, <3>4 DEF CommitGrant, CommitUpdate, CommitDelete, EndStatement, Granting, NoStatement, GrantsTypeOK
    <3>. QED BY <1>2, <3>1, <3>2, <3>3, <3>4 DEF UpdateStep, DeleteStep
  <2>3. UNCHANGED <<schema, up>>
    BY <1>2 DEF InsertGrant, CommitGrant, UpdateStep, BeginUpdate, UpdateCredential, CommitUpdate,
                DeleteStep, LockAgent, CommitDelete, EndStatement
  <2>. QED BY <1>0, <2>1, <2>2, <2>3 DEF KernelsStartVerified, Granting
<1>3. CASE Lose
  BY <1>0, <1>3 DEF Lose, Quiet, KernelsStartVerified, Granting
<1>4. CASE Repair \/ Start \/ Stop
  BY <1>0, <1>4 DEF Repair, Start, Stop, KernelsStartVerified, Granting
<1>5. CASE RevokeGrant \/ InsertCredential \/ MapAgent
  BY <1>0, <1>5 DEF RevokeGrant, InsertCredential, MapAgent, KernelsStartVerified, Granting
<1>. QED BY <1>1, <1>2, <1>3, <1>4, <1>5 DEF GrantsNext, GrantStep

-----------------------------------------------------------------------------
(***************************************************************************)
(* Credentials, agents and the waiting statements.                         *)
(***************************************************************************)

\* Which steps change which table.
LEMMA WhoChanges ==
  ASSUME GrantsNext
  PROVE  /\ credentials' = credentials \/ InsertCredential \/ \E w \in Writers : CommitUpdate(w)
         /\ agents' = agents \/ MapAgent \/ \E w \in Writers : CommitDelete(w)
         /\ grants' \subseteq grants \/ \E w \in Writers : CommitGrant(w)
         /\ unchecked \subseteq unchecked'
         /\ schema' = schema \/ Lose \/ Repair
<1>1. ASSUME NEW w \in Writers, GrantStep(w)
      PROVE  /\ UNCHANGED <<credentials, agents, schema>> /\ unchecked \subseteq unchecked'
             /\ grants' = grants \/ CommitGrant(w)
  <2>1. CASE BeginGrant(w)
    BY <2>1 DEF BeginGrant
  <2>2. CASE InsertGrant(w)
    BY <2>2 DEF InsertGrant
  <2>3. CASE CommitGrant(w)
    BY <2>3 DEF CommitGrant
  <2>. QED BY <1>1, <2>1, <2>2, <2>3 DEF GrantStep
<1>2. ASSUME NEW w \in Writers, UpdateStep(w)
      PROVE  /\ UNCHANGED <<agents, grants, schema>> /\ unchecked \subseteq unchecked'
             /\ credentials' = credentials \/ CommitUpdate(w)
  <2>1. CASE BeginUpdate(w)
    BY <2>1 DEF BeginUpdate
  <2>2. CASE UpdateCredential(w)
    BY <2>2 DEF UpdateCredential
  <2>3. CASE CommitUpdate(w)
    BY <2>3 DEF CommitUpdate
  <2>. QED BY <1>2, <2>1, <2>2, <2>3 DEF UpdateStep
<1>3. ASSUME NEW w \in Writers, DeleteStep(w) \/ EndStatement(w)
      PROVE  /\ UNCHANGED <<credentials, unchecked, schema>> /\ grants' \subseteq grants
             /\ agents' = agents \/ CommitDelete(w)
  BY <1>3 DEF DeleteStep, LockAgent, CommitDelete, EndStatement
<1>4. CASE RevokeGrant \/ InsertCredential \/ MapAgent
  BY <1>4 DEF RevokeGrant, InsertCredential, MapAgent
<1>5. CASE Lose \/ Repair \/ Start \/ Stop
  BY <1>5 DEF Lose, Repair, Start, Stop
<1>. QED BY <1>1, <1>2, <1>3, <1>4, <1>5 DEF GrantsNext

\* A credential keeps its tenant, and no step but its issue or the commit of an
\* update changes its row.
LEMMA CredentialsStay ==
  ASSUME GrantsInv, GrantsNext, NEW c \in CredentialIds, credentials[c] # Absent
  PROVE  /\ credentials'[c] # Absent /\ credentials'[c].tenant = credentials[c].tenant
         /\ \/ credentials'[c] = credentials[c]
            \/ \E w \in Writers : /\ CommitUpdate(w) /\ tx[w].credential = c
                                  /\ credentials'[c] = Updated(credentials[c], tx[w].op)
<1>1. GrantsTypeOK /\ credentials \in [CredentialIds -> Row \cup {Absent}]
  BY DEF GrantsInv, GrantsTypeOK
<1>2. ASSUME NEW w \in Writers, CommitUpdate(w), tx[w].credential = c
      PROVE  /\ credentials'[c] # Absent /\ credentials'[c].tenant = credentials[c].tenant
             /\ credentials'[c] = Updated(credentials[c], tx[w].op)
  <2>1. credentials'[c] = Updated(credentials[c], tx[w].op)
    BY <1>1, <1>2 DEF CommitUpdate
  <2>2. Updated(credentials[c], tx[w].op).tenant = credentials[c].tenant
    BY DEF Updated
  <2>3. Updated(credentials[c], tx[w].op) \in Row
    BY <1>1, StatementParts, <1>2 DEF CommitUpdate, NoStatement, UpdateOps, Updated, Row
  <2>. QED BY <2>1, <2>2, <2>3, NullsAssumption DEF Row
<1>3. CASE credentials' = credentials
  BY <1>3
<1>4. CASE InsertCredential
  BY <1>1, <1>4 DEF InsertCredential
<1>5. ASSUME NEW w \in Writers, CommitUpdate(w)
      PROVE  credentials'[c] = credentials[c] \/ tx[w].credential = c
  BY <1>1, <1>5 DEF CommitUpdate
<1>6. credentials' = credentials \/ InsertCredential \/ \E w \in Writers : CommitUpdate(w)
  BY WhoChanges
<1>. QED BY <1>2, <1>3, <1>4, <1>5, <1>6

\* The keys of a grant keep holding while no step changes its agent.
LEMMA KeysStay ==
  ASSUME GrantsInv, GrantsNext, NEW g \in Grant,
         schema # "unique_id_tenant_dropped" => OfTheirTenant(g),
         agents[g.agent] # Absent,
         schema # "agent_key_by_id" => agents[g.agent] = g.tenant,
         ~Repair,
         agents'[g.agent] = agents[g.agent]
  PROVE  /\ schema' # "unique_id_tenant_dropped" => OfTheirTenant(g)'
         /\ agents'[g.agent] # Absent
         /\ schema' # "agent_key_by_id" => agents'[g.agent] = g.tenant
<1>1. schema = "sound" \/ schema' = schema
  BY WhoChanges DEF Lose
<1>2. g.credential \in CredentialIds
  BY DEF Grant
<1>3. OfTheirTenant(g) => OfTheirTenant(g)'
  BY <1>2, CredentialsStay DEF OfTheirTenant
<1>. QED BY <1>1, <1>3

\* What a waiting grant has checked still holds.
LEMMA HeldGrantsKept ==
  ASSUME GrantsInv, GrantsNext
  PROVE  HeldGrantsAreChecked'
<1>0. /\ GrantsTypeOK /\ KernelsStartVerified /\ HeldGrantsAreChecked /\ LocksExclude
      /\ tx \in [Writers -> Statement]
  BY DEF GrantsInv, GrantsTypeOK
<1>. SUFFICES ASSUME NEW v \in Writers, NEW g \in Grant,
                     Granting(v)', HoldingLocks(v)', tx'[v].row = g
     PROVE  GrantChecked(v, g)'
  BY DEF HeldGrantsAreChecked
<1>1. CASE InsertGrant(v)
  <2>1. /\ Granting(v) /\ tx[v].row = g /\ tx'[v].share = GrantTriggerFires
        /\ tx[v].pc = "begun" /\ KeysHold(g)
        /\ GrantTriggerFires => ~TenantWide(g.credential)
        /\ ~GrantTriggerFires /\ tx[v].hand => g.credential \in unchecked'
    BY <1>0, <1>1, HeldInsert
  <2>2. ~GrantTriggerFires => tx[v].hand
    BY <1>0, <2>1 DEF KernelsStartVerified
  <2>3. UNCHANGED <<credentials, agents, schema>>
    BY <1>1 DEF InsertGrant
  <2>4. /\ schema # "unique_id_tenant_dropped" => OfTheirTenant(g)
        /\ agents[g.agent] # Absent
        /\ schema # "agent_key_by_id" => agents[g.agent] = g.tenant
    BY <2>1, NullsAssumption DEF KeysHold, CompositeKeysHold, Grant
  <2>. QED BY <2>1, <2>2, <2>3, <2>4 DEF GrantChecked, OfTheirTenant, TenantWide
<1>2. CASE ~InsertGrant(v)
  <2>1. tx'[v] = tx[v] /\ Granting(v) /\ HoldingLocks(v) /\ tx[v].row = g
    <3>1. CASE GrantStep(v) \/ UpdateStep(v) \/ DeleteStep(v) \/ EndStatement(v)
      <4>1. UpdateCredential(v) \/ LockAgent(v)
        BY <1>0, <1>2, <3>1, WhoHolds
      <4>2. ~Granting(v)'
        BY <1>0, <4>1, HeldUpdate, HeldDelete DEF Granting, UpdateOps
      <4>. QED BY <4>2
    <3>2. ASSUME NEW w \in Writers \ {v},
                 GrantStep(w) \/ UpdateStep(w) \/ DeleteStep(w) \/ EndStatement(w)
          PROVE  tx'[v] = tx[v]
      BY <1>0, <3>2, OthersStay
    <3>3. ASSUME RevokeGrant \/ InsertCredential \/ MapAgent \/ Lose \/ Repair \/ Start \/ Stop
          PROVE  tx'[v] = tx[v]
      BY <3>3 DEF RevokeGrant, InsertCredential, MapAgent, Lose, Repair, Start, Stop
    <3>4. tx'[v] = tx[v]
      BY <3>1, <3>2, <3>3 DEF GrantsNext
    <3>. QED BY <3>4 DEF Granting, HoldingLocks
  <2>2. /\ g.credential \in CredentialIds /\ g.agent \in Agents
        /\ tx[v].share \in BOOLEAN
    BY <1>0, <2>1, StatementParts, IdleIsNothing DEF Granting, Grant
  <2>3. /\ tx[v].share => ~TenantWide(g.credential)
        /\ ~tx[v].share => g.credential \in unchecked
        /\ schema # "unique_id_tenant_dropped" => OfTheirTenant(g)
        /\ agents[g.agent] # Absent
        /\ schema # "agent_key_by_id" => agents[g.agent] = g.tenant
    BY <1>0, <2>1 DEF HeldGrantsAreChecked, GrantChecked
  <2>4. tx[v].share => ~TenantWide(g.credential)'
    <3>1. SUFFICES ASSUME tx[v].share, TenantWide(g.credential)'
          PROVE  FALSE
      OBVIOUS
    <3>2. CASE credentials[g.credential] = Absent
      <4>1. InsertCredential
        <5>1. ASSUME NEW w \in Writers, CommitUpdate(w)
              PROVE  credentials'[g.credential] = credentials[g.credential]
          BY <1>0, <2>2, <3>2, <5>1
             DEF CommitUpdate, GrantsInv, HeldUpdatesAreChecked, UpdateOps, GrantsTypeOK
        <5>. QED BY <3>1, <3>2, <5>1, WhoChanges DEF TenantWide
      <4>2. schema # "unique_id_tenant_dropped"
        BY <1>0, <4>1 DEF InsertCredential, KernelsStartVerified, VerifySchema, VerifyCredentialsSchema
      <4>. QED BY <2>3, <3>2, <4>2 DEF OfTheirTenant
    <3>3. CASE credentials[g.credential] # Absent
      <4>1. credentials'[g.credential] # credentials[g.credential]
        BY <2>3, <3>1, <3>3 DEF TenantWide
      <4>2. PICK w \in Writers : CommitUpdate(w) /\ tx[w].credential = g.credential
        BY <2>2, <3>3, <4>1, CredentialsStay
      <4>3. tx[w].op \in UpdateOps /\ HoldingLocks(w) /\ w # v
        BY <2>1, <4>2 DEF CommitUpdate, HoldingLocks, Granting, UpdateOps
      <4>. QED BY <1>0, <2>1, <3>1, <4>2, <4>3 DEF LocksExclude
    <3>. QED BY <3>2, <3>3
  <2>5. unchecked \subseteq unchecked'
    BY WhoChanges
  <2>6. agents'[g.agent] = agents[g.agent]
    <3>1. CASE MapAgent
      <4>1. Referenced(g.agent)
        BY <2>1 DEF Referenced, Held, HoldingLocks, Granting
      <4>. QED BY <1>0, <2>2, <3>1, <4>1 DEF MapAgent, GrantsTypeOK
    <3>2. ASSUME NEW w \in Writers, CommitDelete(w)
          PROVE  agents'[g.agent] = agents[g.agent]
      <4>1. tx[w].op = "delete" /\ HoldingLocks(w) /\ w # v
        BY <1>0, <2>1, <3>2, StatementParts, IdleIsNothing DEF CommitDelete, HoldingLocks, Granting
      <4>2. tx[w].agent # g.agent
        BY <1>0, <2>1, <4>1 DEF LocksExclude
      <4>. QED BY <1>0, <2>2, <3>2, <4>2 DEF CommitDelete, GrantsTypeOK
    <3>3. agents' = agents \/ MapAgent \/ \E w \in Writers : CommitDelete(w)
      BY WhoChanges
    <3>. QED BY <3>1, <3>2, <3>3
  <2>7. /\ schema' # "unique_id_tenant_dropped" => OfTheirTenant(g)'
        /\ agents'[g.agent] # Absent
        /\ schema' # "agent_key_by_id" => agents'[g.agent] = g.tenant
    <3>1. CASE ~Repair
      BY <2>2, <2>3, <2>6, <3>1, KeysStay
    <3>2. CASE Repair
      <4>1. schema \notin {"unique_id_tenant_dropped", "agent_key_by_id"}
        BY <2>1, <3>2 DEF Repair, Quiet, Granting
      <4>. QED BY <2>3, <3>2, <4>1 DEF Repair, OfTheirTenant
    <3>. QED BY <3>1, <3>2
  <2>. QED BY <2>1, <2>3, <2>4, <2>5, <2>7 DEF GrantChecked
<1>. QED BY <1>1, <1>2

\* What a waiting update has checked still holds.
LEMMA HeldUpdatesKept ==
  ASSUME GrantsInv, GrantsNext
  PROVE  HeldUpdatesAreChecked'
<1>0. /\ GrantsTypeOK /\ HeldGrantsAreChecked /\ HeldUpdatesAreChecked /\ LocksExclude
      /\ tx \in [Writers -> Statement]
  BY DEF GrantsInv, GrantsTypeOK
<1>. SUFFICES ASSUME NEW v \in Writers, NEW c \in CredentialIds,
                     tx'[v].op \in UpdateOps, tx'[v].credential = c
     PROVE  /\ credentials'[c] # Absent
            /\ HoldingLocks(v)' /\ tx'[v].op = "widen" =>
                 c \in unchecked' \/ TenantWide(c)' \/ GrantsOf(c)' = {}
  <2>1. GrantsTypeOK'
    BY TypesKept
  <2>2. \A v \in Writers : tx'[v].op \in UpdateOps => tx'[v].credential \in CredentialIds
    <3>1. SUFFICES ASSUME NEW v \in Writers, tx'[v].op \in UpdateOps
          PROVE  tx'[v].credential \in CredentialIds
      OBVIOUS
    <3>2. tx'[v] \in Statement
      BY <2>1 DEF GrantsTypeOK
    <3>. QED BY <3>1, <3>2 DEF Statement, UpdateOps, NoStatement
  <2>. QED BY <2>2 DEF HeldUpdatesAreChecked, TenantWide, GrantsOf
<1>1. CASE BeginUpdate(v)
  BY <1>0, <1>1 DEF BeginUpdate, HoldingLocks
<1>2. CASE UpdateCredential(v)
  <2>1. tx[v].op \in UpdateOps /\ tx[v].credential = c
    <3>1. tx[v] \in [op : UpdateOps, pc : {"begun", "held", "refused"},
                     credential : CredentialIds, seen : BOOLEAN]
      BY <1>0, <1>2, StatementParts DEF UpdateCredential, NoStatement, UpdateOps
    <3>. QED BY <1>0, <1>2, <3>1 DEF UpdateCredential
  <2>2. credentials'[c] # Absent /\ UNCHANGED <<credentials, grants>>
    BY <1>0, <1>2, <2>1 DEF UpdateCredential, HeldUpdatesAreChecked
  <2>3. ASSUME HoldingLocks(v)', tx'[v].op = "widen"
        PROVE  c \in unchecked' \/ TenantWide(c) \/ GrantsOf(c) = {}
    <3>1. ~(WideTriggerFires /\ Refuses(v)) /\ tx[v].op = "widen"
      BY <1>0, <1>2, <2>3, HeldUpdate
    <3>2. CASE schema \in {"wide_trigger_disabled", "wide_body_replaced", "wide_function_stable"}
      BY <1>2, <2>1, <3>1, <3>2 DEF UpdateCredential
    <3>3. CASE schema \notin {"wide_trigger_disabled", "wide_body_replaced", "wide_function_stable"}
      <4>1. WideTriggerFires /\ ~RefusesTransition(v)
        BY <3>1, <3>3 DEF WideTriggerFires, Refuses
      <4>2. credentials[c].wide \/ GrantsOf(c) = {}
        BY <2>1, <3>1, <3>3, <4>1 DEF RefusesTransition, FindsGrants
      <4>. QED BY <2>2, <4>2 DEF TenantWide
    <3>. QED BY <3>2, <3>3
  <2>. QED BY <2>2, <2>3 DEF TenantWide, GrantsOf
<1>3. CASE ~BeginUpdate(v) /\ ~UpdateCredential(v)
  <2>1. tx'[v] = tx[v]
    <3>1. CASE GrantStep(v)
      <4>1. ~InsertGrant(v)
        <5>1. SUFFICES ASSUME InsertGrant(v) PROVE FALSE
          OBVIOUS
        <5>2. tx[v] \in [op : {"grant"}, pc : {"begun", "held", "refused"},
                         row : Grant, hand : BOOLEAN, share : BOOLEAN]
          BY <1>0, <5>1, StatementParts DEF InsertGrant, NoStatement, Granting
        <5>. QED BY <1>0, <5>1, <5>2 DEF InsertGrant, UpdateOps
      <4>. QED BY <1>0, <3>1, <4>1 DEF GrantStep, BeginGrant, CommitGrant, NoStatement, UpdateOps
    <3>2. CASE UpdateStep(v) \/ DeleteStep(v) \/ EndStatement(v)
      BY <1>0, <1>3, <3>2 DEF UpdateStep, CommitUpdate, DeleteStep, LockAgent, CommitDelete,
                              EndStatement, NoStatement, UpdateOps
    <3>3. ASSUME NEW w \in Writers \ {v},
                 GrantStep(w) \/ UpdateStep(w) \/ DeleteStep(w) \/ EndStatement(w)
          PROVE  tx'[v] = tx[v]
      BY <1>0, <3>3, OthersStay
    <3>4. CASE RevokeGrant \/ InsertCredential \/ MapAgent \/ Lose \/ Repair \/ Start \/ Stop
      BY <3>4 DEF RevokeGrant, InsertCredential, MapAgent, Lose, Repair, Start, Stop
    <3>. QED BY <3>1, <3>2, <3>3, <3>4 DEF GrantsNext
  <2>2. /\ credentials[c] # Absent
        /\ HoldingLocks(v) /\ tx[v].op = "widen" =>
             c \in unchecked \/ TenantWide(c) \/ GrantsOf(c) = {}
    BY <1>0, <2>1 DEF HeldUpdatesAreChecked
  <2>3. credentials'[c] # Absent
    BY <2>2, CredentialsStay
  <2>4. ASSUME HoldingLocks(v), tx[v].op = "widen"
        PROVE  c \in unchecked' \/ TenantWide(c)' \/ GrantsOf(c)' = {}
    <3>1. unchecked \subseteq unchecked'
      BY WhoChanges
    <3>2. CASE TenantWide(c)
      <4>1. ASSUME NEW w \in Writers, CommitUpdate(w), tx[w].credential = c
            PROVE  w = v
        BY <1>0, <2>1, <2>4, <4>1 DEF LocksExclude, CommitUpdate, HoldingLocks, UpdateOps
      <4>2. ASSUME NEW w \in Writers, CommitUpdate(w)
            PROVE  w # v
        BY <1>0, <2>1, <4>2 DEF CommitUpdate, NoStatement, UpdateOps
      <4>3. credentials'[c] = credentials[c]
        BY <2>2, <4>1, <4>2, CredentialsStay
      <4>. QED BY <3>2, <4>3 DEF TenantWide
    <3>3. CASE GrantsOf(c) = {} /\ c \notin unchecked
      <4>1. ASSUME NEW w \in Writers, CommitGrant(w)
            PROVE  tx[w].row.credential # c
        <5>1. /\ Granting(w) /\ HoldingLocks(w) /\ w # v /\ tx[w].row \in Grant /\ tx[w].share \in BOOLEAN
          BY <1>0, <2>4, <4>1, StatementParts, IdleIsNothing DEF CommitGrant, Granting, HoldingLocks
        <5>2. ~tx[w].share => tx[w].row.credential \in unchecked
          BY <1>0, <5>1 DEF HeldGrantsAreChecked, GrantChecked
        <5>. QED BY <1>0, <2>1, <2>4, <3>3, <5>1, <5>2 DEF LocksExclude, UpdateOps
      <4>2. GrantsOf(c)' = {}
        <5>1. CASE grants' \subseteq grants
          BY <3>3, <5>1 DEF GrantsOf
        <5>2. ASSUME NEW w \in Writers, CommitGrant(w)
              PROVE  GrantsOf(c)' = {}
          BY <3>3, <4>1, <5>2 DEF CommitGrant, GrantsOf
        <5>. QED BY <5>1, <5>2, WhoChanges
      <4>. QED BY <4>2
    <3>. QED BY <2>2, <2>4, <3>1, <3>2, <3>3
  <2>. QED BY <2>1, <2>3, <2>4 DEF HoldingLocks
<1>. QED BY <1>1, <1>2, <1>3

\* Grants and tenant_wide are still apart.
LEMMA ModesKept ==
  ASSUME GrantsInv, GrantsNext
  PROVE  NeverBothModes'
<1>0. /\ GrantsTypeOK /\ KernelsStartVerified /\ HeldGrantsAreChecked /\ HeldUpdatesAreChecked
      /\ NeverBothModes /\ GrantsFollowTheirAgents
      /\ credentials \in [CredentialIds -> Row \cup {Absent}] /\ grants \subseteq Grant
  BY DEF GrantsInv, GrantsTypeOK
<1>. SUFFICES ASSUME NEW c \in CredentialIds, TenantWide(c)', GrantsOf(c)' # {}, c \notin unchecked'
     PROVE  FALSE
  BY DEF NeverBothModes
<1>1. c \notin unchecked /\ (~TenantWide(c) \/ GrantsOf(c) = {})
  BY <1>0, WhoChanges DEF NeverBothModes
<1>2. ASSUME NEW w \in Writers, CommitGrant(w)
      PROVE  FALSE
  <2>1. /\ Granting(w) /\ HoldingLocks(w) /\ tx[w].row \in Grant /\ tx[w].share \in BOOLEAN
        /\ credentials' = credentials /\ grants' = grants \cup {tx[w].row}
    BY <1>0, <1>2, StatementParts, IdleIsNothing DEF CommitGrant, Granting, HoldingLocks
  <2>2. GrantChecked(w, tx[w].row)
    BY <1>0, <2>1 DEF HeldGrantsAreChecked
  <2>3. TenantWide(c)
    BY <2>1 DEF TenantWide
  <2>4. tx[w].row.credential = c
    BY <1>1, <2>1, <2>3 DEF GrantsOf
  <2>. QED BY <1>1, <2>1, <2>2, <2>3, <2>4 DEF GrantChecked
<1>3. ASSUME NEW w \in Writers, CommitUpdate(w), tx[w].credential = c
      PROVE  FALSE
  <2>1. /\ tx[w].op \in UpdateOps /\ HoldingLocks(w) /\ grants' = grants
        /\ credentials[c] # Absent
    BY <1>0, <1>3 DEF CommitUpdate, HoldingLocks, UpdateOps, HeldUpdatesAreChecked
  <2>2. credentials'[c] = Updated(credentials[c], tx[w].op)
    BY <1>0, <1>3 DEF CommitUpdate
  <2>3. GrantsOf(c) # {} /\ ~TenantWide(c) /\ ~credentials[c].wide
    BY <1>1, <2>1 DEF GrantsOf, TenantWide
  <2>4. tx[w].op # "widen"
    BY <1>0, <1>1, <1>3, <2>1, <2>3 DEF HeldUpdatesAreChecked
  <2>5. credentials'[c].wide = IF tx[w].op = "revoke" THEN credentials[c].wide ELSE tx[w].op = "widen"
    BY <2>2 DEF Updated
  <2>. QED BY <2>3, <2>4, <2>5 DEF TenantWide
<1>4. grants' \subseteq grants
  BY <1>2, WhoChanges
<1>5. GrantsOf(c) # {} /\ ~TenantWide(c)
  BY <1>1, <1>4 DEF GrantsOf
<1>6. credentials'[c] # credentials[c]
  BY <1>5 DEF TenantWide
<1>7. CASE credentials[c] # Absent
  BY <1>3, <1>6, <1>7, CredentialsStay
<1>8. CASE credentials[c] = Absent
  <2>1. ASSUME NEW w \in Writers, CommitUpdate(w)
        PROVE  credentials'[c] = credentials[c]
    BY <1>0, <1>3, <2>1 DEF CommitUpdate
  <2>2. InsertCredential
    BY <1>6, <2>1, WhoChanges
  <2>3. schema # "unique_id_tenant_dropped"
    BY <1>0, <2>2 DEF InsertCredential, KernelsStartVerified, VerifySchema, VerifyCredentialsSchema
  <2>. QED BY <1>0, <1>5, <1>8, <2>3 DEF GrantsFollowTheirAgents, OfTheirTenant, GrantsOf
<1>. QED BY <1>7, <1>8

\* Grants still follow their agents.
LEMMA GrantsKept ==
  ASSUME GrantsInv, GrantsNext
  PROVE  GrantsFollowTheirAgents'
<1>0. /\ GrantsTypeOK /\ HeldGrantsAreChecked /\ GrantsFollowTheirAgents /\ grants \subseteq Grant
      /\ agents \in [Agents -> Tenants \cup {Unmapped, Absent}]
  BY DEF GrantsInv, GrantsTypeOK
<1>1. grants' \subseteq Grant
  BY TypesKept DEF GrantsTypeOK
<1>. SUFFICES ASSUME NEW g \in Grant, g \in grants'
     PROVE  /\ schema' # "unique_id_tenant_dropped" => OfTheirTenant(g)'
            /\ agents'[g.agent] # Absent
            /\ schema' # "agent_key_by_id" => agents'[g.agent] = g.tenant
  BY <1>1 DEF GrantsFollowTheirAgents, OfTheirTenant
<1>2. /\ g.agent \in Agents /\ g.credential \in CredentialIds /\ g.tenant \in Tenants
  BY DEF Grant
<1>3. ASSUME NEW w \in Writers, CommitGrant(w), tx[w].row = g
      PROVE  GrantChecked(w, g) /\ UNCHANGED <<credentials, agents, schema>>
  BY <1>0, <1>3 DEF CommitGrant, HeldGrantsAreChecked, Granting, HoldingLocks
<1>4. CASE g \notin grants
  <2>1. PICK w \in Writers : CommitGrant(w) /\ tx[w].row = g
    BY <1>4, WhoChanges DEF CommitGrant
  <2>. QED BY <1>3, <2>1 DEF GrantChecked, OfTheirTenant
<1>5. CASE g \in grants
  <2>1. /\ schema # "unique_id_tenant_dropped" => OfTheirTenant(g)
        /\ agents[g.agent] # Absent
        /\ schema # "agent_key_by_id" => agents[g.agent] = g.tenant
    BY <1>0, <1>5 DEF GrantsFollowTheirAgents
  <2>2. CASE Repair
    BY <1>5, <2>1, <2>2 DEF Repair, OfTheirTenant
  <2>3. CASE MapAgent
    <3>1. agents'[g.agent] = agents[g.agent] \/ (agents[g.agent] = Unmapped /\ agents'[g.agent] \in Tenants)
      BY <1>0, <1>2, <2>3 DEF MapAgent
    <3>2. UNCHANGED <<credentials, schema>>
      BY <2>3 DEF MapAgent
    <3>. QED BY <1>2, <2>1, <3>1, <3>2, NullsAssumption DEF OfTheirTenant
  <2>4. ASSUME NEW w \in Writers, CommitDelete(w)
        PROVE  agents'[g.agent] = agents[g.agent]
    BY <1>0, <1>2, <2>4 DEF CommitDelete
  <2>5. CASE ~Repair /\ ~MapAgent
    <3>1. agents'[g.agent] = agents[g.agent]
      BY <2>4, <2>5, WhoChanges
    <3>. QED BY <2>1, <2>5, <3>1, KeysStay
  <2>. QED BY <2>2, <2>3, <2>5
<1>. QED BY <1>4, <1>5

\* Only what widens is refused.
LEMMA RefusalsKept ==
  ASSUME GrantsInv, GrantsNext
  PROVE  RepairsNeverRefused'
<1>0. GrantsTypeOK /\ RepairsNeverRefused /\ tx \in [Writers -> Statement]
  BY DEF GrantsInv, GrantsTypeOK
<1>. SUFFICES ASSUME NEW v \in Writers, tx'[v].pc = "refused", tx'[v].op \in {"revoke", "narrow"}
     PROVE  FALSE
  BY DEF RepairsNeverRefused
<1>1. tx'[v] # tx[v]
  BY <1>0 DEF RepairsNeverRefused
<1>2. GrantStep(v) \/ UpdateStep(v) \/ DeleteStep(v) \/ EndStatement(v)
  BY <1>0, <1>1, OthersStay DEF GrantsNext, RevokeGrant, InsertCredential, MapAgent, Lose, Repair, Start, Stop
<1>3. CASE GrantStep(v)
  <2>1. ASSUME InsertGrant(v) PROVE FALSE
    <3>1. tx[v] \in [op : {"grant"}, pc : {"begun", "held", "refused"},
                     row : Grant, hand : BOOLEAN, share : BOOLEAN]
      BY <1>0, <2>1, StatementParts DEF InsertGrant, NoStatement, Granting
    <3>. QED BY <1>0, <2>1, <3>1 DEF InsertGrant
  <2>. QED BY <1>0, <1>3, <2>1 DEF GrantStep, BeginGrant, CommitGrant, NoStatement
<1>4. CASE UpdateStep(v)
  <2>1. ASSUME UpdateCredential(v) PROVE FALSE
    <3>. DEFINE refused == WideTriggerFires /\ Refuses(v)
    <3>1. tx[v] \in [op : UpdateOps, pc : {"begun", "held", "refused"},
                     credential : CredentialIds, seen : BOOLEAN]
      BY <1>0, <2>1, StatementParts DEF UpdateCredential, NoStatement, UpdateOps
    <3>2. tx' = [tx EXCEPT ![v] = [tx[v] EXCEPT !.pc = IF refused THEN "refused" ELSE "held"]]
      BY <2>1 DEF UpdateCredential
    <3>. HIDE DEF refused
    <3>3. refused /\ tx[v].op # "widen"
      BY <1>0, <3>1, <3>2
    <3>. QED BY <3>3 DEF refused, Refuses, RefusesTransition
  <2>. QED BY <1>0, <1>4, <2>1 DEF UpdateStep, BeginUpdate, CommitUpdate, NoStatement
<1>5. CASE DeleteStep(v) \/ EndStatement(v)
  BY <1>0, <1>5 DEF DeleteStep, LockAgent, CommitDelete, EndStatement, NoStatement
<1>. QED BY <1>2, <1>3, <1>4, <1>5

-----------------------------------------------------------------------------
(***************************************************************************)
(* The invariant and what follows from it.                                 *)
(***************************************************************************)

LEMMA InvInit == GrantsInit => GrantsInv
<1>. SUFFICES ASSUME GrantsInit PROVE GrantsInv
  OBVIOUS
<1>1. GrantsTypeOK
  BY DEF GrantsInit, GrantsTypeOK, Statement
<1>2. \A w \in Writers : tx[w] = NoStatement /\ ~HoldingLocks(w) /\ ~Granting(w) /\ tx[w].op \notin UpdateOps
  BY DEF GrantsInit, NoStatement, HoldingLocks, Granting, UpdateOps
<1>3. KernelsStartVerified /\ HeldGrantsAreChecked /\ HeldUpdatesAreChecked /\ LocksExclude
  BY <1>2 DEF GrantsInit, KernelsStartVerified, HeldGrantsAreChecked, HeldUpdatesAreChecked, LocksExclude
<1>4. NeverBothModes /\ GrantsFollowTheirAgents
  BY DEF GrantsInit, NeverBothModes, GrantsFollowTheirAgents, GrantsOf
<1>5. RepairsNeverRefused
  BY <1>2 DEF RepairsNeverRefused, NoStatement
<1>. QED BY <1>1, <1>3, <1>4, <1>5 DEF GrantsInv

LEMMA InvNext == GrantsInv /\ [GrantsNext]_grantsVars => GrantsInv'
<1>. SUFFICES ASSUME GrantsInv, [GrantsNext]_grantsVars PROVE GrantsInv'
  OBVIOUS
<1>1. CASE GrantsNext
  BY <1>1, TypesKept, KernelsKept, HeldGrantsKept, HeldUpdatesKept, LocksKept, ModesKept,
     GrantsKept, RefusalsKept DEF GrantsInv
<1>2. CASE UNCHANGED grantsVars
  <2>1. GrantsTypeOK' /\ KernelsStartVerified' /\ LocksExclude'
    BY <1>2 DEF grantsVars, GrantsInv, GrantsTypeOK, KernelsStartVerified, LocksExclude, Granting, HoldingLocks,
                VerifySchema, VerifyCredentialsSchema, VerifyGrantsSchema, VerifyTriggerFunctions,
                GrantTriggerFires
  <2>2. HeldGrantsAreChecked' /\ HeldUpdatesAreChecked'
    BY <1>2 DEF grantsVars, GrantsInv, HeldGrantsAreChecked, GrantChecked, HeldUpdatesAreChecked, Granting,
                HoldingLocks, TenantWide, OfTheirTenant, GrantsOf
  <2>3. NeverBothModes' /\ GrantsFollowTheirAgents' /\ RepairsNeverRefused'
    BY <1>2 DEF grantsVars, GrantsInv, NeverBothModes, GrantsFollowTheirAgents, RepairsNeverRefused,
                TenantWide, OfTheirTenant, GrantsOf
  <2>. QED BY <2>1, <2>2, <2>3 DEF GrantsInv
<1>. QED BY <1>1, <1>2

\* The invariant holds of every behaviour.
THEOREM GrantsInvariance == GrantsSpec => []GrantsInv
<1>. QED BY InvInit, InvNext, PTL DEF GrantsSpec

\* The tables and statements keep their types.
THEOREM GrantsTypeCorrect == GrantsSpec => []GrantsTypeOK
<1>1. GrantsInv => GrantsTypeOK
  BY DEF GrantsInv
<1>. QED BY <1>1, GrantsInvariance, PTL

\* The two triggers and their locks keep grants and tenant_wide apart, for any number
\* of writers, unless somebody wrote past a trigger the schema had lost.
THEOREM ModesStayApart == GrantsSpec => []NeverBothModes
<1>1. GrantsInv => NeverBothModes
  BY DEF GrantsInv
<1>. QED BY <1>1, GrantsInvariance, PTL

\* The composite keys and the locks on agents keep every grant with an agent of its
\* credential's tenant.
THEOREM GrantsStayInTenant == GrantsSpec => []GrantsFollowTheirAgents
<1>1. GrantsInv => GrantsFollowTheirAgents
  BY DEF GrantsInv
<1>. QED BY <1>1, GrantsInvariance, PTL

\* No trigger refuses a revocation or a return to restricted.
THEOREM RepairStaysOpen == GrantsSpec => []RepairsNeverRefused
<1>1. GrantsInv => RepairsNeverRefused
  BY DEF GrantsInv
<1>. QED BY <1>1, GrantsInvariance, PTL

-----------------------------------------------------------------------------
(***************************************************************************)
(* What a step can give.                                                   *)
(***************************************************************************)

\* authorize_agent grants in two cases, and never on a contradictory credential.
LEMMA WhoMayAct ==
  ASSUME NEW c \in CredentialIds, NEW a \in Agents
  PROVE  MayActFor(c, a) <=>
           /\ credentials[c] # Absent
           /\ agents[a] = credentials[c].tenant
           /\ IF credentials[c].wide
              THEN GrantsOf(c) = {}
              ELSE [credential |-> c, tenant |-> credentials[c].tenant, agent |-> a] \in grants
BY DEF MayActFor, Authorize, AuthorizeAgent

LEMMA WhoMayActNext ==
  ASSUME NEW c \in CredentialIds, NEW a \in Agents
  PROVE  MayActFor(c, a)' <=>
           /\ credentials'[c] # Absent
           /\ agents'[a] = credentials'[c].tenant
           /\ IF credentials'[c].wide
              THEN GrantsOf(c)' = {}
              ELSE [credential |-> c, tenant |-> credentials'[c].tenant, agent |-> a] \in grants'
BY DEF MayActFor, Authorize, AuthorizeAgent

\* What a step may do for a credential that has not both modes.
LEMMA StepGives ==
  ASSUME GrantsInv, GrantsNext, NEW c \in CredentialIds, NEW a \in Agents,
         ~MayActFor(c, a), MayActFor(c, a)', ~BothModes(c)
  PROVE  \/ credentials'[c] # credentials[c] /\ TenantWide(c)'
         \/ agents[a] = Unmapped
         \/ \E g \in grants' \ grants : g.credential = c /\ g.agent = a
<1>. DEFINE explicit == [credential |-> c, tenant |-> credentials'[c].tenant, agent |-> a]
<1>. SUFFICES ASSUME agents[a] # Unmapped,
                     ~(credentials'[c] # credentials[c] /\ TenantWide(c)'),
                     ~(explicit \in grants' \ grants)
     PROVE  FALSE
  OBVIOUS
<1>0. /\ GrantsTypeOK /\ KernelsStartVerified /\ NeverBothModes /\ GrantsFollowTheirAgents
      /\ agents \in [Agents -> Tenants \cup {Unmapped, Absent}]
      /\ credentials \in [CredentialIds -> Row \cup {Absent}]
      /\ credentials' \in [CredentialIds -> Row \cup {Absent}]
  BY TypesKept DEF GrantsInv, GrantsTypeOK
<1>1. /\ credentials'[c] # Absent /\ agents'[a] = credentials'[c].tenant
      /\ credentials'[c].wide => GrantsOf(c)' = {}
      /\ ~credentials'[c].wide => explicit \in grants
  <2>1. /\ credentials'[c] # Absent /\ agents'[a] = credentials'[c].tenant
        /\ IF credentials'[c].wide THEN GrantsOf(c)' = {} ELSE explicit \in grants'
    BY WhoMayActNext
  <2>. QED BY <2>1
<1>2. credentials'[c] # credentials[c] => ~credentials'[c].wide
  BY <1>1 DEF TenantWide
<1>3. credentials[c] # Absent
  <2>1. SUFFICES ASSUME credentials[c] = Absent PROVE FALSE
    OBVIOUS
  <2>2. explicit \in grants
    BY <1>1, <1>2, <2>1
  <2>3. ~OfTheirTenant(explicit)
    BY <2>1 DEF OfTheirTenant
  <2>4. ASSUME NEW w \in Writers, CommitUpdate(w)
        PROVE  credentials'[c] = credentials[c]
    BY <1>0, <2>1, <2>4 DEF CommitUpdate, GrantsInv, HeldUpdatesAreChecked, UpdateOps
  <2>5. InsertCredential
    BY <1>1, <2>1, <2>4, WhoChanges
  <2>6. schema # "unique_id_tenant_dropped"
    BY <1>0, <2>5 DEF InsertCredential, KernelsStartVerified, VerifySchema, VerifyCredentialsSchema
  <2>. QED BY <1>0, <2>2, <2>3, <2>6 DEF GrantsFollowTheirAgents
<1>4. credentials'[c].tenant = credentials[c].tenant /\ credentials[c].tenant \in Tenants
  BY <1>0, <1>3, CredentialsStay DEF Row
<1>5. agents[a] = credentials[c].tenant
  <2>1. ASSUME NEW w \in Writers, CommitDelete(w)
        PROVE  agents'[a] = agents[a] \/ agents'[a] = Absent
    BY <1>0, <2>1 DEF CommitDelete
  <2>2. CASE MapAgent
    BY <1>0, <1>1, <1>4, <2>2 DEF MapAgent
  <2>3. CASE ~MapAgent
    BY <1>1, <1>4, <2>1, <2>3, NullsAssumption, WhoChanges
  <2>. QED BY <2>2, <2>3
<1>6. IF credentials[c].wide THEN GrantsOf(c) # {}
      ELSE [credential |-> c, tenant |-> credentials[c].tenant, agent |-> a] \notin grants
  BY <1>3, <1>5, WhoMayAct
<1>7. ~credentials[c].wide
  BY <1>3, <1>6 DEF BothModes, TenantWide
<1>8. credentials'[c].wide /\ credentials'[c] = credentials[c]
  BY <1>1, <1>2, <1>4, <1>6, <1>7
<1>. QED BY <1>7, <1>8

\* A credential that has both modes was written past a lost trigger, and may act for
\* nobody until it has one mode again.
LEMMA StepEndsContradiction ==
  ASSUME GrantsInv, NEW c \in CredentialIds, NEW a \in Agents, BothModes(c), MayActFor(c, a)'
  PROVE  c \in unchecked /\ ~BothModes(c)'
<1>1. c \in unchecked
  BY DEF GrantsInv, NeverBothModes, BothModes
<1>2. credentials'[c].wide => GrantsOf(c)' = {}
  BY WhoMayActNext
<1>. QED BY <1>1, <1>2 DEF BothModes, TenantWide

\* What AuthorityIsGiven says of one step.
Gives ==
  \A c \in CredentialIds, a \in Agents :
    ~MayActFor(c, a) /\ MayActFor(c, a)' =>
      \/ credentials'[c] # credentials[c] /\ TenantWide(c)'
      \/ agents[a] = Unmapped
      \/ \E g \in grants' \ grants : g.credential = c /\ g.agent = a
      \/ c \in unchecked /\ BothModes(c) /\ ~BothModes(c)'

\* A credential gets an agent by a grant of it, its issue or widening, the agent's
\* assignment, or the end of a contradiction that a write past a lost trigger left:
\* withdrawing a grant and deleting an agent give nothing to any other credential.
THEOREM AuthorityIsOnlyGiven == GrantsSpec => AuthorityIsGiven
<1>1. GrantsInv /\ [GrantsNext]_grantsVars => [Gives]_grantsVars
  BY StepGives, StepEndsContradiction DEF Gives
<1>2. GrantsSpec => [][Gives]_grantsVars
  BY <1>1, GrantsInvariance, PTL DEF GrantsSpec
<1>. QED BY <1>2 DEF AuthorityIsGiven, Gives
=============================================================================
