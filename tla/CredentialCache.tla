---------------------------- MODULE CredentialCache ----------------------------
(***************************************************************************)
(* Authentication of credentials by one process, its bounded TTL cache and *)
(* the credentials table.                                                  *)
(*                                                                         *)
(* Requests authenticate concurrently; each waits once, for the fetch of   *)
(* the row, and whatever it does before or after that wait is one step.    *)
(* Credentials are revoked through this process, which then drops its      *)
(* cache entry, or elsewhere (another replica, an operator's SQL), which   *)
(* cannot.  Two clocks run: a monotonic one and a wall clock that an       *)
(* operator or NTP may set back or forward.                                *)
(*                                                                         *)
(* Of a record only the status and the expiry are kept; whether a request  *)
(* presents the credential's secret is part of the request.  last_used_at  *)
(* is left out (nothing reads it), and so is the poisoned lock: no code    *)
(* that holds it panics.                                                   *)
(***************************************************************************)
EXTENDS Integers, FiniteSets

CONSTANTS
  Credentials,  \* ids
  Requests,     \* concurrent calls of authenticate
  Capacity,     \* entries the cache holds (DEFAULT_CAPACITY)
  TTL,          \* MAX_TTL
  Lifetime,     \* per id: how long after its issue it expires, or NoExpiry
  NoExpiry,     \* expires_at IS NULL
  Asks,         \* bound: the ids each request may present
  MaxLag,       \* bound: how long the answer to a fetch is on its way
  MaxRevoked,   \* bound: credentials that are revoked
  Horizon,      \* bound: when the monotonic clock stops
  MaxJumps      \* bound: settings of the wall clock

ASSUME CapacityAssumption == Capacity \in Nat \ {0}
ASSUME TTLAssumption == TTL \in Nat \ {0}
ASSUME AsksAssumption == Asks \in [Requests -> SUBSET Credentials]
ASSUME BoundsAssumption == MaxLag \in Nat /\ MaxRevoked \in Nat /\ Horizon \in Nat /\ MaxJumps \in Nat
ASSUME LifetimeAssumption ==
  NoExpiry \notin Int /\ Lifetime \in [Credentials -> {NoExpiry} \cup (Nat \ {0})]

VARIABLES
  row,         \* the credentials table: status ("none": not issued) and expiry
  cache,       \* a function from the cached ids to their entries
  req,         \* per request: what it asks and how far it is
  revoking,    \* ids revoked here whose entry is not dropped yet
  mono, wall,  \* the two clocks
  jumps,
  \* History, read by the properties only.
  revokedAt,   \* per id: monotonic time of its revocation, or Never
  revokedHere, \* ids whose revocation through this process has completed
  accepted     \* per id: monotonic time of its last acceptance since then

clocks == <<mono, wall, jumps>>
history == <<revokedAt, revokedHere, accepted>>
vars == <<row, cache, req, revoking, clocks, history>>

Never == -1
Expiries == {NoExpiry} \cup Int
Record == [status : {"active", "revoked"}, expires : Expiries]
Unissued == [status |-> "none", expires |-> NoExpiry]
Entry == [record : Record, tick : Int, wall : Int]

Idle == [pc |-> "idle"]
Asking == [pc : {"fetching"}, cred : Credentials, secret : BOOLEAN, at : Int]
Holding == [pc : {"loaded"}, cred : Credentials, secret : BOOLEAN, at : Int,
            record : Record, fetched : Int]

Init ==
  /\ row = [c \in Credentials |-> Unissued]
  /\ cache = [c \in {} |-> Unissued]
  /\ req = [r \in Requests |-> Idle]
  /\ revoking = {}
  /\ mono = 0
  /\ wall = 0
  /\ jumps = 0
  /\ revokedAt = [c \in Credentials |-> Never]
  /\ revokedHere = {}
  /\ accepted = [c \in Credentials |-> Never]

(***************************************************************************)
(* BoundedTtlCache.                                                        *)
(***************************************************************************)

\* Mutation: the wall clock alone decides.
IsLiveByWall(e) == wall < e.wall

IsLive(e) == mono < e.tick /\ wall < e.wall

Cached(c) == c \in DOMAIN cache
Hit(c) == Cached(c) /\ IsLive(cache[c])

Without(f, S) == [c \in DOMAIN f \ S |-> f[c]]

\* Mutation: the credential's own expiry is forgotten.
NewEntryUnbounded(record) ==
  [record |-> record, tick |-> mono + TTL, wall |-> wall + TTL]

\* Mutation: one clock for both deadlines.
NewEntryOneClock(record) ==
  [record |-> record, tick |-> wall + TTL,
   wall |-> IF record.expires # NoExpiry /\ record.expires < wall + TTL
            THEN record.expires ELSE wall + TTL]

\* The two deadlines; the second is also bounded by the credential's expiry.
NewEntry(record) ==
  [record |-> record, tick |-> mono + TTL,
   wall |-> IF record.expires # NoExpiry /\ record.expires < wall + TTL
            THEN record.expires ELSE wall + TTL]

Expired == {c \in DOMAIN cache : ~IsLive(cache[c])}

\* Mutation: expired entries are dropped, live ones never.
VictimsExpiredOnly(c) ==
  {IF Cached(c) \/ Cardinality(DOMAIN cache) < Capacity THEN {} ELSE Expired}

\* What insert may evict to make room for c: nothing when there is room or c
\* is replaced, else all expired entries and, if that is not enough, a live one
\* with the earliest deadline.
Victims(c) ==
  IF Cached(c) \/ Cardinality(DOMAIN cache) < Capacity THEN {{}}
  ELSE IF Cardinality(DOMAIN cache \ Expired) < Capacity THEN {Expired}
  ELSE {Expired \cup {v} : v \in {v \in DOMAIN cache \ Expired :
          \A o \in DOMAIN cache \ Expired : cache[v].tick <= cache[o].tick}}

Insert(c, record) ==
  \E V \in Victims(c) :
    cache' = [k \in (DOMAIN cache \ V) \cup {c} |->
                IF k = c THEN NewEntry(record) ELSE cache[k]]

(***************************************************************************)
(* Authenticator::authenticate.                                            *)
(***************************************************************************)

Usable(record, at) ==
  record.status = "active" /\ (record.expires # NoExpiry => at < record.expires)

Accept(c) == accepted' = IF row[c].status = "revoked" THEN [accepted EXCEPT ![c] = mono] ELSE accepted

\* Mutation: a hit writes the record back, which renews its deadlines.
ServeFromCacheSliding(r, c) ==
  /\ req[r] = Idle
  /\ Hit(c)
  /\ Usable(cache[c].record, wall)
  /\ Accept(c)
  /\ cache' = [cache EXCEPT ![c] = NewEntry(cache[c].record)]
  /\ UNCHANGED <<row, req, revoking, clocks, revokedAt, revokedHere>>

\* A live entry corroborates the secret: no wait, and nothing is written.
ServeFromCache(r, c) ==
  /\ req[r] = Idle
  /\ Hit(c)
  /\ Usable(cache[c].record, wall)
  /\ Accept(c)
  /\ UNCHANGED <<row, cache, req, revoking, clocks, revokedAt, revokedHere>>

\* A miss, or a secret the cached record does not match: on to the table.  An
\* expired entry is dropped, a live one is left as it is.
MissCache(r, c, secret) ==
  /\ req[r] = Idle
  /\ ~(secret /\ Hit(c))
  /\ cache' = IF Hit(c) THEN cache ELSE Without(cache, {c})
  /\ req' = [req EXCEPT ![r] = [pc |-> "fetching", cred |-> c, secret |-> secret, at |-> wall]]
  /\ UNCHANGED <<row, revoking, clocks, history>>

Hold(r, record) ==
  req' = [req EXCEPT ![r] = [pc |-> "loaded", cred |-> req[r].cred, secret |-> req[r].secret,
                             at |-> req[r].at, record |-> record, fetched |-> mono]]

\* Mutation: the record is cached as soon as it is loaded.
FetchRowAndCache(r) ==
  /\ req[r].pc = "fetching"
  /\ row[req[r].cred] # Unissued
  /\ Hold(r, row[req[r].cred])
  /\ Insert(req[r].cred, row[req[r].cred])
  /\ UNCHANGED <<row, revoking, clocks, history>>

\* The database reads the row; its answer is on the way.
FetchRow(r) ==
  /\ req[r].pc = "fetching"
  /\ row[req[r].cred] # Unissued
  /\ Hold(r, row[req[r].cred])
  /\ UNCHANGED <<row, cache, revoking, clocks, history>>

\* No such credential, a failed query, or a caller that went away.
GiveUp(r) ==
  /\ req[r] # Idle
  /\ req' = [req EXCEPT ![r] = Idle]
  /\ UNCHANGED <<row, cache, revoking, clocks, history>>

Verified(r) == req[r].secret /\ Usable(req[r].record, req[r].at)

\* The answer is here: secret, status and expiry hold, the latter at the time
\* the request began; then the record is cached and the caller let in.
Admit(r) ==
  /\ req[r].pc = "loaded"
  /\ Verified(r)
  /\ Insert(req[r].cred, req[r].record)
  /\ Accept(req[r].cred)
  /\ req' = [req EXCEPT ![r] = Idle]
  /\ UNCHANGED <<row, revoking, clocks, revokedAt, revokedHere>>

Reject(r) ==
  /\ req[r].pc = "loaded"
  /\ ~Verified(r)
  /\ req' = [req EXCEPT ![r] = Idle]
  /\ UNCHANGED <<row, cache, revoking, clocks, history>>

(***************************************************************************)
(* The life of a credential, the process and the clocks.                   *)
(***************************************************************************)

\* One INSERT; credentials_expires_ck wants an expiry in the future.
Issue(c) ==
  /\ row[c] = Unissued
  /\ row' = [row EXCEPT ![c] =
       [status |-> "active",
        expires |-> IF Lifetime[c] = NoExpiry THEN NoExpiry ELSE wall + Lifetime[c]]]
  /\ UNCHANGED <<cache, req, revoking, clocks, history>>

MayBeRevoked(c) ==
  row[c].status = "active" =>
    Cardinality({k \in Credentials : row[k].status = "revoked"}) < MaxRevoked

\* UPDATE ... WHERE status <> 'revoked'
RevokeRow(c) ==
  IF row[c].status = "active"
  THEN /\ row' = [row EXCEPT ![c].status = "revoked"]
       /\ revokedAt' = [revokedAt EXCEPT ![c] = mono]
  ELSE UNCHANGED <<row, revokedAt>>

\* Authenticator::revoke updates the row, waits, and drops the local entry,
\* whether or not the row changed.
Revoke(c) ==
  /\ row[c] # Unissued
  /\ c \notin revoking
  /\ MayBeRevoked(c)
  /\ RevokeRow(c)
  /\ revoking' = revoking \cup {c}
  /\ UNCHANGED <<cache, req, clocks, revokedHere, accepted>>

Invalidate(c) ==
  /\ c \in revoking
  /\ cache' = Without(cache, {c})
  /\ revoking' = revoking \ {c}
  /\ revokedHere' = revokedHere \cup {c}
  /\ UNCHANGED <<row, req, clocks, revokedAt, accepted>>

\* The answer of the UPDATE is lost: revoke returns before it invalidates.
RevokeReplyLost(c) ==
  /\ c \in revoking
  /\ revoking' = revoking \ {c}
  /\ UNCHANGED <<row, cache, req, clocks, history>>

RevokeElsewhere(c) ==
  /\ row[c].status = "active"
  /\ MayBeRevoked(c)
  /\ RevokeRow(c)
  /\ UNCHANGED <<cache, req, revoking, clocks, revokedHere, accepted>>

Restart ==
  /\ cache' = Without(cache, DOMAIN cache)
  /\ req' = [r \in Requests |-> Idle]
  /\ revoking' = {}
  /\ UNCHANGED <<row, clocks, revokedAt, revokedHere, accepted>>

\* Time passes; no answer of the database stays under way for longer than MaxLag.
Tick ==
  /\ mono < Horizon
  /\ \A r \in Requests : req[r].pc = "loaded" => mono - req[r].fetched < MaxLag
  /\ mono' = mono + 1
  /\ wall' = wall + 1
  /\ UNCHANGED <<row, cache, req, revoking, jumps, history>>

\* The wall clock is set, back or forward.
SetWallClock ==
  /\ jumps < MaxJumps
  /\ jumps' = jumps + 1
  /\ wall' \in {wall - 1, wall + 1}
  /\ UNCHANGED <<row, cache, req, revoking, mono, history>>

-----------------------------------------------------------------------------

Authenticate(r) ==
  \/ \E c \in Asks[r] : ServeFromCache(r, c) \/ (\E s \in BOOLEAN : MissCache(r, c, s))
  \/ FetchRow(r) \/ GiveUp(r) \/ Admit(r) \/ Reject(r)

Manage(c) ==
  Issue(c) \/ Revoke(c) \/ Invalidate(c) \/ RevokeReplyLost(c) \/ RevokeElsewhere(c)

Next ==
  \/ \E r \in Requests : Authenticate(r)
  \/ \E c \in Credentials : Manage(c)
  \/ Restart \/ Tick \/ SetWallClock

Spec == Init /\ [][Next]_vars

-----------------------------------------------------------------------------

(***************************************************************************)
(* Properties.                                                             *)
(***************************************************************************)

\* Every variable keeps its type; an entry's monotonic deadline is at most one
\* TTL away, so no setting of the wall clock can stretch it.
TypeOK ==
  /\ row \in [Credentials -> Record \cup {Unissued}]
  /\ DOMAIN cache \subseteq Credentials
  /\ \A c \in DOMAIN cache : cache[c] \in Entry /\ cache[c].tick <= mono + TTL
  /\ req \in [Requests -> {Idle} \cup Asking \cup Holding]
  /\ revoking \subseteq Credentials
  /\ mono \in Nat /\ wall \in Int /\ jumps \in Nat
  /\ revokedAt \in [Credentials -> Nat \cup {Never}]
  /\ revokedHere \subseteq Credentials
  /\ accepted \in [Credentials -> Nat \cup {Never}]

\* A revoked credential stops authenticating within the TTL, counted from when
\* the last answer read before the revocation can arrive: no hit, no concurrent
\* request and no setting of the wall clock extends that, however the
\* revocation was made (cache.rs, "The two deadlines").
RevocationTakesEffect ==
  \A c \in Credentials : revokedAt[c] # Never => accepted[c] < revokedAt[c] + MaxLag + TTL

\* The cache never answers for a credential that has expired by the wall clock,
\* wherever that clock was set (cache_bound, insert).
NeverServedPastExpiry ==
  \A c \in Credentials :
    Hit(c) /\ row[c].expires # NoExpiry => wall < row[c].expires

\* The cache never outgrows its capacity, whatever mix of expired, live and
\* replaced entries an insert meets (insert).
CacheWithinCapacity == Cardinality(DOMAIN cache) <= Capacity

\* A record enters the cache, or replaces another, only for a request that has
\* it loaded and presented its secret: a probe without the secret never warms
\* the cache and a hit never renews an entry (authenticate caches last).
OnlyVerifiedAreCached ==
  [][\A c \in Credentials :
       Cached(c)' /\ (Cached(c) => cache'[c] # cache[c]) =>
         \E r \in Requests : req[r].pc = "loaded" /\ req[r].cred = c /\ req[r].secret]_vars

\* cache.rs on invalidate: a revocation through this process takes effect
\* immediately.  Violated: a request that fetched the row before the revocation
\* inserts it after the entry was dropped, and the cache then answers for
\* another TTL.
LocalRevocationIsImmediate == \A c \in revokedHere : ~Hit(c)
=============================================================================
