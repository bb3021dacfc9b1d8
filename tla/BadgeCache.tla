----------------------------- MODULE BadgeCache -----------------------------
(***************************************************************************)
(* The badge cache of the verifier (verify/cache.go): two Go maps guarded  *)
(* by one RWMutex, one keyed by FQDN and one by FQDN and version, whose     *)
(* entries are stamped with an expiry time, kept for a while past it, and   *)
(* evicted when the two maps together exceed MaxEntries.  A background      *)
(* goroutine refreshes entries close to expiry; it collects the keys under  *)
(* the read lock and inserts each answer later, under a new write lock.     *)
(*                                                                         *)
(* Every operation that holds the lock from its first read to its last      *)
(* write is one action.  The clock `now` only moves by Tick, so two calls   *)
(* of time.Now() in one critical section read the same instant.             *)
(***************************************************************************)
EXTENDS Integers, FiniteSets

CONSTANTS
    Fqdn,             \* host names, already normalised (models.Fqdn)
    Version,          \* agent versions (models.Version)
    TLResponse,       \* answers of the transparency log
    MaxEntries,       \* CacheConfig.MaxEntries
    DefaultTTL,       \* CacheConfig.DefaultTTL
    RefreshThreshold, \* CacheConfig.RefreshThreshold
    StaleRetention,   \* CacheConfig.StaleRetention
    MaxTime           \* bound of the model: the clock stops here

ASSUME FiniteKeys == IsFiniteSet(Fqdn) /\ IsFiniteSet(Version)

ASSUME CacheConfig ==
    /\ MaxEntries \in Nat
    /\ DefaultTTL \in Nat
    /\ RefreshThreshold \in Nat
    /\ StaleRetention \in Nat
    /\ MaxTime \in Nat

VARIABLES
    now,        \* time.Now()
    byFqdn,     \* map[fqdn]*cacheEntry
    byFqdnVer,  \* map[fqdn:version]*cacheEntry
    refresher   \* the goroutine of StartBackgroundRefresh

cacheVars == <<byFqdn, byFqdnVer>>
vars == <<now, byFqdn, byFqdnVer, refresher>>

Entry == [resp: TLResponse, fetchedAt: Nat, expiresAt: Nat]

VersionKey == Fqdn \X Version

\* m is a Go map from keys in K to entries.
IsMap(m, K) ==
    /\ DOMAIN m \subseteq K
    /\ m = [k \in DOMAIN m |-> m[k]]
    /\ \A k \in DOMAIN m : m[k] \in Entry

\* keys is what is left of keysToRefresh; got holds the answer refreshFn has
\* returned and refreshExpiring has not yet inserted (at most one).
RefresherState ==
    [pc: {"off", "waiting", "refreshing", "stopped"},
     keys: SUBSET Fqdn,
     got: SUBSET [key: Fqdn, resp: TLResponse]]

-----------------------------------------------------------------------------
(* Reads.                                                                  *)

Has(m, k) == k \in DOMAIN m

IsExpired(e) == now > e.expiresAt

ShouldRefresh(e) == now + RefreshThreshold > e.expiresAt

\* GetByFqdn and GetByFqdnVersion find entry k: present and not expired.
GetFresh(m, k) == Has(m, k) /\ ~IsExpired(m[k])

\* Faulty variant: maxStaleness is not applied.
GetStaleUnlimited(m, k, maxStaleness) == Has(m, k)

\* GetStaleByFqdn and GetStaleByFqdnVersion find entry k: present, and expired
\* for at most maxStaleness.
GetStale(m, k, maxStaleness) == Has(m, k) /\ now - m[k].expiresAt <= maxStaleness

-----------------------------------------------------------------------------
(* Writes.                                                                 *)

\* Faulty variant: the entry is stamped with the clock alone, without its TTL.
NewEntryNoTTL(r) == [resp |-> r, fetchedAt |-> now, expiresAt |-> now]

NewEntry(r) == [resp |-> r, fetchedAt |-> now, expiresAt |-> now + DefaultTTL]

Put(m, k, e) == [x \in DOMAIN m \cup {k} |-> IF x = k THEN e ELSE m[x]]

Keep(m, K) == [x \in K |-> m[x]]

BeyondRetention(e) == now - StaleRetention > e.expiresAt

Retained(m) == {k \in DOMAIN m : ~BeyondRetention(m[k])}

Size(m1, m2) == Cardinality(DOMAIN m1) + Cardinality(DOMAIN m2)

\* Faulty variants of the limit check: off by one, in either direction.
ToRemoveOneShort(m1, m2) ==
    Cardinality(Retained(m1)) + Cardinality(Retained(m2)) - MaxEntries - 1

ToRemoveOneExtra(m1, m2) ==
    Cardinality(Retained(m1)) + Cardinality(Retained(m2)) - MaxEntries + 1

\* How far the maps are over the limit once the long-expired entries are gone.
ToRemove(m1, m2) ==
    Cardinality(Retained(m1)) + Cardinality(Retained(m2)) - MaxEntries

\* cleanupLocked, run on the maps m1 and m2 the insertion has just written.
\* Entries expired for longer than StaleRetention go first; if the rest is over
\* the limit, Go's map iteration picks the victims, in byFqdn before byFqdnVer.
CleanupLocked(m1, m2) ==
    \E keep1 \in SUBSET Retained(m1), keep2 \in SUBSET Retained(m2) :
        LET toRemove == ToRemove(m1, m2)
            removed1 == Cardinality(Retained(m1)) - Cardinality(keep1)
            removed2 == Cardinality(Retained(m2)) - Cardinality(keep2)
        IN  /\ IF toRemove <= 0
                 THEN removed1 = 0 /\ removed2 = 0
                 ELSE /\ removed1 + removed2 = toRemove
                      /\ removed2 > 0 => keep1 = {}
            /\ byFqdn' = Keep(m1, keep1)
            /\ byFqdnVer' = Keep(m2, keep2)

\* Insert(fqdn, tlResp)
InsertLocked(f, r) == CleanupLocked(Put(byFqdn, f, NewEntry(r)), byFqdnVer)

\* InsertForVersion(fqdn, version, tlResp)
InsertForVersionLocked(f, v, r) ==
    CleanupLocked(byFqdn, Put(byFqdnVer, <<f, v>>, NewEntry(r)))

-----------------------------------------------------------------------------
(* The specification of the cache on its own: any caller, any answer.       *)

EmptyMap == [k \in {} |-> k]

Init ==
    /\ now = 0
    /\ byFqdn = EmptyMap
    /\ byFqdnVer = EmptyMap
    /\ refresher = [pc |-> "off", keys |-> {}, got |-> {}]

Tick ==
    /\ now < MaxTime
    /\ now' = now + 1
    /\ UNCHANGED <<byFqdn, byFqdnVer, refresher>>

Insert(f, r) == InsertLocked(f, r) /\ UNCHANGED <<now, refresher>>

InsertForVersion(f, v, r) ==
    InsertForVersionLocked(f, v, r) /\ UNCHANGED <<now, refresher>>

Clear ==
    /\ byFqdn' = EmptyMap
    /\ byFqdnVer' = EmptyMap
    /\ UNCHANGED <<now, refresher>>

StartBackgroundRefresh ==
    /\ refresher.pc = "off"
    /\ refresher' = [pc |-> "waiting", keys |-> {}, got |-> {}]
    /\ UNCHANGED <<now, byFqdn, byFqdnVer>>

\* The ticker fires; the keys to refresh are collected under the read lock.
CollectExpiring ==
    /\ refresher.pc = "waiting"
    /\ refresher' = [pc   |-> "refreshing",
                     keys |-> {k \in DOMAIN byFqdn : ShouldRefresh(byFqdn[k])},
                     got  |-> {}]
    /\ UNCHANGED <<now, byFqdn, byFqdnVer>>

\* refreshFn answers r for key k; no lock is held.
RefreshFetched(k, r) ==
    /\ refresher.pc = "refreshing"
    /\ refresher.got = {}
    /\ k \in refresher.keys
    /\ refresher' = [refresher EXCEPT !.keys = @ \ {k},
                                      !.got = {[key |-> k, resp |-> r]}]
    /\ UNCHANGED <<now, byFqdn, byFqdnVer>>

\* refreshFn fails for key k: the loop goes on with the next key.
RefreshFailed(k) ==
    /\ refresher.pc = "refreshing"
    /\ refresher.got = {}
    /\ k \in refresher.keys
    /\ refresher' = [refresher EXCEPT !.keys = @ \ {k}]
    /\ UNCHANGED <<now, byFqdn, byFqdnVer>>

\* Faulty variant: a refreshed entry is stamped without its TTL.
RefreshInsertNoTTL ==
    /\ \E g \in refresher.got :
          CleanupLocked(Put(byFqdn, g.key, NewEntryNoTTL(g.resp)), byFqdnVer)
    /\ refresher' = [refresher EXCEPT !.got = {}]
    /\ UNCHANGED now

\* The answer is inserted, whatever has happened to the cache meanwhile.
RefreshInsert ==
    /\ \E g \in refresher.got : InsertLocked(g.key, g.resp)
    /\ refresher' = [refresher EXCEPT !.got = {}]
    /\ UNCHANGED now

RefreshRoundDone ==
    /\ refresher.pc = "refreshing"
    /\ refresher.keys = {}
    /\ refresher.got = {}
    /\ refresher' = [pc |-> "waiting", keys |-> {}, got |-> {}]
    /\ UNCHANGED <<now, byFqdn, byFqdnVer>>

\* ctx is done: seen only between two rounds.
StopBackgroundRefresh ==
    /\ refresher.pc = "waiting"
    /\ refresher' = [pc |-> "stopped", keys |-> {}, got |-> {}]
    /\ UNCHANGED <<now, byFqdn, byFqdnVer>>

Next ==
    \/ Tick
    \/ \E f \in Fqdn, r \in TLResponse : Insert(f, r)
    \/ \E f \in Fqdn, v \in Version, r \in TLResponse : InsertForVersion(f, v, r)
    \/ Clear
    \/ StartBackgroundRefresh
    \/ CollectExpiring
    \/ \E k \in Fqdn, r \in TLResponse : RefreshFetched(k, r)
    \/ \E k \in Fqdn : RefreshFailed(k)
    \/ RefreshInsert
    \/ RefreshRoundDone
    \/ StopBackgroundRefresh

Spec == Init /\ [][Next]_vars

-----------------------------------------------------------------------------
(* Properties.                                                             *)

\* The two maps hold well-formed entries under keys of their own kind, and the
\* refresher is in one of the states of backgroundRefreshLoop.
TypeOK ==
    /\ now \in Nat
    /\ IsMap(byFqdn, Fqdn)
    /\ IsMap(byFqdnVer, VersionKey)
    /\ refresher \in RefresherState

\* The two maps together never hold more than MaxEntries entries, although
\* each insertion is done first and cleanupLocked only trims afterwards.
SizeBounded == Size(byFqdn, byFqdnVer) <= MaxEntries

Dated(e) == e.fetchedAt <= now /\ e.expiresAt = e.fetchedAt + DefaultTTL

\* Every entry was stamped in the past and lives exactly one TTL from its own
\* stamp, whether a verifier or the background refresh inserted it.
EntriesDated ==
    /\ \A k \in DOMAIN byFqdn : Dated(byFqdn[k])
    /\ \A k \in DOMAIN byFqdnVer : Dated(byFqdnVer[k])

Lost(m, k) == k \in DOMAIN m /\ k \notin DOMAIN m'

\* An entry that is still within its retention window disappears only because
\* Clear was called or because the cache was full, and a full cache gives up no
\* more than the overflow: it is exactly at its limit afterwards.
LossOnlyWhenFull ==
    [][(\/ \E k \in Fqdn : Lost(byFqdn, k) /\ ~BeyondRetention(byFqdn[k])
        \/ \E k \in VersionKey : Lost(byFqdnVer, k) /\ ~BeyondRetention(byFqdnVer[k]))
       => Clear \/ Size(byFqdn, byFqdnVer)' = MaxEntries]_vars

\* A late answer of the background refresh may replace a newer answer, but it
\* never brings an entry's expiry forward: while a key stays cached, its expiry
\* time only grows.
ExpiryNeverRecedes ==
    [][/\ \A k \in DOMAIN byFqdn \cap DOMAIN byFqdn' :
             byFqdn'[k].expiresAt >= byFqdn[k].expiresAt
       /\ \A k \in DOMAIN byFqdnVer \cap DOMAIN byFqdnVer' :
             byFqdnVer'[k].expiresAt >= byFqdnVer[k].expiresAt]_vars
=============================================================================
