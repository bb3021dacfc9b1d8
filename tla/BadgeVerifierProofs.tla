------------------------- MODULE BadgeVerifierProofs -------------------------
(***************************************************************************)
(* Proofs about BadgeCache and BadgeVerifier, for any number of goroutines,   *)
(* agents, hosts and certificates and any configuration: the cache keeps its  *)
(* limit and its times, the composed system uses it only through its          *)
(* operations, every outcome rests on recent evidence, a revoked agent is     *)
(* verified for a bounded time only by whom the log answers (an anchored      *)
(* verifier always), and a reported mismatch is fresh.                        *)
(***************************************************************************)
EXTENDS BadgeVerifier, FiniteSetTheorems, TLAPS

-----------------------------------------------------------------------------
(* The cache by itself (BadgeCache), for every set of hosts, versions and    *)
(* answers and every cache configuration.                                    *)

LEMMA KeysFinite == IsFiniteSet(Fqdn) /\ IsFiniteSet(VersionKey)
BY FiniteKeys, FS_Product DEF VersionKey

\* Putting a well-formed entry into a map gives a map.
LEMMA PutIsMap ==
    ASSUME NEW K, NEW m, IsMap(m, K), NEW k \in K, NEW e \in Entry
    PROVE  IsMap(Put(m, k, e), K)
BY DEF IsMap, Put

\* Restricting a map to some of its keys gives a map.
LEMMA KeepIsMap ==
    ASSUME NEW K, NEW m, IsMap(m, K), NEW S \in SUBSET DOMAIN m
    PROVE  IsMap(Keep(m, S), K)
BY DEF IsMap, Keep

LEMMA NewEntryType ==
    ASSUME TypeOK, NEW r \in TLResponse
    PROVE  NewEntry(r) \in Entry
BY CacheConfig DEF TypeOK, NewEntry, Entry

\* What cleanupLocked leaves behind: sub-maps of what it was given, of at most
\* MaxEntries entries together.  If it dropped a retained entry, they are full.
LEMMA CleanupKeeps ==
    ASSUME NEW m1, NEW m2, IsMap(m1, Fqdn), IsMap(m2, VersionKey),
           CleanupLocked(m1, m2)
    PROVE  \E keep1 \in SUBSET Retained(m1), keep2 \in SUBSET Retained(m2) :
              /\ byFqdn' = Keep(m1, keep1)
              /\ byFqdnVer' = Keep(m2, keep2)
              /\ Cardinality(keep1) + Cardinality(keep2) <= MaxEntries
              /\ \/ keep1 = Retained(m1) /\ keep2 = Retained(m2)
                 \/ Cardinality(keep1) + Cardinality(keep2) = MaxEntries
<1>1. IsFiniteSet(Retained(m1)) /\ IsFiniteSet(Retained(m2))
  <2>1. Retained(m1) \subseteq Fqdn /\ Retained(m2) \subseteq VersionKey
    BY DEF Retained, IsMap
  <2>. QED  BY <2>1, KeysFinite, FS_Subset
<1>2. PICK keep1 \in SUBSET Retained(m1), keep2 \in SUBSET Retained(m2) :
        LET toRemove == ToRemove(m1, m2)
            removed1 == Cardinality(Retained(m1)) - Cardinality(keep1)
            removed2 == Cardinality(Retained(m2)) - Cardinality(keep2)
        IN  /\ IF toRemove <= 0
                 THEN removed1 = 0 /\ removed2 = 0
                 ELSE /\ removed1 + removed2 = toRemove
                      /\ removed2 > 0 => keep1 = {}
            /\ byFqdn' = Keep(m1, keep1)
            /\ byFqdnVer' = Keep(m2, keep2)
  BY DEF CleanupLocked
<1>3. /\ IsFiniteSet(keep1) /\ IsFiniteSet(keep2)
      /\ Cardinality(keep1) <= Cardinality(Retained(m1))
      /\ Cardinality(keep2) <= Cardinality(Retained(m2))
      /\ Cardinality(Retained(m1)) = Cardinality(keep1) => keep1 = Retained(m1)
      /\ Cardinality(Retained(m2)) = Cardinality(keep2) => keep2 = Retained(m2)
  BY <1>1, FS_Subset
<1>4. /\ Cardinality(keep1) \in Nat /\ Cardinality(keep2) \in Nat
      /\ Cardinality(Retained(m1)) \in Nat /\ Cardinality(Retained(m2)) \in Nat
  BY <1>1, <1>3, FS_CardinalityType
<1>5. ToRemove(m1, m2) = Cardinality(Retained(m1)) + Cardinality(Retained(m2)) - MaxEntries
  BY DEF ToRemove
<1>. QED
  <2>1. CASE ToRemove(m1, m2) <= 0
    <3>1. Cardinality(keep1) = Cardinality(Retained(m1)) /\ Cardinality(keep2) = Cardinality(Retained(m2))
      BY <2>1, <1>2, <1>4
    <3>. QED  BY <3>1, <1>2, <1>3, <1>4, <1>5, <2>1, CacheConfig
  <2>2. CASE ~(ToRemove(m1, m2) <= 0)
    <3>1. Cardinality(keep1) + Cardinality(keep2) = MaxEntries
      BY <2>2, <1>2, <1>4, <1>5, CacheConfig
    <3>. QED  BY <3>1, <1>2, CacheConfig
  <2>. QED  BY <2>1, <2>2

-----------------------------------------------------------------------------
(* The inductive invariant: types, the size bound and the dates.            *)

IInv == TypeOK /\ SizeBounded /\ EntriesDated

AllDated(m) == \A k \in DOMAIN m : Dated(m[k])

\* A map whose entries are dated stays so when a new entry is put into it.
LEMMA PutIsDated ==
    ASSUME TypeOK, NEW m, AllDated(m), NEW k, NEW r \in TLResponse
    PROVE  AllDated(Put(m, k, NewEntry(r)))
BY CacheConfig DEF TypeOK, AllDated, Dated, Put, NewEntry

\* cleanupLocked re-establishes the invariant on the maps it is given, whatever
\* their size.
LEMMA CleanupInv ==
    ASSUME NEW m1, NEW m2, IsMap(m1, Fqdn), IsMap(m2, VersionKey),
           AllDated(m1), AllDated(m2), CleanupLocked(m1, m2), now' = now
    PROVE  /\ IsMap(byFqdn', Fqdn) /\ IsMap(byFqdnVer', VersionKey)
           /\ SizeBounded'
           /\ EntriesDated'
<1>1. PICK keep1 \in SUBSET Retained(m1), keep2 \in SUBSET Retained(m2) :
        /\ byFqdn' = Keep(m1, keep1)
        /\ byFqdnVer' = Keep(m2, keep2)
        /\ Cardinality(keep1) + Cardinality(keep2) <= MaxEntries
  BY CleanupKeeps
<1>2. keep1 \subseteq DOMAIN m1 /\ keep2 \subseteq DOMAIN m2
  BY DEF Retained
<1>3. IsMap(byFqdn', Fqdn) /\ IsMap(byFqdnVer', VersionKey)
  BY <1>1, <1>2, KeepIsMap
<1>4. DOMAIN byFqdn' = keep1 /\ DOMAIN byFqdnVer' = keep2
  BY <1>1 DEF Keep
<1>5. SizeBounded'
  BY <1>1, <1>4 DEF SizeBounded, Size
<1>6. EntriesDated'
  BY <1>1, <1>2, <1>4 DEF EntriesDated, AllDated, Dated, Keep
<1>. QED  BY <1>3, <1>5, <1>6

LEMMA InsertInv ==
    ASSUME IInv, NEW f \in Fqdn, NEW r \in TLResponse,
           InsertLocked(f, r), now' = now
    PROVE  /\ IsMap(byFqdn', Fqdn) /\ IsMap(byFqdnVer', VersionKey)
           /\ SizeBounded' /\ EntriesDated'
<1>. DEFINE m == Put(byFqdn, f, NewEntry(r))
<1>1. IsMap(m, Fqdn) /\ IsMap(byFqdnVer, VersionKey)
  BY PutIsMap, NewEntryType DEF IInv, TypeOK
<1>2. AllDated(m) /\ AllDated(byFqdnVer)
  BY PutIsDated DEF IInv, EntriesDated, AllDated
<1>3. CleanupLocked(m, byFqdnVer)
  BY DEF InsertLocked
<1>. HIDE DEF m
<1>. QED  BY <1>1, <1>2, <1>3, CleanupInv

LEMMA InsertForVersionInv ==
    ASSUME IInv, NEW f \in Fqdn, NEW v \in Version, NEW r \in TLResponse,
           InsertForVersionLocked(f, v, r), now' = now
    PROVE  /\ IsMap(byFqdn', Fqdn) /\ IsMap(byFqdnVer', VersionKey)
           /\ SizeBounded' /\ EntriesDated'
<1>. DEFINE m == Put(byFqdnVer, <<f, v>>, NewEntry(r))
<1>1. IsMap(byFqdn, Fqdn) /\ IsMap(m, VersionKey)
  BY PutIsMap, NewEntryType DEF IInv, TypeOK, VersionKey
<1>2. AllDated(byFqdn) /\ AllDated(m)
  BY PutIsDated DEF IInv, EntriesDated, AllDated
<1>3. CleanupLocked(byFqdn, m)
  BY DEF InsertForVersionLocked
<1>. HIDE DEF m
<1>. QED  BY <1>1, <1>2, <1>3, CleanupInv

LEMMA EmptyMapFacts ==
    /\ \A K : IsMap(EmptyMap, K)
    /\ DOMAIN EmptyMap = {}
    /\ Size(EmptyMap, EmptyMap) = 0
<1>1. DOMAIN EmptyMap = {}
  BY DEF EmptyMap
<1>2. \A K : IsMap(EmptyMap, K)
  BY <1>1 DEF EmptyMap, IsMap
<1>3. Size(EmptyMap, EmptyMap) = 0
  BY <1>1, FS_EmptySet DEF Size
<1>. QED  BY <1>1, <1>2, <1>3

LEMMA InitInv == Init => IInv
<1>. SUFFICES ASSUME Init PROVE IInv  OBVIOUS
<1>1. TypeOK
  BY EmptyMapFacts DEF Init, TypeOK, RefresherState
<1>2. SizeBounded
  BY EmptyMapFacts, CacheConfig DEF Init, SizeBounded
<1>3. EntriesDated
  BY EmptyMapFacts DEF Init, EntriesDated
<1>. QED  BY <1>1, <1>2, <1>3 DEF IInv

\* Every step preserves the invariant: only the insertions and Clear touch the
\* maps, and only Tick moves the clock.
LEMMA NextInv == IInv /\ [Next]_vars => IInv'
<1>. SUFFICES ASSUME IInv, [Next]_vars PROVE IInv'  OBVIOUS
<1>. USE DEF IInv
<1>1. CASE Tick
  <2>1. TypeOK'
    BY <1>1 DEF Tick, TypeOK
  <2>2. SizeBounded'
    BY <1>1 DEF Tick, SizeBounded
  <2>3. EntriesDated'
    <3>1. now' = now + 1 /\ now \in Nat /\ UNCHANGED <<byFqdn, byFqdnVer>>
      BY <1>1 DEF Tick, TypeOK
    <3>2. ASSUME NEW e \in Entry, Dated(e) PROVE Dated(e)'
      BY <3>1, <3>2 DEF Dated, Entry
    <3>. QED  BY <3>1, <3>2 DEF EntriesDated, TypeOK, IsMap
  <2>. QED  BY <2>1, <2>2, <2>3
<1>2. ASSUME NEW f \in Fqdn, NEW r \in TLResponse, Insert(f, r) PROVE IInv'
  <2>1. InsertLocked(f, r) /\ now' = now /\ refresher' = refresher
    BY <1>2 DEF Insert
  <2>. QED  BY <2>1, InsertInv DEF TypeOK
<1>3. ASSUME NEW f \in Fqdn, NEW v \in Version, NEW r \in TLResponse,
             InsertForVersion(f, v, r)
      PROVE  IInv'
  <2>1. InsertForVersionLocked(f, v, r) /\ now' = now /\ refresher' = refresher
    BY <1>3 DEF InsertForVersion
  <2>. QED  BY <2>1, InsertForVersionInv DEF TypeOK
<1>4. CASE Clear
  <2>1. byFqdn' = EmptyMap /\ byFqdnVer' = EmptyMap /\ now' = now /\ refresher' = refresher
    BY <1>4 DEF Clear
  <2>2. TypeOK'
    BY <2>1, EmptyMapFacts DEF TypeOK
  <2>3. SizeBounded'
    BY <2>1, EmptyMapFacts, CacheConfig DEF SizeBounded
  <2>4. EntriesDated'
    BY <2>1, EmptyMapFacts DEF EntriesDated
  <2>. QED  BY <2>2, <2>3, <2>4
<1>5. CASE RefreshInsert
  <2>1. PICK g \in refresher.got : InsertLocked(g.key, g.resp)
    BY <1>5 DEF RefreshInsert
  <2>2. g.key \in Fqdn /\ g.resp \in TLResponse
    BY DEF TypeOK, RefresherState
  <2>3. now' = now /\ refresher' \in RefresherState
    BY <1>5 DEF RefreshInsert, TypeOK, RefresherState
  <2>. QED  BY <2>1, <2>2, <2>3, InsertInv DEF TypeOK
<1>6. ASSUME UNCHANGED <<now, byFqdn, byFqdnVer>>, refresher' \in RefresherState
      PROVE  IInv'
  BY <1>6 DEF TypeOK, SizeBounded, EntriesDated, Dated
<1>7. CASE StartBackgroundRefresh \/ CollectExpiring \/ RefreshRoundDone \/ StopBackgroundRefresh
  <2>1. \A k \in DOMAIN byFqdn : k \in Fqdn
    BY DEF TypeOK, IsMap
  <2>2. UNCHANGED <<now, byFqdn, byFqdnVer>> /\ refresher' \in RefresherState
    BY <1>7, <2>1 DEF StartBackgroundRefresh, CollectExpiring, RefreshRoundDone,
                      StopBackgroundRefresh, RefresherState
  <2>. QED  BY <2>2, <1>6
<1>8. ASSUME NEW k \in Fqdn, NEW r \in TLResponse, RefreshFetched(k, r) PROVE IInv'
  <2>1. [key |-> k, resp |-> r] \in [key: Fqdn, resp: TLResponse]
    OBVIOUS
  <2>2. UNCHANGED <<now, byFqdn, byFqdnVer>> /\ refresher' \in RefresherState
    BY <1>8, <2>1 DEF RefreshFetched, TypeOK, RefresherState
  <2>. QED  BY <2>2, <1>6
<1>9. ASSUME NEW k \in Fqdn, RefreshFailed(k) PROVE IInv'
  <2>1. UNCHANGED <<now, byFqdn, byFqdnVer>> /\ refresher' \in RefresherState
    BY <1>9 DEF RefreshFailed, TypeOK, RefresherState
  <2>. QED  BY <2>1, <1>6
<1>10. CASE UNCHANGED vars
  BY <1>10, <1>6 DEF vars, TypeOK
<1>. QED
  BY <1>1, <1>2, <1>3, <1>4, <1>5, <1>7, <1>8, <1>9, <1>10 DEF Next

\* The cache is well typed, never holds more than MaxEntries entries, and dates
\* every entry one TTL ahead of its insertion.
THEOREM InvariantHolds == Spec => []IInv
BY InitInv, NextInv, PTL DEF Spec

\* The type invariant of verify/cache.go's state.
THEOREM TypeCorrect == Spec => []TypeOK
BY InvariantHolds, PTL DEF IInv

\* The two maps together never exceed CacheConfig.MaxEntries.
THEOREM SizeIsBounded == Spec => []SizeBounded
BY InvariantHolds, PTL DEF IInv

\* Every entry expires exactly one DefaultTTL after it was inserted.
THEOREM EntriesAreDated == Spec => []EntriesDated
BY InvariantHolds, PTL DEF IInv

-----------------------------------------------------------------------------
(* The action properties.                                                   *)

\* m1 has every key of m, with an expiry no earlier.
Renews(m, m1) ==
    \A k \in DOMAIN m : k \in DOMAIN m1 /\ m1[k].expiresAt >= m[k].expiresAt

\* A retained entry of the old maps that is gone.
RetainedLost ==
    \/ \E k \in Fqdn : Lost(byFqdn, k) /\ ~BeyondRetention(byFqdn[k])
    \/ \E k \in VersionKey : Lost(byFqdnVer, k) /\ ~BeyondRetention(byFqdnVer[k])

ExpiryGrows ==
    /\ \A k \in DOMAIN byFqdn \cap DOMAIN byFqdn' :
          byFqdn'[k].expiresAt >= byFqdn[k].expiresAt
    /\ \A k \in DOMAIN byFqdnVer \cap DOMAIN byFqdnVer' :
          byFqdnVer'[k].expiresAt >= byFqdnVer[k].expiresAt

\* A new entry expires no earlier than the one it replaces, because that one was
\* dated in the past.
LEMMA PutRenews ==
    ASSUME TypeOK, NEW K, NEW m, IsMap(m, K), AllDated(m), NEW k, NEW r
    PROVE  Renews(m, Put(m, k, NewEntry(r)))
BY CacheConfig DEF TypeOK, IsMap, Entry, AllDated, Dated, Renews, Put, NewEntry

LEMMA RenewsSelf ==
    ASSUME NEW K, NEW m, IsMap(m, K)
    PROVE  Renews(m, m)
BY DEF IsMap, Entry, Renews

\* What cleanupLocked does to the old maps, when the maps it works on renew them.
LEMMA CleanupStep ==
    ASSUME IInv, NEW m1, NEW m2, IsMap(m1, Fqdn), IsMap(m2, VersionKey),
           Renews(byFqdn, m1), Renews(byFqdnVer, m2), CleanupLocked(m1, m2)
    PROVE  /\ RetainedLost => Size(byFqdn, byFqdnVer)' = MaxEntries
           /\ ExpiryGrows
<1>1. PICK keep1 \in SUBSET Retained(m1), keep2 \in SUBSET Retained(m2) :
        /\ byFqdn' = Keep(m1, keep1)
        /\ byFqdnVer' = Keep(m2, keep2)
        /\ \/ keep1 = Retained(m1) /\ keep2 = Retained(m2)
           \/ Cardinality(keep1) + Cardinality(keep2) = MaxEntries
  BY CleanupKeeps
<1>2. DOMAIN byFqdn' = keep1 /\ DOMAIN byFqdnVer' = keep2
  BY <1>1 DEF Keep
<1>3. RetainedLost => Size(byFqdn, byFqdnVer)' = MaxEntries
  <2>. SUFFICES ASSUME RetainedLost
                PROVE  keep1 # Retained(m1) \/ keep2 # Retained(m2)
    BY <1>1, <1>2 DEF Size
  <2>. now \in Nat /\ StaleRetention \in Nat
    BY CacheConfig DEF IInv, TypeOK
  <2>1. CASE \E k \in Fqdn : Lost(byFqdn, k) /\ ~BeyondRetention(byFqdn[k])
    <3>1. PICK k \in Fqdn : Lost(byFqdn, k) /\ ~BeyondRetention(byFqdn[k])
      BY <2>1
    <3>2. k \in DOMAIN byFqdn /\ k \notin keep1
      BY <3>1, <1>2 DEF Lost
    <3>3. k \in DOMAIN m1 /\ m1[k].expiresAt >= byFqdn[k].expiresAt
      BY <3>2 DEF Renews
    <3>4. m1[k].expiresAt \in Nat /\ byFqdn[k].expiresAt \in Nat
      BY <3>2, <3>3 DEF IInv, TypeOK, IsMap, Entry
    <3>5. k \in Retained(m1)
      BY <3>1, <3>3, <3>4 DEF Retained, BeyondRetention
    <3>. QED  BY <3>2, <3>5
  <2>2. CASE \E k \in VersionKey : Lost(byFqdnVer, k) /\ ~BeyondRetention(byFqdnVer[k])
    <3>1. PICK k \in VersionKey : Lost(byFqdnVer, k) /\ ~BeyondRetention(byFqdnVer[k])
      BY <2>2
    <3>2. k \in DOMAIN byFqdnVer /\ k \notin keep2
      BY <3>1, <1>2 DEF Lost
    <3>3. k \in DOMAIN m2 /\ m2[k].expiresAt >= byFqdnVer[k].expiresAt
      BY <3>2 DEF Renews
    <3>4. m2[k].expiresAt \in Nat /\ byFqdnVer[k].expiresAt \in Nat
      BY <3>2, <3>3 DEF IInv, TypeOK, IsMap, Entry
    <3>5. k \in Retained(m2)
      BY <3>1, <3>3, <3>4 DEF Retained, BeyondRetention
    <3>. QED  BY <3>2, <3>5
  <2>. QED  BY <2>1, <2>2 DEF RetainedLost
<1>4. ExpiryGrows
  BY <1>1, <1>2 DEF ExpiryGrows, Renews, Keep
<1>. QED  BY <1>3, <1>4

\* A step of the cache loses a retained entry only in Clear or at the limit, and
\* never shortens the life of an entry it keeps.
LEMMA StepProperties ==
    ASSUME IInv, [Next]_vars
    PROVE  /\ RetainedLost => Clear \/ Size(byFqdn, byFqdnVer)' = MaxEntries
           /\ ExpiryGrows
<1>. USE DEF IInv
<1>. /\ IsMap(byFqdn, Fqdn) /\ IsMap(byFqdnVer, VersionKey)
     /\ AllDated(byFqdn) /\ AllDated(byFqdnVer)
  BY DEF TypeOK, EntriesDated, AllDated
<1>1. ASSUME NEW f \in Fqdn, NEW r \in TLResponse, InsertLocked(f, r)
      PROVE  /\ RetainedLost => Size(byFqdn, byFqdnVer)' = MaxEntries
             /\ ExpiryGrows
  <2>. DEFINE m == Put(byFqdn, f, NewEntry(r))
  <2>1. IsMap(m, Fqdn)
    BY PutIsMap, NewEntryType
  <2>2. Renews(byFqdn, m) /\ Renews(byFqdnVer, byFqdnVer)
    BY PutRenews, RenewsSelf
  <2>3. CleanupLocked(m, byFqdnVer)
    BY <1>1 DEF InsertLocked
  <2>. HIDE DEF m
  <2>. QED  BY <2>1, <2>2, <2>3, CleanupStep
<1>2. ASSUME NEW f \in Fqdn, NEW v \in Version, NEW r \in TLResponse,
             InsertForVersionLocked(f, v, r)
      PROVE  /\ RetainedLost => Size(byFqdn, byFqdnVer)' = MaxEntries
             /\ ExpiryGrows
  <2>. DEFINE m == Put(byFqdnVer, <<f, v>>, NewEntry(r))
  <2>1. IsMap(m, VersionKey)
    BY PutIsMap, NewEntryType DEF VersionKey
  <2>2. Renews(byFqdnVer, m) /\ Renews(byFqdn, byFqdn)
    BY PutRenews, RenewsSelf
  <2>3. CleanupLocked(byFqdn, m)
    BY <1>2 DEF InsertForVersionLocked
  <2>. HIDE DEF m
  <2>. QED  BY <2>1, <2>2, <2>3, CleanupStep
<1>3. CASE Clear
  BY <1>3 DEF Clear, EmptyMap, ExpiryGrows
<1>4. ASSUME UNCHANGED <<byFqdn, byFqdnVer>>
      PROVE  ~RetainedLost /\ ExpiryGrows
  <2>1. ~RetainedLost
    BY <1>4 DEF RetainedLost, Lost
  <2>2. ExpiryGrows
    BY <1>4, RenewsSelf DEF ExpiryGrows, Renews
  <2>. QED  BY <2>1, <2>2
<1>5. CASE RefreshInsert
  <2>1. PICK g \in refresher.got : InsertLocked(g.key, g.resp)
    BY <1>5 DEF RefreshInsert
  <2>2. g.key \in Fqdn /\ g.resp \in TLResponse
    BY DEF TypeOK, RefresherState
  <2>. QED  BY <2>1, <2>2, <1>1
<1>6. \/ UNCHANGED <<byFqdn, byFqdnVer>>
      \/ Clear
      \/ RefreshInsert
      \/ \E f \in Fqdn, r \in TLResponse : InsertLocked(f, r)
      \/ \E f \in Fqdn, v \in Version, r \in TLResponse : InsertForVersionLocked(f, v, r)
  BY DEF Next, vars, Tick, Insert, InsertForVersion, StartBackgroundRefresh,
         CollectExpiring, RefreshFetched, RefreshFailed, RefreshRoundDone,
         StopBackgroundRefresh
<1>. QED  BY <1>1, <1>2, <1>3, <1>4, <1>5, <1>6

\* Entries within retention are lost only to Clear or to a full cache.
THEOREM LossesAreForced == Spec => LossOnlyWhenFull
<1>1. IInv /\ [Next]_vars => [RetainedLost => Clear \/ Size(byFqdn, byFqdnVer)' = MaxEntries]_vars
  BY StepProperties
<1>. QED  BY <1>1, InvariantHolds, PTL DEF Spec, LossOnlyWhenFull, RetainedLost

\* A late refresh never shortens an entry's life.
THEOREM ExpiryIsMonotone == Spec => ExpiryNeverRecedes
<1>1. IInv /\ [Next]_vars => [ExpiryGrows]_vars
  BY StepProperties
<1>. QED  BY <1>1, InvariantHolds, PTL DEF Spec, ExpiryNeverRecedes, ExpiryGrows

-----------------------------------------------------------------------------
(* The composed system: its state.                                          *)

\* Only client calls name a version, and they always do.
CallsAreShaped ==
    \A c \in Caller :
        pc[c] \in {"dns", "tlog", "insert", "dane"} /\ call[c].kind = "client"
            => call[c].version \in Version

\* What the composed system knows of its own state.
SysShape == IInv /\ SysTypeOK /\ CallsAreShaped

LEMMA SnapshotType ==
    ASSUME SysTypeOK, NEW a \in Agent
    PROVE  Snapshot(a) \in TLResponse
<1>1. now \in 0..MaxTime
  BY CacheConfig DEF SysTypeOK, TypeOK
<1>2. log[a] \in LogRecord
  BY DEF SysTypeOK
<1>. QED
  BY <1>1, <1>2, VerifierConstants DEF Snapshot, Response, LogRecord

\* Whoever answers a request answers now, with a well-formed record.
LEMMA AnswerType ==
    ASSUME SysTypeOK, NEW url \in URL, NEW r \in AnswersTo(url)
    PROVE  r \in TLResponse /\ r.asOf = now
<1>1. url.agent \in Agent /\ url.host \in Host
  BY DEF URL
<1>2. PICK host \in Host : r \in AnswersOf(host, url.agent)
  BY <1>1 DEF AnswersTo, Reached
<1>3. CASE host = TLHost
  <2>1. r = Snapshot(url.agent)
    BY <1>2, <1>3 DEF AnswersOf
  <2>. QED  BY <1>1, <2>1, SnapshotType DEF Snapshot
<1>4. CASE host # TLHost
  <2>1. PICK e \in Elsewhere :
          r = [agent |-> e.agent, status |-> e.status, cur |-> e.cur, prev |-> e.prev,
               asOf |-> now, from |-> host]
    BY <1>2, <1>4 DEF AnswersOf
  <2>2. now \in 0..MaxTime
    BY CacheConfig DEF SysTypeOK, TypeOK
  <2>. QED  BY <2>1, <2>2, VerifierConstants DEF Response
<1>. QED  BY <1>3, <1>4

\* Rewriting the host of a badge URL gives a badge URL.
LEMMA RewriteType ==
    ASSUME SysTypeOK, NEW url \in URL
    PROVE  rewriteTLHost(url) \in URL
<1>1. config.trustedTLHost \in Host \cup {None}
  BY VerifierConstants DEF SysTypeOK, ConfigType
<1>. QED  BY <1>1 DEF rewriteTLHost, URL

LEMMA VerdictType ==
    ASSUME NEW k \in Call, NEW r
    PROVE  Verdict(k, r) \in OutcomeType
<1>1. ServerVerdict(r, k.cert, k.fqdn) \in OutcomeType
  BY DEF ServerVerdict, OutcomeType
<1>2. ClientVerdict(r, k.cert) \in OutcomeType
  BY DEF ClientVerdict, OutcomeType
<1>. QED
  BY <1>1, <1>2 DEF Verdict, Call, OutcomeType

-----------------------------------------------------------------------------
(* The composed system implements the cache's specification.               *)

LEMMA SysStepIsCacheStep ==
    ASSUME SysShape, [SysNext]_sysVars
    PROVE  [Next]_vars
<1>. USE DEF SysShape
<1>1. CASE SysTick
  BY <1>1 DEF SysTick, Next
<1>2. CASE CacheStep
  <2>1. ASSUME NEW k \in Fqdn, NEW a \in Agent,
               NEW r \in AnswersTo([host |-> TLHost, agent |-> a]), RefreshFetched(k, r)
        PROVE  Next
    <3>1. r \in TLResponse
      BY AnswerType, VerifierConstants DEF URL
    <3>. QED  BY <2>1, <3>1 DEF Next
  <2>. QED  BY <1>2, <2>1 DEF CacheStep, Next
<1>3. CASE LogStep
  BY <1>3 DEF LogStep, Renew, SetStatus, vars
<1>4. ASSUME NEW c \in Caller, InsertAndVerify(c)
      PROVE  [Next]_vars
  <2>. DEFINE k == call[c]
              r == answer[c]
  <2>1. k \in Call /\ r \in TLResponse
    BY <1>4 DEF InsertAndVerify, SysTypeOK
  <2>2. k.fqdn \in Fqdn /\ (k.kind = "client" => k.version \in Version)
    BY <1>4, <2>1 DEF Call, CallsAreShaped, InsertAndVerify
  <2>3. now' = now /\ refresher' = refresher
    BY <1>4 DEF InsertAndVerify
  <2>4. \/ UNCHANGED cacheVars
        \/ k.kind = "client" /\ InsertForVersionLocked(k.fqdn, k.version, r)
        \/ InsertLocked(k.fqdn, r)
    BY <1>4 DEF InsertAndVerify
  <2>5. CASE UNCHANGED cacheVars
    BY <2>3, <2>5 DEF cacheVars, vars
  <2>6. CASE k.kind = "client" /\ InsertForVersionLocked(k.fqdn, k.version, r)
    BY <2>1, <2>2, <2>3, <2>6 DEF Next, InsertForVersion
  <2>7. CASE InsertLocked(k.fqdn, r)
    BY <2>1, <2>2, <2>3, <2>7 DEF Next, Insert
  <2>. QED  BY <2>4, <2>5, <2>6, <2>7
<1>5. ASSUME NEW c \in Caller, StartCall(c) \/ CallStep(c) \/ Return(c)
      PROVE  [Next]_vars
  <2>1. Unshared \/ InsertAndVerify(c)
    BY <1>5 DEF StartCall, CallStep, VerifyServer, VerifyClient,
                VerifyClientCertError, Prefetch, BadgeFound, BadgeNotFound,
                BadgeLookupFails, FetchTLResponse, FetchFails, ApplyDANE, Return
  <2>. QED  BY <2>1, <1>4 DEF Unshared, vars
<1>6. CASE UNCHANGED sysVars
  BY <1>6 DEF sysVars, vars
<1>. QED  BY <1>1, <1>2, <1>3, <1>5, <1>6 DEF SysNext

-----------------------------------------------------------------------------
(* The shape of the composed state is invariant.                            *)

\* The part of SysTypeOK that is about the goroutine c.
CallTypeOK(c) ==
    /\ pc[c] \in {"idle", "dns", "tlog", "insert", "dane", "done"}
    /\ call[c] \in Call \cup {None}
    /\ answer[c] \in TLResponse \cup URL \cup {None}
    /\ outcome[c] \in Outcome \cup {None}
    /\ pc[c] \in {"dns", "tlog", "insert", "dane"} => call[c] \in Call
    /\ pc[c] = "tlog" => answer[c] \in URL
    /\ pc[c] = "insert" => answer[c] \in TLResponse
    /\ pc[c] \in {"dane", "done"} => outcome[c] \in Outcome
    /\ pc[c] \in {"dns", "tlog", "insert", "dane"} /\ call[c].kind = "client"
          => call[c].version \in Version

\* The call variables are functions on Caller.
CallFunctions ==
    /\ pc = [c \in Caller |-> pc[c]]
    /\ call = [c \in Caller |-> call[c]]
    /\ answer = [c \in Caller |-> answer[c]]
    /\ outcome = [c \in Caller |-> outcome[c]]

LEMMA CallTypesSplit ==
    SysTypeOK /\ CallsAreShaped <=>
        /\ TypeOK /\ now <= MaxTime /\ config \in Config /\ log \in [Agent -> LogRecord]
        /\ CallFunctions /\ \A c \in Caller : CallTypeOK(c)
BY DEF SysTypeOK, CallsAreShaped, CallFunctions, CallTypeOK

\* Step c changes at most the entries of c.
OnlyCaller(c) ==
    /\ CallFunctions'
    /\ \A d \in Caller \ {c} : /\ pc'[d] = pc[d] /\ call'[d] = call[d]
                               /\ answer'[d] = answer[d] /\ outcome'[d] = outcome[d]

\* Both Finish and Judge store a well-formed outcome.
LEMMA ResultType ==
    ASSUME SysTypeOK, NEW type \in OutcomeType, NEW r \in TLResponse \cup {None}
    PROVE  Result(type, r) \in Outcome
BY DEF SysTypeOK, TypeOK, Result, Outcome

LEMMA FinishType ==
    ASSUME SysShape, NEW c \in Caller, NEW type \in OutcomeType,
           NEW r \in TLResponse \cup {None}, Finish(c, type, r), UNCHANGED call
    PROVE  OnlyCaller(c) /\ CallTypeOK(c)'
<1>1. CallFunctions /\ CallTypeOK(c)
  BY CallTypesSplit DEF SysShape
<1>2. OnlyCaller(c)
  BY <1>1 DEF Finish, OnlyCaller, CallFunctions
<1>3. pc'[c] = "done" /\ outcome'[c] \in Outcome /\ answer'[c] = None /\ call'[c] = call[c]
  BY <1>1, ResultType DEF SysShape, Finish, CallFunctions
<1>. QED  BY <1>1, <1>2, <1>3 DEF CallTypeOK

LEMMA JudgeType ==
    ASSUME SysShape, NEW c \in Caller, NEW type \in OutcomeType,
           NEW r \in TLResponse, Judge(c, type, r),
           CallFunctions', \A d \in Caller \ {c} : call'[d] = call[d],
           call'[c] \in Call,
           call'[c].kind = "client" => call'[c].version \in Version
    PROVE  OnlyCaller(c) /\ CallTypeOK(c)'
<1>1. CallFunctions /\ CallTypeOK(c)
  BY CallTypesSplit DEF SysShape
<1>2. OnlyCaller(c)
  BY <1>1 DEF Judge, OnlyCaller, CallFunctions
<1>3. /\ pc'[c] \in {"dane", "done"} /\ outcome'[c] \in Outcome /\ answer'[c] = None
  BY <1>1, ResultType DEF SysShape, Judge, CallFunctions
<1>. QED  BY <1>2, <1>3 DEF CallTypeOK

\* A cached response that a call looks at is a response.
LEMMA CachedType ==
    ASSUME SysShape, NEW k \in Call, Has(CacheMap(k), CacheKey(k))
    PROVE  /\ CacheMap(k)[CacheKey(k)] \in Entry
           /\ CacheMap(k)[CacheKey(k)].resp \in TLResponse
BY DEF SysShape, IInv, TypeOK, IsMap, CacheMap, CacheKey, Has, Entry

LEMMA PolicyType ==
    ASSUME SysShape, NEW c \in Caller, pc[c] \in {"dns", "tlog"},
           NEW errorType \in {"DNSError", "TlogError"},
           ApplyFailurePolicy(c, errorType)
    PROVE  \E type \in {errorType, "FailOpen"}, r \in TLResponse \cup {None} :
              /\ Finish(c, type, r)
              /\ r # None => /\ type = "FailOpen"
                             /\ GetStale(CacheMap(call[c]), CacheKey(call[c]), MaxStaleness)
                             /\ r = CacheMap(call[c])[CacheKey(call[c])].resp
<1>1. call[c] \in Call
  BY DEF SysShape, SysTypeOK
<1>. DEFINE k == call[c]
            e == CacheMap(k)[CacheKey(k)]
            usable == /\ config.policy = "FailOpenWithCache"
                      /\ config.cache
                      /\ GetStale(CacheMap(k), CacheKey(k), MaxStaleness)
<1>2. CASE config.policy = "FailOpen"
  <2>1. Finish(c, "FailOpen", None)
    BY <1>2 DEF ApplyFailurePolicy
  <2>. QED  BY <2>1
<1>3. CASE config.policy # "FailOpen" /\ usable
  <2>1. Finish(c, "FailOpen", e.resp)
    BY <1>3 DEF ApplyFailurePolicy
  <2>2. e.resp \in TLResponse
    BY <1>1, <1>3, CachedType DEF GetStale
  <2>. QED  BY <2>1, <2>2, <1>3
<1>4. CASE config.policy # "FailOpen" /\ ~usable
  <2>1. Finish(c, errorType, None)
    BY <1>4 DEF ApplyFailurePolicy
  <2>. QED  BY <2>1
<1>. QED  BY <1>2, <1>3, <1>4

LEMMA CheckCacheType ==
    ASSUME SysShape, NEW c \in Caller, pc[c] = "idle", NEW k \in Call,
           k.kind = "client" => k.version \in Version, CheckCache(c, k)
    PROVE  OnlyCaller(c) /\ CallTypeOK(c)'
<1>1. CallFunctions /\ CallTypeOK(c)
  BY CallTypesSplit DEF SysShape
<1>2. call' = [call EXCEPT ![c] = k]
  BY DEF CheckCache
<1>3. /\ call' = [d \in Caller |-> call'[d]]
      /\ \A d \in Caller \ {c} : call'[d] = call[d]
      /\ call'[c] = k
  BY <1>1, <1>2 DEF CallFunctions
<1>4. CASE HitDecides(k)
  <2>. DEFINE r == CacheMap(k)[CacheKey(k)].resp
  <2>1. r \in TLResponse
    BY <1>4, CachedType DEF HitDecides, GetFresh
  <2>2. Judge(c, Verdict(k, r), r)
    BY <1>4 DEF CheckCache
  <2>3. CallFunctions'
    BY <1>1, <1>3, <2>2 DEF Judge, CallFunctions
  <2>4. Verdict(k, r) \in OutcomeType
    BY VerdictType
  <2>. HIDE DEF r
  <2>. QED  BY <1>3, <2>1, <2>2, <2>3, <2>4, JudgeType
<1>5. CASE ~HitDecides(k)
  <2>1. pc' = [pc EXCEPT ![c] = "dns"] /\ UNCHANGED <<answer, outcome>>
    BY <1>5 DEF CheckCache
  <2>2. OnlyCaller(c)
    BY <1>1, <1>3, <2>1 DEF OnlyCaller, CallFunctions
  <2>. QED  BY <1>1, <1>3, <2>1, <2>2 DEF CallTypeOK, CallFunctions
<1>. QED  BY <1>4, <1>5

\* Every step of a goroutine keeps its own state well formed and leaves the
\* state of the others alone.
LEMMA CallStepType ==
    ASSUME SysShape, NEW c \in Caller, StartCall(c) \/ CallStep(c) \/ Return(c)
    PROVE  OnlyCaller(c) /\ CallTypeOK(c)'
<1>1. CallFunctions /\ CallTypeOK(c) /\ now \in Nat
  BY CallTypesSplit DEF SysShape, TypeOK
<1>2. ASSUME NEW f \in Fqdn, NEW cert \in Cert, VerifyServer(c, f, cert)
      PROVE  OnlyCaller(c) /\ CallTypeOK(c)'
  <2>1. NewCall("server", f, None, cert) \in Call
    BY <1>1, VerifierConstants DEF NewCall, Call
  <2>2. NewCall("server", f, None, cert).kind # "client"
    BY DEF NewCall
  <2>. QED  BY <1>2, <2>1, <2>2, CheckCacheType DEF VerifyServer
<1>3. ASSUME NEW cert \in Cert, VerifyClient(c, cert)
      PROVE  OnlyCaller(c) /\ CallTypeOK(c)'
  <2>. DEFINE k == NewCall("client", cert.names[1].host, cert.names[1].version, cert)
  <2>1. cert \in Certificate /\ cert.names \in Seq(Name) /\ cert.names # <<>>
    BY <1>3, VerifierConstants DEF VerifyClient, Certificate
  <2>2. cert.names[1] \in Name
    BY <2>1
  <2>3. k \in Call /\ k.version \in Version
    BY <1>1, <2>1, <2>2 DEF NewCall, Call, Name
  <2>4. pc[c] = "idle" /\ CheckCache(c, k)
    BY <1>3 DEF VerifyClient
  <2>. HIDE DEF k
  <2>. QED  BY <2>3, <2>4, CheckCacheType
<1>4. ASSUME NEW cert \in Cert, VerifyClientCertError(c, cert)
      PROVE  OnlyCaller(c) /\ CallTypeOK(c)'
  BY <1>4, FinishType DEF VerifyClientCertError, OutcomeType
<1>5. ASSUME NEW f \in Fqdn, Prefetch(c, f)
      PROVE  OnlyCaller(c) /\ CallTypeOK(c)'
  <2>1. NewCall("prefetch", f, None, None) \in Call
    BY <1>1 DEF NewCall, Call
  <2>2. NewCall("prefetch", f, None, None).kind # "client"
    BY DEF NewCall
  <2>. QED  BY <1>5, <2>1, <2>2, CheckCacheType DEF Prefetch
<1>6. ASSUME NEW url \in URL, BadgeFound(c, url)
      PROVE  OnlyCaller(c) /\ CallTypeOK(c)'
  <2>1. rewriteTLHost(url) \in URL
    BY RewriteType DEF SysShape
  <2>. QED
    BY <1>1, <1>6, <2>1 DEF BadgeFound, OnlyCaller, CallFunctions, CallTypeOK
<1>7. CASE BadgeNotFound(c)
  BY <1>7, FinishType DEF BadgeNotFound, OutcomeType
<1>8. CASE BadgeLookupFails(c) \/ FetchFails(c)
  <2>1. PICK type \in {"DNSError", "TlogError", "FailOpen"}, r \in TLResponse \cup {None} :
          Finish(c, type, r)
    BY <1>8, PolicyType DEF BadgeLookupFails, FetchFails
  <2>2. UNCHANGED call
    BY <1>8 DEF BadgeLookupFails, FetchFails
  <2>. QED  BY <2>1, <2>2, FinishType DEF OutcomeType
<1>9. CASE FetchTLResponse(c)
  <2>1. PICK r \in AnswersTo(answer[c]) : answer' = [answer EXCEPT ![c] = r]
    BY <1>9 DEF FetchTLResponse
  <2>2. r \in TLResponse
    BY <1>1, <1>9, AnswerType DEF FetchTLResponse, CallTypeOK, SysShape
  <2>. QED
    BY <1>1, <1>9, <2>1, <2>2 DEF FetchTLResponse, OnlyCaller, CallFunctions, CallTypeOK
<1>10. CASE InsertAndVerify(c)
  <2>. DEFINE k == call[c]
              r == answer[c]
  <2>1. k \in Call /\ r \in TLResponse /\ (k.kind = "client" => k.version \in Version)
    BY <1>1, <1>10 DEF InsertAndVerify, CallTypeOK
  <2>2. Judge(c, Verdict(k, r), r) /\ UNCHANGED call
    BY <1>10 DEF InsertAndVerify
  <2>3. CallFunctions'
    BY <1>1, <2>2 DEF Judge, CallFunctions
  <2>4. Verdict(k, r) \in OutcomeType
    BY <2>1, VerdictType
  <2>. QED  BY <2>1, <2>2, <2>3, <2>4, JudgeType
<1>11. ASSUME NEW d \in DANEOutcomeType, ApplyDANE(c, d)
       PROVE  OnlyCaller(c) /\ CallTypeOK(c)'
  <2>1. outcome[c] \in Outcome
    BY <1>1, <1>11 DEF ApplyDANE, CallTypeOK
  <2>2. outcome'[c] \in Outcome
    BY <1>1, <1>11, <2>1 DEF ApplyDANE, CallFunctions, Outcome, OutcomeType
  <2>3. OnlyCaller(c)
    BY <1>1, <1>11 DEF ApplyDANE, OnlyCaller, CallFunctions
  <2>4. pc'[c] = "done" /\ call'[c] = call[c] /\ answer'[c] = answer[c]
    BY <1>1, <1>11 DEF ApplyDANE, CallFunctions
  <2>. QED  BY <1>1, <2>2, <2>3, <2>4 DEF CallTypeOK
<1>12. CASE Return(c)
  <2>1. OnlyCaller(c)
    BY <1>1, <1>12 DEF Return, OnlyCaller, CallFunctions
  <2>2. pc'[c] = "idle" /\ call'[c] = None /\ answer'[c] = answer[c] /\ outcome'[c] = None
    BY <1>1, <1>12 DEF Return, CallFunctions
  <2>. QED  BY <1>1, <2>1, <2>2 DEF CallTypeOK
<1>. QED
  BY <1>2, <1>3, <1>4, <1>5, <1>6, <1>7, <1>8, <1>9, <1>10, <1>11, <1>12
     DEF StartCall, CallStep

LEMMA SysInitShape == SysInit => SysShape
<1>. SUFFICES ASSUME SysInit PROVE SysShape  OBVIOUS
<1>1. IInv
  BY InitInv DEF SysInit
<1>2. log \in [Agent -> LogRecord]
  <2>1. NoPrevious \in Fingerprints
    BY DEF NoPrevious, Fingerprints
  <2>2. \A f \in InitialFp :
          [status |-> "ACTIVE", cur |-> f, prev |-> NoPrevious, endedAt |-> 0] \in LogRecord
    BY <2>1, VerifierConstants DEF LogRecord, Status
  <2>. QED  BY <2>2 DEF SysInit, LogInit
<1>3. now <= MaxTime
  BY CacheConfig DEF SysInit, Init
<1>4. CallFunctions /\ \A c \in Caller : CallTypeOK(c)
  BY DEF SysInit, CallFunctions, CallTypeOK
<1>. QED  BY <1>1, <1>2, <1>3, <1>4, CallTypesSplit DEF SysShape, IInv, SysInit

LEMMA SysNextShape == SysShape /\ [SysNext]_sysVars => SysShape'
<1>. SUFFICES ASSUME SysShape, [SysNext]_sysVars PROVE SysShape'  OBVIOUS
<1>1. IInv'
  BY SysStepIsCacheStep, NextInv DEF SysShape
<1>2. /\ now <= MaxTime /\ config \in Config /\ log \in [Agent -> LogRecord] /\ now \in Nat
      /\ CallFunctions /\ \A c \in Caller : CallTypeOK(c)
  BY CallTypesSplit DEF SysShape, TypeOK
<1>3. ASSUME /\ now' <= MaxTime /\ config' = config /\ log' \in [Agent -> LogRecord]
             /\ CallFunctions' /\ \A c \in Caller : CallTypeOK(c)'
      PROVE  SysShape'
  <2>1. (SysTypeOK /\ CallsAreShaped)' <=>
          (/\ TypeOK /\ now <= MaxTime /\ config \in Config /\ log \in [Agent -> LogRecord]
           /\ CallFunctions /\ \A c \in Caller : CallTypeOK(c))'
    BY CallTypesSplit, PTL
  <2>. QED  BY <1>1, <1>2, <1>3, <2>1 DEF SysShape, IInv
<1>4. ASSUME UNCHANGED callVars
      PROVE  CallFunctions' /\ \A c \in Caller : CallTypeOK(c)'
  BY <1>2, <1>4 DEF callVars, CallFunctions, CallTypeOK
<1>5. CASE SysTick
  <2>1. now' <= MaxTime /\ UNCHANGED <<config, log, callVars>>
    BY <1>5, <1>2, CacheConfig DEF SysTick, Tick
  <2>. QED  BY <2>1, <1>2, <1>3, <1>4
<1>6. CASE CacheStep
  <2>1. UNCHANGED <<now, config, log, callVars>>
    BY <1>6 DEF CacheStep, Clear, StartBackgroundRefresh, CollectExpiring,
                RefreshFetched, RefreshFailed, RefreshInsert, RefreshRoundDone,
                StopBackgroundRefresh
  <2>. QED  BY <2>1, <1>2, <1>3, <1>4
<1>7. CASE LogStep
  <2>1. UNCHANGED <<now, config, callVars>>
    BY <1>7 DEF LogStep, Renew, SetStatus
  <2>2. ASSUME NEW a \in Agent, NEW role \in RenewedRole, NEW p \in Fp, Renew(a, role, p)
        PROVE  log' \in [Agent -> LogRecord]
    <3>1. role \in Role
      BY VerifierConstants
    <3>2. log[a] \in LogRecord /\ log[a].cur \in Fingerprints /\ log[a].prev \in Fingerprints
      BY <1>2 DEF LogRecord
    <3>3. [log[a].cur EXCEPT ![role] = p] \in Fingerprints
      BY <3>1, <3>2 DEF Fingerprints
    <3>4. [log[a].prev EXCEPT ![role] = log[a].cur[role]] \in Fingerprints
      BY <3>1, <3>2 DEF Fingerprints
    <3>5. [log[a] EXCEPT !.cur[role] = p, !.prev[role] = log[a].cur[role]] \in LogRecord
      BY <3>2, <3>3, <3>4 DEF LogRecord
    <3>6. log' = [log EXCEPT ![a] = [log[a] EXCEPT !.cur[role] = p, !.prev[role] = log[a].cur[role]]]
      BY <1>2, <2>2 DEF Renew, LogRecord
    <3>. QED  BY <1>2, <3>5, <3>6
  <2>3. ASSUME NEW a \in Agent, NEW s \in NextStatus, SetStatus(a, s)
        PROVE  log' \in [Agent -> LogRecord]
    <3>1. s \in Status
      BY VerifierConstants
    <3>2. [log[a] EXCEPT !.status = s, !.endedAt = IF IsTerminal(s) THEN now ELSE 0] \in LogRecord
      BY <1>2, <3>1 DEF LogRecord
    <3>3. log' = [log EXCEPT ![a] = [log[a] EXCEPT !.status = s,
                                        !.endedAt = IF IsTerminal(s) THEN now ELSE 0]]
      BY <1>2, <2>3 DEF SetStatus, LogRecord
    <3>. QED  BY <1>2, <3>2, <3>3
  <2>. QED  BY <1>7, <2>1, <2>2, <2>3, <1>2, <1>3, <1>4 DEF LogStep
<1>8. ASSUME NEW c \in Caller, StartCall(c) \/ CallStep(c) \/ Return(c)
      PROVE  SysShape'
  <2>1. UNCHANGED <<now, config, log>>
    BY <1>8 DEF StartCall, CallStep, VerifyServer, VerifyClient,
                VerifyClientCertError, Prefetch, BadgeFound, BadgeNotFound,
                BadgeLookupFails, FetchTLResponse, FetchFails, ApplyDANE, Return,
                Unshared, InsertAndVerify
  <2>2. OnlyCaller(c) /\ CallTypeOK(c)'
    BY <1>8, CallStepType
  <2>3. \A d \in Caller : CallTypeOK(d)'
    BY <1>2, <2>2 DEF OnlyCaller, CallTypeOK
  <2>. QED  BY <2>1, <2>2, <2>3, <1>2, <1>3 DEF OnlyCaller
<1>9. CASE UNCHANGED sysVars
  BY <1>9, <1>2, <1>3, <1>4 DEF sysVars, callVars
<1>. QED  BY <1>5, <1>6, <1>7, <1>8, <1>9 DEF SysNext

LEMMA ShapeHolds == SysSpec => []SysShape
BY SysInitShape, SysNextShape, PTL DEF SysSpec

\* Every goroutine's state fits the place it has reached in its call.
THEOREM SysTypeCorrect == SysSpec => []SysTypeOK
BY ShapeHolds, PTL DEF SysShape

\* The verifiers and the background refresh use the cache only through its
\* operations: the composed system implements the specification of the cache, so
\* everything proved of the cache holds of it.
THEOREM VerifierUsesCache == SysSpec => Spec
<1>1. SysInit => Init
  BY DEF SysInit
<1>2. SysShape /\ [SysNext]_sysVars => [Next]_vars
  BY SysStepIsCacheStep
<1>. QED  BY <1>1, <1>2, ShapeHolds, PTL DEF SysSpec, Spec

-----------------------------------------------------------------------------
(* Every outcome rests on recent evidence.  The invariant follows a response *)
(* of the log from the snapshot through the call or the background refresh    *)
(* that carries it and the cache entry that keeps it to the outcome that      *)
(* reports it.                                                                *)

\* Response r was at most one request old at time t.
InTime(r, t) == r.asOf <= t /\ t - r.asOf <= FetchTimeout

\* At time t, response r is not from the future; if it is the log's and shows a
\* live record although the record has ended since, it is from before the end; and
\* an anchored verifier holds only responses of the log.
TrueAt(r, t, records, cf) ==
    /\ r.asOf <= t
    /\ Anchored(cf) => r.from = TLHost
    /\ r.from = TLHost /\ ~IsTerminal(r.status) /\ IsTerminal(records[r.agent].status)
          => r.asOf <= records[r.agent].endedAt

TrueTo(r) == TrueAt(r, now, log, config)

EntrySound(e) == InTime(e.resp, e.fetchedAt) /\ TrueTo(e.resp)

PendingSound(r) == InTime(r, now) /\ TrueTo(r)

OutcomeSound(o) ==
    /\ o.resp # None =>
          /\ TrueTo(o.resp)
          /\ EvidenceAge(o) <= DefaultTTL + FetchTimeout
                               + (IF o.type = "FailOpen" THEN MaxStaleness ELSE 0)
    /\ o.type = "Verified" => o.resp # None /\ ~IsTerminal(o.resp.status)

CallSound(c) ==
    /\ pc[c] = "tlog" /\ Anchored(config) => answer[c].host = TLHost
    /\ pc[c] = "insert" => PendingSound(answer[c])
    /\ pc[c] = "dane" => outcome[c].type = "Verified"
    /\ pc[c] = "dane" \/ outcome[c] # None => OutcomeSound(outcome[c])

EvidenceSound ==
    /\ \A k \in DOMAIN byFqdn : EntrySound(byFqdn[k])
    /\ \A k \in DOMAIN byFqdnVer : EntrySound(byFqdnVer[k])
    /\ \A g \in refresher.got : PendingSound(g.resp)
    /\ \A c \in Caller : CallSound(c)

SysInv == SysShape /\ EvidenceSound

\* What a record in the log is, for the arithmetic below.
LEMMA ResponseFacts ==
    ASSUME NEW r \in TLResponse
    PROVE  r.asOf \in Nat /\ r.agent \in Agent /\ r.status \in Status
BY VerifierConstants, CacheConfig DEF Response

\* An answer is sound when it is given.  An anchored verifier asks the log's host
\* and reaches no other.
LEMMA AnswerSound ==
    ASSUME SysShape, NEW url \in URL, NEW r \in AnswersTo(url),
           Anchored(config) => url.host = TLHost
    PROVE  r \in TLResponse /\ PendingSound(r)
<1>1. r \in TLResponse /\ r.asOf = now
  BY AnswerType DEF SysShape
<1>2. now \in Nat /\ FetchTimeout \in Nat
  BY VerifierConstants DEF SysShape, IInv, TypeOK
<1>3. PICK host \in Reached(url.host) : r \in AnswersOf(host, url.agent)
  BY DEF AnswersTo
<1>4. CASE host = TLHost
  <2>1. r = Snapshot(url.agent)
    BY <1>3, <1>4 DEF AnswersOf
  <2>2. r.from = TLHost /\ r.agent = url.agent /\ r.status = log[url.agent].status
    BY <2>1 DEF Snapshot
  <2>. QED  BY <1>1, <1>2, <2>2 DEF PendingSound, InTime, TrueTo, TrueAt
<1>5. CASE host # TLHost
  <2>1. ~Anchored(config)
    BY <1>3, <1>5 DEF Reached, Anchored
  <2>2. r.from = host
    BY <1>3, <1>5 DEF AnswersOf
  <2>. QED  BY <1>1, <1>2, <1>5, <2>1, <2>2 DEF PendingSound, InTime, TrueTo, TrueAt
<1>. QED  BY <1>4, <1>5

\* Only time and the end of a record bear on TrueTo, and neither falsifies it.
LEMMA TrueToPersists ==
    ASSUME SysShape, [SysNext]_sysVars, NEW r \in TLResponse, TrueTo(r)
    PROVE  TrueAt(r, now', log', config')
<1>1. now \in Nat /\ log \in [Agent -> LogRecord]
  BY DEF SysShape, IInv, TypeOK, SysTypeOK
<1>2. r.asOf \in Nat /\ r.agent \in Agent
  BY ResponseFacts
<1>3. CASE now' = now + 1 /\ UNCHANGED <<log, config>>
  BY <1>1, <1>2, <1>3 DEF TrueTo, TrueAt
<1>4. CASE UNCHANGED <<now, log, config>>
  BY <1>4 DEF TrueTo, TrueAt
<1>5. ASSUME NEW a \in Agent, NEW role \in RenewedRole, NEW p \in Fp, Renew(a, role, p)
      PROVE  TrueAt(r, now', log', config')
  <2>1. now' = now /\ config' = config
    BY <1>5 DEF Renew
  <2>2. log' = [log EXCEPT ![a].cur[role] = p, ![a].prev[role] = log[a].cur[role]]
    BY <1>5 DEF Renew
  <2>3. log'[r.agent].status = log[r.agent].status /\ log'[r.agent].endedAt = log[r.agent].endedAt
    BY <1>1, <1>2, <2>2 DEF LogRecord
  <2>. QED  BY <2>1, <2>3 DEF TrueTo, TrueAt
<1>6. ASSUME NEW a \in Agent, NEW s \in NextStatus, SetStatus(a, s)
      PROVE  TrueAt(r, now', log', config')
  <2>1. now' = now /\ config' = config
    BY <1>6 DEF SetStatus
  <2>2. log' = [log EXCEPT ![a].status = s, ![a].endedAt = IF IsTerminal(s) THEN now ELSE 0]
    BY <1>6 DEF SetStatus
  <2>3. CASE r.agent = a
    <3>1. /\ log'[r.agent].status = s
          /\ IsTerminal(s) => log'[r.agent].endedAt = now
      BY <1>1, <2>2, <2>3 DEF LogRecord
    <3>. QED  BY <2>1, <3>1 DEF TrueTo, TrueAt
  <2>4. CASE r.agent # a
    <3>1. log'[r.agent] = log[r.agent]
      BY <1>1, <1>2, <2>2, <2>4
    <3>. QED  BY <2>1, <3>1 DEF TrueTo, TrueAt
  <2>. QED  BY <2>3, <2>4
<1>7. CASE SysTick
  BY <1>3, <1>7 DEF SysTick, Tick
<1>8. CASE CacheStep
  BY <1>4, <1>8 DEF CacheStep, Clear, StartBackgroundRefresh, CollectExpiring,
                    RefreshFetched, RefreshFailed, RefreshInsert, RefreshRoundDone,
                    StopBackgroundRefresh
<1>9. CASE LogStep
  BY <1>5, <1>6, <1>9 DEF LogStep
<1>10. ASSUME NEW c \in Caller, StartCall(c) \/ CallStep(c) \/ Return(c)
       PROVE  TrueAt(r, now', log', config')
  <2>1. UNCHANGED <<now, log, config>>
    BY <1>10 DEF StartCall, CallStep, VerifyServer, VerifyClient,
                 VerifyClientCertError, Prefetch, BadgeFound, BadgeNotFound,
                 BadgeLookupFails, FetchTLResponse, FetchFails, ApplyDANE, Return,
                 Unshared, InsertAndVerify
  <2>. QED  BY <2>1, <1>4
<1>11. CASE UNCHANGED sysVars
  BY <1>4, <1>11 DEF sysVars
<1>. QED  BY <1>7, <1>8, <1>9, <1>10, <1>11 DEF SysNext

\* A step of the cache leaves in the maps only entries that were there and new
\* entries of responses that were on their way.
FromSound(m, n) ==
    \A k \in DOMAIN n :
        \/ k \in DOMAIN m /\ n[k] = m[k]
        \/ \E r \in TLResponse : PendingSound(r) /\ n[k] = NewEntry(r)

LEMMA CleanupFromSound ==
    ASSUME NEW m1, NEW m2, FromSound(byFqdn, m1), FromSound(byFqdnVer, m2),
           CleanupLocked(m1, m2)
    PROVE  FromSound(byFqdn, byFqdn') /\ FromSound(byFqdnVer, byFqdnVer')
<1>1. PICK keep1 \in SUBSET Retained(m1), keep2 \in SUBSET Retained(m2) :
        byFqdn' = Keep(m1, keep1) /\ byFqdnVer' = Keep(m2, keep2)
  BY DEF CleanupLocked
<1>2. keep1 \subseteq DOMAIN m1 /\ keep2 \subseteq DOMAIN m2
  BY DEF Retained
<1>3. /\ DOMAIN byFqdn' = keep1 /\ \A k \in keep1 : byFqdn'[k] = m1[k]
      /\ DOMAIN byFqdnVer' = keep2 /\ \A k \in keep2 : byFqdnVer'[k] = m2[k]
  BY <1>1 DEF Keep
<1>. QED  BY <1>2, <1>3 DEF FromSound

LEMMA PutFromSound ==
    ASSUME NEW m, NEW k, NEW r \in TLResponse, PendingSound(r)
    PROVE  FromSound(m, Put(m, k, NewEntry(r)))
BY DEF FromSound, Put

LEMMA InsertFromSound ==
    ASSUME NEW r \in TLResponse, PendingSound(r),
           \/ \E f : InsertLocked(f, r)
           \/ \E f, v : InsertForVersionLocked(f, v, r)
    PROVE  FromSound(byFqdn, byFqdn') /\ FromSound(byFqdnVer, byFqdnVer')
<1>1. FromSound(byFqdn, byFqdn) /\ FromSound(byFqdnVer, byFqdnVer)
  BY DEF FromSound
<1>2. ASSUME NEW f, InsertLocked(f, r)
      PROVE  FromSound(byFqdn, byFqdn') /\ FromSound(byFqdnVer, byFqdnVer')
  <2>. DEFINE m == Put(byFqdn, f, NewEntry(r))
  <2>1. CleanupLocked(m, byFqdnVer) /\ FromSound(byFqdn, m)
    BY <1>2, PutFromSound DEF InsertLocked
  <2>. HIDE DEF m
  <2>. QED  BY <1>1, <2>1, CleanupFromSound
<1>3. ASSUME NEW f, NEW v, InsertForVersionLocked(f, v, r)
      PROVE  FromSound(byFqdn, byFqdn') /\ FromSound(byFqdnVer, byFqdnVer')
  <2>. DEFINE m == Put(byFqdnVer, <<f, v>>, NewEntry(r))
  <2>1. CleanupLocked(byFqdn, m) /\ FromSound(byFqdnVer, m)
    BY <1>3, PutFromSound DEF InsertForVersionLocked
  <2>. HIDE DEF m
  <2>. QED  BY <1>1, <2>1, CleanupFromSound
<1>. QED  BY <1>2, <1>3

LEMMA MapsFromSound ==
    ASSUME SysInv, [SysNext]_sysVars
    PROVE  FromSound(byFqdn, byFqdn') /\ FromSound(byFqdnVer, byFqdnVer')
<1>1. CASE UNCHANGED <<byFqdn, byFqdnVer>>
  BY <1>1 DEF FromSound
<1>2. CASE Clear
  BY <1>2, EmptyMapFacts DEF Clear, FromSound
<1>3. CASE RefreshInsert
  <2>1. PICK g \in refresher.got : InsertLocked(g.key, g.resp)
    BY <1>3 DEF RefreshInsert
  <2>2. g.resp \in TLResponse /\ PendingSound(g.resp)
    BY DEF SysInv, SysShape, IInv, TypeOK, RefresherState, EvidenceSound
  <2>. QED  BY <2>1, <2>2, InsertFromSound
<1>4. ASSUME NEW c \in Caller, InsertAndVerify(c)
      PROVE  FromSound(byFqdn, byFqdn') /\ FromSound(byFqdnVer, byFqdnVer')
  <2>. DEFINE k == call[c]
              r == answer[c]
  <2>1. r \in TLResponse /\ PendingSound(r)
    BY <1>4 DEF InsertAndVerify, SysInv, SysShape, SysTypeOK, EvidenceSound, CallSound
  <2>2. \/ UNCHANGED cacheVars
        \/ InsertForVersionLocked(k.fqdn, k.version, r)
        \/ InsertLocked(k.fqdn, r)
    BY <1>4 DEF InsertAndVerify
  <2>. QED  BY <1>1, <2>1, <2>2, InsertFromSound DEF cacheVars
<1>5. \/ UNCHANGED <<byFqdn, byFqdnVer>>
      \/ Clear
      \/ RefreshInsert
      \/ \E c \in Caller : InsertAndVerify(c)
  <2>1. CASE SysTick \/ LogStep \/ UNCHANGED sysVars
    BY <2>1 DEF SysTick, Tick, LogStep, Renew, SetStatus, sysVars
  <2>2. CASE CacheStep
    BY <2>2 DEF CacheStep, StartBackgroundRefresh, CollectExpiring,
                RefreshFetched, RefreshFailed, RefreshRoundDone, StopBackgroundRefresh
  <2>3. ASSUME NEW c \in Caller, StartCall(c) \/ CallStep(c) \/ Return(c)
        PROVE  UNCHANGED <<byFqdn, byFqdnVer>> \/ InsertAndVerify(c)
    BY <2>3 DEF StartCall, CallStep, VerifyServer, VerifyClient,
                VerifyClientCertError, Prefetch, BadgeFound, BadgeNotFound,
                BadgeLookupFails, FetchTLResponse, FetchFails, ApplyDANE, Return,
                Unshared
  <2>. QED  BY <2>1, <2>2, <2>3 DEF SysNext
<1>. QED  BY <1>1, <1>2, <1>3, <1>4, <1>5

LEMMA EntriesStaySound ==
    ASSUME SysInv, [SysNext]_sysVars
    PROVE  /\ (\A k \in DOMAIN byFqdn : EntrySound(byFqdn[k]))'
           /\ (\A k \in DOMAIN byFqdnVer : EntrySound(byFqdnVer[k]))'
<1>1. ASSUME NEW e \in Entry, EntrySound(e)
      PROVE  InTime(e.resp, e.fetchedAt) /\ TrueAt(e.resp, now', log', config')
  BY <1>1, TrueToPersists DEF EntrySound, SysInv, Entry
<1>2. ASSUME NEW r \in TLResponse, PendingSound(r)
      PROVE  LET e == NewEntry(r) IN InTime(e.resp, e.fetchedAt) /\ TrueAt(e.resp, now', log', config')
  BY <1>2, TrueToPersists DEF PendingSound, NewEntry, SysInv
<1>3. /\ \A k \in DOMAIN byFqdn : byFqdn[k] \in Entry /\ EntrySound(byFqdn[k])
      /\ \A k \in DOMAIN byFqdnVer : byFqdnVer[k] \in Entry /\ EntrySound(byFqdnVer[k])
  BY DEF SysInv, SysShape, IInv, TypeOK, IsMap, EvidenceSound
<1>4. ASSUME NEW k \in DOMAIN byFqdn'
      PROVE  InTime(byFqdn'[k].resp, byFqdn'[k].fetchedAt) /\ TrueAt(byFqdn'[k].resp, now', log', config')
  BY <1>1, <1>2, <1>3, MapsFromSound DEF FromSound
<1>5. ASSUME NEW k \in DOMAIN byFqdnVer'
      PROVE  InTime(byFqdnVer'[k].resp, byFqdnVer'[k].fetchedAt)
             /\ TrueAt(byFqdnVer'[k].resp, now', log', config')
  BY <1>1, <1>2, <1>3, MapsFromSound DEF FromSound
<1>. QED  BY <1>4, <1>5 DEF EntrySound, TrueTo

\* A sound answer of the log stays sound while it is carried: the clock stands
\* still, or the request has not timed out yet.
LEMMA PendingPersists ==
    ASSUME SysInv, [SysNext]_sysVars, NEW r \in TLResponse, PendingSound(r),
           now' = now \/ (now' = now + 1 /\ now - r.asOf < FetchTimeout)
    PROVE  InTime(r, now') /\ TrueAt(r, now', log', config')
<1>1. now \in Nat /\ r.asOf \in Nat /\ FetchTimeout \in Nat
  BY ResponseFacts, VerifierConstants DEF SysInv, SysShape, IInv, TypeOK
<1>2. TrueAt(r, now', log', config')
  BY TrueToPersists DEF SysInv, PendingSound
<1>3. InTime(r, now')
  BY <1>1 DEF PendingSound, InTime
<1>. QED  BY <1>2, <1>3

LEMMA RefreshStaysSound ==
    ASSUME SysInv, [SysNext]_sysVars
    PROVE  (\A g \in refresher.got : PendingSound(g.resp))'
<1>1. \A g \in refresher.got : g.resp \in TLResponse /\ PendingSound(g.resp)
  BY DEF SysInv, SysShape, IInv, TypeOK, RefresherState, EvidenceSound
<1>2. refresher \in RefresherState
  BY DEF SysInv, SysShape, IInv, TypeOK
<1>3. CASE now' = now /\ refresher' = refresher
  BY <1>1, <1>3, PendingPersists DEF PendingSound, TrueTo
<1>4. CASE refresher'.got = {}
  BY <1>4
<1>5. ASSUME NEW k \in Fqdn, NEW a \in Agent,
             NEW r \in AnswersTo([host |-> TLHost, agent |-> a]), RefreshFetched(k, r)
      PROVE  (\A g \in refresher.got : PendingSound(g.resp))'
  <2>1. refresher.got' = {[key |-> k, resp |-> r]} /\ now' = now
    BY <1>2, <1>5 DEF RefreshFetched, RefresherState
  <2>2. r \in TLResponse /\ PendingSound(r)
    <3>. DEFINE url == [host |-> TLHost, agent |-> a]
    <3>1. url \in URL /\ url.host = TLHost
      BY VerifierConstants DEF URL
    <3>. HIDE DEF url
    <3>2. r \in AnswersTo(url)
      BY DEF url
    <3>. QED  BY <3>1, <3>2, AnswerSound DEF SysInv
  <2>3. InTime(r, now') /\ TrueAt(r, now', log', config')
    BY <2>1, <2>2, PendingPersists
  <2>. QED  BY <2>1, <2>3 DEF PendingSound, TrueTo
<1>6. CASE SysTick
  <2>1. /\ now' = now + 1 /\ refresher' = refresher
        /\ \A g \in refresher.got : now - g.resp.asOf < FetchTimeout
    BY <1>6 DEF SysTick, Tick
  <2>. QED  BY <1>1, <2>1, PendingPersists DEF PendingSound, TrueTo
<1>7. CASE CacheStep
  <2>1. CASE Clear
    BY <2>1, <1>3 DEF Clear
  <2>2. CASE StartBackgroundRefresh \/ CollectExpiring \/ RefreshInsert
             \/ RefreshRoundDone \/ StopBackgroundRefresh
    <3>1. refresher'.got = {}
      BY <2>2, <1>2 DEF StartBackgroundRefresh, CollectExpiring, RefreshInsert,
                        RefreshRoundDone, StopBackgroundRefresh, RefresherState
    <3>. QED  BY <3>1, <1>4
  <2>3. ASSUME NEW k \in Fqdn, RefreshFailed(k)
        PROVE  refresher'.got = {}
    BY <2>3, <1>2 DEF RefreshFailed, RefresherState
  <2>. QED  BY <1>7, <2>1, <2>2, <2>3, <1>4, <1>5 DEF CacheStep
<1>8. CASE LogStep \/ UNCHANGED sysVars
  BY <1>3, <1>8 DEF LogStep, Renew, SetStatus, sysVars
<1>9. ASSUME NEW c \in Caller, StartCall(c) \/ CallStep(c) \/ Return(c)
      PROVE  (\A g \in refresher.got : PendingSound(g.resp))'
  <2>1. now' = now /\ refresher' = refresher
    BY <1>9 DEF StartCall, CallStep, VerifyServer, VerifyClient,
                VerifyClientCertError, Prefetch, BadgeFound, BadgeNotFound,
                BadgeLookupFails, FetchTLResponse, FetchFails, ApplyDANE, Return,
                Unshared, InsertAndVerify
  <2>. QED  BY <2>1, <1>3
<1>. QED  BY <1>6, <1>7, <1>8, <1>9 DEF SysNext

\* Only a live record is verified.
LEMMA VerifiedIsLive ==
    ASSUME NEW k \in Call, NEW r, Verdict(k, r) = "Verified"
    PROVE  ~IsTerminal(r.status)
<1>1. ServerVerdict(r, k.cert, k.fqdn) = "Verified" => IsValidForConnection(r.status)
  BY DEF ServerVerdict
<1>2. ClientVerdict(r, k.cert) = "Verified" => IsValidForConnection(r.status)
  BY DEF ClientVerdict
<1>3. IsValidForConnection(r.status)
  BY <1>1, <1>2 DEF Verdict, Call
<1>. QED  BY <1>3 DEF IsValidForConnection, IsTerminal

\* A verdict on a response of a fresh entry, or on one just fetched, is sound.
LEMMA VerdictSound ==
    ASSUME SysInv, NEW k \in Call, NEW r \in TLResponse, TrueTo(r),
           now - r.asOf <= DefaultTTL + FetchTimeout,
           Verdict(k, r) # "FailOpen"
    PROVE  OutcomeSound(Result(Verdict(k, r), r))
<1>. DEFINE type == Verdict(k, r)
<1>1. /\ Result(type, r).type = type /\ Result(type, r).resp = r
      /\ Result(type, r).at = now
  BY DEF Result
<1>2. type = "Verified" => ~IsTerminal(r.status)
  BY VerifiedIsLive
<1>3. r # None
  BY VerifierConstants
<1>4. DefaultTTL + FetchTimeout + 0 = DefaultTTL + FetchTimeout
  BY CacheConfig, VerifierConstants
<1>. HIDE DEF type
<1>. QED  BY <1>1, <1>2, <1>3, <1>4 DEF OutcomeSound, EvidenceAge, type

LEMMA VerdictNotFailOpen ==
    ASSUME NEW k \in Call, NEW r
    PROVE  Verdict(k, r) # "FailOpen"
<1>1. ServerVerdict(r, k.cert, k.fqdn) # "FailOpen"
  BY DEF ServerVerdict
<1>2. ClientVerdict(r, k.cert) # "FailOpen"
  BY DEF ClientVerdict
<1>. QED  BY <1>1, <1>2 DEF Verdict, Call

\* How old the response of a cached entry is, by how long the entry has expired.
LEMMA CachedAge ==
    ASSUME SysInv, NEW k \in Call, Has(CacheMap(k), CacheKey(k))
    PROVE  LET e == CacheMap(k)[CacheKey(k)]
           IN  /\ e.resp \in TLResponse /\ TrueTo(e.resp)
               /\ e.expiresAt \in Nat
               /\ now - e.resp.asOf <= (now - e.expiresAt) + DefaultTTL + FetchTimeout
<1>. DEFINE e == CacheMap(k)[CacheKey(k)]
<1>1. e \in Entry /\ e.resp \in TLResponse
  BY CachedType DEF SysInv
<1>2. EntrySound(e) /\ Dated(e)
  BY DEF SysInv, SysShape, IInv, EntriesDated, EvidenceSound, CacheMap, CacheKey, Has
<1>3. /\ e.fetchedAt \in Nat /\ e.expiresAt \in Nat /\ e.resp.asOf \in Nat
      /\ now \in Nat /\ DefaultTTL \in Nat /\ FetchTimeout \in Nat
  BY <1>1, ResponseFacts, CacheConfig, VerifierConstants
     DEF Entry, SysInv, SysShape, IInv, TypeOK
<1>4. e.expiresAt = e.fetchedAt + DefaultTTL /\ e.fetchedAt - e.resp.asOf <= FetchTimeout
  BY <1>2 DEF Dated, EntrySound, InTime
<1>5. TrueTo(e.resp)
  BY <1>2 DEF EntrySound
<1>. HIDE DEF e
<1>6. now - e.resp.asOf <= (now - e.expiresAt) + DefaultTTL + FetchTimeout
  BY <1>3, <1>4
<1>. QED  BY <1>1, <1>3, <1>5, <1>6 DEF e

\* What the stage of a call and the outcome it holds must satisfy after a step
\* that leaves the clock and the log alone.
LEMMA CallSoundNext ==
    ASSUME NEW c \in Caller, UNCHANGED <<now, log, config>>,
           pc'[c] = "tlog" /\ Anchored(config) => answer'[c].host = TLHost,
           pc'[c] = "insert" => PendingSound(answer'[c]),
           pc'[c] = "dane" => outcome'[c].type = "Verified",
           pc'[c] = "dane" \/ outcome'[c] # None => OutcomeSound(outcome'[c])
    PROVE  CallSound(c)'
BY DEF CallSound, PendingSound, OutcomeSound, TrueTo, EvidenceAge

LEMMA JudgeSound ==
    ASSUME SysInv, NEW c \in Caller, NEW k \in Call, NEW r \in TLResponse, TrueTo(r),
           now - r.asOf <= DefaultTTL + FetchTimeout,
           Judge(c, Verdict(k, r), r), UNCHANGED <<now, log, config>>
    PROVE  CallSound(c)'
<1>1. CallFunctions
  BY CallTypesSplit DEF SysInv, SysShape
<1>2. /\ pc'[c] \notin {"tlog", "insert"} /\ outcome'[c] = Result(Verdict(k, r), r)
      /\ pc'[c] = "dane" => outcome'[c].type = "Verified"
  BY <1>1 DEF Judge, CallFunctions, Result
<1>3. OutcomeSound(outcome'[c])
  BY <1>2, VerdictSound, VerdictNotFailOpen
<1>. QED  BY <1>2, <1>3, CallSoundNext

\* An outcome without evidence that is no Verified one is sound.
LEMMA FinishNoneSound ==
    ASSUME SysInv, NEW c \in Caller, NEW type, type # "Verified",
           Finish(c, type, None), UNCHANGED <<now, log, config>>
    PROVE  CallSound(c)'
<1>1. CallFunctions
  BY CallTypesSplit DEF SysInv, SysShape
<1>2. pc'[c] = "done" /\ outcome'[c] = Result(type, None)
  BY <1>1 DEF Finish, CallFunctions
<1>3. OutcomeSound(outcome'[c])
  BY <1>2 DEF OutcomeSound, Result
<1>. QED  BY <1>2, <1>3, CallSoundNext

LEMMA PolicySound ==
    ASSUME SysInv, NEW c \in Caller, pc[c] \in {"dns", "tlog"},
           NEW errorType \in {"DNSError", "TlogError"},
           ApplyFailurePolicy(c, errorType), UNCHANGED <<now, log, config>>
    PROVE  CallSound(c)'
<1>. DEFINE k == call[c]
            e == CacheMap(k)[CacheKey(k)]
<1>1. PICK type \in {errorType, "FailOpen"}, r \in TLResponse \cup {None} :
        /\ Finish(c, type, r)
        /\ r # None => /\ type = "FailOpen"
                       /\ GetStale(CacheMap(k), CacheKey(k), MaxStaleness)
                       /\ r = e.resp
  BY PolicyType DEF SysInv
<1>2. CASE r = None
  BY <1>1, <1>2, FinishNoneSound
<1>3. CASE r # None
  <2>1. CallFunctions /\ k \in Call
    BY CallTypesSplit DEF SysInv, SysShape, SysTypeOK
  <2>2. pc'[c] = "done" /\ outcome'[c] = Result("FailOpen", r)
    BY <1>1, <1>3, <2>1 DEF Finish, CallFunctions
  <2>3. Has(CacheMap(k), CacheKey(k)) /\ now - e.expiresAt <= MaxStaleness
    BY <1>1, <1>3 DEF GetStale
  <2>4. /\ r \in TLResponse /\ TrueTo(r) /\ e.expiresAt \in Nat
        /\ now - r.asOf <= (now - e.expiresAt) + DefaultTTL + FetchTimeout
    BY <1>1, <1>3, <2>1, <2>3, CachedAge
  <2>5. /\ now \in Nat /\ r.asOf \in Nat /\ DefaultTTL \in Nat
        /\ FetchTimeout \in Nat /\ MaxStaleness \in Nat
    BY <2>4, ResponseFacts, CacheConfig, VerifierConstants DEF SysInv, SysShape, IInv, TypeOK
  <2>. HIDE DEF e, k
  <2>6. now - r.asOf <= DefaultTTL + FetchTimeout + MaxStaleness
    BY <2>3, <2>4, <2>5
  <2>7. OutcomeSound(Result("FailOpen", r))
    BY <2>4, <2>6 DEF OutcomeSound, Result, EvidenceAge
  <2>. QED  BY <2>2, <2>7, CallSoundNext
<1>. QED  BY <1>2, <1>3

LEMMA CheckCacheSound ==
    ASSUME SysInv, NEW c \in Caller, NEW k \in Call, CheckCache(c, k),
           UNCHANGED <<now, log, config>>
    PROVE  CallSound(c)'
<1>1. CallFunctions /\ CallSound(c)
  BY CallTypesSplit DEF SysInv, SysShape, EvidenceSound
<1>. DEFINE e == CacheMap(k)[CacheKey(k)]
<1>2. CASE HitDecides(k)
  <2>1. Has(CacheMap(k), CacheKey(k)) /\ ~(now > e.expiresAt)
    BY <1>2 DEF HitDecides, GetFresh, IsExpired
  <2>2. /\ e.resp \in TLResponse /\ TrueTo(e.resp) /\ e.expiresAt \in Nat
        /\ now - e.resp.asOf <= (now - e.expiresAt) + DefaultTTL + FetchTimeout
    BY <2>1, CachedAge
  <2>3. now \in Nat /\ e.resp.asOf \in Nat /\ DefaultTTL \in Nat /\ FetchTimeout \in Nat
    BY <2>2, ResponseFacts, CacheConfig, VerifierConstants DEF SysInv, SysShape, IInv, TypeOK
  <2>4. Judge(c, Verdict(k, e.resp), e.resp)
    BY <1>2 DEF CheckCache
  <2>. HIDE DEF e
  <2>5. now - e.resp.asOf <= DefaultTTL + FetchTimeout
    BY <2>1, <2>2, <2>3
  <2>. QED  BY <2>2, <2>4, <2>5, JudgeSound
<1>3. CASE ~HitDecides(k)
  <2>1. pc' = [pc EXCEPT ![c] = "dns"] /\ UNCHANGED <<answer, outcome>>
    BY <1>3 DEF CheckCache
  <2>2. pc'[c] = "dns"
    BY <1>1, <2>1 DEF CallFunctions
  <2>. QED  BY <1>1, <2>1, <2>2, CallSoundNext DEF CallSound
<1>. QED  BY <1>2, <1>3

\* The step of a goroutine leaves its own evidence sound.
LEMMA CallStepSound ==
    ASSUME SysInv, NEW c \in Caller, StartCall(c) \/ CallStep(c) \/ Return(c)
    PROVE  CallSound(c)'
<1>1. CallFunctions /\ CallTypeOK(c) /\ CallSound(c) /\ now \in Nat
  BY CallTypesSplit DEF SysInv, SysShape, TypeOK, EvidenceSound
<1>2. UNCHANGED <<now, log, config>>
  BY DEF StartCall, CallStep, VerifyServer, VerifyClient, VerifyClientCertError,
         Prefetch, BadgeFound, BadgeNotFound, BadgeLookupFails, FetchTLResponse,
         FetchFails, ApplyDANE, Return, Unshared, InsertAndVerify
<1>3. ASSUME NEW f \in Fqdn, NEW cert \in Cert, VerifyServer(c, f, cert)
      PROVE  CallSound(c)'
  <2>1. NewCall("server", f, None, cert) \in Call
    BY <1>1, VerifierConstants DEF NewCall, Call
  <2>. QED  BY <1>2, <1>3, <2>1, CheckCacheSound DEF VerifyServer
<1>4. ASSUME NEW cert \in Cert, VerifyClient(c, cert)
      PROVE  CallSound(c)'
  <2>. DEFINE k == NewCall("client", cert.names[1].host, cert.names[1].version, cert)
  <2>1. cert \in Certificate /\ cert.names \in Seq(Name) /\ cert.names # <<>>
    BY <1>4, VerifierConstants DEF VerifyClient, Certificate
  <2>2. cert.names[1] \in Name
    BY <2>1
  <2>3. k \in Call
    BY <1>1, <2>1, <2>2 DEF NewCall, Call, Name
  <2>4. CheckCache(c, k)
    BY <1>4 DEF VerifyClient
  <2>. HIDE DEF k
  <2>. QED  BY <1>2, <2>3, <2>4, CheckCacheSound
<1>5. ASSUME NEW f \in Fqdn, Prefetch(c, f)
      PROVE  CallSound(c)'
  <2>1. NewCall("prefetch", f, None, None) \in Call
    BY <1>1 DEF NewCall, Call
  <2>. QED  BY <1>2, <1>5, <2>1, CheckCacheSound DEF Prefetch
<1>6. ASSUME NEW cert \in Cert, VerifyClientCertError(c, cert)
      PROVE  CallSound(c)'
  BY <1>2, <1>6, FinishNoneSound DEF VerifyClientCertError
<1>7. ASSUME NEW url \in URL, BadgeFound(c, url)
      PROVE  CallSound(c)'
  <2>1. pc'[c] = "tlog" /\ outcome'[c] = outcome[c] /\ answer'[c] = rewriteTLHost(url)
    BY <1>1, <1>7 DEF BadgeFound, CallFunctions
  <2>2. Anchored(config) => rewriteTLHost(url).host = TLHost
    BY VerifierConstants DEF Anchored, rewriteTLHost, URL
  <2>3. pc[c] = "dns"
    BY <1>7 DEF BadgeFound
  <2>. QED  BY <1>1, <1>2, <2>1, <2>2, <2>3, CallSoundNext DEF CallSound
<1>8. CASE BadgeNotFound(c)
  BY <1>2, <1>8, FinishNoneSound DEF BadgeNotFound
<1>9. CASE BadgeLookupFails(c)
  BY <1>2, <1>9, PolicySound DEF BadgeLookupFails
<1>10. CASE FetchFails(c)
  BY <1>2, <1>10, PolicySound DEF FetchFails
<1>11. CASE FetchTLResponse(c)
  <2>1. answer[c] \in URL /\ (Anchored(config) => answer[c].host = TLHost)
    BY <1>1, <1>11 DEF FetchTLResponse, CallTypeOK, CallSound
  <2>2. PICK r \in AnswersTo(answer[c]) : answer' = [answer EXCEPT ![c] = r]
    BY <1>11 DEF FetchTLResponse
  <2>3. /\ pc'[c] = "insert" /\ answer'[c] = r /\ PendingSound(r)
        /\ outcome'[c] = outcome[c]
    BY <1>1, <1>11, <2>1, <2>2, AnswerSound DEF FetchTLResponse, CallFunctions, SysInv
  <2>. QED  BY <1>1, <1>2, <2>3, CallSoundNext DEF CallSound
<1>12. CASE InsertAndVerify(c)
  <2>. DEFINE k == call[c]
              r == answer[c]
  <2>1. k \in Call /\ r \in TLResponse /\ PendingSound(r)
    BY <1>1, <1>12 DEF InsertAndVerify, CallTypeOK, CallSound
  <2>2. Judge(c, Verdict(k, r), r)
    BY <1>12 DEF InsertAndVerify
  <2>3. r.asOf \in Nat /\ DefaultTTL \in Nat /\ FetchTimeout \in Nat
    BY <2>1, ResponseFacts, CacheConfig, VerifierConstants
  <2>4. TrueTo(r) /\ now - r.asOf <= DefaultTTL + FetchTimeout
    BY <1>1, <2>1, <2>3 DEF PendingSound, InTime
  <2>. HIDE DEF k, r
  <2>. QED  BY <1>2, <2>1, <2>2, <2>4, JudgeSound
<1>13. ASSUME NEW d \in DANEOutcomeType, ApplyDANE(c, d)
       PROVE  CallSound(c)'
  <2>1. outcome[c].type = "Verified" /\ OutcomeSound(outcome[c])
    BY <1>1, <1>13 DEF ApplyDANE, CallSound
  <2>2. outcome[c] \in Outcome
    BY <1>1, <1>13 DEF ApplyDANE, CallTypeOK
  <2>3. /\ pc'[c] = "done"
        /\ outcome'[c] \in {outcome[c], [outcome[c] EXCEPT !.type = "DANERejection"]}
    <3>1. outcome' = [outcome EXCEPT ![c] = [outcome[c] EXCEPT !.type =
                        IF d \in {"Mismatch", "DNSSECFailed"} THEN "DANERejection"
                        ELSE outcome[c].type]]
      BY <1>13 DEF ApplyDANE
    <3>2. outcome'[c] = [outcome[c] EXCEPT !.type =
                           IF d \in {"Mismatch", "DNSSECFailed"} THEN "DANERejection"
                           ELSE outcome[c].type]
      BY <1>1, <3>1 DEF CallFunctions
    <3>3. [outcome[c] EXCEPT !.type = outcome[c].type] = outcome[c]
      BY <2>2 DEF Outcome
    <3>4. pc'[c] = "done"
      BY <1>1, <1>13 DEF ApplyDANE, CallFunctions
    <3>. QED  BY <3>2, <3>3, <3>4
  <2>4. OutcomeSound([outcome[c] EXCEPT !.type = "DANERejection"])
    <3>. DEFINE o == [outcome[c] EXCEPT !.type = "DANERejection"]
    <3>1. /\ o.type = "DANERejection" /\ o.resp = outcome[c].resp /\ o.at = outcome[c].at
      BY <2>2 DEF Outcome
    <3>. HIDE DEF o
    <3>2. OutcomeSound(o)
      BY <2>1, <3>1 DEF OutcomeSound, EvidenceAge
    <3>. QED  BY <3>2 DEF o
  <2>. QED  BY <1>2, <2>1, <2>3, <2>4, CallSoundNext
<1>14. CASE Return(c)
  <2>1. pc'[c] = "idle" /\ outcome'[c] = None
    BY <1>1, <1>14 DEF Return, CallFunctions
  <2>. QED  BY <1>2, <2>1, CallSoundNext
<1>. QED
  BY <1>3, <1>4, <1>5, <1>6, <1>7, <1>8, <1>9, <1>10, <1>11, <1>12, <1>13, <1>14
     DEF StartCall, CallStep

LEMMA CallsStaySound ==
    ASSUME SysInv, [SysNext]_sysVars
    PROVE  (\A c \in Caller : CallSound(c))'
<1>1. /\ CallFunctions /\ now \in Nat
      /\ \A c \in Caller : CallTypeOK(c) /\ CallSound(c)
  BY CallTypesSplit DEF SysInv, SysShape, TypeOK, EvidenceSound
\* Nothing that happens elsewhere disturbs a call.
<1>2. ASSUME NEW c \in Caller, pc'[c] = pc[c], answer'[c] = answer[c], outcome'[c] = outcome[c],
             config' = config,
             \/ now' = now
             \/ /\ now' = now + 1
                /\ pc[c] = "insert" => now - answer[c].asOf < FetchTimeout
      PROVE  CallSound(c)'
  <2>1. ASSUME pc[c] = "insert"
        PROVE  InTime(answer[c], now') /\ TrueAt(answer[c], now', log', config')
    BY <1>1, <1>2, <2>1, PendingPersists DEF CallSound, CallTypeOK
  <2>2. ASSUME outcome[c] \in Outcome, OutcomeSound(outcome[c])
        PROVE  outcome[c].resp # None => TrueAt(outcome[c].resp, now', log', config')
    <3>1. outcome[c].resp # None => outcome[c].resp \in TLResponse /\ TrueTo(outcome[c].resp)
      BY <2>2 DEF Outcome, OutcomeSound
    <3>. QED  BY <3>1, TrueToPersists DEF SysInv
  <2>3. pc[c] = "dane" \/ outcome[c] # None =>
          outcome[c] \in Outcome /\ OutcomeSound(outcome[c])
    BY <1>1 DEF CallTypeOK, CallSound
  <2>. QED
    BY <1>1, <1>2, <2>1, <2>2, <2>3
       DEF CallSound, PendingSound, OutcomeSound, TrueTo, EvidenceAge
<1>3. CASE SysTick
  BY <1>2, <1>3 DEF SysTick, Tick, callVars
<1>4. CASE CacheStep \/ LogStep \/ UNCHANGED sysVars
  <2>1. UNCHANGED <<now, config, pc, answer, outcome>>
    BY <1>4 DEF CacheStep, Clear, StartBackgroundRefresh, CollectExpiring,
                RefreshFetched, RefreshFailed, RefreshInsert, RefreshRoundDone,
                StopBackgroundRefresh, LogStep, Renew, SetStatus, sysVars, callVars
  <2>. QED  BY <1>2, <2>1
<1>5. ASSUME NEW c \in Caller, StartCall(c) \/ CallStep(c) \/ Return(c)
      PROVE  (\A d \in Caller : CallSound(d))'
  <2>1. now' = now /\ config' = config
    BY <1>5 DEF StartCall, CallStep, VerifyServer, VerifyClient,
                VerifyClientCertError, Prefetch, BadgeFound, BadgeNotFound,
                BadgeLookupFails, FetchTLResponse, FetchFails, ApplyDANE, Return,
                Unshared, InsertAndVerify
  <2>2. OnlyCaller(c)
    BY <1>5, CallStepType DEF SysInv
  <2>3. CallSound(c)'
    BY <1>5, CallStepSound
  <2>4. ASSUME NEW d \in Caller \ {c}
        PROVE  CallSound(d)'
    BY <1>2, <2>1, <2>2 DEF OnlyCaller
  <2>. QED  BY <2>3, <2>4
<1>. QED  BY <1>3, <1>4, <1>5 DEF SysNext

LEMMA SysInitInv == SysInit => SysInv
<1>. SUFFICES ASSUME SysInit PROVE EvidenceSound
  BY SysInitShape DEF SysInv
<1>1. DOMAIN byFqdn = {} /\ DOMAIN byFqdnVer = {} /\ refresher.got = {}
  BY EmptyMapFacts DEF SysInit, Init
<1>2. \A c \in Caller : pc[c] = "idle" /\ outcome[c] = None
  BY DEF SysInit
<1>. QED  BY <1>1, <1>2 DEF EvidenceSound, CallSound

LEMMA SysInvNext == SysInv /\ [SysNext]_sysVars => SysInv'
<1>. SUFFICES ASSUME SysInv, [SysNext]_sysVars PROVE SysInv'  OBVIOUS
<1>1. SysShape'
  BY SysNextShape DEF SysInv
<1>. QED
  BY <1>1, EntriesStaySound, RefreshStaysSound, CallsStaySound DEF SysInv, EvidenceSound

LEMMA SysInvHolds == SysSpec => []SysInv
BY SysInitInv, SysInvNext, PTL DEF SysSpec

\* Whatever the interleaving, a verdict rests on an answer the log gave at most
\* one TTL and one request before it, plus MaxStaleness where the failure policy
\* accepts a stale badge (ServerVerifier.Verify, ClientVerifier.Verify).
THEOREM EvidenceStaysRecent == SysSpec => []EvidenceIsRecent
<1>1. SysInv => EvidenceIsRecent
  BY DEF SysInv, EvidenceSound, CallSound, OutcomeSound, EvidenceIsRecent
<1>. QED  BY <1>1, SysInvHolds, PTL

\* A verifier whose application has set the trusted host and verifies the server
\* reports nothing but the log's own answers, although the DNS may name any host and
\* answers travel through the cache and the refresh.
THEOREM OnlyTheLogIsHeard == SysSpec => []EvidenceIsTheLogs
<1>1. SysInv => EvidenceIsTheLogs
  BY DEF SysInv, EvidenceSound, CallSound, OutcomeSound, TrueTo, TrueAt, EvidenceIsTheLogs
<1>. QED  BY <1>1, SysInvHolds, PTL

LEMMA HorizonFromInv == SysInv => RevocationHorizon
<1>. SUFFICES ASSUME SysInv, NEW c \in Caller, outcome[c] # None,
                     outcome[c].type = "Verified",
                     Anchored(config) \/ outcome[c].resp.from = TLHost,
                     IsTerminal(log[outcome[c].resp.agent].status)
              PROVE  outcome[c].at <= log[outcome[c].resp.agent].endedAt
                                      + DefaultTTL + FetchTimeout
  BY DEF RevocationHorizon
<1>. DEFINE o == outcome[c]
            r == o.resp
<1>1. o \in Outcome /\ OutcomeSound(o)
  BY DEF SysInv, SysShape, SysTypeOK, EvidenceSound, CallSound
<1>2. r \in TLResponse /\ ~IsTerminal(r.status)
  BY <1>1 DEF OutcomeSound, Outcome
<1>3. r.asOf <= log[r.agent].endedAt
  BY <1>1, <1>2, VerifierConstants DEF OutcomeSound, TrueTo, TrueAt
<1>4. o.at - r.asOf <= DefaultTTL + FetchTimeout + 0
  BY <1>1, <1>2, VerifierConstants DEF OutcomeSound, EvidenceAge
<1>5. /\ o.at \in Nat /\ r.asOf \in Nat /\ r.agent \in Agent
      /\ DefaultTTL \in Nat /\ FetchTimeout \in Nat
  BY <1>1, <1>2, ResponseFacts, CacheConfig, VerifierConstants DEF Outcome
<1>6. log[r.agent].endedAt \in Nat
  BY <1>5 DEF SysInv, SysShape, SysTypeOK, LogRecord
<1>. HIDE DEF o, r
<1>7. o.at <= log[r.agent].endedAt + DefaultTTL + FetchTimeout
  BY <1>3, <1>4, <1>5, <1>6
<1>. QED  BY <1>7 DEF o, r

\* A record that ended is verified no later than one TTL and one request after
\* its end, although an older answer may overwrite a newer one in the cache: by
\* every verifier on the strength of the log's own answers, and by an anchored one
\* (trustedTLHost set to the log, the log's server verified) always, whatever host
\* the DNS names.
THEOREM RevocationTakesEffect == SysSpec => []RevocationHorizon
<1>. QED  BY HorizonFromInv, SysInvHolds, PTL

-----------------------------------------------------------------------------
(* The verifiers implement the promise.                                     *)

\* A call's step leaves its verdict, drops it, or reaches one at this moment.
LEMMA VerdictIsReachedNow ==
    ASSUME SysShape, NEW c \in Caller, StartCall(c) \/ CallStep(c) \/ Return(c)
    PROVE  \/ outcome'[c] \in {outcome[c], None}
           \/ outcome'[c].type # "Verified"
           \/ outcome'[c].at = now
<1>1. CallFunctions /\ CallTypeOK(c)
  BY CallTypesSplit DEF SysShape
<1>2. ASSUME NEW type, NEW r, Finish(c, type, r) \/ Judge(c, type, r)
      PROVE  outcome'[c].at = now
  BY <1>1, <1>2 DEF Finish, Judge, Result, CallFunctions
<1>3. ASSUME NEW k, CheckCache(c, k)
      PROVE  outcome'[c] = outcome[c] \/ outcome'[c].at = now
  BY <1>2, <1>3 DEF CheckCache
<1>4. ASSUME NEW e, ApplyFailurePolicy(c, e)
      PROVE  outcome'[c].at = now
  BY <1>2, <1>4 DEF ApplyFailurePolicy
<1>5. CASE StartCall(c)
  BY <1>2, <1>3, <1>5 DEF StartCall, VerifyServer, VerifyClient, VerifyClientCertError, Prefetch
<1>6. ASSUME NEW d, ApplyDANE(c, d)
      PROVE  outcome'[c] = outcome[c] \/ outcome'[c].type # "Verified"
  <2>1. outcome[c] \in Outcome
    BY <1>1, <1>6 DEF ApplyDANE, CallTypeOK
  <2>2. outcome'[c] = [outcome[c] EXCEPT !.type =
                         IF d \in {"Mismatch", "DNSSECFailed"} THEN "DANERejection"
                         ELSE outcome[c].type]
    <3>1. outcome' = [outcome EXCEPT ![c] = [outcome[c] EXCEPT !.type =
                        IF d \in {"Mismatch", "DNSSECFailed"} THEN "DANERejection"
                        ELSE outcome[c].type]]
      BY <1>6 DEF ApplyDANE
    <3>. QED  BY <1>1, <3>1 DEF CallFunctions
  <2>3. [outcome[c] EXCEPT !.type = outcome[c].type] = outcome[c]
    BY <2>1 DEF Outcome
  <2>4. [outcome[c] EXCEPT !.type = "DANERejection"].type = "DANERejection"
    BY <2>1 DEF Outcome
  <2>. QED  BY <2>2, <2>3, <2>4
<1>7. ASSUME InsertAndVerify(c)
      PROVE  outcome'[c].at = now
  BY <1>2, <1>7 DEF InsertAndVerify
<1>8. CASE CallStep(c)
  <2>1. ASSUME BadgeNotFound(c) \/ BadgeLookupFails(c) \/ FetchFails(c)
        PROVE  outcome'[c].at = now
    BY <1>2, <1>4, <2>1 DEF BadgeNotFound, BadgeLookupFails, FetchFails
  <2>2. ASSUME (\E url \in URL : BadgeFound(c, url)) \/ FetchTLResponse(c)
        PROVE  outcome'[c] = outcome[c]
    BY <2>2 DEF BadgeFound, FetchTLResponse
  <2>. QED  BY <1>6, <1>7, <1>8, <2>1, <2>2 DEF CallStep
<1>9. CASE Return(c)
  BY <1>1, <1>9 DEF Return, CallFunctions
<1>. QED  BY <1>5, <1>8, <1>9

\* What is granted changes for one caller at most, and only by a grant or a drop.
LEMMA CallKeepsPromise ==
    ASSUME SysInv, SysInv', RevocationHorizon', Anchored(config'), NEW c \in Caller,
           StartCall(c) \/ CallStep(c) \/ Return(c)
    PROVE  [Promise!Next]_(Promise!vars)
<1>1. now' = now /\ log' = log
  BY DEF StartCall, CallStep, VerifyServer, VerifyClient,
         VerifyClientCertError, Prefetch, BadgeFound, BadgeNotFound,
         BadgeLookupFails, FetchTLResponse, FetchFails, ApplyDANE, Return,
         Unshared, InsertAndVerify
<1>2. \A d \in Caller \ {c} : GrantedTo(d)' = GrantedTo(d)
  BY CallStepType DEF SysInv, OnlyCaller, GrantedTo
<1>. DEFINE ended == [a \in Agent |-> EndOf(a)]
            granted == [d \in Caller |-> GrantedTo(d)]
<1>3. ended' = ended
  BY <1>1 DEF EndOf
<1>4. granted' = [granted EXCEPT ![c] = GrantedTo(c)']
  BY <1>2
<1>5. CASE GrantedTo(c)' = GrantedTo(c)
  BY <1>1, <1>2, <1>3, <1>5 DEF Promise!vars
<1>6. CASE GrantedTo(c)' = None
  <2>1. Promise!Drop(c)
    BY <1>1, <1>3, <1>4, <1>6 DEF Promise!Drop
  <2>. QED  BY <2>1 DEF Promise!Next
<1>7. CASE GrantedTo(c)' # None /\ GrantedTo(c)' # GrantedTo(c)
  <2>. DEFINE o == outcome'[c]
              a == o.resp.agent
  <2>1. o # None /\ o.type = "Verified" /\ GrantedTo(c)' = [agent |-> a, at |-> o.at]
    BY <1>7 DEF GrantedTo
  <2>2. o # outcome[c]
    BY <1>7 DEF GrantedTo
  <2>3. o.at = now
    BY <2>1, <2>2, VerdictIsReachedNow DEF SysInv
  <2>4. o.resp \in TLResponse
    BY <2>1 DEF SysInv, SysShape, SysTypeOK, EvidenceSound, CallSound, OutcomeSound, Outcome
  <2>5. a \in Agent
    BY <2>4, VerifierConstants DEF Response
  <2>6. IsTerminal(log[a].status) => now <= log[a].endedAt + DefaultTTL + FetchTimeout
    BY <1>1, <2>1, <2>3 DEF RevocationHorizon
  <2>7. log[a].endedAt \in Nat /\ now \in Nat /\ DefaultTTL \in Nat /\ FetchTimeout \in Nat
    BY <2>5, CacheConfig, VerifierConstants DEF SysInv, SysShape, SysTypeOK, TypeOK, LogRecord
  <2>8. IsTerminal(log[a].status) => now <= log[a].endedAt + (DefaultTTL + FetchTimeout)
    BY <2>6, <2>7
  <2>9. ended[a] # None => now <= ended[a] + (DefaultTTL + FetchTimeout)
    BY <2>5, <2>8 DEF EndOf
  <2>10. granted' = [granted EXCEPT ![c] = [agent |-> a, at |-> now]]
    BY <1>4, <2>1, <2>3
  <2>. HIDE DEF o, a
  <2>11. Promise!Grant(c, a)
    BY <1>1, <1>3, <2>9, <2>10 DEF Promise!Grant
  <2>. QED  BY <2>5, <2>11 DEF Promise!Next
<1>. QED  BY <1>5, <1>6, <1>7

LEMMA LogKeepsPromise ==
    ASSUME SysShape, LogStep
    PROVE  [Promise!Next]_(Promise!vars)
<1>. DEFINE ended == [a \in Agent |-> EndOf(a)]
            granted == [d \in Caller |-> GrantedTo(d)]
<1>1. now' = now /\ granted' = granted
  BY DEF LogStep, Renew, SetStatus, callVars, GrantedTo
<1>2. log = [b \in Agent |-> log[b]] /\ \A b \in Agent : log[b] \in LogRecord
  BY DEF SysShape, SysTypeOK
<1>3. ASSUME NEW a \in Agent, NEW role \in RenewedRole, NEW p \in Fp, Renew(a, role, p)
      PROVE  ended' = ended
  <2>1. \A b \in Agent : log'[b].status = log[b].status /\ log'[b].endedAt = log[b].endedAt
    BY <1>2, <1>3 DEF Renew, LogRecord
  <2>. QED  BY <2>1 DEF EndOf
<1>4. ASSUME NEW a \in Agent, NEW s \in NextStatus, SetStatus(a, s)
      PROVE  ended' = ended \/ Promise!End(a)
  <2>1. /\ log'[a].status = s
        /\ log'[a].endedAt = IF IsTerminal(s) THEN now ELSE 0
        /\ \A b \in Agent \ {a} : log'[b] = log[b]
    BY <1>2, <1>4 DEF SetStatus, LogRecord
  <2>2. ended[a] = None /\ ended'[a] = (IF IsTerminal(s) THEN now ELSE None)
    BY <1>4, <2>1 DEF SetStatus, EndOf
  <2>3. \A b \in Agent \ {a} : ended'[b] = ended[b]
    BY <2>1 DEF EndOf
  <2>4. CASE IsTerminal(s)
    <3>1. ended' = [ended EXCEPT ![a] = now]
      BY <2>2, <2>3, <2>4
    <3>. QED  BY <1>1, <2>2, <3>1 DEF Promise!End
  <2>5. CASE ~IsTerminal(s)
    BY <2>2, <2>3, <2>5
  <2>. QED  BY <2>4, <2>5
<1>5. ended' = ended \/ \E a \in Agent : Promise!End(a)
  BY <1>3, <1>4 DEF LogStep
<1>. QED  BY <1>1, <1>5 DEF Promise!Next, Promise!vars

\* An anchored verifier stays one: the configuration is fixed at construction.
LEMMA AnchoredStays == SysSpec /\ Anchored(config) => []Anchored(config)
<1>1. Anchored(config) /\ [SysNext]_sysVars => Anchored(config)'
  <2>. SUFFICES ASSUME [SysNext]_sysVars PROVE config' = config
    OBVIOUS
  <2>1. CASE SysTick \/ CacheStep \/ LogStep \/ UNCHANGED sysVars
    BY <2>1 DEF SysTick, CacheStep, LogStep, Renew, SetStatus, sysVars
  <2>2. ASSUME NEW c \in Caller, StartCall(c) \/ CallStep(c) \/ Return(c)
        PROVE  config' = config
    BY <2>2 DEF StartCall, CallStep, VerifyServer, VerifyClient,
                VerifyClientCertError, Prefetch, BadgeFound, BadgeNotFound,
                BadgeLookupFails, FetchTLResponse, FetchFails, ApplyDANE, Return,
                Unshared, InsertAndVerify
  <2>. QED  BY <2>1, <2>2 DEF SysNext
<1>. QED  BY <1>1, PTL DEF SysSpec

\* Badge verification that is anchored to the log implements its promise, with its
\* caches, requests and failures and whatever badge URLs the DNS gives: an application
\* that sees only verdicts and records cannot tell it from a verifier that accepts
\* live agents and, for one TTL and one request, ended ones.  The hypothesis is
\* needed: rewriteTLHost follows the DNS where no trusted host is set.
THEOREM PromiseIsKept == SysSpec /\ Anchored(config) => KeepsPromise
<1>1. SysInit => Promise!Init
  <2>. SUFFICES ASSUME SysInit PROVE Promise!Init  OBVIOUS
  <2>1. \A a \in Agent : EndOf(a) = None
    BY DEF SysInit, LogInit, EndOf, IsTerminal
  <2>2. \A c \in Caller : GrantedTo(c) = None
    BY DEF SysInit, GrantedTo
  <2>. QED  BY <2>1, <2>2 DEF SysInit, Init, Promise!Init
<1>2. SysInv' => RevocationHorizon'
  BY HorizonFromInv, PTL
<1>3. SysInv /\ SysInv' /\ Anchored(config)' /\ [SysNext]_sysVars
        => [Promise!Next]_(Promise!vars)
  <2>. SUFFICES ASSUME SysInv, SysInv', Anchored(config'), [SysNext]_sysVars
                PROVE  [Promise!Next]_(Promise!vars)
    OBVIOUS
  <2>1. CASE SysTick
    <3>1. now' = now + 1 /\ log' = log /\ outcome' = outcome
      BY <2>1 DEF SysTick, Tick, callVars
    <3>2. Promise!Tick
      BY <3>1 DEF Promise!Tick, EndOf, GrantedTo
    <3>. QED  BY <3>2 DEF Promise!Next
  <2>2. CASE CacheStep \/ UNCHANGED sysVars
    <3>1. UNCHANGED <<now, log, outcome>>
      BY <2>2 DEF CacheStep, Clear, StartBackgroundRefresh, CollectExpiring,
                  RefreshFetched, RefreshFailed, RefreshInsert, RefreshRoundDone,
                  StopBackgroundRefresh, sysVars, callVars
    <3>. QED  BY <3>1 DEF Promise!vars, EndOf, GrantedTo
  <2>3. CASE LogStep
    BY <2>3, LogKeepsPromise DEF SysInv
  <2>4. ASSUME NEW c \in Caller, StartCall(c) \/ CallStep(c) \/ Return(c)
        PROVE  [Promise!Next]_(Promise!vars)
    BY <1>2, <2>4, CallKeepsPromise
  <2>. QED  BY <2>1, <2>2, <2>3, <2>4 DEF SysNext
<1>. QED  BY <1>1, <1>3, SysInvHolds, AnchoredStays, PTL DEF SysSpec, KeepsPromise, Promise!Spec

-----------------------------------------------------------------------------
(* A reported fingerprint mismatch is fresh.  A call that did not end at the  *)
(* cache judges only what it fetched itself, and it fetched it after it began. *)

OwnEvidence(c) ==
    /\ pc[c] \in {"dns", "tlog"} => call[c].startedAt <= now
    /\ pc[c] = "insert" => call[c].startedAt <= answer[c].asOf
    /\ pc[c] = "done" /\ call[c] # None /\ call[c].kind = "server"
          /\ outcome[c].type = "FingerprintMismatch"
          => call[c].startedAt <= outcome[c].resp.asOf

FreshInv == SysInv /\ \A c \in Caller : OwnEvidence(c)

LEMMA CheckCacheFresh ==
    ASSUME FreshInv, NEW c \in Caller, NEW k \in Call, k.startedAt = now,
           CheckCache(c, k), UNCHANGED now
    PROVE  OwnEvidence(c)'
<1>1. CallFunctions /\ now \in Nat
  BY CallTypesSplit DEF FreshInv, SysInv, SysShape, TypeOK
<1>2. call'[c] = k
  BY <1>1 DEF CheckCache, CallFunctions
<1>3. CASE HitDecides(k)
  <2>. DEFINE r == CacheMap(k)[CacheKey(k)].resp
  <2>1. Judge(c, Verdict(k, r), r) /\ (k.kind = "server" => Verdict(k, r) # "FingerprintMismatch")
    BY <1>3 DEF CheckCache, HitDecides
  <2>2. pc'[c] \in {"dane", "done"} /\ outcome'[c].type = Verdict(k, r)
    BY <1>1, <2>1 DEF Judge, Result, CallFunctions
  <2>. QED  BY <1>1, <1>2, <2>1, <2>2 DEF OwnEvidence
<1>4. CASE ~HitDecides(k)
  <2>1. pc'[c] = "dns"
    BY <1>1, <1>4 DEF CheckCache, CallFunctions
  <2>. QED  BY <1>1, <1>2, <2>1 DEF OwnEvidence
<1>. QED  BY <1>3, <1>4

\* A call that ends without a verdict reports no mismatch.
LEMMA FinishFresh ==
    ASSUME FreshInv, NEW c \in Caller, NEW type, type # "FingerprintMismatch", NEW r,
           Finish(c, type, r), UNCHANGED <<now, call>>
    PROVE  OwnEvidence(c)'
<1>1. CallFunctions /\ OwnEvidence(c)
  BY CallTypesSplit DEF FreshInv, SysInv, SysShape
<1>2. pc'[c] = "done" /\ outcome'[c].type = type
  BY <1>1 DEF Finish, Result, CallFunctions
<1>. QED  BY <1>1, <1>2 DEF OwnEvidence

LEMMA CallStepFresh ==
    ASSUME FreshInv, NEW c \in Caller, StartCall(c) \/ CallStep(c) \/ Return(c)
    PROVE  OwnEvidence(c)'
<1>1. /\ SysInv /\ SysShape /\ CallFunctions /\ CallTypeOK(c) /\ CallSound(c)
      /\ OwnEvidence(c) /\ now \in Nat
  BY CallTypesSplit DEF FreshInv, SysInv, SysShape, TypeOK, EvidenceSound
<1>2. UNCHANGED now
  BY DEF StartCall, CallStep, VerifyServer, VerifyClient, VerifyClientCertError,
         Prefetch, BadgeFound, BadgeNotFound, BadgeLookupFails, FetchTLResponse,
         FetchFails, ApplyDANE, Return, Unshared, InsertAndVerify
<1>3. ASSUME NEW f \in Fqdn, NEW cert \in Cert, VerifyServer(c, f, cert)
      PROVE  OwnEvidence(c)'
  <2>1. /\ NewCall("server", f, None, cert) \in Call
        /\ NewCall("server", f, None, cert).startedAt = now
    BY <1>1, VerifierConstants DEF NewCall, Call
  <2>. QED  BY <1>2, <1>3, <2>1, CheckCacheFresh DEF VerifyServer
<1>4. ASSUME NEW cert \in Cert, VerifyClient(c, cert)
      PROVE  OwnEvidence(c)'
  <2>. DEFINE k == NewCall("client", cert.names[1].host, cert.names[1].version, cert)
  <2>1. cert \in Certificate /\ cert.names \in Seq(Name) /\ cert.names # <<>>
    BY <1>4, VerifierConstants DEF VerifyClient, Certificate
  <2>2. cert.names[1] \in Name
    BY <2>1
  <2>3. k \in Call /\ k.startedAt = now
    BY <1>1, <2>1, <2>2 DEF NewCall, Call, Name
  <2>4. CheckCache(c, k)
    BY <1>4 DEF VerifyClient
  <2>. HIDE DEF k
  <2>. QED  BY <1>2, <2>3, <2>4, CheckCacheFresh
<1>5. ASSUME NEW f \in Fqdn, Prefetch(c, f)
      PROVE  OwnEvidence(c)'
  <2>1. /\ NewCall("prefetch", f, None, None) \in Call
        /\ NewCall("prefetch", f, None, None).startedAt = now
    BY <1>1 DEF NewCall, Call
  <2>. QED  BY <1>2, <1>5, <2>1, CheckCacheFresh DEF Prefetch
<1>6. ASSUME NEW cert \in Cert, VerifyClientCertError(c, cert)
      PROVE  OwnEvidence(c)'
  BY <1>2, <1>6, FinishFresh DEF VerifyClientCertError
<1>7. ASSUME NEW url \in URL, BadgeFound(c, url)
      PROVE  OwnEvidence(c)'
  <2>1. pc[c] = "dns" /\ pc'[c] = "tlog" /\ call'[c] = call[c]
    BY <1>1, <1>7 DEF BadgeFound, CallFunctions
  <2>. QED  BY <1>1, <1>2, <2>1 DEF OwnEvidence
<1>8. CASE BadgeNotFound(c)
  BY <1>2, <1>8, FinishFresh DEF BadgeNotFound
<1>9. CASE BadgeLookupFails(c) \/ FetchFails(c)
  <2>1. PICK type \in {"DNSError", "TlogError", "FailOpen"}, r \in TLResponse \cup {None} :
          Finish(c, type, r)
    BY <1>1, <1>9, PolicyType DEF BadgeLookupFails, FetchFails
  <2>2. UNCHANGED call
    BY <1>9 DEF BadgeLookupFails, FetchFails
  <2>. QED  BY <1>2, <2>1, <2>2, FinishFresh
\* Whoever answers, answers now, and the call began no later.
<1>10. CASE FetchTLResponse(c)
  <2>1. PICK r \in AnswersTo(answer[c]) : answer' = [answer EXCEPT ![c] = r]
    BY <1>10 DEF FetchTLResponse
  <2>2. answer[c] \in URL
    BY <1>1, <1>10 DEF FetchTLResponse, CallTypeOK
  <2>3. r.asOf = now
    BY <1>1, <2>2, AnswerType DEF SysShape
  <2>4. pc'[c] = "insert" /\ call'[c] = call[c] /\ answer'[c].asOf = now
    BY <1>1, <1>10, <2>1, <2>3 DEF FetchTLResponse, CallFunctions
  <2>. QED  BY <1>1, <1>10, <2>4 DEF FetchTLResponse, OwnEvidence
<1>11. CASE InsertAndVerify(c)
  <2>. DEFINE k == call[c]
              r == answer[c]
  <2>1. Judge(c, Verdict(k, r), r) /\ UNCHANGED call /\ pc[c] = "insert"
    BY <1>11 DEF InsertAndVerify
  <2>2. pc'[c] \in {"dane", "done"} /\ outcome'[c].resp = r /\ call'[c] = k
    BY <1>1, <2>1 DEF Judge, Result, CallFunctions
  <2>. QED  BY <1>1, <1>2, <2>1, <2>2 DEF OwnEvidence
<1>12. ASSUME NEW d \in DANEOutcomeType, ApplyDANE(c, d)
       PROVE  OwnEvidence(c)'
  <2>1. outcome[c].type = "Verified" /\ outcome[c] \in Outcome
    BY <1>1, <1>12 DEF ApplyDANE, CallSound, CallTypeOK
  <2>2. /\ pc'[c] = "done" /\ call'[c] = call[c]
        /\ outcome'[c].type \in {"Verified", "DANERejection"}
    BY <1>1, <1>12, <2>1 DEF ApplyDANE, CallFunctions, Outcome
  <2>. QED  BY <1>1, <1>2, <2>2 DEF OwnEvidence
<1>13. CASE Return(c)
  <2>1. pc'[c] = "idle" /\ call'[c] = None
    BY <1>1, <1>13 DEF Return, CallFunctions
  <2>. QED  BY <2>1 DEF OwnEvidence
<1>. QED
  BY <1>3, <1>4, <1>5, <1>6, <1>7, <1>8, <1>9, <1>10, <1>11, <1>12, <1>13
     DEF StartCall, CallStep

LEMMA FreshInvNext == FreshInv /\ [SysNext]_sysVars => FreshInv'
<1>. SUFFICES ASSUME FreshInv, [SysNext]_sysVars PROVE FreshInv'  OBVIOUS
<1>1. SysInv'
  BY SysInvNext DEF FreshInv
<1>2. /\ SysShape /\ now \in Nat
      /\ \A c \in Caller : OwnEvidence(c) /\ CallTypeOK(c)
  BY CallTypesSplit DEF FreshInv, SysInv, SysShape, TypeOK
\* Time passes, and the steps of others leave the call alone.
<1>3. ASSUME NEW c \in Caller, now' \in {now, now + 1}, pc'[c] = pc[c], call'[c] = call[c],
             answer'[c] = answer[c], outcome'[c] = outcome[c]
      PROVE  OwnEvidence(c)'
  <2>1. OwnEvidence(c) /\ (pc[c] \in {"dns", "tlog"} => call[c].startedAt \in Nat)
    BY <1>2 DEF CallTypeOK, Call
  <2>2. pc[c] \in {"dns", "tlog"} => call[c].startedAt <= now'
    BY <1>2, <1>3, <2>1 DEF OwnEvidence
  <2>. QED  BY <1>3, <2>1, <2>2 DEF OwnEvidence
<1>4. CASE SysTick
  BY <1>1, <1>3, <1>4 DEF SysTick, Tick, callVars, FreshInv
<1>5. CASE CacheStep \/ LogStep \/ UNCHANGED sysVars
  <2>1. UNCHANGED <<now, callVars>>
    BY <1>5 DEF CacheStep, Clear, StartBackgroundRefresh, CollectExpiring,
                RefreshFetched, RefreshFailed, RefreshInsert, RefreshRoundDone,
                StopBackgroundRefresh, LogStep, Renew, SetStatus, sysVars, callVars
  <2>. QED  BY <1>1, <1>3, <2>1 DEF callVars, FreshInv
<1>6. ASSUME NEW c \in Caller, StartCall(c) \/ CallStep(c) \/ Return(c)
      PROVE  FreshInv'
  <2>1. now' = now
    BY <1>6 DEF StartCall, CallStep, VerifyServer, VerifyClient,
                VerifyClientCertError, Prefetch, BadgeFound, BadgeNotFound,
                BadgeLookupFails, FetchTLResponse, FetchFails, ApplyDANE, Return,
                Unshared, InsertAndVerify
  <2>2. OnlyCaller(c)
    BY <1>2, <1>6, CallStepType
  <2>3. OwnEvidence(c)'
    BY <1>6, CallStepFresh
  <2>4. ASSUME NEW d \in Caller \ {c}
        PROVE  OwnEvidence(d)'
    BY <1>3, <2>1, <2>2 DEF OnlyCaller
  <2>. QED  BY <1>1, <2>3, <2>4 DEF FreshInv
<1>. QED  BY <1>4, <1>5, <1>6 DEF SysNext

\* A fingerprint mismatch that ServerVerifier.Verify reports was judged on a record
\* the log gave after the call began, never on a cached one: the retry past the
\* cache (verify.go, the refresh after a mismatch) leaves no interleaving in which
\* a renewed certificate is rejected for an old answer.
THEOREM MismatchesAreFresh == SysSpec => []MismatchIsFresh
<1>1. SysInit => FreshInv
  BY SysInitInv DEF SysInit, FreshInv, OwnEvidence
<1>2. FreshInv => MismatchIsFresh
  <2>. SUFFICES ASSUME FreshInv, NEW c \in Caller,
                       pc[c] = "done", call[c] # None, call[c].kind = "server",
                       outcome[c].type = "FingerprintMismatch"
                PROVE  outcome[c].resp.asOf >= call[c].startedAt
    BY DEF MismatchIsFresh
  <2>. QED  BY DEF FreshInv, OwnEvidence
<1>. QED  BY <1>1, <1>2, FreshInvNext, PTL DEF SysSpec
=============================================================================
