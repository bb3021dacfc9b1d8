----------------------------- MODULE DnsResolver -----------------------------
(***************************************************************************)
(* StandardDNSResolver (verify/dns_resolver.go) with GetATIBadgeRecords and   *)
(* ParallelDiscovery (verify/parallel.go), for one host.                     *)
(*                                                                         *)
(* The cache holds results by reference: the badge records of a result are   *)
(* a slice in the heap, which every caller that finds the result shares and   *)
(* FindPreferredBadge sorts in place without a lock.  A struct is copied       *)
(* field by field, so a concurrent reader or sorter sees it half written.      *)
(***************************************************************************)
EXTENDS DnsRecords, FiniteSets, TLC

CONSTANTS
    Caller,     \* goroutines
    Zones,      \* what the host's owner may publish: [ati, ra, disc], sets of TXT records
    Wanted,     \* the versions FindBadgeForVersion may be asked for
    Apps,       \* what the application calls, one of these: a set of kinds of call
    SliceId,    \* addresses of slices
    CacheTTL,   \* r.cacheTTL
    Timeout,    \* r.timeout: the longest a lookup takes
    LastChange, \* bound of the model: the zone is not changed after this time
    MaxTime     \* bound of the model: the clock stops here

\* A slice of badge records, and whether goroutines have raced for it (a history
\* variable).
Slice == [recs: Seq(BadgeRecord), raced: BOOLEAN]

ASSUME ResolverConstants ==
    /\ Absent \notin Slice
    /\ CacheTTL \in Nat
    /\ Timeout \in Nat \ {0}
    /\ LastChange \in Nat
    /\ MaxTime \in Nat
    /\ IsFiniteSet(Caller) /\ IsFiniteSet(SliceId)
    /\ Cardinality(SliceId) > Cardinality(Caller)  \* some slice is always free
    /\ \A z \in Zones :
          /\ IsFiniteSet(z.ati) /\ IsFiniteSet(z.ra) /\ IsFiniteSet(z.disc)
          /\ \A t \in z.ati \cup z.ra : {t.av, t.version, t.u, t.url} \subseteq Value
          /\ \A t \in z.disc : /\ {t.av, t.version, t.ver} \subseteq Value
                              /\ {t.p, t.proto, t.u, t.url} \subseteq Nat \cup {Absent}
                              /\ ParseATIRecord(t) # Absent

VARIABLES
    app,       \* what the application calls
    now,       \* the clock
    zone,      \* what the DNS serves
    since,     \* history: when the zone was last changed
    cache,     \* r.cache: key -> Absent or [result, createdAt]
    heap,      \* the slices of badge records: [recs, raced], or Absent
    call,      \* the call of each goroutine
    parallel   \* the pair of goroutines that a ParallelDiscovery waits for, or <<>>

vars == <<app, now, zone, since, cache, heap, call, parallel>>

Key == {"badge", "discovery"}

KeyOf(kind) == IF kind = "discovery" THEN "discovery" ELSE "badge"

\* The places where a call of FindPreferredBadge or FindBadgeForVersion has a slice.
InUse == {"sort", "swap", "scan", "ptr"}

Idle == [at |-> "idle"]

\* The calls: of which kind, for which version.
Calls == [kind: {"preferred", "discovery"}, want: {Absent}] \cup
         [kind: {"version"}, want: Wanted]

\* Where a call can be, with its local variables there.  A goroutine that
\* ParallelDiscovery has started for a call; a call that has found an expired entry, that
\* waits for the DNS, that has its answer, and that is over.
Started(k) == [at |-> "start", kind |-> k.kind, want |-> k.want]

Expired(k) == [at |-> "expired", kind |-> k.kind, want |-> k.want]

Querying(k, name, until) ==
    [at |-> "query", kind |-> k.kind, want |-> k.want, name |-> name, deadline |-> until]

Answered(k, txts) ==
    [at |-> "answered", kind |-> k.kind, want |-> k.want, name |-> k.name,
     deadline |-> k.deadline, txts |-> txts]

Ended(k, outcome) == [at |-> "done", kind |-> k.kind, want |-> k.want, outcome |-> outcome]

\* A call that has slice s, with the zone it is to answer for (a history variable): it
\* looks for its version, sorts, swaps two elements of its sort, and points to the first.
Scanning(k, s, z, i, pass) ==
    [at |-> "scan", kind |-> k.kind, want |-> k.want, slice |-> s, zone |-> z, i |-> i,
     pass |-> pass]

Sorting(k, s, z, i, j) ==
    [at |-> "sort", kind |-> k.kind, want |-> k.want, slice |-> s, zone |-> z, i |-> i, j |-> j]

Field == {"version", "url"}

Swapping(k, tmp, back, todo) ==
    [at |-> "swap", kind |-> k.kind, want |-> k.want, slice |-> k.slice, zone |-> k.zone,
     i |-> k.i, j |-> k.j, tmp |-> tmp, back |-> back, todo |-> todo]

Pointing(k) ==
    [at |-> "ptr", kind |-> k.kind, want |-> k.want, slice |-> k.slice, zone |-> k.zone]

-----------------------------------------------------------------------------
(* The slices.                                                             *)

SliceOf(result) == IF result.found THEN {result.slice} ELSE {}

\* The slices that are reachable from the cache or from a call.
Reachable(ch, cl) ==
    (IF ch["badge"] = Absent THEN {} ELSE SliceOf(ch["badge"].result)) \cup
    {cl[c].slice : c \in {d \in Caller : cl[d].at \in InUse}}

\* The heap after a step, without what has become unreachable.
HeapBecomes(h) ==
    heap' = [s \in SliceId |-> IF s \in Reachable(cache', call') THEN h[s] ELSE Absent]

NewestFirst(recs) == \A i \in 1..(Len(recs) - 1) : ~Before(recs[i + 1], recs[i])

\* History: goroutine c, with a call of this kind, gets a slice that another is
\* using, and one of the two may write to it.
Races(c, kind, s) ==
    \E d \in Caller \ {c} :
        /\ call[d].at \in InUse
        /\ call[d].slice = s
        /\ "preferred" \in {kind, call[d].kind}
        /\ NewestFirst(heap[s].recs) => call[d].at = "swap"

-----------------------------------------------------------------------------
(* The environment: time, and the owner of the zone.                        *)

Init ==
    /\ app \in Apps
    /\ now = 0
    /\ zone \in Zones
    /\ since = 0
    /\ cache = [k \in Key |-> Absent]
    /\ heap = [s \in SliceId |-> Absent]
    /\ call = [c \in Caller |-> Idle]
    /\ parallel = <<>>

\* A lookup in flight ends by its deadline.
Tick ==
    /\ now < MaxTime
    /\ \A c \in Caller : call[c].at \in {"query", "answered"} => now < call[c].deadline
    /\ now' = now + 1
    /\ UNCHANGED <<app, zone, since, cache, heap, call, parallel>>

Publish(z) ==
    /\ now <= LastChange
    /\ z # zone
    /\ zone' = z
    /\ since' = now
    /\ UNCHANGED <<app, now, cache, heap, call, parallel>>

-----------------------------------------------------------------------------
(* The cache.                                                              *)

Entry(result) == [result |-> result, createdAt |-> now]

NotFound == [found |-> FALSE]

EntryExpired(entry) == now - entry.createdAt > CacheTTL

ClearCache ==
    /\ cache # [k \in Key |-> Absent]
    /\ cache' = [k \in Key |-> Absent]
    /\ UNCHANGED <<app, now, zone, since, call, parallel>>
    /\ HeapBecomes(heap)

\* History: the zone, if it has been the same for so long that no older answer
\* can be in use.
Settled == IF now > since + CacheTTL + 2 * Timeout THEN zone ELSE Absent

Goto(c, k) == call' = [call EXCEPT ![c] = k]

Query(c, k, name) == Goto(c, Querying(k, name, now + Timeout))

Done(c, k, outcome) == Goto(c, Ended(k, outcome))

NoRecord(zn) == [err |-> "NotFound", zone |-> zn]

\* LookupATIBadge or LookupATIDiscovery returns a result, and the Find method goes
\* on with its records.
Returned(c, k, result, h) ==
    LET raced == heap[result.slice] # Absent /\ Races(c, k.kind, result.slice)
    IN  /\ IF ~result.found THEN Done(c, k, NoRecord(Settled))
           ELSE IF k.kind = "discovery"
             THEN Done(c, k, [err |-> "", records |-> result.records, zone |-> Settled])
           ELSE IF k.kind = "preferred" THEN Goto(c, Sorting(k, result.slice, Settled, 2, 2))
           ELSE Goto(c, Scanning(k, result.slice, Settled, 1, 1))
        /\ HeapBecomes(IF k.kind # "discovery" /\ result.found /\ raced
                         THEN [h EXCEPT ![result.slice].raced = TRUE] ELSE h)

FirstName(kind) == IF kind = "discovery" THEN "disc" ELSE "ati"

\* A method of the resolver is called, by an idle goroutine or as one of
\* ParallelDiscovery; getCached, up to the decision: a hit, a miss, or an entry to
\* delete.
GetCached(c, k) ==
    LET entry == cache[KeyOf(k.kind)]
    IN  /\ \/ call[c] = Idle /\ k.kind \in app
           \/ call[c] = Started(k)
        /\ UNCHANGED <<app, now, zone, since, cache, parallel>>
        /\ IF entry = Absent THEN Query(c, k, FirstName(k.kind)) /\ UNCHANGED heap
           ELSE IF EntryExpired(entry)
             THEN Goto(c, Expired(k)) /\ UNCHANGED heap
           ELSE Returned(c, k, entry.result, heap)

\* cache.Delete: whatever is in the cache by now.
DeleteExpired(c) ==
    /\ call[c].at = "expired"
    /\ cache' = [cache EXCEPT ![KeyOf(call[c].kind)] = Absent]
    /\ Query(c, call[c], FirstName(call[c].kind))
    /\ HeapBecomes(heap)
    /\ UNCHANGED <<app, now, zone, since, parallel>>

-----------------------------------------------------------------------------
(* The lookups.                                                            *)

\* The DNS answers with the records of the name, in any order (none: NXDOMAIN).
Answer(c, txts) ==
    /\ call[c].at = "query"
    /\ Goto(c, Answered(call[c], txts))
    /\ UNCHANGED <<app, now, zone, since, cache, heap, parallel>>

\* Faulty variant: any failure of the first lookup falls back to the second name.
LookupFailsOver(c, err) ==
    /\ call[c].at = "query"
    /\ IF call[c].name = "ati" THEN Query(c, call[c], "ra") ELSE Done(c, call[c], [err |-> err])
    /\ UNCHANGED <<app, now, zone, since, cache, heap, parallel>>

\* A hard error ends the call, whichever name it is about; handleLookupError tells a
\* timeout from the rest, for badges.
LookupFails(c, err) ==
    /\ call[c].at = "query"
    /\ call[c].kind = "discovery" => err = "LookupFailed"
    /\ Done(c, call[c], [err |-> err])
    /\ UNCHANGED <<app, now, zone, since, cache, heap, parallel>>

ParsedBadges(txts) ==
    LET usable == Kept(txts, {t \in Range(txts) : IsBadgeRecord(t)})
    IN  [i \in DOMAIN usable |-> ParseATIBadgeRecord(usable[i])]

ParsedATIRecords(txts) ==
    LET usable == Kept(txts, {t \in Range(txts) : IsATIRecord(t)})
    IN  [i \in DOMAIN usable |-> ParseATIRecord(usable[i])]

\* No usable record under the first name: the legacy name is asked.
FallBack(c) ==
    /\ call[c].at = "answered"
    /\ call[c].name = "ati"
    /\ ParsedBadges(call[c].txts) = <<>>
    /\ Query(c, call[c], "ra")
    /\ UNCHANGED <<app, now, zone, since, cache, heap, parallel>>

\* The result is cached and returned.
StoreBadges(c) ==
    LET recs == ParsedBadges(call[c].txts)
        s == CHOOSE id \in SliceId : heap[id] = Absent
        result == IF recs = <<>> THEN NotFound ELSE [found |-> TRUE, slice |-> s]
    IN  /\ call[c].at = "answered"
        /\ call[c].kind # "discovery"
        /\ recs = <<>> => call[c].name = "ra"
        /\ cache' = [cache EXCEPT !["badge"] = Entry(result)]
        /\ Returned(c, call[c], result, [heap EXCEPT ![s] = [recs |-> recs, raced |-> FALSE]])
        /\ UNCHANGED <<app, now, zone, since, parallel>>

StoreDiscovery(c) ==
    LET records == ParsedATIRecords(call[c].txts)
        result == IF records = <<>> THEN NotFound ELSE [found |-> TRUE, records |-> records]
    IN  /\ call[c].at = "answered"
        /\ call[c].kind = "discovery"
        /\ cache' = [cache EXCEPT !["discovery"] = Entry(result)]
        /\ Returned(c, call[c], result, heap)
        /\ UNCHANGED <<app, now, zone, since, parallel>>

-----------------------------------------------------------------------------
(* FindPreferredBadge: sort.Slice is an insertion sort on so short a slice.   *)

Recs(c) == heap[call[c].slice].recs

Write(c, pos, field, value) ==
    heap' = [heap EXCEPT ![call[c].slice].recs[pos][field] = value]

\* The next comparison of the sort, or its end, with a pointer to the first element.
SortStep(c) ==
    LET k == call[c]
    IN  /\ k.at = "sort"
        /\ IF k.i > Len(Recs(c)) THEN Goto(c, Pointing(k))
           ELSE IF k.j > 1 /\ Before(Recs(c)[k.j], Recs(c)[k.j - 1])
             THEN Goto(c, Swapping(k, Recs(c)[k.j], FALSE, Field))
           ELSE Goto(c, Sorting(k, k.slice, k.zone, k.i + 1, k.i + 1))
        /\ UNCHANGED <<app, now, zone, since, cache, heap, parallel>>

\* One field of a swap: first element j-1 is copied over j, then the saved j over j-1.
SwapField(c, f) ==
    LET k == call[c]
    IN  /\ k.at = "swap"
        /\ f \in k.todo
        /\ IF k.back THEN Write(c, k.j - 1, f, k.tmp[f]) ELSE Write(c, k.j, f, Recs(c)[k.j - 1][f])
        /\ IF k.todo # {f} THEN Goto(c, Swapping(k, k.tmp, k.back, k.todo \ {f}))
           ELSE IF ~k.back THEN Goto(c, Swapping(k, k.tmp, TRUE, Field))
           ELSE Goto(c, Sorting(k, k.slice, k.zone, k.i, k.j - 1))
        /\ UNCHANGED <<app, now, zone, since, cache, parallel>>

\* The caller reads the record through the pointer it was given.
ReadPreferred(c) ==
    LET k == call[c]
    IN  /\ k.at = "ptr"
        /\ Done(c, k, [err |-> "", rec |-> Recs(c)[1], raced |-> heap[k.slice].raced, zone |-> k.zone])
        /\ UNCHANGED <<app, now, zone, since, cache, parallel>>
        /\ HeapBecomes(heap)

-----------------------------------------------------------------------------
(* FindBadgeForVersion and the callers.                                     *)

\* One record is looked at: in the first pass for the version, in the second for
\* having none.
ScanStep(c) ==
    LET k == call[c]
        r == Recs(c)[k.i]
        found == r.version = IF k.pass = 1 THEN k.want ELSE Absent
        raced == heap[k.slice].raced
    IN  /\ k.at = "scan"
        /\ IF found THEN Done(c, k, [err |-> "", rec |-> r, raced |-> raced, zone |-> k.zone])
           ELSE IF k.i < Len(Recs(c)) THEN Goto(c, Scanning(k, k.slice, k.zone, k.i + 1, k.pass))
           ELSE IF k.pass = 1 THEN Goto(c, Scanning(k, k.slice, k.zone, 1, 2))
           ELSE Done(c, k, NoRecord(IF raced THEN Absent ELSE k.zone))
        /\ UNCHANGED <<app, now, zone, since, cache, parallel>>
        /\ HeapBecomes(heap)

ReturnOutcome(c) ==
    /\ call[c].at = "done"
    /\ \A i \in DOMAIN parallel : parallel[i] # c
    /\ call' = [call EXCEPT ![c] = Idle]
    /\ UNCHANGED <<app, now, zone, since, cache, heap, parallel>>

\* ParallelDiscovery starts its two goroutines of the resolver; the one of the TLSA
\* records writes fields of its own and cannot fail the call.
ParallelDiscovery(d, b) ==
    /\ "parallel" \in app
    /\ parallel = <<>>
    /\ d # b
    /\ call[d].at = "idle" /\ call[b].at = "idle"
    /\ call' = [call EXCEPT ![d] = Started([kind |-> "discovery", want |-> Absent]),
                            ![b] = Started([kind |-> "preferred", want |-> Absent])]
    /\ parallel' = <<d, b>>
    /\ UNCHANGED <<app, now, zone, since, cache, heap>>

AgentID(outcome) == IF outcome.err # "" THEN Absent ELSE outcome.records[1].id

\* wg.Wait returns; without an agent ID the call fails, with the error of the
\* discovery lookup if it had one.  A failed badge lookup leaves its fields empty.
Discovered ==
    LET d == call[parallel[1]].outcome
        b == call[parallel[2]].outcome
    IN  IF AgentID(d) = Absent
          THEN [err |-> IF d.err \in {"Timeout", "LookupFailed"} THEN d.err ELSE "CoreRecordMissing"]
          ELSE [err |-> "", AgentID |-> AgentID(d), AgentCardURL |-> d.records[1].url,
                badge |-> IF b.err = "" THEN b.rec ELSE Absent]

WaitReturns ==
    /\ parallel # <<>>
    /\ \A i \in DOMAIN parallel : call[parallel[i]].at = "done"
    /\ call' = [c \in Caller |-> IF c \in Range(parallel) THEN Idle ELSE call[c]]
    /\ parallel' = <<>>
    /\ UNCHANGED <<app, now, zone, since, cache, heap>>

\* The steps of a call once it has begun.
CallStep(c) ==
    \/ DeleteExpired(c)
    \/ call[c].at = "query" /\ \E txts \in SetToSeqs(zone[call[c].name]) : Answer(c, txts)
    \/ \E err \in {"Timeout", "LookupFailed"} : LookupFails(c, err)
    \/ call[c].at = "answered" /\ (FallBack(c) \/ StoreBadges(c) \/ StoreDiscovery(c))
    \/ SortStep(c) \/ ReadPreferred(c) \/ ScanStep(c)
    \/ \E f \in Field : SwapField(c, f)

Next ==
    \/ Tick
    \/ \E z \in Zones : Publish(z)
    \/ ClearCache
    \/ \E c \in Caller :
          \/ \E k \in Calls : GetCached(c, k)
          \/ CallStep(c)
          \/ ReturnOutcome(c)
    \/ \E d, b \in Caller : ParallelDiscovery(d, b)
    \/ WaitReturns

Spec == Init /\ [][Next]_vars

-----------------------------------------------------------------------------
(* Properties.                                                             *)

\* The badge records a resolver without a cache would find in this zone.
Usable(z) ==
    LET parsed(name) == {ParseATIBadgeRecord(t) : t \in {u \in z[name] : IsBadgeRecord(u)}}
    IN  IF parsed("ati") # {} THEN parsed("ati") ELSE parsed("ra")

\* The outcome of a call is right for this zone.
RightFor(kind, want, o, z) ==
    CASE kind = "discovery" ->
            {ParseATIRecord(t) : t \in {u \in z.disc : IsATIRecord(u)}} =
                IF o.err = "" THEN Range(o.records) ELSE {}
      [] kind = "preferred" ->
            IF o.err # "" THEN Usable(z) = {}
            ELSE o.rec \in Usable(z) /\ \A r \in Usable(z) : ~Before(r, o.rec)
      [] kind = "version" ->
            LET match == {r \in Usable(z) : r.version = want}
                rest == {r \in Usable(z) : r.version = Absent}
                best == IF match # {} THEN match ELSE rest
            IN  IF o.err # "" THEN best = {} ELSE o.rec \in best

\* What a zone has served for more than one TTL and two lookups is what every call
\* answers: the newest badge, or the one of the version, of the ATI name if it has any
\* and of the legacy name otherwise (LookupATIBadge, FindPreferredBadge,
\* FindBadgeForVersion, LookupATIDiscovery).  Whatever fails or is cached meanwhile, a
\* legacy or a withdrawn record is not served longer; and ParallelDiscovery names an
\* agent of the zone, whatever its badge lookup does.  Not claimed of a slice that two
\* goroutines have used while it was being sorted.
SettledAnswer ==
    /\ \A c \in Caller :
          call[c].at = "done" =>
              LET o == call[c].outcome
              IN  o.err \in {"", "NotFound"} =>
                      (o.zone # Absent /\ ("raced" \in DOMAIN o => ~o.raced)
                          => RightFor(call[c].kind, call[c].want, o, o.zone))
    /\ parallel # <<>> /\ (\A i \in DOMAIN parallel : call[parallel[i]].at = "done") =>
          LET d == call[parallel[1]].outcome
          IN  d.err = "" => (d.zone # Absent =>
                  Discovered.err = "CoreRecordMissing"
                      \/ Discovered.AgentID \in {ParseATIRecord(t).id : t \in d.zone.disc})

\* r is the record of the set with the highest version and, among equals, the least
\* protocol and URL.
IsLatest(r, S) ==
    /\ r \in S
    /\ \A q \in S :
          \/ q.version < r.version
          \/ /\ q.version = r.version
             /\ ~StringLess(q.protocol, r.protocol)
             /\ q.protocol = r.protocol => ~StringLess(q.url, r.url)

\* Whatever order the DNS lists the records in, LATEST and LATEST_COMPATIBLE select the
\* same version, protocol and URL: the latest allowed record that serves the protocol,
\* when there is one (ResolveVersionForProtocol, preferRecord).
SelectionIsOrderFree ==
    \A c \in Caller :
        call[c].at = "done" /\ call[c].kind = "discovery" /\ call[c].outcome.err = "" =>
            LET rs == call[c].outcome.records
            IN  \A protocol \in DOMAIN Fold \cup {Absent}, v \in {1, 2, 3, Absent} :
                    LET requested == IF v = Absent THEN Absent
                                     ELSE [allows |-> {w \in 1..2 : w >= v}, version |-> v]
                        S == {r \in Range(rs) :
                                /\ protocol # Absent /\ r.protocol # Absent =>
                                       Fold[r.protocol] = Fold[protocol]
                                /\ v # Absent => r.version \in requested.allows}
                        got == ResolveVersionForProtocol(rs, "LATEST_COMPATIBLE", requested, protocol)
                    IN  IF S = {} THEN got = Absent ELSE IsLatest(got, S)

\* FindPreferredBadge "finds the preferred badge (newest version)": SettledAnswer
\* without its exception.
PreferredIsNewest ==
    \A c \in Caller :
        call[c].at = "done" /\ call[c].kind = "preferred" =>
            LET o == call[c].outcome
            IN  o.err = "" => (o.zone # Absent => RightFor("preferred", Absent, o, o.zone))
=============================================================================
