# A TLA+ verification of the ATI Go SDK

This directory specifies, model-checks and proves parts of the Agent Trust
Infrastructure SDK for Go (`src/`). It is written for a reader who has the
repository at hand. Modules are TLA+, runs are TLC configurations, proofs are
checked by TLAPS. `PROJECT.json` maps every definition that models code to the
lines it models, and lists the runs, the mutants that show that each property
can fail, the hazards of the code and the theorems.

## 1. The system

An *agent* is registered in a transparency log (the *TL*): its record holds a
status, the fingerprints of its current and previous certificates, its `ati://`
name and its host names. The DNS of the host points to the record (`_ati-badge`
TXT records). The SDK connects to agents over mutual TLS and decides, from the
peer certificate, the DNS, the TL, DANE and, in its newer parts, SCITT artifacts,
whether the peer is the agent it claims to be.

| component | source | state it keeps | operations | what is hard |
|---|---|---|---|---|
| badge cache | `verify/cache.go` | two maps (by FQDN, by FQDN and version) under one RWMutex, a common limit | `Insert`, `InsertForVersion`, `GetBy*`, `GetStaleBy*`, `Clear`, background refresh | a refresh answer inserted late; trimming after the insertion; victims in map order; retention against eviction |
| badge verification | `verify/verify.go`, `outcome.go`, `policy.go` | none but the shared cache | `ServerVerifier.Verify`, `ClientVerifier.Verify`, `Prefetch`, `VerifyWithScitt` | up to three requests per call, each may fail; failure policies; revocations and renewals between two steps; concurrent calls over one cache |
| SCITT root keys | `verify/scitt/refreshable_key_store.go`, `root_keys.go` | key snapshot, `lastRefreshed`, `refreshGate` | `RefreshIfCooldownElapsed`, `DoRefresh`, background refresh | double-checked cooldown with reads outside the lock; a background refresh that ignores the gate |
| SCITT header supplier | `verify/scitt/supplier.go` | receipt, token, its exp, `initialized`, `lastError`, `initGate` | `CurrentHeaders`, `RefreshNow`, auto-refresh | lazy retryable initialisation; results of concurrent fetches stored out of order; state spread over several critical sections |
| SCITT artifact caches | `verify/scitt/cache.go` | a map and a queue of insertion order | `Insert`, `Get`, `Invalidate` | the queue must follow the map |
| session monitor | `verify/session_monitor.go` | map of sessions, `stopCh`, one goroutine per session | `Watch`, its stop function, `Stop` | a `select` with several ready branches; two sessions of one host; a revocation must be reported in the end |
| DNS resolution | `verify/dns_resolver.go` and the record parsers | a TTL cache in a `sync.Map` | `Lookup*`, `Find*Badge`, `ClearCache` | a fallback name; negative answers cached; a cached slice sorted in place by concurrent callers |
| DANE and DNSSEC | `verify/dane.go`, `dnssec.go` | a cache of zone keys | TLSA lookup, chain walk, retries | many queries between which the DNS changes; which failures reject and which are ignored |
| agent client | `ati/mtls_client.go`, `connect.go` | `verifyCache` of verified peer certificates | `Do` and its checks | the order of request and checks; a cache without expiry |
| agent server | `ati/server.go` | the trust level reached per peer | `VerifyConnection` | which policy reaches which check; CRL check |
| CRL | `verify/crl/*.go` | cache of CRLs by URI | `Fetch`, `Check` | stale lists, concurrent fetches |
| SCITT verification | `verify/scitt/{receipt,status_token,cose,merkle}.go`, `verify.go:395-686` | none | `VerifyReceipt`, `VerifyStatusTokenAt`, `VerifyWithScitt` | Merkle walk at the boundaries of the tree; fallback to badges |
| Gold, stapling, offline, OCSP | `verify/{gold,stapling,offline,merkle,seal,ocsp,producer}.go` | none | pipelines of checks | evidence that outlives the record; which key a seal may be checked with; Merkle walk at the edge of the tree |
| discovery, version policy | `ati/discovery.go`, `version_policy.go`, `verify/parallel.go` | none | selection of a record and version, parallel lookups | answers in any order; one of two lookups failing |
| diagnostics | `ati/diagnose.go` | none | `Diagnose` | which steps a failure skips |
| cards, canonical JSON | `verify/{agent_card,jcs,jws_detached,trust_index}.go`, `ati/trust_card.go` | none | formatting, signatures | nothing a model checker reaches |
| registry client | `internal/registry`, `internal/httputility` | none | HTTP requests | I/O only |
| examples | `examples/` | none | demonstration | nothing |

How they interact: the client and the server call the verifiers; the two
verifiers of an `AnsVerifier` share one badge cache, with whatever `refreshFn`
the application starts on it; every verifier calls the DNS resolver, the TL
client and, if configured, DANE. The header supplier and `VerifyWithScitt` read
the snapshot of the root-key store, which refreshes itself through the same HTTP
client. The session monitor calls the DNS resolver and the TL client on its own
and reports through a callback. All state is in memory; nothing is persisted, so
there is no recovery after a crash to specify.

What makes the components correct, in one sentence each: evidence that decides
a verdict is recent, however calls and refreshes interleave; a revocation takes
effect within a known time; a cache respects its limit and loses nothing without
cause; trusted keys are pinned; what is sent is verified and unexpired; every
goroutine ends and every call returns.

## 2. The modules and the code they model

`X.tla` is the specification, `MCX.tla` its instances, `XProofs.tla` its proofs.

### BadgeCache (`verify/cache.go`)

`byFqdn` and `byFqdnVer` are the two maps; an entry keeps the TL response and its
`fetchedAt` and `expiresAt`. A method that holds the lock from its first read to
its last write is one action: `Insert`, `InsertForVersion` (each ends in
`CleanupLocked`), `Clear`. `GetFresh` and `GetStale` are the reads. The background
goroutine has one action for each stretch between two points where it gives up
the lock: `CollectExpiring`, `RefreshFetched` or `RefreshFailed`, `RefreshInsert`,
`RefreshRoundDone`. Go's map iteration order is a choice of the victims. `now` is
the clock; it moves by `Tick` only. `got` holds the answer that is fetched and
not yet inserted.

### BadgeVerifier (`verify/verify.go`), which extends BadgeCache

Any number of goroutines (`Caller`). `pc` cuts a call where the code gives up
control: `dns`, `tlog`, `insert`, `dane`, `done`. `ServerVerdict` and
`ClientVerdict` are the two `verifyWithTLResponse` functions with their checks in
the code's order; `ApplyFailurePolicy` is `applyFailurePolicy` with
`applyFailOpenWithCache`; `HitDecides` is the cache lookup with its second chance
for a server certificate that does not match. Certificates are records of what the
verdicts read: fingerprint, parsed `ati://` names, hosts that the DNS SANs cover,
presence of a CN. The TL is external: `Renew` moves a fingerprint to the previous
one, `SetStatus` changes the status, a terminal status is final.

The DNS is not trusted: the badge URL that `BadgeFound` takes from it may name any host
and any record. Whether the log is asked is a matter of the configuration. `rewriteTLHost`
replaces the host if `trustedTLHost` is set, and keeps the DNS's otherwise, which is the
default (`options.go:52`). `Reached` are the hosts that may answer the request: the one
it is made to, if the log client verifies the server's certificate (`tlsVerified`), and any
otherwise, which is the default too (`tlog.go:39`). `AnswersTo` lets the log answer with
the record as it is, and any other host with what it likes (`Elsewhere`). A configuration
that sets the log's host and verifies its server is `Anchored`; `KeepsPromise`,
`RevocationHorizon` and `EvidenceIsTheLogs` are about anchored verifiers (the second also
about what any verifier concludes from the log's own answers). The agent client and the agent
server set the host; that their requests reach it is then up to the log client the
application gives them, or to the network. An error of `RewriteBadgeURLHost` is left out:
it occurs only for a URL that does not parse, which the record parser has refused already
and which could not be requested either. `asOf`, `from`, `endedAt`, `startedAt` and the
time of an outcome are history, needed to state the properties.

### BadgePromise, which BadgeVerifier implements

What the application is promised, without caches, requests or failures: a caller is
told that an agent is verified (`Grant`) while the agent's record is live, or within
`Horizon` after its end. `BadgeVerifier` instantiates it as `Promise`: `ended` is the
time at which a record's status became terminal, `granted` the agent and the time of a
`Verified` outcome, `Horizon` is `DefaultTTL + FetchTimeout`. The promise is that of an
`Anchored` verifier; one in the default configuration does not keep it. Everything else, the cache,
the refresh, the steps of a call, is invisible to it. A `FailOpen` outcome grants
nothing in this sense; what it may rest on is `EvidenceIsRecent`.

`ScittVerifier` implements it too, for its one agent: `endedAt` is when the agent was
revoked, and its `Horizon` is the larger of the two tiers' (a token's life plus the largest
tolerance, or the badge path's own).

### RefreshableKeyStore (`verify/scitt/refreshable_key_store.go`, `root_keys.go`)

`QuickCheck` compares a copy of `lastRefreshed` after the unlock; `AcquireGate` and
`Recheck` are the second check under `refreshGate`; `FetchRootKeys`, `FetchFails`
and `Merge` are `DoRefresh`, shared by the callers and the background goroutine,
which takes no gate. `MergeFrom` is the merge of a list of key strings: known keys
win, earlier ones win over later ones, unparsable strings are skipped.

### ScittArtifacts and ScittVerifier (`verify/scitt/*.go`, `verify.go:195-216, 395-686`)

`ScittArtifacts` has no state. A COSE_Sign1 message is a record of what the decoder finds
in it; `VerifyReceipt` and `VerifyStatusTokenAt` are the sequences of their checks in the
order of the code, and the first that fails is the error. The signature is the name of the
key that made it. `ScittVerifier` extends the key store with calls of `VerifyWithScitt`:
`VerifyWithScittEntry` ends before any artifact is looked at or takes the badge path,
`VerifyReceiptStep` and `VerifyTokenStep` each look their key up in the snapshot of that
moment (`Get`), so that refreshes, the clock and a revocation fall in between. The log
issues tokens that are true when they are issued (`Issue`), and a peer may present any
earlier one. The badge path is its promise, with `BadgeHorizon`, for a verifier that is
`Anchored`. The `at` of a verified
outcome is history.

### HeaderSupplier (`verify/scitt/supplier.go`)

Every critical section of `s.mu` is an action of its own, the requests lie between
them: `CurrentHeaders` (first read), `InitOnce` (gate and re-check), the steps of
`fetchAndVerify`, `InitFailed` or `InitDone`, `Reread`, `BuildHeaders`. A token is
its exp and whether its status is terminal. The refresh interval of the loop is
abstracted to "some time later"; one auto-refresh goroutine runs at a time.

### SessionMonitor (`verify/session_monitor.go`)

One goroutine per `Watch`. `ticked` is the ticker's channel (one tick at most),
`cancelled` the sessions whose context is done, `stopped` the closed `stopCh`.
`LoopEnds` and `LoopTicks` are the branches of the `select`; both may be enabled.
The stop function is two actions, because it cancels before it takes the lock. Its
specification is `MonitorSpec`, of `MonitorInit` and `MonitorNext`.

### ScittCache (`verify/scitt/cache.go`)

Both caches in one module (`kind`), since they differ in where an entry's expiry
comes from. `EvictLocked` takes the oldest keys from the queue. `born` is history.

### CrlChecker (`verify/crl`) and AgentServer (`ati/server.go`), which extends it

A handshake is a goroutine (`Conn`); `pc` is the check it has reached: `crl`, `crlFetch`
(downloading), `crlStore` (answered, not yet cached), `badge`, `dane`, and `open` or
`refused`. A chain is the sequence of the distribution points of its certificates, and
`CDPStatus`, `CDPUri` and `NeedsList` are `ResolveCDP` and `findIssuingCA` on it. `Fetch`
is cut where its lock is released: `CheckWithCachedList` or `FetchMisses`, then
`Download` or `DownloadFails`, then `StoreAndValidate`, which caches whatever was
answered with the lifetime `TTL` and only then validates it. An answer is a list, or
something that does not parse, or a list somebody else has signed.

`AgentServer` starts from the options: `OptionsAccepted`, `TrustLevel`, `VerifiesClients`
and `ShouldEnableCRL` are the decisions of `NewServerTLSConfig`, `VerifyConnection` and
the steps after it the callback. The server's `ClientVerifier` has no cache, is
fail-closed and has no DANE of its own, so its verification is one step, taken when
the log answers; `BadgeVerifier` has its parts. An explicit level is always set where
the callback runs, so its branches for `!explicit` cannot be reached and are left out.
`cdp`, `ended` and their actions are the environment; `listedAt`, `asOf` and `lateStart`
are history.

### AgentClient (`ati/mtls_client.go`)

A call of `Do` is a goroutine (`Caller`): `discover`, `request`, `badge`, `dane`, then `done`
or `failed`. `Answered` is the exchange with its redirects (`AnswersFrom`) and the look into
`verifyCache`, which follows without waiting; `FirstAnswer` is the code after a miss, and
`Conclude` the final comparison of levels and the store. `NewAgentClient` sets a default
level, so Do's branches for "no explicit level" cannot be reached and are left out. The
verifier is its promise, `BadgeMaySucceed`, which `BadgeVerifierProofs` establishes with
`BadgeAge` = TTL + `FetchTimeout` for a fail-closed verifier that is `Anchored`. `outcome.at` is history.
`VerificationPolicy` has the levels, shared by client and server.

### DnsRecords and DnsResolver (`dns_resolver.go`, record parsers, `version_policy.go`, `parallel.go`)

`DnsRecords` has no state: what the two parsers accept of a TXT record, given as the map of
its fields, and the version policies as operators on the parsed records. Its two loops, the
one that skips what a parser or a filter refuses (`Kept`) and the one that keeps the best
record so far (`BestAmong`), are recursive functions of the number of rounds. `DnsResolver`
is one resolver with the goroutines that share it; `Querying`, `Answered`, `Scanning`,
`Sorting`, `Swapping`, ... are the places of a call with its local variables there. Cached
results hold the *reference* of their slice of badge records (`heap`):
`FindPreferredBadge` sorts it in place, and `SwapField` copies one field of an exchange, in
either order, so another goroutine may read or sort a half-written slice. `GetCached`,
`DeleteExpired`, `Answer`, `LookupFails`, `FallBack` and the stores are one action each,
since the `sync.Map` is not locked across them. `ParallelDiscovery` starts two goroutines
and joins their outcomes.

### DaneVerifier (`verify/dane.go`, `dnssec.go`)

The names are the zones from the root to the one that signs the TLSA records, by number.
A key is a generation; a signature is the generation that made it; a deployment is the
TLSA records and, of each zone, its keys, its signers and its DS records. A call asks for
one RRset after the other (`Answered`, `ErrorCode`, `TimesOut`, `ExchangeFails`), judges each
answer with what it holds (`HandleTLSA`, `HandleDNSKEY`, `HandleDS`, ...) and climbs to the
root; keys are cached for `KeyTTL`. `Deploy` changes the DNS between two queries. `seen` is
history: what has been true of the DNS since the call began, and which faults it met.
The look into the key cache and the deletion of an expired entry are one step, and one
goroutine is enough: entries are never changed, only replaced.

### Merkle and Evidence (`gold.go`, `offline.go`, `stapling.go`, `ocsp.go`, `seal.go`, `producer.go`, `merkle.go`, `diagnose.go`)

`Merkle` has the two implementations of the RFC 9162 walk as one loop over the path
(`WalkFrom`, with the skipped levels in `Aligned`), and the tree hash and audit path of the
RFC as the reference, all as recursive functions. Hashes are terms; `NoHash` is what is not
32 bytes of hex. `Evidence` has the
verifications that keep no state: `VerifyGold` and `Diagnose` ask for the agent's ID and then
for the record (`LogAnswers`), `VerifyOffline`, `VerifyStapledCredential` and `CheckOCSP` judge
what was handed over earlier (`HandOver*`), while the log appends records and ends the agent.
`Responses` is what the log, or what is between it and the verifier, may deliver: genuine,
or with one field missing, damaged or exchanged. `TLVerdict` is the common sequence of
checks; its codes are the code's error codes.

## 3. The runs

| run | instance | what it shows |
|---|---|---|
| `verifier_refresh` | server and client verifications beside the background refresh and `Clear`; certificate renewed and record revoked meanwhile; `FailOpenWithCache`, TTL, retention, staleness and request 1 each, clock to 4; anchored, with a DNS that may name a host that calls ended records live | the verifiers implement `BadgePromise` (`KeepsPromise`); `EvidenceIsRecent`; a mismatch is only reported from an answer fetched by the same call (`MismatchIsFresh`); a late refresh never shortens an entry's life (`ExpiryNeverRecedes`) |
| `verifier_mixed` | 1 call at a time of any kind, 2 hosts, 2 records, 4 configurations (the default among them), 5 certificates, answers of the log and of another host, limit 2 over both maps, fair | `EveryCallReturns` over all kinds of call and refusal; the limit after every insertion (`SizeBounded`); a retained entry is lost only to `Clear` or to a cache that is exactly at its limit afterwards (`LossOnlyWhenFull`) |
| `scitt` | a verifying goroutine, another on-demand caller and the background refresh; 2 keys; good artifacts and, for each check, one that fails it alone; agent revoked meanwhile; fair | `ScittHorizon`; `NoSilentDowngrade`; a refresh between receipt and token never takes the key away (`SameKeyStaysKnown`); `OnDemandSpaced`, `KeysArePinned`, `CallsReturn` |
| `supplier` | 2 callers and the auto-refresh goroutine, fair | `SentTokenUnexpired`, `RevokedTokenHorizon`, `InitializedHasArtifacts`, `CurrentHeadersReturns` |
| `monitor` | 2 sessions of one host, fair | `ReportedOnce`, `CancelledStaysQuiet`, `StopEndsEveryLoop`, `RevocationIsReported` |
| `scitt_cache` | 4 keys, limit 2, 6 insertions | `SizeBounded`, `EvictionIsFIFO`, `HitsLostForCause` |
| `resolver` | 2 goroutines that call the resolver or `ParallelDiscovery`, a zone that migrates from the legacy name, answers in every order, failures | what a zone has served for one TTL and two lookups is what every call answers (`SettledAnswer`); the version policies do not depend on the order of an answer (`SelectionIsOrderFree`) |
| `dane` | 3 zones, 8 deployments (secure, rolled, rolling, without a delegation or without keys, with a signature by an unpublished key, other and no records), loss, failure, refusal, fair | `ConclusiveIsTrue`; a loss is no absence (`LossIsNotAbsence`); cached keys do not outlive a rollover (`SettledChainDecides`); `VerifyReturns` |
| `evidence` | trees of 1, 3, 5 and 7 leaves, 2 keys of different families, verifiers that pin both, one or none, responses with one damaged field | how long each kind of evidence outlives the record (`StatusHorizon`); what an accepted response rests on (`AcceptedIsPublished`); the walk accepts the audit path of RFC 9162 and nothing else (`InclusionIsExact`) |
| `server` | 2 concurrent handshakes, 2 certificates, 3 configurations, lists published and records ended meanwhile | a listed certificate is refused after one maximum age and one request, although an older list may be cached over a newer (`ListedCertRefused`); no verdict rests on an older answer or on an expired cached list (`ListIsCurrent`); a record that had ended refuses whatever the list says (`EndedAgentRefused`); `PeerLevelReported` |
| `client` | 2 concurrent calls of `Do`, 2 hosts and certificates, redirects, 4 configurations, clock to 2, fair | a response above `PolicyBasic` comes from a peer in the agent's record with every check of its level (`ResponseIsVouchedFor`); `verifyCache` holds nothing that was not verified while the record was live (`VerifiedWhileLive`); `DoReturns` |

`verifier_terminal` shows the code disagreeing with what it says of itself; the finding
in `PROJECT.json` quotes the lines: under `FailOpenWithCache` a cached REVOKED record is a
success while the DNS or the TL cannot be reached, although a terminal status
"permanently rejects connections".

### Known deviations without a run

Found while modelling; the models follow the code.

- `trustedTLHost` is empty by default (`options.go:52`), and `rewriteTLHost` then fetches
  from whatever host the badge TXT record names (`verify.go:92-95`). `options.go:39-42` says
  of `DefaultTrustedTLHost`: "Badge TXT records may contain arbitrary hostnames; the SDK
  replaces them with this value before fetching", `options.go:106` that the rewriting
  "provides equivalent protection", and `options.go:117`: "The default is
  DefaultTrustedTLHost." The default log client, moreover, does not verify the server it
  reaches (`tlog.go:39`). Only the agent client and the agent server set the host
  (`mtls_client.go:336`, `server.go:227`). A verifier in the default configuration therefore
  keeps no promise about revocations: with `Setup("FailOpenWithCache", TRUE, FALSE, None,
  FALSE)` as its configuration, `verifier_refresh` ends in a violation of `KeepsPromise`, a
  record verified three units after its end on the word of the host that the DNS has named.
  The mutant of `KeepsPromise` is this behaviour.
- `initOnce` sets `lastError` to nil in a second critical section (`supplier.go:240`) and
  erases the error of a refresh that failed since its own fetch; `supplier.go:194` says
  "LastError returns the most recent fetch or verification error."
- At `PolicyBasic` the server's callback returns before the revocation check
  (`server.go:290`), which `shouldEnableCRL` enables for that level; `README.md:436` says
  "Auto-enabled whenever a trust level (PolicyBasic+) is set." `ListedCertRefused` is
  about the levels above.
- `FindPreferredBadge` sorts the slice that the cache holds, without a lock
  (`dns_resolver.go:235`). Two goroutines can leave a record twice and lose another, or
  one can read a record that is half another; `PreferredIsNewest` in `DnsResolver`, which
  states `dns_resolver.go:220` ("finds the preferred badge (newest version)"), does not
  hold. `SettledAnswer` exempts a slice that two goroutines used at once.
- A validation failure in DANE is reported as `DANESkipped`, not as `DANEDNSSECFailed`
  (`dane.go:47-48`); SERVFAIL for a DNSKEY or DS query makes a zone insecure; REFUSED with
  an empty answer is "no records"; the validity period of an RRSIG is not looked at; the
  parent of a zone is found by removing one label, which misses a delegation of several
  labels at once (the chain of the model has one zone per label).
- The seal does not cover the inclusion proof, and the proof does not authenticate the
  tree size. Offline verification does not look at the status, and warns so.
  The dates of an OCSP response that was queried are not looked at.
- `TrustOutcome.AchievedLevel` ("highest achieved trust level", `mtls_client.go:396`) is
  `PolicyBasic`, its zero value, also where nothing was verified: at `PolicyNone` and, at
  `PolicyBasic`, for an answer without TLS after a redirect to http.
- `Prefetch` returns `(nil, nil)` after a failed lookup under a fail-open policy
  (`verify.go:178-184`); its callers look at the error only.
- A session whose registration a second `Watch` of its host has overwritten may, when its
  tick and `stopCh` are ready together, recheck once more and report after `Stop` has
  returned (`session_monitor.go:69, 103`).
- `StaleRetention` (`cache.go:31-32`) does not protect an entry from eviction
  (`LossOnlyWhenFull` is what holds); `MaxStaleness` is called a maximum age
  (`policy.go:22`) and is counted from the expiry (`EvidenceIsRecent` has
  TTL + `MaxStaleness`); "only the first caller" fetches
  (`refreshable_key_store.go:161-163`) holds only if its fetch succeeds
  (`OnDemandSpaced`, `CallsReturn`).

### Bounds

`MaxTime` stops the clock; it is chosen so that in each instance an entry can be
fresh, expired, stale and beyond its retention within one behaviour (in `verifier_mixed`
TTL and retention are 0, so that this takes one tick). Two parties
are enough for each hazard listed, all of which are between two; the
theorems of section 4 have no such bound, and stand for the concurrent verifications
that `verifier_refresh` has no room for. One host in `verifier_refresh` makes the
calls and the refresh collide in the cache; two in `verifier_mixed` let the DNS name a record of
another host and give the cache three keys for two places. One host beside the log's, with
one answer that contradicts the log once a record has ended, is enough for a URL to lead
astray; the theorems have any set of hosts and of answers. `FetchTimeout` is one
unit: the age an answer of the TL can have when it is inserted. It stands for the
HTTP client's timeout and for the time the goroutine needs from the answer to the
insertion. In `server` a cached list lives one unit and the clock goes to 3, so that
a list can be downloaded, superseded, stored late, expire and be asked for again; the
second certificate has no distribution point and no record and expires at once.
`LastChange` is the last moment at which the zone (`resolver`) or the deployment (`dane`)
changes: the rest of the clock is for what was cached before to expire, and at time 0 it
changes any number of times between any two steps. `SliceId` has one slice more than the
goroutines, so that the cache can hold one that nobody uses. In `scitt` a token lives one
unit and the verifier asks for more tolerance (1) than `MaxClockSkew` (0) allows, so that
the clamp matters. `Skew` in `evidence` lets an issuer's clock run ahead; the shapes of the
trees include leaves with one, two and no skipped levels. `MaxInserts` bounds the history
of `ScittCache` only. Caller symmetry is used in `resolver` and `server`, and key symmetry
in `scitt_cache`, where no property is a liveness property and no constant distinguishes
the permuted values.

### Fairness

Liveness is stated only where the code justifies the fairness. A call keeps taking
steps because each thing it waits for has a timeout: the DNS lookup 10 s, the TL's
HTTP client 30 s, a revocation list 30 s, a DANE exchange 5 s and three attempts, `initOnce` its `initTimeout`. Locks are taken
under strong fairness, since Go's `sync.Mutex` hands itself to a waiter that has
waited for a millisecond (starvation mode). `select` picks at random among ready
branches, hence strong fairness of `LoopEnds`. `RevocationIsReported` also needs that
the DNS and the TL answer again and again: nobody could notice a revocation in a
log that never answers. No fairness is assumed for the start of a call, for the
environment's failures or for the background goroutines.

`CHECK_DEADLOCK FALSE` is set for the monitor, all of whose goroutines may have
ended, and for `ScittCache`, whose insertions are counted.

## 4. The proofs

TLAPS checks the theorems for all values of the constants that satisfy the named
assumptions: finite sets of keys, natural numbers for the configuration, and the
types of the remaining constants. In particular for any number of goroutines,
hosts, agents and certificates.

The runs and the proofs complement each other: every inductive invariant below was first
checked by TLC on the instance of its component's run, and each proof names the lemma that
an attempt without it was missing.

**BadgeVerifierProofs**, first part: the cache. The inductive invariant is `TypeOK`,
`SizeBounded` and `EntriesDated` (every entry lives exactly one TTL from its own stamp, which
is not in the future). `CleanupKeeps` is the key lemma: whatever victims are chosen, the
rest is within the limit and a subset of what was there. From the invariant follow
`TypeCorrect`, `SizeIsBounded`, and the action properties `LossesAreForced` and
`ExpiryIsMonotone`; for the latter two `EntriesDated` is what makes a new stamp no
earlier than an old one.

**BadgeVerifierProofs**, second part: the verifiers. `SysTypeCorrect`, from an invariant
`SysShape` with one lemma
per kind of step. `VerifierUsesCache` shows that the composed system implements the
specification of the cache: each of its steps is a step of `BadgeCache` or leaves the
cache alone, so the cache's theorems hold in it. `EvidenceStaysRecent` and
`RevocationTakesEffect` rest on `SysInv`, i.e. `SysShape` and `EvidenceSound`: every
response in flight, in the cache or in an outcome was true of the log when it was
produced if the log produced it, is the log's if the verifier is `Anchored`, is not from
the future, and was at most `FetchTimeout` old when it was stamped. The second conjunct is
`OnlyTheLogIsHeard`; for it the invariant follows the badge URL from `BadgeFound` to the
request, and `AnswerSound` shows that an anchored verifier can be answered by nobody else.
`EvidenceStaysRecent` and `MismatchesAreFresh` hold in every configuration,
`RevocationTakesEffect` says of one that is not anchored only what follows from the log's own
answers. The properties alone are not inductive: they speak of outcomes, and an
outcome is made from an entry or an answer about which they say nothing.
`MismatchesAreFresh` adds to `SysInv` that a call past its lookup holds an answer it fetched
itself (`OwnEvidence`); a mismatch found in the cache leads a server verification to the DNS
and never to an outcome (`CheckCacheFresh`).
`PromiseIsKept` (`SysSpec /\ Anchored(config) => KeepsPromise`) is the refinement of
`BadgePromise` by anchored verifiers, which stay so (`AnchoredStays`). The initial
states map by the types of the log and of the outcomes. A step of the environment maps to
`End` or to a stutter, since a terminal status is final (`LogKeepsPromise`); a step of a call
maps to `Drop`, to a stutter, or to a `Grant` (`CallKeepsPromise`), and a `Verified` outcome
that appears in a step carries the clock of that step (`VerdictIsReachedNow`) and, by `SysInv'`,
rests on evidence young enough for the guard of `Grant` (`HorizonFromInv`). The abstract clock
has no bound, so `Tick` maps to `Tick`.

**AgentClientProofs.** The inductive invariant is `TypeOK`, `CacheSound` and `CallSound`:
every cached outcome, and every outcome of a call past its badge check, was produced
for this host and this certificate, by a verification not later than `BadgeAge` after the
end of the record. `ResponseIsVouchedFor` and `VerifiedWhileLive` speak of delivered
responses only and are not inductive, since a response may rest on a cached outcome.

**ScittVerifierProofs** covers the package `scitt`, in three parts.
*The root keys*: the inductive invariant is `TypeOK`, `OnDemandSpaced` and `RefreshTimes`,
which relates the history of on-demand refreshes, `lastRefreshed`, the copy a caller holds
under the gate, and the start of its refresh. It yields `RefreshesAreSpaced`;
`KeysStayPinned` follows from what `MergeFrom` keeps.
*Verification*: each step of the composed system is a step of the key store or leaves it
alone (`StoreKeepsItsPromises`). `CallInv` says of every call what its place has
established (`SoundCall`): past the receipt, its key is in the snapshot, where it stays
because keys are pinned (`ReceiptKeyStaysKnown`); on the badge path with both artifacts, the
reason was a transport error of an application's own lookup (`DowngradeOnlyByTransport`); a
verdict was reached within the horizon of its tier (`RevokedAgentHorizon`).
`ScittPromiseIsKept` (`ScittSpec => KeepsPromise`) is the refinement of `BadgePromise`: a step
of the key store is a stutter or a `Tick`, `Revoke` is `End`, and a step of a call is `Drop` or,
where it ends in a verdict, `Grant` at that moment (`GrantsNow`), whose guard is what `CallInv`
says of the verdict in the next state. The lemmas
about `VerifyReceipt` and `VerifyStatusTokenAt` bound the errors that each sequence of
checks can end in, which is what keeps a refused artifact from looking like a transport
failure.
*The artifact caches* (`ScittCache`, whose specification is `CacheSpec`; any integer is a limit):
`CacheInv` says that the queue lists the present keys in the order in which they were first
inserted, each once, and that the limit holds. `EvictKeeps` is what `evictLocked` leaves of
such a queue, `RemovedFromWithin` what `removeFromOrderLocked` does to it. The invariant
gives `CacheSizeIsBounded`, `EvictsOldestFirst` and `HitsAreLostForCause`.

**HeaderSupplierProofs.** What is sent is built from a copy, the copy from the cached fields,
and these from what was fetched, each in a step of its own between which others run. The
inductive invariant follows the token on this way (`FetchedSound`, `CachedSound`,
`CopySound`, `SentSound`: it is not terminal, was issued while the agent was live, and
`tokenExp` is its exp), with `InitSound`: where initialisation has succeeded a token is
cached. `TokensUnexpired`, `RevocationHorizon` and `InitializedSupplierHasArtifacts` are its
consequences.

**AgentServerProofs.** The invariant has `HandshakeInv` (which level, which certificate and
which verdict a place implies), `LevelsInv` (every reported level is the server's), `ListInv`
(a listed certificate stays on the list of its distribution point), and `AnswerSound` for
every answer in flight (`BodyInv`) or cached (`CacheInv`): a list holds everything that was
listed before its `asOf`, and its age and lifetime are bounded. The last is what
`ListedCertsRefused` needs and what survives a download that stores an older list over a newer
one; `ListsAreCurrent` is the action property that follows from the same bounds.
`EndedAgentsRefused` and `PeerLevelsReported` follow from the first two.

**AgentServerProofs**, last part: the session monitor, which has a state of its own
(`SessionMonitor`). The type invariant ties the registry to the goroutines; with
`Reporting` (the only way to a report leads through the place `report`, once) it
gives `RevocationReportedOnce`. `CancelledSessionsStayQuiet` is a temporal formula; it
is proved from the stability of `Quiet`: a cancelled session that has not reached its report
never does.

**DnsResolverProofs.** Two results, the first about pure functions. *The policies*:
`SelectionIsLatest` says for every list of records what LATEST and LATEST_COMPATIBLE select.
`KeptDef` and `BestDef` establish the equations of the two loops, `KeptRange` and
`BestIsLatest` what they compute, by the first round that would break it; what makes the best
record so far the best of all is that `IsLatest` orders records totally up to their agent
ID (`NoLaterTransitive`). `SelectionOrderFree` is its consequence for the answers of a lookup.
*The resolver*: `SettledAnswers` rests on an inductive invariant with one part for the ages (a
cached entry is the zone's, or old enough to expire before the zone is settled; a lookup in
flight has a deadline, a call that fell back has two), one for the addresses (`heap` holds
only what is reachable, so that one is free when a goroutine stores its answer, `FreeSlice`), and one for each slice. The last is the difficult one: nobody locks a slice, and
the claim is about those for which nobody raced. `Shared` says that such a slice is used by
two goroutines, one of which sorts, only when it is sorted already, and then no one writes to
it; `Undo` is the slice as it was before the exchange that is half done, and everything is said
of that (`Holds`: it has exactly the usable records of the zone; `Progress`: the part that is
sorted, or what the scan has looked at). `InsertionSwaps` and `InsertionEnds` are the steps of
the insertion sort, `SwapStep` shows that the order in which the fields are copied does not
matter. Any number of goroutines and of records, any zones, any TTL.

**DaneVerifierProofs.** The history `seen` says what held of the DNS throughout the call. The
invariant of a running call says that this history is true, that the answers and records it
holds are compatible with it, that it has climbed no further than the zones it has linked,
and how old its answers can be; of a cached key set, that it is the zone's or expires
within `KeyTTL + Timeout` of the last change (`EntryInv`); and of a settled call, that all it
holds is what is deployed (`SettledIsCurrent`). `ConclusionsAreTrue`, `LossConcludesNothing`
and `SettledDeploymentDecides` are then one lemma per handler. Any depth, any deployments,
any number of retries and goroutines.

**EvidenceProofs.** `LastLive` is the last moment at which the record was live. The invariant
bounds by it, for each kind of evidence, what is requested (`ReplyInv`), handed over (`HeldInv`)
and concluded (`OutcomeInv`); it has to speak of the deadline of a request, since the answer is
judged after the record may have ended. `ResponsesAttest` is the key lemma: a response with one
damaged field still shows a record the log published, or its seal was made over one, so that a
response whose seal matches what it shows (`VerdictRestsOnSeal`) shows a published record.
`CredentialIsTrue` and `OcspIsTrue` are its counterparts for the other kinds. They give
`EndedRecordHorizon` and `AcceptedWasPublished`.

**EvidenceProofs**, second part: the inclusion proofs. `InclusionExact` and
`MerkleInclusionExact` say of the two implementations that for the root of a tree of any size
the walk accepts the audit path of RFC 9162 for the leaf at the index, and nothing else; the
second up to the longest path it accepts. `InclusionProofsExact` is the run's
`InclusionIsExact`. The argument goes level by level: the tree over `n` leaves is the tree over
its `(n + 1) \div 2` pairs (`TreeHashLevel`), and the audit path is the sibling, if there is one,
before the path in the tree of pairs (`AuditPathLevel`), whereas the RFC splits the tree at
the top; `WalkCons` takes the first element off a walk. `WalkComplete` then follows by
induction on the size of the tree, `WalkSound` (two walks that end at one root have
started from one leaf with one path) by induction on the length of the path.

The prover cannot use an induction theorem, which has an operator as its parameter. Both
modules argue by the least counterexample instead (`LeastElement`, since `<` is well-founded on the naturals), and prove the equations of every recursive function they use, by
showing that a function with these equations exists on each initial segment
(`SplitAtDef`, `TreeHashDef`, `KeptDef`, ...).

### Assumptions

The assumptions are named in the modules that declare the constants (`ScittConstants`,
`EvidenceConstants`, ...), and TLC evaluates each on its run. Beside types they say that
special values (`None`, `NoError`) are none of the ordinary ones, that the set of cache keys is
finite, that a pinned key store holds keys only, and that a resolver has more addresses for
slices than goroutines (the heap of a program is not a bound). What is taken of the environment is in its
actions: the log issues tokens that are true when they are issued, and an issuer's clock is
at most `Skew` ahead. Times are natural numbers and no theorem bounds the clock.

What else the environment is assumed to do, where the code would accept more:

- *The log.* Nothing for the verifiers in general, but the promise is that of an `Anchored`
  one: the application sets the trusted host, and either its log client verifies the server
  or the network delivers requests to the host they name. `AgentClient`, `AgentServer` and
  the badge path of `ScittVerifier` use the promise, hence this assumption. The application's
  `refreshFn` asks the log's host with a client like the verifier's.
- *Revocation lists.* A download delivers the list that is published at that moment, or
  something that does not parse or is not the issuer's (`Served`). An older list, signed by
  the issuer and replayed over plain http, is not among the answers, although
  `ValidateNotRevoked` (`validator.go:44-56`) would accept it: it does not look at
  `NextUpdate`. `ListedCertRefused` and `ListIsCurrent` rest on this.
- *DANE.* The DNS loses, fails, refuses and changes, but does not lie. That a signature is
  bound to the owner name and the signer it was made for (`dnssec.go:57-61`) is therefore not
  put to the test.
- *OCSP.* A queried responder answers with responses that are still valid; the code does not
  look at their dates. The OCSP clause of `StatusHorizon` rests on this.

### What the proofs changed in the models

- `BadgeVerifier` took every answer for the log's. With hosts in badge URLs the promise fails
  in the default configuration; it is stated and proved for anchored verifiers.
- `ScittVerifier.Issue` left a WARNING status untouched by the end of an agent, so a token
  issued later could be accepted: the code accepts every status that is
  `IsValidForConnection`, and all of these turn to REVOKED now; the instance has a WARNING token.
- `DaneVerifier.SettledChainDecides` demanded more than the code does where a record is signed
  by a key that the zone does not publish; it is stated with `Deserved`, and the instance has
  such a deployment.
- Recursive operators became recursive functions, with equations to prove, and the records of a
  resolver's calls got constructors, which name what a place holds.
- `ScittVerifier` kept in a verdict how long ago the agent had ended; it keeps the time of the
  verdict, from which the horizon and the grant of `BadgePromise` are both stated.
- `EvidenceConstants` allowed a pinned store to hold "no key".
- `ScittCache.HitsLostForCause` took it for a cause that the agent still has an entry; only an
  insertion of its own is one, or a cache that is full.

### Model-checked only

Every safety invariant and every safety action property of the runs is proved. Left to TLC, since
it is out of the prover's reach, is liveness under fairness: `EveryCallReturns`, `CallsReturn`,
`CurrentHeadersReturns`, `StopEndsEveryLoop`, `RevocationIsReported`, `VerifyReturns`,
`DoReturns`.

## 5. What is not modelled

Cryptography, certificate and record parsing, JSON and CBOR, HTTP and DNS messages
are abstracted to their outcomes: a signature is the key that made it, a hash is what
was hashed. Of the modelled components: SVCB records, the search for agents in the
registry (`discovery.go`, one request), the wording of a diagnosis, the options of
`trust_policy.go`, the loading of certificates, `Connect` and the client's `Prefetch`, which
only look up the DNS. Gold verification is modelled with a log that answers its current
record; an HTTP cache between them is not (the code checks no age). The registry client,
cards, canonical JSON, the trust index and the examples keep no state and have no
interleavings; they are left out for good. `PROJECT.json` lists each with its reason.

## 6. The plan

1. Done: all components of section 2 are modelled and checked; every safety invariant and
   safety action property of the runs is proved; `BadgeVerifier` and `ScittVerifier` are proved
   to implement `BadgePromise`. Liveness stays with TLC.
2. Next: `PreferredIsNewest` for a resolver that sorts a copy, as the specification that a
   repair of `FindPreferredBadge` would have to meet.
3. Then: `HeaderSupplier` together with the `ScittVerifier` of the peer, so that one behaviour
   has the sender and the receiver of a token; both horizons are proved, their sum is not stated.
