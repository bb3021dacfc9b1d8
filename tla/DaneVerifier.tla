---------------------------- MODULE DaneVerifier ----------------------------
(***************************************************************************)
(* DANEVerifier over StandardDANEResolver (verify/dane.go) and its local      *)
(* DNSSEC validation (verify/dnssec.go).                                     *)
(*                                                                         *)
(* Names are numbered along the path from the root, 0, to the zone that       *)
(* signs the TLSA records.  A key is a generation, which stands for a KSK and  *)
(* a ZSK; a deployment is what the DNS serves of records, keys and            *)
(* delegations.  The DNS tells the truth of the moment (an assumption: no       *)
(* forged answers, so that the owner name of a signature is always the one      *)
(* asked for), loses packets, fails and refuses; keys are rolled, delegations and records change during the     *)
(* many queries of a call, and the keys of a zone are cached between calls.    *)
(***************************************************************************)
EXTENDS Integers

CONSTANTS
    Caller,          \* goroutines
    Depth,           \* the number of the signing zone
    Deployments,     \* what the DNS may serve (see Deployment)
    Certs,           \* the certificates to verify: [fp, spki], or None
    TrustAnchor,     \* the generation of the root's trusted key
    daneMaxRetries,  \* queries that are sent again after a timeout
    KeyTTL,          \* the TTL of DNSKEY records
    Timeout,         \* the longest an exchange takes
    LastChange,      \* bound of the model: the deployment is not changed after this time
    MaxTime,         \* bound of the model: the clock stops here
    None             \* nothing

Zone == 0..Depth

TLSARecord == [usage: Nat, selector: Nat, hash: Nat]

\* TLSA records with the generations that sign them and, of each zone, its keys, those
\* that sign its records, and its DS records in the parent zone.
Deployment ==
    [tlsa: SUBSET TLSARecord, keys: [Zone -> SUBSET Nat],
     signers: [Zone -> SUBSET Nat], ds: [Zone -> SUBSET Nat]]

ASSUME DaneConstants ==
    /\ Depth \in Nat
    /\ daneMaxRetries \in Nat
    /\ KeyTTL \in Nat
    /\ Timeout \in Nat \ {0}
    /\ LastChange \in Nat
    /\ MaxTime \in Nat
    /\ Deployments \subseteq Deployment

VARIABLES
    now,    \* the clock
    dns,    \* the current deployment
    since,  \* history: when it was last changed
    cache,  \* dnssecValidator.cache: zone -> None or [keys, expires]
    call    \* the call of each goroutine

vars == <<now, dns, since, cache, call>>

Idle == [at |-> "idle"]

Running(c) == call[c].at \notin {"idle", "done"}

-----------------------------------------------------------------------------
(* The environment.                                                        *)

TLSAMatches(rec, cert) ==
    /\ cert # None
    /\ rec.usage = 3
    /\ \/ rec.selector = 0 /\ rec.hash = cert.fp
       \/ rec.selector = 1 /\ rec.hash = cert.spki

SomeMatch(records, cert) == \E rec \in records : TLSAMatches(rec, cert)

Init ==
    /\ now = 0
    /\ dns \in Deployments
    /\ since = 0
    /\ cache = [z \in Zone |-> None]
    /\ call = [c \in Caller |-> Idle]

\* An exchange ends by its deadline.
Tick ==
    /\ now < MaxTime
    /\ \A c \in Caller : Running(c) => now < call[c].deadline
    /\ now' = now + 1
    /\ UNCHANGED <<dns, since, cache, call>>

\* What has been true of the deployment since a call began: records were there, they
\* matched or did not match the certificate, these zones had no DS records, and no
\* exchange has failed.
Observed(d, cert) ==
    [present |-> d.tlsa # {}, always |-> SomeMatch(d.tlsa, cert),
     never |-> ~SomeMatch(d.tlsa, cert), insecure |-> {z \in Zone \ {0} : d.ds[z] = {}},
     faults |-> {}]

Deploy(d) ==
    /\ now <= LastChange
    /\ d # dns
    /\ dns' = d
    /\ since' = now
    /\ call' = [c \in Caller |->
          IF ~Running(c) THEN call[c]
          ELSE LET o == Observed(d, call[c].cert)
               IN  [call[c] EXCEPT !.seen.present = @ /\ o.present,
                                   !.seen.always = @ /\ o.always,
                                   !.seen.never = @ /\ o.never,
                                   !.seen.insecure = @ \cap o.insecure]]
    /\ UNCHANGED <<now, cache>>

-----------------------------------------------------------------------------
(* exchange: an attempt that times out is repeated.                         *)

\* The query that call k sends next, about zone z.
Ask(k, query, z) ==
    [k EXCEPT !.at = query, !.zone = z, !.attempt = 0, !.deadline = now + Timeout, !.reply = None]

\* The verification ends with this DANEOutcome.
Ended(k, type) ==
    [at |-> "done", type |-> type, cert |-> k.cert, seen |-> k.seen, startedAt |-> k.startedAt]

Becomes(c, k) == call' = [call EXCEPT ![c] = k]

\* Verify and VerifyIdentity, which differ in the name they ask for.
Verify(c, cert) ==
    LET k == [at |-> "tlsa", cert |-> cert, zone |-> Depth, attempt |-> 0, deadline |-> now + Timeout,
              reply |-> None, records |-> {}, keys |-> {}, startedAt |-> now,
              seen |-> Observed(dns, cert), sig |-> None]
    IN  /\ call[c].at = "idle"
        /\ Becomes(c, IF cert = None THEN Ended(k, "LookupError") ELSE k)
        /\ UNCHANGED <<now, dns, since, cache>>

Waiting(c) == Running(c) /\ call[c].reply = None

\* The records of the answer, and the generations whose signatures come with them.
Truth(query, z) ==
    CASE query = "tlsa" -> [rcode |-> "ok", rrs |-> dns.tlsa, sigs |-> dns.signers[z]]
      [] query \in {"dnskey", "keyset"} -> [rcode |-> "ok", rrs |-> dns.keys[z], sigs |-> dns.keys[z]]
      [] query = "ds" -> [rcode |-> "ok", rrs |-> dns.ds[z], sigs |-> dns.signers[z - 1]]

\* An answer arrives, over UDP or, when it was truncated, over TCP.
Answered(c) ==
    /\ Waiting(c)
    /\ Becomes(c, [call[c] EXCEPT !.reply = Truth(call[c].at, call[c].zone)])
    /\ UNCHANGED <<now, dns, since, cache>>

Fault(c, f) == [call[c] EXCEPT !.seen.faults = @ \cup {f}]

\* The server answers with an error code, and without records.
ErrorCode(c, rcode) ==
    /\ Waiting(c)
    /\ Becomes(c, [Fault(c, rcode) EXCEPT !.reply = [rcode |-> rcode, rrs |-> {}, sigs |-> {}]])
    /\ UNCHANGED <<now, dns, since, cache>>

\* Faulty variant: a failed lookup counts as an answer without records.
ExchangeErrorAsEmpty(k) == Ended(k, IF k.at = "tlsa" THEN "NoRecords" ELSE "Skipped")

\* An error of the first exchange is a lookup error, one of a later exchange makes
\* the validation fail, which is reported like missing signatures.
ExchangeError(k) == Ended(k, IF k.at = "tlsa" THEN "LookupError" ELSE "Skipped")

TimesOut(c) ==
    /\ Waiting(c)
    /\ LET k == Fault(c, "lost")
       IN  Becomes(c, IF k.attempt < daneMaxRetries
                        THEN [k EXCEPT !.attempt = @ + 1, !.deadline = now + Timeout]
                        ELSE ExchangeError(k))
    /\ UNCHANGED <<now, dns, since, cache>>

\* Any other error, or the context is done when the query is to be repeated.
ExchangeFails(c) ==
    /\ Waiting(c)
    /\ Becomes(c, ExchangeError(Fault(c, "lost")))
    /\ UNCHANGED <<now, dns, since, cache>>

-----------------------------------------------------------------------------
(* The validation, from the signing zone to the root.                       *)

\* Faulty variant: cached keys never expire.
FreshAlways(entry) == entry # None

Fresh(entry) == entry # None /\ now < entry.expires

\* The keys of zone z are at hand: the RRset must be signed by one of them, then the
\* set itself is looked at.
WithKeys(k, z, keys) ==
    IF k.sig \notin keys THEN Ended(k, "Skipped") ELSE Ask([k EXCEPT !.keys = keys], "keyset", z)

\* validateZoneChain of an RRset with a signature by generation sig; an entry that has
\* expired is deleted.
ValidateZoneChain(c, z, k) ==
    IF Fresh(cache[z])
      THEN Becomes(c, WithKeys(k, z, cache[z].keys)) /\ UNCHANGED cache
      ELSE Becomes(c, Ask(k, "dnskey", z)) /\ cache' = [cache EXCEPT ![z] = None]

Received(c, query) == call[c].at = query /\ call[c].reply # None

\* lookupTLSAByName; the first of the signatures is used, whichever it is.
HandleTLSA(c) ==
    LET k == call[c]
        r == k.reply
    IN  /\ Received(c, "tlsa")
        /\ IF r.rcode = "servfail" \/ r.rrs = {} \/ r.sigs = {}
             THEN /\ Becomes(c, Ended(k, CASE r.rcode = "servfail" -> "DNSSECFailed"
                                           [] r.rcode # "servfail" /\ r.rrs = {} -> "NoRecords"
                                           [] OTHER -> "Skipped"))
                  /\ UNCHANGED cache
             ELSE \E g \in r.sigs :
                     ValidateZoneChain(c, Depth, [k EXCEPT !.records = r.rrs, !.sig = g])
        /\ UNCHANGED <<now, dns, since>>

\* fetchDNSKEYs: a zone without keys is insecure; keys are cached.
HandleDNSKEY(c) ==
    LET k == call[c]
        keys == k.reply.rrs
    IN  /\ Received(c, "dnskey")
        /\ Becomes(c, IF keys = {} THEN Ended(k, "Skipped") ELSE WithKeys(k, k.zone, keys))
        /\ cache' = IF keys = {} THEN cache
                    ELSE [cache EXCEPT ![k.zone] = [keys |-> keys, expires |-> now + KeyTTL]]
        /\ UNCHANGED <<now, dns, since>>

\* The chain is complete: the records decide (the end of verifyWithLookup).
Decided(k) == Ended(k, IF SomeMatch(k.records, k.cert) THEN "Verified" ELSE "Mismatch")

\* validateDNSKEYSet: one of the keys at hand signs the set that is served now; the
\* root's are compared with the trust anchor.
HandleKeySet(c) ==
    LET k == call[c]
    IN  /\ Received(c, "keyset")
        /\ Becomes(c, IF k.reply.sigs \cap k.keys = {} THEN Ended(k, "Skipped")
                      ELSE IF k.zone # 0 THEN Ask(k, "ds", k.zone)
                      ELSE IF TrustAnchor \in k.keys THEN Decided(k)
                      ELSE Ended(k, "Skipped"))
        /\ UNCHANGED <<now, dns, since, cache>>

\* Faulty variant: the parent's signature of the DS records is not followed up.
HandleDSUnsigned(c) ==
    LET k == call[c]
    IN  /\ Received(c, "ds")
        /\ Becomes(c, IF k.reply.rrs \cap k.keys = {} THEN Ended(k, "Skipped") ELSE Decided(k))
        /\ UNCHANGED <<now, dns, since, cache>>

\* Faulty variant: the DS records are validated in the child zone.
HandleDSSameZone(c) ==
    LET k == call[c]
        r == k.reply
    IN  /\ Received(c, "ds")
        /\ IF r.rrs \cap k.keys = {} \/ r.sigs = {}
             THEN Becomes(c, Ended(k, "Skipped")) /\ UNCHANGED cache
             ELSE \E g \in r.sigs : ValidateZoneChain(c, k.zone, [k EXCEPT !.sig = g])
        /\ UNCHANGED <<now, dns, since>>

\* validateDSChain: no DS record means an insecure delegation; one must match a key,
\* and the DS records are validated in the parent zone.
HandleDS(c) ==
    LET k == call[c]
        r == k.reply
    IN  /\ Received(c, "ds")
        /\ IF r.rrs \cap k.keys = {} \/ r.sigs = {}
             THEN Becomes(c, Ended(k, "Skipped")) /\ UNCHANGED cache
             ELSE \E g \in r.sigs : ValidateZoneChain(c, k.zone - 1, [k EXCEPT !.sig = g])
        /\ UNCHANGED <<now, dns, since>>

ReturnOutcome(c) ==
    /\ call[c].at = "done"
    /\ Becomes(c, Idle)
    /\ UNCHANGED <<now, dns, since, cache>>

CallStep(c) ==
    \/ Answered(c)
    \/ \E rcode \in {"servfail", "refused"} : ErrorCode(c, rcode)
    \/ TimesOut(c) \/ ExchangeFails(c)
    \/ HandleTLSA(c) \/ HandleDNSKEY(c) \/ HandleKeySet(c) \/ HandleDS(c)

Next ==
    \/ Tick
    \/ \E d \in Deployments : Deploy(d)
    \/ \E c \in Caller :
          \/ \E cert \in Certs : Verify(c, cert)
          \/ CallStep(c)
          \/ ReturnOutcome(c)

Spec == Init /\ [][Next]_vars

\* Every attempt of an exchange ends by its timeout.
FairSpec == Spec /\ \A c \in Caller : WF_vars(CallStep(c))

-----------------------------------------------------------------------------
(* Properties.                                                             *)

Outcomes == {call[c] : c \in {d \in Caller : call[d].at = "done"}}

\* A conclusive outcome is true of the DNS at some moment of the call, however records,
\* keys and delegations change between its queries: a verified certificate matched, a
\* mismatching one did not, and no zone up to the root went without DS records for the
\* whole call (validateZoneChain, validateDSChain).
ConclusiveIsTrue ==
    \A o \in Outcomes :
        /\ o.type = "Verified" => ~o.seen.never
        /\ o.type = "Mismatch" => ~o.seen.always
        /\ o.type \in {"Verified", "Mismatch"} => o.seen.insecure = {}

\* Lost packets and failed exchanges never pass for an answer without records, nor for
\* a reason to reject (exchange, lookupTLSAByName): records that were there all the
\* time are not reported absent unless the server refused to answer, and a matching
\* certificate is not rejected unless the server itself reported a failure.
LossIsNotAbsence ==
    \A o \in Outcomes :
        /\ o.type = "NoRecords" => (o.seen.present => "refused" \in o.seen.faults)
        /\ o.type \in {"Mismatch", "DNSSECFailed"} =>
              (o.seen.always => "servfail" \in o.seen.faults)

\* A chain of keys and delegations from the root's trust anchor to the signing zone, in
\* which every signature is by a published key.
ChainIsSecure(d) ==
    /\ TrustAnchor \in d.keys[0]
    /\ \A z \in Zone : d.signers[z] # {} /\ d.signers[z] \subseteq d.keys[z]
    /\ \A z \in Zone \ {0} : d.ds[z] \cap d.keys[z] # {}

\* A chain in which some link cannot be made, whichever signature is tried.
ChainIsBroken(d) ==
    \/ TrustAnchor \notin d.keys[0]
    \/ \E z \in Zone : d.signers[z] \cap d.keys[z] = {}
    \/ \E z \in Zone \ {0} : d.ds[z] \cap d.keys[z] = {}

\* The outcomes that deployment d deserves.  Only the first signature is tried, so that
\* one by an unpublished key beside a good one may hide a chain that is there.
Deserved(d, cert) ==
    LET decided == IF SomeMatch(d.tlsa, cert) THEN "Verified" ELSE "Mismatch"
    IN  IF d.tlsa = {} THEN {"NoRecords"}
        ELSE IF ChainIsSecure(d) THEN {decided}
        ELSE IF ChainIsBroken(d) THEN {"Skipped"}
        ELSE {"Skipped", decided}

\* A call that starts when the deployment has been the same for longer than a DNSKEY is
\* cached, and meets no fault, gets an outcome the deployment deserves: keys cached
\* before a rollover do not stand in the way (fetchDNSKEYs).
SettledChainDecides ==
    \A o \in Outcomes :
        o.cert # None /\ o.seen.faults = {} /\ since + KeyTTL + Timeout < o.startedAt =>
            o.type \in Deserved(dns, o.cert)

\* Every verification returns: each of its exchanges gives up after a bounded number of
\* attempts, and the recursion climbs to the root (exchange, validateDSChain).
VerifyReturns == \A c \in Caller : Running(c) ~> call[c].at = "done"
=============================================================================
