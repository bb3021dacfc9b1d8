-------------------------- MODULE DaneVerifierProofs --------------------------
(***************************************************************************)
(* Proofs about DaneVerifier, for any number of goroutines, any depth of the   *)
(* signing zone, any deployments and any number of retries: what a             *)
(* verification concludes is true of the DNS, losses conclude nothing, and a   *)
(* deployment that has settled gets the outcome it deserves.                   *)
(***************************************************************************)
EXTENDS DaneVerifier, TLAPS

Query == {"tlsa", "dnskey", "keyset", "ds"}

FaultKind == {"lost", "servfail", "refused"}

Seen == [present: BOOLEAN, always: BOOLEAN, never: BOOLEAN,
         insecure: SUBSET Zone, faults: SUBSET FaultKind]

\* What an answer is about: TLSA records, or the generations of keys.
RR == TLSARecord \cup Nat

Reply == [rcode: {"ok", "servfail", "refused"}, rrs: SUBSET RR, sigs: SUBSET Nat]

RunningCall ==
    [at: Query, cert: Certs, zone: Zone, attempt: Nat, deadline: Nat, reply: Reply \cup {None},
     records: SUBSET RR, keys: SUBSET RR, startedAt: Nat, seen: Seen, sig: Nat \cup {None}]

DaneType == {"Verified", "Mismatch", "NoRecords", "Skipped", "DNSSECFailed", "LookupError"}

DoneCall == [at: {"done"}, type: DaneType, cert: Certs, seen: Seen, startedAt: Nat]

\* Every goroutine is idle, waits for or holds the answer to a query, or is done.
TypeOK ==
    /\ now \in Nat
    /\ dns \in Deployments
    /\ since \in Nat
    /\ cache = [z \in Zone |-> cache[z]]
    /\ \A z \in Zone : cache[z] # None => cache[z] \in [keys: SUBSET RR, expires: Nat]
    /\ call = [c \in Caller |-> call[c]]
    /\ \A c \in Caller : call[c] \in {Idle} \cup RunningCall \cup DoneCall

-----------------------------------------------------------------------------
(* What a call knows is true.                                               *)

\* What has been seen of the deployment is true of it now.
SeenIsTrue(k) ==
    /\ k.seen.present => dns.tlsa # {}
    /\ k.seen.always => SomeMatch(dns.tlsa, k.cert)
    /\ k.seen.never => ~SomeMatch(dns.tlsa, k.cert)
    /\ \A z \in k.seen.insecure : z # 0 /\ dns.ds[z] = {}

\* The TLSA records were served during the call.
ServedRecords(seen, cert, records) ==
    /\ seen.always => SomeMatch(records, cert)
    /\ seen.never => ~SomeMatch(records, cert)

ReplyIsTrue(k) ==
    k.reply # None =>
        /\ k.reply.rcode # "ok" => k.reply.rrs = {} /\ k.reply.rcode \in k.seen.faults
        /\ k.reply.rcode = "ok" /\ k.at = "tlsa" =>
              /\ k.seen.present => k.reply.rrs # {}
              /\ ServedRecords(k.seen, k.cert, k.reply.rrs)
        /\ k.at = "ds" /\ k.reply.rrs # {} => k.zone \notin k.seen.insecure

\* The zones above which the call has climbed had DS records during the call.
Climbed(k) ==
    /\ k.at = "tlsa" => k.zone = Depth
    /\ k.at = "ds" => k.zone # 0
    /\ k.at # "tlsa" => ServedRecords(k.seen, k.cert, k.records)
    /\ \A z \in k.seen.insecure : z <= k.zone

\* When a call has started, and when its exchange ends.
InTime(k) ==
    /\ k.startedAt <= now
    /\ now <= k.deadline
    /\ k.deadline <= now + Timeout

\* The keys that an answer carries are those of the zone, or the answer is from before
\* the last change and will be handled within a timeout of it.
KeysAreRecent(k) ==
    k.at = "dnskey" /\ k.reply # None /\ k.reply.rrs # {} =>
        k.reply.rrs = dns.keys[k.zone] \/ k.deadline <= since + Timeout

\* The deployment is the same for so long that no older key is cached any more.
Settled(k) == k.seen.faults = {} /\ since + KeyTTL + Timeout < k.startedAt

\* The links of the chain above zone z can be made.
LinkedAbove(z) ==
    \A y \in Zone : y > z => /\ dns.signers[y] \cap dns.keys[y] # {}
                             /\ dns.ds[y] \cap dns.keys[y] # {}

\* Everything that a settled call holds is what the DNS serves.
SettledIsCurrent(k) ==
    Settled(k) =>
        /\ k.reply # None => k.reply = Truth(k.at, k.zone)
        /\ k.at # "tlsa" => /\ k.records = dns.tlsa /\ dns.tlsa # {}
                            /\ k.sig \in dns.signers[k.zone]
                            /\ LinkedAbove(k.zone)
        /\ k.at \in {"keyset", "ds"} => k.keys = dns.keys[k.zone] /\ k.sig \in k.keys

RunningInv(k) ==
    /\ SeenIsTrue(k)
    /\ ReplyIsTrue(k)
    /\ Climbed(k)
    /\ InTime(k)
    /\ KeysAreRecent(k)
    /\ SettledIsCurrent(k)

Conclusive(o) ==
    /\ o.type = "Verified" => ~o.seen.never
    /\ o.type = "Mismatch" => ~o.seen.always
    /\ o.type \in {"Verified", "Mismatch"} => o.seen.insecure = {}

LossProof(o) ==
    /\ o.type = "NoRecords" => (o.seen.present => "refused" \in o.seen.faults)
    /\ o.type \in {"Mismatch", "DNSSECFailed"} => (o.seen.always => "servfail" \in o.seen.faults)

DoneInv(o) ==
    /\ o.startedAt <= now
    /\ Conclusive(o)
    /\ LossProof(o)
    /\ o.cert # None /\ Settled(o) => o.type \in Deserved(dns, o.cert)

CallInv(k) ==
    /\ k \in {Idle} \cup RunningCall \cup DoneCall
    /\ k \in RunningCall => RunningInv(k)
    /\ k \in DoneCall => DoneInv(k)

\* A cached key set is that of the zone, or expires within a TTL and a timeout of the
\* last change.
EntryInv(z) ==
    cache[z] # None =>
        /\ cache[z] \in [keys: SUBSET RR, expires: Nat]
        /\ cache[z].expires <= now + KeyTTL
        /\ cache[z].keys = dns.keys[z] \/ cache[z].expires <= since + KeyTTL + Timeout

IInv ==
    /\ now \in Nat
    /\ dns \in Deployments
    /\ since \in Nat /\ since <= now
    /\ cache = [z \in Zone |-> cache[z]]
    /\ call = [c \in Caller |-> call[c]]
    /\ \A z \in Zone : EntryInv(z)
    /\ \A c \in Caller : CallInv(call[c])

-----------------------------------------------------------------------------
(* The records that the actions build.                                      *)

LEMMA CallShapes ==
    ASSUME NEW k \in {Idle} \cup RunningCall \cup DoneCall
    PROVE  /\ k \in RunningCall <=> k.at \notin {"idle", "done"}
           /\ k \in DoneCall <=> k.at = "done"
           /\ k = Idle <=> k.at = "idle"
BY DEF RunningCall, DoneCall, Idle, Query

LEMMA AskFields ==
    ASSUME NEW k \in RunningCall, NEW query \in Query, NEW z \in Zone, now \in Nat
    PROVE  LET a == Ask(k, query, z)
           IN  /\ a \in RunningCall
               /\ a.at = query /\ a.zone = z /\ a.reply = None /\ a.deadline = now + Timeout
               /\ a.cert = k.cert /\ a.records = k.records /\ a.keys = k.keys
               /\ a.startedAt = k.startedAt /\ a.seen = k.seen /\ a.sig = k.sig
<1>. DEFINE a == Ask(k, query, z)
<1>1. now + Timeout \in Nat
  BY DaneConstants
<1>2. a \in RunningCall
  BY <1>1 DEF Ask, RunningCall
<1>3. a.at = query /\ a.zone = z /\ a.reply = None /\ a.deadline = now + Timeout
  BY DEF Ask, RunningCall
<1>4. /\ a.cert = k.cert /\ a.records = k.records /\ a.keys = k.keys
      /\ a.startedAt = k.startedAt /\ a.seen = k.seen /\ a.sig = k.sig
  BY DEF Ask, RunningCall
<1>. QED  BY <1>2, <1>3, <1>4

LEMMA EndedFields ==
    ASSUME NEW k \in RunningCall, NEW type \in DaneType
    PROVE  LET o == Ended(k, type)
           IN  /\ o \in DoneCall
               /\ o.type = type /\ o.cert = k.cert /\ o.seen = k.seen /\ o.startedAt = k.startedAt
BY DEF Ended, RunningCall, DoneCall

LEMMA ObservedFields ==
    ASSUME NEW d \in Deployments, NEW cert
    PROVE  LET o == Observed(d, cert)
           IN  /\ o \in Seen
               /\ o.present <=> d.tlsa # {}
               /\ o.always <=> SomeMatch(d.tlsa, cert)
               /\ o.never <=> ~SomeMatch(d.tlsa, cert)
               /\ o.insecure = {z \in Zone \ {0} : d.ds[z] = {}}
               /\ o.faults = {}
<1>1. SomeMatch(d.tlsa, cert) \in BOOLEAN
  BY DEF SomeMatch
<1>. QED  BY <1>1 DEF Observed, Seen

LEMMA DeploymentFacts ==
    ASSUME NEW d \in Deployments
    PROVE  /\ d.tlsa \in SUBSET TLSARecord
           /\ d.keys \in [Zone -> SUBSET Nat]
           /\ d.signers \in [Zone -> SUBSET Nat]
           /\ d.ds \in [Zone -> SUBSET Nat]
BY DaneConstants DEF Deployment

LEMMA TruthFields ==
    ASSUME dns \in Deployments, NEW query \in Query, NEW z \in Zone, query = "ds" => z # 0
    PROVE  LET r == Truth(query, z)
           IN  /\ r \in Reply
               /\ r.rcode = "ok"
               /\ query = "tlsa" => r.rrs = dns.tlsa /\ r.sigs = dns.signers[z]
               /\ query \in {"dnskey", "keyset"} => r.rrs = dns.keys[z] /\ r.sigs = dns.keys[z]
               /\ query = "ds" => r.rrs = dns.ds[z] /\ r.sigs = dns.signers[z - 1]
<1>1. CASE query = "tlsa"
  BY <1>1, DeploymentFacts DEF Truth, Reply, RR
<1>2. CASE query \in {"dnskey", "keyset"}
  BY <1>2, DeploymentFacts DEF Truth, Reply, RR
<1>3. CASE query = "ds"
  <2>1. z - 1 \in Zone
    BY <1>3, DaneConstants DEF Zone
  <2>. QED  BY <1>3, <2>1, DeploymentFacts DEF Truth, Reply, RR
<1>. QED  BY <1>1, <1>2, <1>3 DEF Query

\* What a call has seen, narrowed to what is also true of another deployment.
LEMMA NarrowedFields ==
    ASSUME NEW k \in RunningCall, NEW o \in Seen
    PROVE  LET n == [k EXCEPT !.seen.present = @ /\ o.present, !.seen.always = @ /\ o.always,
                              !.seen.never = @ /\ o.never, !.seen.insecure = @ \cap o.insecure]
           IN  /\ n \in RunningCall
               /\ n = [k EXCEPT !.seen = n.seen]
               /\ n.seen.present <=> k.seen.present /\ o.present
               /\ n.seen.always <=> k.seen.always /\ o.always
               /\ n.seen.never <=> k.seen.never /\ o.never
               /\ n.seen.insecure = k.seen.insecure \cap o.insecure
               /\ n.seen.faults = k.seen.faults
<1>. DEFINE s == [k.seen EXCEPT !.present = @ /\ o.present, !.always = @ /\ o.always,
                                !.never = @ /\ o.never, !.insecure = @ \cap o.insecure]
            n == [k EXCEPT !.seen.present = @ /\ o.present, !.seen.always = @ /\ o.always,
                           !.seen.never = @ /\ o.never, !.seen.insecure = @ \cap o.insecure]
<1>1. k.seen \in Seen
  BY DEF RunningCall
<1>2. s \in Seen
  BY <1>1 DEF Seen
<1>3. /\ s.present = (k.seen.present /\ o.present) /\ s.always = (k.seen.always /\ o.always)
      /\ s.never = (k.seen.never /\ o.never) /\ s.insecure = k.seen.insecure \cap o.insecure
      /\ s.faults = k.seen.faults
  BY <1>1 DEF Seen
<1>4. n = [k EXCEPT !.seen = s]
  BY DEF RunningCall
<1>. HIDE DEF s, n
<1>5. n \in RunningCall /\ n.seen = s
  BY <1>2, <1>4 DEF RunningCall
<1>. QED  BY <1>3, <1>4, <1>5 DEF n

-----------------------------------------------------------------------------
(* How a call goes on.                                                      *)

LEMMA EndedInv ==
    ASSUME now \in Nat, NEW k \in RunningCall, NEW type \in DaneType, k.startedAt <= now,
           Conclusive(Ended(k, type)), LossProof(Ended(k, type)),
           k.cert # None /\ Settled(k) => type \in Deserved(dns, k.cert)
    PROVE  CallInv(Ended(k, type))
<1>. DEFINE o == Ended(k, type)
<1>1. /\ o \in DoneCall /\ o.type = type /\ o.cert = k.cert /\ o.seen = k.seen
      /\ o.startedAt = k.startedAt
  BY EndedFields
<1>. HIDE DEF o
<1>2. o \notin RunningCall
  BY <1>1, CallShapes DEF DoneCall
<1>3. DoneInv(o)
  BY <1>1 DEF DoneInv, Settled, o
<1>. QED  BY <1>1, <1>2, <1>3 DEF CallInv, o

LEMMA SkippedIsDeserved ==
    ASSUME NEW cert, dns.tlsa # {}, ~ChainIsSecure(dns)
    PROVE  "Skipped" \in Deserved(dns, cert)
BY DEF Deserved

\* A call that gives up the validation.
LEMMA SkippedInv ==
    ASSUME now \in Nat, NEW k \in RunningCall, k.startedAt <= now,
           Settled(k) => dns.tlsa # {} /\ ~ChainIsSecure(dns)
    PROVE  CallInv(Ended(k, "Skipped"))
<1>1. Conclusive(Ended(k, "Skipped")) /\ LossProof(Ended(k, "Skipped"))
  BY DEF Conclusive, LossProof, Ended
<1>2. "Skipped" \in DaneType
  BY DEF DaneType
<1>. QED  BY <1>1, <1>2, EndedInv, SkippedIsDeserved

\* Call k is about to validate an RRset in zone z.
Linking(k, z) ==
    /\ SeenIsTrue(k)
    /\ k.startedAt <= now
    /\ ServedRecords(k.seen, k.cert, k.records)
    /\ \A y \in k.seen.insecure : y <= z
    /\ Settled(k) => /\ k.records = dns.tlsa /\ dns.tlsa # {}
                     /\ k.sig \in dns.signers[z]
                     /\ LinkedAbove(z)

LEMMA AskInv ==
    ASSUME now \in Nat, NEW k \in RunningCall, NEW z \in Zone, Linking(k, z),
           NEW query \in {"dnskey", "keyset", "ds"}, query = "ds" => z # 0,
           query # "dnskey" /\ Settled(k) => k.keys = dns.keys[z] /\ k.sig \in k.keys
    PROVE  CallInv(Ask(k, query, z))
<1>. DEFINE a == Ask(k, query, z)
<1>1. /\ a \in RunningCall
      /\ a.at = query /\ a.zone = z /\ a.reply = None /\ a.deadline = now + Timeout
      /\ a.cert = k.cert /\ a.records = k.records /\ a.keys = k.keys
      /\ a.startedAt = k.startedAt /\ a.seen = k.seen /\ a.sig = k.sig
  <2>1. query \in Query
    BY DEF Query
  <2>. QED  BY <2>1, AskFields
<1>. HIDE DEF a
<1>2. a \notin DoneCall
  BY <1>1, CallShapes
<1>3. SeenIsTrue(a) /\ ReplyIsTrue(a) /\ KeysAreRecent(a) /\ Climbed(a)
  BY <1>1 DEF Linking, SeenIsTrue, ReplyIsTrue, KeysAreRecent, Climbed
<1>4. InTime(a)
  BY <1>1, DaneConstants DEF Linking, InTime
<1>5. SettledIsCurrent(a)
  BY <1>1 DEF Linking, SettledIsCurrent, Settled
<1>. QED  BY <1>1, <1>2, <1>3, <1>4, <1>5 DEF CallInv, RunningInv, a

LEMMA WithKeysInv ==
    ASSUME now \in Nat, NEW k \in RunningCall, NEW z \in Zone, Linking(k, z), NEW keys \in SUBSET RR,
           Settled(k) => keys = dns.keys[z]
    PROVE  CallInv(WithKeys(k, z, keys))
<1>1. CASE k.sig \notin keys
  <2>1. Settled(k) => dns.tlsa # {} /\ ~ChainIsSecure(dns)
    BY <1>1 DEF Linking, ChainIsSecure
  <2>2. WithKeys(k, z, keys) = Ended(k, "Skipped")
    BY <1>1 DEF WithKeys
  <2>. QED  BY <2>1, <2>2, SkippedInv DEF Linking
<1>2. CASE k.sig \in keys
  <2>. DEFINE l == [k EXCEPT !.keys = keys]
  <2>1. /\ l \in RunningCall /\ l.keys = keys
        /\ l.cert = k.cert /\ l.records = k.records
        /\ l.startedAt = k.startedAt /\ l.seen = k.seen /\ l.sig = k.sig
    BY DEF RunningCall
  <2>2. WithKeys(k, z, keys) = Ask(l, "keyset", z)
    BY <1>2 DEF WithKeys
  <2>. HIDE DEF l
  <2>3. Linking(l, z)
    BY <2>1 DEF Linking, SeenIsTrue, Settled
  <2>4. Settled(l) => l.keys = dns.keys[z] /\ l.sig \in l.keys
    BY <1>2, <2>1 DEF Settled
  <2>. QED  BY <2>1, <2>2, <2>3, <2>4, AskInv
<1>. QED  BY <1>1, <1>2

-----------------------------------------------------------------------------
(* The steps.                                                               *)

\* What is known of a call stays true while neither it nor the DNS changes.
LEMMA CallPersists ==
    ASSUME now \in Nat, now' \in {now, now + 1}, UNCHANGED <<dns, since>>,
           NEW d \in Caller, NEW l, call'[d] = l, CallInv(l),
           now' # now /\ l \in RunningCall => now < l.deadline
    PROVE  CallInv(call[d])'
<1>1. SeenIsTrue(l) => SeenIsTrue(call[d])'
  BY DEF SeenIsTrue, SomeMatch, TLSAMatches
<1>2. ReplyIsTrue(l) /\ Climbed(l) => ReplyIsTrue(call[d])' /\ Climbed(call[d])'
  BY DEF ReplyIsTrue, Climbed, ServedRecords, SomeMatch, TLSAMatches
<1>3. l \in RunningCall /\ InTime(l) => InTime(call[d])'
  <2>1. l \in RunningCall => l.startedAt \in Nat /\ l.deadline \in Nat
    BY DEF RunningCall
  <2>. QED  BY <2>1, DaneConstants DEF InTime
<1>4. KeysAreRecent(l) => KeysAreRecent(call[d])'
  BY DEF KeysAreRecent
<1>5. Settled(call[d])' = Settled(l)
  BY DEF Settled
<1>6. Truth(call[d].at, call[d].zone)' = Truth(l.at, l.zone)
  BY DEF Truth
<1>7. SettledIsCurrent(l) => SettledIsCurrent(call[d])'
  BY <1>5, <1>6 DEF SettledIsCurrent, LinkedAbove
<1>8. Deserved(dns, call[d].cert)' = Deserved(dns, l.cert)
  BY DEF Deserved, ChainIsSecure, ChainIsBroken, SomeMatch, TLSAMatches
<1>9. l \in DoneCall /\ DoneInv(l) => DoneInv(call[d])'
  <2>1. l \in DoneCall => l.startedAt \in Nat
    BY DEF DoneCall
  <2>. QED  BY <1>5, <1>8, <2>1 DEF DoneInv, Conclusive, LossProof
<1>. QED  BY <1>1, <1>2, <1>3, <1>4, <1>7, <1>9 DEF CallInv, RunningInv

\* A step of one call.
LEMMA OneCallStep ==
    ASSUME IInv, NEW c \in Caller, NEW k, Becomes(c, k), CallInv(k),
           UNCHANGED <<now, dns, since>>,
           cache' = [z \in Zone |-> cache'[z]], \A z \in Zone : EntryInv(z)'
    PROVE  IInv'
<1>1. call'[c] = k /\ \A d \in Caller \ {c} : call'[d] = call[d]
  BY DEF IInv, Becomes
<1>2. call' = [d \in Caller |-> call'[d]]
  BY DEF IInv, Becomes
<1>3. ASSUME NEW d \in Caller PROVE CallInv(call[d])'
  <2>1. CASE d = c
    BY <1>1, <2>1, CallPersists DEF IInv
  <2>2. CASE d # c
    BY <1>1, <2>2, CallPersists DEF IInv
  <2>. QED  BY <2>1, <2>2
<1>. QED  BY <1>2, <1>3 DEF IInv

LEMMA CacheStays ==
    ASSUME IInv, UNCHANGED <<now, dns, since, cache>>
    PROVE  cache' = [z \in Zone |-> cache'[z]] /\ \A z \in Zone : EntryInv(z)'
BY DEF IInv, EntryInv

LEMMA TickInv ==
    ASSUME IInv, Tick
    PROVE  IInv'
<1>1. now' = now + 1 /\ now \in Nat /\ UNCHANGED <<dns, since, cache, call>>
  BY DEF Tick, IInv
<1>2. ASSUME NEW c \in Caller PROVE CallInv(call[c])'
  <2>1. call[c] \in RunningCall => now < call[c].deadline
    BY CallShapes DEF Tick, Running, IInv, CallInv
  <2>. QED  BY <1>1, <2>1, CallPersists DEF IInv
<1>3. ASSUME NEW z \in Zone, cache[z] # None PROVE EntryInv(z)'
  <2>1. cache[z] \in [keys: SUBSET RR, expires: Nat]
    BY <1>3 DEF IInv, EntryInv
  <2>. QED  BY <1>1, <1>3, <2>1, DaneConstants DEF IInv, EntryInv
<1>. QED  BY <1>1, <1>2, <1>3 DEF IInv, EntryInv

\* A change of the deployment takes from what has been seen what is not true of it,
\* and unsettles every call.
LEMMA DeployInv ==
    ASSUME IInv, NEW d \in Deployments, Deploy(d)
    PROVE  IInv'
<1>1. /\ now' = now /\ dns' = d /\ since' = now /\ cache' = cache
      /\ now \in Nat /\ since \in Nat /\ since <= now
      /\ KeyTTL \in Nat /\ Timeout \in Nat
  BY DaneConstants DEF Deploy, IInv
<1>2. ASSUME NEW c \in Caller, call[c] \notin RunningCall PROVE CallInv(call[c])'
  <2>1. call'[c] = call[c]
    BY <1>2, CallShapes DEF Deploy, Running, IInv, CallInv
  <2>2. call[c] \in DoneCall => call[c].startedAt \in Nat /\ DoneInv(call[c])
    BY DEF IInv, CallInv, DoneCall
  <2>3. call[c] \in DoneCall => ~(now + KeyTTL + Timeout < call[c].startedAt)
    BY <1>1, <2>2 DEF DoneInv
  <2>4. call[c] \in DoneCall => DoneInv(call[c])'
    BY <1>1, <2>1, <2>2, <2>3 DEF DoneInv, Settled, Conclusive, LossProof
  <2>. QED  BY <1>2, <2>1, <2>4 DEF IInv, CallInv
<1>3. ASSUME NEW c \in Caller, call[c] \in RunningCall PROVE CallInv(call[c])'
  <2>. DEFINE k == call[c]
              o == Observed(d, k.cert)
              n == [k EXCEPT !.seen.present = @ /\ o.present, !.seen.always = @ /\ o.always,
                             !.seen.never = @ /\ o.never, !.seen.insecure = @ \cap o.insecure]
  <2>1. call'[c] = n
    BY <1>3, CallShapes DEF Deploy, Running, IInv, CallInv
  <2>2. /\ o \in Seen
        /\ o.present <=> d.tlsa # {}
        /\ o.always <=> SomeMatch(d.tlsa, k.cert)
        /\ o.never <=> ~SomeMatch(d.tlsa, k.cert)
        /\ o.insecure = {z \in Zone \ {0} : d.ds[z] = {}}
    BY ObservedFields
  <2>3. RunningInv(k) /\ k \in RunningCall
    BY <1>3 DEF IInv, CallInv
  <2>4. /\ n \in RunningCall
        /\ n = [k EXCEPT !.seen = n.seen]
        /\ n.seen.present <=> k.seen.present /\ o.present
        /\ n.seen.always <=> k.seen.always /\ o.always
        /\ n.seen.never <=> k.seen.never /\ o.never
        /\ n.seen.insecure = k.seen.insecure \cap o.insecure
        /\ n.seen.faults = k.seen.faults
    BY <2>2, <2>3, NarrowedFields
  <2>. HIDE DEF n, o
  <2>5. /\ n.at = k.at /\ n.cert = k.cert /\ n.zone = k.zone /\ n.deadline = k.deadline
        /\ n.reply = k.reply /\ n.records = k.records /\ n.startedAt = k.startedAt
    BY <2>3, <2>4 DEF RunningCall
  <2>6. k.startedAt \in Nat /\ k.deadline \in Nat /\ InTime(k)
    BY <2>3 DEF RunningCall, RunningInv
  <2>. HIDE DEF k
  <2>7. SeenIsTrue(call[c])'
    BY <1>1, <2>1, <2>2, <2>4, <2>5 DEF SeenIsTrue, SomeMatch, TLSAMatches
  <2>8. ReplyIsTrue(call[c])' /\ Climbed(call[c])'
    <3>1. ReplyIsTrue(k) /\ Climbed(k)
      BY <2>3 DEF RunningInv
    <3>. QED  BY <3>1, <2>1, <2>4, <2>5 DEF ReplyIsTrue, Climbed, ServedRecords, SomeMatch, TLSAMatches
  <2>9. InTime(call[c])' /\ KeysAreRecent(call[c])'
    BY <1>1, <2>1, <2>5, <2>6 DEF InTime, KeysAreRecent
  <2>10. ~Settled(call[c])'
    BY <1>1, <2>1, <2>5, <2>6 DEF InTime, Settled
  <2>11. n \notin DoneCall
    BY <2>4, CallShapes
  <2>. QED
    BY <2>1, <2>4, <2>7, <2>8, <2>9, <2>10, <2>11 DEF CallInv, RunningInv, SettledIsCurrent
<1>4. ASSUME NEW z \in Zone, cache[z] # None PROVE EntryInv(z)'
  <2>1. cache[z] \in [keys: SUBSET RR, expires: Nat] /\ cache[z].expires <= now + KeyTTL
    BY <1>4 DEF IInv, EntryInv
  <2>. QED  BY <1>1, <1>4, <2>1 DEF EntryInv
<1>5. call' = [c \in Caller |-> call'[c]]
  BY DEF Deploy
<1>. QED  BY <1>1, <1>2, <1>3, <1>4, <1>5 DEF IInv, EntryInv

LEMMA VerifyInv ==
    ASSUME IInv, NEW c \in Caller, NEW cert \in Certs, Verify(c, cert)
    PROVE  IInv'
<1>. DEFINE k == [at |-> "tlsa", cert |-> cert, zone |-> Depth, attempt |-> 0,
                  deadline |-> now + Timeout, reply |-> None, records |-> {}, keys |-> {},
                  startedAt |-> now, seen |-> Observed(dns, cert), sig |-> None]
<1>1. now \in Nat /\ dns \in Deployments /\ Depth \in Zone /\ Timeout \in Nat /\ now + Timeout \in Nat
  BY DaneConstants DEF IInv, Zone
<1>2. /\ Observed(dns, cert) \in Seen
      /\ Observed(dns, cert).present <=> dns.tlsa # {}
      /\ Observed(dns, cert).always <=> SomeMatch(dns.tlsa, cert)
      /\ Observed(dns, cert).never <=> ~SomeMatch(dns.tlsa, cert)
      /\ Observed(dns, cert).insecure = {z \in Zone \ {0} : dns.ds[z] = {}}
  BY <1>1, ObservedFields
<1>3. k \in RunningCall
  BY <1>1, <1>2 DEF RunningCall, Query
<1>4. Becomes(c, IF cert = None THEN Ended(k, "LookupError") ELSE k)
  BY DEF Verify
<1>5. /\ k.at = "tlsa" /\ k.cert = cert /\ k.zone = Depth /\ k.deadline = now + Timeout
      /\ k.reply = None /\ k.startedAt = now /\ k.seen = Observed(dns, cert)
  OBVIOUS
<1>. HIDE DEF k
<1>6. CallInv(Ended(k, "LookupError")) \/ cert # None
  <2>1. /\ "LookupError" \in DaneType
        /\ Conclusive(Ended(k, "LookupError")) /\ LossProof(Ended(k, "LookupError"))
    BY DEF DaneType, Conclusive, LossProof, Ended
  <2>. QED  BY <1>1, <1>3, <1>5, <2>1, EndedInv
<1>7. CallInv(k)
  <2>1. SeenIsTrue(k)
    BY <1>2, <1>5 DEF SeenIsTrue
  <2>2. Climbed(k)
    BY <1>2, <1>5, DaneConstants DEF Climbed, Zone
  <2>3. ReplyIsTrue(k) /\ InTime(k) /\ KeysAreRecent(k) /\ SettledIsCurrent(k)
    BY <1>1, <1>5 DEF ReplyIsTrue, InTime, KeysAreRecent, SettledIsCurrent
  <2>4. k \notin DoneCall
    BY <1>3, CallShapes
  <2>. QED  BY <1>3, <2>1, <2>2, <2>3, <2>4 DEF CallInv, RunningInv
<1>8. UNCHANGED <<now, dns, since, cache>>
  BY DEF Verify
<1>. QED  BY <1>4, <1>6, <1>7, <1>8, CacheStays, OneCallStep

\* The reply of a call that waits for one is filled in, and faults are noted.
WithReply(k, r, faults) == [[k EXCEPT !.seen.faults = @ \cup faults] EXCEPT !.reply = r]

LEMMA ReplyFields ==
    ASSUME NEW k \in RunningCall, NEW r \in Reply, NEW faults \in SUBSET FaultKind
    PROVE  LET l == WithReply(k, r, faults)
           IN  /\ l \in RunningCall
               /\ l.at = k.at /\ l.cert = k.cert /\ l.zone = k.zone /\ l.deadline = k.deadline
               /\ l.records = k.records /\ l.keys = k.keys /\ l.startedAt = k.startedAt
               /\ l.sig = k.sig /\ l.reply = r
               /\ l.seen.present = k.seen.present /\ l.seen.always = k.seen.always
               /\ l.seen.never = k.seen.never /\ l.seen.insecure = k.seen.insecure
               /\ l.seen.faults = k.seen.faults \cup faults
<1>. DEFINE s == [k.seen EXCEPT !.faults = @ \cup faults]
            m == [k EXCEPT !.seen = s]
            l == [m EXCEPT !.reply = r]
<1>1. k.seen \in Seen
  BY DEF RunningCall
<1>2. /\ s \in Seen /\ s.faults = k.seen.faults \cup faults
      /\ s.present = k.seen.present /\ s.always = k.seen.always
      /\ s.never = k.seen.never /\ s.insecure = k.seen.insecure
  BY <1>1 DEF Seen
<1>3. [k EXCEPT !.seen.faults = @ \cup faults] = m
  BY DEF RunningCall
<1>. HIDE DEF s
<1>4. l \in RunningCall
  BY <1>2 DEF RunningCall
<1>5. /\ l.at = k.at /\ l.cert = k.cert /\ l.zone = k.zone /\ l.deadline = k.deadline
      /\ l.records = k.records /\ l.keys = k.keys /\ l.startedAt = k.startedAt
      /\ l.sig = k.sig /\ l.reply = r /\ l.seen = s
  BY DEF RunningCall
<1>. HIDE DEF l, m
<1>6. WithReply(k, r, faults) = l
  BY <1>3 DEF WithReply, l
<1>. QED  BY <1>2, <1>4, <1>5, <1>6

\* An answer arrives, with or without a fault.
LEMMA RepliedInv ==
    ASSUME IInv, NEW k \in RunningCall, RunningInv(k), NEW r \in Reply, NEW faults \in SUBSET FaultKind,
           \/ faults = {} /\ r = Truth(k.at, k.zone)
           \/ r.rcode # "ok" /\ r.rrs = {} /\ faults = {r.rcode}
    PROVE  CallInv(WithReply(k, r, faults))
<1>. DEFINE l == WithReply(k, r, faults)
<1>1. /\ l \in RunningCall
      /\ l.at = k.at /\ l.cert = k.cert /\ l.zone = k.zone /\ l.deadline = k.deadline
      /\ l.records = k.records /\ l.keys = k.keys /\ l.startedAt = k.startedAt
      /\ l.sig = k.sig /\ l.reply = r
      /\ l.seen.present = k.seen.present /\ l.seen.always = k.seen.always
      /\ l.seen.never = k.seen.never /\ l.seen.insecure = k.seen.insecure
      /\ l.seen.faults = k.seen.faults \cup faults
  BY ReplyFields
<1>. HIDE DEF l
<1>2. /\ k.at \in Query /\ k.zone \in Zone /\ (k.at = "ds" => k.zone # 0)
      /\ dns \in Deployments
  BY DEF RunningCall, RunningInv, Climbed, IInv
<1>3. SeenIsTrue(l) /\ Climbed(l) /\ InTime(l)
  BY <1>1 DEF RunningInv, SeenIsTrue, Climbed, InTime, ServedRecords
<1>4. CASE faults = {} /\ r = Truth(k.at, k.zone)
  <2>1. /\ r.rcode = "ok"
        /\ k.at = "tlsa" => r.rrs = dns.tlsa
        /\ k.at = "dnskey" => r.rrs = dns.keys[k.zone]
        /\ k.at = "ds" => r.rrs = dns.ds[k.zone]
    BY <1>2, <1>4, TruthFields
  <2>2. ReplyIsTrue(l)
    BY <1>1, <1>3, <2>1 DEF ReplyIsTrue, SeenIsTrue, ServedRecords
  <2>3. KeysAreRecent(l)
    BY <1>1, <2>1 DEF KeysAreRecent
  <2>4. SettledIsCurrent(l)
    <3>1. Settled(l) => Settled(k)
      BY <1>1 DEF Settled
    <3>. QED  BY <1>1, <1>4, <3>1 DEF RunningInv, SettledIsCurrent
  <2>. QED  BY <1>1, <1>3, <2>2, <2>3, <2>4, CallShapes DEF CallInv, RunningInv, l
<1>5. CASE r.rcode # "ok" /\ r.rrs = {} /\ faults = {r.rcode}
  <2>1. ReplyIsTrue(l) /\ KeysAreRecent(l)
    BY <1>1, <1>5 DEF ReplyIsTrue, KeysAreRecent
  <2>2. ~Settled(l)
    BY <1>1, <1>5 DEF Settled
  <2>. QED  BY <1>1, <1>3, <2>1, <2>2, CallShapes DEF CallInv, RunningInv, SettledIsCurrent, l
<1>. QED  BY <1>4, <1>5

LEMMA WaitingIsRunning ==
    ASSUME IInv, NEW c \in Caller, Waiting(c) \/ \E query \in Query : Received(c, query)
    PROVE  call[c] \in RunningCall /\ RunningInv(call[c])
<1>1. call[c] \in {Idle} \cup RunningCall \cup DoneCall
  BY DEF IInv, CallInv
<1>2. call[c].at \notin {"idle", "done"}
  BY DEF Waiting, Running, Received, Query
<1>3. call[c] \in RunningCall
  BY <1>1, <1>2, CallShapes
<1>. QED  BY <1>3 DEF IInv, CallInv

LEMMA AnsweredInv ==
    ASSUME IInv, NEW c \in Caller, Answered(c) \/ \E rcode \in {"servfail", "refused"} : ErrorCode(c, rcode)
    PROVE  IInv'
<1>. DEFINE k == call[c]
<1>1. k \in RunningCall /\ RunningInv(k)
  <2>1. Waiting(c)
    BY DEF Answered, ErrorCode
  <2>. QED  BY <2>1, WaitingIsRunning
<1>2. UNCHANGED <<now, dns, since, cache>>
  BY DEF Answered, ErrorCode
<1>3. CASE Answered(c)
  <2>. DEFINE r == Truth(k.at, k.zone)
  <2>1. r \in Reply
    BY <1>1, TruthFields DEF RunningCall, RunningInv, Climbed, IInv
  <2>2. [k EXCEPT !.seen.faults = @ \cup {}] = k
    BY <1>1 DEF RunningCall, Seen
  <2>3. CallInv(WithReply(k, r, {})) /\ WithReply(k, r, {}) = [k EXCEPT !.reply = r]
    BY <1>1, <2>1, <2>2, RepliedInv DEF WithReply
  <2>4. Becomes(c, [k EXCEPT !.reply = r])
    BY <1>3 DEF Answered
  <2>. QED  BY <1>2, <2>3, <2>4, CacheStays, OneCallStep
<1>4. ASSUME NEW rcode \in {"servfail", "refused"}, ErrorCode(c, rcode) PROVE IInv'
  <2>. DEFINE r == [rcode |-> rcode, rrs |-> {}, sigs |-> {}]
  <2>1. r \in Reply /\ r.rcode = rcode /\ r.rrs = {} /\ {rcode} \in SUBSET FaultKind
    BY DEF Reply, FaultKind
  <2>2. CallInv(WithReply(k, r, {rcode}))
    BY <1>1, <2>1, RepliedInv
  <2>3. Becomes(c, WithReply(k, r, {rcode}))
    BY <1>4 DEF ErrorCode, Fault, WithReply
  <2>. QED  BY <1>2, <2>2, <2>3, CacheStays, OneCallStep
<1>. QED  BY <1>3, <1>4

LEMMA FaultFields ==
    ASSUME NEW c \in Caller, call[c] \in RunningCall, NEW f \in FaultKind
    PROVE  LET k == Fault(c, f)
           IN  /\ k \in RunningCall /\ k = [call[c] EXCEPT !.seen = k.seen]
               /\ k.seen.present = call[c].seen.present /\ k.seen.always = call[c].seen.always
               /\ k.seen.never = call[c].seen.never /\ k.seen.insecure = call[c].seen.insecure
               /\ k.seen.faults = call[c].seen.faults \cup {f}
<1>. DEFINE s == [call[c].seen EXCEPT !.faults = @ \cup {f}]
            k == [call[c] EXCEPT !.seen = s]
<1>1. call[c].seen \in Seen
  BY DEF RunningCall
<1>2. /\ s \in Seen /\ s.faults = call[c].seen.faults \cup {f}
      /\ s.present = call[c].seen.present /\ s.always = call[c].seen.always
      /\ s.never = call[c].seen.never /\ s.insecure = call[c].seen.insecure
  BY <1>1 DEF Seen
<1>3. Fault(c, f) = k
  BY DEF Fault, RunningCall
<1>. HIDE DEF s
<1>4. k \in RunningCall /\ k.seen = s
  BY <1>2 DEF RunningCall
<1>. QED  BY <1>2, <1>3, <1>4

\* A failed exchange: the query is sent again, or the call ends with no conclusion.
LEMMA LostInv ==
    ASSUME IInv, NEW c \in Caller, TimesOut(c) \/ ExchangeFails(c)
    PROVE  IInv'
<1>. DEFINE k == Fault(c, "lost")
            again == [k EXCEPT !.attempt = @ + 1, !.deadline = now + Timeout]
<1>1. UNCHANGED <<now, dns, since, cache>> /\ call[c].reply = None
  BY DEF TimesOut, ExchangeFails, Waiting
<1>2. call[c] \in RunningCall /\ RunningInv(call[c])
  <2>1. Waiting(c)
    BY DEF TimesOut, ExchangeFails
  <2>. QED  BY <2>1, WaitingIsRunning
<1>3. /\ k \in RunningCall /\ k = [call[c] EXCEPT !.seen = k.seen]
      /\ k.seen.present = call[c].seen.present /\ k.seen.always = call[c].seen.always
      /\ k.seen.never = call[c].seen.never /\ k.seen.insecure = call[c].seen.insecure
      /\ k.seen.faults = call[c].seen.faults \cup {"lost"}
  <2>1. "lost" \in FaultKind
    BY DEF FaultKind
  <2>. QED  BY <1>2, <2>1, FaultFields
<1>4. Becomes(c, again) \/ Becomes(c, ExchangeError(k))
  BY DEF TimesOut, ExchangeFails
<1>. HIDE DEF k
<1>5. /\ k.at = call[c].at /\ k.cert = call[c].cert /\ k.zone = call[c].zone
      /\ k.reply = None /\ k.records = call[c].records /\ k.startedAt = call[c].startedAt
  BY <1>1, <1>2, <1>3 DEF RunningCall
<1>6. now \in Nat /\ Timeout \in Nat /\ now + Timeout \in Nat /\ k.startedAt <= now
  BY <1>2, <1>5, DaneConstants DEF IInv, RunningInv, InTime
<1>7. CallInv(again)
  <2>1. /\ again \in RunningCall /\ again.at = k.at /\ again.cert = k.cert /\ again.zone = k.zone
        /\ again.reply = None /\ again.records = k.records /\ again.startedAt = k.startedAt
        /\ again.seen = k.seen /\ again.deadline = now + Timeout
    <3>1. k \in RunningCall /\ k.attempt + 1 \in Nat
      BY <1>3 DEF RunningCall
    <3>2. again \in RunningCall
      BY <1>6, <3>1 DEF RunningCall
    <3>. QED  BY <1>5, <3>1, <3>2 DEF RunningCall
  <2>. HIDE DEF again
  <2>2. SeenIsTrue(again) /\ Climbed(again)
    BY <1>2, <1>3, <1>5, <2>1 DEF RunningInv, SeenIsTrue, Climbed, ServedRecords
  <2>3. InTime(again)
    BY <1>6, <2>1 DEF InTime
  <2>4. ReplyIsTrue(again) /\ KeysAreRecent(again) /\ SettledIsCurrent(again)
    BY <1>3, <2>1 DEF ReplyIsTrue, KeysAreRecent, SettledIsCurrent, Settled
  <2>. QED  BY <2>1, <2>2, <2>3, <2>4, CallShapes DEF CallInv, RunningInv
<1>8. CallInv(ExchangeError(k))
  <2>. DEFINE type == IF k.at = "tlsa" THEN "LookupError" ELSE "Skipped"
  <2>1. type \in DaneType /\ ExchangeError(k) = Ended(k, type)
    BY DEF DaneType, ExchangeError
  <2>2. Conclusive(Ended(k, type)) /\ LossProof(Ended(k, type))
    BY DEF Conclusive, LossProof, Ended
  <2>3. ~Settled(k)
    BY <1>3 DEF Settled
  <2>. HIDE DEF type
  <2>. QED  BY <1>3, <1>6, <2>1, <2>2, <2>3, EndedInv
<1>. QED  BY <1>1, <1>4, <1>7, <1>8, CacheStays, OneCallStep

\* A call is about to validate an RRset of zone z, with keys cached or fetched.
LEMMA ValidateZoneChainInv ==
    ASSUME IInv, NEW c \in Caller, NEW k \in RunningCall, NEW z \in Zone, Linking(k, z),
           ValidateZoneChain(c, z, k), UNCHANGED <<now, dns, since>>
    PROVE  IInv'
<1>1. now \in Nat /\ since \in Nat /\ KeyTTL \in Nat /\ Timeout \in Nat /\ k.startedAt \in Nat
  BY DaneConstants DEF IInv, RunningCall
<1>2. CASE Fresh(cache[z])
  <2>1. /\ cache[z] \in [keys: SUBSET RR, expires: Nat]
        /\ cache[z].keys = dns.keys[z] \/ cache[z].expires <= since + KeyTTL + Timeout
        /\ now < cache[z].expires
    BY <1>2 DEF Fresh, IInv, EntryInv
  <2>2. Settled(k) => cache[z].keys = dns.keys[z]
    BY <1>1, <2>1 DEF Settled, Linking
  <2>3. CallInv(WithKeys(k, z, cache[z].keys))
    BY <1>1, <2>1, <2>2, WithKeysInv
  <2>4. Becomes(c, WithKeys(k, z, cache[z].keys)) /\ UNCHANGED cache
    BY <1>2 DEF ValidateZoneChain
  <2>. QED  BY <2>3, <2>4, CacheStays, OneCallStep
<1>3. CASE ~Fresh(cache[z])
  <2>1. Becomes(c, Ask(k, "dnskey", z)) /\ cache' = [cache EXCEPT ![z] = None]
    BY <1>3 DEF ValidateZoneChain
  <2>2. CallInv(Ask(k, "dnskey", z))
    BY <1>1, AskInv
  <2>3. cache' = [y \in Zone |-> cache'[y]] /\ \A y \in Zone : EntryInv(y)'
    BY <2>1 DEF IInv, EntryInv
  <2>. QED  BY <2>1, <2>2, <2>3, OneCallStep
<1>. QED  BY <1>2, <1>3

LEMMA RunningIsLinking ==
    ASSUME NEW k \in RunningCall, RunningInv(k), k.at # "tlsa"
    PROVE  Linking(k, k.zone)
BY DEF RunningInv, Linking, Climbed, InTime, SettledIsCurrent

\* A settled call that has met no fault holds the truth.
LEMMA SettledReply ==
    ASSUME IInv, NEW k \in RunningCall, RunningInv(k), k.reply # None, Settled(k)
    PROVE  LET r == k.reply
           IN  /\ k.at = "tlsa" => r.rrs = dns.tlsa /\ r.sigs = dns.signers[k.zone]
               /\ k.at \in {"dnskey", "keyset"} => r.rrs = dns.keys[k.zone] /\ r.sigs = dns.keys[k.zone]
               /\ k.at = "ds" => r.rrs = dns.ds[k.zone] /\ r.sigs = dns.signers[k.zone - 1]
<1>1. k.reply = Truth(k.at, k.zone)
  BY DEF RunningInv, SettledIsCurrent
<1>2. k.at \in Query /\ k.zone \in Zone /\ (k.at = "ds" => k.zone # 0) /\ dns \in Deployments
  BY DEF RunningCall, RunningInv, Climbed, IInv
<1>. QED  BY <1>1, <1>2, TruthFields

LEMMA HandleTLSAInv ==
    ASSUME IInv, NEW c \in Caller, HandleTLSA(c)
    PROVE  IInv'
<1>. DEFINE k == call[c]
            r == k.reply
<1>1. k.at = "tlsa" /\ r # None /\ UNCHANGED <<now, dns, since>>
  BY DEF HandleTLSA, Received
<1>2. k \in RunningCall /\ RunningInv(k) /\ r \in Reply
  <2>1. Received(c, "tlsa")
    BY DEF HandleTLSA
  <2>2. k \in RunningCall /\ RunningInv(k)
    BY <2>1, WaitingIsRunning DEF Query
  <2>. QED  BY <1>1, <2>2 DEF RunningCall
<1>3. now \in Nat /\ k.startedAt <= now /\ k.zone = Depth /\ Depth \in Zone
  BY <1>1, <1>2, DaneConstants DEF IInv, RunningInv, InTime, Climbed, Zone
<1>4. /\ r.rcode # "ok" => r.rrs = {} /\ r.rcode \in k.seen.faults
      /\ r.rcode = "ok" => /\ k.seen.present => r.rrs # {}
                           /\ ServedRecords(k.seen, k.cert, r.rrs)
  BY <1>1, <1>2 DEF RunningInv, ReplyIsTrue
<1>5. r.rcode \in {"ok", "servfail", "refused"}
  BY <1>2 DEF Reply
<1>6. Settled(k) => r.rcode = "ok" /\ r.rrs = dns.tlsa /\ r.sigs = dns.signers[Depth]
  BY <1>1, <1>2, <1>3, <1>4, SettledReply DEF Settled
<1>7. CASE r.rcode = "servfail" \/ r.rrs = {} \/ r.sigs = {}
  <2>. DEFINE type == CASE r.rcode = "servfail" -> "DNSSECFailed"
                        [] r.rcode # "servfail" /\ r.rrs = {} -> "NoRecords"
                        [] OTHER -> "Skipped"
  <2>1. Becomes(c, Ended(k, type)) /\ UNCHANGED cache
    BY <1>7 DEF HandleTLSA
  <2>2. CASE r.rcode = "servfail"
    <3>1. type = "DNSSECFailed" /\ type \in DaneType
      BY <2>2 DEF DaneType
    <3>. HIDE DEF type
    <3>2. Conclusive(Ended(k, type)) /\ LossProof(Ended(k, type))
      BY <1>4, <2>2, <3>1 DEF Conclusive, LossProof, Ended
    <3>3. ~Settled(k)
      BY <1>6, <2>2
    <3>. QED  BY <1>1, <1>2, <1>3, <2>1, <3>1, <3>2, <3>3, EndedInv, CacheStays, OneCallStep
  <2>3. CASE r.rcode # "servfail" /\ r.rrs = {}
    <3>1. type = "NoRecords" /\ type \in DaneType
      BY <2>3 DEF DaneType
    <3>. HIDE DEF type
    <3>2. Conclusive(Ended(k, type)) /\ LossProof(Ended(k, type))
      BY <1>4, <1>5, <2>3, <3>1 DEF Conclusive, LossProof, Ended
    <3>3. Settled(k) => type \in Deserved(dns, k.cert)
      BY <1>6, <2>3, <3>1 DEF Deserved
    <3>. QED  BY <1>1, <1>2, <1>3, <2>1, <3>1, <3>2, <3>3, EndedInv, CacheStays, OneCallStep
  <2>4. CASE r.rcode # "servfail" /\ r.rrs # {}
    <3>1. type = "Skipped" /\ r.sigs = {}
      BY <1>7, <2>4
    <3>. HIDE DEF type
    <3>2. Settled(k) => dns.tlsa # {} /\ ~ChainIsSecure(dns)
      BY <1>3, <1>6, <2>4, <3>1 DEF ChainIsSecure
    <3>. QED  BY <1>1, <1>2, <1>3, <2>1, <3>1, <3>2, SkippedInv, CacheStays, OneCallStep
  <2>. QED  BY <2>2, <2>3, <2>4
<1>8. CASE ~(r.rcode = "servfail" \/ r.rrs = {} \/ r.sigs = {})
  <2>1. PICK g \in r.sigs : ValidateZoneChain(c, Depth, [k EXCEPT !.records = r.rrs, !.sig = g])
    BY <1>8 DEF HandleTLSA
  <2>. DEFINE l == [k EXCEPT !.records = r.rrs, !.sig = g]
  <2>2. /\ l \in RunningCall /\ l.records = r.rrs /\ l.sig = g
        /\ l.cert = k.cert /\ l.seen = k.seen /\ l.startedAt = k.startedAt
    BY <1>2 DEF RunningCall, Reply
  <2>. HIDE DEF l
  <2>3. r.rcode = "ok"
    BY <1>4, <1>8
  <2>4. SeenIsTrue(l) /\ ServedRecords(l.seen, l.cert, l.records)
    BY <1>2, <1>4, <2>2, <2>3 DEF RunningInv, SeenIsTrue, ServedRecords
  <2>5. \A y \in l.seen.insecure : y <= Depth
    BY <1>2, <1>3, <2>2 DEF RunningInv, Climbed
  <2>6. LinkedAbove(Depth)
    BY DaneConstants DEF LinkedAbove, Zone
  <2>7. Settled(l) => l.records = dns.tlsa /\ dns.tlsa # {} /\ l.sig \in dns.signers[Depth]
    BY <1>6, <1>8, <2>2 DEF Settled
  <2>8. Linking(l, Depth)
    BY <1>3, <2>2, <2>4, <2>5, <2>6, <2>7 DEF Linking
  <2>. QED  BY <1>1, <1>3, <2>1, <2>2, <2>8, ValidateZoneChainInv DEF l
<1>. QED  BY <1>7, <1>8

\* What the handlers of the later answers start from.
LEMMA LaterReply ==
    ASSUME IInv, NEW c \in Caller, NEW query \in {"dnskey", "keyset", "ds"}, Received(c, query)
    PROVE  LET k == call[c]
           IN  /\ k \in RunningCall /\ RunningInv(k) /\ Linking(k, k.zone)
               /\ k.at = query /\ k.reply # None /\ k.reply \in Reply /\ k.zone \in Zone
               /\ now \in Nat /\ k.startedAt <= now
               /\ Settled(k) => dns.tlsa # {} /\ k.records = dns.tlsa /\ k.sig \in dns.signers[k.zone]
<1>1. call[c] \in RunningCall /\ RunningInv(call[c])
  BY WaitingIsRunning DEF Query
<1>2. call[c].at = query /\ call[c].reply # None
  BY DEF Received
<1>3. Linking(call[c], call[c].zone)
  BY <1>1, <1>2, RunningIsLinking
<1>4. call[c].reply \in Reply /\ call[c].zone \in Zone
  BY <1>1, <1>2 DEF RunningCall
<1>. QED  BY <1>1, <1>2, <1>3, <1>4 DEF IInv, Linking

LEMMA HandleDNSKEYInv ==
    ASSUME IInv, NEW c \in Caller, HandleDNSKEY(c)
    PROVE  IInv'
<1>. DEFINE k == call[c]
            keys == k.reply.rrs
<1>1. UNCHANGED <<now, dns, since>> /\ Received(c, "dnskey")
  BY DEF HandleDNSKEY
<1>2. /\ k \in RunningCall /\ RunningInv(k) /\ Linking(k, k.zone)
      /\ k.at = "dnskey" /\ k.reply # None /\ k.reply \in Reply /\ k.zone \in Zone
      /\ now \in Nat /\ k.startedAt <= now
      /\ Settled(k) => dns.tlsa # {} /\ k.sig \in dns.signers[k.zone]
  BY <1>1, LaterReply
<1>3. keys \in SUBSET RR
  BY <1>2 DEF Reply
<1>4. Settled(k) => keys = dns.keys[k.zone]
  BY <1>2, SettledReply
<1>5. CASE keys = {}
  <2>1. Becomes(c, Ended(k, "Skipped")) /\ UNCHANGED cache
    BY <1>5 DEF HandleDNSKEY
  <2>2. Settled(k) => dns.tlsa # {} /\ ~ChainIsSecure(dns)
    BY <1>2, <1>4, <1>5 DEF ChainIsSecure
  <2>. QED  BY <1>1, <1>2, <2>1, <2>2, SkippedInv, CacheStays, OneCallStep
<1>6. CASE keys # {}
  <2>. DEFINE e == [keys |-> keys, expires |-> now + KeyTTL]
  <2>1. Becomes(c, WithKeys(k, k.zone, keys)) /\ cache' = [cache EXCEPT ![k.zone] = e]
    BY <1>6 DEF HandleDNSKEY
  <2>2. CallInv(WithKeys(k, k.zone, keys))
    BY <1>2, <1>3, <1>4, WithKeysInv
  \* The answer was given no longer than a timeout ago.
  <2>3. keys = dns.keys[k.zone] \/ now <= since + Timeout
    <3>1. keys = dns.keys[k.zone] \/ k.deadline <= since + Timeout
      BY <1>2, <1>6 DEF RunningInv, KeysAreRecent
    <3>2. now <= k.deadline /\ k.deadline \in Nat /\ since + Timeout \in Nat
      BY <1>2, DaneConstants DEF RunningInv, InTime, RunningCall, IInv
    <3>. QED  BY <1>2, <3>1, <3>2
  <2>4. /\ e \in [keys: SUBSET RR, expires: Nat] /\ e.keys = keys /\ e.expires <= now + KeyTTL
        /\ e.keys = dns.keys[k.zone] \/ e.expires <= since + KeyTTL + Timeout
    BY <1>2, <1>3, <2>3, DaneConstants DEF IInv
  <2>. HIDE DEF e
  <2>5. cache'[k.zone] = e /\ \A z \in Zone \ {k.zone} : cache'[z] = cache[z]
    BY <1>2, <2>1 DEF IInv
  <2>6. cache' = [z \in Zone |-> cache'[z]]
    BY <2>1 DEF IInv
  <2>7. ASSUME NEW z \in Zone PROVE EntryInv(z)'
    <3>1. CASE z = k.zone
      BY <1>1, <2>4, <2>5, <3>1 DEF EntryInv
    <3>2. CASE z # k.zone
      BY <1>1, <2>5, <3>2 DEF IInv, EntryInv
    <3>. QED  BY <3>1, <3>2
  <2>. QED  BY <1>1, <2>1, <2>2, <2>6, <2>7, OneCallStep
<1>. QED  BY <1>5, <1>6

\* The root is reached: the records decide.
LEMMA DecidedInv ==
    ASSUME IInv, NEW k \in RunningCall, RunningInv(k), k.at = "keyset", k.zone = 0, TrustAnchor \in k.keys
    PROVE  CallInv(Decided(k))
<1>. DEFINE type == IF SomeMatch(k.records, k.cert) THEN "Verified" ELSE "Mismatch"
<1>1. type \in DaneType /\ Decided(k) = Ended(k, type)
  BY DEF DaneType, Decided
<1>2. now \in Nat /\ k.startedAt <= now /\ ServedRecords(k.seen, k.cert, k.records)
  BY DEF IInv, RunningInv, InTime, Climbed
<1>3. k.seen.insecure = {}
  <2>1. \A z \in k.seen.insecure : z \in Zone /\ z <= 0 /\ z # 0
    BY DEF RunningInv, Climbed, SeenIsTrue, RunningCall, Seen
  <2>. QED  BY <2>1, DaneConstants DEF Zone
<1>4. Conclusive(Ended(k, type)) /\ LossProof(Ended(k, type))
  BY <1>2, <1>3 DEF Conclusive, LossProof, Ended, ServedRecords
<1>5. Settled(k) => type \in Deserved(dns, k.cert)
  <2>. SUFFICES ASSUME Settled(k) PROVE type \in Deserved(dns, k.cert)
    OBVIOUS
  <2>1. /\ k.records = dns.tlsa /\ dns.tlsa # {} /\ k.sig \in dns.signers[0]
        /\ k.keys = dns.keys[0] /\ k.sig \in k.keys /\ LinkedAbove(0)
    BY DEF RunningInv, SettledIsCurrent
  <2>2. \A z \in Zone : z = 0 \/ z > 0
    BY DaneConstants DEF Zone
  <2>3. ~ChainIsBroken(dns)
    BY <2>1, <2>2 DEF ChainIsBroken, LinkedAbove
  <2>. QED  BY <2>1, <2>3 DEF Deserved
<1>. HIDE DEF type
<1>. QED  BY <1>1, <1>2, <1>4, <1>5, EndedInv

LEMMA HandleKeySetInv ==
    ASSUME IInv, NEW c \in Caller, HandleKeySet(c)
    PROVE  IInv'
<1>. DEFINE k == call[c]
<1>1. UNCHANGED <<now, dns, since, cache>> /\ Received(c, "keyset")
  BY DEF HandleKeySet
<1>2. /\ k \in RunningCall /\ RunningInv(k) /\ Linking(k, k.zone)
      /\ k.at = "keyset" /\ k.reply # None /\ k.reply \in Reply /\ k.zone \in Zone
      /\ now \in Nat /\ k.startedAt <= now
      /\ Settled(k) => dns.tlsa # {} /\ k.sig \in dns.signers[k.zone]
  BY <1>1, LaterReply
<1>3. Settled(k) => /\ k.reply.sigs = dns.keys[k.zone] /\ k.keys = dns.keys[k.zone]
                    /\ k.sig \in k.keys
  BY <1>2, SettledReply DEF RunningInv, SettledIsCurrent
<1>4. CASE k.reply.sigs \cap k.keys = {}
  <2>1. Becomes(c, Ended(k, "Skipped"))
    BY <1>4 DEF HandleKeySet
  <2>2. ~Settled(k)
    BY <1>3, <1>4
  <2>. QED  BY <1>1, <1>2, <2>1, <2>2, SkippedInv, CacheStays, OneCallStep
<1>5. CASE k.reply.sigs \cap k.keys # {} /\ k.zone # 0
  <2>1. Becomes(c, Ask(k, "ds", k.zone))
    BY <1>5 DEF HandleKeySet
  <2>2. CallInv(Ask(k, "ds", k.zone))
    BY <1>2, <1>3, <1>5, AskInv
  <2>. QED  BY <1>1, <2>1, <2>2, CacheStays, OneCallStep
<1>6. CASE k.reply.sigs \cap k.keys # {} /\ k.zone = 0 /\ TrustAnchor \in k.keys
  <2>1. Becomes(c, Decided(k))
    BY <1>6 DEF HandleKeySet
  <2>. QED  BY <1>1, <1>2, <1>6, <2>1, DecidedInv, CacheStays, OneCallStep
<1>7. CASE k.reply.sigs \cap k.keys # {} /\ k.zone = 0 /\ TrustAnchor \notin k.keys
  <2>1. Becomes(c, Ended(k, "Skipped"))
    BY <1>7 DEF HandleKeySet
  <2>2. Settled(k) => dns.tlsa # {} /\ ~ChainIsSecure(dns)
    BY <1>2, <1>3, <1>7 DEF ChainIsSecure
  <2>. QED  BY <1>1, <1>2, <2>1, <2>2, SkippedInv, CacheStays, OneCallStep
<1>. QED  BY <1>4, <1>5, <1>6, <1>7

LEMMA HandleDSInv ==
    ASSUME IInv, NEW c \in Caller, HandleDS(c)
    PROVE  IInv'
<1>. DEFINE k == call[c]
            r == k.reply
<1>1. UNCHANGED <<now, dns, since>> /\ Received(c, "ds")
  BY DEF HandleDS
<1>2. /\ k \in RunningCall /\ RunningInv(k) /\ Linking(k, k.zone)
      /\ k.at = "ds" /\ r # None /\ r \in Reply /\ k.zone \in Zone
      /\ now \in Nat /\ k.startedAt <= now
      /\ Settled(k) => dns.tlsa # {} /\ k.sig \in dns.signers[k.zone]
  BY <1>1, LaterReply
<1>3. k.zone # 0 /\ k.zone - 1 \in Zone
  BY <1>2, DaneConstants DEF RunningInv, Climbed, Zone
<1>4. Settled(k) => /\ r.rrs = dns.ds[k.zone] /\ r.sigs = dns.signers[k.zone - 1]
                    /\ k.keys = dns.keys[k.zone] /\ k.sig \in k.keys
  BY <1>2, SettledReply DEF RunningInv, SettledIsCurrent
<1>5. CASE r.rrs \cap k.keys = {} \/ r.sigs = {}
  <2>1. Becomes(c, Ended(k, "Skipped")) /\ UNCHANGED cache
    BY <1>5 DEF HandleDS
  <2>2. Settled(k) => dns.tlsa # {} /\ ~ChainIsSecure(dns)
    BY <1>2, <1>3, <1>4, <1>5 DEF ChainIsSecure
  <2>. QED  BY <1>1, <1>2, <2>1, <2>2, SkippedInv, CacheStays, OneCallStep
<1>6. CASE ~(r.rrs \cap k.keys = {} \/ r.sigs = {})
  <2>1. PICK g \in r.sigs : ValidateZoneChain(c, k.zone - 1, [k EXCEPT !.sig = g])
    BY <1>6 DEF HandleDS
  <2>. DEFINE l == [k EXCEPT !.sig = g]
  <2>2. /\ l \in RunningCall /\ l.records = k.records /\ l.sig = g
        /\ l.cert = k.cert /\ l.seen = k.seen /\ l.startedAt = k.startedAt
    BY <1>2 DEF RunningCall, Reply
  <2>. HIDE DEF l
  <2>3. SeenIsTrue(l) /\ ServedRecords(l.seen, l.cert, l.records) /\ l.startedAt <= now
    BY <1>2, <2>2 DEF Linking, SeenIsTrue
  \* The zone had DS records when it was asked for them.
  <2>4. \A y \in l.seen.insecure : y <= k.zone - 1
    <3>1. k.zone \notin k.seen.insecure
      BY <1>2, <1>6 DEF RunningInv, ReplyIsTrue
    <3>2. \A y \in k.seen.insecure : y \in Zone /\ y <= k.zone /\ y # k.zone
      BY <1>2, <3>1 DEF Linking, RunningCall, Seen
    <3>3. \A y \in Zone : y <= k.zone /\ y # k.zone => y <= k.zone - 1
      BY <1>2, DaneConstants DEF Zone
    <3>. QED  BY <2>2, <3>2, <3>3
  <2>5. Settled(l) => /\ l.records = dns.tlsa /\ dns.tlsa # {} /\ l.sig \in dns.signers[k.zone - 1]
                      /\ LinkedAbove(k.zone - 1)
    <3>. SUFFICES ASSUME Settled(l)
                  PROVE  /\ l.records = dns.tlsa /\ dns.tlsa # {} /\ l.sig \in dns.signers[k.zone - 1]
                         /\ LinkedAbove(k.zone - 1)
      OBVIOUS
    <3>1. Settled(k)
      BY <2>2 DEF Settled
    <3>2. k.records = dns.tlsa /\ dns.tlsa # {} /\ LinkedAbove(k.zone)
      BY <1>2, <3>1 DEF Linking
    <3>3. \A y \in Zone : y > k.zone - 1 => y = k.zone \/ y > k.zone
      BY <1>2, DaneConstants DEF Zone
    <3>4. dns.signers[k.zone] \cap dns.keys[k.zone] # {} /\ dns.ds[k.zone] \cap dns.keys[k.zone] # {}
      BY <1>2, <1>4, <1>6, <3>1
    <3>5. LinkedAbove(k.zone - 1)
      BY <3>2, <3>3, <3>4 DEF LinkedAbove
    <3>. QED  BY <1>4, <2>2, <3>1, <3>2, <3>5
  <2>6. Linking(l, k.zone - 1)
    BY <2>3, <2>4, <2>5 DEF Linking
  <2>. QED  BY <1>1, <1>3, <2>1, <2>2, <2>6, ValidateZoneChainInv DEF l
<1>. QED  BY <1>5, <1>6

LEMMA ReturnInv ==
    ASSUME IInv, NEW c \in Caller, ReturnOutcome(c)
    PROVE  IInv'
<1>1. Becomes(c, Idle) /\ UNCHANGED <<now, dns, since, cache>>
  BY DEF ReturnOutcome
<1>2. CallInv(Idle)
  BY CallShapes DEF CallInv, Idle
<1>. QED  BY <1>1, <1>2, CacheStays, OneCallStep

-----------------------------------------------------------------------------
(* The theorems.                                                            *)

LEMMA InitInv == Init => IInv
<1>. SUFFICES ASSUME Init PROVE IInv  OBVIOUS
<1>1. \A c \in Caller : CallInv(call[c])
  BY CallShapes DEF Init, CallInv, Idle
<1>2. \A z \in Zone : EntryInv(z)
  BY DEF Init, EntryInv
<1>. QED  BY <1>1, <1>2 DEF Init, IInv

LEMMA NextInv == IInv /\ [Next]_vars => IInv'
<1>. SUFFICES ASSUME IInv, [Next]_vars PROVE IInv'  OBVIOUS
<1>1. ASSUME NEW c \in Caller, CallStep(c) PROVE IInv'
  BY <1>1, AnsweredInv, LostInv, HandleTLSAInv, HandleDNSKEYInv, HandleKeySetInv, HandleDSInv
     DEF CallStep
<1>2. CASE UNCHANGED vars
  <2>1. UNCHANGED <<now, dns, since, cache, call>>
    BY <1>2 DEF vars
  <2>2. \A c \in Caller : CallInv(call[c])'
    BY <2>1, CallPersists DEF IInv
  <2>. QED  BY <2>1, <2>2, CacheStays DEF IInv
<1>. QED  BY <1>1, <1>2, TickInv, DeployInv, VerifyInv, ReturnInv DEF Next

LEMMA InvHolds == Spec => []IInv
BY InitInv, NextInv, PTL DEF Spec

\* What every done call is known to satisfy.
LEMMA OutcomesInv ==
    ASSUME IInv, NEW o \in Outcomes
    PROVE  DoneInv(o)
<1>1. PICK c \in Caller : o = call[c] /\ call[c].at = "done"
  BY DEF Outcomes
<1>2. o \in DoneCall
  BY <1>1, CallShapes DEF IInv, CallInv
<1>. QED  BY <1>1, <1>2 DEF IInv, CallInv

\* The calls, the cached keys and the clock are well formed, for any deployments.
THEOREM TypeCorrect == Spec => []TypeOK
<1>1. IInv => TypeOK
  BY DEF IInv, TypeOK, CallInv, EntryInv
<1>. QED  BY <1>1, InvHolds, PTL

\* However records, keys and delegations change between the queries of a call, a
\* Verified or Mismatch outcome is true of the DNS at some moment of it, and no zone up
\* to the root went without DS records for the whole of it (validateZoneChain,
\* validateDSChain).
THEOREM ConclusionsAreTrue == Spec => []ConclusiveIsTrue
<1>1. IInv => ConclusiveIsTrue
  BY OutcomesInv DEF DoneInv, Conclusive, ConclusiveIsTrue
<1>. QED  BY <1>1, InvHolds, PTL

\* Lost packets and failed exchanges never pass for an answer without records nor for a
\* reason to reject, however many attempts exchange makes (lookupTLSAByName).
THEOREM LossConcludesNothing == Spec => []LossIsNotAbsence
<1>1. IInv => LossIsNotAbsence
  BY OutcomesInv DEF DoneInv, LossProof, LossIsNotAbsence
<1>. QED  BY <1>1, InvHolds, PTL

\* Once a deployment has been the same for a TTL and a timeout, a call without faults
\* gets an outcome it deserves, although the keys of its zones are cached from before
\* (fetchDNSKEYs).
THEOREM SettledDeploymentDecides == Spec => []SettledChainDecides
<1>1. IInv => SettledChainDecides
  BY OutcomesInv DEF DoneInv, Settled, SettledChainDecides
<1>. QED  BY <1>1, InvHolds, PTL
=============================================================================
