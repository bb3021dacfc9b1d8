------------------------------ MODULE CrlChecker ------------------------------
(***************************************************************************)
(* Certificate revocation lists (verify/crl): Checker.Check finds the        *)
(* distribution point and the issuer in the chain the client has sent, gets  *)
(* the list from the Fetcher, which caches what it downloads by URI, and      *)
(* looks the client's serial number up in it.  Handshakes run concurrently;   *)
(* the Fetcher's lock covers the look into its cache and the store, not the   *)
(* download between them, and what is stored has not been validated.          *)
(***************************************************************************)
EXTENDS Integers, Sequences, FiniteSets

CONSTANTS
    Conn,          \* the goroutines that perform handshakes
    Cert,          \* client certificates; each is its own serial number
    Uri,           \* HTTP(S) distribution points
    Opaque,        \* a distribution point with another scheme
    Chain,         \* [Cert -> sequence of the distribution points of each
                   \* certificate the client sends, its own first]
    IssuerSent,    \* the certificates whose issuer is in the chain sent
    MaxAge,        \* Fetcher.maxAge
    Validity,      \* lifetimes of published lists, None if without nextUpdate
    FetchTimeout,  \* the HTTP client's Timeout
    MaxTime,       \* bound of the model: the clock stops here
    None           \* nil

List == [revoked: SUBSET Cert, nextUpdate: Nat \cup {None}]

\* What a download returns: the list that is served, or something that does not
\* parse, or a list that is not signed by the issuer.  asOf is history.
Answer == [kind: {"list", "garbage", "forged"}, revoked: SUBSET Cert,
           nextUpdate: Nat \cup {None}, asOf: Nat]

ASSUME CrlConstants ==
    /\ Chain \in [Cert -> Seq(Seq(Uri \cup {Opaque}))]
    /\ Opaque \notin Uri
    /\ IssuerSent \subseteq Cert
    /\ MaxAge \in Nat
    /\ Validity \subseteq Nat \cup {None}
    /\ FetchTimeout \in Nat
    /\ MaxTime \in Nat
    /\ None \notin Nat \cup Cert \cup Answer

VARIABLES
    now,       \* the clock
    cdp,       \* the list each distribution point serves (external)
    listedAt,  \* history: when each certificate was first on the list served
    crlCache,  \* Fetcher.cache
    pc,        \* where each handshake is
    cert,      \* the client certificate it was given
    body       \* the answer its Fetch has not stored yet

crlVars == <<cdp, listedAt, crlCache, body>>

CachedEntry == [body: Answer, fetchedAt: Nat, ttl: Nat]

\* m is the Go map of the Fetcher.
IsCrlCache(m) ==
    /\ DOMAIN m \subseteq Uri
    /\ m = [u \in DOMAIN m |-> m[u]]
    /\ \A u \in DOMAIN m : m[u] \in CachedEntry

-----------------------------------------------------------------------------
(* ResolveCDP                                                              *)

\* The first certificate of the chain with distribution points.
FirstWithCDP(c) ==
    CHOOSE i \in DOMAIN Chain[c] :
        Chain[c][i] # <<>> /\ \A j \in DOMAIN Chain[c] : Chain[c][j] # <<>> => i <= j

HasCDP(c) == \E i \in DOMAIN Chain[c] : Chain[c][i] # <<>>

\* Its first HTTP(S) URI, or None; later certificates are not looked at.
CDPUri(c) ==
    LET dps == Chain[c][FirstWithCDP(c)]
        http == {i \in DOMAIN dps : dps[i] \in Uri}
    IN  IF http = {} THEN None
        ELSE dps[CHOOSE i \in http : \A j \in http : i <= j]

CDPStatus(c) ==
    IF ~HasCDP(c) THEN "CDPSkipped"
    ELSE IF CDPUri(c) = None THEN "CDPFailed"
    ELSE "CDPFound"

-----------------------------------------------------------------------------
(* The distribution points (external).                                     *)

CrlInit ==
    /\ now = 0
    /\ cdp = [u \in Uri |-> [revoked |-> {}, nextUpdate |-> None]]
    /\ listedAt = [c \in Cert |-> None]
    /\ crlCache = [u \in {} |-> None]
    /\ pc = [p \in Conn |-> "idle"]
    /\ cert = [p \in Conn |-> None]
    /\ body = [p \in Conn |-> None]

\* The issuer publishes a list with the certificates revoked so far and the new
\* ones, good for v.
Publish(u, new, v) ==
    /\ \A c \in new : CDPStatus(c) = "CDPFound" /\ CDPUri(c) = u /\ listedAt[c] = None
    /\ cdp' = [cdp EXCEPT ![u] = [revoked |-> @.revoked \cup new,
                                  nextUpdate |-> IF v = None THEN None ELSE now + v]]
    /\ listedAt' = [c \in Cert |-> IF c \in new THEN now ELSE listedAt[c]]
    /\ UNCHANGED <<now, crlCache, pc, cert, body>>

\* A download returns the list that is published now, or something that is not a
\* valid list.  An assumption: the code would also accept an older list that the
\* issuer has signed, since ValidateNotRevoked does not look at its nextUpdate.
Served(u, kind) ==
    [kind |-> kind,
     revoked |-> IF kind = "list" THEN cdp[u].revoked ELSE {},
     nextUpdate |-> IF kind = "garbage" THEN None ELSE cdp[u].nextUpdate,
     asOf |-> now]

-----------------------------------------------------------------------------
(* Checker.Check and Fetcher.Fetch                                         *)

\* Result.ShouldReject: only a chain without distribution points passes unchecked.
ShouldReject(status) == status \in {"Revoked", "Failed"}

\* Check returns, and VerifyConnection refuses the client or goes on.
Checked(p, status) ==
    pc' = [pc EXCEPT ![p] = IF ShouldReject(status) THEN "refused" ELSE "badge"]

\* ValidateNotRevoked: parse, check the signature, look up the serial.
Validate(b, c) ==
    IF b.kind # "list" THEN "Failed"
    ELSE IF c \in b.revoked THEN "Revoked"
    ELSE "Passed"

NeedsList(c) == CDPStatus(c) = "CDPFound" /\ c \in IssuerSent

\* Decided without a list: there is no distribution point, or no usable one, or
\* the issuer is not in the chain.
CheckWithoutList(p) ==
    /\ pc[p] = "crl"
    /\ ~NeedsList(cert[p])
    /\ Checked(p, IF CDPStatus(cert[p]) = "CDPSkipped" THEN "Skipped" ELSE "Failed")
    /\ UNCHANGED <<now, crlVars, cert>>

\* Faulty variant: the age of the entry is not looked at.
FetchHitsAlways(u) == u \in DOMAIN crlCache

\* Fetch finds an entry that has not expired.
FetchHits(u) ==
    u \in DOMAIN crlCache /\ now - crlCache[u].fetchedAt <= crlCache[u].ttl

CheckWithCachedList(p) ==
    LET u == CDPUri(cert[p])
    IN  /\ pc[p] = "crl"
        /\ NeedsList(cert[p])
        /\ FetchHits(u)
        /\ Checked(p, Validate(crlCache[u].body, cert[p]))
        /\ UNCHANGED <<now, crlVars, cert>>

FetchMisses(p) ==
    /\ pc[p] = "crl"
    /\ NeedsList(cert[p])
    /\ ~FetchHits(CDPUri(cert[p]))
    /\ pc' = [pc EXCEPT ![p] = "crlFetch"]
    /\ UNCHANGED <<now, crlVars, cert>>

\* The request fails, is refused by the dialer, is not answered with 200, or the
\* answer is too long.
DownloadFails(p) ==
    /\ pc[p] = "crlFetch"
    /\ Checked(p, "Failed")
    /\ UNCHANGED <<now, crlVars, cert>>

Download(p, kind) ==
    /\ pc[p] = "crlFetch"
    /\ body' = [body EXCEPT ![p] = Served(CDPUri(cert[p]), kind)]
    /\ pc' = [pc EXCEPT ![p] = "crlStore"]
    /\ UNCHANGED <<now, cdp, listedAt, crlCache, cert>>

\* Faulty variant: nextUpdate is not taken into account.
TTLMaxAge(b) == MaxAge

\* How long the answer is cached: until nextUpdate, if it parses and has one, but
\* at most MaxAge; not at all if nextUpdate has passed.
TTL(b) ==
    IF b.kind = "garbage" \/ b.nextUpdate = None THEN MaxAge
    ELSE IF b.nextUpdate <= now THEN 0
    ELSE IF b.nextUpdate - now < MaxAge THEN b.nextUpdate - now
    ELSE MaxAge

\* The answer is cached, whatever it is and whatever was cached meanwhile, and then
\* validated.
StoreAndValidate(p) ==
    LET c == cert[p]
        b == body[p]
        e == [body |-> b, fetchedAt |-> now, ttl |-> TTL(b)]
        u == CDPUri(c)
    IN  /\ pc[p] = "crlStore"
        /\ crlCache' = [x \in DOMAIN crlCache \cup {u} |-> IF x = u THEN e ELSE crlCache[x]]
        /\ body' = [body EXCEPT ![p] = None]
        /\ Checked(p, Validate(b, c))
        /\ UNCHANGED <<now, cdp, listedAt, cert>>

CheckStep(p) ==
    \/ CheckWithoutList(p)
    \/ CheckWithCachedList(p)
    \/ FetchMisses(p)
    \/ DownloadFails(p)
    \/ \E kind \in {"list", "garbage", "forged"} : Download(p, kind)
    \/ StoreAndValidate(p)
=============================================================================
