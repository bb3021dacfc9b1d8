-------------------------- MODULE AgentServerProofs --------------------------
(***************************************************************************)
(* Proofs about AgentServer, for any number of concurrent handshakes, any     *)
(* certificates, distribution points and options, and any ages and timeouts,  *)
(* and, in the last part, about SessionMonitor, which watches the connections  *)
(* that the handshakes have admitted, for any number of them.                 *)
(***************************************************************************)
EXTENDS AgentServer, SessionMonitor, WellFoundedInduction, TLAPS

-----------------------------------------------------------------------------
(* ResolveCDP                                                              *)

LEMMA LeastElement ==
    ASSUME NEW T \in SUBSET Nat, T # {}
    PROVE  \E x \in T : \A y \in T : x <= y
<1>. DEFINE R == OpToRel(<, Nat)
<1>1. \A x, y \in Nat : <<y, x>> \in R <=> y < x
  BY DEF OpToRel
<1>2. IsWellFoundedOn(R, Nat)
  BY NatLessThanWellFounded
<1>. HIDE DEF R
<1>3. PICK x \in T : \A y \in T : ~(<<y, x>> \in R)
  BY <1>2, WFMin
<1>4. \A y \in T : ~(y < x)
  BY <1>1, <1>3
<1>5. \A y \in T : x <= y
  BY <1>4
<1>. QED  BY <1>5

\* A distribution point that is found is one the Fetcher can ask.
LEMMA FoundUri ==
    ASSUME NEW c \in Cert, CDPStatus(c) = "CDPFound"
    PROVE  CDPUri(c) \in Uri
<1>. DEFINE T == {i \in DOMAIN Chain[c] : Chain[c][i] # <<>>}
            dps == Chain[c][FirstWithCDP(c)]
            http == {i \in DOMAIN dps : dps[i] \in Uri}
<1>1. Chain[c] \in Seq(Seq(Uri \cup {Opaque}))
  BY CrlConstants
<1>2. T \in SUBSET Nat /\ T # {}
  BY <1>1 DEF CDPStatus, HasCDP
<1>3. \E i \in T : \A j \in T : i <= j
  BY <1>2, LeastElement
<1>4. \E i \in DOMAIN Chain[c] :
          Chain[c][i] # <<>> /\ \A j \in DOMAIN Chain[c] : Chain[c][j] # <<>> => i <= j
  BY <1>3
<1>5. FirstWithCDP(c) \in DOMAIN Chain[c]
  BY <1>4 DEF FirstWithCDP
<1>6. dps \in Seq(Uri \cup {Opaque})
  BY <1>1, <1>5
<1>7. http \in SUBSET Nat
  BY <1>6
<1>. HIDE DEF http
<1>8. http # {} /\ CDPUri(c) = dps[CHOOSE i \in http : \A j \in http : i <= j]
  BY DEF CDPStatus, CDPUri, http
<1>9. \E i \in http : \A j \in http : i <= j
  BY <1>7, <1>8, LeastElement
<1>10. (CHOOSE i \in http : \A j \in http : i <= j) \in http
  BY <1>9
<1>. QED  BY <1>8, <1>10 DEF http

-----------------------------------------------------------------------------
(* The inductive invariant.                                                *)

\* A handshake that goes on past the first checks is one of a server that
\* verifies its clients above PolicyBasic; a handshake that began too late never
\* gets past its badge; who is accepted has been recorded.
HandshakeInv ==
    \A p \in Conn :
        /\ pc[p] = "idle" => p \notin lateStart
        /\ p \in lateStart => cert[p] \in ended
        /\ pc[p] \in {"crl", "crlFetch", "crlStore", "badge", "dane"} => AboveBasic
        /\ pc[p] \in {"crlFetch", "crlStore"} => NeedsList(cert[p])
        /\ pc[p] = "dane" => level = PolicyAdvanced /\ p \notin lateStart
        /\ Accepted(p) /\ AboveBasic => p \notin lateStart /\ cert[p] \in DOMAIN peerLevels

\* Only the level the server asks for is ever achieved.
LevelsInv == \A c \in DOMAIN peerLevels : peerLevels[c] = level

\* The lists that are served name every certificate listed so far.
ListInv ==
    \A c \in Cert :
        listedAt[c] # None =>
            /\ listedAt[c] <= now
            /\ CDPStatus(c) = "CDPFound"
            /\ c \in cdp[CDPUri(c)].revoked

\* An answer b of the distribution point u: a list names what was listed before it
\* was served.
AnswerSound(b, u) ==
    /\ b.asOf <= now
    /\ b.kind = "garbage" => b.nextUpdate = None
    /\ b.kind = "list" =>
          \A c \in Cert :
              CDPUri(c) = u /\ listedAt[c] # None /\ listedAt[c] < b.asOf => c \in b.revoked

BodyInv ==
    \A p \in Conn :
        pc[p] = "crlStore" =>
            AnswerSound(body[p], CDPUri(cert[p])) /\ now - body[p].asOf <= FetchTimeout

\* An entry of the cache is an answer that was young when it was stored and does not
\* live beyond its nextUpdate, unless it does not live at all.
EntrySound(e, u) ==
    /\ AnswerSound(e.body, u)
    /\ e.fetchedAt <= now
    /\ e.fetchedAt - e.body.asOf <= FetchTimeout
    /\ e.ttl <= MaxAge
    /\ \/ e.body.nextUpdate = None
       \/ e.fetchedAt + e.ttl <= e.body.nextUpdate
       \/ e.ttl = 0

CacheInv == \A u \in DOMAIN crlCache : EntrySound(crlCache[u], u)

IInv == TypeOK /\ HandshakeInv /\ LevelsInv /\ ListInv /\ BodyInv /\ CacheInv

LEMMA InitInv == Init => IInv
<1>. SUFFICES ASSUME Init PROVE IInv  OBVIOUS
<1>. USE CrlConstants, ServerConstants DEF Init, CrlInit
<1>1. TypeOK
  BY DEF TypeOK, IsCrlCache, List
<1>2. HandshakeInv /\ LevelsInv
  BY DEF HandshakeInv, LevelsInv, Accepted
<1>3. ListInv /\ BodyInv /\ CacheInv
  BY DEF ListInv, BodyInv, CacheInv
<1>. QED  BY <1>1, <1>2, <1>3 DEF IInv

\* The options never change, so neither does the level.
LEMMA LevelStays ==
    options' = options => level' = level /\ (AboveBasic' <=> AboveBasic)
BY DEF level, AboveBasic

\* The level of a server above PolicyBasic.
LEMMA LevelAbove ==
    ASSUME TypeOK, AboveBasic
    PROVE  level \in {PolicyEnhanced, PolicyAdvanced}
BY CrlConstants DEF AboveBasic, VerifiesClients, level, TrustLevel, TypeOK, ServerOptions,
   Level, PolicyNone, PolicyBasic, PolicyEnhanced, PolicyAdvanced

LEMMA TickInv ==
    ASSUME IInv, Tick
    PROVE  IInv'
<1>. USE CrlConstants
<1>1. /\ now \in Nat /\ now' = now + 1
      /\ UNCHANGED <<cdp, listedAt, crlCache, pc, cert, body, options, ended, peerLevels,
                     lateStart>>
  BY DEF IInv, TypeOK, Tick, crlVars, serverVars
<1>2. TypeOK'
  BY <1>1 DEF IInv, TypeOK
<1>3. HandshakeInv' /\ LevelsInv'
  BY <1>1, LevelStays DEF IInv, HandshakeInv, LevelsInv, Accepted
<1>4. ListInv'
  BY <1>1 DEF IInv, TypeOK, ListInv
<1>5. BodyInv'
  <2>. SUFFICES ASSUME NEW p \in Conn, pc[p] = "crlStore"
                PROVE  AnswerSound(body[p], CDPUri(cert[p]))'
                       /\ now' - body[p].asOf <= FetchTimeout
    BY <1>1 DEF BodyInv
  <2>1. body[p].asOf \in Nat /\ now - body[p].asOf < FetchTimeout
    BY DEF IInv, TypeOK, Tick, Answer
  <2>2. AnswerSound(body[p], CDPUri(cert[p]))
    BY DEF IInv, BodyInv
  <2>3. AnswerSound(body[p], CDPUri(cert[p]))'
    BY <1>1, <2>1, <2>2 DEF AnswerSound
  <2>. QED  BY <1>1, <2>1, <2>3
<1>6. CacheInv'
  <2>. SUFFICES ASSUME NEW u \in DOMAIN crlCache
                PROVE  EntrySound(crlCache[u], u)'
    BY <1>1 DEF CacheInv
  <2>1. crlCache[u] \in CachedEntry
    BY DEF IInv, TypeOK, IsCrlCache
  <2>2. crlCache[u].body.asOf \in Nat /\ crlCache[u].fetchedAt \in Nat
    BY <2>1 DEF CachedEntry, Answer
  <2>. QED  BY <1>1, <2>2 DEF IInv, CacheInv, EntrySound, AnswerSound
<1>. QED  BY <1>2, <1>3, <1>4, <1>5, <1>6 DEF IInv

LEMMA PublishInv ==
    ASSUME IInv, NEW u \in Uri, NEW new \in SUBSET Cert, NEW v \in Validity,
           Publish(u, new, v), UNCHANGED serverVars
    PROVE  IInv'
<1>. USE CrlConstants
<1>. DEFINE list == [revoked |-> cdp[u].revoked \cup new,
                     nextUpdate |-> IF v = None THEN None ELSE now + v]
<1>1. /\ now \in Nat /\ now' = now
      /\ UNCHANGED <<crlCache, pc, cert, body, options, ended, peerLevels, lateStart>>
  BY DEF IInv, TypeOK, Publish, serverVars
<1>2. \A c \in Cert : listedAt'[c] = IF c \in new THEN now ELSE listedAt[c]
  BY DEF Publish
<1>3. \A w \in Uri : cdp'[w] = IF w = u THEN list ELSE cdp[w]
  BY DEF Publish, IInv, TypeOK
<1>4. list \in List
  BY <1>1 DEF IInv, TypeOK, List
<1>5. TypeOK'
  BY <1>1, <1>4 DEF Publish, IInv, TypeOK
<1>6. HandshakeInv' /\ LevelsInv'
  BY <1>1, LevelStays DEF IInv, HandshakeInv, LevelsInv, Accepted
<1>7. ListInv'
  <2>. SUFFICES ASSUME NEW c \in Cert, listedAt'[c] # None
                PROVE  /\ listedAt'[c] <= now' /\ CDPStatus(c) = "CDPFound"
                       /\ c \in cdp'[CDPUri(c)].revoked
    BY DEF ListInv
  <2>1. CASE c \in new
    BY <1>1, <1>2, <1>3, <2>1 DEF Publish
  <2>2. CASE c \notin new
    <3>1. /\ listedAt[c] <= now /\ CDPStatus(c) = "CDPFound"
          /\ c \in cdp[CDPUri(c)].revoked
      BY <1>2, <2>2 DEF IInv, ListInv
    <3>. QED  BY <1>1, <1>2, <1>3, <2>2, <3>1, FoundUri
  <2>. QED  BY <2>1, <2>2
<1>8. BodyInv'
  <2>. SUFFICES ASSUME NEW p \in Conn, pc[p] = "crlStore"
                PROVE  AnswerSound(body[p], CDPUri(cert[p]))'
                       /\ now' - body[p].asOf <= FetchTimeout
    BY <1>1 DEF BodyInv
  <2>1. body[p].asOf \in Nat
    BY DEF IInv, TypeOK, Answer
  <2>2. AnswerSound(body[p], CDPUri(cert[p])) /\ now - body[p].asOf <= FetchTimeout
    BY DEF IInv, BodyInv
  <2>. QED  BY <1>1, <1>2, <2>1, <2>2 DEF AnswerSound
<1>9. CacheInv'
  <2>. SUFFICES ASSUME NEW w \in DOMAIN crlCache
                PROVE  EntrySound(crlCache[w], w)'
    BY <1>1 DEF CacheInv
  <2>1. crlCache[w] \in CachedEntry
    BY DEF IInv, TypeOK, IsCrlCache
  <2>2. crlCache[w].body.asOf \in Nat
    BY <2>1 DEF CachedEntry, Answer
  <2>. QED  BY <1>1, <1>2, <2>2 DEF IInv, CacheInv, EntrySound, AnswerSound
<1>. QED  BY <1>5, <1>6, <1>7, <1>8, <1>9 DEF IInv

LEMMA EndRecordInv ==
    ASSUME IInv, NEW c \in Cert, EndRecord(c)
    PROVE  IInv'
<1>1. /\ UNCHANGED <<now, cdp, listedAt, crlCache, body, pc, cert, options, peerLevels,
                     lateStart>>
      /\ ended' = ended \cup {c}
  BY DEF EndRecord, crlVars
<1>2. TypeOK'
  BY <1>1 DEF IInv, TypeOK
<1>3. HandshakeInv' /\ LevelsInv'
  BY <1>1, LevelStays DEF IInv, HandshakeInv, LevelsInv, Accepted
<1>4. ListInv' /\ BodyInv' /\ CacheInv'
  BY <1>1 DEF IInv, ListInv, BodyInv, CacheInv, EntrySound, AnswerSound
<1>. QED  BY <1>2, <1>3, <1>4 DEF IInv

-----------------------------------------------------------------------------
(* The handshake.                                                          *)

\* A handshake moves and nothing else changes.
LEMMA MoveInv ==
    ASSUME IInv, NEW p \in Conn, NEW place \in {"refused", "badge", "crlFetch", "dane", "open"},
           Goto(p, place), UNCHANGED <<now, crlVars, cert, serverVars>>,
           pc[p] # "crlStore",
           place \in {"badge", "crlFetch", "dane"} => AboveBasic /\ cert[p] \in Cert,
           place = "crlFetch" => NeedsList(cert[p]),
           place = "dane" => level = PolicyAdvanced /\ p \notin lateStart,
           place = "open" => ~AboveBasic
    PROVE  IInv'
<1>1. UNCHANGED <<now, cdp, listedAt, crlCache, body, cert, options, ended, peerLevels,
                  lateStart>>
  BY DEF crlVars, serverVars
<1>2. \A q \in Conn : pc'[q] = IF q = p THEN place ELSE pc[q]
  BY DEF Goto, IInv, TypeOK
<1>3. TypeOK'
  BY <1>1, <1>2 DEF Goto, IInv, TypeOK
<1>4. HandshakeInv'
  BY <1>1, <1>2, LevelStays DEF IInv, HandshakeInv, Accepted
<1>5. LevelsInv'
  BY <1>1, LevelStays DEF IInv, LevelsInv
<1>6. BodyInv'
  BY <1>1, <1>2 DEF IInv, BodyInv, AnswerSound
<1>7. ListInv' /\ CacheInv'
  BY <1>1 DEF IInv, ListInv, CacheInv, EntrySound, AnswerSound
<1>. QED  BY <1>3, <1>4, <1>5, <1>6, <1>7 DEF IInv

LEMMA AcceptPlainInv ==
    ASSUME IInv, NEW p \in Conn, AcceptPlain(p)
    PROVE  IInv'
BY MoveInv DEF AcceptPlain, AboveBasic

\* Where Check leaves a handshake.
LEMMA CheckedInv ==
    ASSUME IInv, NEW p \in Conn, NEW status, Checked(p, status),
           UNCHANGED <<now, crlVars, cert, serverVars>>, pc[p] \in {"crl", "crlFetch"}
    PROVE  IInv'
<1>. DEFINE place == IF ShouldReject(status) THEN "refused" ELSE "badge"
<1>1. Goto(p, place)
  BY DEF Checked, Goto
<1>2. place \in {"refused", "badge"}
  OBVIOUS
<1>3. AboveBasic /\ cert[p] \in Cert
  BY DEF IInv, TypeOK, HandshakeInv
<1>. HIDE DEF place
<1>. QED  BY <1>1, <1>2, <1>3, MoveInv

LEMMA FetchMissesInv ==
    ASSUME IInv, NEW p \in Conn, FetchMisses(p), UNCHANGED serverVars
    PROVE  IInv'
<1>1. AboveBasic /\ cert[p] \in Cert
  BY DEF FetchMisses, IInv, TypeOK, HandshakeInv
<1>. QED  BY <1>1, MoveInv DEF FetchMisses, Goto

LEMMA DownloadInv ==
    ASSUME IInv, NEW p \in Conn, NEW kind \in {"list", "garbage", "forged"},
           Download(p, kind), UNCHANGED serverVars
    PROVE  IInv'
<1>. USE CrlConstants
<1>. DEFINE u == CDPUri(cert[p])
            b == Served(u, kind)
<1>1. UNCHANGED <<now, cdp, listedAt, crlCache, cert, options, ended, peerLevels, lateStart>>
  BY DEF Download, serverVars
<1>2. pc[p] = "crlFetch" /\ cert[p] \in Cert /\ NeedsList(cert[p]) /\ now \in Nat
  BY DEF Download, IInv, TypeOK, HandshakeInv
<1>3. u \in Uri
  BY <1>2, FoundUri DEF NeedsList
<1>4. cdp[u] \in List
  BY <1>3 DEF IInv, TypeOK
<1>5. b \in Answer /\ b # None /\ b.asOf = now
  BY <1>2, <1>4 DEF Served, Answer, List
<1>6. \A q \in Conn : /\ pc'[q] = IF q = p THEN "crlStore" ELSE pc[q]
                      /\ body'[q] = IF q = p THEN b ELSE body[q]
  BY DEF Download, IInv, TypeOK
<1>7. TypeOK'
  <2>1. pc' \in [Conn -> {"idle", "crl", "crlFetch", "crlStore", "badge", "dane", "open",
                          "refused"}]
    BY DEF Download, IInv, TypeOK
  <2>2. body' \in [Conn -> Answer \cup {None}]
    BY <1>5 DEF Download, IInv, TypeOK
  <2>. QED  BY <1>1, <1>2, <1>5, <1>6, <2>1, <2>2 DEF IInv, TypeOK
<1>8. HandshakeInv'
  BY <1>1, <1>2, <1>6, LevelStays DEF IInv, HandshakeInv, Accepted
<1>9. LevelsInv'
  BY <1>1, LevelStays DEF IInv, LevelsInv
<1>10. AnswerSound(b, u)
  BY <1>2, <1>3 DEF AnswerSound, Served, IInv, ListInv
<1>11. BodyInv'
  <2>. SUFFICES ASSUME NEW q \in Conn, pc'[q] = "crlStore"
                PROVE  /\ AnswerSound(body'[q], CDPUri(cert[q]))
                       /\ now - body'[q].asOf <= FetchTimeout
    BY <1>1 DEF BodyInv, AnswerSound
  <2>1. CASE q = p
    BY <1>2, <1>5, <1>6, <1>10, <2>1
  <2>2. CASE q # p
    BY <1>6, <2>2 DEF IInv, BodyInv
  <2>. QED  BY <2>1, <2>2
<1>12. ListInv' /\ CacheInv'
  BY <1>1 DEF IInv, ListInv, CacheInv, EntrySound, AnswerSound
<1>. QED  BY <1>7, <1>8, <1>9, <1>11, <1>12 DEF IInv

LEMMA StoreInv ==
    ASSUME IInv, NEW p \in Conn, StoreAndValidate(p), UNCHANGED serverVars
    PROVE  IInv'
<1>. USE CrlConstants
<1>. DEFINE c == cert[p]
            b == body[p]
            e == [body |-> b, fetchedAt |-> now, ttl |-> TTL(b)]
            u == CDPUri(c)
            place == IF ShouldReject(Validate(b, c)) THEN "refused" ELSE "badge"
<1>1. /\ UNCHANGED <<now, cdp, listedAt, cert, options, ended, peerLevels, lateStart>>
      /\ pc[p] = "crlStore"
  BY DEF StoreAndValidate, serverVars
<1>2. b \in Answer /\ now \in Nat /\ c \in Cert /\ AboveBasic /\ NeedsList(c)
  BY <1>1 DEF IInv, TypeOK, HandshakeInv
<1>3. u \in Uri
  BY <1>2, FoundUri DEF NeedsList
<1>4. /\ b.nextUpdate \in Nat \cup {None} /\ b.asOf \in Nat
      /\ AnswerSound(b, u) /\ now - b.asOf <= FetchTimeout
  BY <1>1, <1>2 DEF Answer, IInv, BodyInv
<1>5. /\ TTL(b) \in Nat /\ TTL(b) <= MaxAge
      /\ b.nextUpdate = None \/ now + TTL(b) <= b.nextUpdate \/ TTL(b) = 0
  BY <1>2, <1>4 DEF TTL, AnswerSound
<1>6. e \in CachedEntry
  BY <1>2, <1>5 DEF CachedEntry
<1>7. EntrySound(e, u)
  BY <1>2, <1>4, <1>5 DEF EntrySound
<1>8. crlCache' = [x \in DOMAIN crlCache \cup {u} |-> IF x = u THEN e ELSE crlCache[x]]
  BY DEF StoreAndValidate
<1>9. pc' = [pc EXCEPT ![p] = place] /\ body' = [body EXCEPT ![p] = None]
  BY DEF StoreAndValidate, Checked
<1>10. place \in {"refused", "badge"}
  OBVIOUS
<1>. HIDE DEF e, place, b
<1>11. \A q \in Conn : /\ pc'[q] = IF q = p THEN place ELSE pc[q]
                       /\ body'[q] = IF q = p THEN None ELSE body[q]
  BY <1>9 DEF IInv, TypeOK
<1>12. IsCrlCache(crlCache')
  BY <1>3, <1>6, <1>8 DEF IsCrlCache, IInv, TypeOK
<1>13. TypeOK'
  <2>1. pc' \in [Conn -> {"idle", "crl", "crlFetch", "crlStore", "badge", "dane", "open",
                          "refused"}]
    BY <1>9, <1>10 DEF IInv, TypeOK
  <2>2. body' \in [Conn -> Answer \cup {None}]
    BY <1>9 DEF IInv, TypeOK
  <2>. QED  BY <1>1, <1>2, <1>10, <1>11, <1>12, <2>1, <2>2 DEF IInv, TypeOK
<1>14. HandshakeInv'
  BY <1>1, <1>2, <1>10, <1>11, LevelStays DEF IInv, HandshakeInv, Accepted
<1>15. LevelsInv'
  BY <1>1, LevelStays DEF IInv, LevelsInv
<1>16. ListInv'
  BY <1>1 DEF IInv, ListInv
<1>17. BodyInv'
  BY <1>1, <1>10, <1>11 DEF IInv, BodyInv, AnswerSound
<1>18. CacheInv'
  <2>1. \A x \in DOMAIN crlCache' : EntrySound(crlCache'[x], x)
    BY <1>7, <1>8 DEF IInv, CacheInv
  <2>. QED  BY <1>1, <2>1 DEF CacheInv, EntrySound, AnswerSound
<1>. QED  BY <1>13, <1>14, <1>15, <1>16, <1>17, <1>18 DEF IInv

LEMMA CheckStepInv ==
    ASSUME IInv, NEW p \in Conn, CheckStep(p), UNCHANGED serverVars
    PROVE  IInv'
<1>1. CASE CheckWithoutList(p) \/ CheckWithCachedList(p) \/ DownloadFails(p)
  BY <1>1, CheckedInv DEF CheckWithoutList, CheckWithCachedList, DownloadFails
<1>2. CASE FetchMisses(p)
  BY <1>2, FetchMissesInv
<1>3. ASSUME NEW kind \in {"list", "garbage", "forged"}, Download(p, kind)
      PROVE  IInv'
  BY <1>3, DownloadInv
<1>4. CASE StoreAndValidate(p)
  BY <1>4, StoreInv
<1>. QED  BY <1>1, <1>2, <1>3, <1>4 DEF CheckStep

LEMMA VerifyConnectionInv ==
    ASSUME IInv, NEW p \in Conn, NEW c \in Cert, VerifyConnection(p, c)
    PROVE  IInv'
<1>. USE CrlConstants
<1>. DEFINE place == IF ~Valid(c) THEN "refused"
                     ELSE IF level = PolicyBasic THEN "open"
                     ELSE IF ShouldEnableCRL(options) THEN "crl"
                     ELSE "badge"
<1>1. /\ UNCHANGED <<now, cdp, listedAt, crlCache, body, options, ended, peerLevels>>
      /\ pc[p] = "idle" /\ VerifiesClients(options)
      /\ Goto(p, place) /\ cert' = [cert EXCEPT ![p] = c]
      /\ lateStart' = IF c \in ended THEN lateStart \cup {p} ELSE lateStart
  BY DEF VerifyConnection, crlVars
<1>2. place \in {"refused", "open", "crl", "badge"}
  OBVIOUS
<1>3. (place \in {"crl", "badge"} => AboveBasic) /\ (place = "open" => ~AboveBasic)
  BY <1>1 DEF AboveBasic, VerifiesClients, level, TrustLevel, IInv, TypeOK, ServerOptions,
     Level, PolicyNone, PolicyBasic, PolicyEnhanced, PolicyAdvanced
<1>. HIDE DEF place
<1>4. \A q \in Conn : /\ pc'[q] = IF q = p THEN place ELSE pc[q]
                      /\ cert'[q] = IF q = p THEN c ELSE cert[q]
  BY <1>1 DEF Goto, IInv, TypeOK
<1>5. TypeOK'
  <2>1. pc' \in [Conn -> {"idle", "crl", "crlFetch", "crlStore", "badge", "dane", "open",
                          "refused"}]
    BY <1>1, <1>2 DEF Goto, IInv, TypeOK
  <2>2. cert' \in [Conn -> Cert \cup {None}]
    BY <1>1 DEF IInv, TypeOK
  <2>. QED  BY <1>1, <1>2, <1>4, <2>1, <2>2 DEF IInv, TypeOK
<1>6. HandshakeInv'
  BY <1>1, <1>2, <1>3, <1>4, LevelStays DEF IInv, HandshakeInv, Accepted
<1>7. LevelsInv'
  BY <1>1, LevelStays DEF IInv, LevelsInv
<1>8. BodyInv'
  BY <1>1, <1>2, <1>4 DEF IInv, BodyInv, AnswerSound
<1>9. ListInv' /\ CacheInv'
  BY <1>1 DEF IInv, ListInv, CacheInv, EntrySound, AnswerSound
<1>. QED  BY <1>5, <1>6, <1>7, <1>8, <1>9 DEF IInv

\* A handshake concludes with the level the server asks for.
LEMMA ConcludeInv ==
    ASSUME IInv, NEW p \in Conn, Conclude(p, level), level \in Level,
           pc[p] \in {"badge", "dane"}, p \notin lateStart,
           UNCHANGED <<now, crlVars, cert, options, ended, lateStart>>
    PROVE  IInv'
<1>. USE CrlConstants
<1>1. UNCHANGED <<now, cdp, listedAt, crlCache, body, cert, options, ended, lateStart>>
  BY DEF crlVars
<1>2. cert[p] \in Cert /\ AboveBasic
  BY DEF IInv, TypeOK, HandshakeInv
<1>3. Goto(p, "open")
  BY DEF Conclude, Level, PolicyNone, PolicyBasic, PolicyEnhanced, PolicyAdvanced
<1>4. \A q \in Conn : pc'[q] = IF q = p THEN "open" ELSE pc[q]
  BY <1>3 DEF Goto, IInv, TypeOK
<1>5. /\ DOMAIN peerLevels' = DOMAIN peerLevels \cup {cert[p]}
      /\ \A c \in DOMAIN peerLevels' :
            peerLevels'[c] = IF c = cert[p] THEN level ELSE peerLevels[c]
  BY DEF Conclude, Record
<1>6. TypeOK'
  <2>1. pc' \in [Conn -> {"idle", "crl", "crlFetch", "crlStore", "badge", "dane", "open",
                          "refused"}]
    BY <1>3 DEF Goto, IInv, TypeOK
  <2>2. DOMAIN peerLevels' \subseteq Cert /\ \A c \in DOMAIN peerLevels' : peerLevels'[c] \in Level
    BY <1>2, <1>5 DEF IInv, TypeOK
  <2>. QED  BY <1>1, <1>4, <2>1, <2>2 DEF IInv, TypeOK
<1>7. HandshakeInv'
  BY <1>1, <1>4, <1>5, LevelStays DEF IInv, HandshakeInv, Accepted
<1>8. LevelsInv'
  BY <1>1, <1>5, LevelStays DEF IInv, LevelsInv
<1>9. BodyInv'
  BY <1>1, <1>4 DEF IInv, BodyInv, AnswerSound
<1>10. ListInv' /\ CacheInv'
  BY <1>1 DEF IInv, ListInv, CacheInv, EntrySound, AnswerSound
<1>. QED  BY <1>6, <1>7, <1>8, <1>9, <1>10 DEF IInv

\* The log does not vouch for an agent whose record has ended.
LEMMA BadgeVerifiedInv ==
    ASSUME IInv, NEW p \in Conn, BadgeVerified(p)
    PROVE  IInv'
<1>1. /\ pc[p] = "badge" /\ AboveBasic /\ cert[p] \in Cert
      /\ p \notin lateStart
  BY DEF BadgeVerified, IInv, TypeOK, HandshakeInv
<1>2. level \in {PolicyEnhanced, PolicyAdvanced}
  BY <1>1, LevelAbove DEF IInv
<1>3. CASE level = PolicyAdvanced
  <2>1. Goto(p, "dane") /\ UNCHANGED <<now, crlVars, cert, serverVars>>
    BY <1>3 DEF BadgeVerified, PolicyAdvanced, serverVars
  <2>. QED  BY <1>1, <1>3, <2>1, MoveInv
<1>4. CASE level = PolicyEnhanced
  <2>1. Conclude(p, level)
    BY <1>4 DEF BadgeVerified, PolicyEnhanced, PolicyAdvanced
  <2>2. level \in Level
    BY <1>4 DEF Level
  <2>. QED  BY <1>1, <2>1, <2>2, ConcludeInv DEF BadgeVerified
<1>. QED  BY <1>2, <1>3, <1>4

LEMMA DANEVerifiedInv ==
    ASSUME IInv, NEW p \in Conn, DANEVerified(p)
    PROVE  IInv'
<1>1. pc[p] = "dane" /\ p \notin lateStart /\ level = PolicyAdvanced
  BY DEF DANEVerified, IInv, HandshakeInv
<1>2. Conclude(p, level) /\ level \in Level
  BY <1>1 DEF DANEVerified, Level
<1>. QED  BY <1>1, <1>2, ConcludeInv DEF DANEVerified

LEMMA CloseInv ==
    ASSUME IInv, NEW p \in Conn, Close(p)
    PROVE  IInv'
<1>. USE CrlConstants
<1>1. /\ UNCHANGED <<now, cdp, listedAt, crlCache, body, options, ended, peerLevels>>
      /\ pc[p] \in {"open", "refused"} /\ Goto(p, "idle")
      /\ cert' = [cert EXCEPT ![p] = None] /\ lateStart' = lateStart \ {p}
  BY DEF Close
<1>2. \A q \in Conn : /\ pc'[q] = IF q = p THEN "idle" ELSE pc[q]
                      /\ cert'[q] = IF q = p THEN None ELSE cert[q]
  BY <1>1 DEF Goto, IInv, TypeOK
<1>3. TypeOK'
  <2>1. pc' \in [Conn -> {"idle", "crl", "crlFetch", "crlStore", "badge", "dane", "open",
                          "refused"}]
    BY <1>1 DEF Goto, IInv, TypeOK
  <2>2. cert' \in [Conn -> Cert \cup {None}]
    BY <1>1 DEF IInv, TypeOK
  <2>. QED  BY <1>1, <1>2, <2>1, <2>2 DEF IInv, TypeOK
<1>4. HandshakeInv'
  BY <1>1, <1>2, LevelStays DEF IInv, HandshakeInv, Accepted
<1>5. LevelsInv'
  BY <1>1, LevelStays DEF IInv, LevelsInv
<1>6. BodyInv'
  BY <1>1, <1>2 DEF IInv, BodyInv, AnswerSound
<1>7. ListInv' /\ CacheInv'
  BY <1>1 DEF IInv, ListInv, CacheInv, EntrySound, AnswerSound
<1>. QED  BY <1>3, <1>4, <1>5, <1>6, <1>7 DEF IInv

LEMMA HandshakeStepInv ==
    ASSUME IInv, NEW p \in Conn, HandshakeStep(p)
    PROVE  IInv'
<1>1. CASE CheckStep(p) /\ UNCHANGED serverVars
  BY <1>1, CheckStepInv
<1>2. CASE BadgeVerified(p) \/ DANEVerified(p)
  BY <1>2, BadgeVerifiedInv, DANEVerifiedInv
<1>3. CASE BadgeFails(p) \/ DANEFails(p)
  BY <1>3, MoveInv DEF BadgeFails, DANEFails
<1>. QED  BY <1>1, <1>2, <1>3 DEF HandshakeStep

LEMMA NextInv == IInv /\ [Next]_vars => IInv'
<1>. SUFFICES ASSUME IInv, [Next]_vars PROVE IInv'  OBVIOUS
<1>1. CASE Tick
  BY <1>1, TickInv
<1>2. ASSUME NEW u \in Uri, NEW new \in SUBSET Cert, NEW v \in Validity,
             Publish(u, new, v), UNCHANGED serverVars
      PROVE  IInv'
  BY <1>2, PublishInv
<1>3. ASSUME NEW c \in Cert, EndRecord(c)
      PROVE  IInv'
  BY <1>3, EndRecordInv
<1>4. ASSUME NEW p \in Conn,
             \/ AcceptPlain(p) \/ (\E c \in Cert : VerifyConnection(p, c))
             \/ HandshakeStep(p) \/ Close(p)
      PROVE  IInv'
  BY <1>4, AcceptPlainInv, VerifyConnectionInv, HandshakeStepInv, CloseInv
<1>5. CASE UNCHANGED vars
  <2>1. TypeOK' /\ LevelsInv'
    BY <1>5, LevelStays DEF vars, IInv, TypeOK, LevelsInv
  <2>2. HandshakeInv'
    BY <1>5, LevelStays DEF vars, IInv, HandshakeInv, Accepted
  <2>3. ListInv' /\ BodyInv' /\ CacheInv'
    BY <1>5 DEF vars, IInv, ListInv, BodyInv, CacheInv, EntrySound, AnswerSound
  <2>. QED  BY <2>1, <2>2, <2>3 DEF IInv
<1>. QED  BY <1>1, <1>2, <1>3, <1>4, <1>5 DEF Next

LEMMA SpecInv == Spec => []IInv
BY InitInv, NextInv, PTL DEF Spec

-----------------------------------------------------------------------------
(* Invariants of the specification.                                        *)

\* The state of a handshake fits the place it has reached, and the Fetcher
\* caches answers of distribution points only.
THEOREM TypeCorrect == Spec => []TypeOK
<1>1. IInv => TypeOK
  BY DEF IInv
<1>. QED  BY <1>1, SpecInv, PTL

\* Above PolicyBasic the VerifyConnection callback accepts no client whose agent's
\* record in the log had ended when the handshake began.
THEOREM EndedAgentsRefused == Spec => []EndedAgentRefused
<1>1. IInv => EndedAgentRefused
  BY DEF IInv, HandshakeInv, EndedAgentRefused
<1>. QED  BY <1>1, SpecInv, PTL

\* PeerTrustLevel reports of an open connection the level the server asks for,
\* whatever other handshakes with the certificate record.
THEOREM PeerLevelsReported == Spec => []PeerLevelReported
<1>1. IInv => PeerLevelReported
  BY DEF IInv, HandshakeInv, LevelsInv, PeerLevelReported
<1>. QED  BY <1>1, SpecInv, PTL

-----------------------------------------------------------------------------
(* What a step may do.                                                     *)

ConnStep(p) ==
    \/ AcceptPlain(p)
    \/ \E c \in Cert : VerifyConnection(p, c)
    \/ HandshakeStep(p)
    \/ Close(p)

\* A handshake moves by its own steps only.
LEMMA OwnStep ==
    ASSUME TypeOK, Next, NEW p \in Conn, pc'[p] # pc[p]
    PROVE  ConnStep(p)
<1>1. PICK q \in Conn : ConnStep(q)
  BY DEF Next, Tick, Publish, EndRecord, ConnStep
<1>2. \A x \in Conn : x # q => pc'[x] = pc[x]
  <2>1. CASE HandshakeStep(q)
    BY <2>1 DEF TypeOK, HandshakeStep, BadgeVerified, BadgeFails, DANEVerified, DANEFails,
       Conclude, Goto, CheckStep, CheckWithoutList, CheckWithCachedList, FetchMisses,
       DownloadFails, Download, StoreAndValidate, Checked
  <2>2. CASE ~HandshakeStep(q)
    BY <1>1, <2>2 DEF TypeOK, ConnStep, AcceptPlain, VerifyConnection, Close, Goto
  <2>. QED  BY <2>1, <2>2
<1>3. q = p
  BY <1>2
<1>. QED  BY <1>1, <1>3

\* The steps in which a handshake leaves the places of the list check for good.
LEMMA ListVerdict ==
    ASSUME TypeOK, Next, NEW p \in Conn,
           pc[p] \in {"crl", "crlFetch", "crlStore"}, pc'[p] \in {"badge", "refused"}
    PROVE  \/ CheckWithoutList(p)
           \/ CheckWithCachedList(p)
           \/ DownloadFails(p)
           \/ StoreAndValidate(p)
<1>1. ConnStep(p)
  BY OwnStep
<1>2. CheckStep(p)
  BY <1>1 DEF ConnStep, AcceptPlain, VerifyConnection, HandshakeStep, BadgeVerified, BadgeFails,
     DANEVerified, DANEFails, Close
<1>. QED  BY <1>2 DEF CheckStep, FetchMisses, Download, TypeOK

\* The verdict of the list check rests on an answer at most MaxAge and one request
\* old (Fetcher.Fetch), however handshakes interleave their downloads and stores.
THEOREM ListsAreCurrent == Spec => ListIsCurrent
<1>. DEFINE A == \A p \in Conn : OwnIsCurrent(p) /\ CachedIsCurrent(p)
<1>1. IInv /\ [Next]_vars => A \/ UNCHANGED vars
  <2>. SUFFICES ASSUME IInv, Next, NEW p \in Conn
                PROVE  OwnIsCurrent(p) /\ CachedIsCurrent(p)
    OBVIOUS
  <2>1. OwnIsCurrent(p)
    BY DEF IInv, BodyInv, UsesOwn, OwnIsCurrent
  <2>2. CachedIsCurrent(p)
    <3>. DEFINE u == CDPUri(cert[p])
                e == crlCache[u]
    <3>1. SUFFICES ASSUME UsesCached(p)
                   PROVE  /\ now - e.body.asOf <= Horizon
                          /\ \/ e.body.nextUpdate = None
                             \/ now <= e.body.nextUpdate
                             \/ now = e.fetchedAt
      BY DEF CachedIsCurrent
    <3>2. FetchHits(u)
      <4>1. pc[p] = "crl" /\ pc'[p] \in {"badge", "refused"} /\ NeedsList(cert[p])
        BY <3>1 DEF UsesCached
      <4>. QED  BY <4>1, ListVerdict DEF IInv, CheckWithoutList, CheckWithCachedList,
                   DownloadFails, StoreAndValidate
    <3>3. u \in DOMAIN crlCache /\ now - e.fetchedAt <= e.ttl
      BY <3>2 DEF FetchHits
    <3>4. EntrySound(e, u) /\ e \in CachedEntry /\ now \in Nat
      BY <3>3 DEF IInv, CacheInv, TypeOK, IsCrlCache
    <3>5. /\ e.fetchedAt \in Nat /\ e.ttl \in Nat /\ e.body.asOf \in Nat
          /\ e.body.nextUpdate \in Nat \cup {None}
      BY <3>4 DEF CachedEntry, Answer
    <3>6. /\ e.fetchedAt <= now /\ e.fetchedAt - e.body.asOf <= FetchTimeout
          /\ e.ttl <= MaxAge
          /\ \/ e.body.nextUpdate = None
             \/ e.fetchedAt + e.ttl <= e.body.nextUpdate
             \/ e.ttl = 0
      BY <3>4 DEF EntrySound
    <3>. HIDE DEF e
    <3>7. now - e.body.asOf <= Horizon
      BY <3>3, <3>4, <3>5, <3>6, CrlConstants DEF Horizon
    <3>8. CASE e.ttl = 0
      BY <3>3, <3>4, <3>5, <3>6, <3>7, <3>8
    <3>9. CASE e.body.nextUpdate # None /\ e.fetchedAt + e.ttl <= e.body.nextUpdate
      BY <3>3, <3>4, <3>5, <3>7, <3>9
    <3>. QED  BY <3>6, <3>7, <3>8, <3>9
  <2>. QED  BY <2>1, <2>2
<1>2. IInv /\ [Next]_vars => [A]_vars
  BY <1>1
<1>. QED  BY <1>2, SpecInv, PTL DEF Spec, ListIsCurrent

\* Above PolicyBasic no client passes the list check of VerifyConnection once its
\* certificate has been on the list served for longer than MaxAge and one request.
THEOREM ListedCertsRefused == Spec => ListedCertRefused
<1>. DEFINE A == \A p \in Conn :
                   PassesList(p) /\ ShouldEnableCRL(options) /\ AboveBasic =>
                       ~ListedTooLong(cert'[p])
<1>1. IInv /\ [Next]_vars => A \/ UNCHANGED vars
  <2>. SUFFICES ASSUME IInv, Next, NEW p \in Conn, PassesList(p), ShouldEnableCRL(options),
                       AboveBasic, ListedTooLong(cert'[p])
                PROVE  FALSE
    OBVIOUS
  <2>1. ConnStep(p)
    BY OwnStep DEF PassesList, IInv
  <2>2. pc[p] # "idle"
    <3>. SUFFICES ASSUME pc[p] = "idle" PROVE FALSE  OBVIOUS
    <3>1. AcceptPlain(p) \/ \E c \in Cert : VerifyConnection(p, c)
      BY <2>1 DEF ConnStep, HandshakeStep, BadgeVerified, BadgeFails, DANEVerified, DANEFails,
         Close, CheckStep, CheckWithoutList, CheckWithCachedList, FetchMisses, DownloadFails,
         Download, StoreAndValidate
    <3>2. PICK c \in Cert : VerifyConnection(p, c)
      BY <3>1 DEF AcceptPlain, AboveBasic
    <3>3. level # PolicyBasic
      BY LevelAbove DEF IInv, PolicyBasic, PolicyEnhanced, PolicyAdvanced
    <3>4. pc'[p] \in {"refused", "crl"}
      BY <3>2, <3>3 DEF VerifyConnection, Goto, IInv, TypeOK
    <3>. QED  BY <3>4 DEF PassesList
  <2>3. CheckStep(p) /\ pc[p] \in {"crl", "crlFetch", "crlStore"}
    BY <2>1, <2>2 DEF PassesList, ConnStep, AcceptPlain, VerifyConnection, HandshakeStep,
       BadgeVerified, BadgeFails, DANEVerified, DANEFails, Close
  <2>4. cert'[p] = cert[p] /\ cert[p] \in Cert /\ AboveBasic
    BY <2>3 DEF IInv, TypeOK, CheckStep, CheckWithoutList, CheckWithCachedList, FetchMisses,
       DownloadFails, Download, StoreAndValidate
  <2>. DEFINE c == cert[p]
              u == CDPUri(c)
  <2>5. /\ listedAt[c] \in Nat /\ now \in Nat /\ now > listedAt[c] + Horizon
        /\ CDPStatus(c) = "CDPFound"
    BY <2>4 DEF ListedTooLong, IInv, TypeOK, ListInv
  <2>6. ~CheckWithoutList(p) /\ ~DownloadFails(p)
    BY <2>5 DEF CheckWithoutList, DownloadFails, Checked, ShouldReject, PassesList, IInv, TypeOK
  <2>7. ASSUME NEW b \in Answer, AnswerSound(b, u), Validate(b, c) = "Passed",
               now - b.asOf <= Horizon
        PROVE  FALSE
    <3>1. b.kind = "list" /\ c \notin b.revoked /\ b.asOf \in Nat
      BY <2>7 DEF Validate, Answer
    <3>2. ~(listedAt[c] < b.asOf)
      BY <2>4, <2>5, <2>7, <3>1, CrlConstants DEF AnswerSound
    <3>. QED  BY <2>5, <2>7, <3>1, <3>2, CrlConstants DEF Horizon
  <2>8. ~CheckWithCachedList(p)
    <3>. SUFFICES ASSUME CheckWithCachedList(p) PROVE FALSE  OBVIOUS
    <3>1. u \in DOMAIN crlCache /\ now - crlCache[u].fetchedAt <= crlCache[u].ttl
      BY DEF CheckWithCachedList, FetchHits
    <3>2. EntrySound(crlCache[u], u) /\ crlCache[u] \in CachedEntry
      BY <3>1 DEF IInv, CacheInv, TypeOK, IsCrlCache
    <3>3. /\ crlCache[u].body \in Answer /\ crlCache[u].body.asOf \in Nat
          /\ crlCache[u].fetchedAt \in Nat /\ crlCache[u].ttl \in Nat
      BY <3>2 DEF CachedEntry, Answer
    <3>4. AnswerSound(crlCache[u].body, u) /\ now - crlCache[u].body.asOf <= Horizon
      BY <2>5, <3>1, <3>2, <3>3, CrlConstants DEF EntrySound, Horizon
    <3>5. Validate(crlCache[u].body, c) = "Passed"
      BY DEF CheckWithCachedList, Checked, ShouldReject, Validate, PassesList, IInv, TypeOK
    <3>. QED  BY <2>7, <3>3, <3>4, <3>5
  <2>9. ~StoreAndValidate(p)
    <3>. SUFFICES ASSUME StoreAndValidate(p) PROVE FALSE  OBVIOUS
    <3>1. pc[p] = "crlStore" /\ body[p] \in Answer
      BY DEF StoreAndValidate, IInv, TypeOK
    <3>2. AnswerSound(body[p], u) /\ now - body[p].asOf <= FetchTimeout /\ body[p].asOf \in Nat
      BY <3>1 DEF IInv, BodyInv, Answer
    <3>3. now - body[p].asOf <= Horizon
      BY <2>5, <3>2, CrlConstants DEF Horizon
    <3>4. Validate(body[p], c) = "Passed"
      BY DEF StoreAndValidate, Checked, ShouldReject, Validate, PassesList, IInv, TypeOK
    <3>. QED  BY <2>7, <3>1, <3>2, <3>3, <3>4
  <2>10. ~FetchMisses(p) /\ ~(\E kind \in {"list", "garbage", "forged"} : Download(p, kind))
    BY DEF FetchMisses, Download, PassesList, IInv, TypeOK
  <2>. QED  BY <2>3, <2>6, <2>8, <2>9, <2>10 DEF CheckStep
<1>2. IInv /\ [Next]_vars => [A]_vars
  BY <1>1
<1>. QED  BY <1>2, SpecInv, PTL DEF Spec, ListedCertRefused
-----------------------------------------------------------------------------
(* SessionMonitor: the registry stays consistent, a revocation is reported at  *)
(* most once and only for an agent that has ended, and a session whose context *)
(* is done before its log request is answered is never reported.              *)

\* The only way to a report leads through "report", where the agent has ended, and
\* out of it, where the goroutine ends.
Reporting ==
    \A s \in Session :
        /\ where[s] = "report" => Host[s] \in revoked
        /\ IF where[s] = "done" /\ reports[s] # 0
             THEN reports[s] = 1 /\ Host[s] \in revoked
             ELSE reports[s] = 0

MonitorInv == MonitorTypeOK /\ Reporting

\* The places a goroutine can move to.  Every action but Stop and Revoke is about
\* one session and moves no other.
LEMMA StepOfOne ==
    ASSUME MonitorTypeOK, NEW s \in Session, NEW place, where' = [where EXCEPT ![s] = place]
    PROVE  where'[s] = place /\ \A t \in Session \ {s} : where'[t] = where[t]
BY DEF MonitorTypeOK

LEMMA MonitorInitInv == MonitorInit => MonitorInv
<1>. SUFFICES ASSUME MonitorInit PROVE MonitorInv  OBVIOUS
<1>1. MonitorTypeOK
  BY MonitorConstants DEF MonitorInit, MonitorTypeOK
<1>2. Reporting
  BY DEF MonitorInit, Reporting
<1>. QED  BY <1>1, <1>2 DEF MonitorInv

LEMMA MonitorNextType == MonitorTypeOK /\ [MonitorNext]_monitorVars => MonitorTypeOK'
<1>. SUFFICES ASSUME MonitorTypeOK, [MonitorNext]_monitorVars PROVE MonitorTypeOK'  OBVIOUS
<1>. USE MonitorConstants
<1>1. CASE Stop
  <2>1. {sessions[f] : f \in {g \in Fqdn : sessions[g] # NoSession}} \subseteq Session
    BY DEF MonitorTypeOK
  <2>. QED  BY <1>1, <2>1 DEF Stop, MonitorTypeOK, Started
<1>2. ASSUME NEW f \in Fqdn, Revoke(f) PROVE MonitorTypeOK'
  BY <1>2 DEF Revoke, MonitorTypeOK, Started
<1>3. ASSUME NEW s \in Session, Watch(s) PROVE MonitorTypeOK'
  <2>1. CASE stopped
    BY <1>3, <2>1 DEF Watch, LoopGoes, MonitorTypeOK, Started
  <2>2. CASE ~stopped
    BY <1>3, <2>2 DEF Watch, LoopGoes, MonitorTypeOK, Started
  <2>. QED  BY <2>1, <2>2
<1>4. ASSUME NEW s \in Session, StopFunc(s) \/ ContextEnds(s) \/ TickerFires(s)
      PROVE  MonitorTypeOK'
  BY <1>4 DEF StopFunc, ContextEnds, TickerFires, MonitorTypeOK, Started
<1>5. ASSUME NEW s \in Session, StopFuncDeletes(s) PROVE MonitorTypeOK'
  BY <1>5 DEF StopFuncDeletes, MonitorTypeOK, Started
\* A goroutine that has started stays started.
<1>6. ASSUME NEW s \in Session, Started(s),
             NEW place \in {"select", "dns", "fetch", "report", "done"}, LoopGoes(s, place),
             UNCHANGED <<sessions, stopped, cancelled, stopping, revoked>>,
             ticked' \subseteq ticked, reports' \in [Session -> Nat]
      PROVE  MonitorTypeOK'
  BY <1>6 DEF LoopGoes, MonitorTypeOK, Started
<1>7. ASSUME NEW s \in Session, LoopStep(s) PROVE MonitorTypeOK'
  <2>1. Started(s)
    BY <1>7 DEF LoopStep, LoopEnds, LoopTicks, LookupFinds, RecheckInconclusive,
                FetchTLResponse, OnRevoked, Started
  <2>2. PICK place \in {"select", "dns", "fetch", "report", "done"} : LoopGoes(s, place)
    BY <1>7 DEF LoopStep, LoopEnds, LoopTicks, LookupFinds, RecheckInconclusive,
                FetchTLResponse, OnRevoked, Finish
  <2>3. /\ UNCHANGED <<sessions, stopped, cancelled, stopping, revoked>>
        /\ ticked' \subseteq ticked
    BY <1>7 DEF LoopStep, LoopEnds, LoopTicks, LookupFinds, RecheckInconclusive,
                FetchTLResponse, OnRevoked, Finish
  <2>4. reports' = reports \/ reports' = [reports EXCEPT ![s] = @ + 1]
    BY <1>7 DEF LoopStep, LoopEnds, LoopTicks, LookupFinds, RecheckInconclusive,
                FetchTLResponse, OnRevoked
  <2>5. reports' \in [Session -> Nat]
    BY <2>4 DEF MonitorTypeOK
  <2>. QED  BY <1>6, <2>1, <2>2, <2>3, <2>5
<1>8. CASE UNCHANGED monitorVars
  BY <1>8 DEF monitorVars, MonitorTypeOK, Started
<1>. QED  BY <1>1, <1>2, <1>3, <1>4, <1>5, <1>7, <1>8 DEF MonitorNext

LEMMA NextReporting ==
    ASSUME MonitorInv, [MonitorNext]_monitorVars
    PROVE  Reporting'
<1>1. MonitorTypeOK /\ Reporting
  BY DEF MonitorInv
\* A move that makes no report and does not enter "report".
<1>2. ASSUME NEW s \in Session, NEW place, LoopGoes(s, place), where[s] # "done",
             place = "report" => Host[s] \in revoked,
             UNCHANGED <<revoked, reports>>
      PROVE  Reporting'
  <2>1. where'[s] = place /\ \A t \in Session \ {s} : where'[t] = where[t]
    BY <1>1, <1>2, StepOfOne DEF LoopGoes
  <2>. QED  BY <1>1, <1>2, <2>1 DEF Reporting
<1>3. ASSUME where' = where, reports' = reports, revoked \subseteq revoked'
      PROVE  Reporting'
  BY <1>1, <1>3 DEF Reporting
<1>4. CASE Stop \/ UNCHANGED monitorVars
  BY <1>3, <1>4 DEF Stop, monitorVars
<1>5. ASSUME NEW f \in Fqdn, Revoke(f) PROVE Reporting'
  BY <1>3, <1>5 DEF Revoke
<1>6. ASSUME NEW s \in Session, Watch(s) PROVE Reporting'
  <2>1. PICK place \in {"refused", "select"} : LoopGoes(s, place)
    BY <1>6 DEF Watch
  <2>. QED  BY <1>2, <1>6, <2>1 DEF Watch
<1>7. ASSUME NEW s \in Session,
             \/ StopFunc(s) \/ StopFuncDeletes(s) \/ ContextEnds(s) \/ TickerFires(s)
      PROVE  Reporting'
  BY <1>3, <1>7 DEF StopFunc, StopFuncDeletes, ContextEnds, TickerFires
<1>8. ASSUME NEW s \in Session, FetchTLResponse(s) PROVE Reporting'
  <2>. DEFINE place == IF Host[s] \in revoked THEN "report" ELSE "select"
  <2>1. LoopGoes(s, place) /\ where[s] = "fetch" /\ UNCHANGED <<revoked, reports>>
    BY <1>8 DEF FetchTLResponse
  <2>2. place = "report" => Host[s] \in revoked
    OBVIOUS
  <2>. HIDE DEF place
  <2>. QED  BY <1>2, <2>1, <2>2
<1>9. ASSUME NEW s \in Session,
             LoopEnds(s) \/ LoopTicks(s) \/ LookupFinds(s) \/ RecheckInconclusive(s)
      PROVE  Reporting'
  <2>1. PICK place \in {"select", "dns", "fetch", "done"} : LoopGoes(s, place)
    BY <1>9 DEF LoopEnds, LoopTicks, LookupFinds, RecheckInconclusive, Finish
  <2>2. where[s] # "done" /\ UNCHANGED <<revoked, reports>>
    BY <1>9 DEF LoopEnds, LoopTicks, LookupFinds, RecheckInconclusive
  <2>. QED  BY <1>2, <2>1, <2>2
\* The one report: it had not been made before, and the agent had ended.
<1>10. ASSUME NEW s \in Session, OnRevoked(s) PROVE Reporting'
  <2>1. where[s] = "report" /\ reports[s] = 0 /\ Host[s] \in revoked
    BY <1>1, <1>10 DEF OnRevoked, Reporting
  <2>2. where'[s] = "done" /\ \A t \in Session \ {s} : where'[t] = where[t]
    BY <1>1, <1>10, StepOfOne DEF OnRevoked, Finish, LoopGoes
  <2>3. reports'[s] = 1 /\ \A t \in Session \ {s} : reports'[t] = reports[t]
    BY <1>1, <1>10, <2>1 DEF OnRevoked, MonitorTypeOK
  <2>4. revoked' = revoked
    BY <1>10 DEF OnRevoked
  <2>. QED  BY <1>1, <2>1, <2>2, <2>3, <2>4 DEF Reporting
<1>. QED  BY <1>4, <1>5, <1>6, <1>7, <1>8, <1>9, <1>10 DEF MonitorNext, LoopStep

LEMMA MonitorInvHolds == MonitorSpec => []MonitorInv
<1>1. MonitorInv /\ [MonitorNext]_monitorVars => MonitorInv'
  BY MonitorNextType, NextReporting DEF MonitorInv
<1>. QED  BY <1>1, MonitorInitInv, PTL DEF MonitorSpec

\* Watch, the stop functions and Stop keep the registry consistent: what is
\* registered under a host is a started session of that host, and nothing is
\* registered after Stop.
THEOREM MonitorTypeCorrect == MonitorSpec => []MonitorTypeOK
BY MonitorInvHolds, PTL DEF MonitorInv

\* monitorLoop calls onRevoked at most once for a session, only for an agent the
\* log has ended, and its goroutine is gone afterwards.
THEOREM RevocationReportedOnce == MonitorSpec => []ReportedOnce
<1>1. MonitorInv => ReportedOnce
  BY DEF MonitorInv, Reporting, ReportedOnce
<1>. QED  BY <1>1, MonitorInvHolds, PTL

-----------------------------------------------------------------------------
(* A cancelled session that has not reached the report stays quiet: from there *)
(* the goroutine can only go on to its end.                                    *)

Quiet(s) == s \in cancelled /\ where[s] # "report" /\ Started(s) /\ reports[s] = 0

LEMMA QuietIsStable ==
    ASSUME MonitorTypeOK, [MonitorNext]_monitorVars, NEW s \in Session, Quiet(s)
    PROVE  Quiet(s)'
<1>1. ASSUME where'[s] = where[s], reports'[s] = reports[s], cancelled \subseteq cancelled'
      PROVE  Quiet(s)'
  BY <1>1 DEF Quiet, Started
<1>2. CASE Stop \/ UNCHANGED monitorVars
  BY <1>1, <1>2 DEF Stop, monitorVars
<1>3. ASSUME NEW f \in Fqdn, Revoke(f) PROVE Quiet(s)'
  BY <1>1, <1>3 DEF Revoke
<1>4. ASSUME NEW t \in Session, Watch(t) PROVE Quiet(s)'
  <2>1. t # s
    BY <1>4 DEF Watch, Quiet, Started
  <2>2. PICK place : LoopGoes(t, place)
    BY <1>4 DEF Watch
  <2>3. where'[s] = where[s]
    BY <2>1, <2>2, StepOfOne DEF LoopGoes
  <2>. QED  BY <1>1, <1>4, <2>3 DEF Watch
<1>5. ASSUME NEW t \in Session,
             \/ StopFunc(t) \/ StopFuncDeletes(t) \/ ContextEnds(t) \/ TickerFires(t)
      PROVE  Quiet(s)'
  BY <1>1, <1>5 DEF StopFunc, StopFuncDeletes, ContextEnds, TickerFires
<1>6. ASSUME NEW t \in Session, LoopStep(t) PROVE Quiet(s)'
  <2>1. CASE t # s
    <3>1. PICK place : LoopGoes(t, place)
      BY <1>6 DEF LoopStep, LoopEnds, LoopTicks, LookupFinds, RecheckInconclusive,
                  FetchTLResponse, OnRevoked, Finish
    <3>2. where'[s] = where[s]
      BY <2>1, <3>1, StepOfOne DEF LoopGoes
    <3>3. reports'[s] = reports[s] /\ cancelled' = cancelled
      BY <1>6, <2>1 DEF MonitorTypeOK, LoopStep, LoopEnds, LoopTicks, LookupFinds,
                        RecheckInconclusive, FetchTLResponse, OnRevoked
    <3>. QED  BY <1>1, <3>2, <3>3
  \* The log request of a cancelled session is not answered.
  <2>2. CASE t = s
    <3>1. LoopEnds(s) \/ LoopTicks(s) \/ LookupFinds(s) \/ RecheckInconclusive(s)
      BY <1>6, <2>2 DEF LoopStep, Quiet, FetchTLResponse, OnRevoked
    <3>2. PICK place \in {"select", "dns", "fetch", "done"} : LoopGoes(s, place)
      BY <3>1 DEF LoopEnds, LoopTicks, LookupFinds, RecheckInconclusive, Finish
    <3>3. where'[s] \in {"select", "dns", "fetch", "done"}
      BY <3>2, StepOfOne DEF LoopGoes
    <3>4. reports' = reports /\ cancelled' = cancelled
      BY <3>1 DEF LoopEnds, LoopTicks, LookupFinds, RecheckInconclusive
    <3>. QED  BY <3>3, <3>4 DEF Quiet, Started
  <2>. QED  BY <2>1, <2>2
<1>. QED  BY <1>2, <1>3, <1>4, <1>5, <1>6 DEF MonitorNext

\* recheck runs its log request under the session's context: once that context is
\* done, a goroutine that has not had the answer never calls onRevoked.
THEOREM CancelledSessionsStayQuiet == MonitorSpec => CancelledStaysQuiet
<1>. SUFFICES ASSUME NEW s \in Session
              PROVE  MonitorSpec => [](s \in cancelled /\ where[s] \in {"select", "dns", "fetch"}
                                  => [](reports[s] = 0))
  BY DEF CancelledStaysQuiet
<1>1. MonitorInv /\ s \in cancelled /\ where[s] \in {"select", "dns", "fetch"} => Quiet(s)
  BY DEF MonitorInv, Reporting, Quiet, Started
<1>2. MonitorInv /\ Quiet(s) /\ [MonitorNext]_monitorVars => Quiet(s)'
  BY QuietIsStable DEF MonitorInv
<1>3. Quiet(s) => reports[s] = 0
  BY DEF Quiet
<1>. QED  BY <1>1, <1>2, <1>3, MonitorInvHolds, PTL DEF MonitorSpec
=============================================================================
