------------------------ MODULE HeaderSupplierProofs ------------------------
(***************************************************************************)
(* Proofs about HeaderSupplier, for any number of goroutines, any lifetimes  *)
(* of the tokens and any clock skew.                                        *)
(***************************************************************************)
EXTENDS HeaderSupplier, TLAPS

\* How far the log's tokens of a live agent reach: to the present, or to the time
\* of the revocation.
Limit == IF revokedAt = None THEN now ELSE revokedAt

\* The token was issued no later than time t.
IssuedBy(token, t) == \E l \in Lifetime : token.exp <= t + l

\* A token of a live agent.
Honest(token, t) == token \in Token /\ ~token.terminal /\ IssuedBy(token, t)

-----------------------------------------------------------------------------
(* The inductive invariant.  What is sent is made from a copy, the copy from  *)
(* the cached fields and these from what was fetched, each in a step of its    *)
(* own: the invariant follows the token on its way.                           *)

FetchedSound ==
    \A p \in Process :
        /\ pc[p] \in {"verify", "store"} =>
              /\ fetched[p] \in Token
              /\ ~fetched[p].terminal => IssuedBy(fetched[p], Limit)
        /\ pc[p] = "store" => ~fetched[p].terminal

CachedSound ==
    statusToken # None =>
        receipt /\ Honest(statusToken, Limit) /\ tokenExp = statusToken.exp

CopySound ==
    \A c \in Caller :
        local[c].token # None =>
            Honest(local[c].token, Limit) /\ local[c].exp = local[c].token.exp

SentSound ==
    \A c \in Caller :
        Sends(c) => Honest(sent[c].token, Limit) /\ sent[c].at < sent[c].token.exp

\* The artifacts are there before initialized says so, and are never dropped.
InitSound ==
    initialized \/ (\E p \in Process : pc[p] \in {"initDone", "autoDone"}) =>
        statusToken # None

IInv ==
    TypeOK /\ FetchedSound /\ CachedSound /\ CopySound /\ SentSound /\ InitSound

LEMMA InitInv == Init => IInv
<1>. SUFFICES ASSUME Init PROVE IInv  OBVIOUS
<1>. USE SupplierConstants DEF Init
<1>1. TypeOK
  BY DEF TypeOK, Process, NoCopy
<1>2. FetchedSound /\ InitSound
  BY DEF FetchedSound, InitSound, Process
<1>3. CachedSound /\ CopySound /\ SentSound
  BY DEF CachedSound, CopySound, SentSound, Sends, NoCopy
<1>. QED  BY <1>1, <1>2, <1>3 DEF IInv

\* A token stays honest as time passes and when the agent is revoked.
LEMMA HonestStays ==
    ASSUME NEW token, NEW s \in Nat, NEW t \in Nat, s <= t, token \in Token, IssuedBy(token, s)
    PROVE  IssuedBy(token, t)
BY SupplierConstants DEF IssuedBy, Token

LEMMA WorldInv ==
    ASSUME IInv, Tick \/ Revoke
    PROVE  IInv'
<1>. USE SupplierConstants DEF IInv
<1>1. /\ Limit \in Nat /\ Limit' \in Nat /\ Limit <= Limit'
      /\ now' \in Nat /\ revokedAt' \in Nat \cup {None}
  BY DEF Tick, Revoke, Limit, TypeOK
<1>2. UNCHANGED <<cached, initialized, lastError, initGate, pc, fetched, local, sent>>
  BY DEF Tick, Revoke
<1>. HIDE DEF IInv
<1>3. TypeOK'
  BY <1>1, <1>2 DEF IInv, TypeOK, cached
<1>4. FetchedSound'
  BY <1>1, <1>2, HonestStays DEF IInv, FetchedSound
<1>5. CachedSound'
  BY <1>1, <1>2, HonestStays DEF IInv, CachedSound, Honest, cached
<1>6. CopySound'
  BY <1>1, <1>2, HonestStays DEF IInv, CopySound, Honest
<1>7. SentSound'
  BY <1>1, <1>2, HonestStays DEF IInv, SentSound, Sends, Honest
<1>8. InitSound'
  BY <1>2 DEF IInv, InitSound, cached
<1>. QED  BY <1>3, <1>4, <1>5, <1>6, <1>7, <1>8 DEF IInv

-----------------------------------------------------------------------------
(* The steps of the program leave the log and the clock alone.              *)

LEMMA LimitStays == world' = world => Limit' = Limit
BY DEF world, Limit

\* A step that only moves one goroutine, and not to a place that promises
\* anything.
LEMMA MoveInv ==
    ASSUME IInv, NEW p \in Process, NEW place, Goto(p, place),
           UNCHANGED <<world, cached, lastError, fetched, local, sent>>,
           initialized' => statusToken # None,
           place \notin {"verify", "store", "initFailed", "initDone", "autoDone"},
           TypeOK'
    PROVE  IInv'
<1>1. Limit' = Limit
  BY LimitStays
<1>2. \A q \in Process : pc'[q] = IF q = p THEN place ELSE pc[q]
  BY DEF Goto, IInv, TypeOK
<1>3. FetchedSound'
  BY <1>1, <1>2 DEF IInv, FetchedSound
<1>4. CachedSound' /\ CopySound'
  BY <1>1 DEF IInv, CachedSound, CopySound, cached
<1>5. SentSound'
  BY <1>1 DEF IInv, SentSound, Sends
<1>6. InitSound'
  BY <1>2 DEF IInv, InitSound, cached
<1>. QED  BY <1>3, <1>4, <1>5, <1>6 DEF IInv

LEMMA FailsInv ==
    ASSUME IInv, NEW p \in Process, FetchOrVerifyFails(p)
    PROVE  IInv'
<1>. USE SupplierConstants
<1>1. Limit' = Limit
  BY LimitStays DEF FetchOrVerifyFails
<1>2. \A q \in Process : pc'[q] = IF q = p THEN AfterFailure(p) ELSE pc[q]
  BY DEF FetchOrVerifyFails, Goto, IInv, TypeOK
<1>3. TypeOK'
  BY DEF FetchOrVerifyFails, Goto, AfterFailure, IInv, TypeOK, world, cached, Process
<1>4. FetchedSound'
  BY <1>1, <1>2 DEF IInv, TypeOK, FetchedSound, FetchOrVerifyFails, AfterFailure
<1>5. CachedSound' /\ CopySound'
  BY <1>1 DEF IInv, CachedSound, CopySound, cached, FetchOrVerifyFails
<1>6. SentSound'
  BY <1>1 DEF IInv, SentSound, Sends, FetchOrVerifyFails
<1>7. InitSound'
  BY <1>2 DEF IInv, InitSound, cached, FetchOrVerifyFails, AfterFailure
<1>. QED  BY <1>3, <1>4, <1>5, <1>6, <1>7 DEF IInv

\* What the log issues for a live agent is honest.
LEMMA FetchInv ==
    ASSUME IInv, NEW p \in Process, NEW l \in Lifetime, FetchArtifacts(p, l)
    PROVE  IInv'
<1>. USE SupplierConstants
<1>1. Limit' = Limit
  BY LimitStays DEF FetchArtifacts
<1>2. \A q \in Process :
          /\ pc'[q] = IF q = p THEN "verify" ELSE pc[q]
          /\ fetched'[q] = IF q = p THEN Issue(l) ELSE fetched[q]
  BY DEF FetchArtifacts, Goto, IInv, TypeOK
<1>3. Issue(l) \in Token /\ (~Issue(l).terminal => IssuedBy(Issue(l), Limit))
  <2>1. now \in Nat /\ l \in Nat /\ revokedAt \in Nat \cup {None}
    BY DEF IInv, TypeOK
  <2>2. Issue(l).exp = now + l /\ Issue(l).terminal = (revokedAt # None)
    BY Zenon DEF Issue
  <2>3. now + l \in Nat /\ (revokedAt # None) \in BOOLEAN
    BY <2>1
  <2>4. Issue(l) \in Token
    BY <2>3, Zenon DEF Issue, Token
  <2>5. ~Issue(l).terminal => Issue(l).exp <= Limit + l
    <3>1. ~Issue(l).terminal => Limit = now
      BY <2>2, Zenon DEF Limit
    <3>. QED  BY <2>1, <2>2, <3>1
  <2>. QED  BY <2>4, <2>5 DEF IssuedBy
<1>4. TypeOK'
  BY <1>3 DEF FetchArtifacts, Goto, IInv, TypeOK, world, cached
<1>5. FetchedSound'
  BY <1>1, <1>2, <1>3 DEF IInv, FetchedSound
<1>6. CachedSound' /\ CopySound'
  BY <1>1 DEF IInv, CachedSound, CopySound, cached, FetchArtifacts
<1>7. SentSound'
  BY <1>1 DEF IInv, SentSound, Sends, FetchArtifacts
<1>8. InitSound'
  BY <1>2 DEF IInv, InitSound, cached, FetchArtifacts
<1>. QED  BY <1>4, <1>5, <1>6, <1>7, <1>8 DEF IInv

LEMMA VerifyInv ==
    ASSUME IInv, NEW p \in Process, Verify(p)
    PROVE  IInv'
<1>. USE SupplierConstants
<1>1. Limit' = Limit
  BY LimitStays DEF Verify
<1>2. \A q \in Process : pc'[q] = IF q = p THEN "store" ELSE pc[q]
  BY DEF Verify, Goto, IInv, TypeOK
<1>3. TypeOK'
  BY DEF Verify, Goto, IInv, TypeOK, world, cached
<1>4. FetchedSound'
  BY <1>1, <1>2 DEF IInv, FetchedSound, Verify, VerifyStatusTokenAt
<1>5. CachedSound' /\ CopySound'
  BY <1>1 DEF IInv, CachedSound, CopySound, cached, Verify
<1>6. SentSound'
  BY <1>1 DEF IInv, SentSound, Sends, Verify
<1>7. InitSound'
  BY <1>2 DEF IInv, InitSound, cached, Verify
<1>. QED  BY <1>3, <1>4, <1>5, <1>6, <1>7 DEF IInv

LEMMA StoreInv ==
    ASSUME IInv, NEW p \in Process, Store(p)
    PROVE  IInv'
<1>. USE SupplierConstants
<1>1. Limit' = Limit
  BY LimitStays DEF Store
<1>2. \A q \in Process :
          /\ pc'[q] = IF q = p THEN AfterSuccess(p) ELSE pc[q]
          /\ fetched'[q] = IF q = p THEN None ELSE fetched[q]
  BY DEF Store, Goto, IInv, TypeOK
<1>3. Honest(fetched[p], Limit) /\ fetched[p].exp \in Nat /\ fetched[p] # None
  BY DEF Store, IInv, FetchedSound, Honest, Token
<1>4. TypeOK'
  <2>1. TypeOK /\ fetched[p] \in Token
    BY <1>3 DEF IInv, Honest
  <2>2. /\ UNCHANGED <<now, revokedAt, initialized, initGate, local, sent>>
        /\ receipt' = TRUE /\ statusToken' = fetched[p] /\ tokenExp' = fetched[p].exp
        /\ lastError' = FALSE
    BY DEF Store, world
  <2>3. fetched' \in [Process -> Token \cup {None}]
    BY <2>1 DEF Store, TypeOK
  <2>4. pc' \in [Process -> {"idle", "gate", "fetch", "verify", "store", "initFailed",
                            "initDone", "reread", "build", "done", "off", "waiting", "autoDone"}]
    BY <2>1 DEF Store, Goto, AfterSuccess, TypeOK
  <2>5. ASSUME NEW c \in Caller
        PROVE  /\ initGate = c =>
                     pc'[c] \in {"fetch", "verify", "store", "initFailed", "initDone"}
               /\ pc'[c] \in {"initFailed", "initDone"} => initGate = c
    BY <1>2, <2>1 DEF AfterSuccess, TypeOK, Process
  <2>. QED  BY <1>3, <2>1, <2>2, <2>3, <2>4, <2>5 DEF TypeOK
<1>5. FetchedSound'
  BY <1>1, <1>2 DEF IInv, FetchedSound, AfterSuccess
<1>6. CachedSound' /\ InitSound'
  BY <1>1, <1>3 DEF CachedSound, InitSound, Store
<1>7. CopySound'
  BY <1>1 DEF IInv, CopySound, Store
<1>8. SentSound'
  BY <1>1 DEF IInv, SentSound, Sends, Store
<1>. QED  BY <1>4, <1>5, <1>6, <1>7, <1>8 DEF IInv

LEMMA FetchAndVerifyInv ==
    ASSUME IInv, NEW p \in Process, FetchAndVerify(p)
    PROVE  IInv'
BY FailsInv, FetchInv, VerifyInv, StoreInv DEF FetchAndVerify

-----------------------------------------------------------------------------
(* CurrentHeaders.                                                         *)

\* Both critical sections that copy the fields.
LEMMA CopyInv ==
    ASSUME IInv, NEW c \in Caller, CurrentHeaders(c) \/ Reread(c)
    PROVE  IInv'
<1>. USE SupplierConstants
<1>. DEFINE place == IF pc[c] = "reread" \/ initialized THEN "build" ELSE "gate"
<1>1. Limit' = Limit
  BY LimitStays DEF CurrentHeaders, Reread
<1>2. Goto(c, place) /\ local' = [local EXCEPT ![c] = Copy]
  BY DEF CurrentHeaders, Reread
<1>3. UNCHANGED <<world, cached, initialized, lastError, initGate, fetched, sent>>
  BY DEF CurrentHeaders, Reread
<1>4. pc[c] \in {"idle", "reread"} /\ c \in Process
  BY DEF CurrentHeaders, Reread, Process
<1>5. \A q \in Process : pc'[q] = IF q = c THEN place ELSE pc[q]
  BY <1>2 DEF Goto, IInv, TypeOK
<1>6. TypeOK'
  BY <1>2, <1>3, <1>4 DEF Goto, Copy, IInv, TypeOK, world, cached
<1>7. FetchedSound'
  BY <1>1, <1>3, <1>5 DEF IInv, FetchedSound
<1>8. CachedSound'
  BY <1>1, <1>3 DEF IInv, CachedSound, cached
<1>9. CopySound'
  BY <1>1, <1>2, <1>3 DEF IInv, TypeOK, CopySound, CachedSound, Copy
<1>10. SentSound'
  BY <1>1, <1>3 DEF IInv, SentSound, Sends
<1>11. InitSound'
  BY <1>3, <1>5 DEF IInv, InitSound, cached
<1>. QED  BY <1>6, <1>7, <1>8, <1>9, <1>10, <1>11 DEF IInv

LEMMA InitOnceInv ==
    ASSUME IInv, NEW c \in Caller, InitOnce(c)
    PROVE  IInv'
<1>. USE SupplierConstants
<1>. DEFINE place == IF initialized THEN "reread" ELSE "fetch"
<1>1. Goto(c, place) /\ c \in Process
  BY DEF InitOnce, Process
<1>2. TypeOK'
  BY <1>1 DEF InitOnce, Goto, IInv, TypeOK, world, cached
<1>3. initialized' => statusToken # None
  BY DEF InitOnce, IInv, TypeOK, InitSound
<1>. QED  BY <1>1, <1>2, <1>3, MoveInv DEF InitOnce

LEMMA InitFailedInv ==
    ASSUME IInv, NEW c \in Caller, InitFailed(c)
    PROVE  IInv'
<1>. USE SupplierConstants
<1>1. Limit' = Limit
  BY LimitStays DEF InitFailed
<1>2. \A q \in Process : pc'[q] = IF q = c THEN "reread" ELSE pc[q]
  BY DEF InitFailed, Goto, IInv, TypeOK
<1>3. TypeOK'
  BY DEF InitFailed, Goto, IInv, TypeOK, world, cached, Process
<1>4. FetchedSound'
  BY <1>1, <1>2 DEF IInv, FetchedSound, InitFailed
<1>5. CachedSound' /\ CopySound'
  BY <1>1 DEF IInv, CachedSound, CopySound, cached, InitFailed
<1>6. SentSound'
  BY <1>1 DEF IInv, SentSound, Sends, InitFailed
<1>7. InitSound'
  BY <1>2 DEF IInv, InitSound, cached, InitFailed
<1>. QED  BY <1>3, <1>4, <1>5, <1>6, <1>7 DEF IInv

\* initialized is set by a goroutine whose fetchAndVerify has stored a token.
LEMMA InitDoneInv ==
    ASSUME IInv, NEW c \in Caller, InitDone(c)
    PROVE  IInv'
<1>. USE SupplierConstants
<1>1. Limit' = Limit
  BY LimitStays DEF InitDone
<1>2. \A q \in Process : pc'[q] = IF q = c THEN "reread" ELSE pc[q]
  BY DEF InitDone, Goto, IInv, TypeOK
<1>3. TypeOK'
  BY DEF InitDone, Goto, IInv, TypeOK, world, cached, Process
<1>4. FetchedSound'
  BY <1>1, <1>2 DEF IInv, FetchedSound, InitDone
<1>5. CachedSound' /\ CopySound'
  BY <1>1 DEF IInv, CachedSound, CopySound, cached, InitDone
<1>6. SentSound'
  BY <1>1 DEF IInv, SentSound, Sends, InitDone
<1>7. InitSound'
  BY DEF IInv, InitSound, cached, InitDone, Process
<1>. QED  BY <1>3, <1>4, <1>5, <1>6, <1>7 DEF IInv

\* A token in the headers comes from a copy whose expiry is its own.
LEMMA BuildHeadersInv ==
    ASSUME IInv, NEW c \in Caller, BuildHeaders(c)
    PROVE  IInv'
<1>. USE SupplierConstants
<1>. DEFINE l == local[c]
            expired == l.token # None /\ l.exp # None /\ now >= l.exp
            headers == [receipt |-> l.receipt, token |-> IF expired THEN None ELSE l.token,
                        at |-> now]
<1>1. Limit' = Limit
  BY LimitStays DEF BuildHeaders
<1>2. sent' = [sent EXCEPT ![c] = headers] /\ pc[c] = "build" /\ Goto(c, "done")
  BY DEF BuildHeaders
<1>3. UNCHANGED <<world, cached, initialized, lastError, initGate, fetched, local>>
  BY DEF BuildHeaders
<1>4. l.receipt \in BOOLEAN /\ l.token \in Token \cup {None} /\ now \in Nat
  BY DEF IInv, TypeOK
<1>5. headers \in [receipt: BOOLEAN, token: Token \cup {None}, at: Nat]
  BY <1>4
<1>6. headers.token # None =>
          Honest(headers.token, Limit) /\ headers.at < headers.token.exp
  <2>1. SUFFICES ASSUME l.token # None, ~expired
                 PROVE  Honest(l.token, Limit) /\ now < l.token.exp
    OBVIOUS
  <2>2. Honest(l.token, Limit) /\ l.exp = l.token.exp /\ l.exp \in Nat
    BY <2>1 DEF IInv, CopySound, Honest, Token
  <2>. QED  BY <1>4, <2>1, <2>2
<1>. HIDE DEF headers, l, expired
<1>7. \A q \in Process : pc'[q] = IF q = c THEN "done" ELSE pc[q]
  BY <1>2 DEF Goto, IInv, TypeOK
<1>8. TypeOK'
  BY <1>2, <1>3, <1>5 DEF Goto, IInv, TypeOK, world, cached, Process
<1>9. FetchedSound'
  BY <1>1, <1>3, <1>7 DEF IInv, FetchedSound
<1>10. CachedSound' /\ CopySound'
  BY <1>1, <1>3 DEF IInv, CachedSound, CopySound, cached
<1>11. SentSound'
  BY <1>1, <1>2, <1>6 DEF IInv, TypeOK, SentSound, Sends
<1>12. InitSound'
  BY <1>3, <1>7 DEF IInv, InitSound, cached
<1>. QED  BY <1>8, <1>9, <1>10, <1>11, <1>12 DEF IInv

LEMMA ReturnInv ==
    ASSUME IInv, NEW c \in Caller, Return(c)
    PROVE  IInv'
<1>. USE SupplierConstants
<1>1. Limit' = Limit
  BY LimitStays DEF Return
<1>2. \A q \in Process : pc'[q] = IF q = c THEN "idle" ELSE pc[q]
  BY DEF Return, Goto, IInv, TypeOK
<1>3. TypeOK'
  BY DEF Return, Goto, NoCopy, IInv, TypeOK, world, cached, Process
<1>4. FetchedSound'
  BY <1>1, <1>2 DEF IInv, FetchedSound, Return
<1>5. CachedSound'
  BY <1>1 DEF IInv, CachedSound, cached, Return
<1>6. CopySound'
  BY <1>1 DEF IInv, TypeOK, CopySound, NoCopy, Return
<1>7. SentSound'
  BY <1>1 DEF IInv, TypeOK, SentSound, Sends, Return
<1>8. InitSound'
  BY <1>2 DEF IInv, InitSound, cached, Return
<1>. QED  BY <1>3, <1>4, <1>5, <1>6, <1>7, <1>8 DEF IInv

-----------------------------------------------------------------------------
(* RefreshNow and the auto-refresh loop.                                   *)

\* A goroutine outside initOnce moves.
LEMMA LoopInv ==
    ASSUME IInv, NEW p \in Process, NEW place \in {"fetch", "waiting", "off"},
           Goto(p, place), p \in Caller => initGate # p,
           UNCHANGED <<world, cached, initGate, lastError, fetched, local, sent>>,
           initialized' \in BOOLEAN, initialized' => statusToken # None
    PROVE  IInv'
<1>1. \A q \in Process : pc'[q] = IF q = p THEN place ELSE pc[q]
  BY DEF Goto, IInv, TypeOK
<1>2. TypeOK'
  BY <1>1 DEF Goto, IInv, TypeOK, world, cached, Process
<1>3. place \notin {"verify", "store", "initFailed", "initDone", "autoDone"}
  OBVIOUS
<1>. QED  BY <1>2, <1>3, MoveInv

LEMMA RefreshNowInv ==
    ASSUME IInv, NEW c \in Caller, RefreshNow(c)
    PROVE  IInv'
<1>1. initGate # c /\ c \in Process
  BY DEF RefreshNow, IInv, TypeOK, Process
<1>2. initialized' \in BOOLEAN /\ (initialized' => statusToken # None)
  BY DEF RefreshNow, IInv, TypeOK, InitSound
<1>. QED  BY <1>1, <1>2, LoopInv DEF RefreshNow

LEMMA AutoRefreshInv ==
    ASSUME IInv, StartAutoRefresh \/ IntervalElapses \/ AutoDone \/ CancelAutoRefresh
    PROVE  IInv'
<1>1. Refresher \in Process /\ Refresher \notin Caller
  BY SupplierConstants DEF Process
<1>2. initialized' \in BOOLEAN /\ (initialized' => statusToken # None)
  <2>1. statusToken # None \/ (initialized' = initialized /\ initialized \in BOOLEAN)
    BY <1>1 DEF StartAutoRefresh, IntervalElapses, AutoDone, CancelAutoRefresh, IInv,
       TypeOK, InitSound
  <2>2. initialized => statusToken # None
    BY DEF IInv, InitSound
  <2>3. initialized' \in BOOLEAN
    BY DEF StartAutoRefresh, IntervalElapses, AutoDone, CancelAutoRefresh, IInv, TypeOK
  <2>. QED  BY <2>1, <2>2, <2>3
<1>3. CASE StartAutoRefresh
  BY <1>1, <1>2, <1>3, LoopInv DEF StartAutoRefresh
<1>4. CASE IntervalElapses
  BY <1>1, <1>2, <1>4, LoopInv DEF IntervalElapses
<1>5. CASE AutoDone
  BY <1>1, <1>2, <1>5, LoopInv DEF AutoDone
<1>6. CASE CancelAutoRefresh
  BY <1>1, <1>2, <1>6, LoopInv DEF CancelAutoRefresh
<1>. QED  BY <1>3, <1>4, <1>5, <1>6

LEMMA NextInv == IInv /\ [Next]_vars => IInv'
<1>. SUFFICES ASSUME IInv, [Next]_vars PROVE IInv'  OBVIOUS
<1>1. CASE Tick \/ Revoke
  BY <1>1, WorldInv
<1>2. ASSUME NEW c \in Caller,
             \/ CurrentHeaders(c) \/ RefreshNow(c) \/ InitOnce(c) \/ CallerStep(c)
             \/ Return(c)
      PROVE  IInv'
  BY <1>2, CopyInv, RefreshNowInv, InitOnceInv, InitFailedInv, InitDoneInv,
     BuildHeadersInv, FetchAndVerifyInv, ReturnInv DEF CallerStep, Process
<1>3. CASE FetchAndVerify(Refresher)
  <2>. Refresher \in Process
    BY DEF Process
  <2>. QED  BY <1>3, FetchAndVerifyInv
<1>4. CASE StartAutoRefresh \/ IntervalElapses \/ AutoDone \/ CancelAutoRefresh
  BY <1>4, AutoRefreshInv
<1>5. CASE UNCHANGED vars
  BY <1>5 DEF IInv, TypeOK, FetchedSound, CachedSound, CopySound, SentSound, Sends,
     InitSound, Limit, vars
<1>. QED  BY <1>1, <1>2, <1>3, <1>4, <1>5 DEF Next

LEMMA SpecInv == Spec => []IInv
BY InitInv, NextInv, PTL DEF Spec

-----------------------------------------------------------------------------
(* The theorems.                                                           *)

\* The fields of the supplier and the goroutines' copies are well formed, and
\* initGate is held exactly while its holder is in initOnce.
THEOREM TypeCorrect == Spec => []TypeOK
<1>1. IInv => TypeOK
  BY DEF IInv
<1>. QED  BY <1>1, SpecInv, PTL

\* CurrentHeaders (supplier.go) never returns a token that has reached its exp
\* claim, whatever refreshes run between its copies and its check.
THEOREM TokensUnexpired == Spec => []SentTokenUnexpired
<1>1. IInv => SentTokenUnexpired
  BY DEF IInv, SentSound, SentTokenUnexpired
<1>. QED  BY <1>1, SpecInv, PTL

\* A refused refresh leaves the old token in place (fetchAndVerify's error path),
\* but no token is returned later than the lifetime of a token after the agent's
\* revocation.
THEOREM RevocationHorizon == Spec => []RevokedTokenHorizon
<1>1. IInv => RevokedTokenHorizon
  <2>. SUFFICES ASSUME IInv, NEW c \in Caller, Sends(c), revokedAt # None
                PROVE  \E l \in Lifetime : sent[c].at < revokedAt + l
    BY DEF RevokedTokenHorizon
  <2>1. Honest(sent[c].token, revokedAt) /\ sent[c].at < sent[c].token.exp
    BY DEF IInv, SentSound, Limit
  <2>2. PICK l \in Lifetime : sent[c].token.exp <= revokedAt + l
    BY <2>1 DEF Honest, IssuedBy
  <2>3. /\ sent[c].at \in Nat /\ sent[c].token.exp \in Nat
        /\ revokedAt \in Nat /\ l \in Nat
    BY <2>1, SupplierConstants DEF Honest, Token, IInv, TypeOK, Sends
  <2>. QED  BY <2>1, <2>2, <2>3
<1>. QED  BY <1>1, SpecInv, PTL

\* initialized, which initOnce and the auto-refresh loop set in a second critical
\* section, is never ahead of the artifacts it announces.
THEOREM InitializedSupplierHasArtifacts == Spec => []InitializedHasArtifacts
<1>1. IInv => InitializedHasArtifacts
  BY SupplierConstants
     DEF IInv, InitSound, CachedSound, Honest, Token, InitializedHasArtifacts
<1>. QED  BY <1>1, SpecInv, PTL
=============================================================================
