------------------------- MODULE ScittVerifierProofs -------------------------
(***************************************************************************)
(* Proofs about package scitt: about the root keys (RefreshableKeyStore), for   *)
(* any number of callers, any key lists the service may return and any          *)
(* cooldown; about ScittVerifier on top of them, for any artifacts that peers   *)
(* may send, any peers, key lookups and tolerances, beside any refreshes of     *)
(* the key store; and about the caches of verified artifacts (ScittCache), for  *)
(* any agents, lifetimes and limit.                                            *)
(***************************************************************************)
EXTENDS ScittVerifier, ScittCache, WellFoundedInduction, FiniteSetTheorems, SequenceTheorems, TLAPS

-----------------------------------------------------------------------------
(* The key store.                                                           *)

LEMMA LeastElement ==
    ASSUME NEW T \in SUBSET Nat, T # {}
    PROVE  \E x \in T : \A y \in T : x <= y
<1>. DEFINE R == OpToRel(<, Nat)
<1>1. \A x, y \in Nat : <<y, x>> \in R <=> y < x
  BY DEF OpToRel
<1>2. IsWellFoundedOn(R, Nat)
  BY NatLessThanWellFounded
<1>. HIDE DEF R
<1>3. PICK x \in T : \A y \in T : ~(<<y, x>> \in R)
  BY <1>2, WFMin
<1>4. \A y \in T : ~(y < x)
  BY <1>1, <1>3
<1>5. \A y \in T : x <= y
  BY <1>4
<1>. QED  BY <1>5

\* What a process has fetched and not merged is a list of key strings.
LEMMA AnswerType ==
    ASSUME NEW ks \in Answers \cup {<<>>}
    PROVE  ks \in Seq(TrustedKey \cup {Unparseable})
<1>1. \A S : <<>> \in Seq(S)
  OBVIOUS
<1>2. CASE ks = <<>>
  BY <1>1, <1>2, Zenon
<1>3. CASE ks \in Answers
  BY <1>3, KeyStoreConstants, Zenon
<1>. QED  BY <1>2, <1>3

\* The key MergeFrom takes for a kid that the store does not know.
LEMMA FirstWithType ==
    ASSUME NEW ks \in Seq(TrustedKey \cup {Unparseable}), NEW kid \in Kids(ks)
    PROVE  FirstWith(ks, kid) \in TrustedKey /\ FirstWith(ks, kid).kid = kid
<1>. DEFINE T == {i \in DOMAIN ks : ks[i] # Unparseable /\ ks[i].kid = kid}
<1>1. T \subseteq Nat /\ T # {}
  BY DEF Kids, Parses
<1>2. \E i \in T : \A j \in T : i <= j
  BY <1>1, LeastElement
<1>3. \E i \in DOMAIN ks : /\ ks[i] # Unparseable /\ ks[i].kid = kid
                           /\ \A j \in DOMAIN ks : ks[j] # Unparseable /\ ks[j].kid = kid => i <= j
  BY <1>2
<1>. HIDE DEF T
<1>4. PICK i \in DOMAIN ks : FirstWith(ks, kid) = ks[i] /\ ks[i] # Unparseable /\ ks[i].kid = kid
  BY <1>3 DEF FirstWith, Parses
<1>5. ks[i] \in TrustedKey \cup {Unparseable}
  OBVIOUS
<1>. QED  BY <1>4, <1>5

\* Merging gives a key store that has every key of the old one, unchanged.
LEMMA MergeFromType ==
    ASSUME NEW s, IsKeyStore(s), NEW ks \in Seq(TrustedKey \cup {Unparseable})
    PROVE  /\ IsKeyStore(MergeFrom(s, ks))
           /\ \A kid \in DOMAIN s : /\ kid \in DOMAIN MergeFrom(s, ks)
                                    /\ MergeFrom(s, ks)[kid] = s[kid]
<1>1. DOMAIN MergeFrom(s, ks) = DOMAIN s \cup Kids(ks)
  BY DEF MergeFrom
<1>2. Kids(ks) \subseteq Kid
  <2>1. \A i \in DOMAIN ks : ks[i] \in TrustedKey \cup {Unparseable}
    OBVIOUS
  <2>. QED  BY <2>1 DEF Kids, Parses, TrustedKey
<1>3. ASSUME NEW kid \in DOMAIN s \cup Kids(ks)
      PROVE  MergeFrom(s, ks)[kid] \in TrustedKey /\ MergeFrom(s, ks)[kid].kid = kid
  <2>1. CASE kid \in DOMAIN s
    BY <2>1 DEF MergeFrom, IsKeyStore
  <2>2. CASE kid \notin DOMAIN s
    <3>1. MergeFrom(s, ks)[kid] = FirstWith(ks, kid)
      BY <2>2 DEF MergeFrom
    <3>. QED  BY <2>2, <3>1, FirstWithType
  <2>. QED  BY <2>1, <2>2
<1>4. MergeFrom(s, ks) = [kid \in DOMAIN MergeFrom(s, ks) |-> MergeFrom(s, ks)[kid]]
  BY DEF MergeFrom
<1>5. IsKeyStore(MergeFrom(s, ks))
  BY <1>1, <1>2, <1>3, <1>4 DEF IsKeyStore
<1>6. \A kid \in DOMAIN s : MergeFrom(s, ks)[kid] = s[kid]
  BY DEF MergeFrom
<1>. QED  BY <1>1, <1>5, <1>6

-----------------------------------------------------------------------------
(* The inductive invariant: OnDemandSpaced needs to know that lastRefreshed   *)
(* is no older than the last on-demand refresh, and that the copy the gate's  *)
(* holder decides on has not missed one.                                      *)

\* Time t is recorded in time u: if t is a time, u is one and not earlier.
Covers(u, t) == t # None => u \in Nat /\ t <= u

RefreshTimes ==
    /\ Covers(now, lastRefreshed)
    /\ Covers(lastRefreshed, lastOnDemand)
    /\ \A c \in Caller : pc[c] = "recheck" => Covers(lr[c], lastOnDemand)

IInv == TypeOK /\ RefreshTimes /\ OnDemandSpaced

LEMMA InitInv == Init => IInv
<1>. SUFFICES ASSUME Init PROVE IInv  OBVIOUS
<1>. USE KeyStoreConstants DEF Init
<1>1. TypeOK
  BY DEF TypeOK, Process
<1>2. RefreshTimes
  BY DEF RefreshTimes, Covers, Process
<1>3. OnDemandSpaced
  BY DEF OnDemandSpaced, Process
<1>. QED  BY <1>1, <1>2, <1>3 DEF IInv

\* A merge, of a caller that holds the gate or of the background goroutine.
LEMMA MergeInv ==
    ASSUME IInv, NEW p \in Process, Merge(p)
    PROVE  IInv'
<1>. USE KeyStoreConstants DEF IInv
<1>1. keys[p] \in Seq(TrustedKey \cup {Unparseable})
  <2>1. keys[p] \in Answers \cup {<<>>}
    BY DEF TypeOK
  <2>. QED  BY <2>1, AnswerType
<1>2. IsKeyStore(snapshot')
  BY <1>1, MergeFromType DEF Merge, TypeOK
<1>3. CASE p = Background
  <2>1. TypeOK'
    BY <1>2, <1>3 DEF Merge, TypeOK, Goto, Release, Ended, After, Process
  <2>2. RefreshTimes'
    BY <1>3 DEF Merge, TypeOK, RefreshTimes, Covers, Goto, After, Process
  <2>3. OnDemandSpaced'
    BY <1>3 DEF Merge, TypeOK, OnDemandSpaced, Elapsed, Goto, Ended, After, Process
  <2>. QED  BY <2>1, <2>2, <2>3
<1>4. CASE p \in Caller
  <2>1. refreshGate = p
    BY <1>4 DEF Merge, TypeOK
  <2>2. TypeOK'
    BY <1>2, <1>4, <2>1 DEF Merge, TypeOK, Goto, Release, Ended, After, Process
  <2>3. \A c \in Caller : pc'[c] \notin {"recheck", "fetch", "merge"}
    BY <1>4, <2>1 DEF Merge, TypeOK, Goto, After, Process
  <2>4. RefreshTimes'
    BY <1>4, <2>3 DEF Merge, TypeOK, RefreshTimes, Covers
  <2>5. OnDemandSpaced'
    BY <2>3 DEF OnDemandSpaced
  <2>. QED  BY <2>2, <2>4, <2>5
<1>. QED  BY <1>3, <1>4 DEF Process

\* A caller's step before its fetch.
LEMMA CallerInv ==
    ASSUME IInv, NEW c \in Caller,
           RefreshIfCooldownElapsed(c) \/ QuickCheck(c) \/ AcquireGate(c) \/ Recheck(c) \/ Return(c)
    PROVE  IInv'
<1>. USE KeyStoreConstants DEF IInv
<1>1. CASE RefreshIfCooldownElapsed(c) \/ QuickCheck(c) \/ Return(c)
  <2>1. TypeOK'
    <3>1. CASE RefreshIfCooldownElapsed(c)
      BY <3>1 DEF RefreshIfCooldownElapsed, TypeOK, Goto, Process, shared
    <3>2. CASE QuickCheck(c)
      BY <3>2 DEF QuickCheck, TypeOK, Goto, Process, shared
    <3>3. CASE Return(c)
      BY <3>3 DEF Return, TypeOK, Goto, Process, shared
    <3>. QED  BY <1>1, <3>1, <3>2, <3>3
  <2>2. RefreshTimes'
    BY <1>1 DEF RefreshIfCooldownElapsed, QuickCheck, Return, TypeOK, RefreshTimes,
                Goto, Process, shared
  <2>3. OnDemandSpaced'
    BY <1>1 DEF RefreshIfCooldownElapsed, QuickCheck, Return, TypeOK, OnDemandSpaced,
                Elapsed, Goto, Process, shared
  <2>. QED  BY <2>1, <2>2, <2>3
<1>2. CASE AcquireGate(c)
  <2>1. TypeOK'
    BY <1>2 DEF AcquireGate, TypeOK, Goto, Process
  <2>2. RefreshTimes'
    BY <1>2 DEF AcquireGate, TypeOK, RefreshTimes, Covers, Goto, Process
  <2>3. OnDemandSpaced'
    BY <1>2 DEF AcquireGate, TypeOK, OnDemandSpaced, Elapsed, Goto, Process
  <2>. QED  BY <2>1, <2>2, <2>3
<1>3. CASE Recheck(c) /\ WithinCooldown(lr[c])
  <2>1. refreshGate = c
    BY <1>3 DEF Recheck, TypeOK
  <2>2. TypeOK'
    BY <1>3, <2>1 DEF Recheck, TypeOK, Goto, Process
  <2>3. \A d \in Caller : pc'[d] \notin {"recheck", "fetch", "merge"}
    BY <1>3, <2>1 DEF Recheck, TypeOK, Goto, Process
  <2>4. RefreshTimes'
    BY <1>3, <2>3 DEF Recheck, RefreshTimes, Covers
  <2>5. OnDemandSpaced'
    BY <2>3 DEF OnDemandSpaced
  <2>. QED  BY <2>2, <2>4, <2>5
<1>4. CASE Recheck(c) /\ ~WithinCooldown(lr[c])
  <2>1. TypeOK'
    <3>1. /\ pc' = [pc EXCEPT ![c] = "fetch"] /\ pc[c] = "recheck" /\ c \in Process
          /\ start' = [start EXCEPT ![c] = now] /\ lr' = [lr EXCEPT ![c] = None]
      BY <1>4 DEF Recheck, Goto, Process
    <3>2. UNCHANGED <<now, static, snapshot, lastRefreshed, refreshGate, keys, result, lastOnDemand>>
      BY <1>4 DEF Recheck
    <3>3. \A d \in Caller : pc'[d] \in {"recheck", "fetch", "merge"} <=> refreshGate' = d
      BY <3>1, <3>2 DEF TypeOK, Process
    <3>4. /\ pc' \in [Process -> {"idle", "check", "gate", "recheck", "fetch", "merge", "done",
                                 "off", "waiting", "stopped"}]
          /\ lr' \in [Caller -> Nat \cup {None}]
          /\ start' \in [Caller -> Nat]
      BY <3>1 DEF TypeOK
    <3>. QED  BY <3>2, <3>3, <3>4 DEF TypeOK
  <2>2. RefreshTimes'
    BY <1>4 DEF Recheck, TypeOK, RefreshTimes, Goto, Process
  <2>3. Elapsed(lastOnDemand, now)
    BY <1>4 DEF Recheck, TypeOK, RefreshTimes, Covers, WithinCooldown, Elapsed
  <2>4. OnDemandSpaced'
    BY <1>4, <2>3 DEF Recheck, TypeOK, OnDemandSpaced, Elapsed, Goto, Process
  <2>. QED  BY <2>1, <2>2, <2>4
<1>. QED  BY <1>1, <1>2, <1>3, <1>4

LEMMA FetchInv ==
    ASSUME IInv, NEW p \in Process,
           (\E ks \in Answers : FetchRootKeys(p, ks)) \/ FetchFails(p)
    PROVE  IInv'
<1>. USE KeyStoreConstants DEF IInv
<1>1. ASSUME NEW ks \in Answers, FetchRootKeys(p, ks)
      PROVE  IInv'
  <2>1. TypeOK'
    BY <1>1 DEF FetchRootKeys, TypeOK, Goto, Process, shared
  <2>2. RefreshTimes'
    BY <1>1 DEF FetchRootKeys, TypeOK, RefreshTimes, Goto, Process, shared
  <2>3. OnDemandSpaced'
    BY <1>1 DEF FetchRootKeys, TypeOK, OnDemandSpaced, Elapsed, Goto, Process, shared
  <2>. QED  BY <2>1, <2>2, <2>3
<1>2. CASE FetchFails(p)
  <2>1. p \in Caller => refreshGate = p
    BY <1>2 DEF FetchFails, TypeOK
  <2>2. TypeOK'
    BY <1>2, <2>1 DEF FetchFails, TypeOK, Goto, Release, Ended, After, Process
  <2>3. RefreshTimes'
    BY <1>2 DEF FetchFails, TypeOK, RefreshTimes, Goto, After, Process
  <2>4. OnDemandSpaced'
    BY <1>2 DEF FetchFails, TypeOK, OnDemandSpaced, Elapsed, Goto, Ended, After, Process
  <2>. QED  BY <2>2, <2>3, <2>4
<1>. QED  BY <1>1, <1>2

LEMMA NextInv == IInv /\ [Next]_vars => IInv'
<1>. SUFFICES ASSUME IInv, [Next]_vars PROVE IInv'  OBVIOUS
<1>. USE KeyStoreConstants DEF IInv
<1>1. CASE Tick
  <2>1. TypeOK'
    BY <1>1 DEF Tick, TypeOK, shared
  <2>2. RefreshTimes'
    BY <1>1 DEF Tick, TypeOK, RefreshTimes, Covers, shared
  <2>3. OnDemandSpaced'
    BY <1>1 DEF Tick, OnDemandSpaced, Elapsed, shared
  <2>. QED  BY <2>1, <2>2, <2>3
<1>2. CASE StartBackgroundRefresh \/ TickerFires \/ CancelBackground
  <2>1. TypeOK'
    BY <1>2 DEF StartBackgroundRefresh, TickerFires, CancelBackground, TypeOK, Goto,
                Process, shared
  <2>2. RefreshTimes'
    BY <1>2 DEF StartBackgroundRefresh, TickerFires, CancelBackground, TypeOK,
                RefreshTimes, Goto, Process, shared
  <2>3. OnDemandSpaced'
    BY <1>2 DEF StartBackgroundRefresh, TickerFires, CancelBackground, TypeOK,
                OnDemandSpaced, Elapsed, Goto, Process, shared
  <2>. QED  BY <2>1, <2>2, <2>3
<1>3. ASSUME NEW p \in Process, DoRefreshStep(p)
      PROVE  IInv'
  BY <1>3, FetchInv, MergeInv DEF DoRefreshStep
<1>4. CASE UNCHANGED vars
  BY <1>4 DEF vars, TypeOK, RefreshTimes, Covers, OnDemandSpaced, Elapsed
<1>. QED
  BY <1>1, <1>2, <1>3, <1>4, CallerInv DEF Next, CallerStep, Process

LEMMA InvariantHolds == Spec => []IInv
BY InitInv, NextInv, PTL DEF Spec

\* The snapshot stays a well-formed key store and refreshGate is held by the one
\* caller of RefreshIfCooldownElapsed that is past it.
THEOREM TypeCorrect == Spec => []TypeOK
BY InvariantHolds, PTL DEF IInv

\* On-demand refreshes are at least Cooldown apart, whatever the background
\* goroutine does meanwhile.
THEOREM RefreshesAreSpaced == Spec => []OnDemandSpaced
BY InvariantHolds, PTL DEF IInv

\* No refresh removes or replaces a trusted key (KeyStore.MergeFrom).
THEOREM KeysStayPinned == Spec => KeysArePinned
<1>. DEFINE Pinned == \A kid \in DOMAIN snapshot :
                        kid \in DOMAIN snapshot' /\ snapshot'[kid] = snapshot[kid]
<1>1. IInv /\ [Next]_vars => Pinned \/ UNCHANGED vars
  <2>. SUFFICES ASSUME IInv, Next PROVE Pinned
    OBVIOUS
  <2>1. CASE UNCHANGED snapshot
    BY <2>1
  <2>2. ASSUME NEW p \in Process, Merge(p)
        PROVE  Pinned
    <3>1. keys[p] \in Answers \cup {<<>>} /\ IsKeyStore(snapshot)
      BY DEF IInv, TypeOK
    <3>2. keys[p] \in Seq(TrustedKey \cup {Unparseable})
      BY <3>1, AnswerType
    <3>3. snapshot' = MergeFrom(snapshot, keys[p])
      BY <2>2 DEF Merge
    <3>. QED  BY <3>1, <3>2, <3>3, MergeFromType
  <2>3. UNCHANGED snapshot \/ \E p \in Process : Merge(p)
    BY DEF Next, Tick, CallerStep, DoRefreshStep, RefreshIfCooldownElapsed, QuickCheck,
           AcquireGate, Recheck, Return, FetchRootKeys, FetchFails, StartBackgroundRefresh,
           TickerFires, CancelBackground, Process, shared
  <2>. QED  BY <2>1, <2>2, <2>3
<1>. QED  BY <1>1, InvariantHolds, PTL DEF Spec, KeysArePinned

-----------------------------------------------------------------------------
(* A verification is a sequence of checks; its verdict is the first error.   *)

\* A check that fails with an error of E.
CheckOf(E) == {c \in [ok: BOOLEAN, err: E \cup {NoError}] : c.ok \/ c.err \in E}

LEMMA CheckType ==
    ASSUME NEW E, NEW b \in BOOLEAN, NEW e \in E
    PROVE  Check(b, e) \in CheckOf(E)
BY DEF Check, CheckOf

\* The verdict is NoError exactly when every check holds.
LEMMA FirstErrorIs ==
    ASSUME NEW E, NoError \notin E, NEW checks \in Seq(CheckOf(E))
    PROVE  /\ FirstError(checks) \in E \cup {NoError}
           /\ FirstError(checks) = NoError => \A i \in DOMAIN checks : checks[i].ok
<1>. DEFINE failing == {i \in DOMAIN checks : ~checks[i].ok}
<1>1. CASE failing = {}
  BY <1>1 DEF FirstError
<1>2. CASE failing # {}
  <2>1. failing \in SUBSET Nat
    OBVIOUS
  <2>2. Min(failing) \in failing
    BY <1>2, <2>1, LeastElement DEF Min
  <2>3. checks[Min(failing)] \in CheckOf(E) /\ ~checks[Min(failing)].ok
    BY <2>2
  <2>4. checks[Min(failing)].err \in E
    BY <2>3 DEF CheckOf
  <2>. QED  BY <1>2, <2>4 DEF FirstError
<1>. QED  BY <1>1, <1>2

LEMMA ConcatenationHolds ==
    ASSUME NEW S, NEW s \in Seq(S), NEW t \in Seq(S),
           \A i \in DOMAIN (s \o t) : (s \o t)[i].ok
    PROVE  (\A i \in DOMAIN s : s[i].ok) /\ (\A i \in DOMAIN t : t[i].ok)
<1>1. ASSUME NEW i \in DOMAIN s PROVE s[i].ok
  <2>1. i \in DOMAIN (s \o t) /\ (s \o t)[i] = s[i]
    OBVIOUS
  <2>. QED  BY <2>1
<1>2. ASSUME NEW i \in DOMAIN t PROVE t[i].ok
  <2>1. Len(s) + i \in DOMAIN (s \o t) /\ (s \o t)[Len(s) + i] = t[i]
    OBVIOUS
  <2>. QED  BY <2>1
<1>. QED  BY <1>1, <1>2

-----------------------------------------------------------------------------
(* The errors of the artifacts: their own, or the one of the key lookup.      *)

OwnError == ArtifactError \ {"UnknownKeyID"}

ErrorsWith(got) == OwnError \cup ({got.err} \ {NoError})

LEMMA ParseType ==
    ASSUME NEW a, NEW E, OwnError \subseteq E
    PROVE  ParseCoseSign1(a) \in Seq(CheckOf(E))
<1>1. "CoseError" \in E
  BY DEF OwnError, ArtifactError
<1>2. /\ Check(a.header = "map", "CoseError") \in CheckOf(E)
      /\ Check(a.alg = ES256, "CoseError") \in CheckOf(E)
      /\ Check(a.kid # Absent, "CoseError") \in CheckOf(E)
  BY <1>1, CheckType, Zenon
<1>3. parseProtectedHeader(a) \in Seq(CheckOf(E))
  BY <1>2 DEF parseProtectedHeader
<1>4. /\ Check(a.framing # "oversized", "CoseError") \in CheckOf(E)
      /\ Check(a.framing # "undecodable", "CoseError") \in CheckOf(E)
      /\ Check(a.elements = 4, "CoseError") \in CheckOf(E)
      /\ Check(a.payload.kind # "empty", "CoseError") \in CheckOf(E)
      /\ Check(a.sigLen = 64, "CoseError") \in CheckOf(E)
  BY <1>1, CheckType, Zenon
<1>5. Check(a.framing \in {"array", "tag18"}, "CoseError") \in CheckOf(E)
  <2>1. (a.framing \in {"array", "tag18"}) \in BOOLEAN
    OBVIOUS
  <2>. QED  BY <1>1, <2>1, CheckType, Zenon
<1>. QED  BY <1>3, <1>4, <1>5 DEF ParseCoseSign1

LEMMA NoErrorDistinct ==
    ASSUME NEW got
    PROVE  NoError \notin ErrorsWith(got) /\ OwnError \subseteq ErrorsWith(got)
BY ArtifactConstants DEF ErrorsWith, OwnError

LEMMA KeyChecksType ==
    ASSUME NEW a, NEW got
    PROVE  KeyChecks(a, got) \in Seq(CheckOf(ErrorsWith(got)))
<1>. DEFINE E == ErrorsWith(got)
<1>1. Check(got.err = NoError, got.err) \in CheckOf(E)
  <2>1. CASE got.err = NoError
    BY <2>1 DEF Check, CheckOf
  <2>2. CASE got.err # NoError
    <3>1. got.err \in E
      BY <2>2 DEF ErrorsWith
    <3>. QED  BY <3>1, CheckType, Zenon
  <2>. QED  BY <2>1, <2>2
<1>2. "SignatureError" \in E
  BY DEF ErrorsWith, OwnError, ArtifactError
<1>3. /\ (got.err = NoError => verifyECDSA(got.key, a)) \in BOOLEAN
      /\ (got.err = NoError => verifyIssuerBinding(a.iss, got.key)) \in BOOLEAN
  BY DEF verifyECDSA, verifyIssuerBinding
<1>4. /\ Check(got.err = NoError => verifyECDSA(got.key, a), "SignatureError") \in CheckOf(E)
      /\ Check(got.err = NoError => verifyIssuerBinding(a.iss, got.key), "SignatureError")
            \in CheckOf(E)
  BY <1>2, <1>3, CheckType, Zenon
<1>. QED  BY <1>1, <1>4 DEF KeyChecks

\* A verified receipt's key was found, and the verdict on any other is the
\* error of one of its checks.
LEMMA ReceiptVerdict ==
    ASSUME NEW a, NEW got
    PROVE  /\ VerifyReceipt(a, got) \in ErrorsWith(got) \cup {NoError}
           /\ VerifyReceipt(a, got) = NoError => got.err = NoError
<1>. DEFINE E == ErrorsWith(got)
            C == CheckOf(E)
            s == ParseCoseSign1(a) \o <<validateVDS(a)>>
            k == KeyChecks(a, got)
            m == verifyInclusionProof(a)
<1>1. "CoseError" \in E /\ "MerkleError" \in E
  BY DEF ErrorsWith, OwnError, ArtifactError
<1>2. s \in Seq(C)
  <2>1. validateVDS(a) \in C
    BY <1>1, CheckType, Zenon DEF validateVDS
  <2>2. ParseCoseSign1(a) \in Seq(C)
    BY NoErrorDistinct, ParseType
  <2>. QED  BY <2>1, <2>2
<1>3. k \in Seq(C)
  BY KeyChecksType
<1>4. m \in Seq(C)
  <2>1. extractVDP(a) \in C
    BY <1>1, CheckType, Zenon DEF extractVDP
  <2>2. (extractVDP(a).ok =>
           WalkInclusionPath(a.payload.event, a.vdp.leafIndex, a.vdp.treeSize, a.vdp.path))
          \in BOOLEAN
    OBVIOUS
  <2>3. Check(extractVDP(a).ok =>
                WalkInclusionPath(a.payload.event, a.vdp.leafIndex, a.vdp.treeSize, a.vdp.path),
              "MerkleError") \in C
    BY <1>1, <2>2, CheckType, Zenon
  <2>. QED  BY <2>1, <2>3 DEF verifyInclusionProof
<1>. HIDE DEF s, k, m, C
<1>5. VerifyReceipt(a, got) = FirstError((s \o k) \o m)
  BY DEF VerifyReceipt, s, k, m
<1>6. (s \o k) \in Seq(C) /\ ((s \o k) \o m) \in Seq(C)
  BY <1>2, <1>3, <1>4
<1>7. /\ VerifyReceipt(a, got) \in E \cup {NoError}
      /\ VerifyReceipt(a, got) = NoError =>
            \A i \in DOMAIN ((s \o k) \o m) : ((s \o k) \o m)[i].ok
  BY <1>5, <1>6, NoErrorDistinct, FirstErrorIs DEF C
<1>8. ASSUME VerifyReceipt(a, got) = NoError
      PROVE  got.err = NoError
  <2>1. \A i \in DOMAIN (s \o k) : (s \o k)[i].ok
    BY <1>4, <1>6, <1>7, <1>8, ConcatenationHolds
  <2>2. \A i \in DOMAIN k : k[i].ok
    BY <1>2, <1>3, <2>1, ConcatenationHolds
  <2>3. 1 \in DOMAIN k /\ k[1] = Check(got.err = NoError, got.err)
    BY DEF k, KeyChecks
  <2>4. Check(got.err = NoError, got.err).ok
    BY <2>2, <2>3
  <2>. QED  BY <2>4 DEF Check
<1>. QED  BY <1>7, <1>8

LEMMA PayloadType ==
    ASSUME NEW p, NEW E, OwnError \subseteq E
    PROVE  decodeStatusPayload(p) \in Seq(CheckOf(E))
<1>1. "TokenError" \in E /\ "CertArray" \in E
  BY DEF OwnError, ArtifactError
<1>2. ASSUME NEW arr
      PROVE  decodeCertArray(arr) \in Seq(CheckOf(E))
  <2>1. (arr # Undecodable => Len(arr) <= MaxCertArrayLen) \in BOOLEAN
    OBVIOUS
  <2>2. /\ Check(arr # Undecodable, "CertArray") \in CheckOf(E)
        /\ Check(arr # Undecodable => Len(arr) <= MaxCertArrayLen, "TokenError") \in CheckOf(E)
    BY <1>1, <2>1, CheckType, Zenon
  <2>. QED  BY <2>2 DEF decodeCertArray
<1>3. /\ Check(p.kind = "map", "TokenError") \in CheckOf(E)
      /\ Check(p.agentID # Absent, "TokenError") \in CheckOf(E)
      /\ Check(p.status # Absent, "TokenError") \in CheckOf(E)
      /\ Check(p.exp # 0, "TokenError") \in CheckOf(E)
      /\ Check(p.atiName # Absent, "TokenError") \in CheckOf(E)
  BY <1>1, CheckType, Zenon
<1>. QED  BY <1>2, <1>3 DEF decodeStatusPayload

\* A verified token has not expired by more than the tolerance.
LEMMA TokenVerdict ==
    ASSUME NEW a, NEW got, NEW skew, NEW t
    PROVE  /\ VerifyStatusTokenAt(a, got, skew, t) \in ErrorsWith(got) \cup {NoError}
           /\ VerifyStatusTokenAt(a, got, skew, t) = NoError =>
                 t <= a.payload.exp + ClockSkew(skew)
<1>. DEFINE E == ErrorsWith(got)
            C == CheckOf(E)
            s == ParseCoseSign1(a) \o KeyChecks(a, got) \o decodeStatusPayload(a.payload)
            live == t <= a.payload.exp + ClockSkew(skew)
            e == <<Check(live, "TokenError"),
                   Check(~IsTerminal(a.payload.status), "TokenError")>>
<1>1. "TokenError" \in E
  BY DEF ErrorsWith, OwnError, ArtifactError
<1>2. s \in Seq(C)
  BY NoErrorDistinct, ParseType, KeyChecksType, PayloadType
<1>3. e \in Seq(C)
  <2>1. live \in BOOLEAN /\ (~IsTerminal(a.payload.status)) \in BOOLEAN
    OBVIOUS
  <2>2. /\ Check(live, "TokenError") \in C
        /\ Check(~IsTerminal(a.payload.status), "TokenError") \in C
    BY <1>1, <2>1, CheckType, Zenon
  <2>. QED  BY <2>2
<1>4. VerifyStatusTokenAt(a, got, skew, t) = FirstError(s \o e)
  BY DEF VerifyStatusTokenAt
<1>5. 1 \in DOMAIN e /\ e[1].ok = live
  <2>. HIDE DEF live
  <2>1. 1 \in DOMAIN e /\ e[1] = Check(live, "TokenError")
    OBVIOUS
  <2>2. Check(live, "TokenError").ok = live
    BY Zenon DEF Check
  <2>. QED  BY <2>1, <2>2
<1>. HIDE DEF s, e, C, live
<1>6. (s \o e) \in Seq(C)
  BY <1>2, <1>3
<1>7. /\ FirstError(s \o e) \in E \cup {NoError}
      /\ FirstError(s \o e) = NoError => \A i \in DOMAIN (s \o e) : (s \o e)[i].ok
  BY <1>6, NoErrorDistinct, FirstErrorIs DEF C
<1>8. FirstError(s \o e) = NoError => live
  <2>. SUFFICES ASSUME FirstError(s \o e) = NoError PROVE live  OBVIOUS
  <2>1. \A i \in DOMAIN e : e[i].ok
    BY <1>2, <1>3, <1>7, ConcatenationHolds
  <2>. QED  BY <1>5, <2>1
<1>. QED  BY <1>4, <1>7, <1>8 DEF live

\* A token that passes what is checked of its content is of a live agent.
LEMMA ContentVerdict ==
    ASSUME NEW k, NEW p, FirstError(TokenChecks(k, p)) = NoError
    PROVE  IsValidForConnection(p.status)
<1>. DEFINE E == {"InvalidStatus", "FingerprintMismatch", "InvalidATIName", "HostMismatch"}
            match == IF k.role = "server" THEN MatchesServerCert(p, k.fp)
                                          ELSE MatchesIdentityCert(p, k.fp)
<1>1. /\ IsValidForConnection(p.status) \in BOOLEAN /\ match \in BOOLEAN
      /\ (p.atiName \in Host) \in BOOLEAN
  <2>1. IsValidForConnection(p.status) \in BOOLEAN /\ (p.atiName \in Host) \in BOOLEAN
    BY DEF IsValidForConnection
  <2>2. MatchesServerCert(p, k.fp) \in BOOLEAN /\ MatchesIdentityCert(p, k.fp) \in BOOLEAN
    BY DEF MatchesServerCert, MatchesIdentityCert
  <2>3. match \in BOOLEAN
    BY <2>2, Zenon
  <2>. QED  BY <2>1, <2>3
<1>. HIDE DEF match
<1>2. /\ Check(IsValidForConnection(p.status), "InvalidStatus") \in CheckOf(E)
      /\ Check(match, "FingerprintMismatch") \in CheckOf(E)
      /\ Check(p.atiName \in Host, "InvalidATIName") \in CheckOf(E)
      /\ Check(p.atiName = k.fqdn, "HostMismatch") \in CheckOf(E)
  BY <1>1, CheckType, Zenon
<1>3. TokenChecks(k, p) \in Seq(CheckOf(E))
  BY <1>2 DEF TokenChecks, match
<1>4. NoError \notin E
  BY ScittConstants
<1>. HIDE DEF E
<1>5. \A i \in DOMAIN TokenChecks(k, p) : TokenChecks(k, p)[i].ok
  BY <1>3, <1>4, FirstErrorIs
<1>6. 1 \in DOMAIN TokenChecks(k, p) /\ TokenChecks(k, p)[1].ok = IsValidForConnection(p.status)
  BY DEF TokenChecks, Check
<1>. QED  BY <1>5, <1>6

-----------------------------------------------------------------------------
(* The key store inside the composition.                                   *)

LEMMA StoreImplemented == ScittSpec => Spec
<1>1. ScittInit => Init
  BY DEF ScittInit
<1>2. [ScittNext]_sysVars => [Next]_vars
  BY DEF ScittNext, sysVars, StoreNext, Revoke, VerifierStep, VerifyWithScittEntry,
         VerifyReceiptStep, VerifyTokenStep, BadgeVerify, ReturnOutcome
<1>. QED  BY <1>1, <1>2, PTL DEF ScittSpec, Spec

\* No step of the composition takes a key out of the snapshot.
LEMMA SnapshotGrows ==
    ASSUME IInv, Next
    PROVE  DOMAIN snapshot \subseteq DOMAIN snapshot'
<1>1. ASSUME NEW p \in Process, Merge(p)
      PROVE  DOMAIN snapshot \subseteq DOMAIN snapshot'
  BY <1>1 DEF Merge, MergeFrom
<1>2. UNCHANGED snapshot \/ \E p \in Process : Merge(p)
  BY DEF Next, Tick, CallerStep, DoRefreshStep, RefreshIfCooldownElapsed, QuickCheck,
         AcquireGate, Recheck, Return, FetchRootKeys, FetchFails, StartBackgroundRefresh,
         TickerFires, CancelBackground, Process, shared
<1>. QED  BY <1>1, <1>2

-----------------------------------------------------------------------------
(* The inductive invariant.  A call in the middle, between its receipt and its *)
(* token, knows that the receipt's key is in the snapshot; the rest is what    *)
(* the properties say of a call that has ended or taken the badge path.        *)

\* A verdict is not from the future and, of an ended agent, within the horizon.
SoundVerdict(o) ==
    /\ o.at \in Nat /\ o.at <= now
    /\ endedAt # None => o.at <= endedAt + TierHorizon(o.tier)

LEMMA HorizonType ==
    ASSUME NEW tier
    PROVE  /\ TierHorizon(tier) \in Nat /\ Horizon \in Nat
           /\ TierHorizon(tier) <= Horizon
BY ScittConstants, ArtifactConstants DEF TierHorizon, Horizon

SoundCall(r) ==
    /\ r.at = "token" /\ scittKeyLookup = "store" => r.receiptKid \in DOMAIN snapshot
    /\ r.at = "badge" /\ r.both =>
          scittKeyLookup = "custom" /\ r.why \in TransportErrors \ {"AgentTerminal"}
    /\ r.at = "done" /\ r.outcome.type = "Verified" => SoundVerdict(r.outcome)
    /\ r.at = "done" /\ r.outcome.err = "UnknownKeyID" /\ scittKeyLookup = "store" =>
          ~r.outcome.sameKey

CallInv ==
    /\ DOMAIN scall = Verifier
    /\ endedAt \in Nat \cup {None}
    /\ clockSkewTolerance \in Int
    /\ \A v \in Verifier : SoundCall(scall[v])

ScittInv == IInv /\ CallInv

LEMMA ScittInitInv == ScittInit => ScittInv
<1>. SUFFICES ASSUME ScittInit PROVE CallInv
  BY InitInv DEF ScittInit, ScittInv
<1>1. clockSkewTolerance \in Int
  BY ScittConstants, ArtifactConstants DEF ScittInit, ClockSkew
<1>2. \A v \in Verifier : SoundCall(scall[v])
  BY DEF ScittInit, Idle, SoundCall
<1>. QED  BY <1>1, <1>2 DEF ScittInit, CallInv

LEMMA StoreNextInv ==
    ASSUME ScittInv, StoreNext
    PROVE  CallInv'
<1>1. DOMAIN snapshot \subseteq DOMAIN snapshot'
  BY SnapshotGrows DEF ScittInv, StoreNext
<1>2. UNCHANGED <<scittKeyLookup, clockSkewTolerance, endedAt, scall>>
  BY DEF StoreNext, scittVars
<1>3. now \in Nat /\ now' \in Nat /\ now <= now'
  <2>1. now' = now \/ now' = now + 1
    BY DEF StoreNext, Next, Tick, CallerStep, DoRefreshStep, RefreshIfCooldownElapsed, QuickCheck,
           AcquireGate, Recheck, Return, FetchRootKeys, FetchFails, StartBackgroundRefresh,
           TickerFires, CancelBackground, Merge
  <2>. QED  BY <2>1 DEF ScittInv, IInv, TypeOK
<1>4. \A v \in Verifier : SoundCall(scall[v])'
  <2>. SUFFICES ASSUME NEW v \in Verifier PROVE SoundCall(scall[v])'
    OBVIOUS
  <2>1. SoundCall(scall[v]) /\ scall'[v] = scall[v]
    BY <1>2 DEF ScittInv, CallInv
  <2>2. scall[v].at = "done" /\ scall[v].outcome.type = "Verified" =>
            SoundVerdict(scall[v].outcome)'
    BY <1>2, <1>3, <2>1 DEF SoundCall, SoundVerdict
  <2>. QED  BY <1>1, <1>2, <2>1, <2>2 DEF SoundCall
<1>. QED  BY <1>2, <1>4 DEF ScittInv, CallInv

LEMMA RevokeInv ==
    ASSUME ScittInv, Revoke
    PROVE  CallInv'
<1>1. now \in Nat
  BY DEF ScittInv, IInv, TypeOK
<1>2. \A v \in Verifier : SoundCall(scall[v])'
  <2>. SUFFICES ASSUME NEW v \in Verifier PROVE SoundCall(scall[v])'
    OBVIOUS
  <2>1. /\ SoundCall(scall[v]) /\ scall'[v] = scall[v]
        /\ endedAt' = now /\ UNCHANGED <<now, snapshot, scittKeyLookup>>
    BY DEF Revoke, ScittInv, CallInv, vars
  <2>2. ASSUME scall[v].at = "done", scall[v].outcome.type = "Verified"
        PROVE  SoundVerdict(scall[v].outcome)'
    <3>1. PICK o : o = scall[v].outcome
      OBVIOUS
    <3>2. o.at \in Nat /\ o.at <= now
      BY <2>1, <2>2, <3>1 DEF SoundCall, SoundVerdict
    <3>3. o.at <= now + TierHorizon(o.tier)
      BY <1>1, <3>2, HorizonType
    <3>. QED  BY <2>1, <3>1, <3>2, <3>3 DEF SoundVerdict
  <2>. QED  BY <2>1, <2>2 DEF SoundCall
<1>. QED  BY <1>1, <1>2 DEF Revoke, ScittInv, CallInv

\* A step that writes a sound record of the call.
LEMMA CallStepInv ==
    ASSUME CallInv, NEW v \in Verifier, NEW r, SoundCall(r),
           scall' = [scall EXCEPT ![v] = r],
           UNCHANGED <<vars, scittKeyLookup, clockSkewTolerance, endedAt>>
    PROVE  CallInv'
<1>1. \A w \in Verifier : scall'[w] = IF w = v THEN r ELSE scall[w]
  BY DEF CallInv
<1>2. \A w \in Verifier : SoundCall(scall'[w])
  BY <1>1 DEF CallInv
<1>3. \A w \in Verifier : SoundCall(scall[w])'
  BY <1>2 DEF SoundCall, SoundVerdict, vars
<1>. QED  BY <1>3 DEF CallInv

\* A call that is refused, for an error of any kind.
LEMMA RefusedSound ==
    ASSUME NEW type, type # "Verified", NEW e, NEW sameKey \in BOOLEAN,
           ~(sameKey /\ e = "UnknownKeyID" /\ scittKeyLookup = "store")
    PROVE  SoundCall([at |-> "done", outcome |-> Refused(type, e, sameKey)])
BY DEF SoundCall, Refused

\* A verdict that is reached now.
LEMMA VerdictSound ==
    ASSUME now \in Nat, NEW tier, endedAt # None => now <= endedAt + TierHorizon(tier)
    PROVE  SoundCall([at |-> "done", outcome |-> Verified(tier)])
<1>1. PICK o : o = Verified(tier)
  OBVIOUS
<1>2. o.type = "Verified" /\ o.err = NoError /\ o.tier = tier /\ o.at = now
  BY <1>1 DEF Verified
<1>3. SoundVerdict(o)
  BY <1>2 DEF SoundVerdict
<1>4. NoError # "UnknownKeyID"
  BY ArtifactConstants DEF ArtifactError
<1>. QED  BY <1>1, <1>2, <1>3, <1>4 DEF SoundCall

\* What the key lookup can answer.
LEMMA GetAnswers ==
    ASSUME NEW kid, NEW got \in Get(kid)
    PROVE  /\ got.err = NoError /\ scittKeyLookup = "store" => kid \in DOMAIN snapshot
           /\ kid \in DOMAIN snapshot /\ scittKeyLookup = "store" => got.err = NoError
           /\ got.err \in TransportErrors => scittKeyLookup = "custom"
<1>. USE ArtifactConstants, ScittConstants DEF ArtifactError, TransportErrors
<1>1. CASE got = KeyStoreGet(snapshot, kid)
  BY <1>1 DEF KeyStoreGet
<1>2. CASE got # KeyStoreGet(snapshot, kid)
  BY <1>2 DEF Get
<1>. QED  BY <1>1, <1>2

\* Refuse: the badge path is taken only for a transport error of the lookup.
LEMMA RefuseInv ==
    ASSUME CallInv, NEW v \in Verifier, NEW kid, NEW got \in Get(kid),
           NEW e \in ErrorsWith(got), NEW sameKey \in BOOLEAN, Refuse(v, e, sameKey),
           sameKey /\ scittKeyLookup = "store" => kid \in DOMAIN snapshot,
           UNCHANGED <<vars, scittKeyLookup, clockSkewTolerance, endedAt>>
    PROVE  CallInv'
<1>1. CASE ShouldFallbackToBadge(e)
  <2>1. e = got.err /\ e \in TransportErrors \ {"AgentTerminal"}
    BY <1>1 DEF ShouldFallbackToBadge, ErrorsWith, OwnError, ArtifactError, TransportErrors
  <2>2. scittKeyLookup = "custom"
    BY <2>1, GetAnswers
  <2>3. SoundCall([at |-> "badge", both |-> TRUE, why |-> e])
    BY <2>1, <2>2 DEF SoundCall
  <2>. QED  BY <1>1, <2>3, CallStepInv DEF Refuse, ToBadge
<1>2. CASE ~ShouldFallbackToBadge(e)
  <2>1. ~(sameKey /\ e = "UnknownKeyID" /\ scittKeyLookup = "store")
    <3>. SUFFICES ASSUME sameKey, scittKeyLookup = "store" PROVE e # "UnknownKeyID"
      OBVIOUS
    <3>1. got.err = NoError
      BY GetAnswers
    <3>. QED  BY <3>1 DEF ErrorsWith, OwnError
  <2>. DEFINE same == sameKey /\ e = "UnknownKeyID"
  <2>2. same \in BOOLEAN
    OBVIOUS
  <2>3. SoundCall([at |-> "done", outcome |-> Refused("ScittError", e, same)])
    BY <2>1, <2>2, RefusedSound
  <2>. QED  BY <1>2, <2>3, CallStepInv DEF Refuse, Done
<1>. QED  BY <1>1, <1>2

LEMMA EntryInv ==
    ASSUME CallInv, NEW v \in Verifier, NEW p \in Peer, NEW r, NEW t,
           VerifyWithScittEntry(v, p, r, t)
    PROVE  CallInv'
<1>. DEFINE error == FirstError(EntryChecks(p, r, t))
            type == IF error \in {"NoCN", "NoURISAN"} THEN "CertError" ELSE "ScittError"
<1>1. UNCHANGED <<vars, scittKeyLookup, clockSkewTolerance, endedAt>>
  BY DEF VerifyWithScittEntry
<1>2. \/ Done(v, Refused("HeaderError", "Base64Decode", FALSE))
      \/ ToBadge(v, FALSE, NoError)
      \/ Done(v, Refused(type, error, FALSE))
  BY DEF VerifyWithScittEntry
<1>3. type # "Verified"
  OBVIOUS
<1>. HIDE DEF type, error
<1>4. /\ SoundCall([at |-> "done", outcome |-> Refused("HeaderError", "Base64Decode", FALSE)])
      /\ SoundCall([at |-> "done", outcome |-> Refused(type, error, FALSE)])
  BY <1>3, RefusedSound
<1>5. SoundCall([at |-> "badge", both |-> FALSE, why |-> NoError])
  BY DEF SoundCall
<1>. QED  BY <1>1, <1>2, <1>4, <1>5, CallStepInv DEF Done, ToBadge

LEMMA ReceiptInv ==
    ASSUME CallInv, NEW v \in Verifier, NEW p \in Peer, NEW a, NEW got \in Get(a.kid),
           VerifyReceiptStep(v, p, a, got)
    PROVE  CallInv'
<1>. DEFINE error == VerifyReceipt(a, got)
            r == [at |-> "token", receiptKid |-> a.kid, call |-> NewCall(p)]
<1>1. UNCHANGED <<vars, scittKeyLookup, clockSkewTolerance, endedAt>>
  BY DEF VerifyReceiptStep
<1>2. CASE error = NoError
  <2>1. scittKeyLookup = "store" => a.kid \in DOMAIN snapshot
    BY <1>2, ReceiptVerdict, GetAnswers
  <2>2. SoundCall(r)
    BY <2>1 DEF SoundCall
  <2>3. scall' = [scall EXCEPT ![v] = r]
    BY <1>2 DEF VerifyReceiptStep
  <2>. HIDE DEF r
  <2>. QED  BY <1>1, <2>2, <2>3, CallStepInv
<1>3. CASE error # NoError
  <2>1. error \in ErrorsWith(got)
    BY <1>3, ReceiptVerdict
  <2>2. Refuse(v, error, FALSE)
    BY <1>3 DEF VerifyReceiptStep
  <2>. HIDE DEF error
  <2>. QED  BY <1>1, <2>1, <2>2, RefuseInv
<1>. QED  BY <1>2, <1>3

\* The log issues tokens of a live agent only before its end.
LEMMA IssuedTokens ==
    ASSUME NEW shape \in TokenShapes, NEW t
    PROVE  /\ Issue(shape, t).kid = shape.kid
           /\ Issue(shape, t).payload.exp = IF shape.payload.exp = 0 THEN 0 ELSE t + TokenLife
           /\ IsValidForConnection(Issue(shape, t).payload.status) =>
                 endedAt = None \/ ~(endedAt < t)
<1>1. /\ {"kid", "payload"} \subseteq DOMAIN shape
      /\ {"status", "exp"} \subseteq DOMAIN shape.payload
  BY ScittConstants
<1>2. /\ Issue(shape, t).kid = shape.kid
      /\ Issue(shape, t).payload.exp = IF shape.payload.exp = 0 THEN 0 ELSE t + TokenLife
      /\ Issue(shape, t).payload.status =
            IF IsValidForConnection(shape.payload.status) /\ endedAt # None /\ endedAt < t
              THEN "REVOKED" ELSE shape.payload.status
  BY <1>1 DEF Issue
<1>. QED  BY <1>2 DEF IsValidForConnection

LEMMA TokenInv ==
    ASSUME ScittInv, NEW v \in Verifier, NEW shape \in TokenShapes, NEW t \in 0..now,
           NEW got \in Get(shape.kid), VerifyTokenStep(v, Issue(shape, t), got)
    PROVE  CallInv'
<1>. USE DEF ScittInv
<1>. DEFINE a == Issue(shape, t)
            error == VerifyStatusTokenAt(a, got, clockSkewTolerance, now)
            refusal == FirstError(TokenChecks(scall[v].call, a.payload))
            same == a.kid = scall[v].receiptKid
<1>1. /\ UNCHANGED <<vars, scittKeyLookup, clockSkewTolerance, endedAt>>
      /\ scall[v].at = "token"
  BY DEF VerifyTokenStep
<1>2. CASE error # NoError
  <2>1. error \in ErrorsWith(got)
    BY <1>2, TokenVerdict
  <2>2. Refuse(v, error, same)
    BY <1>2 DEF VerifyTokenStep
  <2>3. same /\ scittKeyLookup = "store" => shape.kid \in DOMAIN snapshot
    BY <1>1, IssuedTokens DEF CallInv, SoundCall
  <2>4. same \in BOOLEAN
    OBVIOUS
  <2>. HIDE DEF error, same
  <2>. QED  BY <1>1, <2>1, <2>2, <2>3, <2>4, RefuseInv
<1>3. CASE error = NoError /\ refusal # NoError
  <2>1. Done(v, Refused("ScittError", refusal, FALSE))
    BY <1>3 DEF VerifyTokenStep
  <2>. HIDE DEF refusal
  <2>2. SoundCall([at |-> "done", outcome |-> Refused("ScittError", refusal, FALSE)])
    BY RefusedSound
  <2>. QED  BY <1>1, <2>1, <2>2, CallStepInv DEF Done
<1>4. CASE error = NoError /\ refusal = NoError
  <2>1. Done(v, Verified("FullScitt"))
    BY <1>4 DEF VerifyTokenStep
  <2>2. now <= a.payload.exp + ClockSkew(clockSkewTolerance)
    BY <1>4, TokenVerdict
  <2>3. endedAt = None \/ ~(endedAt < t)
    BY <1>4, ContentVerdict, IssuedTokens
  <2>4. /\ now \in Nat /\ t \in Nat /\ endedAt \in Nat \cup {None}
        /\ TokenLife \in Nat /\ MaxClockSkew \in Nat /\ None \notin Nat
    BY ScittConstants, ArtifactConstants, KeyStoreConstants DEF IInv, TypeOK, CallInv
  <2>5. ClockSkew(clockSkewTolerance) \in 0..MaxClockSkew
    BY <2>4 DEF ClockSkew, CallInv
  <2>6. a.payload.exp \in Nat /\ a.payload.exp <= t + TokenLife
    BY <2>4, IssuedTokens
  <2>7. endedAt # None => now - endedAt <= TokenLife + MaxClockSkew
    BY <2>2, <2>3, <2>4, <2>5, <2>6
  <2>8. endedAt # None => now <= endedAt + TierHorizon("FullScitt")
    BY <2>4, <2>7 DEF TierHorizon
  <2>9. SoundCall([at |-> "done", outcome |-> Verified("FullScitt")])
    BY <2>4, <2>8, VerdictSound
  <2>. QED  BY <1>1, <2>1, <2>9, CallStepInv DEF Done
<1>. QED  BY <1>2, <1>3, <1>4

LEMMA BadgeInv ==
    ASSUME ScittInv, NEW v \in Verifier, NEW ok \in BOOLEAN, BadgeVerify(v, ok)
    PROVE  CallInv'
<1>. USE DEF ScittInv
<1>1. UNCHANGED <<vars, scittKeyLookup, clockSkewTolerance, endedAt>>
  BY DEF BadgeVerify
<1>2. CASE ok
  <2>1. Done(v, Verified("BadgeOnly")) /\ (endedAt # None => now <= endedAt + BadgeHorizon)
    BY <1>2 DEF BadgeVerify
  <2>2. now \in Nat /\ endedAt \in Nat \cup {None} /\ BadgeHorizon \in Nat /\ None \notin Nat
    BY ScittConstants, KeyStoreConstants DEF IInv, TypeOK, CallInv
  <2>3. endedAt # None => now <= endedAt + TierHorizon("BadgeOnly")
    BY <2>1 DEF TierHorizon
  <2>4. SoundCall([at |-> "done", outcome |-> Verified("BadgeOnly")])
    BY <2>2, <2>3, VerdictSound
  <2>. QED  BY <1>1, <2>1, <2>4, CallStepInv DEF Done
<1>3. CASE ~ok
  <2>1. Done(v, Refused("Rejected", scall[v].why, FALSE))
    BY <1>3 DEF BadgeVerify
  <2>2. SoundCall([at |-> "done", outcome |-> Refused("Rejected", scall[v].why, FALSE)])
    BY RefusedSound
  <2>. QED  BY <1>1, <2>1, <2>2, CallStepInv DEF Done
<1>. QED  BY <1>2, <1>3

LEMMA ReturnInv ==
    ASSUME CallInv, NEW v \in Verifier, ReturnOutcome(v)
    PROVE  CallInv'
<1>1. SoundCall(Idle)
  BY DEF SoundCall, Idle
<1>. QED  BY <1>1, CallStepInv DEF ReturnOutcome

LEMMA ScittNextInv == ScittInv /\ [ScittNext]_sysVars => ScittInv'
<1>. SUFFICES ASSUME ScittInv, [ScittNext]_sysVars PROVE ScittInv'  OBVIOUS
<1>1. IInv'
  <2>1. [Next]_vars
    BY DEF ScittNext, sysVars, StoreNext, Revoke, VerifierStep, VerifyWithScittEntry,
           VerifyReceiptStep, VerifyTokenStep, BadgeVerify, ReturnOutcome
  <2>. QED  BY <2>1, NextInv DEF ScittInv
<1>2. CallInv'
  <2>1. CASE StoreNext
    BY <2>1, StoreNextInv
  <2>2. CASE Revoke
    BY <2>2, RevokeInv
  <2>3. ASSUME NEW v \in Verifier, VerifierStep(v)
        PROVE  CallInv'
    BY <2>3, EntryInv, ReceiptInv, TokenInv, BadgeInv, ReturnInv DEF VerifierStep, ScittInv
  <2>4. CASE UNCHANGED sysVars
    <3>1. \A v \in Verifier : SoundCall(scall[v])'
      BY <2>4 DEF sysVars, scittVars, vars, ScittInv, CallInv, SoundCall, SoundVerdict
    <3>. QED  BY <2>4, <3>1 DEF sysVars, scittVars, ScittInv, CallInv
  <2>. QED  BY <2>1, <2>2, <2>3, <2>4 DEF ScittNext
<1>. QED  BY <1>1, <1>2 DEF ScittInv

LEMMA ScittInvariantHolds == ScittSpec => []ScittInv
BY ScittInitInv, ScittNextInv, PTL DEF ScittSpec

-----------------------------------------------------------------------------
(* The theorems.                                                           *)

\* VerifyWithScitt never accepts a revoked agent later than one token lifetime
\* and the largest clock tolerance after the revocation, or the badge path's own
\* horizon, whatever artifacts the peer sends.
THEOREM RevokedAgentHorizon == ScittSpec => []ScittHorizon
<1>1. ScittInv => ScittHorizon
  BY DEF ScittInv, CallInv, SoundCall, SoundVerdict, ScittHorizon
<1>. QED  BY <1>1, ScittInvariantHolds, PTL

\* A step of a call grants nothing or grants now.
LEMMA GrantsNow ==
    ASSUME CallInv, NEW v \in Verifier, VerifierStep(v)
    PROVE  /\ UNCHANGED <<vars, endedAt>>
           /\ \A w \in Verifier \ {v} : scall'[w] = scall[w]
           /\ GrantedTo(v)' = None \/ GrantedTo(v)' = [agent |-> "agent", at |-> now]
<1>. DEFINE Writes(r) == scall' = [scall EXCEPT ![v] = r]
<1>1. ASSUME NEW r, Writes(r), r.at # "done" \/ r.outcome.type # "Verified"
      PROVE  /\ \A w \in Verifier \ {v} : scall'[w] = scall[w]
             /\ GrantedTo(v)' = None
  BY <1>1 DEF CallInv, GrantedTo
<1>2. ASSUME NEW type, type # "Verified", NEW e, NEW sameKey, Done(v, Refused(type, e, sameKey))
      PROVE  /\ \A w \in Verifier \ {v} : scall'[w] = scall[w]
             /\ GrantedTo(v)' = None
  BY <1>2 DEF Done, Refused, CallInv, GrantedTo
<1>3. ASSUME NEW tier, Done(v, Verified(tier))
      PROVE  /\ \A w \in Verifier \ {v} : scall'[w] = scall[w]
             /\ GrantedTo(v)' = [agent |-> "agent", at |-> now]
  BY <1>3 DEF Done, Verified, CallInv, GrantedTo
<1>4. ASSUME NEW both, NEW e, ToBadge(v, both, e)
      PROVE  /\ \A w \in Verifier \ {v} : scall'[w] = scall[w]
             /\ GrantedTo(v)' = None
  BY <1>4 DEF ToBadge, CallInv, GrantedTo
<1>5. ASSUME NEW e, NEW sameKey, Refuse(v, e, sameKey)
      PROVE  /\ \A w \in Verifier \ {v} : scall'[w] = scall[w]
             /\ GrantedTo(v)' = None
  <2>1. ToBadge(v, TRUE, e) \/ \E same : Done(v, Refused("ScittError", e, same))
    BY <1>5 DEF Refuse
  <2>. QED  BY <1>2, <1>4, <2>1
<1>6. ASSUME NEW p \in Peer, NEW r, NEW t, VerifyWithScittEntry(v, p, r, t)
      PROVE  /\ UNCHANGED <<vars, endedAt>>
             /\ \A w \in Verifier \ {v} : scall'[w] = scall[w]
             /\ GrantedTo(v)' = None
  <2>1. \/ \E type, e : type # "Verified" /\ Done(v, Refused(type, e, FALSE))
        \/ ToBadge(v, FALSE, NoError)
    BY <1>6 DEF VerifyWithScittEntry
  <2>. QED  BY <1>2, <1>4, <1>6, <2>1 DEF VerifyWithScittEntry
<1>7. ASSUME NEW p \in Peer, NEW a, NEW got, VerifyReceiptStep(v, p, a, got)
      PROVE  /\ UNCHANGED <<vars, endedAt>>
             /\ \A w \in Verifier \ {v} : scall'[w] = scall[w]
             /\ GrantedTo(v)' = None
  <2>. DEFINE r == [at |-> "token", receiptKid |-> a.kid, call |-> NewCall(p)]
  <2>1. Writes(r) \/ \E e : Refuse(v, e, FALSE)
    BY <1>7 DEF VerifyReceiptStep
  <2>2. r.at # "done"
    OBVIOUS
  <2>. HIDE DEF r, Writes
  <2>. QED  BY <1>1, <1>5, <1>7, <2>1, <2>2 DEF VerifyReceiptStep
<1>8. ASSUME NEW a, NEW got, VerifyTokenStep(v, a, got)
      PROVE  /\ UNCHANGED <<vars, endedAt>>
             /\ \A w \in Verifier \ {v} : scall'[w] = scall[w]
             /\ GrantedTo(v)' = None \/ GrantedTo(v)' = [agent |-> "agent", at |-> now]
  <2>1. \/ \E e, same : Refuse(v, e, same)
        \/ \E e : Done(v, Refused("ScittError", e, FALSE))
        \/ Done(v, Verified("FullScitt"))
    BY <1>8 DEF VerifyTokenStep
  <2>. QED  BY <1>2, <1>3, <1>5, <1>8, <2>1 DEF VerifyTokenStep
<1>9. ASSUME NEW ok, BadgeVerify(v, ok)
      PROVE  /\ UNCHANGED <<vars, endedAt>>
             /\ \A w \in Verifier \ {v} : scall'[w] = scall[w]
             /\ GrantedTo(v)' = None \/ GrantedTo(v)' = [agent |-> "agent", at |-> now]
  <2>1. \/ \E e : Done(v, Refused("Rejected", e, FALSE))
        \/ Done(v, Verified("BadgeOnly"))
    BY <1>9 DEF BadgeVerify
  <2>. QED  BY <1>2, <1>3, <1>9, <2>1 DEF BadgeVerify
<1>10. CASE ReturnOutcome(v)
  <2>1. Writes(Idle) /\ Idle.at # "done" /\ UNCHANGED <<vars, endedAt>>
    BY <1>10 DEF ReturnOutcome, Idle
  <2>. HIDE DEF Writes
  <2>. QED  BY <1>1, <2>1
<1>. QED  BY <1>6, <1>7, <1>8, <1>9, <1>10 DEF VerifierStep

\* A step of a call that grants does so within the horizon.
LEMMA CallKeepsPromise ==
    ASSUME ScittInv, ScittInv', NEW v \in Verifier, VerifierStep(v)
    PROVE  [Promise!Next]_(Promise!vars)
<1>. DEFINE ended == [a \in {"agent"} |-> endedAt]
            granted == [w \in Verifier |-> GrantedTo(w)]
<1>1. /\ now' = now /\ endedAt' = endedAt
      /\ \A w \in Verifier \ {v} : scall'[w] = scall[w]
      /\ GrantedTo(v)' = None \/ GrantedTo(v)' = [agent |-> "agent", at |-> now]
  BY GrantsNow DEF ScittInv, vars
<1>2. \A w \in Verifier \ {v} : GrantedTo(w)' = GrantedTo(w)
  BY <1>1 DEF GrantedTo
<1>3. granted' = [granted EXCEPT ![v] = GrantedTo(v)'] /\ ended' = ended
  BY <1>1, <1>2
<1>4. CASE GrantedTo(v)' = None
  <2>1. Promise!Drop(v)
    BY <1>1, <1>3, <1>4 DEF Promise!Drop
  <2>. QED  BY <2>1 DEF Promise!Next
<1>5. CASE GrantedTo(v)' # None
  <2>1. PICK o : o = scall'[v].outcome
    OBVIOUS
  <2>2. /\ scall'[v].at = "done" /\ o.type = "Verified"
        /\ GrantedTo(v)' = [agent |-> "agent", at |-> o.at]
    BY <1>5, <2>1 DEF GrantedTo
  <2>3. o.at = now
    BY <1>1, <1>5, <2>2
  <2>4. SoundVerdict(o)'
    BY <2>1, <2>2 DEF ScittInv, CallInv, SoundCall
  <2>5. endedAt # None => now <= endedAt + TierHorizon(o.tier)
    BY <1>1, <2>3, <2>4 DEF SoundVerdict
  <2>6. now \in Nat /\ endedAt \in Nat \cup {None}
    BY DEF ScittInv, IInv, TypeOK, CallInv
  <2>7. endedAt # None => now <= endedAt + Horizon
    BY <2>5, <2>6, HorizonType
  <2>8. granted' = [granted EXCEPT ![v] = [agent |-> "agent", at |-> now]]
    BY <1>1, <1>3, <1>5
  <2>9. Promise!Grant(v, "agent")
    BY <1>1, <1>3, <2>7, <2>8 DEF Promise!Grant
  <2>. QED  BY <2>9 DEF Promise!Next
<1>. QED  BY <1>4, <1>5

\* VerifyWithScitt implements what the badge verifiers promise, with the larger of its two
\* horizons: to the application its two paths, its fallback, the refreshes of the keys and
\* the clocks of its artifacts come down to granting a live agent, or an ended one within
\* the horizon.
THEOREM ScittPromiseIsKept == ScittSpec => KeepsPromise
<1>1. ScittInit => Promise!Init
  <2>. SUFFICES ASSUME ScittInit PROVE Promise!Init
    OBVIOUS
  <2>1. \A v \in Verifier : GrantedTo(v) = None
    BY DEF ScittInit, Idle, GrantedTo
  <2>. QED  BY <2>1 DEF ScittInit, Init, Promise!Init
<1>2. ScittInv /\ ScittInv' /\ [ScittNext]_sysVars => [Promise!Next]_(Promise!vars)
  <2>. SUFFICES ASSUME ScittInv, ScittInv', [ScittNext]_sysVars
                PROVE  [Promise!Next]_(Promise!vars)
    OBVIOUS
  <2>1. CASE StoreNext
    <3>1. UNCHANGED <<endedAt, scall>>
      BY <2>1 DEF StoreNext, scittVars
    <3>2. now' = now \/ now' = now + 1
      BY <2>1 DEF StoreNext, Next, Tick, CallerStep, DoRefreshStep, RefreshIfCooldownElapsed,
             QuickCheck, AcquireGate, Recheck, Return, FetchRootKeys, FetchFails,
             StartBackgroundRefresh, TickerFires, CancelBackground, Merge
    <3>3. CASE now' = now
      BY <3>1, <3>3 DEF Promise!vars, GrantedTo
    <3>4. CASE now' = now + 1
      <4>1. Promise!Tick
        BY <3>1, <3>4 DEF Promise!Tick, GrantedTo
      <4>. QED  BY <4>1 DEF Promise!Next
    <3>. QED  BY <3>2, <3>3, <3>4
  <2>2. CASE Revoke
    <3>1. endedAt = None /\ endedAt' = now /\ now' = now /\ scall' = scall
      BY <2>2 DEF Revoke, vars
    <3>2. Promise!End("agent")
      BY <3>1 DEF Promise!End, GrantedTo
    <3>. QED  BY <3>2 DEF Promise!Next
  <2>3. ASSUME NEW v \in Verifier, VerifierStep(v)
        PROVE  [Promise!Next]_(Promise!vars)
    BY <2>3, CallKeepsPromise
  <2>4. CASE UNCHANGED sysVars
    <3>1. UNCHANGED <<now, endedAt, scall>>
      BY <2>4 DEF sysVars, vars, scittVars
    <3>. QED  BY <3>1 DEF Promise!vars, GrantedTo
  <2>. QED  BY <2>1, <2>2, <2>3, <2>4 DEF ScittNext
<1>. QED  BY <1>1, <1>2, ScittInvariantHolds, PTL DEF ScittSpec, KeepsPromise, Promise!Spec

\* A peer with both artifacts gets to the badge path only through a transport error
\* of the application's key lookup (ShouldFallbackToBadge), whatever is wrong with
\* the artifacts.
THEOREM DowngradeOnlyByTransport == ScittSpec => []NoSilentDowngrade
<1>1. ScittInv => NoSilentDowngrade
  BY DEF ScittInv, CallInv, SoundCall, NoSilentDowngrade
<1>. QED  BY <1>1, ScittInvariantHolds, PTL

\* The key that verified a call's receipt is still known when its token is
\* verified, whatever has been merged into the key store since.
THEOREM ReceiptKeyStaysKnown == ScittSpec => []SameKeyStaysKnown
<1>1. ScittInv => SameKeyStaysKnown
  BY DEF ScittInv, CallInv, SoundCall, SameKeyStaysKnown
<1>. QED  BY <1>1, ScittInvariantHolds, PTL

\* The promises of the key store hold beside the verifications that use it: its
\* on-demand refreshes are Cooldown apart and no key is dropped or replaced.
THEOREM StoreKeepsItsPromises == ScittSpec => []OnDemandSpaced /\ KeysArePinned
BY StoreImplemented, RefreshesAreSpaced, KeysStayPinned

-----------------------------------------------------------------------------
(* The caches of verified artifacts (ScittCache), which have a clock and a      *)
(* state of their own.  Of their configuration only the type of maxEntries     *)
(* matters.                                                                    *)

\* No element twice.
Distinct(q) == \A i, j \in 1..Len(q) : i # j => q[i] # q[j]

Elements(q) == {q[i] : i \in 1..Len(q)}

LEMMA RangeIsElements ==
    ASSUME NEW S, NEW q \in Seq(S)
    PROVE  Range(q) = Elements(q)
BY DEF Range, Elements

LEMMA DistinctCardinality ==
    ASSUME NEW S, NEW q \in Seq(S), Distinct(q)
    PROVE  IsFiniteSet(Elements(q)) /\ Cardinality(Elements(q)) = Len(q)
<1>1. Len(q) \in Nat /\ q \in [1..Len(q) -> Elements(q)]
  BY DEF Elements
<1>2. q \in Bijection(1..Len(q), Elements(q))
  BY <1>1 DEF Bijection, Injection, IsInjective, Surjection, Distinct, Elements
<1>3. ExistsBijection(1..Len(q), Elements(q))
  BY <1>2 DEF ExistsBijection
<1>4. IsFiniteSet(1..Len(q)) /\ Cardinality(1..Len(q)) = Len(q)
  BY <1>1, FS_Interval
<1>. QED  BY <1>3, <1>4, FS_Bijection

\* The first taken elements leave the queue.
LEMMA TakenFromFront ==
    ASSUME NEW S, NEW q \in Seq(S), Distinct(q), NEW taken \in 0..Len(q)
    PROVE  LET rest == SubSeq(q, taken + 1, Len(q))
           IN  /\ rest \in Seq(S)
               /\ Len(rest) = Len(q) - taken
               /\ \A i \in 1..Len(rest) : rest[i] = q[i + taken]
               /\ Elements(rest) = Elements(q) \ {q[i] : i \in 1..taken}
<1>. DEFINE rest == SubSeq(q, taken + 1, Len(q))
<1>1. /\ rest \in Seq(S)
      /\ Len(rest) = Len(q) - taken
      /\ \A i \in 1..Len(q) - taken : rest[i] = q[i + taken]
  BY SubSeqProperties, LenProperties
<1>. HIDE DEF rest
<1>2. ASSUME NEW x \in Elements(rest) PROVE x \in Elements(q) \ {q[i] : i \in 1..taken}
  <2>1. PICK j \in 1..Len(rest) : x = rest[j]
    BY DEF Elements
  <2>2. x = q[j + taken] /\ j + taken \in 1..Len(q)
    BY <1>1, <2>1, LenProperties
  <2>3. \A i \in 1..taken : q[i] # x
    BY <2>1, <2>2, LenProperties DEF Distinct
  <2>. QED  BY <2>2, <2>3 DEF Elements
<1>3. ASSUME NEW x \in Elements(q) \ {q[i] : i \in 1..taken} PROVE x \in Elements(rest)
  <2>1. PICK j \in 1..Len(q) : x = q[j]
    BY DEF Elements
  <2>2. ~(j \in 1..taken)
    BY <2>1
  <2>3. j - taken \in 1..Len(rest) /\ x = rest[j - taken]
    BY <1>1, <2>1, <2>2, LenProperties
  <2>. QED  BY <2>3 DEF Elements
<1>4. Elements(rest) = Elements(q) \ {q[i] : i \in 1..taken}
  BY <1>2, <1>3
<1>. QED  BY <1>1, <1>4 DEF rest

\* One element leaves the queue from within.
LEMMA RemovedFromWithin ==
    ASSUME NEW S, NEW q \in Seq(S), Distinct(q), NEW p \in 1..Len(q)
    PROVE  LET rest == RemoveFirst(q, q[p])
           IN  /\ rest \in Seq(S)
               /\ Len(rest) = Len(q) - 1
               /\ \A i \in 1..Len(rest) : rest[i] = IF i < p THEN q[i] ELSE q[i + 1]
               /\ Elements(rest) = Elements(q) \ {q[p]}
<1>. DEFINE rest == RemoveFirst(q, q[p])
<1>1. {i \in 1..Len(q) : q[i] = q[p]} = {p}
  BY DEF Distinct
<1>2. Min({p}) = p
  BY DEF Min
<1>3. rest = SubSeq(q, 1, p - 1) \o SubSeq(q, p + 1, Len(q))
  <2>1. SelectInSeq(q, LAMBDA v : v = q[p]) = p
    BY <1>1, <1>2 DEF SelectInSeq
  <2>. QED  BY <2>1 DEF RemoveFirst, RemoveAt
<1>4. Len(q) \in Nat /\ p \in Int
  OBVIOUS
<1>5. /\ SubSeq(q, 1, p - 1) \in Seq(S) /\ Len(SubSeq(q, 1, p - 1)) = p - 1
      /\ \A i \in 1..p - 1 : SubSeq(q, 1, p - 1)[i] = q[i]
  BY <1>4, SubSeqProperties, ElementOfSeq
<1>6. /\ SubSeq(q, p + 1, Len(q)) \in Seq(S) /\ Len(SubSeq(q, p + 1, Len(q))) = Len(q) - p
      /\ \A i \in 1..Len(q) - p : SubSeq(q, p + 1, Len(q))[i] = q[i + p]
  BY <1>4, SubSeqProperties, ElementOfSeq
<1>7. /\ rest \in Seq(S)
      /\ Len(rest) = Len(q) - 1
      /\ \A i \in 1..Len(q) - 1 : rest[i] = IF i < p THEN q[i] ELSE q[i + 1]
  <2>. DEFINE a == SubSeq(q, 1, p - 1)
              b == SubSeq(q, p + 1, Len(q))
  <2>0. rest = a \o b /\ a \in Seq(S) /\ b \in Seq(S)
    BY <1>3, <1>5, <1>6
  <2>. HIDE DEF a, b, rest
  <2>1. /\ rest \in Seq(S)
        /\ Len(rest) = Len(a) + Len(b)
        /\ \A i \in 1..Len(a) + Len(b) : rest[i] = IF i <= Len(a) THEN a[i] ELSE b[i - Len(a)]
    BY <2>0, ConcatProperties
  <2>2. /\ Len(a) = p - 1 /\ Len(b) = Len(q) - p
        /\ \A i \in 1..p - 1 : a[i] = q[i]
        /\ \A i \in 1..Len(q) - p : b[i] = q[i + p]
    BY <1>5, <1>6 DEF a, b
  <2>3. Len(rest) = Len(q) - 1
    BY <1>4, <2>1, <2>2
  <2>4. ASSUME NEW i \in 1..Len(q) - 1
        PROVE  rest[i] = IF i < p THEN q[i] ELSE q[i + 1]
    <3>1. CASE i < p
      <4>1. i \in 1..Len(a) + Len(b) /\ i <= Len(a) /\ i \in 1..p - 1
        BY <1>4, <2>2, <3>1
      <4>2. rest[i] = a[i]
        BY <2>1, <4>1
      <4>3. a[i] = q[i]
        BY <2>2, <4>1
      <4>. QED  BY <3>1, <4>2, <4>3
    <3>2. CASE ~(i < p)
      <4>1. rest[i] = b[i - (p - 1)]
        <5>1. i \in 1..Len(a) + Len(b) /\ ~(i <= Len(a))
          BY <1>4, <2>2, <3>2
        <5>2. rest[i] = b[i - Len(a)]
          BY <2>1, <5>1
        <5>. QED  BY <2>2, <5>2
      <4>2. i - (p - 1) \in 1..Len(q) - p /\ (i - (p - 1)) + p = i + 1
        BY <1>4, <3>2
      <4>. QED  BY <2>2, <3>2, <4>1, <4>2
    <3>. QED  BY <3>1, <3>2
  <2>. QED  BY <2>1, <2>3, <2>4
<1>. HIDE DEF rest
<1>8. ASSUME NEW x \in Elements(rest) PROVE x \in Elements(q) \ {q[p]}
  <2>1. PICK j \in 1..Len(rest) : x = rest[j]
    BY DEF Elements
  <2>2. \E k \in 1..Len(q) : k # p /\ x = q[k]
    <3>1. CASE j < p
      BY <1>4, <1>7, <2>1, <3>1
    <3>2. CASE ~(j < p)
      BY <1>4, <1>7, <2>1, <3>2
    <3>. QED  BY <3>1, <3>2
  <2>. QED  BY <2>2 DEF Elements, Distinct
<1>9. ASSUME NEW x \in Elements(q) \ {q[p]} PROVE x \in Elements(rest)
  <2>1. PICK k \in 1..Len(q) : k # p /\ x = q[k]
    BY DEF Elements
  <2>2. \E j \in 1..Len(rest) : x = rest[j]
    <3>1. CASE k < p
      BY <1>4, <1>7, <2>1, <3>1
    <3>2. CASE ~(k < p)
      <4>1. k - 1 \in 1..Len(rest) /\ rest[k - 1] = q[(k - 1) + 1]
        BY <1>4, <1>7, <2>1, <3>2
      <4>. QED  BY <2>1, <4>1
    <3>. QED  BY <3>1, <3>2
  <2>. QED  BY <2>2 DEF Elements
<1>. QED  BY <1>7, <1>8, <1>9 DEF rest

\* The queue lists the present keys in the order in which they became present.
QueueOf(m, q, b, n) ==
    /\ q \in Seq(AgentID)
    /\ DOMAIN m = Elements(q)
    /\ b \in [AgentID -> Nat]
    /\ \A k \in AgentID : b[k] <= n
    /\ \A i, j \in 1..Len(q) : i < j => b[q[i]] < b[q[j]]

CacheInv ==
    /\ clock \in Nat
    /\ inserts \in Nat
    /\ QueueOf(entries, insertOrder, born, inserts)
    /\ SizeBounded

LEMMA QueueIsDistinct ==
    ASSUME NEW m, NEW q, NEW b, NEW n \in Nat, QueueOf(m, q, b, n)
    PROVE  /\ Distinct(q)
           /\ Len(q) \in Nat
           /\ Cardinality(DOMAIN m) = Len(q)
<1>1. Len(q) \in Nat /\ \A i \in 1..Len(q) : q[i] \in AgentID
  BY LenProperties, ElementOfSeq DEF QueueOf
<1>2. ASSUME NEW i \in 1..Len(q), NEW j \in 1..Len(q), i # j PROVE q[i] # q[j]
  <2>1. b[q[i]] \in Nat /\ b[q[j]] \in Nat
    BY <1>1 DEF QueueOf
  <2>2. b[q[i]] < b[q[j]] \/ b[q[j]] < b[q[i]]
    BY <1>1, <1>2 DEF QueueOf
  <2>. QED  BY <2>1, <2>2
<1>3. Distinct(q)
  BY <1>2 DEF Distinct
<1>. QED  BY <1>1, <1>3, DistinctCardinality DEF QueueOf

\* How many keys evictLocked takes from a queue of n keys.
Taken(n) ==
    IF n - MaxEntries <= 0 THEN 0 ELSE IF n - MaxEntries < n THEN n - MaxEntries ELSE n

\* evictLocked takes keys from the front, and keeps the queue and the limit.
LEMMA EvictKeeps ==
    ASSUME NEW m, NEW q, NEW b, NEW n \in Nat, QueueOf(m, q, b, n), EvictLocked(m, q)
    PROVE  LET taken == Taken(Len(q))
           IN  /\ taken \in 0..Len(q)
               /\ DOMAIN entries' = DOMAIN m \ {q[i] : i \in 1..taken}
               /\ \A k \in DOMAIN entries' : entries'[k] = m[k]
               /\ QueueOf(entries', insertOrder', b, n)
               /\ Cardinality(DOMAIN entries') = Len(q) - taken
               /\ SizeBounded'
<1>. DEFINE taken == Taken(Len(q))
            gone == {q[i] : i \in 1..taken}
<1>1. Distinct(q) /\ Len(q) \in Nat /\ Cardinality(DOMAIN m) = Len(q)
  BY QueueIsDistinct
<1>2. MaxEntries \in Int
  BY ScittCacheConstants
<1>3. taken \in 0..Len(q)
  BY <1>1, <1>2 DEF Taken
<1>4. entries' = Without(m, gone) /\ insertOrder' = SubSeq(q, taken + 1, Len(q))
  BY <1>1 DEF EvictLocked, ToRemove, Taken
<1>. HIDE DEF taken
<1>5. /\ insertOrder' \in Seq(AgentID)
      /\ Len(insertOrder') = Len(q) - taken
      /\ \A i \in 1..Len(insertOrder') : insertOrder'[i] = q[i + taken]
      /\ Elements(insertOrder') = Elements(q) \ gone
  BY <1>1, <1>3, <1>4, TakenFromFront DEF QueueOf
<1>6. DOMAIN entries' = DOMAIN m \ gone /\ \A k \in DOMAIN entries' : entries'[k] = m[k]
  BY <1>4 DEF Without
<1>7. QueueOf(entries', insertOrder', b, n)
  <2>1. ASSUME NEW i \in 1..Len(insertOrder'), NEW j \in 1..Len(insertOrder'), i < j
        PROVE  b[insertOrder'[i]] < b[insertOrder'[j]]
    <3>1. i + taken \in 1..Len(q) /\ j + taken \in 1..Len(q) /\ i + taken < j + taken
      BY <1>1, <1>3, <1>5, <2>1
    <3>. QED  BY <1>5, <3>1 DEF QueueOf
  <2>. QED  BY <1>5, <1>6, <2>1 DEF QueueOf
<1>8. Cardinality(DOMAIN entries') = Len(q) - taken
  BY <1>5, <1>7, QueueIsDistinct
<1>9. SizeBounded'
  BY <1>1, <1>2, <1>8 DEF SizeBounded, Taken, taken
<1>. QED  BY <1>3, <1>6, <1>7, <1>8, <1>9 DEF taken

\* What an insertion hands to evictLocked: the map and the queue with the key in them.
LEMMA InsertPrepares ==
    ASSUME CacheInv, NEW id \in AgentID, NEW expiresAt, InsertEntry(id, expiresAt)
    PROVE  \E m, q :
              /\ EvictLocked(m, q)
              /\ DOMAIN m = DOMAIN entries \cup {id}
              /\ \A k \in DOMAIN entries : k # id => m[k] = entries[k]
              /\ QueueOf(m, q, born', inserts + 1)
              /\ \A k \in DOMAIN entries : born'[k] = born[k]
<1>. DEFINE existed == id \in DOMAIN entries
            m == [k \in DOMAIN entries \cup {id} |-> IF k = id THEN expiresAt ELSE entries[k]]
            q == IF existed THEN insertOrder ELSE Append(insertOrder, id)
<1>1. EvictLocked(m, q) /\ born' = IF existed THEN born ELSE [born EXCEPT ![id] = inserts + 1]
  BY DEF InsertEntry
<1>2. /\ DOMAIN m = DOMAIN entries \cup {id}
      /\ \A k \in DOMAIN entries : k # id => m[k] = entries[k]
  OBVIOUS
<1>3. inserts \in Nat /\ QueueOf(entries, insertOrder, born, inserts)
  BY DEF CacheInv
<1>. HIDE DEF m
<1>4. QueueOf(m, q, born', inserts + 1) /\ \A k \in DOMAIN entries : born'[k] = born[k]
  <2>1. CASE existed
    <3>1. DOMAIN m = DOMAIN entries /\ q = insertOrder /\ born' = born
      BY <1>1, <1>2, <2>1
    <3>2. \A k \in AgentID : born[k] <= inserts + 1
      BY <1>3 DEF QueueOf
    <3>. QED  BY <1>3, <3>1, <3>2 DEF QueueOf
  <2>2. CASE ~existed
    <3>1. q = Append(insertOrder, id) /\ born' = [born EXCEPT ![id] = inserts + 1]
      BY <1>1, <2>2
    <3>2. Len(insertOrder) \in Nat /\ \A i \in 1..Len(insertOrder) : insertOrder[i] \in AgentID
      BY <1>3, LenProperties, ElementOfSeq DEF QueueOf
    <3>3. /\ q \in Seq(AgentID) /\ Len(q) = Len(insertOrder) + 1
          /\ \A i \in 1..Len(insertOrder) : q[i] = insertOrder[i]
          /\ q[Len(insertOrder) + 1] = id
      BY <1>3, <3>1, AppendProperties DEF QueueOf
    <3>. HIDE DEF q
    <3>4. Elements(q) = Elements(insertOrder) \cup {id}
      BY <3>2, <3>3 DEF Elements
    <3>5. born' \in [AgentID -> Nat] /\ \A k \in AgentID : born'[k] <= inserts + 1
      BY <1>3, <3>1 DEF QueueOf
    <3>6. \A i \in 1..Len(insertOrder) : insertOrder[i] # id
      BY <1>3, <2>2 DEF QueueOf, Elements
    <3>7. ASSUME NEW i \in 1..Len(q), NEW j \in 1..Len(q), i < j
          PROVE  born'[q[i]] < born'[q[j]]
      <4>1. i \in 1..Len(insertOrder) /\ q[i] = insertOrder[i] /\ q[i] \in AgentID /\ q[i] # id
        BY <3>2, <3>3, <3>6, <3>7
      <4>2. born'[q[i]] = born[insertOrder[i]] /\ born[insertOrder[i]] \in Nat /\ born[insertOrder[i]] <= inserts
        BY <1>3, <3>1, <4>1 DEF QueueOf
      <4>3. CASE j = Len(insertOrder) + 1
        <5>1. born'[q[j]] = inserts + 1
          BY <1>3, <3>1, <3>3, <4>3 DEF QueueOf
        <5>. QED  BY <1>3, <4>2, <5>1
      <4>4. CASE j # Len(insertOrder) + 1
        <5>1. j \in 1..Len(insertOrder) /\ q[j] = insertOrder[j] /\ q[j] \in AgentID /\ q[j] # id
          BY <3>2, <3>3, <3>6, <4>4
        <5>2. born'[q[j]] = born[insertOrder[j]]
          BY <1>3, <3>1, <5>1 DEF QueueOf
        <5>. QED  BY <1>3, <3>7, <4>1, <4>2, <5>1, <5>2 DEF QueueOf
      <4>. QED  BY <4>3, <4>4
    <3>8. \A k \in DOMAIN entries : born'[k] = born[k]
      BY <1>3, <2>2, <3>1, <3>2 DEF QueueOf, Elements
    <3>. QED  BY <1>2, <1>3, <3>3, <3>4, <3>5, <3>7, <3>8 DEF QueueOf
  <2>. QED  BY <2>1, <2>2
<1>. QED  BY <1>1, <1>2, <1>4

\* An insertion keeps the invariant, evicts in the order in which the keys became present,
\* and drops another key only from a cache that stays full.
LEMMA InsertStep ==
    ASSUME CacheInv, NEW id \in AgentID, NEW expiresAt, InsertEntry(id, expiresAt)
    PROVE  /\ CacheInv'
           /\ \A old \in Evicted, k \in DOMAIN entries' : born[old] < born'[k]
           /\ \A k \in DOMAIN entries :
                 \/ k \in DOMAIN entries' /\ (k # id => entries'[k] = entries[k])
                 \/ Cardinality(DOMAIN entries') = MaxEntries
<1>1. PICK m, q : /\ EvictLocked(m, q)
                  /\ DOMAIN m = DOMAIN entries \cup {id}
                  /\ \A k \in DOMAIN entries : k # id => m[k] = entries[k]
                  /\ QueueOf(m, q, born', inserts + 1)
                  /\ \A k \in DOMAIN entries : born'[k] = born[k]
  BY InsertPrepares
<1>2. inserts' = inserts + 1 /\ inserts \in Nat /\ inserts' \in Nat /\ clock' = clock /\ clock \in Nat
  BY DEF CacheInv, InsertEntry
<1>. DEFINE taken == Taken(Len(q))
<1>3. /\ taken \in 0..Len(q)
      /\ DOMAIN entries' = DOMAIN m \ {q[i] : i \in 1..taken}
      /\ \A k \in DOMAIN entries' : entries'[k] = m[k]
      /\ QueueOf(entries', insertOrder', born', inserts + 1)
      /\ Cardinality(DOMAIN entries') = Len(q) - taken
      /\ SizeBounded'
  BY <1>1, <1>2, EvictKeeps
<1>4. Distinct(q) /\ Len(q) \in Nat /\ DOMAIN m = Elements(q)
  BY <1>1, <1>2, QueueIsDistinct DEF QueueOf
<1>5. CacheInv'
  BY <1>2, <1>3 DEF CacheInv
<1>6. ASSUME NEW old \in Evicted, NEW k \in DOMAIN entries'
      PROVE  born[old] < born'[k]
  <2>. HIDE DEF taken
  <2>1. PICK i \in 1..taken : old = q[i]
    BY <1>1, <1>3 DEF Evicted
  <2>2. PICK j \in 1..Len(q) : k = q[j] /\ ~(j \in 1..taken)
    BY <1>3, <1>4 DEF Elements
  <2>3. i \in 1..Len(q) /\ i < j
    BY <1>3, <1>4, <2>1, <2>2
  <2>4. born'[old] < born'[k]
    BY <1>1, <2>1, <2>2, <2>3 DEF QueueOf
  <2>. QED  BY <1>1, <2>4 DEF Evicted
<1>7. ASSUME NEW k \in DOMAIN entries
      PROVE  \/ k \in DOMAIN entries' /\ (k # id => entries'[k] = entries[k])
             \/ Cardinality(DOMAIN entries') = MaxEntries
  <2>1. CASE k \in DOMAIN entries'
    BY <1>1, <1>3, <2>1
  <2>2. CASE k \notin DOMAIN entries'
    <3>1. 1..taken # {}
      BY <1>1, <1>3, <2>2
    <3>2. taken > 0
      <4>. HIDE DEF taken
      <4>. QED  BY <1>3, <1>4, <3>1
    <3>3. MaxEntries > 0
      <4>1. Cardinality(DOMAIN entries) = Len(insertOrder) /\ Len(insertOrder) \in Nat
        BY <1>2, QueueIsDistinct DEF CacheInv
      <4>2. PICK i \in 1..Len(insertOrder) : k = insertOrder[i]
        BY DEF CacheInv, QueueOf, Elements
      <4>3. Len(insertOrder) > 0
        BY <4>1, <4>2
      <4>. QED  BY ScittCacheConstants, <4>1, <4>3 DEF CacheInv, SizeBounded
    <3>4. Len(q) - taken = MaxEntries
      BY ScittCacheConstants, <1>4, <3>2, <3>3 DEF Taken
    <3>. QED  BY <1>3, <2>2, <3>4
  <2>. QED  BY <2>1, <2>2
<1>. QED  BY <1>5, <1>6, <1>7

\* An invalidation takes its own key, from the map and from the queue.
LEMMA InvalidateStep ==
    ASSUME CacheInv, NEW id \in AgentID, Invalidate(id)
    PROVE  CacheInv' /\ \A k \in DOMAIN entries : k # id =>
                            k \in DOMAIN entries' /\ entries'[k] = entries[k]
<1>1. inserts' = inserts /\ inserts \in Nat /\ clock' = clock /\ clock \in Nat /\ born' = born
  BY DEF CacheInv, Invalidate
<1>2. QueueOf(entries, insertOrder, born, inserts)
  BY DEF CacheInv
<1>3. /\ Distinct(insertOrder) /\ Len(insertOrder) \in Nat /\ insertOrder \in Seq(AgentID)
      /\ Cardinality(DOMAIN entries) = Len(insertOrder)
  BY <1>1, <1>2, QueueIsDistinct DEF QueueOf
<1>4. PICK p \in 1..Len(insertOrder) : id = insertOrder[p]
  BY <1>2 DEF Invalidate, QueueOf, Elements
<1>5. /\ insertOrder' \in Seq(AgentID)
      /\ Len(insertOrder') = Len(insertOrder) - 1
      /\ \A i \in 1..Len(insertOrder') :
            insertOrder'[i] = IF i < p THEN insertOrder[i] ELSE insertOrder[i + 1]
      /\ Elements(insertOrder') = Elements(insertOrder) \ {id}
  <2>1. insertOrder' = RemoveFirst(insertOrder, insertOrder[p])
    BY <1>4 DEF Invalidate
  <2>. QED  BY <1>3, <1>4, <2>1, RemovedFromWithin
<1>6. DOMAIN entries' = DOMAIN entries \ {id} /\ \A k \in DOMAIN entries' : entries'[k] = entries[k]
  BY DEF Invalidate, Without
<1>7. QueueOf(entries', insertOrder', born', inserts')
  <2>1. ASSUME NEW i \in 1..Len(insertOrder'), NEW j \in 1..Len(insertOrder'), i < j
        PROVE  born[insertOrder'[i]] < born[insertOrder'[j]]
    <3>. DEFINE at(n) == IF n < p THEN n ELSE n + 1
    <3>1. at(i) \in 1..Len(insertOrder) /\ at(j) \in 1..Len(insertOrder) /\ at(i) < at(j)
      BY <1>3, <1>5, <2>1
    <3>2. insertOrder'[i] = insertOrder[at(i)] /\ insertOrder'[j] = insertOrder[at(j)]
      BY <1>5
    <3>. QED  BY <1>2, <3>1, <3>2 DEF QueueOf
  <2>. QED  BY <1>1, <1>2, <1>5, <1>6, <2>1 DEF QueueOf
<1>8. SizeBounded'
  <2>1. Cardinality(DOMAIN entries') = Len(insertOrder')
    BY <1>1, <1>7, QueueIsDistinct
  <2>. QED  BY ScittCacheConstants, <1>3, <1>5, <2>1 DEF SizeBounded, CacheInv
<1>. QED  BY <1>1, <1>6, <1>7, <1>8 DEF CacheInv

LEMMA CacheInitInv == CacheInit => CacheInv
<1>. SUFFICES ASSUME CacheInit PROVE CacheInv
  OBVIOUS
<1>1. insertOrder = <<>> /\ DOMAIN entries = {} /\ inserts = 0 /\ clock = 0
  BY DEF CacheInit
<1>2. insertOrder \in Seq(AgentID) /\ Len(insertOrder) = 0
  BY <1>1
<1>3. QueueOf(entries, insertOrder, born, inserts)
  BY <1>1, <1>2 DEF CacheInit, QueueOf, Elements
<1>4. Cardinality(DOMAIN entries) = 0
  BY <1>1, FS_EmptySet
<1>. QED  BY ScittCacheConstants, <1>1, <1>3, <1>4 DEF CacheInv, SizeBounded

LEMMA CacheInvNext ==
    ASSUME CacheInv, [CacheNext]_cacheVars
    PROVE  CacheInv'
<1>1. CASE ClockTicks \/ UNCHANGED cacheVars
  <2>1. /\ entries' = entries /\ insertOrder' = insertOrder /\ inserts' = inserts /\ born' = born
        /\ clock' \in Nat
    BY <1>1 DEF CacheInv, ClockTicks, cacheVars
  <2>. QED  BY <2>1 DEF CacheInv, SizeBounded
<1>2. ASSUME NEW id \in AgentID, Insert(id)
      PROVE  CacheInv'
  BY <1>2, InsertStep DEF Insert, InsertReceipt, InsertToken
<1>3. ASSUME NEW id \in AgentID, Invalidate(id)
      PROVE  CacheInv'
  BY <1>3, InvalidateStep
<1>. QED  BY <1>1, <1>2, <1>3 DEF CacheNext

LEMMA CacheInvHolds == CacheSpec => []CacheInv
BY CacheInitInv, CacheInvNext, PTL DEF CacheSpec

\* ReceiptCache and StatusTokenCache never hold more than maxEntries entries, for every
\* limit, also one that is zero or negative, and any sequence of Insert, Invalidate and
\* time.
THEOREM CacheSizeIsBounded == CacheSpec => []SizeBounded
<1>1. CacheInv => SizeBounded
  BY DEF CacheInv
<1>. QED  BY <1>1, CacheInvHolds, PTL

\* evictLocked drops the keys that became present first, whatever was overwritten or
\* invalidated in between.
THEOREM EvictsOldestFirst == CacheSpec => EvictionIsFIFO
<1>. DEFINE Fifo == inserts' # inserts => \A old \in Evicted, k \in DOMAIN entries' : born[old] < born'[k]
<1>1. CacheInv /\ [CacheNext]_cacheVars => [Fifo]_cacheVars
  <2>. SUFFICES ASSUME CacheInv, CacheNext PROVE Fifo
    OBVIOUS
  <2>1. CASE ClockTicks \/ \E id \in AgentID : Invalidate(id)
    BY <2>1 DEF ClockTicks, Invalidate
  <2>2. ASSUME NEW id \in AgentID, NEW e, InsertEntry(id, e)
        PROVE  Fifo
    BY <2>2, InsertStep
  <2>. QED  BY <2>1, <2>2 DEF CacheNext, Insert, InsertReceipt, InsertToken
<1>. QED  BY <1>1, CacheInvHolds, PTL DEF CacheSpec, EvictionIsFIFO

\* An agent whose artifact Get returns is lost only to time, to its own invalidation or
\* insertion, or to a cache that is full afterwards.
THEOREM HitsAreLostForCause == CacheSpec => HitsLostForCause
<1>. DEFINE Cause(id) == \/ clock' > clock
                         \/ Invalidate(id)
                         \/ Insert(id) /\ id \in DOMAIN entries'
                         \/ Cardinality(DOMAIN entries') = MaxEntries
<1>1. CacheInv /\ [CacheNext]_cacheVars
        => [\A id \in AgentID : CacheGet(id) /\ ~CacheGet(id)' => Cause(id)]_cacheVars
  <2>. SUFFICES ASSUME CacheInv, CacheNext, NEW id \in AgentID, CacheGet(id), ~CacheGet(id)'
                PROVE  Cause(id)
    OBVIOUS
  <2>1. CASE ClockTicks
    BY <2>1 DEF ClockTicks, CacheInv
  <2>2. ASSUME NEW other \in AgentID, Invalidate(other)
        PROVE  Cause(id)
    <3>1. CASE other # id
      <4>1. clock' = clock /\ id \in DOMAIN entries' /\ entries'[id] = entries[id]
        BY <2>2, <3>1, InvalidateStep DEF CacheGet, Invalidate
      <4>. QED  BY <4>1 DEF CacheGet
    <3>. QED  BY <2>2, <3>1
  <2>3. ASSUME NEW other \in AgentID, Insert(other)
        PROVE  Cause(id)
    <3>1. PICK e : InsertEntry(other, e)
      BY <2>3 DEF Insert, InsertReceipt, InsertToken
    <3>2. \/ id \in DOMAIN entries' /\ (id # other => entries'[id] = entries[id])
          \/ Cardinality(DOMAIN entries') = MaxEntries
      BY <3>1, InsertStep DEF CacheGet
    <3>3. clock' = clock
      BY <3>1 DEF InsertEntry
    <3>4. CASE other = id
      BY <2>3, <3>2, <3>4
    <3>5. CASE other # id
      BY <3>2, <3>3, <3>5 DEF CacheGet
    <3>. QED  BY <3>4, <3>5
  <2>. QED  BY <2>1, <2>2, <2>3 DEF CacheNext, Insert
<1>. QED  BY <1>1, CacheInvHolds, PTL DEF CacheSpec, HitsLostForCause

=============================================================================
