-------------------------- MODULE AgentClientProofs --------------------------
(***************************************************************************)
(* Proofs about AgentClient, for any number of goroutines, hosts and          *)
(* certificates, any redirects and any options.                              *)
(***************************************************************************)
EXTENDS AgentClient, TLAPS

USE DEF PolicyNone, PolicyBasic, PolicyEnhanced, PolicyAdvanced

\* o is an outcome of a badge verification of certificate c for host h.
BadgeSound(h, c, o) ==
    /\ c \in Record[ResolveIdentityHost(h)]
    /\ o.discovered /\ o.caChainValid /\ o.badge
    /\ o.at \in Nat /\ o.at <= now
    /\ endedAt[ResolveIdentityHost(h)] # None =>
          o.at <= endedAt[ResolveIdentityHost(h)] + BadgeAge

\* o is the outcome of a completed Do.
OutcomeSound(h, c, o) ==
    level >= PolicyEnhanced =>
        BadgeSound(h, c, o) /\ (level >= PolicyAdvanced => o.dane)

\* What every place of Do and every cached outcome rests on.
CallSound(g) ==
    /\ pc[g] \in {"request", "badge", "dane"} /\ level # PolicyNone => outcome[g].discovered
    /\ pc[g] \in {"idle", "discover", "request"} => outcome[g].achieved = PolicyBasic
    /\ pc[g] = "badge" => outcome[g].caChainValid
    /\ pc[g] = "dane" => BadgeSound(host[g], peer[g], outcome[g])
    /\ pc[g] = "done" => OutcomeSound(host[g], peer[g], outcome[g])
    /\ pc[g] \in {"discover", "badge", "dane"} => level # PolicyNone
    /\ pc[g] = "badge" => level >= PolicyEnhanced
    /\ pc[g] = "dane" => level >= PolicyAdvanced

CacheSound ==
    \A h \in Host, c \in Cert :
        <<h, c>> \in DOMAIN verifyCache => OutcomeSound(h, c, verifyCache[<<h, c>>])

IInv ==
    /\ TypeOK
    /\ \A g \in Caller : CallSound(g)
    /\ CacheSound

LEMMA LevelType == ASSUME options \in ClientOptions
                   PROVE  level \in Level /\ \A h \in Host : ResolveIdentityHost(h) \in Host
  BY ClientConstants DEF level, TrustLevel, ResolveIdentityHost, ClientOptions, Level

LEMMA InitIInv == Init => IInv
<1> SUFFICES ASSUME Init PROVE IInv
  OBVIOUS
<1>1. options \in ClientOptions
  BY ClientConstants DEF Init
<1>2. NoOutcome \in TrustOutcome
  BY DEF NoOutcome, TrustOutcome, Level
<1>3. TypeOK
  BY <1>1, <1>2 DEF Init, TypeOK
<1>4. (\A g \in Caller : CallSound(g)) /\ CacheSound
  BY DEF Init, CallSound, CacheSound, NoOutcome
<1> QED  BY <1>3, <1>4 DEF IInv

-----------------------------------------------------------------------------
(* The steps.                                                              *)

\* While the world stands still, what is sound stays sound.
LEMMA SameWorld ==
    ASSUME UNCHANGED world
    PROVE  /\ level' = level
           /\ \A h, c, o : BadgeSound(h, c, o)' = BadgeSound(h, c, o)
           /\ \A h, c, o : OutcomeSound(h, c, o)' = OutcomeSound(h, c, o)
<1>1. level' = level /\ \A h : ResolveIdentityHost(h)' = ResolveIdentityHost(h)
  BY DEF world, level, TrustLevel, ResolveIdentityHost
<1>2. \A h, c, o : BadgeSound(h, c, o)' = BadgeSound(h, c, o)
  BY <1>1 DEF world, BadgeSound
<1> QED  BY <1>1, <1>2 DEF OutcomeSound

\* A step of one call that changes neither the world nor the cache.
LEMMA CallFrame ==
    ASSUME IInv, NEW g \in Caller, UNCHANGED <<world, verifyCache>>, TypeOK', CallSound(g)',
           \A x \in Caller \ {g} : /\ pc'[x] = pc[x] /\ host'[x] = host[x]
                                    /\ peer'[x] = peer[x] /\ outcome'[x] = outcome[x]
    PROVE  IInv'
<1>1. \A x \in Caller : CallSound(x)'
  <2> SUFFICES ASSUME NEW x \in Caller \ {g} PROVE CallSound(x)'
    OBVIOUS
  <2>1. CallSound(x)
    BY DEF IInv
  <2> QED  BY <2>1, SameWorld DEF CallSound
<1>2. CacheSound'
  <2>1. CacheSound
    BY DEF IInv
  <2> QED  BY <2>1, SameWorld DEF CacheSound
<1> QED  BY <1>1, <1>2 DEF IInv

\* The end of Do keeps the invariant when its outcome is sound.
LEMMA ConcludeKeeps ==
    ASSUME IInv, NEW g \in Caller, NEW c \in Cert \cup {None}, NEW o \in TrustOutcome,
           host[g] \in Host, Conclude(g, c, o), UNCHANGED <<world, host>>,
           peer' = [peer EXCEPT ![g] = c],
           o.achieved >= level => OutcomeSound(host[g], c, o)
    PROVE  IInv'
<1> USE DEF Conclude, Goto
<1>0. TypeOK /\ CacheSound /\ \A x \in Caller : CallSound(x)
  BY DEF IInv
<1>1. level' = level /\ level \in Level
  BY <1>0, SameWorld, LevelType DEF TypeOK
<1>2. CASE o.achieved < level
  <2>1. TypeOK'
    BY <1>0, <1>1, <1>2 DEF TypeOK, world
  <2>2. CallSound(g)'
    BY <1>0, <1>2 DEF TypeOK, CallSound
  <2> QED  BY <1>0, <1>2, <2>1, <2>2, CallFrame DEF TypeOK
<1>3. CASE ~(o.achieved < level)
  <2>1. o.achieved \in Level /\ o.achieved >= level
    BY <1>1, <1>3 DEF TrustOutcome, Level
  <2>2. TypeOK'
    BY <1>0, <1>1, <1>3, <2>1 DEF TypeOK, world, Put, CacheKey
  <2>3. OutcomeSound(host[g], c, o)'
    BY <2>1, SameWorld
  <2>4. \A x \in Caller : CallSound(x)'
    <3>1. CallSound(g)'
      BY <1>0, <1>3, <2>3 DEF TypeOK, CallSound
    <3>2. ASSUME NEW x \in Caller, x # g PROVE CallSound(x)'
      <4>1. CallSound(x) /\ pc'[x] = pc[x] /\ host'[x] = host[x] /\ peer'[x] = peer[x]
              /\ outcome'[x] = outcome[x]
        BY <1>0, <1>3, <3>2 DEF TypeOK
      <4> QED  BY <4>1, SameWorld DEF CallSound
    <3> QED  BY <3>1, <3>2
  <2>5. CacheSound'
    <3> SUFFICES ASSUME NEW h \in Host, NEW d \in Cert, <<h, d>> \in DOMAIN verifyCache'
                 PROVE  OutcomeSound(h, d, verifyCache[<<h, d>>])'
      BY DEF CacheSound
    <3>1. CASE c # None /\ <<h, d>> = <<host[g], c>>
      <4>1. verifyCache'[<<h, d>>] = o /\ h = host'[g] /\ d = c
        BY <1>3, <3>1 DEF Put, CacheKey
      <4> QED  BY <2>3, <4>1 DEF OutcomeSound, BadgeSound
    <3>2. CASE ~(c # None /\ <<h, d>> = <<host[g], c>>)
      <4>1. <<h, d>> \in DOMAIN verifyCache /\ verifyCache'[<<h, d>>] = verifyCache[<<h, d>>]
        BY <1>3, <3>2 DEF Put, CacheKey
      <4>2. OutcomeSound(h, d, verifyCache[<<h, d>>])
        BY <1>0, <4>1 DEF CacheSound
      <4>3. OutcomeSound(h, d, verifyCache[<<h, d>>])' = OutcomeSound(h, d, verifyCache[<<h, d>>])
        BY <4>1, SameWorld DEF world, OutcomeSound, BadgeSound, level, TrustLevel,
                               ResolveIdentityHost
      <4> QED  BY <4>2, <4>3
    <3> QED  BY <3>1, <3>2
  <2> QED  BY <2>2, <2>4, <2>5 DEF IInv
<1> QED  BY <1>2, <1>3

\* A call that fails keeps its data.
LEMMA FailKeeps ==
    ASSUME IInv, NEW g \in Caller, Goto(g, "failed"),
           UNCHANGED <<world, verifyCache, host, peer, outcome>>, host[g] \in Host
    PROVE  IInv'
<1>0. TypeOK
  BY DEF IInv
<1>1. TypeOK'
  BY <1>0, SameWorld DEF TypeOK, Goto, world
<1>2. CallSound(g)'
  BY <1>0 DEF TypeOK, CallSound, Goto
<1> QED  BY <1>0, <1>1, <1>2, CallFrame DEF TypeOK, Goto

LEMMA AnsweredKeeps ==
    ASSUME IInv, NEW g \in Caller, NEW c \in Cert \cup {None}, Answered(g, c)
    PROVE  IInv'
<1>0. /\ TypeOK /\ CallSound(g) /\ CacheSound /\ pc[g] = "request" /\ host[g] \in Host
      /\ UNCHANGED <<world, host>> /\ peer' = [peer EXCEPT ![g] = c]
      /\ outcome[g] \in TrustOutcome
  BY DEF IInv, TypeOK, Answered
<1>1. level' = level /\ level \in Level
  BY <1>0, SameWorld, LevelType DEF TypeOK
<1>2. CASE level = PolicyNone /\ Goto(g, "done") /\ UNCHANGED <<outcome, verifyCache>>
  <2>1. TypeOK'
    BY <1>0, <1>1, <1>2 DEF TypeOK, Goto, world
  <2>2. CallSound(g)'
    BY <1>0, <1>1, <1>2 DEF TypeOK, CallSound, Goto, OutcomeSound
  <2> QED  BY <1>0, <1>2, <2>1, <2>2, CallFrame DEF TypeOK, Goto
<1>3. CASE /\ c # None /\ CacheKey(host[g], c) \in DOMAIN verifyCache
           /\ outcome' = [outcome EXCEPT ![g] = verifyCache[CacheKey(host[g], c)]]
           /\ Goto(g, "done") /\ UNCHANGED verifyCache
  <2> DEFINE o == verifyCache[<<host[g], c>>]
  <2>1. o \in TrustOutcome /\ OutcomeSound(host[g], c, o)
    BY <1>0, <1>3 DEF TypeOK, CacheSound, CacheKey
  <2>2. outcome'[g] = o /\ peer'[g] = c /\ host'[g] = host[g] /\ pc'[g] = "done"
    BY <1>0, <1>3 DEF TypeOK, Goto, CacheKey
  <2>3. TypeOK'
    BY <1>0, <1>1, <1>3, <2>1 DEF TypeOK, Goto, world, CacheKey
  <2>4. OutcomeSound(host[g], peer[g], outcome[g])'
    BY <1>0, <2>1, <2>2 DEF OutcomeSound, BadgeSound, world, level, TrustLevel,
                            ResolveIdentityHost
  <2>5. CallSound(g)'
    BY <2>2, <2>4 DEF CallSound
  <2> QED  BY <1>0, <1>3, <2>3, <2>5, CallFrame DEF TypeOK, Goto
<1>4. CASE level # PolicyNone /\ FirstAnswer(g, c)
  <2> DEFINE o == [outcome[g] EXCEPT !.caChainValid = c # None]
  <2>1. /\ o \in TrustOutcome /\ o.achieved = PolicyBasic
        /\ o.discovered /\ (c # None => o.caChainValid)
    <3>1. outcome[g].achieved = PolicyBasic /\ outcome[g].discovered
      BY <1>0, <1>4 DEF CallSound
    <3>2. (c # None) \in BOOLEAN
      OBVIOUS
    <3> QED  BY <1>0, <3>1, <3>2 DEF TrustOutcome
  <2>2. CASE level >= PolicyEnhanced /\ c # None
    <3>1. /\ Goto(g, "badge") /\ outcome' = [outcome EXCEPT ![g] = o]
          /\ UNCHANGED verifyCache
      BY <1>4, <2>2 DEF FirstAnswer
    <3>2. TypeOK'
      BY <1>0, <1>1, <2>1, <2>2, <3>1 DEF TypeOK, Goto, world
    <3>3. outcome'[g] = o /\ peer'[g] = c /\ pc'[g] = "badge"
      BY <1>0, <3>1 DEF TypeOK, Goto
    <3>4. CallSound(g)'
      BY <1>1, <2>1, <2>2, <3>3 DEF CallSound
    <3> QED  BY <1>0, <3>1, <3>2, <3>4, CallFrame DEF TypeOK, Goto
  <2>3. CASE ~(level >= PolicyEnhanced /\ c # None)
    <3>1. Conclude(g, c, o)
      BY <1>4, <2>3 DEF FirstAnswer
    <3>2. o.achieved >= level => OutcomeSound(host[g], c, o)
      BY <1>1, <2>1 DEF OutcomeSound, Level
    <3> HIDE DEF o
    <3> QED  BY <1>0, <2>1, <3>1, <3>2, ConcludeKeeps
  <2> QED  BY <2>2, <2>3
<1> QED  BY <1>2, <1>3, <1>4 DEF Answered

LEMMA BadgeVerifiedKeeps ==
    ASSUME IInv, NEW g \in Caller, BadgeVerified(g)
    PROVE  IInv'
<1> DEFINE o == [outcome[g] EXCEPT !.badge = TRUE, !.achieved = PolicyEnhanced, !.at = now]
<1>0. /\ TypeOK /\ CallSound(g) /\ pc[g] = "badge" /\ host[g] \in Host /\ peer[g] \in Cert
      /\ UNCHANGED <<world, host, peer>> /\ outcome[g] \in TrustOutcome
      /\ BadgeMaySucceed(ResolveIdentityHost(host[g]), peer[g])
  BY DEF IInv, TypeOK, BadgeVerified
<1>1. level' = level /\ level \in Level
  BY <1>0, SameWorld, LevelType DEF TypeOK
<1>2. /\ o \in TrustOutcome /\ o.badge /\ o.at = now /\ o.discovered /\ o.caChainValid
  BY <1>0 DEF TrustOutcome, CallSound, TypeOK, Level
<1>3. BadgeSound(host[g], peer[g], o)
  BY <1>0, <1>2 DEF BadgeSound, BadgeMaySucceed, TypeOK
<1>4. CASE level >= PolicyAdvanced
  <2>1. Goto(g, "dane") /\ outcome' = [outcome EXCEPT ![g] = o] /\ UNCHANGED verifyCache
    BY <1>4 DEF BadgeVerified
  <2>2. TypeOK'
    BY <1>0, <1>1, <1>2, <2>1 DEF TypeOK, Goto, world
  <2>3. outcome'[g] = o /\ peer'[g] = peer[g] /\ host'[g] = host[g] /\ pc'[g] = "dane"
    BY <1>0, <2>1 DEF TypeOK, Goto
  <2>4. BadgeSound(host[g], peer[g], outcome[g])'
    BY <1>0, <1>3, <2>3 DEF BadgeSound, world, ResolveIdentityHost
  <2>5. CallSound(g)'
    BY <1>1, <1>2, <1>4, <2>3, <2>4 DEF CallSound
  <2> QED  BY <1>0, <2>1, <2>2, <2>5, CallFrame DEF TypeOK, Goto
<1>5. CASE ~(level >= PolicyAdvanced)
  <2>1. Conclude(g, peer[g], o)
    BY <1>5 DEF BadgeVerified
  <2>2. OutcomeSound(host[g], peer[g], o)
    BY <1>3, <1>5 DEF OutcomeSound
  <2>3. peer' = [peer EXCEPT ![g] = peer[g]]
    BY <1>0 DEF TypeOK
  <2> HIDE DEF o
  <2> QED  BY <1>0, <1>2, <2>1, <2>2, <2>3, ConcludeKeeps
<1> QED  BY <1>4, <1>5

LEMMA DANEVerifiedKeeps ==
    ASSUME IInv, NEW g \in Caller, DANEVerified(g)
    PROVE  IInv'
<1> DEFINE o == [outcome[g] EXCEPT !.dane = TRUE, !.achieved = PolicyAdvanced]
<1>0. /\ TypeOK /\ CallSound(g) /\ pc[g] = "dane" /\ host[g] \in Host /\ peer[g] \in Cert
      /\ UNCHANGED <<world, host, peer>> /\ outcome[g] \in TrustOutcome
      /\ Conclude(g, peer[g], o)
  BY DEF IInv, TypeOK, DANEVerified
<1>1. o \in TrustOutcome /\ o.dane
  BY <1>0 DEF TrustOutcome, Level
<1>2. BadgeSound(host[g], peer[g], o)
  BY <1>0 DEF BadgeSound, CallSound, TrustOutcome
<1>3. OutcomeSound(host[g], peer[g], o)
  BY <1>1, <1>2 DEF OutcomeSound
<1>4. peer' = [peer EXCEPT ![g] = peer[g]]
  BY <1>0 DEF TypeOK
<1> HIDE DEF o
<1> QED  BY <1>0, <1>1, <1>3, <1>4, ConcludeKeeps

\* Do, Discovered and Return change one call only.
LEMMA PlainStepKeeps ==
    ASSUME IInv, NEW g \in Caller,
           (\E h \in Host : Do(g, h)) \/ Discovered(g) \/ Return(g)
    PROVE  IInv'
<1> USE DEF Goto
<1>0. TypeOK /\ CallSound(g) /\ UNCHANGED <<world, verifyCache>>
  BY DEF IInv, Do, Discovered, Return
<1>1. level' = level /\ level \in Level
  BY <1>0, SameWorld, LevelType DEF TypeOK
<1>2. CASE \E h \in Host : Do(g, h)
  <2>1. TypeOK'
    BY <1>0, <1>1, <1>2 DEF Do, TypeOK, world
  <2>2. CallSound(g)'
    BY <1>0, <1>1, <1>2 DEF Do, TypeOK, CallSound
  <2> QED  BY <1>0, <1>2, <2>1, <2>2, CallFrame DEF Do, TypeOK
<1>3. CASE Discovered(g)
  <2>1. TypeOK'
    BY <1>0, <1>1, <1>3 DEF Discovered, TypeOK, world, TrustOutcome
  <2>2. CallSound(g)'
    BY <1>0, <1>1, <1>3 DEF Discovered, TypeOK, CallSound, TrustOutcome
  <2> QED  BY <1>0, <1>3, <2>1, <2>2, CallFrame DEF Discovered, TypeOK
<1>4. CASE Return(g)
  <2>1. NoOutcome \in TrustOutcome
    BY DEF NoOutcome, TrustOutcome, Level
  <2>2. TypeOK'
    BY <1>0, <1>1, <1>4, <2>1 DEF Return, TypeOK, world
  <2>3. CallSound(g)'
    BY <1>0, <1>4 DEF Return, TypeOK, CallSound, NoOutcome
  <2> QED  BY <1>0, <1>4, <2>2, <2>3, CallFrame DEF Return, TypeOK
<1> QED  BY <1>2, <1>3, <1>4

\* The passing of time and the end of a record leave what was sound sound: the badge
\* was verified before.
LEMMA WorldKeeps ==
    ASSUME IInv, Tick \/ \E h \in Host : EndRecord(h)
    PROVE  IInv'
<1>0. /\ TypeOK /\ CacheSound /\ \A g \in Caller : CallSound(g)
      /\ UNCHANGED <<options, verifyCache, pc, host, peer, outcome>>
  BY DEF IInv, Tick, EndRecord
<1>1. level' = level /\ level \in Level
      /\ \A h : ResolveIdentityHost(h)' = ResolveIdentityHost(h)
  BY <1>0, LevelType DEF TypeOK, level, TrustLevel, ResolveIdentityHost
<1>2. TypeOK'
  BY <1>0, <1>1 DEF TypeOK, Tick, EndRecord
<1>3. now' \in Nat /\ now \in Nat /\ now <= now'
      /\ \A h \in Host : endedAt'[h] = endedAt[h] \/ endedAt'[h] = now
  BY <1>0 DEF TypeOK, Tick, EndRecord
<1>4. ASSUME NEW h \in Host, NEW c, NEW o, BadgeSound(h, c, o)
      PROVE  BadgeSound(h, c, o)'
  <2>1. ResolveIdentityHost(h) \in Host
    BY <1>0, LevelType DEF TypeOK
  <2> QED  BY <1>1, <1>3, <1>4, <2>1, ClientConstants DEF BadgeSound
<1>5. ASSUME NEW h \in Host, NEW c, NEW o, OutcomeSound(h, c, o)
      PROVE  OutcomeSound(h, c, o)'
  BY <1>1, <1>4, <1>5 DEF OutcomeSound
<1>6. CacheSound'
  <2> SUFFICES ASSUME NEW h \in Host, NEW c \in Cert, <<h, c>> \in DOMAIN verifyCache'
               PROVE  OutcomeSound(h, c, verifyCache[<<h, c>>])'
    BY DEF CacheSound
  <2>1. PICK o : o = verifyCache[<<h, c>>]
    OBVIOUS
  <2>2. OutcomeSound(h, c, o)'
    BY <1>0, <1>5, <2>1 DEF CacheSound
  <2> QED  BY <1>0, <2>1, <2>2 DEF OutcomeSound, BadgeSound
<1>7. ASSUME NEW g \in Caller PROVE CallSound(g)'
  <2>1. PICK h, c, o : h = host[g] /\ c = peer[g] /\ o = outcome[g]
    OBVIOUS
  <2>2. pc[g] = "dane" => BadgeSound(h, c, o)'
    BY <1>0, <1>4, <2>1 DEF CallSound, TypeOK
  <2>3. pc[g] = "done" => OutcomeSound(h, c, o)'
    BY <1>0, <1>5, <2>1 DEF CallSound, TypeOK
  <2>4. pc[g] = "dane" => BadgeSound(host[g], peer[g], outcome[g])'
    BY <1>0, <2>1, <2>2 DEF BadgeSound
  <2>5. pc[g] = "done" => OutcomeSound(host[g], peer[g], outcome[g])'
    BY <1>0, <2>1, <2>3 DEF OutcomeSound, BadgeSound
  <2>6. CallSound(g)
    BY <1>0
  <2> QED  BY <1>0, <1>1, <2>4, <2>5, <2>6 DEF CallSound
<1> QED  BY <1>2, <1>6, <1>7 DEF IInv

LEMMA StutterKeeps == ASSUME IInv, UNCHANGED vars PROVE IInv'
<1>1. UNCHANGED world /\ TypeOK'
  BY SameWorld DEF IInv, TypeOK, vars, world
<1>2. \A g \in Caller : CallSound(g)'
  <2> SUFFICES ASSUME NEW g \in Caller PROVE CallSound(g)'
    OBVIOUS
  <2>1. CallSound(g)
    BY DEF IInv
  <2> QED  BY <1>1, <2>1, SameWorld DEF CallSound, vars
<1>3. CacheSound'
  BY <1>1, SameWorld DEF IInv, CacheSound, vars
<1> QED  BY <1>1, <1>2, <1>3 DEF IInv

LEMMA StepIInv == IInv /\ [Next]_vars => IInv'
<1> SUFFICES ASSUME IInv, [Next]_vars PROVE IInv'
  OBVIOUS
<1>1. ASSUME NEW g \in Caller, NotDiscovered(g) \/ RequestFails(g) \/ BadgeFails(g) \/ DANEFails(g)
      PROVE  IInv'
  <2>1. /\ Goto(g, "failed") /\ UNCHANGED <<world, verifyCache, host, peer, outcome>>
        /\ pc[g] # "idle"
    BY <1>1 DEF NotDiscovered, RequestFails, BadgeFails, DANEFails
  <2>2. host[g] \in Host
    BY <2>1 DEF IInv, TypeOK
  <2> QED  BY <2>1, <2>2, FailKeeps
<1>2. ASSUME NEW g \in Caller, DoStep(g) PROVE IInv'
  BY <1>1, <1>2, PlainStepKeeps, AnsweredKeeps, BadgeVerifiedKeeps, DANEVerifiedKeeps DEF DoStep
<1> QED  BY <1>2, PlainStepKeeps, WorldKeeps, StutterKeeps DEF Next

LEMMA SpecIInv == Spec => []IInv
  BY InitIInv, StepIInv, PTL DEF Spec

-----------------------------------------------------------------------------
(* The theorems.                                                           *)

\* Every call of Do is well formed at the place it has reached, and no outcome below
\* the level of the client is ever cached.
THEOREM TypeCorrect == Spec => []TypeOK
<1>1. IInv => TypeOK
  BY DEF IInv
<1> QED  BY <1>1, SpecIInv, PTL

\* A response above PolicyBasic comes from a peer whose certificate is in the record
\* of the agent, with every check of the level made for that host and certificate,
\* by this call of Do or by an earlier one.
THEOREM ResponsesAreVouchedFor == Spec => []ResponseIsVouchedFor
<1>1. IInv => ResponseIsVouchedFor
  BY LevelType DEF IInv, CallSound, OutcomeSound, BadgeSound, ResponseIsVouchedFor, Delivered,
                   TypeOK
<1> QED  BY <1>1, SpecIInv, PTL

\* verifyCache prolongs what was verified while the record was live, never what was not.
THEOREM CacheGrantsNothing == Spec => []VerifiedWhileLive
<1>1. IInv => VerifiedWhileLive
  <2> SUFFICES ASSUME IInv, NEW g \in Caller, Delivered(g),
                      endedAt[ResolveIdentityHost(host[g])] # None
               PROVE  /\ outcome[g].at # None
                      /\ outcome[g].at <= endedAt[ResolveIdentityHost(host[g])] + BadgeAge
    BY DEF VerifiedWhileLive
  <2>1. BadgeSound(host[g], peer[g], outcome[g])
    BY DEF IInv, CallSound, OutcomeSound, Delivered
  <2> QED  BY <2>1, ClientConstants DEF BadgeSound
<1> QED  BY <1>1, SpecIInv, PTL
=============================================================================
