---------------------------- MODULE HeaderSupplier ----------------------------
(***************************************************************************)
(* The agent side of SCITT (verify/scitt/supplier.go): a HeaderSupplier      *)
(* fetches the agent's receipt and status token, verifies them and hands     *)
(* them out as headers.  CurrentHeaders initialises it lazily under          *)
(* initGate, RefreshNow and the auto-refresh goroutine refresh it without    *)
(* the gate, and each touches the shared fields in short critical sections   *)
(* of s.mu with the requests in between.                                     *)
(*                                                                         *)
(* A token is abstracted to its exp claim and to whether its status is       *)
(* terminal (VerifyStatusTokenAt refuses such a token); a receipt to its      *)
(* presence.                                                                 *)
(***************************************************************************)
EXTENDS Integers

CONSTANTS
    Caller,     \* goroutines that call CurrentHeaders and RefreshNow
    Refresher,  \* the goroutine of StartAutoRefresh
    Lifetime,   \* lifetimes of the tokens the log issues
    ClockSkew,  \* clockSkew, in the model's unit of time
    MaxTime,    \* bound of the model: the clock stops here
    None        \* nil

Token == [exp: Nat, terminal: BOOLEAN]

ASSUME SupplierConstants ==
    /\ Lifetime \subseteq Nat
    /\ ClockSkew \in Nat
    /\ MaxTime \in Nat
    /\ Refresher \notin Caller
    /\ None \notin Caller \cup Nat \cup Token

VARIABLES
    now,          \* the clock
    revokedAt,    \* when the agent was revoked in the log, or None (external)
    receipt,      \* whether a receipt is cached
    statusToken,  \* the cached token
    tokenExp,     \* its exp claim, cached beside it
    initialized,
    lastError,    \* whether lastError is set
    initGate,     \* who holds the mutex, or None
    pc,           \* where each goroutine is
    fetched,      \* the token its fetchAndVerify has received
    local,        \* the copies CurrentHeaders has made
    sent          \* the headers it returns

Process == Caller \cup {Refresher}

cached == <<receipt, statusToken, tokenExp>>
world == <<now, revokedAt>>
vars == <<now, revokedAt, receipt, statusToken, tokenExp, initialized, lastError,
          initGate, pc, fetched, local, sent>>

NoCopy == [receipt |-> FALSE, token |-> None, exp |-> None]

Goto(p, place) == pc' = [pc EXCEPT ![p] = place]

Init ==
    /\ now = 0
    /\ revokedAt = None
    /\ receipt = FALSE
    /\ statusToken = None
    /\ tokenExp = None
    /\ initialized = FALSE
    /\ lastError = FALSE
    /\ initGate = None
    /\ pc = [p \in Process |-> IF p = Refresher THEN "off" ELSE "idle"]
    /\ fetched = [p \in Process |-> None]
    /\ local = [c \in Caller |-> NoCopy]
    /\ sent = [c \in Caller |-> None]

-----------------------------------------------------------------------------
(* The log (external) and the clock.                                       *)

Tick ==
    /\ now < MaxTime
    /\ now' = now + 1
    /\ UNCHANGED <<revokedAt, cached, initialized, lastError, initGate, pc, fetched,
                   local, sent>>

Revoke ==
    /\ revokedAt = None
    /\ revokedAt' = now
    /\ UNCHANGED <<now, cached, initialized, lastError, initGate, pc, fetched, local,
                   sent>>

\* The token the log issues now, for l units of time.
Issue(l) == [exp |-> now + l, terminal |-> revokedAt # None]

-----------------------------------------------------------------------------
(* fetchAndVerify, in any goroutine p.                                     *)

\* Where a goroutine goes after fetchAndVerify has failed or succeeded: back to
\* the loop, to initOnce if it runs under the gate, or out of RefreshNow.
AfterFailure(p) ==
    IF p = Refresher THEN "waiting" ELSE IF initGate = p THEN "initFailed" ELSE "idle"

AfterSuccess(p) ==
    IF p = Refresher THEN "autoDone" ELSE IF initGate = p THEN "initDone" ELSE "idle"

\* recordError; the cached artifacts stay.
FetchOrVerifyFails(p) ==
    /\ pc[p] \in {"fetch", "verify"}
    /\ lastError' = TRUE
    /\ fetched' = [fetched EXCEPT ![p] = None]
    /\ Goto(p, AfterFailure(p))
    /\ UNCHANGED <<world, cached, initialized, initGate, local, sent>>

\* FetchReceipt and then FetchStatusToken, whose answer is the token of the moment.
\* Nothing shared is touched between the two requests.
FetchArtifacts(p, l) ==
    /\ pc[p] = "fetch"
    /\ fetched' = [fetched EXCEPT ![p] = Issue(l)]
    /\ Goto(p, "verify")
    /\ UNCHANGED <<world, cached, initialized, lastError, initGate, local, sent>>

\* Faulty variant: a token of any status is accepted.
VerifyStatusTokenAnyStatus(t) == now <= t.exp + ClockSkew

\* VerifyStatusTokenAt: not expired by more than the skew, status not terminal.
VerifyStatusTokenAt(t) == now <= t.exp + ClockSkew /\ ~t.terminal

Verify(p) ==
    /\ pc[p] = "verify"
    /\ VerifyStatusTokenAt(fetched[p])
    /\ Goto(p, "store")
    /\ UNCHANGED <<world, cached, initialized, lastError, initGate, fetched, local, sent>>

\* The verified artifacts are cached in one critical section, whatever has been
\* cached since the token was fetched.
Store(p) ==
    /\ pc[p] = "store"
    /\ receipt' = TRUE
    /\ statusToken' = fetched[p]
    /\ tokenExp' = fetched[p].exp
    /\ lastError' = FALSE
    /\ fetched' = [fetched EXCEPT ![p] = None]
    /\ Goto(p, AfterSuccess(p))
    /\ UNCHANGED <<world, initialized, initGate, local, sent>>

FetchAndVerify(p) ==
    \/ FetchOrVerifyFails(p)
    \/ \E l \in Lifetime : FetchArtifacts(p, l)
    \/ Verify(p)
    \/ Store(p)

-----------------------------------------------------------------------------
(* CurrentHeaders and initOnce.                                            *)

Copy == [receipt |-> receipt, token |-> statusToken, exp |-> tokenExp]

\* The first critical section: the fields are copied.
CurrentHeaders(c) ==
    /\ pc[c] = "idle"
    /\ local' = [local EXCEPT ![c] = Copy]
    /\ Goto(c, IF initialized THEN "build" ELSE "gate")
    /\ UNCHANGED <<world, cached, initialized, lastError, initGate, fetched, sent>>

\* Faulty variant: a caller that finds the supplier initialised returns from
\* initOnce without unlocking the gate.
InitOnceKeepsGate(c) ==
    /\ pc[c] = "gate"
    /\ initGate = None
    /\ initGate' = c
    /\ Goto(c, IF initialized THEN "reread" ELSE "fetch")
    /\ UNCHANGED <<world, cached, initialized, lastError, fetched, local, sent>>

\* initOnce takes the gate and looks again.
InitOnce(c) ==
    /\ pc[c] = "gate"
    /\ initGate = None
    /\ IF initialized
         THEN Goto(c, "reread") /\ UNCHANGED initGate
         ELSE Goto(c, "fetch") /\ initGate' = c
    /\ UNCHANGED <<world, cached, initialized, lastError, fetched, local, sent>>

\* Faulty variant: the supplier counts as initialised even if the fetch failed.
InitFailedButDone(c) ==
    /\ pc[c] = "initFailed"
    /\ lastError' = TRUE
    /\ initialized' = TRUE
    /\ initGate' = None
    /\ Goto(c, "reread")
    /\ UNCHANGED <<world, cached, fetched, local, sent>>

\* fetchAndVerify has failed: lastError is set once more.
InitFailed(c) ==
    /\ pc[c] = "initFailed"
    /\ lastError' = TRUE
    /\ initGate' = None
    /\ Goto(c, "reread")
    /\ UNCHANGED <<world, cached, initialized, fetched, local, sent>>

\* fetchAndVerify has succeeded: a critical section of its own says so.
InitDone(c) ==
    /\ pc[c] = "initDone"
    /\ initialized' = TRUE
    /\ lastError' = FALSE
    /\ initGate' = None
    /\ Goto(c, "reread")
    /\ UNCHANGED <<world, cached, fetched, local, sent>>

\* Faulty variant: the second read forgets the expiry.
RereadWithoutExp(c) ==
    /\ pc[c] = "reread"
    /\ local' = [local EXCEPT ![c].receipt = receipt, ![c].token = statusToken]
    /\ Goto(c, "build")
    /\ UNCHANGED <<world, cached, initialized, lastError, initGate, fetched, sent>>

Reread(c) ==
    /\ pc[c] = "reread"
    /\ local' = [local EXCEPT ![c] = Copy]
    /\ Goto(c, "build")
    /\ UNCHANGED <<world, cached, initialized, lastError, initGate, fetched, sent>>

\* The headers are built from the copies; a token that has expired by now is
\* left out.
BuildHeaders(c) ==
    LET l == local[c]
        expired == l.token # None /\ l.exp # None /\ now >= l.exp
    IN  /\ pc[c] = "build"
        /\ sent' = [sent EXCEPT ![c] = [receipt |-> l.receipt,
                                        token |-> IF expired THEN None ELSE l.token,
                                        at |-> now]]
        /\ Goto(c, "done")
        /\ UNCHANGED <<world, cached, initialized, lastError, initGate, fetched, local>>

Return(c) ==
    /\ pc[c] = "done"
    /\ Goto(c, "idle")
    /\ local' = [local EXCEPT ![c] = NoCopy]
    /\ sent' = [sent EXCEPT ![c] = None]
    /\ UNCHANGED <<world, cached, initialized, lastError, initGate, fetched>>

-----------------------------------------------------------------------------
(* RefreshNow and the auto-refresh loop.                                   *)

RefreshNow(c) ==
    /\ pc[c] = "idle"
    /\ Goto(c, "fetch")
    /\ UNCHANGED <<world, cached, initialized, lastError, initGate, fetched, local, sent>>

StartAutoRefresh ==
    /\ pc[Refresher] = "off"
    /\ Goto(Refresher, "waiting")
    /\ UNCHANGED <<world, cached, initialized, lastError, initGate, fetched, local, sent>>

\* time.After(interval), where the interval is computed from tokenExp and jittered
\* and at least ten seconds: some time later.
IntervalElapses ==
    /\ pc[Refresher] = "waiting"
    /\ Goto(Refresher, "fetch")
    /\ UNCHANGED <<world, cached, initialized, lastError, initGate, fetched, local, sent>>

AutoDone ==
    /\ pc[Refresher] = "autoDone"
    /\ initialized' = TRUE
    /\ Goto(Refresher, "waiting")
    /\ UNCHANGED <<world, cached, lastError, initGate, fetched, local, sent>>

CancelAutoRefresh ==
    /\ pc[Refresher] = "waiting"
    /\ Goto(Refresher, "off")
    /\ UNCHANGED <<world, cached, initialized, lastError, initGate, fetched, local, sent>>

CallerStep(c) ==
    \/ InitFailed(c)
    \/ InitDone(c)
    \/ Reread(c)
    \/ BuildHeaders(c)
    \/ FetchAndVerify(c)

Next ==
    \/ Tick
    \/ Revoke
    \/ \E c \in Caller :
          CurrentHeaders(c) \/ RefreshNow(c) \/ InitOnce(c) \/ CallerStep(c) \/ Return(c)
    \/ StartAutoRefresh
    \/ IntervalElapses
    \/ FetchAndVerify(Refresher)
    \/ AutoDone
    \/ CancelAutoRefresh

Spec == Init /\ [][Next]_vars

\* The requests of initOnce run under initTimeout, and a sync.Mutex that is
\* released again and again is handed to a waiter (its starvation mode).
FairSpec ==
    Spec /\ \A c \in Caller : WF_vars(CallerStep(c)) /\ SF_vars(InitOnce(c))

-----------------------------------------------------------------------------
(* Properties.                                                             *)

\* Cached fields and copies are well formed, and the gate is held only while its
\* holder is initialising, and throughout that.
TypeOK ==
    /\ now \in Nat
    /\ revokedAt \in Nat \cup {None}
    /\ receipt \in BOOLEAN
    /\ statusToken \in Token \cup {None}
    /\ tokenExp \in Nat \cup {None}
    /\ initialized \in BOOLEAN
    /\ lastError \in BOOLEAN
    /\ initGate \in Caller \cup {None}
    /\ pc \in [Process -> {"idle", "gate", "fetch", "verify", "store", "initFailed",
                           "initDone", "reread", "build", "done", "off", "waiting", "autoDone"}]
    /\ fetched \in [Process -> Token \cup {None}]
    /\ local \in [Caller -> [receipt: BOOLEAN, token: Token \cup {None}, exp: Nat \cup {None}]]
    /\ sent \in [Caller -> [receipt: BOOLEAN, token: Token \cup {None}, at: Nat] \cup {None}]
    /\ \A c \in Caller :
          /\ initGate = c =>
                pc[c] \in {"fetch", "verify", "store", "initFailed", "initDone"}
          /\ pc[c] \in {"initFailed", "initDone"} => initGate = c

Sends(c) == sent[c] # None /\ sent[c].token # None

\* A token goes out only before its own exp, although the expiry is checked on a
\* copy taken beside the token, in one of two places.
SentTokenUnexpired == \A c \in Caller : Sends(c) => sent[c].at < sent[c].token.exp

\* The agent of a token was not revoked when the token was issued: a revoked agent
\* stops presenting tokens once the last one issued before has expired.
RevokedTokenHorizon ==
    \A c \in Caller :
        Sends(c) /\ revokedAt # None =>
            \E l \in Lifetime : sent[c].at < revokedAt + l

\* Once initialised, the supplier has both artifacts: CurrentHeaders, which then
\* no longer fetches, has a receipt to send.
InitializedHasArtifacts == initialized => receipt /\ statusToken # None /\ tokenExp # None

\* A call of CurrentHeaders that waits to initialise the supplier returns
\* (supplier.go:147, "never blocks indefinitely"), whoever holds the gate and
\* however the fetches end.
CurrentHeadersReturns == \A c \in Caller : pc[c] = "gate" ~> pc[c] = "done"
=============================================================================
