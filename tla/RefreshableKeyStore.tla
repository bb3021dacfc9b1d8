------------------------- MODULE RefreshableKeyStore -------------------------
(***************************************************************************)
(* The root keys of the transparency service                               *)
(* (verify/scitt/refreshable_key_store.go, root_keys.go): an immutable      *)
(* snapshot of trusted keys that on-demand callers, a background goroutine   *)
(* and direct calls of DoRefresh replace by a merged one.                    *)
(*                                                                         *)
(* RefreshIfCooldownElapsed reads lastRefreshed under the read lock,         *)
(* compares it with the clock after the unlock, waits for refreshGate and    *)
(* does both again; DoRefresh fetches without a lock and merges under the    *)
(* write lock.  The background goroutine does not take the gate.             *)
(***************************************************************************)
EXTENDS Integers, Sequences

CONSTANTS
    Caller,      \* goroutines that call RefreshIfCooldownElapsed
    Background,  \* the goroutine of StartBackgroundRefresh
    Kid,         \* 4-byte key IDs
    KeyName,     \* key names; a name and a kid identify a TrustedKey
    Unparseable, \* a key string that ParseC2SPKey refuses
    InitialKeys, \* the keys the store is created with
    Answers,     \* the key lists FetchRootKeys may return
    Cooldown,    \* the minimum interval between on-demand refreshes
    MaxTime,     \* bound of the model: the clock stops here
    None         \* nil

TrustedKey == [kid: Kid, name: KeyName]

\* A KeyStore: map[kid]TrustedKey.
IsKeyStore(s) ==
    /\ DOMAIN s \subseteq Kid
    /\ s = [kid \in DOMAIN s |-> s[kid]]
    /\ \A kid \in DOMAIN s : s[kid] \in TrustedKey /\ s[kid].kid = kid

ASSUME KeyStoreConstants ==
    /\ Background \notin Caller
    /\ None \notin Caller
    /\ None \notin Nat
    /\ Unparseable \notin TrustedKey
    /\ \A ks \in Answers : ks \in Seq(TrustedKey \cup {Unparseable})
    /\ IsKeyStore(InitialKeys)
    /\ Cooldown \in Nat
    /\ MaxTime \in Nat

VARIABLES
    now,            \* the clock
    static,         \* client == nil
    snapshot,       \* the current KeyStore
    lastRefreshed,  \* when the last successful refresh was merged, or None
    refreshGate,    \* who holds the mutex, or None
    pc,             \* where each goroutine is
    lr,             \* the caller's copy of lastRefreshed, None once it has been used
    start,          \* history: when the caller's DoRefresh began
    keys,           \* the answer DoRefresh has not merged yet
    result,         \* what RefreshIfCooldownElapsed returns
    lastOnDemand    \* history: when an on-demand refresh last succeeded

shared == <<static, snapshot, lastRefreshed, refreshGate>>
vars == <<now, static, snapshot, lastRefreshed, refreshGate, pc, lr, start, keys,
          result, lastOnDemand>>

Process == Caller \cup {Background}

-----------------------------------------------------------------------------
(* KeyStore.MergeFrom                                                      *)

\* ParseC2SPKey accepts the key string: name, key ID and an EC key that agree.
Parses(key) == key # Unparseable

Kids(ks) == {ks[i].kid : i \in {j \in DOMAIN ks : Parses(ks[j])}}

\* The first well-formed key of the list with this kid.
FirstWith(ks, kid) ==
    ks[CHOOSE i \in DOMAIN ks :
         /\ Parses(ks[i]) /\ ks[i].kid = kid
         /\ \A j \in DOMAIN ks : Parses(ks[j]) /\ ks[j].kid = kid => i <= j]

\* Faulty variant: a key of the answer replaces a known one.
MergeFromOverwriting(s, ks) ==
    [kid \in DOMAIN s \cup Kids(ks) |->
        IF kid \in Kids(ks) THEN FirstWith(ks, kid) ELSE s[kid]]

\* Known keys win over new ones, earlier keys over later ones; strings that do
\* not parse are skipped.
MergeFrom(s, ks) ==
    [kid \in DOMAIN s \cup Kids(ks) |->
        IF kid \in DOMAIN s THEN s[kid] ELSE FirstWith(ks, kid)]

-----------------------------------------------------------------------------
(* RefreshIfCooldownElapsed, up to the fetch.                              *)

Init ==
    /\ now = 0
    /\ static \in BOOLEAN
    /\ snapshot = InitialKeys
    /\ lastRefreshed = None
    /\ refreshGate = None
    /\ pc = [p \in Process |-> IF p = Background THEN "off" ELSE "idle"]
    /\ lr = [c \in Caller |-> None]
    /\ start = [c \in Caller |-> 0]
    /\ keys = [p \in Process |-> <<>>]
    /\ result = [c \in Caller |-> None]
    /\ lastOnDemand = None

Goto(p, place) == pc' = [pc EXCEPT ![p] = place]

WithinCooldown(t) == t # None /\ now - t < Cooldown

\* The call begins: a static store returns at once, otherwise lastRefreshed is
\* read.
RefreshIfCooldownElapsed(c) ==
    /\ pc[c] = "idle"
    /\ IF static THEN Goto(c, "done") ELSE Goto(c, "check")
    /\ lr' = [lr EXCEPT ![c] = IF static THEN @ ELSE lastRefreshed]
    /\ result' = [result EXCEPT ![c] = FALSE]
    /\ UNCHANGED <<now, shared, start, keys, lastOnDemand>>

\* The check without the gate, on a value that may be stale by now.
QuickCheck(c) ==
    /\ pc[c] = "check"
    /\ Goto(c, IF WithinCooldown(lr[c]) THEN "done" ELSE "gate")
    /\ lr' = [lr EXCEPT ![c] = None]
    /\ UNCHANGED <<now, shared, start, keys, result, lastOnDemand>>

\* refreshGate.Lock() and the second read of lastRefreshed.
AcquireGate(c) ==
    /\ pc[c] = "gate"
    /\ refreshGate = None
    /\ refreshGate' = c
    /\ lr' = [lr EXCEPT ![c] = lastRefreshed]
    /\ Goto(c, "recheck")
    /\ UNCHANGED <<now, static, snapshot, lastRefreshed, start, keys, result, lastOnDemand>>

\* Faulty variants: the check under the gate is forgotten; or it returns without
\* unlocking the gate.
RecheckForgotten(c) ==
    /\ pc[c] = "recheck"
    /\ Goto(c, "fetch")
    /\ start' = [start EXCEPT ![c] = now]
    /\ lr' = [lr EXCEPT ![c] = None]
    /\ UNCHANGED <<now, shared, keys, result, lastOnDemand>>

RecheckKeepsGate(c) ==
    /\ pc[c] = "recheck"
    /\ Goto(c, IF WithinCooldown(lr[c]) THEN "done" ELSE "fetch")
    /\ start' = [start EXCEPT ![c] = IF WithinCooldown(lr[c]) THEN @ ELSE now]
    /\ lr' = [lr EXCEPT ![c] = None]
    /\ UNCHANGED <<now, shared, keys, result, lastOnDemand>>

\* The check under the gate; a refresh begins unless another has just happened.
Recheck(c) ==
    /\ pc[c] = "recheck"
    /\ IF WithinCooldown(lr[c])
         THEN /\ Goto(c, "done")
              /\ refreshGate' = None
              /\ UNCHANGED start
         ELSE /\ Goto(c, "fetch")
              /\ start' = [start EXCEPT ![c] = now]
              /\ UNCHANGED refreshGate
    /\ lr' = [lr EXCEPT ![c] = None]
    /\ UNCHANGED <<now, static, snapshot, lastRefreshed, keys, result, lastOnDemand>>

Return(c) ==
    /\ pc[c] = "done"
    /\ Goto(c, "idle")
    /\ result' = [result EXCEPT ![c] = None]
    /\ UNCHANGED <<now, shared, lr, start, keys, lastOnDemand>>

-----------------------------------------------------------------------------
(* DoRefresh, in a caller that holds the gate or in the background.         *)

\* start of a process that is over with its refresh.
Ended(p) == [c \in Caller |-> IF c = p THEN 0 ELSE start[c]]

Release(p) == refreshGate' = IF p \in Caller THEN None ELSE refreshGate

After(p) == IF p = Background THEN "waiting" ELSE "done"

FetchRootKeys(p, ks) ==
    /\ pc[p] = "fetch"
    /\ Goto(p, "merge")
    /\ keys' = [keys EXCEPT ![p] = ks]
    /\ UNCHANGED <<now, shared, lr, start, result, lastOnDemand>>

\* The fetch fails: the snapshot and lastRefreshed stay as they are.
FetchFails(p) ==
    /\ pc[p] = "fetch"
    /\ Goto(p, After(p))
    /\ Release(p)
    /\ start' = Ended(p)
    /\ UNCHANGED <<now, static, snapshot, lastRefreshed, lr, keys, result, lastOnDemand>>

\* The answer is merged into the snapshot of this moment, under the write lock.
Merge(p) ==
    /\ pc[p] = "merge"
    /\ snapshot' = MergeFrom(snapshot, keys[p])
    /\ lastRefreshed' = now
    /\ keys' = [keys EXCEPT ![p] = <<>>]
    /\ Goto(p, After(p))
    /\ Release(p)
    /\ IF p = Background
         THEN UNCHANGED <<result, lastOnDemand>>
         ELSE result' = [result EXCEPT ![p] = TRUE] /\ lastOnDemand' = now
    /\ start' = Ended(p)
    /\ UNCHANGED <<now, static, lr>>

-----------------------------------------------------------------------------
(* The background goroutine.                                               *)

StartBackgroundRefresh ==
    /\ pc[Background] = "off"
    /\ Goto(Background, "waiting")
    /\ UNCHANGED <<now, shared, lr, start, keys, result, lastOnDemand>>

TickerFires ==
    /\ pc[Background] = "waiting"
    /\ ~static
    /\ Goto(Background, "fetch")
    /\ UNCHANGED <<now, shared, lr, start, keys, result, lastOnDemand>>

CancelBackground ==
    /\ pc[Background] = "waiting"
    /\ Goto(Background, "stopped")
    /\ UNCHANGED <<now, shared, lr, start, keys, result, lastOnDemand>>

Tick ==
    /\ now < MaxTime
    /\ now' = now + 1
    /\ UNCHANGED <<shared, pc, lr, start, keys, result, lastOnDemand>>

DoRefreshStep(p) ==
    \/ \E ks \in Answers : FetchRootKeys(p, ks)
    \/ FetchFails(p)
    \/ Merge(p)

CallerStep(c) ==
    \/ QuickCheck(c)
    \/ Recheck(c)
    \/ DoRefreshStep(c)

Next ==
    \/ Tick
    \/ \E c \in Caller :
          RefreshIfCooldownElapsed(c) \/ AcquireGate(c) \/ CallerStep(c) \/ Return(c)
    \/ StartBackgroundRefresh
    \/ TickerFires
    \/ DoRefreshStep(Background)
    \/ CancelBackground

Spec == Init /\ [][Next]_vars

\* A fetch ends, by its answer or its timeout, and a sync.Mutex hands itself to a
\* waiter that has waited long (its starvation mode).
FairSpec ==
    Spec /\ \A c \in Caller : WF_vars(CallerStep(c)) /\ SF_vars(AcquireGate(c))

-----------------------------------------------------------------------------
(* Properties.                                                             *)

\* The snapshot is always a well-formed key store, and the gate is held by
\* exactly the caller that is past it.
TypeOK ==
    /\ now \in Nat
    /\ static \in BOOLEAN
    /\ IsKeyStore(snapshot)
    /\ lastRefreshed \in Nat \cup {None}
    /\ refreshGate \in Caller \cup {None}
    /\ pc \in [Process -> {"idle", "check", "gate", "recheck", "fetch", "merge", "done",
                           "off", "waiting", "stopped"}]
    /\ lr \in [Caller -> Nat \cup {None}]
    /\ start \in [Caller -> Nat]
    /\ keys \in [Process -> Answers \cup {<<>>}]
    /\ result \in [Caller -> BOOLEAN \cup {None}]
    /\ lastOnDemand \in Nat \cup {None}
    /\ \A c \in Caller : pc[c] \in {"recheck", "fetch", "merge"} <=> refreshGate = c

\* A trusted key is never removed or replaced, although two refreshes merge
\* answers fetched at different times: the first key seen for a kid is pinned.
KeysArePinned ==
    [][\A kid \in DOMAIN snapshot :
          kid \in DOMAIN snapshot' /\ snapshot'[kid] = snapshot[kid]]_vars

\* The time since time t of the past, if it is a time, is at least Cooldown.
Elapsed(t, from) == t = None \/ from - t >= Cooldown

\* An on-demand refresh begins only Cooldown after the last one that succeeded,
\* although the checks use a copy of lastRefreshed that may be stale.
OnDemandSpaced ==
    \A c \in Caller :
        pc[c] \in {"fetch", "merge"} => Elapsed(lastOnDemand, start[c])

\* Every call of RefreshIfCooldownElapsed returns, however the fetches end.
CallsReturn == \A c \in Caller : pc[c] # "idle" ~> pc[c] = "done"
=============================================================================
