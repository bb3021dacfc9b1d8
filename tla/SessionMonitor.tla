---------------------------- MODULE SessionMonitor ----------------------------
(***************************************************************************)
(* The monitor of long-lived connections (verify/session_monitor.go).  Watch *)
(* starts one goroutine per connection that looks the agent up in the DNS    *)
(* and in the transparency log at every tick of its own ticker, and calls    *)
(* onRevoked when the agent's status has become terminal.  A goroutine ends   *)
(* by its context, by the monitor's stopCh or after onRevoked; its select     *)
(* picks any branch that is ready.                                           *)
(***************************************************************************)
EXTENDS Integers, FiniteSets

CONSTANTS
    Session,  \* the calls of Watch: each starts at most one goroutine
    Fqdn,     \* host names
    Host,     \* [Session -> Fqdn], the fqdn argument of Watch
    NoSession \* nil

ASSUME MonitorConstants ==
    /\ Host \in [Session -> Fqdn]
    /\ NoSession \notin Session

VARIABLES
    sessions,   \* map[fqdn]*monitoredSession
    stopped,    \* the monitor is stopped and stopCh is closed
    where,      \* where the goroutine of each session is
    ticked,     \* sessions whose ticker channel holds a tick
    cancelled,  \* sessions whose context is done
    stopping,   \* sessions whose stop function has cancelled but not yet deleted
    revoked,    \* hosts whose agent has a terminal status in the log (external)
    reports     \* how often onRevoked was called for each session

monitorVars == <<sessions, stopped, where, ticked, cancelled, stopping, revoked, reports>>

Started(s) == where[s] \notin {"new", "refused"}

LoopGoes(s, place) == where' = [where EXCEPT ![s] = place]

MonitorInit ==
    /\ sessions = [f \in Fqdn |-> NoSession]
    /\ stopped = FALSE
    /\ where = [s \in Session |-> "new"]
    /\ ticked = {}
    /\ cancelled = {}
    /\ stopping = {}
    /\ revoked = {}
    /\ reports = [s \in Session |-> 0]

-----------------------------------------------------------------------------
(* The monitor's methods.                                                  *)

\* Watch registers the session under its host, over any other session of that
\* host.
Watch(s) ==
    /\ where[s] = "new"
    /\ IF stopped
         THEN LoopGoes(s, "refused") /\ UNCHANGED sessions
         ELSE /\ LoopGoes(s, "select")
              /\ sessions' = [sessions EXCEPT ![Host[s]] = s]
    /\ UNCHANGED <<stopped, ticked, cancelled, stopping, revoked, reports>>

\* The function Watch has returned cancels the context, if it is not done yet ...
StopFunc(s) ==
    /\ Started(s)
    /\ s \notin stopping
    /\ cancelled' = cancelled \cup {s}
    /\ stopping' = stopping \cup {s}
    /\ UNCHANGED <<sessions, stopped, where, ticked, revoked, reports>>

\* ... and then deletes whatever is registered under the host.
StopFuncDeletes(s) ==
    /\ s \in stopping
    /\ stopping' = stopping \ {s}
    /\ sessions' = [sessions EXCEPT ![Host[s]] = NoSession]
    /\ UNCHANGED <<stopped, where, ticked, cancelled, revoked, reports>>

\* The caller's own context ends.
ContextEnds(s) ==
    /\ Started(s)
    /\ s \notin cancelled
    /\ cancelled' = cancelled \cup {s}
    /\ UNCHANGED <<sessions, stopped, where, ticked, stopping, revoked, reports>>

\* Stop closes stopCh and cancels the registered sessions.
Stop ==
    /\ ~stopped
    /\ stopped' = TRUE
    /\ cancelled' = cancelled \cup {sessions[f] : f \in {g \in Fqdn : sessions[g] # NoSession}}
    /\ sessions' = [f \in Fqdn |-> NoSession]
    /\ UNCHANGED <<where, ticked, stopping, revoked, reports>>

-----------------------------------------------------------------------------
(* monitorLoop and recheck.                                                *)

\* The ticker's channel holds one tick; further ones are dropped.
TickerFires(s) ==
    /\ Started(s)
    /\ where[s] # "done"
    /\ ticked' = ticked \cup {s}
    /\ UNCHANGED <<sessions, stopped, where, cancelled, stopping, revoked, reports>>

Finish(s) ==
    /\ LoopGoes(s, "done")
    /\ ticked' = ticked \ {s}

\* Faulty variant: the loop does not listen to stopCh.
LoopEndsByContextOnly(s) ==
    /\ where[s] = "select"
    /\ s \in cancelled
    /\ Finish(s)
    /\ UNCHANGED <<sessions, stopped, cancelled, stopping, revoked, reports>>

\* The select takes ctx.Done() or stopCh.
LoopEnds(s) ==
    /\ where[s] = "select"
    /\ s \in cancelled \/ stopped
    /\ Finish(s)
    /\ UNCHANGED <<sessions, stopped, cancelled, stopping, revoked, reports>>

\* The select takes the tick, although another branch may be ready too.
LoopTicks(s) ==
    /\ where[s] = "select"
    /\ s \in ticked
    /\ ticked' = ticked \ {s}
    /\ LoopGoes(s, "dns")
    /\ UNCHANGED <<sessions, stopped, cancelled, stopping, revoked, reports>>

\* LookupATIDiscovery finds the agent's record.
LookupFinds(s) ==
    /\ where[s] = "dns"
    /\ LoopGoes(s, "fetch")
    /\ UNCHANGED <<sessions, stopped, ticked, cancelled, stopping, revoked, reports>>

\* The DNS lookup fails or finds nothing, or the log cannot be asked: the session
\* is left alone until the next tick.
RecheckInconclusive(s) ==
    /\ where[s] \in {"dns", "fetch"}
    /\ LoopGoes(s, "select")
    /\ UNCHANGED <<sessions, stopped, ticked, cancelled, stopping, revoked, reports>>

\* Faulty variant: the request runs under a context of its own.
FetchDetached(s) ==
    /\ where[s] = "fetch"
    /\ LoopGoes(s, IF Host[s] \in revoked THEN "report" ELSE "select")
    /\ UNCHANGED <<sessions, stopped, ticked, cancelled, stopping, revoked, reports>>

\* FetchTLResponse answers, which it does only under a live context.
FetchTLResponse(s) ==
    /\ where[s] = "fetch"
    /\ s \notin cancelled
    /\ LoopGoes(s, IF Host[s] \in revoked THEN "report" ELSE "select")
    /\ UNCHANGED <<sessions, stopped, ticked, cancelled, stopping, revoked, reports>>

\* Faulty variants: the loop goes on after onRevoked; or it ends without it.
OnRevokedGoesOn(s) ==
    /\ where[s] = "report"
    /\ reports' = [reports EXCEPT ![s] = @ + 1]
    /\ LoopGoes(s, "select")
    /\ UNCHANGED <<sessions, stopped, ticked, cancelled, stopping, revoked>>

OnRevokedForgotten(s) ==
    /\ where[s] = "report"
    /\ Finish(s)
    /\ UNCHANGED <<sessions, stopped, cancelled, stopping, revoked, reports>>

\* onRevoked is called, whatever has happened to the session since, and the loop
\* ends; the session stays registered.
OnRevoked(s) ==
    /\ where[s] = "report"
    /\ reports' = [reports EXCEPT ![s] = @ + 1]
    /\ Finish(s)
    /\ UNCHANGED <<sessions, stopped, cancelled, stopping, revoked>>

\* The log moves the agent of a host to a terminal status (external).
Revoke(f) ==
    /\ f \notin revoked
    /\ revoked' = revoked \cup {f}
    /\ UNCHANGED <<sessions, stopped, where, ticked, cancelled, stopping, reports>>

LoopStep(s) ==
    \/ LoopEnds(s)
    \/ LoopTicks(s)
    \/ LookupFinds(s)
    \/ RecheckInconclusive(s)
    \/ FetchTLResponse(s)
    \/ OnRevoked(s)

MonitorNext ==
    \/ Stop
    \/ \E f \in Fqdn : Revoke(f)
    \/ \E s \in Session :
          \/ Watch(s)
          \/ StopFunc(s)
          \/ StopFuncDeletes(s)
          \/ ContextEnds(s)
          \/ TickerFires(s)
          \/ LoopStep(s)

MonitorSpec == MonitorInit /\ [][MonitorNext]_monitorVars

\* The ticker keeps ticking and a goroutine keeps running; a select takes every
\* branch that is ready again and again; the DNS and the log answer again and
\* again (without that no revocation could be noticed).
FairMonitor ==
    /\ MonitorSpec
    /\ \A s \in Session :
          /\ WF_monitorVars(TickerFires(s))
          /\ WF_monitorVars(LoopStep(s))
          /\ SF_monitorVars(LoopEnds(s))
          /\ SF_monitorVars(LookupFinds(s))
          /\ SF_monitorVars(FetchTLResponse(s))

-----------------------------------------------------------------------------
(* Properties.                                                             *)

\* The registered sessions are started ones under their own host, and nothing is
\* registered once the monitor is stopped.
MonitorTypeOK ==
    /\ sessions \in [Fqdn -> Session \cup {NoSession}]
    /\ stopped \in BOOLEAN
    /\ where \in [Session -> {"new", "refused", "select", "dns", "fetch", "report", "done"}]
    /\ ticked \subseteq Session
    /\ cancelled \subseteq Session
    /\ stopping \subseteq cancelled
    /\ revoked \subseteq Fqdn
    /\ reports \in [Session -> Nat]
    /\ \A f \in Fqdn : sessions[f] # NoSession =>
          ~stopped /\ Started(sessions[f]) /\ Host[sessions[f]] = f

\* A session is reported at most once, only for an agent that the log has ended,
\* and its goroutine is gone afterwards.
ReportedOnce ==
    \A s \in Session :
        reports[s] # 0 => reports[s] = 1 /\ where[s] = "done" /\ Host[s] \in revoked

\* recheck hands the session's context to the log request: a session whose context
\* is done before that request is answered is never reported.
CancelledStaysQuiet ==
    \A s \in Session :
        [](s \in cancelled /\ where[s] \in {"select", "dns", "fetch"} => [](reports[s] = 0))

\* After Stop every goroutine ends, also one whose registration another session of
\* the same host has overwritten or deleted.
StopEndsEveryLoop == stopped ~> \A s \in Session : where[s] \in {"new", "refused", "done"}

\* A revocation is reported for every session that is watched on.
RevocationIsReported ==
    \A s \in Session :
        Host[s] \in revoked /\ Started(s) ~> reports[s] = 1 \/ s \in cancelled \/ stopped
=============================================================================
