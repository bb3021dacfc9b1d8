---------------------------- MODULE BadgePromise ----------------------------
(***************************************************************************)
(* What badge verification promises to the application, without caches,      *)
(* requests or failures: an agent is accepted while its record in the         *)
(* transparency log is live, and at most Horizon after the record has ended.  *)
(***************************************************************************)
EXTENDS Integers

CONSTANTS
    Caller,   \* who asks
    Agent,    \* records of the log
    Horizon,  \* how long an ended record may still be accepted
    None      \* nothing

VARIABLES
    now,     \* the clock
    ended,   \* when the record of each agent ended, or None
    granted  \* what each caller has been told: [agent, at], or None

vars == <<now, ended, granted>>

Init ==
    /\ now = 0
    /\ ended = [a \in Agent |-> None]
    /\ granted = [c \in Caller |-> None]

Tick == now' = now + 1 /\ UNCHANGED <<ended, granted>>

End(a) ==
    /\ ended[a] = None
    /\ ended' = [ended EXCEPT ![a] = now]
    /\ UNCHANGED <<now, granted>>

Grant(c, a) ==
    /\ ended[a] # None => now <= ended[a] + Horizon
    /\ granted' = [granted EXCEPT ![c] = [agent |-> a, at |-> now]]
    /\ UNCHANGED <<now, ended>>

\* The answer is used up, or taken back.
Drop(c) ==
    /\ granted' = [granted EXCEPT ![c] = None]
    /\ UNCHANGED <<now, ended>>

Next ==
    \/ Tick
    \/ \E a \in Agent : End(a)
    \/ \E c \in Caller : Drop(c) \/ \E a \in Agent : Grant(c, a)

Spec == Init /\ [][Next]_vars
=============================================================================
