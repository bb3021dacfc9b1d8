------------------------------ MODULE ScittCache ------------------------------
(***************************************************************************)
(* The caches of verified SCITT artifacts (verify/scitt/cache.go):           *)
(* ReceiptCache, whose entries live for a fixed time, and StatusTokenCache,   *)
(* whose entries live until their token's exp claim.  Both keep, beside the   *)
(* map, a queue of the keys in insertion order from which they evict; every   *)
(* method holds the lock throughout, so each is one action.                   *)
(***************************************************************************)
EXTENDS Integers, Sequences, FiniteSets, SequencesExt

CONSTANTS
    AgentID,     \* keys
    Exp,         \* exp claims of the tokens that are inserted
    TTL,         \* ReceiptCache.ttl
    MaxEntries,  \* maxEntries
    MaxClock,    \* bound of the model: the clock stops here
    MaxInserts   \* bound of the model: the number of insertions

ASSUME ScittCacheConstants ==
    /\ Exp \subseteq Nat
    /\ TTL \in Nat
    /\ MaxEntries \in Int
    /\ MaxClock \in Nat
    /\ MaxInserts \in Nat

VARIABLES
    kind,         \* which of the two caches this is
    clock,        \* the clock
    entries,      \* map[agentID]: only the expiry of an entry matters
    insertOrder,  \* []string
    inserts,      \* history: the number of insertions so far
    born          \* history: the insertion that made each key present

cacheVars == <<kind, clock, entries, insertOrder, inserts, born>>

CacheInit ==
    /\ kind \in {"receipt", "token"}
    /\ clock = 0
    /\ entries = [k \in {} |-> 0]
    /\ insertOrder = <<>>
    /\ inserts = 0
    /\ born = [k \in AgentID |-> 0]

Without(m, K) == [k \in DOMAIN m \ K |-> m[k]]

\* Faulty variants: one key too few or too many is taken from the queue.
ToRemoveOneShort(m) == Cardinality(DOMAIN m) - MaxEntries - 1
ToRemoveOneExtra(m) == Cardinality(DOMAIN m) - MaxEntries + 1

\* How many keys evictLocked takes from the queue.
ToRemove(m) == Cardinality(DOMAIN m) - MaxEntries

\* evictLocked, on the map m and the queue q the insertion has just written.
EvictLocked(m, q) ==
    LET taken == IF ToRemove(m) <= 0 THEN 0
                 ELSE IF ToRemove(m) < Len(q) THEN ToRemove(m) ELSE Len(q)
    IN  /\ entries' = Without(m, {q[i] : i \in 1..taken})
        /\ insertOrder' = SubSeq(q, taken + 1, Len(q))

\* Insert: a present key is overwritten in place, a new one joins the queue.
InsertEntry(id, expiresAt) ==
    LET existed == id \in DOMAIN entries
        m == [k \in DOMAIN entries \cup {id} |-> IF k = id THEN expiresAt ELSE entries[k]]
        q == IF existed THEN insertOrder ELSE Append(insertOrder, id)
    IN  /\ inserts < MaxInserts
        /\ inserts' = inserts + 1
        /\ EvictLocked(m, q)
        /\ born' = IF existed THEN born ELSE [born EXCEPT ![id] = inserts + 1]
        /\ UNCHANGED <<kind, clock>>

\* ReceiptCache.Insert
InsertReceipt(id) == kind = "receipt" /\ InsertEntry(id, clock + TTL)

\* StatusTokenCache.Insert
InsertToken(id, exp) == kind = "token" /\ InsertEntry(id, exp)

Insert(id) == InsertReceipt(id) \/ \E exp \in Exp : InsertToken(id, exp)

\* Faulty variant: the queue keeps the key.
InvalidateKeepsOrder(id) ==
    /\ id \in DOMAIN entries
    /\ entries' = Without(entries, {id})
    /\ UNCHANGED <<kind, clock, insertOrder, inserts, born>>

Invalidate(id) ==
    /\ id \in DOMAIN entries
    /\ entries' = Without(entries, {id})
    /\ insertOrder' = RemoveFirst(insertOrder, id)
    /\ UNCHANGED <<kind, clock, inserts, born>>

\* Get finds the entry: present and not expired.
CacheGet(id) == id \in DOMAIN entries /\ clock <= entries[id]

ClockTicks ==
    /\ clock < MaxClock
    /\ clock' = clock + 1
    /\ UNCHANGED <<kind, entries, insertOrder, inserts, born>>

CacheNext ==
    \/ ClockTicks
    \/ \E id \in AgentID :
          \/ Insert(id)
          \/ Invalidate(id)

CacheSpec == CacheInit /\ [][CacheNext]_cacheVars

-----------------------------------------------------------------------------
(* Properties.                                                             *)

\* The cache never holds more than maxEntries entries; with a limit of zero or
\* less it holds none.
SizeBounded == Cardinality(DOMAIN entries) <= (IF MaxEntries > 0 THEN MaxEntries ELSE 0)

\* The queue lists exactly the present keys, each once, through any sequence of
\* insertions, overwrites, invalidations and evictions.
OrderIsExact ==
    /\ Range(insertOrder) = DOMAIN entries
    /\ Len(insertOrder) = Cardinality(DOMAIN entries)

Evicted == DOMAIN entries \ DOMAIN entries'

\* cache.go:25-26: an insertion drops only the oldest entries: every key that stays
\* became present after every key that is dropped.
EvictionIsFIFO ==
    [][inserts' # inserts =>
          \A old \in Evicted, k \in DOMAIN entries' : born[old] < born'[k]]_cacheVars

\* An agent whose artifact Get would return stops being served only because the
\* entry expires, is invalidated, is overwritten (and stays) by its own agent's next
\* insertion, or is evicted from a cache that is full and stays full.
HitsLostForCause ==
    [][\A id \in AgentID : CacheGet(id) /\ ~CacheGet(id)' =>
          \/ clock' > clock
          \/ Invalidate(id)
          \/ Insert(id) /\ id \in DOMAIN entries'
          \/ Cardinality(DOMAIN entries') = MaxEntries]_cacheVars
=============================================================================
