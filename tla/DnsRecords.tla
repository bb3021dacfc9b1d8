----------------------------- MODULE DnsRecords -----------------------------
(***************************************************************************)
(* The TXT records of an agent's host and the choice among them             *)
(* (verify/badge_record.go, verify/ati_record.go, ati/version_policy.go).   *)
(*                                                                         *)
(* A TXT record is the map of its fields; a field that is missing or empty   *)
(* is Absent.  Versions, URLs and protocols are numbers in the order in       *)
(* which the code compares them; Malformed is a version, a URL or a           *)
(* constraint that its parser refuses.                                      *)
(***************************************************************************)
EXTENDS Integers, SequencesExt

CONSTANTS
    Absent,     \* "" or nil
    Malformed,  \* a field that its parser refuses
    Fold,       \* protocol -> its lower-case spelling
    AgentIn     \* URL -> the agent ID in its path, or Absent

\* A field that the code compares, as a number.
Value == Nat \cup {Absent, Malformed}

ASSUME RecordConstants ==
    /\ Absent \notin Nat
    /\ Malformed \notin Nat
    /\ \A allows \in SUBSET (1..2) :
          /\ allows # Malformed
          /\ \A v \in 1..3 : [allows |-> allows, version |-> v] # Absent
    /\ DOMAIN Fold \subseteq Nat

First(a, b) == IF a = Absent THEN b ELSE a

\* The elements of s that are in S, in their order: the loops that go on to the next
\* element when a parser or a filter refuses one.
KeptOfFirst(s, S) ==
    LET kept[n \in Nat] ==
          IF n = 0 THEN <<>>
          ELSE IF s[n] \in S THEN Append(kept[n - 1], s[n]) ELSE kept[n - 1]
    IN  kept

Kept(s, S) == KeptOfFirst(s, S)[Len(s)]

-----------------------------------------------------------------------------
(* Badge records: [v, av, version, u, url].                                 *)

BadgeVersion(txt) ==
    LET s == First(txt.av, txt.version) IN IF s = Malformed THEN Absent ELSE s

BadgeURL(txt) == First(txt.u, txt.url)

isValidFormatVersion(v) == v \in {"ati-badge1", "ra-badge1"}

\* ParseATIBadgeRecord returns no error; the URL must be https with a host and
\* without user and fragment.
IsBadgeRecord(txt) ==
    /\ isValidFormatVersion(txt.v)
    /\ txt.v = "ati-badge1" => BadgeVersion(txt) # Absent
    /\ BadgeURL(txt) \notin {Absent, Malformed}

BadgeRecord == [version: Nat \cup {Absent}, url: Nat]

ParseATIBadgeRecord(txt) == [version |-> BadgeVersion(txt), url |-> BadgeURL(txt)]

\* Newer versions first, records without a version last.
Before(r, s) ==
    /\ r.version # Absent
    /\ s.version # Absent => r.version > s.version

-----------------------------------------------------------------------------
(* Discovery records: [v, id, av, version, ver, p, proto, u, url, mode, m].   *)

ATIVersion(txt) == First(txt.av, First(txt.version, txt.ver))

IsATIRecord(txt) ==
    /\ txt.v = "ati1"
    /\ ATIVersion(txt) \notin {Absent, Malformed}
    /\ First(txt.mode, txt.m) \in {Absent, "card", "direct"}

extractAgentIDFromURL(url) == AgentIn[url]

ParseATIRecord(txt) ==
    LET url == First(txt.u, txt.url)
    IN  [id |-> IF txt.id = Absent /\ url # Absent THEN extractAgentIDFromURL(url) ELSE txt.id,
         version |-> ATIVersion(txt),
         mode |-> First(First(txt.mode, txt.m), "direct"),
         protocol |-> First(txt.p, txt.proto),
         url |-> url]

-----------------------------------------------------------------------------
(* The version policies.                                                   *)

\* A record without a protocol serves every protocol.
FilterATIRecordsByProtocol(records, protocol) ==
    IF protocol = Absent THEN records
    ELSE Kept(records, {r \in Range(records) :
                          r.protocol = Absent \/ Fold[r.protocol] = Fold[protocol]})

\* < on strings, the empty one first.
StringLess(a, b) == b # Absent /\ (a # Absent => a < b)

\* Faulty variant: equal versions are left to the order of the answer.
preferRecordNever(candidate, current) == FALSE

preferRecord(candidate, current) ==
    IF candidate.protocol # current.protocol
      THEN StringLess(candidate.protocol, current.protocol)
      ELSE StringLess(candidate.url, current.url)

\* One round of the loop of resolveLatest and resolveLatestCompatible, over the versions
\* allowed ...
Better(best, r, allowed) ==
    IF /\ r.version \in allowed
       /\ \/ best = Absent
          \/ r.version > best.version
          \/ r.version = best.version /\ preferRecord(r, best)
      THEN r ELSE best

\* ... and the loop, after n rounds and at its end.
BestOfFirst(records, allowed) ==
    LET best[n \in Nat] ==
          IF n = 0 THEN Absent ELSE Better(best[n - 1], records[n], allowed)
    IN  best

BestAmong(records, allowed) == BestOfFirst(records, allowed)[Len(records)]

resolveLatest(records) == BestAmong(records, {r.version : r \in Range(records)})

\* The first record with this version, in resolveExact and findExact.
findExact(records, version) ==
    LET i == SelectInSeq(records, LAMBDA r : r.version = version)
    IN  IF i = 0 THEN Absent ELSE records[i]

\* requested is Absent, or [allows, version]: the versions it allows when it is read
\* as a constraint and the one it names when it is read as a version.
resolveLatestCompatible(records, requested) ==
    IF requested = Absent THEN resolveLatest(records)
    ELSE IF requested.allows = Malformed THEN findExact(records, requested.version)
    ELSE BestAmong(records, requested.allows)

resolveExact(records, requested) ==
    IF requested = Absent THEN Absent ELSE findExact(records, requested.version)

\* The record that is selected; Absent stands for every error.
ResolveVersionForProtocol(records, policy, requested, protocol) ==
    LET rs == FilterATIRecordsByProtocol(records, protocol)
    IN  CASE policy = "EXACT" -> resolveExact(rs, requested)
          [] policy = "LATEST_COMPATIBLE" -> resolveLatestCompatible(rs, requested)
          [] OTHER -> resolveLatest(rs)
=============================================================================
