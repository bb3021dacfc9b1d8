------------------------ MODULE DnsResolverProofs ------------------------
(***************************************************************************)
(* The resolver's answers are right for a settled zone, for every value of   *)
(* the constants.                                                          *)
(*                                                                         *)
(* The loops over the records of an answer, as recursive functions; the        *)
(* insertion sort, its swaps field by field, and the scan for a version; the    *)
(* goroutines that share a slice; then the invariant: what is in the cache and  *)
(* in every slice is what the zone served, unless it is older than a lookup     *)
(* or two after the change, or goroutines have raced for the slice.            *)
(***************************************************************************)
EXTENDS DnsResolver, FiniteSetTheorems, WellFoundedInduction, TLAPS

-----------------------------------------------------------------------------
(* The loops over the records of an answer, as recursive functions.           *)

LEMMA LeastElement ==
    ASSUME NEW T \in SUBSET Nat, T # {}
    PROVE  \E x \in T : \A y \in T : x <= y
<1>. DEFINE R == OpToRel(<, Nat)
<1>1. \A x, y \in Nat : <<y, x>> \in R <=> y < x
  BY DEF OpToRel
<1>2. IsWellFoundedOn(R, Nat)
  BY NatLessThanWellFounded
<1>. HIDE DEF R
<1>3. PICK x \in T : \A y \in T : ~(<<y, x>> \in R)
  BY <1>2, WFMin
<1>4. \A y \in T : ~(y < x)
  BY <1>1, <1>3
<1>. QED  BY <1>4

LEMMA Least ==
    ASSUME NEW T \in SUBSET Nat, T # {}
    PROVE  \E x \in Nat : x \in T /\ \A y \in 0..(x - 1) : y \notin T
<1>1. PICK x \in T : \A y \in T : x <= y
  BY LeastElement
<1>. QED  BY <1>1

\* The equations that the two recursive functions satisfy.
LEMMA KeptDef ==
    ASSUME NEW s, NEW S
    PROVE  KeptOfFirst(s, S) = [n \in Nat |-> IF n = 0 THEN <<>>
               ELSE IF s[n] \in S THEN Append(KeptOfFirst(s, S)[n - 1], s[n])
               ELSE KeptOfFirst(s, S)[n - 1]]
<1>. DEFINE Rhs(g, n) == IF n = 0 THEN <<>>
                         ELSE IF s[n] \in S THEN Append(g[n - 1], s[n]) ELSE g[n - 1]
            Sol(g, n) == \A i \in 0..n : g[i] = Rhs(g, i)
<1>1. ASSUME NEW n \in Nat, NEW g, NEW h, \A i \in 0..(n - 1) : g[i] = h[i]
      PROVE  Rhs(g, n) = Rhs(h, n)
  <2>1. n = 0 \/ n - 1 \in 0..(n - 1)
    OBVIOUS
  <2>. QED  BY <1>1, <2>1
<1>. HIDE DEF Rhs
<1>2. ASSUME NEW a \in Nat, NEW b \in Nat, NEW g, NEW h, Sol(g, a), Sol(h, b)
      PROVE  \A n \in Nat : n <= a /\ n <= b => g[n] = h[n]
  <2>. DEFINE T == {n \in Nat : n <= a /\ n <= b /\ g[n] # h[n]}
  <2>. SUFFICES ASSUME T # {} PROVE FALSE
    OBVIOUS
  <2>1. PICK x \in Nat : x \in T /\ \A y \in 0..(x - 1) : y \notin T
    BY Least
  <2>2. \A i \in 0..(x - 1) : g[i] = h[i]
    BY <2>1
  <2>3. g[x] = Rhs(g, x) /\ h[x] = Rhs(h, x)
    BY <1>2, <2>1
  <2>4. Rhs(g, x) = Rhs(h, x)
    BY <1>1, <2>2
  <2>. QED  BY <2>1, <2>3, <2>4
<1>3. ASSUME NEW n \in Nat PROVE \E g : Sol(g, n)
  <2>. DEFINE T == {i \in Nat : ~ \E g : Sol(g, i)}
  <2>. SUFFICES ASSUME T # {} PROVE FALSE
    OBVIOUS
  <2>1. PICK x \in Nat : x \in T /\ \A y \in 0..(x - 1) : y \notin T
    BY Least
  <2>2. PICK g : x # 0 => Sol(g, x - 1)
    <3>1. x # 0 => x - 1 \in 0..(x - 1) /\ x - 1 \in Nat
      OBVIOUS
    <3>. HIDE DEF Sol
    <3>. QED  BY <2>1, <3>1
  <2>3. PICK h : h = [i \in 0..x |-> Rhs(g, i)]
    OBVIOUS
  <2>4. ASSUME NEW j \in 0..x PROVE h[j] = Rhs(h, j)
    <3>1. \A i \in 0..(j - 1) : g[i] = h[i]
      BY <2>2, <2>3
    <3>2. Rhs(g, j) = Rhs(h, j)
      BY <1>1, <3>1
    <3>. QED  BY <2>3, <3>2
  <2>. QED  BY <2>4, <2>1
<1>4. PICK F : F = [n \in Nat |-> CHOOSE g : Sol(g, n)]
  OBVIOUS
<1>5. \A n \in Nat : Sol(F[n], n)
  BY <1>3, <1>4
<1>6. PICK f : f = [n \in Nat |-> F[n][n]]
  OBVIOUS
<1>7. ASSUME NEW n \in Nat PROVE f[n] = Rhs(f, n)
  <2>1. PICK g : g = F[n]
    OBVIOUS
  <2>2. \A i \in 0..(n - 1) : g[i] = f[i]
    <3>. SUFFICES ASSUME NEW i \in 0..(n - 1) PROVE g[i] = f[i]
      OBVIOUS
    <3>1. f[i] = F[i][i] /\ Sol(F[i], i) /\ Sol(g, n)
      BY <1>5, <1>6, <2>1
    <3>. HIDE DEF Sol
    <3>. QED  BY <1>2, <3>1
  <2>3. f[n] = Rhs(g, n)
    BY <1>5, <1>6, <2>1
  <2>. QED  BY <1>1, <2>2, <2>3
<1>8. f = [n \in Nat |-> Rhs(f, n)]
  BY <1>6, <1>7
<1>. QED  BY <1>8 DEF KeptOfFirst, Rhs

LEMMA BestDef ==
    ASSUME NEW rs, NEW allowed
    PROVE  BestOfFirst(rs, allowed) = [n \in Nat |->
               IF n = 0 THEN Absent
               ELSE Better(BestOfFirst(rs, allowed)[n - 1], rs[n], allowed)]
<1>. DEFINE Rhs(g, n) == IF n = 0 THEN Absent ELSE Better(g[n - 1], rs[n], allowed)
            Sol(g, n) == \A i \in 0..n : g[i] = Rhs(g, i)
<1>1. ASSUME NEW n \in Nat, NEW g, NEW h, \A i \in 0..(n - 1) : g[i] = h[i]
      PROVE  Rhs(g, n) = Rhs(h, n)
  <2>1. n = 0 \/ n - 1 \in 0..(n - 1)
    OBVIOUS
  <2>. QED  BY <1>1, <2>1
<1>. HIDE DEF Rhs
<1>2. ASSUME NEW a \in Nat, NEW b \in Nat, NEW g, NEW h, Sol(g, a), Sol(h, b)
      PROVE  \A n \in Nat : n <= a /\ n <= b => g[n] = h[n]
  <2>. DEFINE T == {n \in Nat : n <= a /\ n <= b /\ g[n] # h[n]}
  <2>. SUFFICES ASSUME T # {} PROVE FALSE
    OBVIOUS
  <2>1. PICK x \in Nat : x \in T /\ \A y \in 0..(x - 1) : y \notin T
    BY Least
  <2>2. \A i \in 0..(x - 1) : g[i] = h[i]
    BY <2>1
  <2>3. g[x] = Rhs(g, x) /\ h[x] = Rhs(h, x)
    BY <1>2, <2>1
  <2>4. Rhs(g, x) = Rhs(h, x)
    BY <1>1, <2>2
  <2>. QED  BY <2>1, <2>3, <2>4
<1>3. ASSUME NEW n \in Nat PROVE \E g : Sol(g, n)
  <2>. DEFINE T == {i \in Nat : ~ \E g : Sol(g, i)}
  <2>. SUFFICES ASSUME T # {} PROVE FALSE
    OBVIOUS
  <2>1. PICK x \in Nat : x \in T /\ \A y \in 0..(x - 1) : y \notin T
    BY Least
  <2>2. PICK g : x # 0 => Sol(g, x - 1)
    <3>1. x # 0 => x - 1 \in 0..(x - 1) /\ x - 1 \in Nat
      OBVIOUS
    <3>. HIDE DEF Sol
    <3>. QED  BY <2>1, <3>1
  <2>3. PICK h : h = [i \in 0..x |-> Rhs(g, i)]
    OBVIOUS
  <2>4. ASSUME NEW j \in 0..x PROVE h[j] = Rhs(h, j)
    <3>1. \A i \in 0..(j - 1) : g[i] = h[i]
      BY <2>2, <2>3
    <3>2. Rhs(g, j) = Rhs(h, j)
      BY <1>1, <3>1
    <3>. QED  BY <2>3, <3>2
  <2>. QED  BY <2>4, <2>1
<1>4. PICK F : F = [n \in Nat |-> CHOOSE g : Sol(g, n)]
  OBVIOUS
<1>5. \A n \in Nat : Sol(F[n], n)
  BY <1>3, <1>4
<1>6. PICK f : f = [n \in Nat |-> F[n][n]]
  OBVIOUS
<1>7. ASSUME NEW n \in Nat PROVE f[n] = Rhs(f, n)
  <2>1. PICK g : g = F[n]
    OBVIOUS
  <2>2. \A i \in 0..(n - 1) : g[i] = f[i]
    <3>. SUFFICES ASSUME NEW i \in 0..(n - 1) PROVE g[i] = f[i]
      OBVIOUS
    <3>1. f[i] = F[i][i] /\ Sol(F[i], i) /\ Sol(g, n)
      BY <1>5, <1>6, <2>1
    <3>. HIDE DEF Sol
    <3>. QED  BY <1>2, <3>1
  <2>3. f[n] = Rhs(g, n)
    BY <1>5, <1>6, <2>1
  <2>. QED  BY <1>1, <2>2, <2>3
<1>8. f = [n \in Nat |-> Rhs(f, n)]
  BY <1>6, <1>7
<1>. QED  BY <1>8 DEF BestOfFirst, Rhs

LEMMA RangeAppend ==
    ASSUME NEW D, NEW q \in Seq(D), NEW x
    PROVE  Range(Append(q, x)) = Range(q) \cup {x}
<1>1. /\ DOMAIN q = 1..Len(q) /\ Len(q) \in Nat
      /\ DOMAIN Append(q, x) = 1..(Len(q) + 1)
      /\ Append(q, x)[Len(q) + 1] = x
      /\ \A i \in 1..Len(q) : Append(q, x)[i] = q[i]
  <2>1. q \in Seq(D \cup {x}) /\ x \in D \cup {x}
    OBVIOUS
  <2>. QED  BY <2>1
<1>. QED  BY <1>1 DEF Range

\* A loop that skips some elements keeps exactly the others.
LEMMA KeptRange ==
    ASSUME NEW D, NEW s \in Seq(D), NEW S
    PROVE  Kept(s, S) \in Seq(D \cap S) /\ Range(Kept(s, S)) = Range(s) \cap S
<1>. DEFINE K == KeptOfFirst(s, S)
            Good(n) == K[n] \in Seq(D \cap S) /\ Range(K[n]) = {s[i] : i \in 1..n} \cap S
            T == {n \in Nat : n <= Len(s) /\ ~Good(n)}
<1>1. Len(s) \in Nat /\ DOMAIN s = 1..Len(s) /\ \A i \in 1..Len(s) : s[i] \in D
  OBVIOUS
<1>2. \A n \in Nat : K[n] = IF n = 0 THEN <<>>
                            ELSE IF s[n] \in S THEN Append(K[n - 1], s[n]) ELSE K[n - 1]
  <2>. DEFINE Rhs(n) == IF n = 0 THEN <<>>
                        ELSE IF s[n] \in S THEN Append(K[n - 1], s[n]) ELSE K[n - 1]
  <2>1. K = [n \in Nat |-> Rhs(n)]
    BY KeptDef
  <2>. HIDE DEF Rhs, K
  <2>2. \A n \in Nat : K[n] = Rhs(n)
    BY <2>1
  <2>. QED  BY <2>2 DEF Rhs
<1>. HIDE DEF K
<1>3. T = {}
  <2>1. SUFFICES ASSUME T # {} PROVE FALSE
    OBVIOUS
  <2>2. PICK n \in Nat : n \in T /\ \A y \in 0..(n - 1) : y \notin T
    <3>1. T \in SUBSET Nat
      OBVIOUS
    <3>. HIDE DEF T
    <3>. QED  BY <2>1, <3>1, Least
  <2>3. CASE n = 0
    <3>1. K[n] = <<>>
      BY <1>2, <2>3
    <3>2. Range(<<>>) = {} /\ <<>> \in Seq(D \cap S) /\ {s[i] : i \in 1..0} = {}
      BY DEF Range
    <3>. QED  BY <2>2, <2>3, <3>1, <3>2
  <2>4. CASE n # 0
    <3>1. n - 1 \in Nat /\ n - 1 \in 0..(n - 1) /\ n \in 1..Len(s) /\ n - 1 <= Len(s)
      BY <1>1, <2>2, <2>4
    <3>2. Good(n - 1)
      BY <2>2, <3>1
    <3>3. {s[i] : i \in 1..n} = {s[i] : i \in 1..(n - 1)} \cup {s[n]}
      BY <3>1
    <3>4. CASE s[n] \in S
      <4>1. K[n] = Append(K[n - 1], s[n])
        BY <1>2, <2>4, <3>4
      <4>2. Range(K[n]) = Range(K[n - 1]) \cup {s[n]}
        BY <3>2, <4>1, RangeAppend
      <4>3. K[n] \in Seq(D \cap S)
        BY <1>1, <3>1, <3>2, <3>4, <4>1
      <4>. QED  BY <2>2, <3>2, <3>3, <3>4, <4>2, <4>3
    <3>5. CASE s[n] \notin S
      BY <1>2, <2>2, <2>4, <3>2, <3>3, <3>5
    <3>. QED  BY <3>4, <3>5
  <2>. QED  BY <2>3, <2>4
<1>4. Good(Len(s))
  <2>. HIDE DEF Good
  <2>1. Len(s) \in Nat /\ Len(s) <= Len(s)
    BY <1>1
  <2>. QED  BY <1>3, <2>1
<1>5. Range(s) = {s[i] : i \in 1..Len(s)}
  BY <1>1 DEF Range
<1>. QED  BY <1>4, <1>5 DEF Kept, K

-----------------------------------------------------------------------------
(* The version policies: the loop ends with the latest of the records allowed. *)

\* A record that ParseATIRecord has made, and the records of an answer that has some.
ATIRecord(r) ==
    /\ r # Absent
    /\ r.version \in Nat
    /\ r.protocol \in Nat \cup {Absent}
    /\ r.url \in Nat \cup {Absent}

ATIRecords(rs) ==
    /\ rs \in Seq(Range(rs))
    /\ \A r \in Range(rs) : ATIRecord(r)

\* r is what a selection from S must yield.
LatestOf(r, S) == IF S = {} THEN r = Absent ELSE IsLatest(r, S)

NoLater(q, r) ==
    \/ q.version < r.version
    \/ /\ q.version = r.version
       /\ ~StringLess(q.protocol, r.protocol)
       /\ q.protocol = r.protocol => ~StringLess(q.url, r.url)

LEMMA NoLaterOrder ==
    ASSUME NEW q, NEW r, ATIRecord(q), ATIRecord(r)
    PROVE  /\ NoLater(r, r)
           /\ r.version > q.version \/ (r.version = q.version /\ preferRecord(r, q)) => NoLater(q, r)
           /\ ~(r.version > q.version \/ (r.version = q.version /\ preferRecord(r, q))) => NoLater(r, q)
<1>. USE RecordConstants DEF ATIRecord
<1>1. NoLater(r, r)
  BY DEF NoLater, StringLess
<1>2. r.version > q.version => NoLater(q, r)
  BY DEF NoLater
<1>3. ASSUME NEW a \in Nat \cup {Absent}, NEW b \in Nat \cup {Absent}
      PROVE  /\ StringLess(a, b) => ~StringLess(b, a) /\ a # b
             /\ ~StringLess(a, b) /\ a # b => StringLess(b, a)
  BY DEF StringLess
<1>4. r.version = q.version /\ preferRecord(r, q) => NoLater(q, r)
  BY <1>3 DEF NoLater, preferRecord
<1>5. r.version = q.version /\ ~preferRecord(r, q) => NoLater(r, q)
  BY <1>3 DEF NoLater, preferRecord
<1>6. r.version < q.version => NoLater(r, q)
  BY DEF NoLater
<1>. QED  BY <1>1, <1>2, <1>4, <1>5, <1>6

LEMMA NoLaterTransitive ==
    ASSUME NEW q, NEW r, NEW t, ATIRecord(q), ATIRecord(r), ATIRecord(t), NoLater(q, r), NoLater(r, t)
    PROVE  NoLater(q, t)
<1>. USE RecordConstants DEF ATIRecord
<1>1. ASSUME NEW a \in Nat \cup {Absent}, NEW b \in Nat \cup {Absent}, NEW c \in Nat \cup {Absent},
             ~StringLess(a, b), ~StringLess(b, c)
      PROVE  ~StringLess(a, c) /\ (a = c => b = a)
  BY <1>1 DEF StringLess
<1>2. CASE q.version = r.version /\ r.version = t.version
  <2>0. /\ ~StringLess(q.protocol, r.protocol) /\ ~StringLess(r.protocol, t.protocol)
        /\ q.protocol = r.protocol => ~StringLess(q.url, r.url)
        /\ r.protocol = t.protocol => ~StringLess(r.url, t.url)
    BY <1>2 DEF NoLater
  <2>1. ~StringLess(q.protocol, t.protocol) /\ (q.protocol = t.protocol => r.protocol = q.protocol)
    BY <1>1, <2>0
  <2>2. ASSUME q.protocol = t.protocol PROVE ~StringLess(q.url, t.url)
    <3>1. ~StringLess(q.url, r.url) /\ ~StringLess(r.url, t.url)
      BY <2>0, <2>1, <2>2
    <3>. QED  BY <1>1, <3>1
  <2>. QED  BY <1>2, <2>1, <2>2 DEF NoLater
<1>3. CASE q.version < r.version \/ r.version < t.version
  BY <1>3 DEF NoLater
<1>. QED  BY <1>2, <1>3 DEF NoLater

\* One round of the loop.
LEMMA BetterIsLatest ==
    ASSUME NEW S, \A r \in S : ATIRecord(r), NEW r, ATIRecord(r), NEW best, LatestOf(best, S),
           NEW allowed
    PROVE  LatestOf(Better(best, r, allowed), IF r.version \in allowed THEN S \cup {r} ELSE S)
<1>1. CASE r.version \notin allowed
  BY <1>1 DEF Better
<1>2. CASE r.version \in allowed /\ S = {}
  <2>1. Better(best, r, allowed) = r
    BY <1>2 DEF Better, LatestOf
  <2>2. IsLatest(r, {r})
    BY NoLaterOrder DEF IsLatest, NoLater
  <2>. QED  BY <1>2, <2>1, <2>2 DEF LatestOf
<1>3. CASE r.version \in allowed /\ S # {}
  <2>1. best \in S /\ ATIRecord(best) /\ \A q \in S : NoLater(q, best)
    BY <1>3 DEF LatestOf, IsLatest, NoLater
  <2>. DEFINE wins == r.version > best.version \/ (r.version = best.version /\ preferRecord(r, best))
  <2>2. Better(best, r, allowed) = IF wins THEN r ELSE best
    BY <1>3, <2>1 DEF Better, ATIRecord
  <2>3. NoLater(r, r) /\ (wins => NoLater(best, r)) /\ (~wins => NoLater(r, best))
    BY <2>1, NoLaterOrder
  <2>. HIDE DEF wins
  <2>4. CASE wins
    <3>1. \A q \in S : NoLater(q, r)
      BY <2>1, <2>3, <2>4, NoLaterTransitive
    <3>2. IsLatest(r, S \cup {r})
      BY <2>3, <3>1 DEF IsLatest, NoLater
    <3>. QED  BY <1>3, <2>2, <2>4, <3>2 DEF LatestOf
  <2>5. CASE ~wins
    <3>1. IsLatest(best, S \cup {r})
      BY <2>1, <2>3, <2>5 DEF IsLatest, NoLater
    <3>. QED  BY <1>3, <2>2, <2>5, <3>1 DEF LatestOf
  <2>. QED  BY <2>4, <2>5
<1>. QED  BY <1>1, <1>2, <1>3

LEMMA BestIsLatest ==
    ASSUME NEW rs, ATIRecords(rs), NEW allowed
    PROVE  LatestOf(BestAmong(rs, allowed), {r \in Range(rs) : r.version \in allowed})
<1>. DEFINE B == BestOfFirst(rs, allowed)
            Seen(n) == {r \in {rs[i] : i \in 1..n} : r.version \in allowed}
            T == {n \in Nat : n <= Len(rs) /\ ~LatestOf(B[n], Seen(n))}
<1>1. /\ Len(rs) \in Nat /\ DOMAIN rs = 1..Len(rs)
      /\ \A i \in 1..Len(rs) : ATIRecord(rs[i])
  BY DEF ATIRecords, Range
<1>2. \A n \in Nat : B[n] = IF n = 0 THEN Absent ELSE Better(B[n - 1], rs[n], allowed)
  BY BestDef
<1>. HIDE DEF B
<1>3. T = {}
  <2>1. SUFFICES ASSUME T # {} PROVE FALSE
    OBVIOUS
  <2>2. PICK n \in Nat : n \in T /\ \A y \in 0..(n - 1) : y \notin T
    <3>1. T \in SUBSET Nat
      OBVIOUS
    <3>. HIDE DEF T
    <3>. QED  BY <2>1, <3>1, Least
  <2>3. CASE n = 0
    <3>1. Seen(0) = {} /\ B[0] = Absent
      BY <1>2
    <3>. QED  BY <2>2, <2>3, <3>1 DEF LatestOf
  <2>4. CASE n # 0
    <3>1. n - 1 \in Nat /\ n - 1 \in 0..(n - 1) /\ n \in 1..Len(rs) /\ n - 1 <= Len(rs)
      BY <1>1, <2>2, <2>4
    <3>2. LatestOf(B[n - 1], Seen(n - 1))
      BY <2>2, <3>1
    <3>3. \A r \in Seen(n - 1) : ATIRecord(r)
      BY <1>1, <3>1
    <3>4. Seen(n) = IF rs[n].version \in allowed THEN Seen(n - 1) \cup {rs[n]} ELSE Seen(n - 1)
      <4>1. {rs[i] : i \in 1..n} = {rs[i] : i \in 1..(n - 1)} \cup {rs[n]}
        BY <3>1
      <4>. QED  BY <4>1
    <3>5. B[n] = Better(B[n - 1], rs[n], allowed) /\ ATIRecord(rs[n])
      BY <1>1, <1>2, <2>4, <3>1
    <3>. HIDE DEF Seen
    <3>6. LatestOf(Better(B[n - 1], rs[n], allowed),
                   IF rs[n].version \in allowed THEN Seen(n - 1) \cup {rs[n]} ELSE Seen(n - 1))
      BY <3>2, <3>3, <3>5, BetterIsLatest
    <3>7. LatestOf(B[n], Seen(n))
      BY <3>4, <3>5, <3>6
    <3>. QED  BY <2>2, <3>7
  <2>. QED  BY <2>3, <2>4
<1>4. LatestOf(B[Len(rs)], Seen(Len(rs)))
  <2>. HIDE DEF Seen
  <2>1. Len(rs) \in Nat /\ Len(rs) <= Len(rs)
    BY <1>1
  <2>. QED  BY <1>3, <2>1
<1>5. Range(rs) = {rs[i] : i \in 1..Len(rs)}
  BY <1>1 DEF Range
<1>. QED  BY <1>4, <1>5 DEF BestAmong, B

\* The allowed records that serve the protocol.
Serving(rs, protocol) ==
    {r \in Range(rs) : protocol # Absent /\ r.protocol # Absent => Fold[r.protocol] = Fold[protocol]}

LEMMA FilterKeeps ==
    ASSUME NEW rs, ATIRecords(rs), NEW protocol
    PROVE  /\ Range(FilterATIRecordsByProtocol(rs, protocol)) = Serving(rs, protocol)
           /\ ATIRecords(FilterATIRecordsByProtocol(rs, protocol))
<1>1. CASE protocol = Absent
  <2>1. Serving(rs, protocol) = Range(rs)
    BY <1>1 DEF Serving
  <2>. QED  BY <1>1, <2>1 DEF FilterATIRecordsByProtocol
<1>2. CASE protocol # Absent
  <2>. DEFINE S == {r \in Range(rs) : r.protocol = Absent \/ Fold[r.protocol] = Fold[protocol]}
              got == Kept(rs, S)
  <2>1. FilterATIRecordsByProtocol(rs, protocol) = got
    BY <1>2 DEF FilterATIRecordsByProtocol
  <2>2. S = Serving(rs, protocol) /\ S \subseteq Range(rs)
    BY <1>2 DEF Serving
  <2>. HIDE DEF S
  <2>3. got \in Seq(Range(rs) \cap S) /\ Range(got) = Range(rs) \cap S
    BY KeptRange DEF ATIRecords
  <2>. HIDE DEF got
  <2>4. Range(got) = S
    BY <2>2, <2>3
  <2>5. ATIRecords(got)
    BY <2>2, <2>3, <2>4 DEF ATIRecords
  <2>. QED  BY <2>1, <2>2, <2>4, <2>5
<1>. QED  BY <1>1, <1>2

\* Whatever the records of an answer and their order, LATEST selects the latest record
\* that serves the protocol and LATEST_COMPATIBLE the latest of those that the requested
\* constraint allows; both fail only if there is none (resolveLatest,
\* resolveLatestCompatible, FilterATIRecordsByProtocol, preferRecord).
THEOREM SelectionIsLatest ==
    ASSUME NEW rs, ATIRecords(rs), NEW protocol, NEW requested
    PROVE  /\ LatestOf(ResolveVersionForProtocol(rs, "LATEST", requested, protocol),
                       Serving(rs, protocol))
           /\ LatestOf(ResolveVersionForProtocol(rs, "LATEST_COMPATIBLE", Absent, protocol),
                       Serving(rs, protocol))
           /\ requested # Absent /\ requested.allows # Malformed =>
                  LatestOf(ResolveVersionForProtocol(rs, "LATEST_COMPATIBLE", requested, protocol),
                           {r \in Serving(rs, protocol) : r.version \in requested.allows})
<1>. DEFINE fs == FilterATIRecordsByProtocol(rs, protocol)
<1>1. Range(fs) = Serving(rs, protocol) /\ ATIRecords(fs)
  BY FilterKeeps
<1>2. /\ ResolveVersionForProtocol(rs, "LATEST", requested, protocol) = resolveLatest(fs)
      /\ ResolveVersionForProtocol(rs, "LATEST_COMPATIBLE", Absent, protocol) = resolveLatest(fs)
      /\ requested # Absent /\ requested.allows # Malformed =>
             ResolveVersionForProtocol(rs, "LATEST_COMPATIBLE", requested, protocol) =
                 BestAmong(fs, requested.allows)
  BY DEF ResolveVersionForProtocol, resolveLatestCompatible
<1>. HIDE DEF fs
<1>3. LatestOf(resolveLatest(fs), Range(fs))
  <2>. DEFINE allowed == {r.version : r \in Range(fs)}
  <2>1. {r \in Range(fs) : r.version \in allowed} = Range(fs)
    OBVIOUS
  <2>2. resolveLatest(fs) = BestAmong(fs, allowed)
    BY DEF resolveLatest
  <2>. HIDE DEF allowed
  <2>. QED  BY <1>1, <2>1, <2>2, BestIsLatest
<1>4. LatestOf(BestAmong(fs, requested.allows), {r \in Range(fs) : r.version \in requested.allows})
  BY <1>1, BestIsLatest
<1>. QED  BY <1>1, <1>2, <1>3, <1>4

-----------------------------------------------------------------------------
(* The parsers.                                                            *)

\* The badge records under one name and the discovery records of a zone.
BadgesUnder(z, name) == {ParseATIBadgeRecord(t) : t \in {u \in z[name] : IsBadgeRecord(u)}}

ATIRecordsOf(z) == {ParseATIRecord(t) : t \in {u \in z.disc : IsATIRecord(u)}}

LEMMA EmptyRange ==
    ASSUME NEW D, NEW s \in Seq(D)
    PROVE  s = <<>> <=> Range(s) = {}
<1>1. DOMAIN s = 1..Len(s) /\ Len(s) \in Nat
  OBVIOUS
<1>2. s = <<>> <=> Len(s) = 0
  OBVIOUS
<1>3. Len(s) = 0 <=> DOMAIN s = {}
  <2>1. Len(s) # 0 => 1 \in 1..Len(s)
    BY <1>1
  <2>. QED  BY <1>1, <2>1
<1>4. Range(s) = {} <=> DOMAIN s = {}
  BY DEF Range
<1>. QED  BY <1>2, <1>3, <1>4

\* An answer lists what is under the name, whatever the order.
LEMMA AnswerRange ==
    ASSUME NEW S, IsFiniteSet(S), NEW txts \in SetToSeqs(S)
    PROVE  txts \in Seq(S) /\ Range(txts) = S
<1>. DEFINE n == Cardinality(S)
<1>1. n \in Nat
  BY FS_CardinalityType
<1>2. /\ txts \in [1..n -> S]
      /\ \A i, j \in 1..n : txts[i] = txts[j] => i = j
  BY DEF SetToSeqs, IsInjective
<1>3. txts \in Injection(1..n, S)
  BY <1>2 DEF Injection, IsInjective
<1>4. IsFiniteSet(1..n) /\ Cardinality(1..n) = n
  <2>. HIDE DEF n
  <2>. QED  BY <1>1, FS_Interval
<1>5. txts \in Surjection(1..n, S)
  BY <1>3, <1>4, FS_Injection
<1>6. Range(txts) = S
  BY <1>2, <1>5 DEF Surjection, Range
<1>7. txts \in Seq(S)
  BY <1>1, <1>2
<1>. QED  BY <1>6, <1>7

LEMMA BadgeParses ==
    ASSUME NEW t, {t.av, t.version, t.u, t.url} \subseteq Value, IsBadgeRecord(t)
    PROVE  ParseATIBadgeRecord(t) \in BadgeRecord
<1>1. BadgeVersion(t) \in Nat \cup {Absent}
  BY DEF BadgeVersion, First, Value
<1>2. BadgeURL(t) \in Nat
  BY DEF BadgeURL, First, Value, IsBadgeRecord
<1>. QED  BY <1>1, <1>2 DEF ParseATIBadgeRecord, BadgeRecord

LEMMA ATIRecordParses ==
    ASSUME NEW t, {t.av, t.version, t.ver} \subseteq Value,
           {t.p, t.proto, t.u, t.url} \subseteq Nat \cup {Absent},
           ParseATIRecord(t) # Absent, IsATIRecord(t)
    PROVE  ATIRecord(ParseATIRecord(t))
<1>1. ATIVersion(t) \in Nat
  BY DEF ATIVersion, First, Value, IsATIRecord
<1>2. First(t.p, t.proto) \in Nat \cup {Absent} /\ First(t.u, t.url) \in Nat \cup {Absent}
  BY DEF First
<1>3. /\ ParseATIRecord(t).version = ATIVersion(t)
      /\ ParseATIRecord(t).protocol = First(t.p, t.proto)
      /\ ParseATIRecord(t).url = First(t.u, t.url)
  BY DEF ParseATIRecord
<1>. QED  BY <1>1, <1>2, <1>3 DEF ATIRecord

LEMMA ParsedBadgesAre ==
    ASSUME NEW z \in Zones, NEW name \in {"ati", "ra"}, NEW txts \in SetToSeqs(z[name])
    PROVE  /\ ParsedBadges(txts) \in Seq(BadgeRecord)
           /\ Range(ParsedBadges(txts)) = BadgesUnder(z, name)
           /\ ParsedBadges(txts) = <<>> <=> BadgesUnder(z, name) = {}
<1>. DEFINE S == {t \in Range(txts) : IsBadgeRecord(t)}
            usable == Kept(txts, S)
            recs == [i \in DOMAIN usable |-> ParseATIBadgeRecord(usable[i])]
<1>1. /\ IsFiniteSet(z[name])
      /\ \A t \in z[name] : {t.av, t.version, t.u, t.url} \subseteq Value
  BY ResolverConstants
<1>2. txts \in Seq(z[name]) /\ Range(txts) = z[name]
  BY <1>1, AnswerRange
<1>3. S = {u \in z[name] : IsBadgeRecord(u)}
  BY <1>2
<1>4. usable \in Seq(z[name] \cap S) /\ Range(usable) = z[name] \cap S
  <2>. HIDE DEF S
  <2>1. Kept(txts, S) \in Seq(z[name] \cap S) /\ Range(Kept(txts, S)) = Range(txts) \cap S
    BY <1>2, KeptRange
  <2>. QED  BY <1>2, <2>1
<1>5. recs = ParsedBadges(txts)
  BY DEF ParsedBadges
<1>. HIDE DEF usable
<1>6. DOMAIN usable = 1..Len(usable) /\ Len(usable) \in Nat
  BY <1>4
<1>7. Range(usable) = S
  BY <1>3, <1>4
<1>8. \A i \in 1..Len(usable) : recs[i] = ParseATIBadgeRecord(usable[i]) /\ usable[i] \in S
  BY <1>6, <1>7 DEF Range
<1>9. \A i \in 1..Len(usable) : recs[i] \in BadgeRecord
  <2>. SUFFICES ASSUME NEW i \in 1..Len(usable) PROVE recs[i] \in BadgeRecord
    OBVIOUS
  <2>1. usable[i] \in z[name] /\ IsBadgeRecord(usable[i]) /\ recs[i] = ParseATIBadgeRecord(usable[i])
    BY <1>3, <1>8
  <2>. HIDE DEF recs
  <2>. QED  BY <1>1, <2>1, BadgeParses
<1>10. DOMAIN recs = 1..Len(usable)
  BY <1>6
<1>11. recs \in Seq(BadgeRecord) /\ Len(recs) = Len(usable)
  <2>1. recs \in [1..Len(usable) -> BadgeRecord]
    BY <1>6, <1>9
  <2>. HIDE DEF recs
  <2>. QED  BY <1>6, <2>1
<1>12. Range(recs) = {ParseATIBadgeRecord(t) : t \in S}
  <2>1. Range(recs) = {recs[i] : i \in 1..Len(usable)}
    BY <1>10 DEF Range
  <2>2. S = {usable[i] : i \in 1..Len(usable)}
    BY <1>6, <1>7 DEF Range
  <2>. HIDE DEF recs, S
  <2>. QED  BY <1>8, <2>1, <2>2
<1>13. Range(recs) = BadgesUnder(z, name)
  BY <1>3, <1>12 DEF BadgesUnder
<1>14. recs = <<>> <=> Range(recs) = {}
  <2>. HIDE DEF recs
  <2>. QED  BY <1>11, EmptyRange
<1>. HIDE DEF recs
<1>. QED  BY <1>5, <1>11, <1>13, <1>14

LEMMA ParsedATIRecordsAre ==
    ASSUME NEW z \in Zones, NEW txts \in SetToSeqs(z["disc"])
    PROVE  /\ ATIRecords(ParsedATIRecords(txts))
           /\ Range(ParsedATIRecords(txts)) = ATIRecordsOf(z)
           /\ ParsedATIRecords(txts) = <<>> <=> ATIRecordsOf(z) = {}
<1>. DEFINE S == {t \in Range(txts) : IsATIRecord(t)}
            usable == Kept(txts, S)
            recs == [i \in DOMAIN usable |-> ParseATIRecord(usable[i])]
<1>1. /\ IsFiniteSet(z.disc)
      /\ \A t \in z.disc : /\ {t.av, t.version, t.ver} \subseteq Value
                           /\ {t.p, t.proto, t.u, t.url} \subseteq Nat \cup {Absent}
                           /\ ParseATIRecord(t) # Absent
  BY ResolverConstants
<1>2. txts \in Seq(z.disc) /\ Range(txts) = z.disc
  BY <1>1, AnswerRange
<1>3. S = {u \in z.disc : IsATIRecord(u)}
  BY <1>2
<1>4. usable \in Seq(z.disc \cap S) /\ Range(usable) = z.disc \cap S
  <2>. HIDE DEF S
  <2>1. Kept(txts, S) \in Seq(z.disc \cap S) /\ Range(Kept(txts, S)) = Range(txts) \cap S
    BY <1>2, KeptRange
  <2>. QED  BY <1>2, <2>1
<1>5. recs = ParsedATIRecords(txts)
  BY DEF ParsedATIRecords
<1>. HIDE DEF usable
<1>6. DOMAIN usable = 1..Len(usable) /\ Len(usable) \in Nat
  BY <1>4
<1>7. Range(usable) = S
  BY <1>3, <1>4
<1>8. \A i \in 1..Len(usable) : recs[i] = ParseATIRecord(usable[i]) /\ usable[i] \in S
  BY <1>6, <1>7 DEF Range
<1>9. \A i \in 1..Len(usable) : ATIRecord(recs[i])
  <2>. SUFFICES ASSUME NEW i \in 1..Len(usable) PROVE ATIRecord(recs[i])
    OBVIOUS
  <2>1. usable[i] \in z.disc /\ IsATIRecord(usable[i]) /\ recs[i] = ParseATIRecord(usable[i])
    BY <1>3, <1>8
  <2>. HIDE DEF recs
  <2>. QED  BY <1>1, <2>1, ATIRecordParses
<1>10. DOMAIN recs = 1..Len(usable)
  BY <1>6
<1>11. Range(recs) = {recs[i] : i \in 1..Len(usable)}
  BY <1>10 DEF Range
<1>12. recs \in Seq(Range(recs)) /\ Len(recs) = Len(usable)
  <2>1. recs \in [1..Len(usable) -> Range(recs)]
    BY <1>6, <1>11
  <2>. HIDE DEF recs
  <2>. QED  BY <1>6, <2>1
<1>13. Range(recs) = {ParseATIRecord(t) : t \in S}
  <2>2. S = {usable[i] : i \in 1..Len(usable)}
    BY <1>6, <1>7 DEF Range
  <2>. HIDE DEF recs, S
  <2>. QED  BY <1>8, <1>11, <2>2
<1>14. Range(recs) = ATIRecordsOf(z)
  BY <1>3, <1>13 DEF ATIRecordsOf
<1>15. ATIRecords(recs)
  <2>. HIDE DEF recs
  <2>. QED  BY <1>9, <1>11, <1>12 DEF ATIRecords
<1>16. recs = <<>> <=> Range(recs) = {}
  <2>. HIDE DEF recs
  <2>. QED  BY <1>12, EmptyRange
<1>. HIDE DEF recs
<1>. QED  BY <1>5, <1>14, <1>15, <1>16

-----------------------------------------------------------------------------
(* The order of badges and the insertion sort.                              *)

LEMMA BeforeOrder ==
    ASSUME NEW x \in BadgeRecord, NEW y \in BadgeRecord
    PROVE  ~Before(x, x) /\ (Before(x, y) => ~Before(y, x))
BY RecordConstants DEF Before, BadgeRecord

LEMMA NotBeforeTransitive ==
    ASSUME NEW x \in BadgeRecord, NEW y \in BadgeRecord, NEW z \in BadgeRecord,
           ~Before(x, y), ~Before(y, z)
    PROVE  ~Before(x, z)
BY RecordConstants DEF Before, BadgeRecord

\* The first n records are in order.
Sorted(recs, n) == \A a, b \in 1..n : a < b => ~Before(recs[b], recs[a])

\* The same but for record j, which nothing behind it precedes.
SortedBut(recs, n, j) ==
    /\ \A a, b \in 1..n : a < b /\ j # a /\ j # b => ~Before(recs[b], recs[a])
    /\ \A b \in 1..n : j < b => ~Before(recs[b], recs[j])

\* The record has found its place.
LEMMA InsertionEnds ==
    ASSUME NEW recs \in Seq(BadgeRecord), NEW i \in 2..Len(recs), NEW j \in 1..i,
           SortedBut(recs, i, j), ~(j > 1 /\ Before(recs[j], recs[j - 1]))
    PROVE  SortedBut(recs, i + 1, i + 1)
<1>1. Len(recs) \in Nat /\ \A a \in 1..Len(recs) : recs[a] \in BadgeRecord
  OBVIOUS
<1>2. ASSUME NEW a \in 1..i, NEW b \in 1..i, a < b
      PROVE  ~Before(recs[b], recs[a])
  <2>1. CASE a # j /\ b # j
    BY <1>2, <2>1 DEF SortedBut
  <2>2. CASE a = j
    BY <1>2, <2>2 DEF SortedBut
  <2>3. CASE b = j
    <3>1. j > 1 /\ j - 1 \in 1..i /\ ~Before(recs[j], recs[j - 1])
      BY <1>2, <2>3
    <3>2. CASE a = j - 1
      BY <2>3, <3>1, <3>2
    <3>3. CASE a # j - 1
      <4>1. a < j - 1
        BY <1>2, <2>3, <3>3
      <4>2. ~Before(recs[j - 1], recs[a])
        BY <3>1, <4>1 DEF SortedBut
      <4>3. recs[j] \in BadgeRecord /\ recs[j - 1] \in BadgeRecord /\ recs[a] \in BadgeRecord
        BY <1>1, <3>1
      <4>. QED  BY <2>3, <3>1, <4>2, <4>3, NotBeforeTransitive
    <3>. QED  BY <3>2, <3>3
  <2>. QED  BY <2>1, <2>2, <2>3
<1>. QED  BY <1>2 DEF SortedBut

\* The record has been swapped with its predecessor.
LEMMA InsertionSwaps ==
    ASSUME NEW old \in Seq(BadgeRecord), NEW i \in 2..Len(old), NEW j \in 2..i,
           SortedBut(old, i, j), Before(old[j], old[j - 1]),
           NEW new \in Seq(BadgeRecord), Len(new) = Len(old),
           new[j] = old[j - 1], new[j - 1] = old[j],
           \A a \in 1..Len(old) : a # j /\ a # j - 1 => new[a] = old[a]
    PROVE  SortedBut(new, i, j - 1) /\ Range(new) = Range(old)
<1>1. /\ Len(old) \in Nat /\ \A a \in 1..Len(old) : old[a] \in BadgeRecord
      /\ DOMAIN old = 1..Len(old) /\ DOMAIN new = 1..Len(old)
  OBVIOUS
<1>2. ASSUME NEW a \in 1..i, NEW b \in 1..i, a < b, j - 1 # a, j - 1 # b
      PROVE  ~Before(new[b], new[a])
  <2>1. CASE b = j
    <3>1. a < j - 1 /\ new[a] = old[a] /\ new[b] = old[j - 1] /\ j - 1 \in 1..i
      BY <1>2, <2>1
    <3>. QED  BY <3>1 DEF SortedBut
  <2>2. CASE a = j
    <3>1. new[b] = old[b] /\ new[a] = old[j - 1] /\ j - 1 \in 1..i /\ j - 1 < b /\ b # j
      BY <1>2, <2>2
    <3>. QED  BY <3>1 DEF SortedBut
  <2>3. CASE a # j /\ b # j
    <3>1. new[a] = old[a] /\ new[b] = old[b]
      BY <1>2, <2>3
    <3>. QED  BY <1>2, <2>3, <3>1 DEF SortedBut
  <2>. QED  BY <2>1, <2>2, <2>3
<1>3. ASSUME NEW b \in 1..i, j - 1 < b
      PROVE  ~Before(new[b], new[j - 1])
  <2>1. CASE b = j
    <3>1. old[j] \in BadgeRecord /\ old[j - 1] \in BadgeRecord
      BY <1>1
    <3>. QED  BY <2>1, <3>1, BeforeOrder
  <2>2. CASE b # j
    <3>1. j < b /\ new[b] = old[b]
      BY <1>3, <2>2
    <3>. QED  BY <3>1 DEF SortedBut
  <2>. QED  BY <2>1, <2>2
<1>4. SortedBut(new, i, j - 1)
  BY <1>2, <1>3 DEF SortedBut
<1>5. Range(new) = Range(old)
  <2>1. j \in 1..Len(old) /\ j - 1 \in 1..Len(old)
    BY <1>1
  <2>2. ASSUME NEW a \in 1..Len(old) PROVE \E b \in 1..Len(old) : new[a] = old[b]
    BY <2>1
  <2>3. ASSUME NEW a \in 1..Len(old) PROVE \E b \in 1..Len(old) : old[a] = new[b]
    BY <2>1
  <2>4. Range(new) = {new[a] : a \in 1..Len(old)} /\ Range(old) = {old[a] : a \in 1..Len(old)}
    BY <1>1 DEF Range
  <2>5. \A x \in {new[a] : a \in 1..Len(old)} : x \in {old[a] : a \in 1..Len(old)}
    BY <2>2
  <2>6. \A x \in {old[a] : a \in 1..Len(old)} : x \in {new[a] : a \in 1..Len(old)}
    BY <2>3
  <2>. QED  BY <2>4, <2>5, <2>6
<1>. QED  BY <1>4, <1>5

-----------------------------------------------------------------------------
(* The invariant of one slice: h is the heap and cl are the calls.            *)

Uses(k, s) == k.at \in InUse /\ k.slice = s

Swaps(k, s) == k.at = "swap" /\ k.slice = s

\* The records as they were before the swap that call k is in.
Undo(k, recs) ==
    [a \in 1..Len(recs) |->
        IF a = k.j THEN k.tmp
        ELSE IF a = k.j - 1 /\ k.back THEN recs[k.j] ELSE recs[a]]

\* The slice holds exactly the records R, once the swap is undone that is going on.
Holds(h, cl, s, R) ==
    \/ h[s].raced
    \/ /\ (\A c \in Caller : ~Swaps(cl[c], s)) => Range(h[s].recs) = R
       /\ \A c \in Caller : Swaps(cl[c], s) => Range(Undo(cl[c], h[s].recs)) = R

\* A call that uses a slice of n records is at one of its positions.
Position(k, n) ==
    /\ k.kind = IF k.at = "scan" THEN "version" ELSE "preferred"
    /\ k.at = "scan" => k.i \in 1..n /\ k.pass \in {1, 2}
    /\ k.at = "sort" => k.i \in 2..(n + 1) /\ k.j \in 1..k.i /\ (k.i = n + 1 => k.j = k.i)
    /\ k.at = "swap" => /\ k.i \in 2..n /\ k.j \in 2..k.i
                        /\ k.tmp \in BadgeRecord
                        /\ k.back \in BOOLEAN
                        /\ k.todo \subseteq Field

\* The fields that have been copied, of a swap that is called for.
SwapInv(k, recs) ==
    /\ Before(k.tmp, Undo(k, recs)[k.j - 1])
    /\ \A f \in Field \ k.todo :
          IF k.back THEN recs[k.j - 1][f] = k.tmp[f] ELSE recs[k.j][f] = recs[k.j - 1][f]

\* What a call has done with a slice for which nobody raced.
Progress(k, recs) ==
    /\ k.at = "scan" =>
          \A m \in 1..Len(recs) :
              /\ k.pass = 2 \/ m < k.i => recs[m].version # k.want
              /\ k.pass = 2 /\ m < k.i => recs[m].version # Absent
    /\ k.at = "sort" => SortedBut(recs, k.i, k.j)
    /\ k.at = "swap" => SortedBut(Undo(k, recs), k.i, k.j) /\ SwapInv(k, recs)
    /\ k.at = "ptr" => Sorted(recs, Len(recs))

SliceType(slice) == slice \in Slice /\ Len(slice.recs) >= 1

\* Calls cl2 are calls cl, but for goroutine c.
OnlyCall(cl2, cl, c, k) == cl2 = [cl EXCEPT ![c] = k]

\* Two calls, one of which sorts, have an unraced slice together only when it is sorted.
Shared(h, cl, s) ==
    \A c, d \in Caller :
        c # d /\ Uses(cl[c], s) /\ Uses(cl[d], s) /\ ~h[s].raced =>
            (cl[c].kind = "preferred" \/ cl[d].kind = "preferred" =>
                NewestFirst(h[s].recs) /\ cl[c].at # "swap" /\ cl[d].at # "swap")

\* A call of a slice; it has what the zone served that it is to answer for.
User(h, cl, s, k) ==
    /\ SliceType(h[s])
    /\ Position(k, Len(h[s].recs))
    /\ ~h[s].raced => Progress(k, h[s].recs)
    /\ k.zone # Absent => Holds(h, cl, s, Usable(k.zone))

SliceOK(h, cl, s) ==
    /\ Shared(h, cl, s)
    /\ \A c \in Caller : Uses(cl[c], s) => User(h, cl, s, cl[c])

LEMMA NoSwapper ==
    ASSUME NEW h, NEW cl, NEW s, SliceOK(h, cl, s), ~h[s].raced,
           NEW c \in Caller, Uses(cl[c], s)
    PROVE  /\ cl[c].at # "swap" => \A d \in Caller : ~Swaps(cl[d], s)
           /\ cl[c].at = "swap" => \A d \in Caller \ {c} : ~Uses(cl[d], s)
<1>1. \A d \in Caller : Swaps(cl[d], s) => Uses(cl[d], s) /\ cl[d].kind = "preferred"
  BY DEF SliceOK, User, Position, Swaps, Uses, InUse
<1>2. \A d \in Caller : d # c /\ Uses(cl[d], s) =>
          (cl[c].kind = "preferred" \/ cl[d].kind = "preferred" =>
              cl[c].at # "swap" /\ cl[d].at # "swap")
  BY DEF SliceOK, Shared
<1>3. cl[c].at # "swap" => \A d \in Caller : ~Swaps(cl[d], s)
  BY <1>1, <1>2 DEF Swaps
<1>4. cl[c].at = "swap" => cl[c].kind = "preferred"
  BY <1>1 DEF Swaps, Uses
<1>5. cl[c].at = "swap" => \A d \in Caller \ {c} : ~Uses(cl[d], s)
  BY <1>2, <1>4
<1>. QED  BY <1>3, <1>5

LEMMA HoldsUnswapped ==
    ASSUME NEW h, NEW cl, NEW s, NEW R, ~h[s].raced, \A d \in Caller : ~Swaps(cl[d], s)
    PROVE  Holds(h, cl, s, R) <=> Range(h[s].recs) = R
BY DEF Holds

LEMMA HoldsSwapped ==
    ASSUME NEW h, NEW cl, NEW s, NEW R, ~h[s].raced,
           NEW c \in Caller, Swaps(cl[c], s), \A d \in Caller \ {c} : ~Swaps(cl[d], s)
    PROVE  Holds(h, cl, s, R) <=> Range(Undo(cl[c], h[s].recs)) = R
BY DEF Holds

\* A step that leaves the slice and those who swap in it alone, and brings nobody new.
LEMMA SliceFrame ==
    ASSUME NEW h, NEW cl, NEW h2, NEW cl2, NEW s,
           SliceOK(h, cl, s), h2[s] = h[s],
           \A c \in Caller : Uses(cl2[c], s) \/ Swaps(cl[c], s) => cl2[c] = cl[c]
    PROVE  /\ SliceOK(h2, cl2, s)
           /\ \A R : Holds(h, cl, s, R) => Holds(h2, cl2, s, R)
<1>1. \A c \in Caller : Swaps(cl2[c], s) <=> Swaps(cl[c], s)
  BY DEF Swaps, Uses, InUse
<1>2. \A c \in Caller : Swaps(cl[c], s) => cl2[c] = cl[c]
  OBVIOUS
<1>3. ASSUME NEW R, Holds(h, cl, s, R) PROVE Holds(h2, cl2, s, R)
  <2>1. CASE h[s].raced
    BY <2>1 DEF Holds
  <2>2. CASE ~h[s].raced
    <3>1. /\ (\A c \in Caller : ~Swaps(cl[c], s)) => Range(h[s].recs) = R
          /\ \A c \in Caller : Swaps(cl[c], s) => Range(Undo(cl[c], h[s].recs)) = R
      BY <1>3, <2>2 DEF Holds
    <3>2. (\A c \in Caller : ~Swaps(cl2[c], s)) => Range(h2[s].recs) = R
      BY <1>1, <3>1
    <3>3. ASSUME NEW c \in Caller, Swaps(cl2[c], s) PROVE Range(Undo(cl2[c], h2[s].recs)) = R
      BY <1>1, <1>2, <3>1, <3>3
    <3>. QED  BY <3>2, <3>3 DEF Holds
  <2>. QED  BY <2>1, <2>2
<1>4. Shared(h2, cl2, s)
  BY DEF SliceOK, Shared
<1>5. ASSUME NEW c \in Caller, Uses(cl2[c], s) PROVE User(h2, cl2, s, cl2[c])
  <2>1. cl2[c] = cl[c] /\ User(h, cl, s, cl[c])
    BY <1>5 DEF SliceOK
  <2>2. cl[c].zone # Absent => Holds(h2, cl2, s, Usable(cl[c].zone))
    BY <1>3, <2>1 DEF User
  <2>. QED  BY <2>1, <2>2 DEF User
<1>. QED  BY <1>3, <1>4, <1>5 DEF SliceOK

\* The start of a sort or of a scan of the slice.
StartsIn(k, s) ==
    /\ k.slice = s
    /\ \/ k.at = "sort" /\ k.kind = "preferred" /\ k.i = 2 /\ k.j = 2
       \/ k.at = "scan" /\ k.kind = "version" /\ k.i = 1 /\ k.pass = 1

\* Another has the slice, one of the two sorts, and the slice may be out of order.
RacesFor(h, cl, s, c, k) ==
    \E d \in Caller \ {c} :
        /\ Uses(cl[d], s)
        /\ k.kind = "preferred" \/ cl[d].kind = "preferred"
        /\ NewestFirst(h[s].recs) => cl[d].at = "swap"

\* Goroutine c gets the slice.
LEMMA SliceJoined ==
    ASSUME NEW h, NEW cl, DOMAIN cl = Caller, NEW h2, NEW s, SliceOK(h, cl, s), SliceType(h[s]),
           NEW c \in Caller, cl[c].at \notin InUse, NEW k,
           StartsIn(k, s), k.zone # Absent => Holds(h, cl, s, Usable(k.zone)),
           SliceType(h2[s]), h2[s].recs = h[s].recs,
           h2[s].raced <=> h[s].raced \/ RacesFor(h, cl, s, c, k),
           NEW cl2, OnlyCall(cl2, cl, c, k)
    PROVE  /\ SliceOK(h2, cl2, s)
           /\ \A R : Holds(h, cl, s, R) => Holds(h2, cl2, s, R)
<1>. /\ k.slice = s
     /\ \/ k.at = "sort" /\ k.kind = "preferred" /\ k.i = 2 /\ k.j = 2
        \/ k.at = "scan" /\ k.kind = "version" /\ k.i = 1 /\ k.pass = 1
  BY DEF StartsIn
<1>1. cl2[c] = k /\ \A d \in Caller \ {c} : cl2[d] = cl[d]
  BY DEF OnlyCall
<1>2. \A d \in Caller : Swaps(cl2[d], s) <=> Swaps(cl[d], s)
  BY <1>1 DEF Swaps, InUse
<1>3. ASSUME NEW R, Holds(h, cl, s, R) PROVE Holds(h2, cl2, s, R)
  <2>1. CASE h2[s].raced
    BY <2>1 DEF Holds
  <2>2. CASE ~h2[s].raced
    <3>1. /\ (\A d \in Caller : ~Swaps(cl[d], s)) => Range(h[s].recs) = R
          /\ \A d \in Caller : Swaps(cl[d], s) => Range(Undo(cl[d], h[s].recs)) = R
      BY <1>3, <2>2 DEF Holds
    <3>2. (\A d \in Caller : ~Swaps(cl2[d], s)) => Range(h2[s].recs) = R
      BY <1>2, <3>1
    <3>3. ASSUME NEW d \in Caller, Swaps(cl2[d], s) PROVE Range(Undo(cl2[d], h2[s].recs)) = R
      <4>1. cl2[d] = cl[d]
        BY <1>1, <3>3 DEF Swaps
      <4>. QED  BY <1>2, <3>1, <3>3, <4>1
    <3>. QED  BY <3>2, <3>3 DEF Holds
  <2>. QED  BY <2>1, <2>2
<1>4. Len(h[s].recs) \in Nat /\ Len(h[s].recs) >= 1 /\ h[s].recs \in Seq(BadgeRecord)
  BY DEF SliceType, Slice
<1>5. User(h2, cl2, s, k)
  <2>1. Position(k, Len(h2[s].recs))
    BY <1>4 DEF Position
  <2>2. Progress(k, h2[s].recs)
    <3>1. CASE k.at = "sort"
      BY <3>1 DEF Progress, SortedBut
    <3>2. CASE k.at = "scan"
      BY <3>2 DEF Progress
    <3>. QED  BY <3>1, <3>2
  <2>. QED  BY <1>3, <2>1, <2>2 DEF User
<1>6. ASSUME NEW d \in Caller, Uses(cl2[d], s) PROVE User(h2, cl2, s, cl2[d])
  <2>1. CASE d = c
    BY <1>1, <1>5, <2>1
  <2>2. CASE d # c
    <3>1. cl2[d] = cl[d] /\ User(h, cl, s, cl[d])
      BY <1>1, <1>6, <2>2 DEF SliceOK
    <3>2. cl[d].zone # Absent => Holds(h2, cl2, s, Usable(cl[d].zone))
      BY <1>3, <3>1 DEF User
    <3>3. ~h2[s].raced => ~h[s].raced
      OBVIOUS
    <3>. QED  BY <3>1, <3>2, <3>3 DEF User
  <2>. QED  BY <2>1, <2>2
<1>7. Shared(h2, cl2, s)
  <2>. SUFFICES ASSUME ~h2[s].raced PROVE Shared(h2, cl2, s)
    BY DEF Shared
  <2>1. ASSUME NEW d \in Caller \ {c}, Uses(cl[d], s),
               k.kind = "preferred" \/ cl[d].kind = "preferred"
        PROVE  NewestFirst(h[s].recs) /\ cl[d].at # "swap"
    BY <2>1 DEF RacesFor
  <2>2. k.at # "swap"
    OBVIOUS
  <2>3. \A d, e \in Caller :
            d # e /\ Uses(cl[d], s) /\ Uses(cl[e], s) =>
                (cl[d].kind = "preferred" \/ cl[e].kind = "preferred" =>
                    NewestFirst(h[s].recs) /\ cl[d].at # "swap" /\ cl[e].at # "swap")
    BY DEF SliceOK, Shared
  <2>4. ASSUME NEW d \in Caller, NEW e \in Caller, d # e, Uses(cl2[d], s), Uses(cl2[e], s),
               cl2[d].kind = "preferred" \/ cl2[e].kind = "preferred"
        PROVE  NewestFirst(h2[s].recs) /\ cl2[d].at # "swap" /\ cl2[e].at # "swap"
    <3>1. CASE d = c
      BY <1>1, <2>1, <2>2, <2>4, <3>1
    <3>2. CASE e = c
      BY <1>1, <2>1, <2>2, <2>4, <3>2
    <3>3. CASE d # c /\ e # c
      BY <1>1, <2>3, <2>4, <3>3
    <3>. QED  BY <3>1, <3>2, <3>3
  <2>. QED  BY <2>4 DEF Shared
<1>. QED  BY <1>3, <1>6, <1>7 DEF SliceOK

\* A user of the slice goes on, and leaves the records alone.
LEMMA SliceMoved ==
    ASSUME NEW h, NEW cl, DOMAIN cl = Caller, NEW s, SliceOK(h, cl, s),
           NEW c \in Caller, Uses(cl[c], s), cl[c].at # "swap",
           NEW k, Uses(k, s), k.kind = cl[c].kind, k.zone = cl[c].zone,
           Position(k, Len(h[s].recs)),
           ~h[s].raced => Progress(k, h[s].recs),
           k.at = "swap" /\ ~h[s].raced =>
               ~NewestFirst(h[s].recs) /\ Undo(k, h[s].recs) = h[s].recs,
           NEW cl2, OnlyCall(cl2, cl, c, k)
    PROVE  /\ SliceOK(h, cl2, s)
           /\ \A R : Holds(h, cl, s, R) => Holds(h, cl2, s, R)
<1>1. cl2[c] = k /\ \A d \in Caller \ {c} : cl2[d] = cl[d]
  BY DEF OnlyCall
<1>2. ASSUME NEW R, Holds(h, cl, s, R) PROVE Holds(h, cl2, s, R)
  <2>1. CASE h[s].raced
    BY <2>1 DEF Holds
  <2>2. CASE ~h[s].raced
    <3>1. \A d \in Caller : ~Swaps(cl[d], s)
      BY <2>2, NoSwapper
    <3>2. Range(h[s].recs) = R
      BY <1>2, <2>2, <3>1, HoldsUnswapped
    <3>3. \A d \in Caller \ {c} : ~Swaps(cl2[d], s)
      BY <1>1, <3>1
    <3>4. CASE Swaps(k, s)
      BY <1>1, <2>2, <3>2, <3>3, <3>4, HoldsSwapped DEF Swaps
    <3>5. CASE ~Swaps(k, s)
      BY <1>1, <2>2, <3>2, <3>3, <3>5, HoldsUnswapped
    <3>. QED  BY <3>4, <3>5
  <2>. QED  BY <2>1, <2>2
<1>3. Shared(h, cl2, s)
  <2>. SUFFICES ASSUME ~h[s].raced, NEW d \in Caller, NEW e \in Caller, d # e,
                       Uses(cl2[d], s), Uses(cl2[e], s),
                       cl2[d].kind = "preferred" \/ cl2[e].kind = "preferred"
                PROVE  NewestFirst(h[s].recs) /\ cl2[d].at # "swap" /\ cl2[e].at # "swap"
    BY DEF Shared
  <2>1. /\ Uses(cl[d], s) /\ Uses(cl[e], s)
        /\ cl2[d].kind = cl[d].kind /\ cl2[e].kind = cl[e].kind
    BY <1>1
  <2>2. NewestFirst(h[s].recs) /\ cl[d].at # "swap" /\ cl[e].at # "swap"
    BY <2>1 DEF SliceOK, Shared
  <2>3. k.at # "swap"
    BY <2>2
  <2>. QED  BY <1>1, <2>2, <2>3
<1>4. ASSUME NEW d \in Caller, Uses(cl2[d], s) PROVE User(h, cl2, s, cl2[d])
  <2>1. User(h, cl, s, cl[d])
    BY <1>1, <1>4 DEF SliceOK
  <2>2. cl2[d].zone # Absent => Holds(h, cl2, s, Usable(cl2[d].zone))
    <3>1. cl2[d].zone = cl[d].zone
      BY <1>1
    <3>. QED  BY <1>2, <2>1, <3>1 DEF User
  <2>3. CASE d = c
    BY <1>1, <2>1, <2>2, <2>3 DEF User
  <2>4. CASE d # c
    BY <1>1, <2>1, <2>2, <2>4 DEF User
  <2>. QED  BY <2>3, <2>4
<1>. QED  BY <1>2, <1>3, <1>4 DEF SliceOK

-----------------------------------------------------------------------------
(* The swap, field by field.                                               *)

WithField(r, f, value) == [r EXCEPT ![f] = value]

LEMMA FieldWritten ==
    ASSUME NEW r \in BadgeRecord, NEW q \in BadgeRecord, NEW f \in Field
    PROVE  /\ WithField(r, f, q[f]) \in BadgeRecord
           /\ WithField(r, f, q[f])[f] = q[f]
           /\ \A g \in Field : g # f => WithField(r, f, q[f])[g] = r[g]
BY DEF WithField, BadgeRecord, Field

LEMMA SameFields ==
    ASSUME NEW r \in BadgeRecord, NEW q \in BadgeRecord, \A f \in Field : r[f] = q[f]
    PROVE  r = q
BY DEF BadgeRecord, Field

LEMMA UndoType ==
    ASSUME NEW recs \in Seq(BadgeRecord), NEW k, k.j \in 2..Len(recs), k.tmp \in BadgeRecord
    PROVE  /\ Undo(k, recs) \in Seq(BadgeRecord)
           /\ Len(Undo(k, recs)) = Len(recs)
           /\ Undo(k, recs)[k.j] = k.tmp
           /\ Undo(k, recs)[k.j - 1] = IF k.back THEN recs[k.j] ELSE recs[k.j - 1]
           /\ \A a \in 1..Len(recs) : a # k.j /\ a # k.j - 1 => Undo(k, recs)[a] = recs[a]
<1>1. Len(recs) \in Nat /\ \A a \in 1..Len(recs) : recs[a] \in BadgeRecord
  OBVIOUS
<1>2. Undo(k, recs) \in [1..Len(recs) -> BadgeRecord]
  BY <1>1 DEF Undo
<1>3. Undo(k, recs) \in Seq(BadgeRecord) /\ Len(Undo(k, recs)) = Len(recs)
  <2>. DEFINE u == Undo(k, recs)
  <2>1. u \in [1..Len(recs) -> BadgeRecord]
    BY <1>2
  <2>. HIDE DEF u
  <2>2. u \in Seq(BadgeRecord) /\ Len(u) = Len(recs)
    BY <1>1, <2>1
  <2>. QED  BY <2>2 DEF u
<1>4. \A a \in 1..Len(recs) :
          Undo(k, recs)[a] = IF a = k.j THEN k.tmp
                             ELSE IF a = k.j - 1 /\ k.back THEN recs[k.j] ELSE recs[a]
  BY DEF Undo
<1>5. k.j \in 1..Len(recs) /\ k.j - 1 \in 1..Len(recs) /\ k.j - 1 # k.j
  BY <1>1
<1>. QED  BY <1>3, <1>4, <1>5

LEMMA SwappingFields ==
    ASSUME NEW k, NEW tmp, NEW back, NEW todo, NEW k2, k2 = Swapping(k, tmp, back, todo)
    PROVE  /\ k2.at = "swap" /\ k2.kind = k.kind /\ k2.slice = k.slice /\ k2.zone = k.zone
           /\ k2.i = k.i /\ k2.j = k.j /\ k2.tmp = tmp /\ k2.back = back /\ k2.todo = todo
BY DEF Swapping

LEMMA SortingFields ==
    ASSUME NEW k, NEW s, NEW z, NEW i, NEW j, NEW k2, k2 = Sorting(k, s, z, i, j)
    PROVE  /\ k2.at = "sort" /\ k2.kind = k.kind /\ k2.slice = s /\ k2.zone = z
           /\ k2.i = i /\ k2.j = j
BY DEF Sorting

\* The records and the call after field f of the swap of call k.
Copied(k, f, recs) ==
    IF k.back THEN [recs EXCEPT ![k.j - 1] = WithField(recs[k.j - 1], f, k.tmp[f])]
    ELSE [recs EXCEPT ![k.j] = WithField(recs[k.j], f, recs[k.j - 1][f])]

AfterField(k, f) ==
    IF k.todo # {f} THEN Swapping(k, k.tmp, k.back, k.todo \ {f})
    ELSE IF ~k.back THEN Swapping(k, k.tmp, TRUE, Field)
    ELSE Sorting(k, k.slice, k.zone, k.i, k.j - 1)

\* The records with the swap of call k undone, if it is in one.
Undone(k, recs) == IF k.at = "swap" THEN Undo(k, recs) ELSE recs

\* What a step of the swap preserves.
SwapGoesOn(k, recs, k2, recs2) ==
    Progress(k, recs) =>
        /\ Progress(k2, recs2)
        /\ Range(Undone(k2, recs2)) = Range(Undo(k, recs))

\* One field is copied, and the records with the swap undone stay the same; with the last
\* field the swap is done.
LEMMA SwapStep ==
    ASSUME NEW recs \in Seq(BadgeRecord), NEW k, k.at = "swap",
           Position(k, Len(recs)), NEW f \in Field, f \in k.todo,
           NEW recs2, recs2 = Copied(k, f, recs), NEW k2, k2 = AfterField(k, f)
    PROVE  /\ recs2 \in Seq(BadgeRecord)
           /\ Len(recs2) = Len(recs)
           /\ Position(k2, Len(recs2))
           /\ SwapGoesOn(k, recs, k2, recs2)
<1>. DEFINE n == Len(recs)
<1>1. /\ n \in Nat /\ DOMAIN recs = 1..n
      /\ \A a \in 1..n : recs[a] \in BadgeRecord
  OBVIOUS
<1>2. /\ k.kind = "preferred" /\ k.i \in 2..n /\ k.j \in 2..k.i /\ k.j \in 1..n /\ k.j - 1 \in 1..n
      /\ k.tmp \in BadgeRecord /\ k.back \in BOOLEAN /\ k.todo \subseteq Field
      /\ k.j \in 2..n /\ k.j # k.j - 1
  BY <1>1 DEF Position
<1>3. recs[k.j] \in BadgeRecord /\ recs[k.j - 1] \in BadgeRecord
  BY <1>1, <1>2
<1>. DEFINE x == WithField(recs[k.j - 1], f, k.tmp[f])
            y == WithField(recs[k.j], f, recs[k.j - 1][f])
<1>4. /\ x \in BadgeRecord /\ x[f] = k.tmp[f]
      /\ \A g \in Field : g # f => x[g] = recs[k.j - 1][g]
  BY <1>2, <1>3, FieldWritten
<1>5. /\ y \in BadgeRecord /\ y[f] = recs[k.j - 1][f]
      /\ \A g \in Field : g # f => y[g] = recs[k.j][g]
  BY <1>2, <1>3, FieldWritten
<1>6. recs2 = IF k.back THEN [recs EXCEPT ![k.j - 1] = x] ELSE [recs EXCEPT ![k.j] = y]
  BY DEF Copied
<1>. HIDE DEF x, y
<1>7. /\ recs2 \in Seq(BadgeRecord) /\ Len(recs2) = n
      /\ recs2[k.j - 1] = IF k.back THEN x ELSE recs[k.j - 1]
      /\ recs2[k.j] = IF k.back THEN recs[k.j] ELSE y
      /\ \A a \in 1..n : a # k.j /\ a # k.j - 1 => recs2[a] = recs[a]
  BY <1>1, <1>2, <1>4, <1>5, <1>6
<1>8. CASE k.todo # {f} \/ ~k.back
  <2>. DEFINE b == IF k.todo # {f} THEN k.back ELSE TRUE
              todo == IF k.todo # {f} THEN k.todo \ {f} ELSE Field
  <2>1. k2 = Swapping(k, k.tmp, b, todo)
    BY <1>8 DEF AfterField
  <2>2. /\ k2.at = "swap" /\ k2.kind = k.kind /\ k2.i = k.i /\ k2.j = k.j /\ k2.tmp = k.tmp
        /\ k2.back = b /\ k2.todo = todo
    <3>. HIDE DEF b, todo
    <3>. QED  BY <2>1, SwappingFields
  <2>3. Position(k2, n)
    <3>1. b \in BOOLEAN /\ todo \subseteq Field
      BY <1>2
    <3>. HIDE DEF b, todo
    <3>. QED  BY <1>2, <2>2, <3>1 DEF Position
  <2>4. ASSUME Progress(k, recs)
        PROVE  Undo(k2, recs2) = Undo(k, recs) /\ SwapInv(k2, recs2)
    <3>1. /\ Before(k.tmp, Undo(k, recs)[k.j - 1])
          /\ \A g \in Field \ k.todo :
                IF k.back THEN recs[k.j - 1][g] = k.tmp[g] ELSE recs[k.j][g] = recs[k.j - 1][g]
      BY <2>4 DEF Progress, SwapInv
    <3>2. CASE k.todo # {f}
      <4>1. b = k.back /\ todo = k.todo \ {f}
        BY <3>2
      <4>. HIDE DEF b, todo
      <4>2. \A a \in 1..n : Undo(k2, recs2)[a] = Undo(k, recs)[a]
        <5>1. /\ Undo(k, recs)[k.j] = k.tmp
              /\ Undo(k, recs)[k.j - 1] = IF k.back THEN recs[k.j] ELSE recs[k.j - 1]
              /\ \A a \in 1..n : a # k.j /\ a # k.j - 1 => Undo(k, recs)[a] = recs[a]
          BY <1>2, UndoType
        <5>2. k2.j \in 2..Len(recs2) /\ k2.tmp \in BadgeRecord
          BY <1>2, <1>7, <2>2
        <5>3. /\ Undo(k2, recs2)[k2.j] = k2.tmp
              /\ Undo(k2, recs2)[k2.j - 1] = IF k2.back THEN recs2[k2.j] ELSE recs2[k2.j - 1]
              /\ \A a \in 1..Len(recs2) :
                    a # k2.j /\ a # k2.j - 1 => Undo(k2, recs2)[a] = recs2[a]
          BY <1>7, <5>2, UndoType
        <5>4. CASE k.back
          BY <1>7, <2>2, <4>1, <5>1, <5>3, <5>4
        <5>5. CASE ~k.back
          BY <1>7, <2>2, <4>1, <5>1, <5>3, <5>5
        <5>. QED  BY <5>4, <5>5
      <4>3. Undo(k2, recs2) = Undo(k, recs)
        BY <1>7, <4>2 DEF Undo
      <4>4. ASSUME NEW g \in Field \ k2.todo
            PROVE  IF k2.back THEN recs2[k2.j - 1][g] = k2.tmp[g]
                   ELSE recs2[k2.j][g] = recs2[k2.j - 1][g]
        <5>0. k2.back = k.back /\ k2.j = k.j /\ k2.tmp = k.tmp
          BY <2>2, <4>1
        <5>1. CASE g = f
          <6>1. CASE k.back
            BY <1>4, <1>7, <5>0, <5>1, <6>1
          <6>2. CASE ~k.back
            BY <1>5, <1>7, <5>0, <5>1, <6>2
          <6>. QED  BY <6>1, <6>2
        <5>2. CASE g # f
          <6>1. g \in Field \ k.todo
            BY <2>2, <4>1, <4>4, <5>2
          <6>2. CASE k.back
            BY <1>4, <1>7, <3>1, <5>0, <5>2, <6>1, <6>2
          <6>3. CASE ~k.back
            BY <1>5, <1>7, <3>1, <5>0, <5>2, <6>1, <6>3
          <6>. QED  BY <6>2, <6>3
        <5>. QED  BY <5>1, <5>2
      <4>. QED  BY <2>2, <3>1, <4>3, <4>4 DEF SwapInv
    <3>3. CASE k.todo = {f}
      <4>1. ~k.back /\ b = TRUE /\ todo = Field
        BY <1>8, <3>3
      <4>. HIDE DEF b, todo
      <4>2. y = recs[k.j - 1]
        <5>1. \A g \in Field : y[g] = recs[k.j - 1][g]
          BY <1>5, <3>1, <3>3, <4>1
        <5>. QED  BY <1>3, <1>5, <5>1, SameFields
      <4>3. \A a \in 1..n : Undo(k2, recs2)[a] = Undo(k, recs)[a]
        BY <1>2, <1>7, <2>2, <4>1, <4>2 DEF Undo
      <4>4. Undo(k2, recs2) = Undo(k, recs)
        BY <1>7, <4>3 DEF Undo
      <4>. QED  BY <2>2, <3>1, <4>1, <4>4 DEF SwapInv
    <3>. QED  BY <3>2, <3>3
  <2>5. ASSUME Progress(k, recs) PROVE Progress(k2, recs2)
    <3>1. SortedBut(Undo(k, recs), k.i, k.j)
      BY <2>5 DEF Progress
    <3>. QED  BY <2>2, <2>4, <2>5, <3>1 DEF Progress
  <2>6. Undone(k2, recs2) = Undo(k2, recs2)
    BY <2>2 DEF Undone
  <2>. QED  BY <1>7, <2>3, <2>4, <2>5, <2>6 DEF SwapGoesOn
<1>9. CASE k.todo = {f} /\ k.back
  <2>1. k2 = Sorting(k, k.slice, k.zone, k.i, k.j - 1)
    BY <1>9 DEF AfterField
  <2>2. k2.at = "sort" /\ k2.kind = k.kind /\ k2.i = k.i /\ k2.j = k.j - 1
    BY <2>1, SortingFields
  <2>3. Position(k2, n)
    <3>1. k.j - 1 \in 1..k.i /\ k.i \in 2..(n + 1) /\ k.i # n + 1
      BY <1>1, <1>2
    <3>. QED  BY <1>2, <2>2, <3>1 DEF Position
  <2>4. ASSUME Progress(k, recs)
        PROVE  SortedBut(recs2, k.i, k.j - 1) /\ Range(recs2) = Range(Undo(k, recs))
    <3>. DEFINE old == Undo(k, recs)
    <3>1. /\ Before(k.tmp, old[k.j - 1])
          /\ \A g \in Field \ k.todo : recs[k.j - 1][g] = k.tmp[g]
          /\ SortedBut(old, k.i, k.j)
      BY <1>9, <2>4 DEF Progress, SwapInv
    <3>2. x = k.tmp
      <4>1. \A g \in Field : x[g] = k.tmp[g]
        BY <1>4, <1>9, <3>1
      <4>. QED  BY <1>2, <1>4, <4>1, SameFields
    <3>3. /\ old \in Seq(BadgeRecord) /\ Len(old) = n
          /\ old[k.j] = k.tmp /\ old[k.j - 1] = recs[k.j]
          /\ \A a \in 1..n : a # k.j /\ a # k.j - 1 => old[a] = recs[a]
      BY <1>2, <1>9, UndoType
    <3>4. /\ recs2[k.j] = old[k.j - 1] /\ recs2[k.j - 1] = old[k.j]
          /\ \A a \in 1..n : a # k.j /\ a # k.j - 1 => recs2[a] = old[a]
      BY <1>7, <1>9, <3>2, <3>3
    <3>. HIDE DEF old
    <3>5. SortedBut(recs2, k.i, k.j - 1) /\ Range(recs2) = Range(old)
      <4>1. k.i \in 2..Len(old) /\ k.j \in 2..k.i /\ Len(recs2) = Len(old)
        BY <1>2, <1>7, <3>3
      <4>2. Before(old[k.j], old[k.j - 1])
        BY <3>1, <3>3
      <4>3. \A a \in 1..Len(old) : a # k.j /\ a # k.j - 1 => recs2[a] = old[a]
        BY <3>3, <3>4
      <4>4. recs2 \in Seq(BadgeRecord) /\ old \in Seq(BadgeRecord)
        BY <1>7, <3>3
      <4>. QED  BY <3>1, <3>4, <4>1, <4>2, <4>3, <4>4, InsertionSwaps
    <3>. QED  BY <3>5 DEF old
  <2>5. Progress(k, recs) => Progress(k2, recs2)
    BY <2>2, <2>4 DEF Progress
  <2>6. Undone(k2, recs2) = recs2
    BY <2>2 DEF Undone
  <2>. QED  BY <1>7, <2>3, <2>4, <2>5, <2>6 DEF SwapGoesOn
<1>. QED  BY <1>8, <1>9

LEMMA SliceSwapped ==
    ASSUME NEW h, NEW cl, DOMAIN cl = Caller, NEW s, SliceOK(h, cl, s),
           NEW c \in Caller, Swaps(cl[c], s),
           NEW recs2 \in Seq(BadgeRecord), Len(recs2) = Len(h[s].recs),
           NEW k2, k2.at \in {"sort", "swap"}, k2.slice = s, k2.zone = cl[c].zone,
           Position(k2, Len(recs2)),
           SwapGoesOn(cl[c], h[s].recs, k2, recs2),
           NEW h2, h2[s] \in Slice, h2[s].recs = recs2, h2[s].raced = h[s].raced,
           NEW cl2, OnlyCall(cl2, cl, c, k2)
    PROVE  /\ SliceOK(h2, cl2, s)
           /\ \A R : Holds(h, cl, s, R) => Holds(h2, cl2, s, R)
<1>1. cl2[c] = k2 /\ \A d \in Caller \ {c} : cl2[d] = cl[d]
  BY DEF OnlyCall
<1>2. Uses(cl[c], s) /\ User(h, cl, s, cl[c])
  BY DEF SliceOK, Swaps, Uses, InUse
<1>3. SliceType(h2[s])
  BY <1>2 DEF User, SliceType
<1>4. CASE h[s].raced
  <2>1. \A R : Holds(h2, cl2, s, R)
    BY <1>4 DEF Holds
  <2>2. Shared(h2, cl2, s)
    BY <1>4 DEF Shared
  <2>3. ASSUME NEW d \in Caller, Uses(cl2[d], s) PROVE User(h2, cl2, s, cl2[d])
    <3>1. CASE d = c
      BY <1>1, <1>3, <1>4, <2>1, <3>1 DEF User
    <3>2. CASE d # c
      <4>1. User(h, cl, s, cl[d]) /\ cl2[d] = cl[d]
        BY <1>1, <2>3, <3>2 DEF SliceOK
      <4>. QED  BY <1>3, <1>4, <2>1, <4>1 DEF User
    <3>. QED  BY <3>1, <3>2
  <2>. QED  BY <2>1, <2>2, <2>3 DEF SliceOK
<1>5. CASE ~h[s].raced
  <2>1. \A d \in Caller \ {c} : ~Uses(cl[d], s)
    BY <1>2, <1>5, NoSwapper DEF Swaps
  <2>2. \A d \in Caller \ {c} : ~Uses(cl2[d], s) /\ ~Swaps(cl2[d], s) /\ ~Swaps(cl[d], s)
    BY <1>1, <2>1 DEF Uses, Swaps, InUse
  <2>3. Progress(cl[c], h[s].recs)
    BY <1>2, <1>5 DEF User
  <2>4. ASSUME NEW R, Holds(h, cl, s, R) PROVE Holds(h2, cl2, s, R)
    <3>1. Range(Undo(cl[c], h[s].recs)) = R
      BY <1>5, <2>2, <2>4, HoldsSwapped
    <3>2. Range(Undone(k2, recs2)) = R
      BY <2>3, <3>1 DEF SwapGoesOn
    <3>3. CASE k2.at = "swap"
      <4>1. Swaps(cl2[c], s) /\ Range(Undo(cl2[c], h2[s].recs)) = R
        BY <1>1, <3>2, <3>3 DEF Swaps, Undone
      <4>. QED  BY <1>5, <2>2, <4>1, HoldsSwapped
    <3>4. CASE k2.at # "swap"
      <4>1. ~Swaps(cl2[c], s) /\ Range(h2[s].recs) = R
        BY <1>1, <3>2, <3>4 DEF Swaps, Undone
      <4>. QED  BY <1>5, <2>2, <4>1, HoldsUnswapped
    <3>. QED  BY <3>3, <3>4
  <2>5. Shared(h2, cl2, s)
    BY <2>2 DEF Shared
  <2>6. User(h2, cl2, s, cl2[c])
    <3>0. Progress(k2, recs2)
      BY <2>3 DEF SwapGoesOn
    <3>1. cl2[c].zone # Absent => Holds(h2, cl2, s, Usable(cl2[c].zone))
      BY <1>1, <1>2, <2>4 DEF User
    <3>. QED  BY <1>1, <1>3, <3>0, <3>1 DEF User
  <2>7. \A d \in Caller : Uses(cl2[d], s) => User(h2, cl2, s, cl2[d])
    BY <2>2, <2>6
  <2>. QED  BY <2>4, <2>5, <2>7 DEF SliceOK
<1>. QED  BY <1>4, <1>5

-----------------------------------------------------------------------------
(* The steps of a sort and of a scan, and what they end with.                 *)

\* The next comparison of the sort of call k.
AfterSort(k, recs) ==
    IF k.i > Len(recs) THEN Pointing(k)
    ELSE IF k.j > 1 /\ Before(recs[k.j], recs[k.j - 1]) THEN Swapping(k, recs[k.j], FALSE, Field)
    ELSE Sorting(k, k.slice, k.zone, k.i + 1, k.i + 1)

LEMMA SortMoves ==
    ASSUME NEW recs \in Seq(BadgeRecord), Len(recs) >= 1, NEW k, k.at = "sort",
           Position(k, Len(recs)), NEW k2, k2 = AfterSort(k, recs)
    PROVE  /\ k2.at \in InUse /\ k2.slice = k.slice /\ k2.kind = k.kind /\ k2.zone = k.zone
           /\ Position(k2, Len(recs))
           /\ Progress(k, recs) => Progress(k2, recs)
           /\ k2.at = "swap" => ~NewestFirst(recs) /\ Undo(k2, recs) = recs
<1>. DEFINE n == Len(recs)
<1>1. n \in Nat /\ DOMAIN recs = 1..n /\ \A a \in 1..n : recs[a] \in BadgeRecord
  OBVIOUS
<1>2. k.kind = "preferred" /\ k.i \in 2..(n + 1) /\ k.j \in 1..k.i /\ (k.i = n + 1 => k.j = k.i)
  BY DEF Position
<1>3. CASE k.i > n
  <2>1. k2 = Pointing(k)
    BY <1>3 DEF AfterSort
  <2>2. k2.at = "ptr" /\ k2.slice = k.slice /\ k2.kind = k.kind /\ k2.zone = k.zone
    BY <2>1 DEF Pointing
  <2>3. Position(k2, n)
    BY <1>2, <2>2 DEF Position
  <2>4. k.i = n + 1 /\ k.j = n + 1
    BY <1>1, <1>2, <1>3
  <2>5. SortedBut(recs, n + 1, n + 1) => Sorted(recs, n)
    BY <1>1 DEF SortedBut, Sorted
  <2>6. Progress(k, recs) => Progress(k2, recs)
    BY <2>2, <2>4, <2>5 DEF Progress
  <2>. QED  BY <2>2, <2>3, <2>6 DEF InUse
<1>4. CASE k.i <= n /\ k.j > 1 /\ Before(recs[k.j], recs[k.j - 1])
  <2>1. k2 = Swapping(k, recs[k.j], FALSE, Field)
    <3>1. ~(k.i > Len(recs))
      BY <1>1, <1>2, <1>4
    <3>. QED  BY <1>4, <3>1 DEF AfterSort
  <2>2. /\ k2.at = "swap" /\ k2.kind = k.kind /\ k2.slice = k.slice /\ k2.zone = k.zone
        /\ k2.i = k.i /\ k2.j = k.j /\ k2.tmp = recs[k.j] /\ k2.back = FALSE /\ k2.todo = Field
    <3>1. PICK tmp : tmp = recs[k.j]
      OBVIOUS
    <3>2. PICK todo : todo = Field
      OBVIOUS
    <3>3. k2 = Swapping(k, tmp, FALSE, todo)
      BY <2>1, <3>1, <3>2
    <3>4. /\ k2.at = "swap" /\ k2.kind = k.kind /\ k2.slice = k.slice /\ k2.zone = k.zone
          /\ k2.i = k.i /\ k2.j = k.j /\ k2.tmp = tmp /\ k2.back = FALSE /\ k2.todo = todo
      BY <3>3 DEF Swapping
    <3>. QED  BY <3>1, <3>2, <3>4
  <2>3. k.i \in 2..n /\ k.j \in 2..k.i /\ k.j \in 2..n /\ recs[k.j] \in BadgeRecord
    BY <1>1, <1>2, <1>4
  <2>4. Position(k2, n)
    BY <1>2, <2>2, <2>3 DEF Position
  <2>5. Undo(k2, recs) = recs
    <3>1. \A a \in 1..n : Undo(k2, recs)[a] = recs[a]
      BY <2>2 DEF Undo
    <3>2. Undo(k2, recs) \in Seq(BadgeRecord) /\ Len(Undo(k2, recs)) = n
      BY <2>2, <2>3, UndoType
    <3>. QED  BY <1>1, <3>1, <3>2
  <2>6. ~NewestFirst(recs)
    <3>1. k.j - 1 \in 1..(n - 1) /\ k.j - 1 + 1 = k.j
      BY <1>1, <2>3
    <3>. QED  BY <1>4, <3>1 DEF NewestFirst
  <2>7. SwapInv(k2, recs)
    BY <1>4, <2>2, <2>5 DEF SwapInv
  <2>8. Progress(k, recs) => Progress(k2, recs)
    BY <2>2, <2>5, <2>7 DEF Progress
  <2>. QED  BY <2>2, <2>4, <2>5, <2>6, <2>8 DEF InUse
<1>5. CASE k.i <= n /\ ~(k.j > 1 /\ Before(recs[k.j], recs[k.j - 1]))
  <2>1. k2 = Sorting(k, k.slice, k.zone, k.i + 1, k.i + 1)
    <3>1. ~(k.i > Len(recs))
      BY <1>1, <1>2, <1>5
    <3>. QED  BY <1>5, <3>1 DEF AfterSort
  <2>2. /\ k2.at = "sort" /\ k2.kind = k.kind /\ k2.slice = k.slice /\ k2.zone = k.zone
        /\ k2.i = k.i + 1 /\ k2.j = k.i + 1
    BY <2>1, SortingFields
  <2>3. k.i \in 2..n /\ k.i + 1 \in 2..(n + 1) /\ k.i + 1 \in 1..(k.i + 1)
    BY <1>1, <1>2, <1>5
  <2>4. Position(k2, n)
    BY <1>2, <2>2, <2>3 DEF Position
  <2>5. SortedBut(recs, k.i, k.j) => SortedBut(recs, k.i + 1, k.i + 1)
    BY <1>2, <1>5, <2>3, InsertionEnds
  <2>6. Progress(k, recs) => Progress(k2, recs)
    BY <2>2, <2>5 DEF Progress
  <2>. QED  BY <2>2, <2>4, <2>6 DEF InUse
<1>6. k.i > n \/ k.i <= n
  BY <1>1, <1>2
<1>. QED  BY <1>3, <1>4, <1>5, <1>6

\* The record that a scan looks for.
Matches(k, r) == r.version = IF k.pass = 1 THEN k.want ELSE Absent

\* The scan goes on to the next record or to the second pass.
AfterScan(k, recs) ==
    IF k.i < Len(recs) THEN Scanning(k, k.slice, k.zone, k.i + 1, k.pass)
    ELSE Scanning(k, k.slice, k.zone, 1, 2)

LEMMA ScanMoves ==
    ASSUME NEW recs \in Seq(BadgeRecord), Len(recs) >= 1, NEW k, k.at = "scan",
           Position(k, Len(recs)), ~Matches(k, recs[k.i]), k.i < Len(recs) \/ k.pass = 1,
           NEW k2, k2 = AfterScan(k, recs)
    PROVE  /\ k2.at = "scan" /\ k2.slice = k.slice /\ k2.kind = k.kind /\ k2.zone = k.zone
           /\ Position(k2, Len(recs))
           /\ Progress(k, recs) => Progress(k2, recs)
<1>. DEFINE n == Len(recs)
<1>1. n \in Nat /\ n >= 1
  OBVIOUS
<1>2. k.kind = "version" /\ k.i \in 1..n /\ k.pass \in {1, 2}
  BY DEF Position
<1>. DEFINE i2 == IF k.i < n THEN k.i + 1 ELSE 1
            pass2 == IF k.i < n THEN k.pass ELSE 2
<1>3. k2 = Scanning(k, k.slice, k.zone, i2, pass2)
  BY DEF AfterScan
<1>4. i2 \in 1..n /\ pass2 \in {1, 2}
  BY <1>1, <1>2
<1>5. Progress(k, recs) =>
          \A m \in 1..n : /\ pass2 = 2 \/ m < i2 => recs[m].version # k.want
                          /\ pass2 = 2 /\ m < i2 => recs[m].version # Absent
  <2>1. SUFFICES ASSUME Progress(k, recs), NEW m \in 1..n
                 PROVE  /\ pass2 = 2 \/ m < i2 => recs[m].version # k.want
                        /\ pass2 = 2 /\ m < i2 => recs[m].version # Absent
    OBVIOUS
  <2>2. /\ k.pass = 2 \/ m < k.i => recs[m].version # k.want
        /\ k.pass = 2 /\ m < k.i => recs[m].version # Absent
    BY <2>1 DEF Progress
  <2>3. /\ k.pass = 1 => recs[k.i].version # k.want
        /\ k.pass = 2 => recs[k.i].version # Absent
    BY DEF Matches
  <2>4. CASE k.i < n
    BY <1>1, <1>2, <2>2, <2>3, <2>4
  <2>5. CASE ~(k.i < n)
    BY <1>1, <1>2, <2>2, <2>3, <2>5
  <2>. QED  BY <2>4, <2>5
<1>. HIDE DEF i2, pass2
<1>6. /\ k2.at = "scan" /\ k2.slice = k.slice /\ k2.kind = k.kind /\ k2.zone = k.zone
      /\ k2.want = k.want /\ k2.i = i2 /\ k2.pass = pass2
  BY <1>3 DEF Scanning
<1>7. Position(k2, n)
  BY <1>2, <1>4, <1>6 DEF Position
<1>8. Progress(k, recs) => Progress(k2, recs)
  BY <1>5, <1>6 DEF Progress
<1>. QED  BY <1>6, <1>7, <1>8

LEMMA BadgeSeq ==
    ASSUME NEW recs \in Seq(BadgeRecord)
    PROVE  /\ Len(recs) \in Nat /\ DOMAIN recs = 1..Len(recs)
           /\ \A a \in 1..Len(recs) : recs[a] \in BadgeRecord
OBVIOUS

\* The first record of a sorted slice is the preferred badge.
LEMMA FirstIsPreferred ==
    ASSUME NEW recs \in Seq(BadgeRecord), Len(recs) >= 1, Sorted(recs, Len(recs)),
           NEW z, Range(recs) = Usable(z), NEW want, NEW o
    PROVE  o.err = "" /\ o.rec = recs[1] => RightFor("preferred", want, o, z)
<1>1. /\ Len(recs) \in Nat /\ 1 \in 1..Len(recs) /\ DOMAIN recs = 1..Len(recs)
      /\ \A a \in 1..Len(recs) : recs[a] \in BadgeRecord
  BY BadgeSeq
<1>2. recs[1] \in Usable(z)
  BY <1>1 DEF Range
<1>3. ASSUME NEW r \in Usable(z) PROVE ~Before(r, recs[1])
  <2>1. PICK b \in 1..Len(recs) : r = recs[b]
    BY <1>1, <1>3 DEF Range
  <2>2. CASE b = 1
    BY <1>1, <2>1, <2>2, BeforeOrder
  <2>3. CASE b # 1
    <3>1. 1 < b
      BY <1>1, <2>3
    <3>. QED  BY <1>1, <2>1, <3>1 DEF Sorted
  <2>. QED  BY <2>2, <2>3
<1>. QED  BY <1>2, <1>3 DEF RightFor

\* A scan that stops has the record of its version or, if there is none, one without.
LEMMA ScanFinds ==
    ASSUME NEW recs \in Seq(BadgeRecord), NEW k, k.at = "scan", Position(k, Len(recs)),
           Progress(k, recs), Matches(k, recs[k.i]),
           NEW z, Range(recs) = Usable(z), NEW o
    PROVE  o.err = "" /\ o.rec = recs[k.i] => RightFor("version", k.want, o, z)
<1>1. /\ Len(recs) \in Nat /\ DOMAIN recs = 1..Len(recs)
      /\ k.i \in 1..Len(recs) /\ k.pass \in {1, 2}
  BY BadgeSeq DEF Position
<1>2. recs[k.i] \in Usable(z)
  BY <1>1 DEF Range
<1>3. k.pass = 2 => \A r \in Usable(z) : r.version # k.want
  BY <1>1 DEF Progress, Range
<1>4. CASE k.pass = 1
  <2>1. recs[k.i].version = k.want
    BY <1>4 DEF Matches
  <2>. QED  BY <1>2, <2>1 DEF RightFor
<1>5. CASE k.pass = 2
  <2>1. recs[k.i].version = Absent
    <3>1. k.pass # 1
      BY <1>5
    <3>. QED  BY <3>1 DEF Matches
  <2>2. {r \in Usable(z) : r.version = k.want} = {}
    BY <1>3, <1>5
  <2>. QED  BY <1>2, <2>1, <2>2 DEF RightFor
<1>. QED  BY <1>1, <1>4, <1>5

\* A scan that ends without has seen that there is neither.
LEMMA ScanMisses ==
    ASSUME NEW recs \in Seq(BadgeRecord), NEW k, k.at = "scan", Position(k, Len(recs)),
           Progress(k, recs), ~Matches(k, recs[k.i]), k.i = Len(recs), k.pass = 2,
           NEW z, Range(recs) = Usable(z), NEW o, o.err = "NotFound"
    PROVE  RightFor("version", k.want, o, z)
<1>1. /\ Len(recs) \in Nat /\ DOMAIN recs = 1..Len(recs) /\ k.i \in 1..Len(recs)
  BY BadgeSeq DEF Position
<1>2. \A m \in 1..Len(recs) : recs[m].version # k.want /\ recs[m].version # Absent
  <2>1. recs[k.i].version # Absent
    BY DEF Matches
  <2>. QED  BY <1>1, <2>1 DEF Progress
<1>3. \A r \in Usable(z) : r.version # k.want /\ r.version # Absent
  BY <1>1, <1>2 DEF Range
<1>. QED  BY <1>3 DEF RightFor

LEMMA NothingUsable ==
    ASSUME NEW z, Usable(z) = {}, NEW want, NEW kind \in {"preferred", "version"},
           NEW o, o.err = "NotFound"
    PROVE  RightFor(kind, want, o, z)
BY DEF RightFor

-----------------------------------------------------------------------------
(* The inductive invariant: cl are the calls, ch is the cache, h the heap, t the time and *)
(* u the time since when the zone z is served.                               *)

\* The outcome of call k is right for the zone it answers for.
Right(k, o) ==
    o.err \in {"", "NotFound"} =>
        (o.zone # Absent /\ (k.kind # "discovery" => ("raced" \in DOMAIN o => ~o.raced)) =>
            RightFor(k.kind, k.want, o, o.zone))

OutcomeOK(k) ==
    /\ Right(k, k.outcome)
    /\ k.kind = "discovery" /\ k.outcome.err = "" =>
          ATIRecords(k.outcome.records) /\ k.outcome.records # <<>>

\* A lookup ends in time, and the legacy name is asked because there is nothing under the
\* first, or because there was nothing one lookup after the change at the latest.
LookupOK(k, t, u, z) ==
    /\ k.deadline \in Nat /\ t <= k.deadline /\ k.deadline <= t + Timeout
    /\ k.kind = "discovery" => k.name = "disc"
    /\ k.kind # "discovery" => k.name \in {"ati", "ra"}
    /\ k.name = "ra" => BadgesUnder(z, "ati") = {} \/ k.deadline <= u + 2 * Timeout

\* An answer is of this zone or came one lookup after its change at the latest.
AnswerOK(k, u, z) ==
    \E y \in Zones : k.txts \in SetToSeqs(y[k.name]) /\ (y = z \/ k.deadline <= u + Timeout)

Place == {"idle", "start", "expired", "query", "answered", "done", "sort", "swap", "scan", "ptr"}

CallOK(k, t, u, z) ==
    /\ k.at \in Place
    /\ k.at # "idle" => k.kind \in {"preferred", "version", "discovery"}
    /\ k.at \in InUse => k.slice \in SliceId
    /\ k.at \in {"query", "answered"} => LookupOK(k, t, u, z)
    /\ k.at = "answered" => AnswerOK(k, u, z)
    /\ k.at = "done" => OutcomeOK(k)

CallsOK(cl, t, u, z) == DOMAIN cl = Caller /\ \A c \in Caller : CallOK(cl[c], t, u, z)

\* The discovery goroutine of a ParallelDiscovery.
ParallelOK(p, cl) ==
    p # <<>> => 1 \in DOMAIN p /\ p[1] \in Caller /\ cl[p[1]].at # "idle" /\ cl[p[1]].kind = "discovery"

SlicesOK(h, cl) == \A s \in SliceId : SliceOK(h, cl, s)

HeapOK(h, ch, cl) ==
    /\ h \in [SliceId -> Slice \cup {Absent}]
    /\ \A s \in SliceId : h[s] # Absent => s \in Reachable(ch, cl)

\* A cached result is right for the zone or was stored two lookups after its change at
\* the latest.
EntryOK(e, t) == e.createdAt \in Nat /\ e.createdAt <= t /\ e.result.found \in BOOLEAN

BadgeEntryOK(e, h, cl, t, u, z) ==
    /\ EntryOK(e, t)
    /\ e.result.found => e.result.slice \in SliceId /\ SliceType(h[e.result.slice])
    /\ \/ e.createdAt <= u + 2 * Timeout
       \/ /\ e.result.found => Holds(h, cl, e.result.slice, Usable(z))
          /\ ~e.result.found => Usable(z) = {}

DiscoveryEntryOK(e, t, u, z) ==
    /\ EntryOK(e, t)
    /\ e.result.found => ATIRecords(e.result.records) /\ e.result.records # <<>>
    /\ \/ e.createdAt <= u + 2 * Timeout
       \/ /\ e.result.found => ATIRecordsOf(z) = Range(e.result.records)
          /\ ~e.result.found => ATIRecordsOf(z) = {}

CacheOK(ch, h, cl, t, u, z) ==
    /\ DOMAIN ch = Key
    /\ ch["badge"] # Absent => BadgeEntryOK(ch["badge"], h, cl, t, u, z)
    /\ ch["discovery"] # Absent => DiscoveryEntryOK(ch["discovery"], t, u, z)

TimeOK(t, u, z) == t \in Nat /\ u \in Nat /\ u <= t /\ z \in Zones

IInv ==
    /\ TimeOK(now, since, zone)
    /\ CallsOK(call, now, since, zone)
    /\ ParallelOK(parallel, call)
    /\ SlicesOK(heap, call)
    /\ HeapOK(heap, cache, call)
    /\ CacheOK(cache, heap, call, now, since, zone)

-----------------------------------------------------------------------------
(* Steps of one call.                                                      *)

LEMMA OneCall ==
    ASSUME NEW cl, NEW t, NEW u, NEW z, CallsOK(cl, t, u, z), NEW p, ParallelOK(p, cl),
           NEW c \in Caller, NEW k, CallOK(k, t, u, z),
           k.at # "idle", cl[c].at # "idle" => k.kind = cl[c].kind,
           NEW cl2, OnlyCall(cl2, cl, c, k)
    PROVE  CallsOK(cl2, t, u, z) /\ ParallelOK(p, cl2)
<1>1. DOMAIN cl = Caller /\ \A d \in Caller : CallOK(cl[d], t, u, z)
  BY DEF CallsOK
<1>2. DOMAIN cl2 = Caller /\ cl2[c] = k /\ \A d \in Caller : d # c => cl2[d] = cl[d]
  BY <1>1 DEF OnlyCall
<1>3. CallsOK(cl2, t, u, z)
  BY <1>1, <1>2 DEF CallsOK
<1>4. ParallelOK(p, cl2)
  BY <1>2 DEF ParallelOK
<1>. QED  BY <1>3, <1>4

\* What a step from heap h and calls cl to heap h2 and calls cl2 does for the slices.
SlicesKept(h, cl, h2, cl2) ==
    \A s \in SliceId :
        /\ SliceOK(h2, cl2, s)
        /\ SliceType(h[s]) =>
              SliceType(h2[s]) /\ \A R : Holds(h, cl, s, R) => Holds(h2, cl2, s, R)

\* The calls that go on have no slice before the step and none after, or give it up.
LEMMA KeptWithout ==
    ASSUME NEW h, NEW cl, SlicesOK(h, cl), NEW cl2,
           \A c \in Caller : cl2[c] # cl[c] => cl[c].at # "swap" /\ cl2[c].at \notin InUse
    PROVE  SlicesKept(h, cl, h, cl2)
<1>. SUFFICES ASSUME NEW s \in SliceId
              PROVE  SliceOK(h, cl2, s) /\ \A R : Holds(h, cl, s, R) => Holds(h, cl2, s, R)
  BY DEF SlicesKept
<1>1. SliceOK(h, cl, s)
  BY DEF SlicesOK
<1>2. \A d \in Caller : Uses(cl2[d], s) \/ Swaps(cl[d], s) => cl2[d] = cl[d]
  BY DEF Uses, Swaps
<1>3. h[s] = h[s]
  OBVIOUS
<1>. QED  BY <1>1, <1>2, <1>3, SliceFrame

\* The other slices, when the step is about slice s.
LEMMA KeptElsewhere ==
    ASSUME NEW h, NEW cl, DOMAIN cl = Caller, SlicesOK(h, cl), NEW s \in SliceId,
           NEW c \in Caller, \A q \in SliceId : Uses(cl[c], q) => q = s,
           NEW k, \A q \in SliceId : Uses(k, q) => q = s,
           NEW cl2, OnlyCall(cl2, cl, c, k),
           NEW h2, \A q \in SliceId : q # s => h2[q] = h[q],
           SliceOK(h2, cl2, s),
           SliceType(h[s]) =>
               SliceType(h2[s]) /\ \A R : Holds(h, cl, s, R) => Holds(h2, cl2, s, R)
    PROVE  SlicesKept(h, cl, h2, cl2)
<1>1. cl2[c] = k /\ \A d \in Caller : d # c => cl2[d] = cl[d]
  BY DEF OnlyCall
<1>2. ASSUME NEW q \in SliceId, q # s
      PROVE  SliceOK(h2, cl2, q) /\ \A R : Holds(h, cl, q, R) => Holds(h2, cl2, q, R)
  <2>1. SliceOK(h, cl, q)
    BY DEF SlicesOK
  <2>2. ~Uses(cl[c], q) /\ ~Uses(k, q)
    BY <1>2
  <2>3. ~Swaps(cl[c], q)
    BY <2>2 DEF Uses, Swaps, InUse
  <2>4. \A d \in Caller : Uses(cl2[d], q) \/ Swaps(cl[d], q) => cl2[d] = cl[d]
    BY <1>1, <2>2, <2>3
  <2>5. h2[q] = h[q]
    BY <1>2
  <2>. QED  BY <2>1, <2>4, <2>5, SliceFrame
<1>. QED  BY <1>2 DEF SlicesKept

\* The cache keeps its promise when no entry is new.
LEMMA CacheKept ==
    ASSUME NEW h, NEW cl, NEW h2, NEW cl2, SlicesKept(h, cl, h2, cl2),
           NEW ch, NEW t, NEW u, NEW z, CacheOK(ch, h, cl, t, u, z),
           NEW ch2, DOMAIN ch2 = Key, \A key \in Key : ch2[key] = ch[key] \/ ch2[key] = Absent
    PROVE  CacheOK(ch2, h2, cl2, t, u, z)
<1>1. "badge" \in Key /\ "discovery" \in Key
  BY DEF Key
<1>2. ASSUME ch2["badge"] # Absent PROVE BadgeEntryOK(ch2["badge"], h2, cl2, t, u, z)
  <2>1. ch2["badge"] = ch["badge"] /\ BadgeEntryOK(ch["badge"], h, cl, t, u, z)
    BY <1>1, <1>2 DEF CacheOK
  <2>2. PICK e : e = ch["badge"]
    OBVIOUS
  <2>3. BadgeEntryOK(e, h, cl, t, u, z)
    BY <2>1, <2>2
  <2>4. e.result.found => SliceType(h2[e.result.slice])
    BY <2>3 DEF BadgeEntryOK, SlicesKept
  <2>5. e.result.found /\ Holds(h, cl, e.result.slice, Usable(z)) => Holds(h2, cl2, e.result.slice, Usable(z))
    BY <2>3 DEF BadgeEntryOK, SlicesKept
  <2>6. BadgeEntryOK(e, h2, cl2, t, u, z)
    BY <2>3, <2>4, <2>5 DEF BadgeEntryOK
  <2>. QED  BY <2>1, <2>2, <2>6
<1>3. ASSUME ch2["discovery"] # Absent PROVE DiscoveryEntryOK(ch2["discovery"], t, u, z)
  BY <1>1, <1>3 DEF CacheOK
<1>. QED  BY <1>2, <1>3 DEF CacheOK

\* Heap h2 is heap h without what neither the cache nor a call reaches.
IsCollected(h2, h, ch, cl) ==
    h2 = [s \in SliceId |-> IF s \in Reachable(ch, cl) THEN h[s] ELSE Absent]

LEMMA ReachesUsed ==
    ASSUME NEW ch, NEW cl, NEW c \in Caller, NEW s, Uses(cl[c], s)
    PROVE  s \in Reachable(ch, cl)
BY DEF Reachable, Uses

LEMMA ReachesCached ==
    ASSUME NEW ch, NEW cl, ch["badge"] # Absent, ch["badge"].result.found
    PROVE  ch["badge"].result.slice \in Reachable(ch, cl)
BY DEF Reachable, SliceOf

LEMMA Collect ==
    ASSUME NEW h, NEW cl, NEW ch, NEW t, NEW u, NEW z,
           h \in [SliceId -> Slice \cup {Absent}],
           SlicesOK(h, cl), CacheOK(ch, h, cl, t, u, z),
           NEW h2, IsCollected(h2, h, ch, cl)
    PROVE  HeapOK(h2, ch, cl) /\ SlicesOK(h2, cl) /\ CacheOK(ch, h2, cl, t, u, z)
<1>1. HeapOK(h2, ch, cl)
  <2>1. h2 \in [SliceId -> Slice \cup {Absent}]
    BY DEF IsCollected
  <2>. QED  BY <2>1 DEF HeapOK, IsCollected
<1>2. ASSUME NEW s \in SliceId, s \in Reachable(ch, cl)
      PROVE  SliceOK(h2, cl, s) /\ \A R : Holds(h, cl, s, R) => Holds(h2, cl, s, R)
  <2>1. h2[s] = h[s]
    BY <1>2 DEF IsCollected
  <2>2. \A c \in Caller : Uses(cl[c], s) \/ Swaps(cl[c], s) => cl[c] = cl[c]
    OBVIOUS
  <2>3. SliceOK(h, cl, s)
    BY DEF SlicesOK
  <2>. QED  BY <2>1, <2>2, <2>3, SliceFrame
<1>3. ASSUME NEW s \in SliceId, s \notin Reachable(ch, cl)
      PROVE  SliceOK(h2, cl, s)
  <2>1. \A c \in Caller : ~Uses(cl[c], s)
    BY <1>3, ReachesUsed
  <2>. QED  BY <2>1 DEF SliceOK, Shared
<1>4. SlicesOK(h2, cl)
  BY <1>2, <1>3 DEF SlicesOK
<1>5. ASSUME ch["badge"] # Absent PROVE BadgeEntryOK(ch["badge"], h2, cl, t, u, z)
  <2>1. BadgeEntryOK(ch["badge"], h, cl, t, u, z)
    BY <1>5 DEF CacheOK
  <2>2. PICK e : e = ch["badge"]
    OBVIOUS
  <2>3. BadgeEntryOK(e, h, cl, t, u, z)
    BY <2>1, <2>2
  <2>4. e.result.found => e.result.slice \in SliceId /\ e.result.slice \in Reachable(ch, cl)
    BY <1>5, <2>2, <2>3, ReachesCached DEF BadgeEntryOK
  <2>5. e.result.found => h2[e.result.slice] = h[e.result.slice]
    BY <2>4 DEF IsCollected
  <2>6. e.result.found /\ Holds(h, cl, e.result.slice, Usable(z)) => Holds(h2, cl, e.result.slice, Usable(z))
    BY <1>2, <2>4
  <2>7. BadgeEntryOK(e, h2, cl, t, u, z)
    BY <2>3, <2>5, <2>6 DEF BadgeEntryOK
  <2>. QED  BY <2>2, <2>7
<1>6. CacheOK(ch, h2, cl, t, u, z)
  BY <1>5 DEF CacheOK
<1>. QED  BY <1>1, <1>4, <1>6

\* Calls that have the slices that they had reach what they reached.
LEMMA SameReachable ==
    ASSUME NEW ch, NEW cl, NEW cl2,
           \A c \in Caller : /\ cl2[c].at \in InUse <=> cl[c].at \in InUse
                             /\ cl2[c].at \in InUse => cl2[c].slice = cl[c].slice
    PROVE  Reachable(ch, cl2) = Reachable(ch, cl)
<1>1. {cl2[d].slice : d \in {e \in Caller : cl2[e].at \in InUse}} =
      {cl[d].slice : d \in {e \in Caller : cl[e].at \in InUse}}
  OBVIOUS
<1>. QED  BY <1>1 DEF Reachable

LEMMA AllReached ==
    ASSUME NEW h, NEW ch, NEW cl, HeapOK(h, ch, cl), NEW cl2, Reachable(ch, cl2) = Reachable(ch, cl)
    PROVE  IsCollected(h, h, ch, cl2)
BY DEF HeapOK, IsCollected

-----------------------------------------------------------------------------
(* The steps that have nothing to do with the records of a slice.              *)

LEMMA StepInv ==
    ASSUME IInv, NEW h, h \in [SliceId -> Slice \cup {Absent}],
           SlicesKept(heap, call, h, call'),
           CacheOK(cache', h, call', now, since, zone),
           IsCollected(heap', h, cache', call'),
           CallsOK(call', now, since, zone), ParallelOK(parallel', call'),
           UNCHANGED <<now, since, zone>>
    PROVE  IInv'
<1>1. SlicesOK(h, call')
  BY DEF SlicesKept, SlicesOK
<1>2. HeapOK(heap', cache', call') /\ SlicesOK(heap', call')
      /\ CacheOK(cache', heap', call', now, since, zone)
  BY <1>1, Collect
<1>3. TimeOK(now, since, zone)
  BY DEF IInv
<1>. QED  BY <1>2, <1>3 DEF IInv

LEMMA CallMoves ==
    ASSUME IInv, NEW c \in Caller, NEW k, Goto(c, k), CallOK(k, now, since, zone),
           k.at # "idle", call[c].at # "idle" => k.kind = call[c].kind,
           NEW h, h \in [SliceId -> Slice \cup {Absent}],
           SlicesKept(heap, call, h, call'),
           CacheOK(cache', h, call', now, since, zone),
           IsCollected(heap', h, cache', call'),
           UNCHANGED <<now, since, zone, parallel>>
    PROVE  IInv'
<1>1. call' = [call EXCEPT ![c] = k]
  BY DEF Goto
<1>2. CallsOK(call, now, since, zone) /\ ParallelOK(parallel, call)
  BY DEF IInv
<1>3. CallsOK(call', now, since, zone) /\ ParallelOK(parallel, call')
  BY <1>1, <1>2, OneCall DEF OnlyCall
<1>4. ParallelOK(parallel', call')
  BY <1>3
<1>5. UNCHANGED <<now, since, zone>>
  OBVIOUS
<1>. QED  BY <1>3, <1>4, <1>5, StepInv

\* A call goes on without a slice, and the cache loses entries at most.
LEMMA CallLeaves ==
    ASSUME IInv, NEW c \in Caller, NEW k, Goto(c, k), CallOK(k, now, since, zone),
           k.at \notin InUse, k.at # "idle", call[c].at # "idle" => k.kind = call[c].kind,
           call[c].at # "swap",
           DOMAIN cache' = Key, \A key \in Key : cache'[key] = cache[key] \/ cache'[key] = Absent,
           IsCollected(heap', heap, cache', call'),
           UNCHANGED <<now, since, zone, parallel>>
    PROVE  IInv'
<1>1. call' = [call EXCEPT ![c] = k] /\ DOMAIN call = Caller
  BY DEF Goto, IInv, CallsOK
<1>2. \A d \in Caller : call'[d] # call[d] => call[d].at # "swap" /\ call'[d].at \notin InUse
  BY <1>1
<1>3. SlicesOK(heap, call) /\ CacheOK(cache, heap, call, now, since, zone)
      /\ heap \in [SliceId -> Slice \cup {Absent}]
  BY DEF IInv, HeapOK
<1>4. SlicesKept(heap, call, heap, call')
  BY <1>2, <1>3, KeptWithout
<1>5. CacheOK(cache', heap, call', now, since, zone)
  BY <1>3, <1>4, CacheKept
<1>. QED  BY <1>3, <1>4, <1>5, CallMoves

LEMMA CallWaits ==
    ASSUME IInv, NEW c \in Caller, NEW k, Goto(c, k), CallOK(k, now, since, zone),
           k.at \notin InUse, k.at # "idle", call[c].at # "idle" => k.kind = call[c].kind,
           call[c].at \notin InUse,
           UNCHANGED <<now, since, zone, parallel, cache, heap>>
    PROVE  IInv'
<1>1. call' = [call EXCEPT ![c] = k] /\ DOMAIN call = Caller
  BY DEF Goto, IInv, CallsOK
<1>2. \A d \in Caller : /\ call'[d].at \in InUse <=> call[d].at \in InUse
                        /\ call'[d].at \in InUse => call'[d].slice = call[d].slice
  BY <1>1
<1>3. Reachable(cache, call') = Reachable(cache, call)
  BY <1>2, SameReachable
<1>4. HeapOK(heap, cache, call)
  BY DEF IInv
<1>5. IsCollected(heap, heap, cache, call')
  BY <1>3, <1>4, AllReached
<1>6. IsCollected(heap', heap, cache', call')
  BY <1>5
<1>7. DOMAIN cache' = Key /\ \A key \in Key : cache'[key] = cache[key] \/ cache'[key] = Absent
  BY DEF IInv, CacheOK
<1>8. call[c].at # "swap" /\ UNCHANGED <<now, since, zone, parallel>>
  BY DEF InUse
<1>. QED  BY <1>6, <1>7, <1>8, CallLeaves

LEMMA QueryOK ==
    ASSUME NEW k, k.kind \in {"preferred", "version", "discovery"},
           NEW t \in Nat, NEW u \in Nat, NEW z, NEW name,
           k.kind = "discovery" => name = "disc",
           k.kind # "discovery" => name \in {"ati", "ra"},
           name = "ra" => BadgesUnder(z, "ati") = {} \/ t + Timeout <= u + 2 * Timeout,
           NEW k2, k2 = Querying(k, name, t + Timeout)
    PROVE  k2.at = "query" /\ k2.kind = k.kind /\ CallOK(k2, t, u, z)
<1>1. k2.at = "query" /\ k2.kind = k.kind /\ k2.name = name /\ k2.deadline = t + Timeout
  BY DEF Querying
<1>2. t + Timeout \in Nat /\ t <= t + Timeout
  BY ResolverConstants
<1>3. LookupOK(k2, t, u, z)
  BY <1>1, <1>2 DEF LookupOK
<1>. QED  BY <1>1, <1>3 DEF CallOK, Place, InUse

LEMMA ErrorOK ==
    ASSUME NEW k, k.kind \in {"preferred", "version", "discovery"},
           NEW t, NEW u, NEW z, NEW err \in {"Timeout", "LookupFailed"},
           NEW k2, k2 = Ended(k, [err |-> err])
    PROVE  k2.at = "done" /\ k2.kind = k.kind /\ CallOK(k2, t, u, z)
<1>1. k2.at = "done" /\ k2.kind = k.kind /\ k2.outcome.err = err
  BY DEF Ended
<1>2. OutcomeOK(k2)
  BY <1>1 DEF OutcomeOK, Right
<1>. QED  BY <1>1, <1>2 DEF CallOK, Place, InUse

LEMMA TickInv ==
    ASSUME IInv, Tick PROVE IInv'
<1>1. now \in Nat /\ now' = now + 1 /\ now' \in Nat /\ Timeout \in Nat
  BY ResolverConstants DEF IInv, TimeOK, Tick
<1>2. TimeOK(now', since', zone')
  BY <1>1 DEF IInv, TimeOK, Tick
<1>3. ASSUME NEW c \in Caller PROVE CallOK(call[c], now', since, zone)
  <2>1. CallOK(call[c], now, since, zone)
    BY DEF IInv, CallsOK
  <2>2. PICK k : k = call[c]
    OBVIOUS
  <2>3. k.at \in {"query", "answered"} => now < k.deadline
    BY <2>2 DEF Tick
  <2>4. CallOK(k, now, since, zone)
    BY <2>1, <2>2
  <2>5. LookupOK(k, now, since, zone) /\ now < k.deadline => LookupOK(k, now', since, zone)
    BY <1>1 DEF LookupOK
  <2>6. CallOK(k, now', since, zone)
    BY <2>3, <2>4, <2>5 DEF CallOK
  <2>. QED  BY <2>2, <2>6
<1>4. CallsOK(call', now', since', zone')
  BY <1>3 DEF IInv, CallsOK, Tick
<1>5. ASSUME NEW e, EntryOK(e, now) PROVE EntryOK(e, now')
  BY <1>1, <1>5 DEF EntryOK
<1>6. CacheOK(cache, heap, call, now', since, zone)
  BY <1>5 DEF IInv, CacheOK, BadgeEntryOK, DiscoveryEntryOK
<1>. QED  BY <1>2, <1>4, <1>6 DEF IInv, Tick

LEMMA PublishInv ==
    ASSUME IInv, NEW y \in Zones, Publish(y) PROVE IInv'
<1>1. now \in Nat /\ Timeout \in Nat /\ now' = now /\ since' = now /\ zone' = y
  BY ResolverConstants DEF IInv, TimeOK, Publish
<1>2. TimeOK(now', since', zone')
  BY <1>1 DEF TimeOK
<1>3. ASSUME NEW c \in Caller PROVE CallOK(call[c], now, now, y)
  <2>1. PICK k : k = call[c]
    OBVIOUS
  <2>2. CallOK(k, now, since, zone)
    BY <2>1 DEF IInv, CallsOK
  <2>3. LookupOK(k, now, since, zone) => LookupOK(k, now, now, y)
    BY <1>1 DEF LookupOK
  <2>4. LookupOK(k, now, since, zone) /\ AnswerOK(k, since, zone) => AnswerOK(k, now, y)
    BY DEF LookupOK, AnswerOK
  <2>5. CallOK(k, now, now, y)
    BY <2>2, <2>3, <2>4 DEF CallOK
  <2>. QED  BY <2>1, <2>5
<1>4. CallsOK(call', now', since', zone')
  BY <1>1, <1>3 DEF IInv, CallsOK, Publish
<1>5. ASSUME NEW e, EntryOK(e, now) PROVE e.createdAt <= now + 2 * Timeout
  BY <1>1, <1>5 DEF EntryOK
<1>6. CacheOK(cache, heap, call, now, now, y)
  BY <1>5 DEF IInv, CacheOK, BadgeEntryOK, DiscoveryEntryOK
<1>. QED  BY <1>1, <1>2, <1>4, <1>6 DEF IInv, Publish

LEMMA ClearCacheInv ==
    ASSUME IInv, ClearCache PROVE IInv'
<1>1. SlicesOK(heap, call) /\ heap \in [SliceId -> Slice \cup {Absent}]
      /\ CallsOK(call, now, since, zone) /\ ParallelOK(parallel, call)
  BY DEF IInv, HeapOK
<1>2. call' = call /\ parallel' = parallel /\ UNCHANGED <<now, since, zone>>
  BY DEF ClearCache
<1>3. SlicesKept(heap, call, heap, call')
  BY <1>1, <1>2, KeptWithout
<1>4. CacheOK(cache', heap, call', now, since, zone)
  BY DEF ClearCache, CacheOK, Key
<1>5. IsCollected(heap', heap, cache', call')
  BY DEF ClearCache, HeapBecomes, IsCollected
<1>6. CallsOK(call', now, since, zone) /\ ParallelOK(parallel', call')
  BY <1>1, <1>2
<1>. QED  BY <1>1, <1>2, <1>3, <1>4, <1>5, <1>6, StepInv

LEMMA DeleteExpiredInv ==
    ASSUME IInv, NEW c \in Caller, DeleteExpired(c) PROVE IInv'
<1>. DEFINE name == FirstName(call[c].kind)
            k == Querying(call[c], name, now + Timeout)
<1>1. CallOK(call[c], now, since, zone) /\ now \in Nat /\ since \in Nat
  BY DEF IInv, CallsOK, TimeOK
<1>2. call[c].at = "expired" /\ Goto(c, k)
  BY DEF DeleteExpired, Query
<1>3. call[c].kind \in {"preferred", "version", "discovery"}
  BY <1>1, <1>2 DEF CallOK
<1>4. /\ call[c].kind = "discovery" => name = "disc"
      /\ call[c].kind # "discovery" => name = "ati"
  BY DEF FirstName
<1>. HIDE DEF name
<1>5. k.at = "query" /\ k.kind = call[c].kind /\ CallOK(k, now, since, zone)
  BY <1>1, <1>3, <1>4, QueryOK
<1>. HIDE DEF k
<1>6. DOMAIN cache' = Key /\ \A key \in Key : cache'[key] = cache[key] \/ cache'[key] = Absent
  BY DEF DeleteExpired, IInv, CacheOK
<1>7. IsCollected(heap', heap, cache', call')
  BY DEF DeleteExpired, HeapBecomes, IsCollected
<1>8. k.at \notin InUse /\ k.at # "idle" /\ call[c].at # "swap" /\ UNCHANGED <<now, since, zone, parallel>>
  BY <1>2, <1>5 DEF InUse, DeleteExpired
<1>. QED  BY <1>2, <1>5, <1>6, <1>7, <1>8, CallLeaves

LEMMA AnswerInv ==
    ASSUME IInv, NEW c \in Caller, NEW txts \in SetToSeqs(zone[call[c].name]), Answer(c, txts)
    PROVE  IInv'
<1>. DEFINE k == Answered(call[c], txts)
<1>1. CallOK(call[c], now, since, zone) /\ zone \in Zones
  BY DEF IInv, CallsOK, TimeOK
<1>2. call[c].at = "query" /\ Goto(c, k) /\ UNCHANGED <<now, since, zone, parallel, cache, heap>>
  BY DEF Answer
<1>3. call[c].kind \in {"preferred", "version", "discovery"} /\ LookupOK(call[c], now, since, zone)
  BY <1>1, <1>2 DEF CallOK
<1>4. /\ k.at = "answered" /\ k.kind = call[c].kind /\ k.name = call[c].name
      /\ k.deadline = call[c].deadline /\ k.txts = txts
  BY DEF Answered
<1>. HIDE DEF k
<1>5. LookupOK(k, now, since, zone)
  BY <1>3, <1>4 DEF LookupOK
<1>6. AnswerOK(k, since, zone)
  BY <1>1, <1>4 DEF AnswerOK
<1>7. CallOK(k, now, since, zone)
  BY <1>3, <1>4, <1>5, <1>6 DEF CallOK, Place, InUse
<1>8. k.at \notin InUse /\ k.at # "idle" /\ call[c].at \notin InUse
  BY <1>2, <1>4 DEF InUse
<1>. QED  BY <1>2, <1>4, <1>7, <1>8, CallWaits

LEMMA LookupFailsInv ==
    ASSUME IInv, NEW c \in Caller, NEW err \in {"Timeout", "LookupFailed"}, LookupFails(c, err)
    PROVE  IInv'
<1>. DEFINE k == Ended(call[c], [err |-> err])
<1>1. CallOK(call[c], now, since, zone)
  BY DEF IInv, CallsOK
<1>2. call[c].at = "query" /\ Goto(c, k) /\ UNCHANGED <<now, since, zone, parallel, cache, heap>>
  BY DEF LookupFails, Done
<1>3. call[c].kind \in {"preferred", "version", "discovery"}
  BY <1>1, <1>2 DEF CallOK
<1>4. k.at = "done" /\ k.kind = call[c].kind /\ CallOK(k, now, since, zone)
  BY <1>3, ErrorOK
<1>. HIDE DEF k
<1>5. k.at \notin InUse /\ k.at # "idle" /\ call[c].at \notin InUse
  BY <1>2, <1>4 DEF InUse
<1>. QED  BY <1>2, <1>4, <1>5, CallWaits

\* The legacy name is asked after an answer with no usable record: of this zone, or one
\* lookup after its change.
LEMMA FallBackInv ==
    ASSUME IInv, NEW c \in Caller, FallBack(c) PROVE IInv'
<1>. DEFINE k == Querying(call[c], "ra", now + Timeout)
<1>1. CallOK(call[c], now, since, zone) /\ now \in Nat /\ since \in Nat
  BY DEF IInv, CallsOK, TimeOK
<1>2. /\ call[c].at = "answered" /\ call[c].name = "ati" /\ ParsedBadges(call[c].txts) = <<>>
      /\ Goto(c, k) /\ UNCHANGED <<now, since, zone, parallel, cache, heap>>
  BY DEF FallBack, Query
<1>3. /\ call[c].kind \in {"preferred", "version", "discovery"}
      /\ LookupOK(call[c], now, since, zone) /\ AnswerOK(call[c], since, zone)
  BY <1>1, <1>2 DEF CallOK
<1>4. call[c].kind # "discovery"
  BY <1>2, <1>3 DEF LookupOK
<1>5. BadgesUnder(zone, "ati") = {} \/ now + Timeout <= since + 2 * Timeout
  <2>1. PICK y \in Zones : /\ call[c].txts \in SetToSeqs(y[call[c].name])
                           /\ y = zone \/ call[c].deadline <= since + Timeout
    BY <1>3 DEF AnswerOK
  <2>2. call[c].txts \in SetToSeqs(y["ati"])
    BY <1>2, <2>1
  <2>3. BadgesUnder(y, "ati") = {}
    BY <1>2, <2>2, ParsedBadgesAre
  <2>4. call[c].deadline \in Nat /\ now <= call[c].deadline /\ Timeout \in Nat
    BY <1>3, ResolverConstants DEF LookupOK
  <2>5. CASE y = zone
    BY <2>3, <2>5
  <2>6. CASE call[c].deadline <= since + Timeout
    BY <1>1, <2>4, <2>6
  <2>. QED  BY <2>1, <2>5, <2>6
<1>6. k.at = "query" /\ k.kind = call[c].kind /\ CallOK(k, now, since, zone)
  BY <1>1, <1>3, <1>4, <1>5, QueryOK
<1>. HIDE DEF k
<1>7. k.at \notin InUse /\ k.at # "idle" /\ call[c].at \notin InUse
  BY <1>2, <1>6 DEF InUse
<1>. QED  BY <1>2, <1>6, <1>7, CallWaits

\* Calls become idle or start.
LEMMA CallsBeginOrEnd ==
    ASSUME IInv, \A c \in Caller : call'[c] # call[c] =>
                     /\ call[c].at \notin InUse /\ call'[c].at \in {"idle", "start"}
                     /\ call'[c].at = "start" => call'[c].kind \in {"preferred", "version", "discovery"},
           DOMAIN call' = Caller, ParallelOK(parallel', call'),
           UNCHANGED <<now, since, zone, cache, heap>>
    PROVE  IInv'
<1>1. /\ SlicesOK(heap, call) /\ HeapOK(heap, cache, call)
      /\ heap \in [SliceId -> Slice \cup {Absent}]
      /\ CacheOK(cache, heap, call, now, since, zone) /\ CallsOK(call, now, since, zone)
  BY DEF IInv, HeapOK
<1>2. \A c \in Caller : call'[c] # call[c] => call[c].at # "swap" /\ call'[c].at \notin InUse
  BY DEF InUse
<1>3. SlicesKept(heap, call, heap, call')
  BY <1>1, <1>2, KeptWithout
<1>4. \A c \in Caller : /\ call'[c].at \in InUse <=> call[c].at \in InUse
                        /\ call'[c].at \in InUse => call'[c].slice = call[c].slice
  BY <1>2
<1>5. Reachable(cache, call') = Reachable(cache, call)
  BY <1>4, SameReachable
<1>6. IsCollected(heap, heap, cache, call')
  BY <1>1, <1>5, AllReached
<1>7. DOMAIN cache' = Key /\ \A key \in Key : cache'[key] = cache[key] \/ cache'[key] = Absent
  BY <1>1 DEF CacheOK
<1>8. CacheOK(cache', heap, call', now, since, zone)
  BY <1>1, <1>3, <1>7, CacheKept
<1>9. CallsOK(call', now, since, zone)
  <2>1. ASSUME NEW c \in Caller, call'[c] # call[c] PROVE CallOK(call'[c], now, since, zone)
    <3>1. PICK k : k = call'[c]
      OBVIOUS
    <3>2. k.at \in {"idle", "start"} /\ (k.at = "start" => k.kind \in {"preferred", "version", "discovery"})
      BY <2>1, <3>1
    <3>3. CallOK(k, now, since, zone)
      BY <3>2 DEF CallOK, Place, InUse
    <3>. QED  BY <3>1, <3>3
  <2>. QED  BY <1>1, <2>1 DEF CallsOK
<1>10. IsCollected(heap', heap, cache', call') /\ UNCHANGED <<now, since, zone>>
  BY <1>6
<1>. QED  BY <1>1, <1>3, <1>8, <1>9, <1>10, StepInv

LEMMA ReturnOutcomeInv ==
    ASSUME IInv, NEW c \in Caller, ReturnOutcome(c) PROVE IInv'
<1>1. /\ call[c].at = "done" /\ call' = [call EXCEPT ![c] = Idle]
      /\ \A i \in DOMAIN parallel : parallel[i] # c
      /\ parallel' = parallel /\ UNCHANGED <<now, since, zone, cache, heap>>
  BY DEF ReturnOutcome
<1>2. DOMAIN call = Caller /\ ParallelOK(parallel, call)
  BY DEF IInv, CallsOK
<1>3. Idle.at = "idle"
  BY DEF Idle
<1>4. /\ DOMAIN call' = Caller
      /\ call'[c] = Idle /\ \A d \in Caller : d # c => call'[d] = call[d]
  BY <1>1, <1>2
<1>5. ParallelOK(parallel', call')
  BY <1>1, <1>2, <1>4 DEF ParallelOK
<1>6. \A d \in Caller : call'[d] # call[d] =>
          /\ call[d].at \notin InUse /\ call'[d].at \in {"idle", "start"}
          /\ call'[d].at = "start" => call'[d].kind \in {"preferred", "version", "discovery"}
  BY <1>1, <1>3, <1>4 DEF InUse
<1>. QED  BY <1>1, <1>4, <1>5, <1>6, CallsBeginOrEnd

LEMMA ParallelDiscoveryInv ==
    ASSUME IInv, NEW d \in Caller, NEW b \in Caller, ParallelDiscovery(d, b) PROVE IInv'
<1>. DEFINE kd == Started([kind |-> "discovery", want |-> Absent])
            kb == Started([kind |-> "preferred", want |-> Absent])
<1>1. /\ d # b /\ call[d].at = "idle" /\ call[b].at = "idle"
      /\ call' = [call EXCEPT ![d] = kd, ![b] = kb]
      /\ parallel' = <<d, b>> /\ UNCHANGED <<now, since, zone, cache, heap>>
  BY DEF ParallelDiscovery
<1>2. DOMAIN call = Caller
  BY DEF IInv, CallsOK
<1>3. kd.at = "start" /\ kd.kind = "discovery" /\ kb.at = "start" /\ kb.kind = "preferred"
  BY DEF Started
<1>. HIDE DEF kd, kb
<1>4. /\ DOMAIN call' = Caller
      /\ call'[d] = kd /\ call'[b] = kb /\ \A c \in Caller : c # d /\ c # b => call'[c] = call[c]
  BY <1>1, <1>2
<1>5. 1 \in DOMAIN parallel' /\ parallel'[1] = d
  BY <1>1
<1>6. ParallelOK(parallel', call')
  BY <1>3, <1>4, <1>5 DEF ParallelOK
<1>7. \A c \in Caller : call'[c] # call[c] =>
          /\ call[c].at \notin InUse /\ call'[c].at \in {"idle", "start"}
          /\ call'[c].at = "start" => call'[c].kind \in {"preferred", "version", "discovery"}
  BY <1>1, <1>3, <1>4 DEF InUse
<1>. QED  BY <1>1, <1>4, <1>6, <1>7, CallsBeginOrEnd

LEMMA WaitReturnsInv ==
    ASSUME IInv, WaitReturns PROVE IInv'
<1>1. /\ \A i \in DOMAIN parallel : call[parallel[i]].at = "done"
      /\ call' = [c \in Caller |-> IF c \in Range(parallel) THEN Idle ELSE call[c]]
      /\ parallel' = <<>> /\ UNCHANGED <<now, since, zone, cache, heap>>
  BY DEF WaitReturns
<1>2. Idle.at = "idle"
  BY DEF Idle
<1>3. \A c \in Caller : c \in Range(parallel) => call[c].at = "done"
  BY <1>1 DEF Range
<1>4. ParallelOK(parallel', call')
  BY <1>1 DEF ParallelOK
<1>5. DOMAIN call' = Caller
  BY <1>1
<1>6. \A c \in Caller : call'[c] # call[c] =>
          /\ call[c].at \notin InUse /\ call'[c].at \in {"idle", "start"}
          /\ call'[c].at = "start" => call'[c].kind \in {"preferred", "version", "discovery"}
  BY <1>1, <1>2, <1>3 DEF InUse
<1>. QED  BY <1>1, <1>4, <1>5, <1>6, CallsBeginOrEnd

-----------------------------------------------------------------------------
(* The steps that find a result in the cache or store one.                    *)

\* There are more slices than a cache entry and the calls but one can reach.
LEMMA FreeSlice ==
    ASSUME IInv, NEW c \in Caller, call[c].at \notin InUse
    PROVE  \E s \in SliceId : heap[s] = Absent
<1>. DEFINE others == Caller \ {c}
            f == [d \in others |-> call[d].slice]
            B == {call[d].slice : d \in others}
            A == IF cache["badge"] = Absent THEN {} ELSE SliceOf(cache["badge"].result)
<1>1. IsFiniteSet(Caller) /\ IsFiniteSet(SliceId) /\ Cardinality(SliceId) > Cardinality(Caller)
  BY ResolverConstants
<1>2. IsFiniteSet(others) /\ Cardinality(others) = Cardinality(Caller) - 1 /\ Cardinality(Caller) \in Nat
  BY <1>1, FS_RemoveElement, FS_CardinalityType
<1>3. f \in Surjection(others, B)
  BY DEF Surjection
<1>4. IsFiniteSet(B) /\ Cardinality(B) <= Cardinality(others)
  <2>. HIDE DEF f, B, others
  <2>. QED  BY <1>2, <1>3, FS_Surjection
<1>5. PICK x : A \subseteq {x}
  BY DEF SliceOf
<1>6. Reachable(cache, call) \subseteq B \cup {x}
  <2>1. {call[d].slice : d \in {e \in Caller : call[e].at \in InUse}} \subseteq B
    OBVIOUS
  <2>. QED  BY <1>5, <2>1 DEF Reachable
<1>7. IsFiniteSet(B \cup {x}) /\ Cardinality(B \cup {x}) <= Cardinality(B) + 1 /\ Cardinality(B) \in Nat
  <2>. HIDE DEF B
  <2>1. Cardinality(B) \in Nat
    BY <1>4, FS_CardinalityType
  <2>. QED  BY <1>4, <2>1, FS_AddElement
<1>8. SUFFICES ASSUME \A s \in SliceId : heap[s] # Absent PROVE FALSE
  OBVIOUS
<1>9. SliceId \subseteq B \cup {x}
  BY <1>6, <1>8 DEF IInv, HeapOK
<1>10. Cardinality(SliceId) <= Cardinality(B \cup {x})
  <2>. HIDE DEF B
  <2>. QED  BY <1>7, <1>9, FS_Subset
<1>11. Cardinality(SliceId) \in Nat
  BY <1>1, FS_CardinalityType
<1>12. Cardinality(B \cup {x}) \in Nat
  <2>. HIDE DEF B
  <2>. QED  BY <1>7, FS_CardinalityType
<1>. HIDE DEF B, others
<1>. QED  BY <1>1, <1>2, <1>4, <1>7, <1>10, <1>11, <1>12

LEMMA NobodyUsesAbsent ==
    ASSUME IInv, NEW s \in SliceId, heap[s] = Absent
    PROVE  ~SliceType(heap[s]) /\ \A c \in Caller : ~Uses(call[c], s)
<1>1. ~SliceType(heap[s])
  BY ResolverConstants DEF SliceType
<1>. QED  BY <1>1 DEF IInv, SlicesOK, SliceOK, User

LEMMA UsableIs ==
    ASSUME NEW z
    PROVE  Usable(z) = IF BadgesUnder(z, "ati") # {} THEN BadgesUnder(z, "ati")
                       ELSE BadgesUnder(z, "ra")
BY DEF Usable, BadgesUnder

\* The zone has been the same for so long that no older answer is in use.
LEMMA SettledIs ==
    ASSUME IInv, Settled # Absent
    PROVE  Settled = zone /\ now > since + CacheTTL + 2 * Timeout /\ ~(now <= since + 2 * Timeout)
<1>1. now \in Nat /\ since \in Nat /\ CacheTTL \in Nat /\ Timeout \in Nat
  BY ResolverConstants DEF IInv, TimeOK
<1>2. Settled = zone /\ now > since + CacheTTL + 2 * Timeout
  BY DEF Settled
<1>. QED  BY <1>1, <1>2

\* An entry that has not expired is younger than a settled zone.
LEMMA FreshEntry ==
    ASSUME IInv, Settled # Absent, NEW e, EntryOK(e, now), ~EntryExpired(e)
    PROVE  ~(e.createdAt <= since + 2 * Timeout)
<1>1. now \in Nat /\ since \in Nat /\ CacheTTL \in Nat /\ Timeout \in Nat /\ e.createdAt \in Nat
  BY ResolverConstants DEF IInv, TimeOK, EntryOK
<1>2. now > since + CacheTTL + 2 * Timeout /\ ~(now - e.createdAt > CacheTTL)
  BY SettledIs DEF EntryExpired
<1>. QED  BY <1>1, <1>2

LEMMA NoRecordOK ==
    ASSUME NEW k, k.kind \in {"preferred", "version", "discovery"}, NEW z,
           z # Absent => IF k.kind = "discovery" THEN ATIRecordsOf(z) = {} ELSE Usable(z) = {},
           NEW k2, k2 = Ended(k, NoRecord(z)), NEW t, NEW u, NEW y
    PROVE  k2.at = "done" /\ k2.kind = k.kind /\ CallOK(k2, t, u, y)
<1>1. k2.at = "done" /\ k2.kind = k.kind /\ k2.want = k.want /\ k2.outcome = NoRecord(z)
  BY DEF Ended
<1>2. PICK o : o = k2.outcome
  OBVIOUS
<1>3. o.err = "NotFound" /\ o.zone = z
  BY <1>1, <1>2 DEF NoRecord
<1>4. z # Absent => RightFor(k.kind, k.want, o, z)
  <2>1. CASE k.kind = "discovery"
    <3>1. z # Absent => ATIRecordsOf(z) = IF o.err = "" THEN Range(o.records) ELSE {}
      BY <1>3, <2>1
    <3>. QED  BY <1>3, <2>1, <3>1 DEF RightFor, ATIRecordsOf
  <2>2. CASE k.kind # "discovery"
    BY <1>3, <2>2, NothingUsable
  <2>. QED  BY <2>1, <2>2
<1>5. OutcomeOK(k2)
  BY <1>1, <1>2, <1>3, <1>4 DEF OutcomeOK, Right
<1>. QED  BY <1>1, <1>5 DEF CallOK, Place, InUse

LEMMA RecordsOK ==
    ASSUME NEW k, k.kind = "discovery", NEW recs, ATIRecords(recs), recs # <<>>, NEW z,
           z # Absent => ATIRecordsOf(z) = Range(recs),
           NEW k2, k2 = Ended(k, [err |-> "", records |-> recs, zone |-> z]), NEW t, NEW u, NEW y
    PROVE  k2.at = "done" /\ k2.kind = k.kind /\ CallOK(k2, t, u, y)
<1>1. /\ k2.at = "done" /\ k2.kind = k.kind /\ k2.want = k.want
      /\ k2.outcome = [err |-> "", records |-> recs, zone |-> z]
  BY DEF Ended
<1>2. PICK o : o = [err |-> "", records |-> recs, zone |-> z]
  OBVIOUS
<1>3. o.err = "" /\ o.zone = z /\ o.records = recs
  BY <1>2
<1>4. z # Absent => ATIRecordsOf(z) = IF o.err = "" THEN Range(o.records) ELSE {}
  BY <1>3
<1>5. z # Absent => RightFor(k.kind, k.want, o, z)
  BY <1>3, <1>4 DEF RightFor, ATIRecordsOf
<1>6. k2.outcome = o
  BY <1>1, <1>2
<1>7. OutcomeOK(k2)
  BY <1>1, <1>3, <1>5, <1>6 DEF OutcomeOK, Right
<1>. QED  BY <1>1, <1>7 DEF CallOK, Place, InUse

\* A call that gets a slice, and the heap with the race for it noted.
Joining(k, s, z) == IF k.kind = "preferred" THEN Sorting(k, s, z, 2, 2) ELSE Scanning(k, s, z, 1, 1)

Joined(c, kind, s, h) ==
    IF heap[s] # Absent /\ Races(c, kind, s) THEN [h EXCEPT ![s].raced = TRUE] ELSE h

LEMMA JoiningFields ==
    ASSUME NEW k, k.kind \in {"preferred", "version"}, NEW s, NEW z, NEW k2, k2 = Joining(k, s, z)
    PROVE  /\ k2.kind = k.kind /\ k2.slice = s /\ k2.zone = z
           /\ k2.at \in {"sort", "scan"}
           /\ StartsIn(k2, s)
<1>1. CASE k.kind = "preferred"
  <2>1. k2 = Sorting(k, s, z, 2, 2)
    BY <1>1 DEF Joining
  <2>. QED  BY <1>1, <2>1 DEF Sorting, StartsIn
<1>2. CASE k.kind = "version"
  <2>1. k2 = Scanning(k, s, z, 1, 1)
    BY <1>2 DEF Joining
  <2>. QED  BY <1>2, <2>1 DEF Scanning, StartsIn
<1>. QED  BY <1>1, <1>2

\* The heap only notes the race.
LEMMA JoinedHeap ==
    ASSUME NEW h \in [SliceId -> Slice \cup {Absent}], NEW s \in SliceId, SliceType(h[s]),
           NEW c, NEW kind, NEW h2, h2 = Joined(c, kind, s, h)
    PROVE  /\ h2 \in [SliceId -> Slice \cup {Absent}]
           /\ \A q \in SliceId : q # s => h2[q] = h[q]
           /\ SliceType(h2[s]) /\ h2[s].recs = h[s].recs
           /\ h2[s].raced <=> h[s].raced \/ (heap[s] # Absent /\ Races(c, kind, s))
<1>1. h[s] \in Slice /\ Len(h[s].recs) >= 1
  BY DEF SliceType
<1>2. [h[s] EXCEPT !.raced = TRUE] \in Slice
  BY <1>1 DEF Slice
<1>3. [h[s] EXCEPT !.raced = TRUE].recs = h[s].recs /\ [h[s] EXCEPT !.raced = TRUE].raced = TRUE
  BY <1>1 DEF Slice
<1>4. CASE heap[s] # Absent /\ Races(c, kind, s)
  <2>1. h2 = [h EXCEPT ![s] = [h[s] EXCEPT !.raced = TRUE]]
    BY <1>4 DEF Joined
  <2>2. h2[s] = [h[s] EXCEPT !.raced = TRUE]
    BY <2>1
  <2>3. h2 \in [SliceId -> Slice \cup {Absent}] /\ \A q \in SliceId : q # s => h2[q] = h[q]
    BY <1>2, <2>1
  <2>. QED  BY <1>1, <1>2, <1>3, <1>4, <2>2, <2>3 DEF SliceType
<1>5. CASE ~(heap[s] # Absent /\ Races(c, kind, s))
  <2>1. h2 = h
    BY <1>5 DEF Joined
  <2>. QED  BY <1>5, <2>1
<1>. QED  BY <1>4, <1>5

LEMMA JoinsSlice ==
    ASSUME IInv, NEW c \in Caller, call[c].at \notin InUse, NEW s \in SliceId,
           NEW h \in [SliceId -> Slice \cup {Absent}],
           \A q \in SliceId : q # s => h[q] = heap[q],
           h[s] = heap[s] \/ heap[s] = Absent, SliceType(h[s]),
           NEW k, k.kind \in {"preferred", "version"},
           NEW z, z # Absent => Holds(h, call, s, Usable(z)),
           NEW k2, k2 = Joining(k, s, z), NEW cl2, OnlyCall(cl2, call, c, k2),
           NEW h2, h2 = Joined(c, k.kind, s, h)
    PROVE  /\ SlicesKept(heap, call, h2, cl2)
           /\ \A R : Holds(h, call, s, R) => Holds(h2, cl2, s, R)
           /\ k2.at # "idle" /\ k2.kind = k.kind /\ CallOK(k2, now, since, zone)
<1>1. /\ h2 \in [SliceId -> Slice \cup {Absent}]
      /\ \A q \in SliceId : q # s => h2[q] = h[q]
      /\ SliceType(h2[s]) /\ h2[s].recs = h[s].recs
      /\ h2[s].raced <=> h[s].raced \/ (heap[s] # Absent /\ Races(c, k.kind, s))
  BY JoinedHeap
<1>2. k2.kind = k.kind /\ k2.slice = s /\ k2.zone = z /\ k2.at \in {"sort", "scan"} /\ StartsIn(k2, s)
  BY JoiningFields
<1>3. SlicesOK(heap, call) /\ DOMAIN call = Caller
  BY DEF IInv, CallsOK
<1>4. SliceOK(h, call, s)
  <2>1. CASE h[s] = heap[s]
    <3>1. SliceOK(heap, call, s)
      BY <1>3 DEF SlicesOK
    <3>2. \A d \in Caller : Uses(call[d], s) \/ Swaps(call[d], s) => call[d] = call[d]
      OBVIOUS
    <3>. QED  BY <2>1, <3>1, <3>2, SliceFrame
  <2>2. CASE heap[s] = Absent
    <3>1. \A d \in Caller : ~Uses(call[d], s)
      BY <2>2, NobodyUsesAbsent
    <3>. QED  BY <3>1 DEF SliceOK, Shared
  <2>. QED  BY <2>1, <2>2
<1>5. h2[s].raced <=> h[s].raced \/ RacesFor(h, call, s, c, k2)
  <2>1. CASE heap[s] = Absent
    <3>1. \A d \in Caller : ~Uses(call[d], s)
      BY <2>1, NobodyUsesAbsent
    <3>. QED  BY <1>1, <2>1, <3>1 DEF RacesFor
  <2>2. CASE heap[s] # Absent
    <3>1. h[s] = heap[s]
      BY <2>2
    <3>2. Races(c, k.kind, s) <=> RacesFor(h, call, s, c, k2)
      BY <1>2, <3>1 DEF Races, RacesFor, Uses
    <3>. QED  BY <1>1, <2>2, <3>2
  <2>. QED  BY <2>1, <2>2
<1>6. SliceOK(h2, cl2, s) /\ \A R : Holds(h, call, s, R) => Holds(h2, cl2, s, R)
  <2>1. k2.zone # Absent => Holds(h, call, s, Usable(k2.zone))
    BY <1>2
  <2>2. SliceType(h2[s]) /\ h2[s].recs = h[s].recs
    BY <1>1
  <2>. QED  BY <1>2, <1>3, <1>4, <1>5, <2>1, <2>2, SliceJoined
<1>7. SliceType(heap[s]) =>
          SliceType(h2[s]) /\ \A R : Holds(heap, call, s, R) => Holds(h2, cl2, s, R)
  <2>1. CASE heap[s] = Absent
    BY <2>1, NobodyUsesAbsent
  <2>2. CASE h[s] = heap[s]
    <3>1. \A R : Holds(heap, call, s, R) => Holds(h, call, s, R)
      BY <2>2 DEF Holds
    <3>. QED  BY <1>1, <1>6, <3>1
  <2>. QED  BY <2>1, <2>2
<1>8. \A q \in SliceId : /\ (Uses(call[c], q) => q = s)
                        /\ (Uses(k2, q) => q = s)
                        /\ (q # s => h2[q] = heap[q])
  BY <1>1, <1>2 DEF Uses
<1>9. SlicesKept(heap, call, h2, cl2)
  BY <1>3, <1>6, <1>7, <1>8, KeptElsewhere
<1>10. CallOK(k2, now, since, zone)
  BY <1>2 DEF CallOK, Place, InUse
<1>. QED  BY <1>2, <1>6, <1>9, <1>10

LEMMA CachedEntry ==
    ASSUME IInv, NEW kind, cache[KeyOf(kind)] # Absent
    PROVE  /\ EntryOK(cache[KeyOf(kind)], now)
           /\ kind = "discovery" => DiscoveryEntryOK(cache[KeyOf(kind)], now, since, zone)
           /\ kind # "discovery" =>
                  BadgeEntryOK(cache[KeyOf(kind)], heap, call, now, since, zone)
<1>1. CASE kind = "discovery"
  <2>1. KeyOf(kind) = "discovery"
    BY <1>1 DEF KeyOf
  <2>2. DiscoveryEntryOK(cache[KeyOf(kind)], now, since, zone)
    BY <2>1 DEF IInv, CacheOK
  <2>. QED  BY <1>1, <2>2 DEF DiscoveryEntryOK
<1>2. CASE kind # "discovery"
  <2>1. KeyOf(kind) = "badge"
    BY <1>2 DEF KeyOf
  <2>2. BadgeEntryOK(cache[KeyOf(kind)], heap, call, now, since, zone)
    BY <2>1 DEF IInv, CacheOK
  <2>. QED  BY <1>2, <2>2 DEF BadgeEntryOK
<1>. QED  BY <1>1, <1>2

\* A call of kind k returns with what entry e has.
HitReturns(c, k, e) ==
    /\ ~e.result.found =>
          /\ Goto(c, Ended(k, NoRecord(Settled)))
          /\ IsCollected(heap', heap, cache', call')
    /\ e.result.found /\ k.kind = "discovery" =>
          /\ Goto(c, Ended(k, [err |-> "", records |-> e.result.records, zone |-> Settled]))
          /\ IsCollected(heap', heap, cache', call')
    /\ e.result.found /\ k.kind # "discovery" =>
          /\ Goto(c, Joining(k, e.result.slice, Settled))
          /\ IsCollected(heap', Joined(c, k.kind, e.result.slice, heap), cache', call')

\* A hit: what is in the cache is right for a zone that has settled.
LEMMA HitInv ==
    ASSUME IInv, NEW c \in Caller, call[c].at \notin InUse,
           NEW k, k.kind \in {"preferred", "version", "discovery"},
           call[c].at # "idle" => k.kind = call[c].kind,
           NEW e, e = cache[KeyOf(k.kind)], e # Absent, ~EntryExpired(e),
           UNCHANGED <<now, since, zone, cache, parallel>>,
           HitReturns(c, k, e)
    PROVE  IInv'
<1>0. /\ ~e.result.found =>
            /\ Goto(c, Ended(k, NoRecord(Settled)))
            /\ IsCollected(heap', heap, cache', call')
      /\ e.result.found /\ k.kind = "discovery" =>
            /\ Goto(c, Ended(k, [err |-> "", records |-> e.result.records, zone |-> Settled]))
            /\ IsCollected(heap', heap, cache', call')
      /\ e.result.found /\ k.kind # "discovery" =>
            /\ Goto(c, Joining(k, e.result.slice, Settled))
            /\ IsCollected(heap', Joined(c, k.kind, e.result.slice, heap), cache', call')
  BY DEF HitReturns
<1>1. /\ EntryOK(e, now)
      /\ k.kind = "discovery" => DiscoveryEntryOK(e, now, since, zone)
      /\ k.kind # "discovery" => BadgeEntryOK(e, heap, call, now, since, zone)
  BY CachedEntry
<1>2. e.result.found \in BOOLEAN
  BY <1>1 DEF EntryOK
<1>3. Settled # Absent => Settled = zone /\ ~(e.createdAt <= since + 2 * Timeout)
  BY <1>1, SettledIs, FreshEntry
<1>4. DOMAIN cache' = Key /\ \A key \in Key : cache'[key] = cache[key] \/ cache'[key] = Absent
  BY DEF IInv, CacheOK
<1>5. call[c].at # "swap" /\ UNCHANGED <<now, since, zone, parallel>>
  BY DEF InUse
<1>6. CASE ~e.result.found
  <2>. DEFINE k2 == Ended(k, NoRecord(Settled))
  <2>1. Goto(c, k2) /\ IsCollected(heap', heap, cache', call')
    BY <1>0, <1>6
  <2>2. Settled # Absent => IF k.kind = "discovery" THEN ATIRecordsOf(Settled) = {}
                            ELSE Usable(Settled) = {}
    BY <1>1, <1>3, <1>6 DEF DiscoveryEntryOK, BadgeEntryOK
  <2>3. k2.at = "done" /\ k2.kind = k.kind /\ CallOK(k2, now, since, zone)
    BY <2>2, NoRecordOK
  <2>. HIDE DEF k2
  <2>4. k2.at \notin InUse /\ k2.at # "idle"
    BY <2>3 DEF InUse
  <2>. QED  BY <1>4, <1>5, <2>1, <2>3, <2>4, CallLeaves
<1>7. CASE e.result.found /\ k.kind = "discovery"
  <2>. DEFINE k2 == Ended(k, [err |-> "", records |-> e.result.records, zone |-> Settled])
  <2>1. Goto(c, k2) /\ IsCollected(heap', heap, cache', call')
    BY <1>0, <1>7
  <2>2. /\ ATIRecords(e.result.records) /\ e.result.records # <<>>
        /\ Settled # Absent => ATIRecordsOf(Settled) = Range(e.result.records)
    BY <1>1, <1>3, <1>7 DEF DiscoveryEntryOK
  <2>3. k2.at = "done" /\ k2.kind = k.kind /\ CallOK(k2, now, since, zone)
    BY <1>7, <2>2, RecordsOK
  <2>. HIDE DEF k2
  <2>4. k2.at \notin InUse /\ k2.at # "idle"
    BY <2>3 DEF InUse
  <2>. QED  BY <1>4, <1>5, <2>1, <2>3, <2>4, CallLeaves
<1>8. CASE e.result.found /\ k.kind # "discovery"
  <2>1. PICK s : s = e.result.slice
    OBVIOUS
  <2>. DEFINE k2 == Joining(k, s, Settled)
              h2 == Joined(c, k.kind, s, heap)
  <2>2. Goto(c, k2) /\ IsCollected(heap', h2, cache', call')
    BY <1>0, <1>8, <2>1
  <2>3. s \in SliceId /\ SliceType(heap[s]) /\ heap \in [SliceId -> Slice \cup {Absent}]
    BY <1>1, <1>8, <2>1 DEF BadgeEntryOK, IInv, HeapOK
  <2>4. Settled # Absent => Holds(heap, call, s, Usable(Settled))
    BY <1>1, <1>3, <1>8, <2>1 DEF BadgeEntryOK
  <2>5. k.kind \in {"preferred", "version"} /\ OnlyCall(call', call, c, k2)
    BY <1>8, <2>2 DEF Goto, OnlyCall
  <2>. HIDE DEF k2, h2
  <2>6. h2 \in [SliceId -> Slice \cup {Absent}]
    BY <2>3, JoinedHeap DEF h2
  <2>7. /\ SlicesKept(heap, call, h2, call')
        /\ k2.at # "idle" /\ k2.kind = k.kind /\ CallOK(k2, now, since, zone)
    <3>1. \A q \in SliceId : q # s => heap[q] = heap[q]
      OBVIOUS
    <3>2. heap[s] = heap[s] \/ heap[s] = Absent
      OBVIOUS
    <3>. QED  BY <2>3, <2>4, <2>5, <3>1, <3>2, JoinsSlice DEF k2, h2
  <2>8. CacheOK(cache', h2, call', now, since, zone)
    <3>1. CacheOK(cache, heap, call, now, since, zone)
      BY DEF IInv
    <3>. QED  BY <1>4, <2>7, <3>1, CacheKept
  <2>. QED  BY <1>5, <2>2, <2>6, <2>7, <2>8, CallMoves
<1>. QED  BY <1>2, <1>6, <1>7, <1>8

LEMMA GetCachedInv ==
    ASSUME IInv, NEW c \in Caller, NEW k \in Calls, GetCached(c, k) PROVE IInv'
<1>1. k.kind \in {"preferred", "version", "discovery"}
  BY DEF Calls
<1>2. call[c].at \notin InUse /\ (call[c].at # "idle" => k.kind = call[c].kind)
  <2>1. CASE call[c] = Idle
    BY <2>1 DEF Idle, InUse
  <2>2. CASE call[c] = Started(k)
    BY <2>2 DEF Started, InUse
  <2>. QED  BY <2>1, <2>2 DEF GetCached
<1>3. UNCHANGED <<now, since, zone, parallel, cache>>
  BY DEF GetCached
<1>4. PICK e : e = cache[KeyOf(k.kind)]
  OBVIOUS
<1>5. now \in Nat /\ since \in Nat
  BY DEF IInv, TimeOK
<1>6. CASE e = Absent
  <2>. DEFINE name == FirstName(k.kind)
              k2 == Querying(k, name, now + Timeout)
  <2>1. Goto(c, k2) /\ UNCHANGED heap
    BY <1>4, <1>6 DEF GetCached, Query
  <2>2. /\ k.kind = "discovery" => name = "disc"
        /\ k.kind # "discovery" => name \in {"ati", "ra"}
        /\ name # "ra"
    BY DEF FirstName
  <2>. HIDE DEF name
  <2>3. k2.at = "query" /\ k2.kind = k.kind /\ CallOK(k2, now, since, zone)
    BY <1>1, <1>5, <2>2, QueryOK
  <2>. HIDE DEF k2
  <2>4. k2.at \notin InUse /\ k2.at # "idle"
    BY <2>3 DEF InUse
  <2>. QED  BY <1>2, <1>3, <2>1, <2>3, <2>4, CallWaits
<1>7. CASE e # Absent /\ EntryExpired(e)
  <2>. DEFINE k2 == Expired(k)
  <2>1. Goto(c, k2) /\ UNCHANGED heap
    BY <1>4, <1>7 DEF GetCached
  <2>2. k2.at = "expired" /\ k2.kind = k.kind
    BY DEF Expired
  <2>. HIDE DEF k2
  <2>3. k2.at \notin InUse /\ k2.at # "idle" /\ CallOK(k2, now, since, zone)
    BY <1>1, <2>2 DEF CallOK, Place, InUse
  <2>. QED  BY <1>2, <1>3, <2>1, <2>2, <2>3, CallWaits
<1>8. CASE e # Absent /\ ~EntryExpired(e)
  <2>1. Returned(c, k, e.result, heap)
    BY <1>4, <1>8 DEF GetCached
  <2>2. ~e.result.found =>
            /\ Goto(c, Ended(k, NoRecord(Settled)))
            /\ IsCollected(heap', heap, cache', call')
    BY <2>1 DEF Returned, Done, HeapBecomes, IsCollected
  <2>3. e.result.found /\ k.kind = "discovery" =>
            /\ Goto(c, Ended(k, [err |-> "", records |-> e.result.records, zone |-> Settled]))
            /\ IsCollected(heap', heap, cache', call')
    BY <2>1 DEF Returned, Done, HeapBecomes, IsCollected
  <2>4. e.result.found /\ k.kind # "discovery" => Goto(c, Joining(k, e.result.slice, Settled))
    BY <2>1 DEF Returned, Joining
  <2>5. e.result.found /\ k.kind # "discovery" =>
            IsCollected(heap', Joined(c, k.kind, e.result.slice, heap), cache', call')
    BY <2>1 DEF Returned, HeapBecomes, IsCollected, Joined
  <2>6. UNCHANGED <<now, since, zone, cache, parallel>>
    BY <1>3
  <2>7. HitReturns(c, k, e)
    BY <2>2, <2>3, <2>4, <2>5 DEF HitReturns
  <2>. QED  BY <1>1, <1>2, <1>4, <1>8, <2>6, <2>7, HitInv
<1>. QED  BY <1>6, <1>7, <1>8

\* What has been looked up by now is what a zone serves that has not just changed.
LEMMA AnswerAge ==
    ASSUME IInv, NEW c \in Caller, call[c].at = "answered"
    PROVE  \/ now <= since + 2 * Timeout
           \/ /\ call[c].txts \in SetToSeqs(zone[call[c].name])
              /\ call[c].name = "ra" => BadgesUnder(zone, "ati") = {}
<1>1. now \in Nat /\ since \in Nat /\ Timeout \in Nat
  BY ResolverConstants DEF IInv, TimeOK
<1>2. LookupOK(call[c], now, since, zone) /\ AnswerOK(call[c], since, zone)
  BY DEF IInv, CallsOK, CallOK
<1>3. call[c].deadline \in Nat /\ now <= call[c].deadline
  BY <1>2 DEF LookupOK
<1>4. PICK y \in Zones : /\ call[c].txts \in SetToSeqs(y[call[c].name])
                         /\ y = zone \/ call[c].deadline <= since + Timeout
  BY <1>2 DEF AnswerOK
<1>5. CASE call[c].deadline <= since + 2 * Timeout
  BY <1>1, <1>3, <1>5
<1>6. CASE ~(call[c].deadline <= since + 2 * Timeout)
  <2>1. y = zone
    BY <1>1, <1>3, <1>4, <1>6
  <2>2. call[c].name = "ra" => BadgesUnder(zone, "ati") = {}
    BY <1>2, <1>6 DEF LookupOK
  <2>. QED  BY <1>4, <2>1, <2>2
<1>. QED  BY <1>5, <1>6

LEMMA ParsedType ==
    ASSUME IInv, NEW c \in Caller, call[c].at = "answered"
    PROVE  /\ call[c].kind \in {"preferred", "version", "discovery"}
           /\ call[c].kind # "discovery" =>
                 /\ call[c].name \in {"ati", "ra"}
                 /\ ParsedBadges(call[c].txts) \in Seq(BadgeRecord)
           /\ call[c].kind = "discovery" =>
                 /\ call[c].name = "disc"
                 /\ ATIRecords(ParsedATIRecords(call[c].txts))
<1>1. /\ LookupOK(call[c], now, since, zone) /\ AnswerOK(call[c], since, zone)
      /\ call[c].kind \in {"preferred", "version", "discovery"}
  BY DEF IInv, CallsOK, CallOK
<1>2. PICK y \in Zones : call[c].txts \in SetToSeqs(y[call[c].name])
  BY <1>1 DEF AnswerOK
<1>3. CASE call[c].kind = "discovery"
  <2>1. call[c].name = "disc"
    BY <1>1, <1>3 DEF LookupOK
  <2>2. call[c].txts \in SetToSeqs(y["disc"])
    BY <1>2, <2>1
  <2>3. ATIRecords(ParsedATIRecords(call[c].txts))
    BY <2>2, ParsedATIRecordsAre
  <2>. QED  BY <1>1, <1>3, <2>1, <2>3
<1>4. CASE call[c].kind # "discovery"
  <2>1. call[c].name \in {"ati", "ra"}
    BY <1>1, <1>4 DEF LookupOK
  <2>2. ParsedBadges(call[c].txts) \in Seq(BadgeRecord)
    BY <1>2, <2>1, ParsedBadgesAre
  <2>. QED  BY <1>1, <1>4, <2>1, <2>2
<1>. QED  BY <1>3, <1>4

\* The badges of an answer are those a resolver without a cache would find.
LEMMA StoredBadges ==
    ASSUME IInv, NEW c \in Caller, call[c].at = "answered", call[c].kind # "discovery",
           NEW recs, recs = ParsedBadges(call[c].txts), recs = <<>> => call[c].name = "ra"
    PROVE  now <= since + 2 * Timeout \/ Usable(zone) = Range(recs)
<1>1. call[c].name \in {"ati", "ra"} /\ recs \in Seq(BadgeRecord)
  BY ParsedType
<1>2. SUFFICES ASSUME ~(now <= since + 2 * Timeout) PROVE Usable(zone) = Range(recs)
  OBVIOUS
<1>3. /\ call[c].txts \in SetToSeqs(zone[call[c].name])
      /\ call[c].name = "ra" => BadgesUnder(zone, "ati") = {}
  BY <1>2, AnswerAge
<1>4. zone \in Zones
  BY DEF IInv, TimeOK
<1>5. /\ Range(recs) = BadgesUnder(zone, call[c].name)
      /\ recs = <<>> <=> BadgesUnder(zone, call[c].name) = {}
  BY <1>1, <1>3, <1>4, ParsedBadgesAre
<1>6. CASE call[c].name = "ra"
  BY <1>3, <1>5, <1>6, UsableIs
<1>7. CASE call[c].name = "ati"
  <2>1. recs # <<>>
    BY <1>7
  <2>. QED  BY <1>5, <1>7, <2>1, UsableIs
<1>. QED  BY <1>1, <1>6, <1>7

LEMMA CacheStored ==
    ASSUME NEW h, NEW cl, NEW h2, NEW cl2, SlicesKept(h, cl, h2, cl2),
           NEW ch, NEW t, NEW u, NEW z, CacheOK(ch, h, cl, t, u, z),
           NEW key \in Key, NEW e,
           key = "badge" => BadgeEntryOK(e, h2, cl2, t, u, z),
           key = "discovery" => DiscoveryEntryOK(e, t, u, z),
           NEW ch2, ch2 = [ch EXCEPT ![key] = e]
    PROVE  CacheOK(ch2, h2, cl2, t, u, z)
<1>. DEFINE ch3 == [ch EXCEPT ![key] = Absent]
<1>1. DOMAIN ch = Key
  BY DEF CacheOK
<1>2. DOMAIN ch3 = Key /\ \A k \in Key : ch3[k] = ch[k] \/ ch3[k] = Absent
  BY <1>1
<1>3. /\ DOMAIN ch2 = Key /\ ch2[key] = e
      /\ \A k \in Key : k # key => ch2[k] = ch3[k]
  BY <1>1
<1>. HIDE DEF ch3
<1>4. CacheOK(ch3, h2, cl2, t, u, z)
  BY <1>2, CacheKept
<1>5. CASE key = "badge"
  <2>1. ch2["discovery"] = ch3["discovery"] /\ ch2["badge"] = e
    BY <1>3, <1>5 DEF Key
  <2>. QED  BY <1>3, <1>4, <1>5, <2>1 DEF CacheOK
<1>6. CASE key = "discovery"
  <2>1. ch2["badge"] = ch3["badge"] /\ ch2["discovery"] = e
    BY <1>3, <1>6 DEF Key
  <2>. QED  BY <1>3, <1>4, <1>6, <2>1 DEF CacheOK
<1>. QED  BY <1>5, <1>6 DEF Key

LEMMA EntryFields ==
    ASSUME IInv, NEW result, result.found \in BOOLEAN, NEW e, e = Entry(result)
    PROVE  e.result = result /\ e.createdAt = now /\ EntryOK(e, now)
<1>1. e.result = result /\ e.createdAt = now
  BY DEF Entry
<1>2. now \in Nat
  BY DEF IInv, TimeOK
<1>. QED  BY <1>1, <1>2 DEF EntryOK

LEMMA StoreDiscoveryInv ==
    ASSUME IInv, NEW c \in Caller, StoreDiscovery(c) PROVE IInv'
<1>. DEFINE result == IF ParsedATIRecords(call[c].txts) = <<>> THEN NotFound
                      ELSE [found |-> TRUE, records |-> ParsedATIRecords(call[c].txts)]
<1>1. /\ call[c].at = "answered" /\ call[c].kind = "discovery"
      /\ cache' = [cache EXCEPT !["discovery"] = Entry(result)]
      /\ Returned(c, call[c], result, heap)
      /\ UNCHANGED <<now, since, zone, parallel>>
  BY DEF StoreDiscovery
<1>2. PICK recs : recs = ParsedATIRecords(call[c].txts)
  OBVIOUS
<1>3. /\ result.found \in BOOLEAN
      /\ recs = <<>> => ~result.found
      /\ recs # <<>> => result.found /\ result.records = recs
  BY <1>2 DEF NotFound
<1>. HIDE DEF result
<1>4. ATIRecords(recs) /\ call[c].name = "disc"
  BY <1>1, <1>2, ParsedType
<1>5. now <= since + 2 * Timeout \/ ATIRecordsOf(zone) = Range(recs)
  <2>1. SUFFICES ASSUME ~(now <= since + 2 * Timeout) PROVE ATIRecordsOf(zone) = Range(recs)
    OBVIOUS
  <2>2. call[c].txts \in SetToSeqs(zone[call[c].name])
    BY <1>1, <2>1, AnswerAge
  <2>3. call[c].txts \in SetToSeqs(zone["disc"]) /\ zone \in Zones
    BY <1>4, <2>2 DEF IInv, TimeOK
  <2>. QED  BY <1>2, <2>3, ParsedATIRecordsAre
<1>6. recs = <<>> <=> Range(recs) = {}
  BY <1>4, EmptyRange DEF ATIRecords
<1>7. PICK e : e = Entry(result)
  OBVIOUS
<1>8. e.result = result /\ e.createdAt = now /\ EntryOK(e, now)
  BY <1>3, <1>7, EntryFields
<1>9. DiscoveryEntryOK(e, now, since, zone)
  BY <1>3, <1>4, <1>5, <1>6, <1>8 DEF DiscoveryEntryOK
<1>10. Settled # Absent => ATIRecordsOf(Settled) = Range(recs)
  BY <1>5, SettledIs
<1>11. \E k2 : /\ Goto(c, k2) /\ k2.at = "done" /\ k2.kind = call[c].kind
               /\ CallOK(k2, now, since, zone)
  <2>1. CASE recs = <<>>
    <3>. DEFINE k2 == Ended(call[c], NoRecord(Settled))
    <3>1. Goto(c, k2)
      BY <1>1, <1>3, <2>1 DEF Returned, Done
    <3>2. call[c].kind \in {"preferred", "version", "discovery"}
      BY <1>1
    <3>3. Settled # Absent =>
              IF call[c].kind = "discovery" THEN ATIRecordsOf(Settled) = {} ELSE Usable(Settled) = {}
      BY <1>1, <1>6, <1>10, <2>1
    <3>4. k2.at = "done" /\ k2.kind = call[c].kind /\ CallOK(k2, now, since, zone)
      BY <3>2, <3>3, NoRecordOK
    <3>. QED  BY <3>1, <3>4
  <2>2. CASE recs # <<>>
    <3>. DEFINE k2 == Ended(call[c], [err |-> "", records |-> recs, zone |-> Settled])
    <3>1. Goto(c, k2)
      BY <1>1, <1>3, <2>2 DEF Returned, Done
    <3>2. k2.at = "done" /\ k2.kind = call[c].kind /\ CallOK(k2, now, since, zone)
      BY <1>1, <1>4, <1>10, <2>2, RecordsOK
    <3>. QED  BY <3>1, <3>2
  <2>. QED  BY <2>1, <2>2
<1>12. IsCollected(heap', heap, cache', call')
  BY <1>1 DEF Returned, HeapBecomes, IsCollected
<1>13. PICK k2 : /\ Goto(c, k2) /\ k2.at = "done" /\ k2.kind = call[c].kind
                 /\ CallOK(k2, now, since, zone)
  BY <1>11
<1>14. /\ SlicesOK(heap, call) /\ CacheOK(cache, heap, call, now, since, zone)
       /\ heap \in [SliceId -> Slice \cup {Absent}] /\ DOMAIN call = Caller
  BY DEF IInv, HeapOK, CallsOK
<1>15. call' = [call EXCEPT ![c] = k2]
  BY <1>13 DEF Goto
<1>16. \A d \in Caller : call'[d] # call[d] => call[d].at # "swap" /\ call'[d].at \notin InUse
  BY <1>1, <1>13, <1>14, <1>15 DEF InUse
<1>17. SlicesKept(heap, call, heap, call')
  BY <1>14, <1>16, KeptWithout
<1>18. CacheOK(cache', heap, call', now, since, zone)
  <2>1. "discovery" \in Key /\ "discovery" # "badge"
    BY DEF Key
  <2>2. cache' = [cache EXCEPT !["discovery"] = e]
    BY <1>1, <1>7
  <2>. QED  BY <1>9, <1>14, <1>17, <2>1, <2>2, CacheStored
<1>. QED  BY <1>1, <1>12, <1>13, <1>14, <1>17, <1>18, CallMoves

\* Badges are stored in a slice that nobody has.
LEMMA StoreBadgesInv ==
    ASSUME IInv, NEW c \in Caller, StoreBadges(c) PROVE IInv'
<1>. DEFINE recs == ParsedBadges(call[c].txts)
            s == CHOOSE id \in SliceId : heap[id] = Absent
            result == IF recs = <<>> THEN NotFound ELSE [found |-> TRUE, slice |-> s]
            h == [heap EXCEPT ![s] = [recs |-> recs, raced |-> FALSE]]
<1>1. /\ call[c].at = "answered" /\ call[c].kind # "discovery"
      /\ recs = <<>> => call[c].name = "ra"
      /\ cache' = [cache EXCEPT !["badge"] = Entry(result)]
      /\ UNCHANGED <<now, since, zone, parallel>>
  BY DEF StoreBadges
<1>2. Returned(c, call[c], result, h)
  BY DEF StoreBadges
<1>3. s \in SliceId /\ heap[s] = Absent
  <2>1. \E id \in SliceId : heap[id] = Absent
    <3>1. call[c].at \notin InUse
      BY <1>1 DEF InUse
    <3>. QED  BY <3>1, FreeSlice
  <2>. QED  BY <2>1
<1>. HIDE DEF s
<1>4. /\ result.found \in BOOLEAN
      /\ recs = <<>> => ~result.found
      /\ recs # <<>> => result.found /\ result.slice = s
  BY DEF NotFound
<1>5. /\ ~result.found => Goto(c, Ended(call[c], NoRecord(Settled)))
      /\ result.found => Goto(c, Joining(call[c], result.slice, Settled))
  <2>. HIDE DEF result, h, recs
  <2>. QED  BY <1>1, <1>2 DEF Returned, Done, Joining
<1>6. /\ ~result.found => IsCollected(heap', h, cache', call')
      /\ result.found =>
            IsCollected(heap', Joined(c, call[c].kind, result.slice, h), cache', call')
  <2>. HIDE DEF result, h, recs
  <2>. QED  BY <1>1, <1>2 DEF Returned, HeapBecomes, IsCollected, Joined
<1>. HIDE DEF result
<1>7. recs \in Seq(BadgeRecord) /\ call[c].kind \in {"preferred", "version", "discovery"}
  BY <1>1, ParsedType
<1>8. now <= since + 2 * Timeout \/ Usable(zone) = Range(recs)
  BY <1>1, StoredBadges
<1>. HIDE DEF recs
<1>9. heap \in [SliceId -> Slice \cup {Absent}] /\ DOMAIN call = Caller
      /\ SlicesOK(heap, call) /\ CacheOK(cache, heap, call, now, since, zone)
  BY DEF IInv, HeapOK, CallsOK
<1>10. [recs |-> recs, raced |-> FALSE] \in Slice
  BY <1>7 DEF Slice
<1>11. /\ h \in [SliceId -> Slice \cup {Absent}]
       /\ h[s] = [recs |-> recs, raced |-> FALSE]
       /\ \A q \in SliceId : q # s => h[q] = heap[q]
  BY <1>3, <1>9, <1>10
<1>12. h[s].recs = recs /\ h[s].raced = FALSE
  BY <1>11
<1>. HIDE DEF h
<1>13. \A d \in Caller : ~Uses(call[d], s)
  BY <1>3, NobodyUsesAbsent
<1>14. PICK e : e = Entry(result)
  OBVIOUS
<1>15. e.result = result /\ e.createdAt = now /\ EntryOK(e, now)
  BY <1>4, <1>14, EntryFields
<1>16. "badge" \in Key /\ "badge" # "discovery" /\ cache' = [cache EXCEPT !["badge"] = e]
  BY <1>1, <1>14 DEF Key
<1>17. call[c].at \notin InUse
  BY <1>1 DEF InUse
<1>18. CASE recs = <<>>
  <2>. DEFINE k2 == Ended(call[c], NoRecord(Settled))
  <2>1. Goto(c, k2) /\ IsCollected(heap', h, cache', call') /\ ~result.found
    BY <1>4, <1>5, <1>6, <1>18
  <2>2. Range(recs) = {}
    BY <1>7, <1>18, EmptyRange
  <2>3. Settled # Absent =>
            IF call[c].kind = "discovery" THEN ATIRecordsOf(Settled) = {} ELSE Usable(Settled) = {}
    BY <1>1, <1>8, <2>2, SettledIs
  <2>4. k2.at = "done" /\ k2.kind = call[c].kind /\ CallOK(k2, now, since, zone)
    <3>1. call[c].kind \in {"preferred", "version", "discovery"}
      BY <1>7
    <3>. QED  BY <2>3, <3>1, NoRecordOK
  <2>. HIDE DEF k2
  <2>5. call'[c] = k2 /\ \A d \in Caller : d # c => call'[d] = call[d]
    BY <1>9, <2>1 DEF Goto
  <2>6. \A q \in SliceId : ~Uses(call[c], q) /\ ~Uses(k2, q)
    BY <1>17, <2>4 DEF Uses, InUse
  <2>7. \A d \in Caller : ~Uses(call'[d], s)
    BY <1>3, <1>13, <2>5, <2>6
  <2>8. SliceOK(h, call', s)
    BY <2>7 DEF SliceOK, Shared
  <2>9. ~SliceType(heap[s])
    BY <1>3, NobodyUsesAbsent
  <2>10. OnlyCall(call', call, c, k2)
    BY <2>1 DEF Goto, OnlyCall
  <2>11. SlicesKept(heap, call, h, call')
    BY <1>3, <1>9, <1>11, <2>6, <2>8, <2>9, <2>10, KeptElsewhere
  <2>12. BadgeEntryOK(e, h, call', now, since, zone)
    BY <1>8, <1>15, <2>1, <2>2 DEF BadgeEntryOK
  <2>13. CacheOK(cache', h, call', now, since, zone)
    BY <1>9, <1>16, <2>11, <2>12, CacheStored
  <2>14. k2.at # "idle"
    BY <2>4
  <2>. QED  BY <1>1, <1>11, <2>1, <2>4, <2>11, <2>13, <2>14, CallMoves
<1>19. CASE recs # <<>>
  <2>. DEFINE k2 == Joining(call[c], s, Settled)
              h2 == Joined(c, call[c].kind, s, h)
  <2>1. Goto(c, k2) /\ IsCollected(heap', h2, cache', call') /\ result.found /\ result.slice = s
    BY <1>4, <1>5, <1>6, <1>19
  <2>2. OnlyCall(call', call, c, k2)
    BY <2>1 DEF Goto, OnlyCall
  <2>3. SliceType(h[s])
    <3>1. Len(recs) >= 1
      BY <1>7, <1>19
    <3>. QED  BY <1>10, <1>11, <1>12, <3>1 DEF SliceType
  <2>4. Holds(h, call, s, Range(recs))
    <3>1. \A d \in Caller : ~Swaps(call[d], s)
      BY <1>13 DEF Uses, Swaps, InUse
    <3>. QED  BY <1>12, <3>1 DEF Holds
  <2>5. Settled # Absent => Holds(h, call, s, Usable(Settled))
    BY <1>8, <2>4, SettledIs
  <2>6. call[c].kind \in {"preferred", "version"}
    BY <1>1, <1>7
  <2>. HIDE DEF k2, h2
  <2>7. h2 \in [SliceId -> Slice \cup {Absent}] /\ SliceType(h2[s])
    BY <1>3, <1>11, <2>3, JoinedHeap DEF h2
  <2>8. /\ SlicesKept(heap, call, h2, call')
        /\ \A R : Holds(h, call, s, R) => Holds(h2, call', s, R)
        /\ k2.at # "idle" /\ k2.kind = call[c].kind /\ CallOK(k2, now, since, zone)
    <3>1. k2 = Joining(call[c], s, Settled) /\ h2 = Joined(c, call[c].kind, s, h)
      BY DEF k2, h2
    <3>2. h[s] = heap[s] \/ heap[s] = Absent
      BY <1>3
    <3>3. \A q \in SliceId : q # s => h[q] = heap[q]
      BY <1>11
    <3>4. s \in SliceId /\ h \in [SliceId -> Slice \cup {Absent}]
      BY <1>3, <1>11
    <3>. QED  BY <1>17, <2>2, <2>3, <2>5, <2>6, <3>1, <3>2, <3>3, <3>4, JoinsSlice
  <2>9. BadgeEntryOK(e, h2, call', now, since, zone)
    BY <1>3, <1>8, <1>15, <2>1, <2>4, <2>7, <2>8 DEF BadgeEntryOK
  <2>10. CacheOK(cache', h2, call', now, since, zone)
    BY <1>9, <1>16, <2>8, <2>9, CacheStored
  <2>. QED  BY <1>1, <2>1, <2>7, <2>8, <2>10, CallMoves
<1>. QED  BY <1>18, <1>19

-----------------------------------------------------------------------------
(* The steps that sort a slice or read it.                                   *)

LEMMA UserFacts ==
    ASSUME IInv, NEW c \in Caller, call[c].at \in InUse, NEW s, s = call[c].slice
    PROVE  /\ s \in SliceId /\ Uses(call[c], s)
           /\ SliceOK(heap, call, s) /\ User(heap, call, s, call[c])
           /\ heap[s] \in Slice /\ heap[s].recs \in Seq(BadgeRecord) /\ Len(heap[s].recs) >= 1
           /\ heap[s].raced \in BOOLEAN
           /\ Position(call[c], Len(heap[s].recs))
           /\ heap \in [SliceId -> Slice \cup {Absent}]
<1>1. s \in SliceId
  BY DEF IInv, CallsOK, CallOK
<1>2. Uses(call[c], s)
  BY DEF Uses
<1>3. SliceOK(heap, call, s)
  BY <1>1 DEF IInv, SlicesOK
<1>4. User(heap, call, s, call[c])
  BY <1>2, <1>3 DEF SliceOK
<1>5. heap[s] \in Slice /\ Len(heap[s].recs) >= 1 /\ Position(call[c], Len(heap[s].recs))
  BY <1>4 DEF User, SliceType
<1>6. heap[s].recs \in Seq(BadgeRecord) /\ heap[s].raced \in BOOLEAN
  BY <1>5 DEF Slice
<1>7. heap \in [SliceId -> Slice \cup {Absent}]
  BY DEF IInv, HeapOK
<1>. QED  BY <1>1, <1>2, <1>3, <1>4, <1>5, <1>6, <1>7

\* The slice of a call that neither swaps nor has raced: what the zone serves, and what
\* the call has done with it.
LEMMA UserServes ==
    ASSUME IInv, NEW c \in Caller, call[c].at \in InUse, call[c].at # "swap",
           NEW s, s = call[c].slice, ~heap[s].raced
    PROVE  /\ Progress(call[c], heap[s].recs)
           /\ call[c].zone # Absent => Range(heap[s].recs) = Usable(call[c].zone)
<1>1. Uses(call[c], s) /\ SliceOK(heap, call, s) /\ User(heap, call, s, call[c])
  BY UserFacts
<1>2. \A d \in Caller : ~Swaps(call[d], s)
  BY <1>1, NoSwapper
<1>3. ASSUME call[c].zone # Absent PROVE Range(heap[s].recs) = Usable(call[c].zone)
  <2>1. Holds(heap, call, s, Usable(call[c].zone))
    BY <1>1, <1>3 DEF User
  <2>. QED  BY <1>2, <2>1, HoldsUnswapped
<1>. QED  BY <1>1, <1>3 DEF User

\* A user of a slice goes on with it.
LEMMA UserGoesOn ==
    ASSUME IInv, NEW c \in Caller, call[c].at \in InUse, NEW s, s = call[c].slice,
           NEW k, Goto(c, k), k.at \in InUse, k.slice = s, k.kind = call[c].kind,
           NEW h, h = heap', h \in [SliceId -> Slice \cup {Absent}],
           \A q \in SliceId : q # s => h[q] = heap[q],
           SliceOK(h, call', s), SliceType(h[s]),
           \A R : Holds(heap, call, s, R) => Holds(h, call', s, R),
           UNCHANGED <<now, since, zone, cache, parallel>>
    PROVE  IInv'
<1>1. s \in SliceId
  BY UserFacts
<1>2. /\ DOMAIN call = Caller /\ SlicesOK(heap, call) /\ HeapOK(heap, cache, call)
      /\ CacheOK(cache, heap, call, now, since, zone)
      /\ call[c].kind \in {"preferred", "version", "discovery"}
  BY DEF IInv, CallsOK, CallOK, InUse
<1>3. OnlyCall(call', call, c, k) /\ call' = [call EXCEPT ![c] = k]
  BY DEF Goto, OnlyCall
<1>4. \A q \in SliceId : /\ (Uses(call[c], q) => q = s)
                        /\ (Uses(k, q) => q = s)
                        /\ (q # s => h[q] = heap[q])
  BY DEF Uses
<1>5. SlicesKept(heap, call, h, call')
  BY <1>1, <1>2, <1>3, <1>4, KeptElsewhere
<1>6. CacheOK(cache', h, call', now, since, zone)
  <2>1. DOMAIN cache' = Key /\ \A key \in Key : cache'[key] = cache[key] \/ cache'[key] = Absent
    BY <1>2 DEF CacheOK
  <2>. QED  BY <1>2, <1>5, <2>1, CacheKept
<1>7. \A d \in Caller : /\ call'[d].at \in InUse <=> call[d].at \in InUse
                        /\ call'[d].at \in InUse => call'[d].slice = call[d].slice
  BY <1>2, <1>3
<1>8. Reachable(cache, call') = Reachable(cache, call)
  BY <1>7, SameReachable
<1>9. s \in Reachable(cache, call)
  <2>1. Uses(call[c], s)
    BY DEF Uses
  <2>. QED  BY <2>1, ReachesUsed
<1>10. \A q \in SliceId : h[q] # Absent => q \in Reachable(cache, call')
  BY <1>2, <1>4, <1>8, <1>9 DEF HeapOK
<1>11. IsCollected(heap', h, cache', call')
  <2>1. h = [q \in SliceId |-> IF q \in Reachable(cache, call') THEN h[q] ELSE Absent]
    BY <1>10
  <2>2. cache' = cache
    OBVIOUS
  <2>. QED  BY <2>1, <2>2 DEF IsCollected
<1>12. CallOK(k, now, since, zone) /\ k.at # "idle"
  BY <1>1, <1>2 DEF CallOK, Place, InUse
<1>13. UNCHANGED <<now, since, zone, parallel>>
  OBVIOUS
<1>. QED  BY <1>3, <1>5, <1>6, <1>11, <1>12, <1>13, CallMoves

LEMMA UserMoves ==
    ASSUME IInv, NEW c \in Caller, call[c].at \in InUse, call[c].at # "swap",
           NEW s, s = call[c].slice, NEW recs, recs = heap[s].recs,
           NEW k, Goto(c, k), k.at \in InUse, k.slice = s, k.kind = call[c].kind,
           k.zone = call[c].zone, Position(k, Len(recs)),
           Progress(call[c], recs) => Progress(k, recs),
           k.at = "swap" => ~NewestFirst(recs) /\ Undo(k, recs) = recs,
           UNCHANGED <<now, since, zone, cache, heap, parallel>>
    PROVE  IInv'
<1>1. /\ s \in SliceId /\ Uses(call[c], s) /\ SliceOK(heap, call, s)
      /\ User(heap, call, s, call[c]) /\ heap \in [SliceId -> Slice \cup {Absent}]
  BY UserFacts
<1>2. DOMAIN call = Caller
  BY DEF IInv, CallsOK
<1>3. OnlyCall(call', call, c, k)
  BY DEF Goto, OnlyCall
<1>4. Uses(k, s)
  BY DEF Uses
<1>5. Position(k, Len(heap[s].recs))
  OBVIOUS
<1>6. ~heap[s].raced => Progress(k, heap[s].recs)
  BY <1>1 DEF User
<1>7. k.at = "swap" /\ ~heap[s].raced =>
          ~NewestFirst(heap[s].recs) /\ Undo(k, heap[s].recs) = heap[s].recs
  OBVIOUS
<1>8. SliceOK(heap, call', s) /\ \A R : Holds(heap, call, s, R) => Holds(heap, call', s, R)
  BY <1>1, <1>2, <1>3, <1>4, <1>5, <1>6, <1>7, SliceMoved
<1>9. SliceType(heap[s])
  BY <1>1 DEF User
<1>10. PICK h : h = heap
  OBVIOUS
<1>11. /\ h = heap' /\ h \in [SliceId -> Slice \cup {Absent}]
       /\ \A q \in SliceId : q # s => h[q] = heap[q]
       /\ SliceOK(h, call', s) /\ SliceType(h[s])
       /\ \A R : Holds(heap, call, s, R) => Holds(h, call', s, R)
  BY <1>1, <1>8, <1>9, <1>10
<1>12. UNCHANGED <<now, since, zone, cache, parallel>>
  OBVIOUS
<1>. QED  BY <1>11, <1>12, UserGoesOn

LEMMA SortStepInv ==
    ASSUME IInv, NEW c \in Caller, SortStep(c) PROVE IInv'
<1>1. PICK s : s = call[c].slice
  OBVIOUS
<1>2. PICK recs : recs = heap[s].recs
  OBVIOUS
<1>3. PICK k2 : k2 = AfterSort(call[c], recs)
  OBVIOUS
<1>4. call[c].at = "sort" /\ UNCHANGED <<now, since, zone, cache, heap, parallel>>
  BY DEF SortStep
<1>5. Goto(c, k2)
  BY <1>1, <1>2, <1>3 DEF SortStep, Recs, AfterSort
<1>6. call[c].at \in InUse /\ call[c].at # "swap"
  BY <1>4 DEF InUse
<1>7. recs \in Seq(BadgeRecord) /\ Len(recs) >= 1 /\ Position(call[c], Len(recs))
  BY <1>1, <1>2, <1>6, UserFacts
<1>8. /\ k2.at \in InUse /\ k2.slice = call[c].slice /\ k2.kind = call[c].kind
      /\ k2.zone = call[c].zone /\ Position(k2, Len(recs))
      /\ Progress(call[c], recs) => Progress(k2, recs)
      /\ k2.at = "swap" => ~NewestFirst(recs) /\ Undo(k2, recs) = recs
  BY <1>3, <1>4, <1>7, SortMoves
<1>. QED  BY <1>1, <1>2, <1>4, <1>5, <1>6, <1>8, UserMoves

\* The write of one field of one record.
IsWritten(h2, h, s, pos, f, value) == h2 = [h EXCEPT ![s].recs[pos][f] = value]

IsRewritten(recs2, recs, pos, f, value) ==
    recs2 = [recs EXCEPT ![pos] = WithField(recs[pos], f, value)]

LEMMA HeapWritten ==
    ASSUME NEW h \in [SliceId -> Slice \cup {Absent}], NEW s \in SliceId, h[s] \in Slice,
           NEW pos \in 1..Len(h[s].recs), NEW f \in Field, NEW value,
           NEW h2, IsWritten(h2, h, s, pos, f, value)
    PROVE  /\ IsRewritten(h2[s].recs, h[s].recs, pos, f, value)
           /\ h2[s].raced = h[s].raced
           /\ h2[s].recs \in Seq(BadgeRecord) => h2[s] \in Slice
           /\ h2[s] \in Slice => h2 \in [SliceId -> Slice \cup {Absent}]
           /\ \A q \in SliceId : q # s => h2[q] = h[q]
<1>1. h[s] = [recs |-> h[s].recs, raced |-> h[s].raced] /\ h[s].raced \in BOOLEAN
  BY DEF Slice
<1>2. PICK recs2 : recs2 = [h[s].recs EXCEPT ![pos] = WithField(h[s].recs[pos], f, value)]
  OBVIOUS
<1>3. h2 = [h EXCEPT ![s] = [h[s] EXCEPT !.recs = recs2]]
  BY <1>2 DEF WithField, IsWritten
<1>4. h2[s] = [h[s] EXCEPT !.recs = recs2]
  BY <1>3
<1>5. h2[s] = [recs |-> recs2, raced |-> h[s].raced]
  BY <1>1, <1>4
<1>6. h2[s].recs \in Seq(BadgeRecord) => h2[s] \in Slice
  BY <1>1, <1>5 DEF Slice
<1>7. h2[s] \in Slice => h2 \in [SliceId -> Slice \cup {Absent}]
  BY <1>3
<1>8. \A q \in SliceId : q # s => h2[q] = h[q]
  BY <1>3
<1>. QED  BY <1>2, <1>5, <1>6, <1>7, <1>8 DEF IsRewritten

LEMMA SwapFieldInv ==
    ASSUME IInv, NEW c \in Caller, NEW f \in Field, SwapField(c, f) PROVE IInv'
<1>1. PICK s : s = call[c].slice
  OBVIOUS
<1>2. PICK recs : recs = heap[s].recs
  OBVIOUS
<1>3. PICK k : k = call[c]
  OBVIOUS
<1>4. /\ k.at = "swap" /\ f \in k.todo /\ k.slice = s
      /\ UNCHANGED <<now, since, zone, cache, parallel>>
  BY <1>1, <1>3 DEF SwapField
<1>5. PICK k2 : k2 = AfterField(k, f)
  OBVIOUS
<1>6. Goto(c, k2)
  BY <1>3, <1>5 DEF SwapField, AfterField
<1>7. call[c].at \in InUse
  BY <1>3, <1>4 DEF InUse
<1>8. /\ s \in SliceId /\ SliceOK(heap, call, s) /\ heap[s] \in Slice
      /\ recs \in Seq(BadgeRecord) /\ Len(recs) >= 1 /\ Position(k, Len(recs))
      /\ heap \in [SliceId -> Slice \cup {Absent}]
  BY <1>1, <1>2, <1>3, <1>7, UserFacts
<1>9. k.j \in 1..Len(recs) /\ k.j - 1 \in 1..Len(recs)
  <2>1. k.i \in 2..Len(recs) /\ k.j \in 2..k.i /\ Len(recs) \in Nat
    BY <1>4, <1>8 DEF Position
  <2>. QED  BY <2>1
<1>10. PICK h : h = heap'
  OBVIOUS
<1>11. PICK recs2 : recs2 = Copied(k, f, recs)
  OBVIOUS
<1>12. /\ recs2 \in Seq(BadgeRecord) /\ Len(recs2) = Len(recs)
       /\ Position(k2, Len(recs2))
       /\ SwapGoesOn(k, recs, k2, recs2)
  BY <1>4, <1>5, <1>8, <1>11, SwapStep
<1>13. /\ h[s].recs = recs2 /\ h[s].raced = heap[s].raced
       /\ h[s].recs \in Seq(BadgeRecord) => h[s] \in Slice
       /\ h[s] \in Slice => h \in [SliceId -> Slice \cup {Absent}]
       /\ \A q \in SliceId : q # s => h[q] = heap[q]
  <2>1. CASE k.back
    <3>1. PICK value : value = k.tmp[f]
      OBVIOUS
    <3>2. PICK pos : pos = k.j - 1
      OBVIOUS
    <3>3. IsWritten(h, heap, s, pos, f, value)
      BY <1>1, <1>3, <1>10, <2>1, <3>1, <3>2 DEF SwapField, Write, IsWritten
    <3>4. \A r : IsRewritten(r, heap[s].recs, pos, f, value) => r = recs2
      BY <1>2, <1>11, <2>1, <3>1, <3>2 DEF Copied, IsRewritten
    <3>5. pos \in 1..Len(heap[s].recs)
      BY <1>2, <1>9, <3>2
    <3>. QED  BY <1>8, <3>3, <3>4, <3>5, HeapWritten
  <2>2. CASE ~k.back
    <3>1. PICK value : value = recs[k.j - 1][f]
      OBVIOUS
    <3>2. PICK pos : pos = k.j
      OBVIOUS
    <3>3. IsWritten(h, heap, s, pos, f, value)
      BY <1>1, <1>2, <1>3, <1>10, <2>2, <3>1, <3>2 DEF SwapField, Write, Recs, IsWritten
    <3>4. \A r : IsRewritten(r, heap[s].recs, pos, f, value) => r = recs2
      BY <1>2, <1>11, <2>2, <3>1, <3>2 DEF Copied, IsRewritten
    <3>5. pos \in 1..Len(heap[s].recs)
      BY <1>2, <1>9, <3>2
    <3>. QED  BY <1>8, <3>3, <3>4, <3>5, HeapWritten
  <2>. QED  BY <2>1, <2>2
<1>14. h[s] \in Slice /\ h \in [SliceId -> Slice \cup {Absent}]
  BY <1>12, <1>13
<1>15. SliceType(h[s])
  BY <1>8, <1>12, <1>13, <1>14 DEF SliceType
<1>16. k2.at \in {"sort", "swap"} /\ k2.slice = s /\ k2.zone = k.zone /\ k2.kind = k.kind
  BY <1>4, <1>5 DEF AfterField, Swapping, Sorting
<1>17. OnlyCall(call', call, c, k2) /\ DOMAIN call = Caller
  BY <1>6 DEF Goto, OnlyCall, IInv, CallsOK
<1>18. Swaps(call[c], s)
  BY <1>3, <1>4 DEF Swaps
<1>19. SliceOK(h, call', s) /\ \A R : Holds(heap, call, s, R) => Holds(h, call', s, R)
  <2>1. SwapGoesOn(call[c], heap[s].recs, k2, recs2)
    BY <1>2, <1>3, <1>12
  <2>2. k2.zone = call[c].zone /\ Len(recs2) = Len(heap[s].recs) /\ Position(k2, Len(recs2))
    BY <1>2, <1>3, <1>12, <1>16
  <2>3. PICK cl, cl2 : cl = call /\ cl2 = call'
    OBVIOUS
  <2>4. PICK old : old = heap
    OBVIOUS
  <2>5. /\ DOMAIN cl = Caller /\ SliceOK(old, cl, s) /\ Swaps(cl[c], s)
        /\ OnlyCall(cl2, cl, c, k2)
    BY <1>8, <1>17, <1>18, <2>3, <2>4
  <2>6. /\ SwapGoesOn(cl[c], old[s].recs, k2, recs2) /\ Len(recs2) = Len(old[s].recs)
        /\ Position(k2, Len(recs2)) /\ recs2 \in Seq(BadgeRecord)
        /\ k2.at \in {"sort", "swap"} /\ k2.slice = s /\ k2.zone = cl[c].zone
    BY <1>12, <1>16, <2>1, <2>2, <2>3, <2>4
  <2>7. h[s] \in Slice /\ h[s].recs = recs2 /\ h[s].raced = old[s].raced
    BY <1>13, <1>14, <2>4
  <2>8. SliceOK(h, cl2, s) /\ \A R : Holds(old, cl, s, R) => Holds(h, cl2, s, R)
    BY <2>5, <2>6, <2>7, SliceSwapped
  <2>. QED  BY <2>3, <2>4, <2>8
<1>20. k2.at \in InUse /\ k2.kind = call[c].kind
  BY <1>3, <1>16 DEF InUse
<1>. QED  BY <1>1, <1>4, <1>6, <1>7, <1>10, <1>13, <1>14, <1>15, <1>16, <1>19, <1>20, UserGoesOn

\* The outcome of a call that has found a record.
LEMMA FoundOK ==
    ASSUME NEW k, k.kind \in {"preferred", "version"}, NEW o, Right(k, o),
           NEW k2, k2 = Ended(k, o), NEW t, NEW u, NEW y
    PROVE  k2.at = "done" /\ k2.kind = k.kind /\ CallOK(k2, t, u, y)
<1>1. k2.at = "done" /\ k2.kind = k.kind /\ k2.want = k.want /\ k2.outcome = o
  BY DEF Ended
<1>2. OutcomeOK(k2)
  <2>1. PICK kind, want : kind = k.kind /\ want = k.want
    OBVIOUS
  <2>2. k2.kind = kind /\ k2.want = want /\ k2.kind # "discovery"
    BY <1>1, <2>1
  <2>3. Right(k2, o)
    BY <2>1, <2>2 DEF Right
  <2>. QED  BY <1>1, <2>2, <2>3 DEF OutcomeOK
<1>. QED  BY <1>1, <1>2 DEF CallOK, Place, InUse

\* A user gives up its slice.
LEMMA UserLeaves ==
    ASSUME IInv, NEW c \in Caller, call[c].at \in InUse, call[c].at # "swap",
           NEW k, Goto(c, k), k.at = "done", k.kind = call[c].kind, CallOK(k, now, since, zone),
           IsCollected(heap', heap, cache', call'),
           UNCHANGED <<now, since, zone, cache, parallel>>
    PROVE  IInv'
<1>1. k.at \notin InUse /\ k.at # "idle"
  BY DEF InUse
<1>2. DOMAIN cache' = Key /\ \A key \in Key : cache'[key] = cache[key] \/ cache'[key] = Absent
  BY DEF IInv, CacheOK
<1>3. UNCHANGED <<now, since, zone, parallel>>
  OBVIOUS
<1>. QED  BY <1>1, <1>2, <1>3, CallLeaves

LEMMA ReadPreferredInv ==
    ASSUME IInv, NEW c \in Caller, ReadPreferred(c) PROVE IInv'
<1>1. PICK s : s = call[c].slice
  OBVIOUS
<1>2. PICK recs : recs = heap[s].recs
  OBVIOUS
<1>3. PICK k : k = call[c]
  OBVIOUS
<1>4. PICK raced : raced = heap[s].raced
  OBVIOUS
<1>5. PICK o : o = [err |-> "", rec |-> recs[1], raced |-> raced, zone |-> k.zone]
  OBVIOUS
<1>6. k.at = "ptr" /\ UNCHANGED <<now, since, zone, cache, parallel>>
  BY <1>3 DEF ReadPreferred
<1>7. Goto(c, Ended(k, o))
  BY <1>1, <1>2, <1>3, <1>4, <1>5 DEF ReadPreferred, Done, Recs
<1>8. IsCollected(heap', heap, cache', call')
  BY DEF ReadPreferred, HeapBecomes, IsCollected
<1>9. call[c].at \in InUse /\ call[c].at # "swap"
  BY <1>3, <1>6 DEF InUse
<1>10. recs \in Seq(BadgeRecord) /\ Len(recs) >= 1 /\ Position(k, Len(recs))
  BY <1>1, <1>2, <1>3, <1>9, UserFacts
<1>11. k.kind = "preferred"
  BY <1>6, <1>10 DEF Position
<1>12. /\ o.err = "" /\ o.rec = recs[1] /\ o.raced = raced /\ o.zone = k.zone
       /\ "raced" \in DOMAIN o
  BY <1>5
<1>13. ASSUME ~o.raced, o.zone # Absent PROVE RightFor(k.kind, k.want, o, o.zone)
  <2>1. Progress(k, recs) /\ Range(recs) = Usable(k.zone)
    BY <1>1, <1>2, <1>3, <1>4, <1>9, <1>12, <1>13, UserServes
  <2>2. Sorted(recs, Len(recs))
    BY <1>6, <2>1 DEF Progress
  <2>3. RightFor("preferred", k.want, o, k.zone)
    BY <1>10, <1>12, <2>1, <2>2, FirstIsPreferred
  <2>. QED  BY <1>11, <1>12, <2>3
<1>14. PICK k2 : k2 = Ended(k, o)
  OBVIOUS
<1>15. k2.at = "done" /\ k2.kind = k.kind /\ CallOK(k2, now, since, zone)
  <2>1. Right(k, o)
    BY <1>11, <1>12, <1>13 DEF Right
  <2>. QED  BY <1>11, <1>14, <2>1, FoundOK
<1>. QED  BY <1>3, <1>6, <1>7, <1>8, <1>9, <1>14, <1>15, UserLeaves

LEMMA ScanStepInv ==
    ASSUME IInv, NEW c \in Caller, ScanStep(c) PROVE IInv'
<1>1. PICK s : s = call[c].slice
  OBVIOUS
<1>2. PICK recs : recs = heap[s].recs
  OBVIOUS
<1>3. PICK k : k = call[c]
  OBVIOUS
<1>4. PICK raced : raced = heap[s].raced
  OBVIOUS
<1>5. k.at = "scan" /\ UNCHANGED <<now, since, zone, cache, parallel>>
  BY <1>3 DEF ScanStep
<1>6. IsCollected(heap', heap, cache', call')
  BY DEF ScanStep, HeapBecomes, IsCollected
<1>7. call[c].at \in InUse /\ call[c].at # "swap"
  BY <1>3, <1>5 DEF InUse
<1>8. /\ recs \in Seq(BadgeRecord) /\ Len(recs) >= 1 /\ Position(k, Len(recs))
      /\ heap \in [SliceId -> Slice \cup {Absent}]
  BY <1>1, <1>2, <1>3, <1>7, UserFacts
<1>9. k.kind = "version" /\ k.i \in 1..Len(recs) /\ k.pass \in {1, 2} /\ Len(recs) \in Nat
  BY <1>5, <1>8 DEF Position
<1>10. ASSUME ~raced
       PROVE  Progress(k, recs) /\ (k.zone # Absent => Range(recs) = Usable(k.zone))
  BY <1>1, <1>2, <1>3, <1>4, <1>7, <1>10, UserServes
<1>11. CASE Matches(k, recs[k.i])
  <2>1. PICK o : o = [err |-> "", rec |-> recs[k.i], raced |-> raced, zone |-> k.zone]
    OBVIOUS
  <2>2. Goto(c, Ended(k, o))
    BY <1>1, <1>2, <1>3, <1>4, <1>11, <2>1 DEF ScanStep, Done, Recs, Matches
  <2>3. /\ o.err = "" /\ o.rec = recs[k.i] /\ o.raced = raced /\ o.zone = k.zone
        /\ "raced" \in DOMAIN o
    BY <2>1
  <2>4. ASSUME ~o.raced, o.zone # Absent PROVE RightFor(k.kind, k.want, o, o.zone)
    <3>1. Progress(k, recs) /\ Range(recs) = Usable(k.zone)
      BY <1>10, <2>3, <2>4
    <3>2. RightFor("version", k.want, o, k.zone)
      BY <1>5, <1>8, <1>11, <2>3, <3>1, ScanFinds
    <3>. QED  BY <1>9, <2>3, <3>2
  <2>5. PICK k2 : k2 = Ended(k, o)
    OBVIOUS
  <2>6. k2.at = "done" /\ k2.kind = k.kind /\ CallOK(k2, now, since, zone)
    <3>1. Right(k, o)
      BY <1>9, <2>3, <2>4 DEF Right
    <3>. QED  BY <1>9, <2>5, <3>1, FoundOK
  <2>. QED  BY <1>3, <1>5, <1>6, <1>7, <2>2, <2>5, <2>6, UserLeaves
<1>12. CASE ~Matches(k, recs[k.i]) /\ (k.i < Len(recs) \/ k.pass = 1)
  <2>1. PICK k2 : k2 = AfterScan(k, recs)
    OBVIOUS
  <2>2. Goto(c, k2)
    BY <1>1, <1>2, <1>3, <1>12, <2>1 DEF ScanStep, Recs, Matches, AfterScan
  <2>3. /\ k2.at = "scan" /\ k2.slice = k.slice /\ k2.kind = k.kind /\ k2.zone = k.zone
        /\ Position(k2, Len(recs))
        /\ Progress(k, recs) => Progress(k2, recs)
    BY <1>5, <1>8, <1>12, <2>1, ScanMoves
  <2>4. OnlyCall(call', call, c, k2) /\ DOMAIN call = Caller
    BY <2>2 DEF Goto, OnlyCall, IInv, CallsOK
  <2>5. k2.at \in InUse /\ k2.at # "swap"
    BY <2>3 DEF InUse
  <2>6. call'[c] = k2 /\ \A d \in Caller : d # c => call'[d] = call[d]
    BY <2>4 DEF OnlyCall
  <2>7. \A d \in Caller : /\ call'[d].at \in InUse <=> call[d].at \in InUse
                          /\ call'[d].at \in InUse => call'[d].slice = call[d].slice
    BY <1>3, <1>7, <2>3, <2>5, <2>6
  <2>8. Reachable(cache, call') = Reachable(cache, call)
    BY <2>7, SameReachable
  <2>9. heap' = heap
    <3>1. HeapOK(heap, cache, call) /\ cache' = cache
      BY <1>5 DEF IInv
    <3>2. IsCollected(heap, heap, cache, call')
      BY <2>8, <3>1, AllReached
    <3>. QED  BY <1>6, <3>1, <3>2 DEF IsCollected
  <2>10. UNCHANGED <<now, since, zone, cache, heap, parallel>>
    BY <1>5, <2>9
  <2>11. /\ k2.slice = s /\ k2.kind = call[c].kind /\ k2.zone = call[c].zone
         /\ Progress(call[c], recs) => Progress(k2, recs)
    BY <1>1, <1>3, <2>3
  <2>. QED  BY <1>1, <1>2, <1>7, <2>2, <2>3, <2>5, <2>10, <2>11, UserMoves
<1>13. CASE ~Matches(k, recs[k.i]) /\ ~(k.i < Len(recs) \/ k.pass = 1)
  <2>1. PICK z : z = IF raced THEN Absent ELSE k.zone
    OBVIOUS
  <2>2. Goto(c, Ended(k, NoRecord(z)))
    BY <1>1, <1>2, <1>3, <1>4, <1>13, <2>1 DEF ScanStep, Done, Recs, Matches
  <2>3. k.i = Len(recs) /\ k.pass = 2
    BY <1>9, <1>13
  <2>4. PICK o : o = NoRecord(z)
    OBVIOUS
  <2>5. o.err = "NotFound" /\ o.zone = z /\ "raced" \notin DOMAIN o
    BY <2>4 DEF NoRecord
  <2>6. ASSUME z # Absent PROVE RightFor("version", k.want, o, z)
    <3>1. ~raced /\ z = k.zone
      BY <2>1, <2>6
    <3>2. Progress(k, recs) /\ Range(recs) = Usable(z)
      BY <1>10, <2>6, <3>1
    <3>. QED  BY <1>5, <1>8, <1>13, <2>3, <2>5, <3>2, ScanMisses
  <2>7. PICK k2 : k2 = Ended(k, o)
    OBVIOUS
  <2>8. k2.at = "done" /\ k2.kind = k.kind /\ k2.want = k.want /\ k2.outcome = o
    BY <2>7 DEF Ended
  <2>9. OutcomeOK(k2)
    BY <1>9, <2>5, <2>6, <2>8 DEF OutcomeOK, Right
  <2>10. CallOK(k2, now, since, zone)
    BY <1>9, <2>8, <2>9 DEF CallOK, Place, InUse
  <2>11. Goto(c, k2)
    BY <2>2, <2>4, <2>7
  <2>. QED  BY <1>3, <1>5, <1>6, <1>7, <2>8, <2>10, <2>11, UserLeaves
<1>. QED  BY <1>11, <1>12, <1>13

-----------------------------------------------------------------------------
(* The theorems.                                                           *)

LEMMA InitInv ==
    Init => IInv
<1>. SUFFICES ASSUME Init PROVE IInv
  OBVIOUS
<1>1. /\ now = 0 /\ since = 0 /\ zone \in Zones /\ parallel = <<>>
      /\ cache = [k \in Key |-> Absent] /\ heap = [s \in SliceId |-> Absent]
      /\ call = [c \in Caller |-> Idle]
  BY DEF Init
<1>2. \A c \in Caller : call[c].at = "idle" /\ call[c].at \notin InUse
  BY <1>1 DEF Idle, InUse
<1>3. TimeOK(now, since, zone)
  BY <1>1 DEF TimeOK
<1>4. CallsOK(call, now, since, zone)
  <2>1. \A c \in Caller : CallOK(call[c], now, since, zone)
    BY <1>2 DEF CallOK, Place
  <2>. QED  BY <1>1, <2>1 DEF CallsOK
<1>5. ParallelOK(parallel, call)
  BY <1>1 DEF ParallelOK
<1>6. SlicesOK(heap, call)
  BY <1>2 DEF SlicesOK, SliceOK, Shared, Uses
<1>7. HeapOK(heap, cache, call)
  BY <1>1 DEF HeapOK
<1>8. CacheOK(cache, heap, call, now, since, zone)
  BY <1>1 DEF CacheOK, Key
<1>. QED  BY <1>3, <1>4, <1>5, <1>6, <1>7, <1>8 DEF IInv

LEMMA CallStepInv ==
    ASSUME IInv, NEW c \in Caller, CallStep(c) PROVE IInv'
<1>1. CASE DeleteExpired(c)
  BY <1>1, DeleteExpiredInv
<1>2. CASE \E txts \in SetToSeqs(zone[call[c].name]) : Answer(c, txts)
  BY <1>2, AnswerInv
<1>3. CASE \E err \in {"Timeout", "LookupFailed"} : LookupFails(c, err)
  BY <1>3, LookupFailsInv
<1>4. CASE FallBack(c)
  BY <1>4, FallBackInv
<1>5. CASE StoreBadges(c)
  BY <1>5, StoreBadgesInv
<1>6. CASE StoreDiscovery(c)
  BY <1>6, StoreDiscoveryInv
<1>7. CASE SortStep(c)
  BY <1>7, SortStepInv
<1>8. CASE ReadPreferred(c)
  BY <1>8, ReadPreferredInv
<1>9. CASE ScanStep(c)
  BY <1>9, ScanStepInv
<1>10. CASE \E f \in Field : SwapField(c, f)
  BY <1>10, SwapFieldInv
<1>. QED  BY <1>1, <1>2, <1>3, <1>4, <1>5, <1>6, <1>7, <1>8, <1>9, <1>10 DEF CallStep

LEMMA StutterInv ==
    ASSUME IInv, UNCHANGED vars PROVE IInv'
<1>1. UNCHANGED <<now, zone, since, cache, heap, call, parallel>>
  BY DEF vars
<1>2. TimeOK(now, since, zone)' /\ CallsOK(call, now, since, zone)'
  BY <1>1 DEF IInv
<1>3. ParallelOK(parallel, call)' /\ SlicesOK(heap, call)'
  BY <1>1 DEF IInv
<1>4. HeapOK(heap, cache, call)' /\ CacheOK(cache, heap, call, now, since, zone)'
  BY <1>1 DEF IInv
<1>. QED  BY <1>2, <1>3, <1>4 DEF IInv

LEMMA NextInv ==
    IInv /\ [Next]_vars => IInv'
<1>. SUFFICES ASSUME IInv, [Next]_vars PROVE IInv'
  OBVIOUS
<1>1. CASE Tick
  BY <1>1, TickInv
<1>2. CASE \E z \in Zones : Publish(z)
  BY <1>2, PublishInv
<1>3. CASE ClearCache
  BY <1>3, ClearCacheInv
<1>4. CASE \E c \in Caller, k \in Calls : GetCached(c, k)
  BY <1>4, GetCachedInv
<1>5. CASE \E c \in Caller : CallStep(c)
  BY <1>5, CallStepInv
<1>6. CASE \E c \in Caller : ReturnOutcome(c)
  BY <1>6, ReturnOutcomeInv
<1>7. CASE \E d, b \in Caller : ParallelDiscovery(d, b)
  BY <1>7, ParallelDiscoveryInv
<1>8. CASE WaitReturns
  BY <1>8, WaitReturnsInv
<1>9. CASE UNCHANGED vars
  BY <1>9, StutterInv
<1>. QED  BY <1>1, <1>2, <1>3, <1>4, <1>5, <1>6, <1>7, <1>8, <1>9 DEF Next

\* Every call that is over has the outcome that is right for the zone it answers for, and
\* every entry of the cache and every slice has what its age allows.
THEOREM ResolverInvariant == Spec => []IInv
<1>. QED  BY InitInv, NextInv, PTL DEF Spec

LEMMA EndedRight ==
    ASSUME IInv, NEW c \in Caller, call[c].at = "done"
    PROVE  OutcomeOK(call[c])
  BY DEF IInv, CallsOK, CallOK

LEMMA FirstInRange ==
    ASSUME NEW D, NEW s \in Seq(D), s # <<>>
    PROVE  s[1] \in Range(s)
<1>1. DOMAIN s = 1..Len(s) /\ Len(s) \in Nat
  OBVIOUS
<1>2. Len(s) # 0
  OBVIOUS
<1>. QED  BY <1>1, <1>2 DEF Range

\* What ParallelDiscovery returns is an agent of the zone.
LEMMA DiscoveredRight ==
    ASSUME IInv, parallel # <<>>, \A i \in DOMAIN parallel : call[parallel[i]].at = "done",
           NEW d, d = call[parallel[1]].outcome, d.err = "", d.zone # Absent
    PROVE  \/ Discovered.err = "CoreRecordMissing"
           \/ Discovered.AgentID \in {ParseATIRecord(t).id : t \in d.zone.disc}
<1>1. parallel[1] \in Caller /\ call[parallel[1]].kind = "discovery" /\ call[parallel[1]].at = "done"
  BY DEF IInv, ParallelOK
<1>2. PICK k : k = call[parallel[1]]
  OBVIOUS
<1>3. OutcomeOK(k) /\ k.kind = "discovery" /\ k.outcome = d
  BY <1>1, <1>2, EndedRight
<1>4. ATIRecords(d.records) /\ d.records # <<>>
  BY <1>3 DEF OutcomeOK
<1>5. ATIRecordsOf(d.zone) = Range(d.records)
  <2>1. RightFor(k.kind, k.want, d, d.zone)
    BY <1>3 DEF OutcomeOK, Right
  <2>2. ATIRecordsOf(d.zone) = IF d.err = "" THEN Range(d.records) ELSE {}
    BY <1>3, <2>1 DEF RightFor, ATIRecordsOf
  <2>. QED  BY <2>2
<1>6. PICK rs : rs = d.records
  OBVIOUS
<1>7. rs[1] \in Range(rs)
  BY <1>4, <1>6, FirstInRange DEF ATIRecords
<1>8. PICK t \in d.zone.disc : rs[1] = ParseATIRecord(t)
  BY <1>5, <1>6, <1>7 DEF ATIRecordsOf
<1>9. AgentID(d) = rs[1].id
  BY <1>6 DEF AgentID
<1>10. CASE AgentID(d) = Absent
  <2>1. Discovered = [err |-> "CoreRecordMissing"]
    BY <1>10 DEF Discovered
  <2>. QED  BY <2>1
<1>11. CASE AgentID(d) # Absent
  <2>1. Discovered.AgentID = AgentID(d)
    BY <1>11 DEF Discovered
  <2>. QED  BY <1>8, <1>9, <2>1
<1>. QED  BY <1>10, <1>11

\* What a zone has served for a TTL and two lookups is what every call answers, and
\* ParallelDiscovery names an agent of it: for any zones, number of goroutines, TTL and
\* time a lookup takes, whatever fails, is cached, falls back or is sorted meanwhile
\* (getCached, LookupATIBadge, LookupATIDiscovery, FindPreferredBadge,
\* FindBadgeForVersion, ParallelDiscovery).
THEOREM SettledAnswers == Spec => []SettledAnswer
<1>1. IInv => SettledAnswer
  <2>. SUFFICES ASSUME IInv PROVE SettledAnswer
    OBVIOUS
  <2>1. ASSUME NEW c \in Caller, call[c].at = "done", NEW o, o = call[c].outcome,
               o.err \in {"", "NotFound"}, o.zone # Absent,
               "raced" \in DOMAIN o => ~o.raced
        PROVE  RightFor(call[c].kind, call[c].want, o, o.zone)
    <3>1. Right(call[c], o)
      BY <2>1, EndedRight DEF OutcomeOK
    <3>. QED  BY <2>1, <3>1 DEF Right
  <2>. QED  BY <2>1, DiscoveredRight DEF SettledAnswer
<1>. QED  BY <1>1, ResolverInvariant, PTL

IsRequested(requested, v) ==
    requested = IF v = Absent THEN Absent
                ELSE [allows |-> {w \in 1..2 : w >= v}, version |-> v]

LEMMA SelectsLatest ==
    ASSUME NEW rs, ATIRecords(rs), NEW protocol, NEW v \in {1, 2, 3, Absent},
           NEW requested, IsRequested(requested, v)
    PROVE  LatestOf(ResolveVersionForProtocol(rs, "LATEST_COMPATIBLE", requested, protocol),
                    {r \in Serving(rs, protocol) : v # Absent => r.version \in requested.allows})
<1>1. CASE v = Absent
  <2>1. requested = Absent
    BY <1>1 DEF IsRequested
  <2>2. {r \in Serving(rs, protocol) : v # Absent => r.version \in requested.allows} =
            Serving(rs, protocol)
    BY <1>1
  <2>. QED  BY <2>1, <2>2, SelectionIsLatest
<1>2. CASE v # Absent
  <2>1. PICK allows \in SUBSET (1..2) : requested = [allows |-> allows, version |-> v]
    BY <1>2 DEF IsRequested
  <2>2. requested.allows # Malformed
    BY <2>1, RecordConstants
  <2>3. requested # Absent
    <3>1. v \in 1..3
      BY <1>2
    <3>. QED  BY <2>1, <3>1, RecordConstants
  <2>4. {r \in Serving(rs, protocol) : v # Absent => r.version \in requested.allows} =
            {r \in Serving(rs, protocol) : r.version \in requested.allows}
    BY <1>2
  <2>. QED  BY <2>2, <2>3, <2>4, SelectionIsLatest
<1>. QED  BY <1>1, <1>2

\* Whatever order the DNS lists the records in, LATEST_COMPATIBLE selects the latest
\* allowed record that serves the protocol (ResolveVersionForProtocol, preferRecord): for
\* the outcome of every discovery call.
THEOREM SelectionOrderFree == Spec => []SelectionIsOrderFree
<1>1. IInv => SelectionIsOrderFree
  <2>1. ASSUME IInv, NEW c \in Caller, call[c].at = "done", call[c].kind = "discovery",
               call[c].outcome.err = "",
               NEW protocol \in DOMAIN Fold \cup {Absent}, NEW v \in {1, 2, 3, Absent}
        PROVE  LET rs == call[c].outcome.records
                   requested == IF v = Absent THEN Absent
                                ELSE [allows |-> {w \in 1..2 : w >= v}, version |-> v]
                   S == {r \in Range(rs) :
                           /\ protocol # Absent /\ r.protocol # Absent =>
                                  Fold[r.protocol] = Fold[protocol]
                           /\ v # Absent => r.version \in requested.allows}
               IN  LatestOf(ResolveVersionForProtocol(rs, "LATEST_COMPATIBLE", requested,
                                                      protocol), S)
    <3>1. PICK rs : rs = call[c].outcome.records
      OBVIOUS
    <3>2. PICK requested : requested = IF v = Absent THEN Absent
                                       ELSE [allows |-> {w \in 1..2 : w >= v}, version |-> v]
      OBVIOUS
    <3>3. ATIRecords(rs)
      BY <2>1, <3>1, EndedRight DEF OutcomeOK
    <3>. DEFINE S == {r \in Serving(rs, protocol) : v # Absent => r.version \in requested.allows}
    <3>4. LatestOf(ResolveVersionForProtocol(rs, "LATEST_COMPATIBLE", requested, protocol), S)
      <4>1. IsRequested(requested, v)
        BY <3>2 DEF IsRequested
      <4>2. v \in {1, 2, 3, Absent}
        BY <2>1
      <4>. HIDE DEF IsRequested
      <4>. QED  BY <3>3, <4>1, <4>2, SelectsLatest
    <3>5. S = {r \in Range(rs) : /\ protocol # Absent /\ r.protocol # Absent =>
                                        Fold[r.protocol] = Fold[protocol]
                                 /\ v # Absent => r.version \in requested.allows}
      BY DEF Serving
    <3>. QED  BY <3>1, <3>2, <3>4, <3>5
  <2>. QED  BY <2>1 DEF SelectionIsOrderFree, LatestOf
<1>. QED  BY <1>1, ResolverInvariant, PTL
=============================================================================
