---------------------------- MODULE EvidenceProofs ----------------------------
(***************************************************************************)
(* Proofs about Evidence, for every set of records, keys, certificates,       *)
(* configurations and tree shapes: how long each kind of evidence outlives    *)
(* the record it speaks of, and what an accepted response rests on.           *)
(***************************************************************************)
EXTENDS Evidence, WellFoundedInduction, TLAPS

\* The last moment, so far, at which the agent's record was live.
LastLive == IF ended = None THEN now ELSE ended

ClockInv ==
    /\ cfg \in Configs
    /\ now \in Nat
    /\ ended \in Nat \cup {None}
    /\ ended # None => ended <= now
    /\ ended = None <=> ~IsTerminal(payload.agentStatus)

RequestFields == {"at", "op", "cert", "reply", "deadline", "seen"}

\* The response r carries record p, or its seal was made over p.
Attests(r, p) == r.payload = p \/ r.seal.signature.over[1] = p

\* A request has its deadline ahead of it and has seen the current record.
WaitInv ==
    call.at = "requested" =>
        /\ DOMAIN call = RequestFields
        /\ call.deadline \in Nat
        /\ now <= call.deadline
        /\ call.deadline <= now + FetchTimeout
        /\ payload \in call.seen

\* With L the last live moment: what the log answered is about a record that was current
\* during the request, and if that record is not terminal the request had begun by L.
ReplyInv(L) ==
    call.at = "requested" /\ call.reply # None =>
        /\ call.op \in {"gold", "diagnose"} =>
              \E p \in call.seen :
                  /\ Attests(call.reply, p)
                  /\ IsTerminal(p.agentStatus) \/ call.deadline <= L + FetchTimeout
        /\ call.op = "ocsp" /\ call.reply.status = "Good" =>
              call.deadline <= L + OcspLife + FetchTimeout

\* A credential or an OCSP response that is held and says the agent is live does not
\* outlive the record by more than its validity, counted on its issuer's clock.
HeldInv(L) ==
    call.at = "held" /\ call.evidence # None =>
        /\ call.op = "staple" =>
              /\ call.evidence.fields.expiresAt \in Nat
              /\ call.evidence.signature = Signature(call.evidence.kid, call.evidence.fields) =>
                    \/ IsTerminal(call.evidence.fields.status)
                    \/ call.evidence.fields.expiresAt <= L + Skew + StapleLife
        /\ call.op = "ocsp" =>
              /\ call.evidence.nextUpdate \in Nat
              /\ call.evidence.status = "Good" => call.evidence.nextUpdate <= L + OcspLife

OutcomeInv(L) ==
    call.at = "done" =>
        /\ call.when \in Nat
        /\ call.when <= now
        /\ Succeeded({"gold", "diagnose"}) => call.when <= L + FetchTimeout
        /\ Succeeded({"staple"}) => call.when <= L + Skew + StapleLife
        /\ call.op = "ocsp" /\ call.code = "Good" => call.when <= L + OcspLife + FetchTimeout
        /\ Succeeded({"offline"}) => "revocation status unknown" \in call.warnings

CallInv(L) == ReplyInv(L) /\ HeldInv(L) /\ OutcomeInv(L)

IInv == ClockInv /\ WaitInv /\ CallInv(LastLive) /\ AcceptedIsPublished

-----------------------------------------------------------------------------
(* Induction, and the equations of the recursive functions of Merkle.         *)

LEMMA LeastElement ==
    ASSUME NEW T \in SUBSET Nat, T # {}
    PROVE  \E x \in T : \A y \in T : x <= y
<1>. DEFINE R == OpToRel(<, Nat)
<1>1. \A x, y \in Nat : <<y, x>> \in R <=> y < x
  BY DEF OpToRel
<1>2. IsWellFoundedOn(R, Nat)
  BY NatLessThanWellFounded
<1>. HIDE DEF R
<1>3. PICK x \in T : \A y \in T : ~(<<y, x>> \in R)
  BY <1>2, WFMin
<1>4. \A y \in T : ~(y < x)
  BY <1>1, <1>3
<1>. QED  BY <1>4

LEMMA Least ==
    ASSUME NEW T \in SUBSET Nat, T # {}
    PROVE  \E x \in Nat : x \in T /\ \A y \in 0..(x - 1) : y \notin T
<1>1. PICK x \in T : \A y \in T : x <= y
  BY LeastElement
<1>. QED  BY <1>1

LEMMA SplitAtDef ==
    SplitAt = [n \in Nat |-> IF n <= 2 THEN 1 ELSE 2 * SplitAt[(n + 1) \div 2]]
<1>. DEFINE Rhs(g, n) == IF n <= 2 THEN 1 ELSE 2 * g[(n + 1) \div 2]
            Sol(g, n) == \A i \in 0..n : g[i] = Rhs(g, i)
<1>1. ASSUME NEW n \in Nat, NEW g, NEW h, \A i \in 0..(n - 1) : g[i] = h[i]
      PROVE  Rhs(g, n) = Rhs(h, n)
  BY <1>1
<1>. HIDE DEF Rhs
<1>2. ASSUME NEW a \in Nat, NEW b \in Nat, NEW g, NEW h, Sol(g, a), Sol(h, b)
      PROVE  \A n \in Nat : n <= a /\ n <= b => g[n] = h[n]
  <2>. DEFINE T == {n \in Nat : n <= a /\ n <= b /\ g[n] # h[n]}
  <2>. SUFFICES ASSUME T # {} PROVE FALSE
    OBVIOUS
  <2>1. PICK x \in Nat : x \in T /\ \A y \in 0..(x - 1) : y \notin T
    BY Least
  <2>2. \A i \in 0..(x - 1) : g[i] = h[i]
    BY <2>1
  <2>3. g[x] = Rhs(g, x) /\ h[x] = Rhs(h, x)
    BY <1>2, <2>1
  <2>4. Rhs(g, x) = Rhs(h, x)
    BY <1>1, <2>2
  <2>. QED  BY <2>1, <2>3, <2>4
<1>3. ASSUME NEW n \in Nat PROVE \E g : Sol(g, n)
  <2>. DEFINE T == {i \in Nat : ~ \E g : Sol(g, i)}
  <2>. SUFFICES ASSUME T # {} PROVE FALSE
    OBVIOUS
  <2>1. PICK x \in Nat : x \in T /\ \A y \in 0..(x - 1) : y \notin T
    BY Least
  <2>2. PICK g : x # 0 => Sol(g, x - 1)
    <3>1. x # 0 => x - 1 \in 0..(x - 1) /\ x - 1 \in Nat
      OBVIOUS
    <3>. HIDE DEF Sol
    <3>. QED  BY <2>1, <3>1
  <2>3. PICK h : h = [i \in 0..x |-> Rhs(g, i)]
    OBVIOUS
  <2>4. ASSUME NEW j \in 0..x PROVE h[j] = Rhs(h, j)
    <3>1. \A i \in 0..(j - 1) : g[i] = h[i]
      BY <2>2, <2>3
    <3>2. Rhs(g, j) = Rhs(h, j)
      BY <1>1, <3>1
    <3>. QED  BY <2>3, <3>2
  <2>. QED  BY <2>4, <2>1
<1>4. PICK F : F = [n \in Nat |-> CHOOSE g : Sol(g, n)]
  OBVIOUS
<1>5. \A n \in Nat : Sol(F[n], n)
  BY <1>3, <1>4
<1>6. PICK f : f = [n \in Nat |-> F[n][n]]
  OBVIOUS
<1>7. ASSUME NEW n \in Nat PROVE f[n] = Rhs(f, n)
  <2>1. PICK g : g = F[n]
    OBVIOUS
  <2>2. \A i \in 0..(n - 1) : g[i] = f[i]
    <3>. SUFFICES ASSUME NEW i \in 0..(n - 1) PROVE g[i] = f[i]
      OBVIOUS
    <3>1. f[i] = F[i][i] /\ Sol(F[i], i) /\ Sol(g, n)
      BY <1>5, <1>6, <2>1
    <3>. HIDE DEF Sol
    <3>. QED  BY <1>2, <3>1
  <2>3. f[n] = Rhs(g, n)
    BY <1>5, <1>6, <2>1
  <2>. QED  BY <1>1, <2>2, <2>3
<1>8. f = [n \in Nat |-> Rhs(f, n)]
  BY <1>6, <1>7
<1>. QED  BY <1>8 DEF SplitAt, Rhs

\* SplitAt cuts a range of more than one leaf into two that are smaller, the first even
\* unless it is one leaf.
LEMMA SplitAtBounds ==
    ASSUME NEW n \in Nat, n >= 2
    PROVE  /\ SplitAt[n] \in 1..(n - 1)
           /\ n <= 2 * SplitAt[n]
           /\ n = 2 => SplitAt[n] = 1
           /\ n > 2 => SplitAt[n] = 2 * SplitAt[(n + 1) \div 2]
<1>1. \A i \in Nat : SplitAt[i] = IF i <= 2 THEN 1 ELSE 2 * SplitAt[(i + 1) \div 2]
  BY SplitAtDef
<1>. DEFINE T == {i \in Nat : i >= 2 /\ ~(SplitAt[i] \in 1..(i - 1) /\ i <= 2 * SplitAt[i])}
<1>2. T = {}
  <2>. SUFFICES ASSUME T # {} PROVE FALSE
    OBVIOUS
  <2>1. PICK x \in Nat : x \in T /\ \A y \in 0..(x - 1) : y \notin T
    BY Least
  <2>2. x > 2
    BY <1>1, <2>1
  <2>. DEFINE h == (x + 1) \div 2
  <2>3. h \in 0..(x - 1) /\ h >= 2 /\ 2 * h <= x + 1 /\ x <= 2 * h
    BY <2>2
  <2>4. SplitAt[x] = 2 * SplitAt[h]
    BY <1>1, <2>2
  <2>. HIDE DEF h
  <2>5. SplitAt[h] \in 1..(h - 1) /\ h <= 2 * SplitAt[h]
    BY <2>1, <2>3
  <2>6. SplitAt[x] \in 1..(x - 1) /\ x <= 2 * SplitAt[x]
    BY <2>3, <2>4, <2>5
  <2>. QED  BY <2>1, <2>6
<1>3. n \notin T
  BY <1>2
<1>4. SplitAt[n] \in 1..(n - 1) /\ n <= 2 * SplitAt[n]
  BY <1>3
<1>. QED  BY <1>1, <1>4

LEMMA AlignedDef ==
    Aligned = [fn \in Nat |-> [sn \in Nat |-> IF Odd(fn) \/ fn = 0 THEN [fn |-> fn, sn |-> sn]
                                              ELSE Aligned[fn \div 2][sn \div 2]]]
<1>. DEFINE Rhs(g, n) == [sn \in Nat |-> IF Odd(n) \/ n = 0 THEN [fn |-> n, sn |-> sn]
                                         ELSE g[n \div 2][sn \div 2]]
            Sol(g, n) == \A i \in 0..n : g[i] = Rhs(g, i)
<1>1. ASSUME NEW n \in Nat, NEW g, NEW h, \A i \in 0..(n - 1) : g[i] = h[i]
      PROVE  Rhs(g, n) = Rhs(h, n)
  BY <1>1 DEF Odd
<1>. HIDE DEF Rhs
<1>2. ASSUME NEW a \in Nat, NEW b \in Nat, NEW g, NEW h, Sol(g, a), Sol(h, b)
      PROVE  \A n \in Nat : n <= a /\ n <= b => g[n] = h[n]
  <2>. DEFINE T == {n \in Nat : n <= a /\ n <= b /\ g[n] # h[n]}
  <2>. SUFFICES ASSUME T # {} PROVE FALSE
    OBVIOUS
  <2>1. PICK x \in Nat : x \in T /\ \A y \in 0..(x - 1) : y \notin T
    BY Least
  <2>2. \A i \in 0..(x - 1) : g[i] = h[i]
    BY <2>1
  <2>3. g[x] = Rhs(g, x) /\ h[x] = Rhs(h, x)
    BY <1>2, <2>1
  <2>4. Rhs(g, x) = Rhs(h, x)
    BY <1>1, <2>2
  <2>. QED  BY <2>1, <2>3, <2>4
<1>3. ASSUME NEW n \in Nat PROVE \E g : Sol(g, n)
  <2>. DEFINE T == {i \in Nat : ~ \E g : Sol(g, i)}
  <2>. SUFFICES ASSUME T # {} PROVE FALSE
    OBVIOUS
  <2>1. PICK x \in Nat : x \in T /\ \A y \in 0..(x - 1) : y \notin T
    BY Least
  <2>2. PICK g : x # 0 => Sol(g, x - 1)
    <3>1. x # 0 => x - 1 \in 0..(x - 1) /\ x - 1 \in Nat
      OBVIOUS
    <3>. HIDE DEF Sol
    <3>. QED  BY <2>1, <3>1
  <2>3. PICK h : h = [i \in 0..x |-> Rhs(g, i)]
    OBVIOUS
  <2>4. ASSUME NEW j \in 0..x PROVE h[j] = Rhs(h, j)
    <3>1. \A i \in 0..(j - 1) : g[i] = h[i]
      BY <2>2, <2>3
    <3>2. Rhs(g, j) = Rhs(h, j)
      BY <1>1, <3>1
    <3>. QED  BY <2>3, <3>2
  <2>. QED  BY <2>4, <2>1
<1>4. PICK F : F = [n \in Nat |-> CHOOSE g : Sol(g, n)]
  OBVIOUS
<1>5. \A n \in Nat : Sol(F[n], n)
  BY <1>3, <1>4
<1>6. PICK f : f = [n \in Nat |-> F[n][n]]
  OBVIOUS
<1>7. ASSUME NEW n \in Nat PROVE f[n] = Rhs(f, n)
  <2>1. PICK g : g = F[n]
    OBVIOUS
  <2>2. \A i \in 0..(n - 1) : g[i] = f[i]
    <3>. SUFFICES ASSUME NEW i \in 0..(n - 1) PROVE g[i] = f[i]
      OBVIOUS
    <3>1. f[i] = F[i][i] /\ Sol(F[i], i) /\ Sol(g, n)
      BY <1>5, <1>6, <2>1
    <3>. HIDE DEF Sol
    <3>. QED  BY <1>2, <3>1
  <2>3. f[n] = Rhs(g, n)
    BY <1>5, <1>6, <2>1
  <2>. QED  BY <1>1, <2>2, <2>3
<1>8. f = [n \in Nat |-> Rhs(f, n)]
  BY <1>6, <1>7
<1>. QED  BY <1>8 DEF Aligned, Rhs

LEMMA TreeHashDef ==
    ASSUME NEW D
    PROVE  TreeHash(D) = [n \in Nat |-> [lo \in Nat |->
               IF n <= 1 THEN D[lo]
               ELSE ComputeNodeHash(TreeHash(D)[SplitAt[n]][lo], TreeHash(D)[n - SplitAt[n]][lo + SplitAt[n]])]]
<1>. DEFINE Rhs(g, n) == [lo \in Nat |->
                            IF n <= 1 THEN D[lo]
                            ELSE ComputeNodeHash(g[SplitAt[n]][lo], g[n - SplitAt[n]][lo + SplitAt[n]])]
            Sol(g, n) == \A i \in 0..n : g[i] = Rhs(g, i)
<1>1. ASSUME NEW n \in Nat, NEW g, NEW h, \A i \in 0..(n - 1) : g[i] = h[i]
      PROVE  Rhs(g, n) = Rhs(h, n)
  BY <1>1, SplitAtBounds
<1>. HIDE DEF Rhs
<1>2. ASSUME NEW a \in Nat, NEW b \in Nat, NEW g, NEW h, Sol(g, a), Sol(h, b)
      PROVE  \A n \in Nat : n <= a /\ n <= b => g[n] = h[n]
  <2>. DEFINE T == {n \in Nat : n <= a /\ n <= b /\ g[n] # h[n]}
  <2>. SUFFICES ASSUME T # {} PROVE FALSE
    OBVIOUS
  <2>1. PICK x \in Nat : x \in T /\ \A y \in 0..(x - 1) : y \notin T
    BY Least
  <2>2. \A i \in 0..(x - 1) : g[i] = h[i]
    BY <2>1
  <2>3. g[x] = Rhs(g, x) /\ h[x] = Rhs(h, x)
    BY <1>2, <2>1
  <2>4. Rhs(g, x) = Rhs(h, x)
    BY <1>1, <2>2
  <2>. QED  BY <2>1, <2>3, <2>4
<1>3. ASSUME NEW n \in Nat PROVE \E g : Sol(g, n)
  <2>. DEFINE T == {i \in Nat : ~ \E g : Sol(g, i)}
  <2>. SUFFICES ASSUME T # {} PROVE FALSE
    OBVIOUS
  <2>1. PICK x \in Nat : x \in T /\ \A y \in 0..(x - 1) : y \notin T
    BY Least
  <2>2. PICK g : x # 0 => Sol(g, x - 1)
    <3>1. x # 0 => x - 1 \in 0..(x - 1) /\ x - 1 \in Nat
      OBVIOUS
    <3>. HIDE DEF Sol
    <3>. QED  BY <2>1, <3>1
  <2>3. PICK h : h = [i \in 0..x |-> Rhs(g, i)]
    OBVIOUS
  <2>4. ASSUME NEW j \in 0..x PROVE h[j] = Rhs(h, j)
    <3>1. \A i \in 0..(j - 1) : g[i] = h[i]
      BY <2>2, <2>3
    <3>2. Rhs(g, j) = Rhs(h, j)
      BY <1>1, <3>1
    <3>. QED  BY <2>3, <3>2
  <2>. QED  BY <2>4, <2>1
<1>4. PICK F : F = [n \in Nat |-> CHOOSE g : Sol(g, n)]
  OBVIOUS
<1>5. \A n \in Nat : Sol(F[n], n)
  BY <1>3, <1>4
<1>6. PICK f : f = [n \in Nat |-> F[n][n]]
  OBVIOUS
<1>7. ASSUME NEW n \in Nat PROVE f[n] = Rhs(f, n)
  <2>1. PICK g : g = F[n]
    OBVIOUS
  <2>2. \A i \in 0..(n - 1) : g[i] = f[i]
    <3>. SUFFICES ASSUME NEW i \in 0..(n - 1) PROVE g[i] = f[i]
      OBVIOUS
    <3>1. f[i] = F[i][i] /\ Sol(F[i], i) /\ Sol(g, n)
      BY <1>5, <1>6, <2>1
    <3>. HIDE DEF Sol
    <3>. QED  BY <1>2, <3>1
  <2>3. f[n] = Rhs(g, n)
    BY <1>5, <1>6, <2>1
  <2>. QED  BY <1>1, <2>2, <2>3
<1>8. f = [n \in Nat |-> Rhs(f, n)]
  BY <1>6, <1>7
<1>. QED  BY <1>8 DEF TreeHash, Rhs

LEMMA AuditPathDef ==
    ASSUME NEW D
    PROVE  AuditPath(D) = [n \in Nat |-> [lo \in Nat |-> [m \in Nat |->
               IF n <= 1 THEN <<>>
               ELSE IF m < SplitAt[n]
                      THEN Append(AuditPath(D)[SplitAt[n]][lo][m], TreeHash(D)[n - SplitAt[n]][lo + SplitAt[n]])
                    ELSE Append(AuditPath(D)[n - SplitAt[n]][lo + SplitAt[n]][m - SplitAt[n]],
                                TreeHash(D)[SplitAt[n]][lo])]]]
<1>. DEFINE Rhs(g, n) == [lo \in Nat |-> [m \in Nat |->
               IF n <= 1 THEN <<>>
               ELSE IF m < SplitAt[n]
                      THEN Append(g[SplitAt[n]][lo][m], TreeHash(D)[n - SplitAt[n]][lo + SplitAt[n]])
                    ELSE Append(g[n - SplitAt[n]][lo + SplitAt[n]][m - SplitAt[n]],
                                TreeHash(D)[SplitAt[n]][lo])]]
            Sol(g, n) == \A i \in 0..n : g[i] = Rhs(g, i)
<1>1. ASSUME NEW n \in Nat, NEW g, NEW h, \A i \in 0..(n - 1) : g[i] = h[i]
      PROVE  Rhs(g, n) = Rhs(h, n)
  <2>1. n > 1 => g[SplitAt[n]] = h[SplitAt[n]] /\ g[n - SplitAt[n]] = h[n - SplitAt[n]]
    BY <1>1, SplitAtBounds
  <2>. QED  BY <2>1
<1>. HIDE DEF Rhs
<1>2. ASSUME NEW a \in Nat, NEW b \in Nat, NEW g, NEW h, Sol(g, a), Sol(h, b)
      PROVE  \A n \in Nat : n <= a /\ n <= b => g[n] = h[n]
  <2>. DEFINE T == {n \in Nat : n <= a /\ n <= b /\ g[n] # h[n]}
  <2>. SUFFICES ASSUME T # {} PROVE FALSE
    OBVIOUS
  <2>1. PICK x \in Nat : x \in T /\ \A y \in 0..(x - 1) : y \notin T
    BY Least
  <2>2. \A i \in 0..(x - 1) : g[i] = h[i]
    BY <2>1
  <2>3. g[x] = Rhs(g, x) /\ h[x] = Rhs(h, x)
    BY <1>2, <2>1
  <2>4. Rhs(g, x) = Rhs(h, x)
    BY <1>1, <2>2
  <2>. QED  BY <2>1, <2>3, <2>4
<1>3. ASSUME NEW n \in Nat PROVE \E g : Sol(g, n)
  <2>. DEFINE T == {i \in Nat : ~ \E g : Sol(g, i)}
  <2>. SUFFICES ASSUME T # {} PROVE FALSE
    OBVIOUS
  <2>1. PICK x \in Nat : x \in T /\ \A y \in 0..(x - 1) : y \notin T
    BY Least
  <2>2. PICK g : x # 0 => Sol(g, x - 1)
    <3>1. x # 0 => x - 1 \in 0..(x - 1) /\ x - 1 \in Nat
      OBVIOUS
    <3>. HIDE DEF Sol
    <3>. QED  BY <2>1, <3>1
  <2>3. PICK h : h = [i \in 0..x |-> Rhs(g, i)]
    OBVIOUS
  <2>4. ASSUME NEW j \in 0..x PROVE h[j] = Rhs(h, j)
    <3>1. \A i \in 0..(j - 1) : g[i] = h[i]
      BY <2>2, <2>3
    <3>2. Rhs(g, j) = Rhs(h, j)
      BY <1>1, <3>1
    <3>. QED  BY <2>3, <3>2
  <2>. QED  BY <2>4, <2>1
<1>4. PICK F : F = [n \in Nat |-> CHOOSE g : Sol(g, n)]
  OBVIOUS
<1>5. \A n \in Nat : Sol(F[n], n)
  BY <1>3, <1>4
<1>6. PICK f : f = [n \in Nat |-> F[n][n]]
  OBVIOUS
<1>7. ASSUME NEW n \in Nat PROVE f[n] = Rhs(f, n)
  <2>1. PICK g : g = F[n]
    OBVIOUS
  <2>2. \A i \in 0..(n - 1) : g[i] = f[i]
    <3>. SUFFICES ASSUME NEW i \in 0..(n - 1) PROVE g[i] = f[i]
      OBVIOUS
    <3>1. f[i] = F[i][i] /\ Sol(F[i], i) /\ Sol(g, n)
      BY <1>5, <1>6, <2>1
    <3>. HIDE DEF Sol
    <3>. QED  BY <1>2, <3>1
  <2>3. f[n] = Rhs(g, n)
    BY <1>5, <1>6, <2>1
  <2>. QED  BY <1>1, <2>2, <2>3
<1>8. f = [n \in Nat |-> Rhs(f, n)]
  BY <1>6, <1>7
<1>. QED  BY <1>8 DEF AuditPath, Rhs

LEMMA WalkFromDef ==
    ASSUME NEW s, NEW path
    PROVE  \E at : /\ at = [i \in Nat |-> IF i = 0 THEN s ELSE Advance(at[i - 1], path[i])]
                   /\ WalkFrom(s, path) = at[Len(path)]
<1>. DEFINE Rhs(g, n) == IF n = 0 THEN s ELSE Advance(g[n - 1], path[n])
            Sol(g, n) == \A i \in 0..n : g[i] = Rhs(g, i)
<1>1. ASSUME NEW n \in Nat, NEW g, NEW h, \A i \in 0..(n - 1) : g[i] = h[i]
      PROVE  Rhs(g, n) = Rhs(h, n)
  BY <1>1
<1>. HIDE DEF Rhs
<1>2. ASSUME NEW a \in Nat, NEW b \in Nat, NEW g, NEW h, Sol(g, a), Sol(h, b)
      PROVE  \A n \in Nat : n <= a /\ n <= b => g[n] = h[n]
  <2>. DEFINE T == {n \in Nat : n <= a /\ n <= b /\ g[n] # h[n]}
  <2>. SUFFICES ASSUME T # {} PROVE FALSE
    OBVIOUS
  <2>1. PICK x \in Nat : x \in T /\ \A y \in 0..(x - 1) : y \notin T
    BY Least
  <2>2. \A i \in 0..(x - 1) : g[i] = h[i]
    BY <2>1
  <2>3. g[x] = Rhs(g, x) /\ h[x] = Rhs(h, x)
    BY <1>2, <2>1
  <2>4. Rhs(g, x) = Rhs(h, x)
    BY <1>1, <2>2
  <2>. QED  BY <2>1, <2>3, <2>4
<1>3. ASSUME NEW n \in Nat PROVE \E g : Sol(g, n)
  <2>. DEFINE T == {i \in Nat : ~ \E g : Sol(g, i)}
  <2>. SUFFICES ASSUME T # {} PROVE FALSE
    OBVIOUS
  <2>1. PICK x \in Nat : x \in T /\ \A y \in 0..(x - 1) : y \notin T
    BY Least
  <2>2. PICK g : x # 0 => Sol(g, x - 1)
    <3>1. x # 0 => x - 1 \in 0..(x - 1) /\ x - 1 \in Nat
      OBVIOUS
    <3>. HIDE DEF Sol
    <3>. QED  BY <2>1, <3>1
  <2>3. PICK h : h = [i \in 0..x |-> Rhs(g, i)]
    OBVIOUS
  <2>4. ASSUME NEW j \in 0..x PROVE h[j] = Rhs(h, j)
    <3>1. \A i \in 0..(j - 1) : g[i] = h[i]
      BY <2>2, <2>3
    <3>2. Rhs(g, j) = Rhs(h, j)
      BY <1>1, <3>1
    <3>. QED  BY <2>3, <3>2
  <2>. QED  BY <2>4, <2>1
<1>4. PICK F : F = [n \in Nat |-> CHOOSE g : Sol(g, n)]
  OBVIOUS
<1>5. \A n \in Nat : Sol(F[n], n)
  BY <1>3, <1>4
<1>6. PICK f : f = [n \in Nat |-> F[n][n]]
  OBVIOUS
<1>7. ASSUME NEW n \in Nat PROVE f[n] = Rhs(f, n)
  <2>1. PICK g : g = F[n]
    OBVIOUS
  <2>2. \A i \in 0..(n - 1) : g[i] = f[i]
    <3>. SUFFICES ASSUME NEW i \in 0..(n - 1) PROVE g[i] = f[i]
      OBVIOUS
    <3>1. f[i] = F[i][i] /\ Sol(F[i], i) /\ Sol(g, n)
      BY <1>5, <1>6, <2>1
    <3>. HIDE DEF Sol
    <3>. QED  BY <1>2, <3>1
  <2>3. f[n] = Rhs(g, n)
    BY <1>5, <1>6, <2>1
  <2>. QED  BY <1>1, <2>2, <2>3
<1>8. f = [n \in Nat |-> Rhs(f, n)]
  BY <1>6, <1>7
<1>. QED  BY <1>8 DEF WalkFrom, Rhs

-----------------------------------------------------------------------------
(* The reference, level by level: RFC 9162 splits a tree at the top, the walk *)
(* climbs it from the leaf.                                                  *)

\* What the tree hash and the audit path of n leaves from number lo on are made of.
LEMMA TreeHashEq ==
    ASSUME NEW D, NEW n \in Nat, NEW lo \in Nat
    PROVE  LET k == SplitAt[n]
           IN  /\ n <= 1 => TreeHash(D)[n][lo] = D[lo]
               /\ n > 1 => TreeHash(D)[n][lo] = ComputeNodeHash(TreeHash(D)[k][lo], TreeHash(D)[n - k][lo + k])
<1>. DEFINE T == TreeHash(D)
<1>1. T = [i \in Nat |-> [j \in Nat |->
             IF i <= 1 THEN D[j]
             ELSE ComputeNodeHash(T[SplitAt[i]][j], T[i - SplitAt[i]][j + SplitAt[i]])]]
  BY TreeHashDef
<1>. HIDE DEF T
<1>2. T[n] = [j \in Nat |-> IF n <= 1 THEN D[j]
                            ELSE ComputeNodeHash(T[SplitAt[n]][j], T[n - SplitAt[n]][j + SplitAt[n]])]
  BY <1>1
<1>3. T[n][lo] = IF n <= 1 THEN D[lo]
                 ELSE ComputeNodeHash(T[SplitAt[n]][lo], T[n - SplitAt[n]][lo + SplitAt[n]])
  BY <1>2
<1>. QED  BY <1>3 DEF T

\* A path with one more hash, which stays unexpanded in most of the proofs.
Extend(p, x) == Append(p, x)

LEMMA AuditPathEq ==
    ASSUME NEW D, NEW n \in Nat, NEW lo \in Nat, NEW m \in Nat
    PROVE  /\ n <= 1 => AuditPath(D)[n][lo][m] = <<>>
           /\ n > 1 /\ m < SplitAt[n] =>
                 AuditPath(D)[n][lo][m] =
                    Extend(AuditPath(D)[SplitAt[n]][lo][m], TreeHash(D)[n - SplitAt[n]][lo + SplitAt[n]])
           /\ n > 1 /\ ~(m < SplitAt[n]) =>
                 AuditPath(D)[n][lo][m] =
                    Extend(AuditPath(D)[n - SplitAt[n]][lo + SplitAt[n]][m - SplitAt[n]],
                           TreeHash(D)[SplitAt[n]][lo])
<1>. DEFINE P == AuditPath(D)
            T == TreeHash(D)
            R(i, j, l) ==
               IF i <= 1 THEN <<>>
               ELSE IF l < SplitAt[i] THEN Extend(P[SplitAt[i]][j][l], T[i - SplitAt[i]][j + SplitAt[i]])
                    ELSE Extend(P[i - SplitAt[i]][j + SplitAt[i]][l - SplitAt[i]], T[SplitAt[i]][j])
<1>1. P = [i \in Nat |-> [j \in Nat |-> [l \in Nat |-> R(i, j, l)]]]
  BY AuditPathDef DEF Extend
<1>. HIDE DEF P, T
<1>2. P[n][lo][m] = R(n, lo, m)
  <2>. HIDE DEF R
  <2>1. P[n] = [j \in Nat |-> [l \in Nat |-> R(n, j, l)]]
    BY <1>1
  <2>2. P[n][lo] = [l \in Nat |-> R(n, lo, l)]
    BY <2>1
  <2>. QED  BY <2>2
<1>. DEFINE A == Extend(P[SplitAt[n]][lo][m], T[n - SplitAt[n]][lo + SplitAt[n]])
            B == Extend(P[n - SplitAt[n]][lo + SplitAt[n]][m - SplitAt[n]], T[SplitAt[n]][lo])
<1>3. P[n][lo][m] = IF n <= 1 THEN <<>> ELSE IF m < SplitAt[n] THEN A ELSE B
  BY <1>2, Zenon
<1>. HIDE DEF A, B, R
<1>4. /\ n <= 1 => P[n][lo][m] = <<>>
      /\ n > 1 /\ m < SplitAt[n] => P[n][lo][m] = A
      /\ n > 1 /\ ~(m < SplitAt[n]) => P[n][lo][m] = B
  BY <1>3
<1>. QED  BY <1>4, Zenon DEF P, T, A, B

\* The next level of a tree of n nodes whose nodes the function D gives.
Level(D, n) == [i \in Nat |-> IF 2 * i + 1 < n THEN ComputeNodeHash(D[2 * i], D[2 * i + 1]) ELSE D[2 * i]]

\* The sibling of node m of a level of n nodes, which the last may not have.
Sibling(D, n, m) == IF Odd(m) THEN <<D[m - 1]>> ELSE IF m + 1 < n THEN <<D[m + 1]>> ELSE <<>>

\* On a level of N nodes, the n nodes from number lo on are the children of whole nodes of
\* the next level.
Whole(N, n, lo) == n >= 1 /\ lo % 2 = 0 /\ lo + n <= N /\ (n % 2 = 0 \/ lo + n = N)

HashAbove(D, N, n, lo) == TreeHash(D)[n][lo] = TreeHash(Level(D, N))[(n + 1) \div 2][lo \div 2]

ClimbsFrom(D, N, n, lo, m) ==
    AuditPath(D)[n][lo][m] =
       Sibling(D, lo + n, lo + m) \o AuditPath(Level(D, N))[(n + 1) \div 2][lo \div 2][m \div 2]

\* A range of a level is the hash of the range of the next level above it.
LEMMA TreeHashLevel ==
    ASSUME NEW D, NEW N \in Nat, NEW size \in Nat, NEW first \in Nat, Whole(N, size, first)
    PROVE  HashAbove(D, N, size, first)
<1>. DEFINE U == Level(D, N)
            T == {n \in Nat : \E lo \in Nat : Whole(N, n, lo) /\ ~HashAbove(D, N, n, lo)}
<1>0. SUFFICES ASSUME T # {} PROVE FALSE
  OBVIOUS
<1>1. PICK n \in Nat : n \in T /\ \A y \in 0..(n - 1) : y \notin T
  BY <1>0, Least
<1>2. PICK lo \in Nat : Whole(N, n, lo) /\ ~HashAbove(D, N, n, lo)
  BY <1>1
<1>3. \A i \in 1..(n - 1) : \A j \in Nat : Whole(N, i, j) => HashAbove(D, N, i, j)
  BY <1>1
<1>4. CASE n = 1
  <2>1. lo \div 2 \in Nat /\ 2 * (lo \div 2) = lo /\ lo + 1 = N /\ (n + 1) \div 2 = 1
    BY <1>2, <1>4 DEF Whole
  <2>2. TreeHash(D)[n][lo] = D[lo]
    BY <1>4, TreeHashEq
  <2>3. U[lo \div 2] = D[lo]
    BY <2>1 DEF Level
  <2>4. TreeHash(U)[1][lo \div 2] = U[lo \div 2]
    BY <2>1, TreeHashEq
  <2>. QED  BY <1>2, <2>1, <2>2, <2>3, <2>4 DEF HashAbove
<1>5. CASE n = 2
  <2>1. /\ lo \div 2 \in Nat /\ 2 * (lo \div 2) = lo /\ lo + 1 < N /\ (n + 1) \div 2 = 1
        /\ SplitAt[2] = 1
    BY <1>2, <1>5, SplitAtBounds DEF Whole
  <2>2. TreeHash(D)[2][lo] = ComputeNodeHash(TreeHash(D)[1][lo], TreeHash(D)[1][lo + 1])
    <3>1. TreeHash(D)[n][lo] =
             ComputeNodeHash(TreeHash(D)[SplitAt[n]][lo], TreeHash(D)[n - SplitAt[n]][lo + SplitAt[n]])
      BY <1>5, TreeHashEq
    <3>2. SplitAt[n] = 1 /\ n - SplitAt[n] = 1
      BY <1>5, <2>1
    <3>. QED  BY <1>5, <3>1, <3>2
  <2>3. TreeHash(D)[1][lo] = D[lo] /\ TreeHash(D)[1][lo + 1] = D[lo + 1]
    BY TreeHashEq
  <2>4. U[lo \div 2] = ComputeNodeHash(D[lo], D[lo + 1])
    BY <2>1 DEF Level
  <2>5. TreeHash(U)[1][lo \div 2] = U[lo \div 2]
    BY <2>1, TreeHashEq
  <2>. QED  BY <1>2, <1>5, <2>1, <2>2, <2>3, <2>4, <2>5 DEF HashAbove
<1>6. CASE n > 2
  <2>. DEFINE h == (n + 1) \div 2
              k == SplitAt[n]
              c == SplitAt[h]
              b == lo \div 2
  <2>1. h \in Nat /\ h >= 2 /\ h < n /\ 2 * h >= n /\ 2 * h <= n + 1
    BY <1>6
  <2>2. k \in 1..(n - 1) /\ k = 2 * c /\ c \in 1..(h - 1)
    BY <1>6, <2>1, SplitAtBounds
  <2>3. b \in Nat /\ lo = 2 * b /\ lo + n <= N /\ (n % 2 = 0 \/ lo + n = N)
    BY <1>2 DEF Whole
  <2>. HIDE DEF k, c, b, h
  <2>4. /\ (k + 1) \div 2 = c /\ (n - k + 1) \div 2 = h - c /\ (lo + k) \div 2 = b + c
        /\ Whole(N, k, lo) /\ Whole(N, n - k, lo + k) /\ k \in 1..(n - 1) /\ n - k \in 1..(n - 1) /\ lo + k \in Nat
    BY <1>2, <2>1, <2>2, <2>3 DEF h, Whole
  <2>5. HashAbove(D, N, k, lo) /\ HashAbove(D, N, n - k, lo + k)
    BY <1>3, <2>4
  <2>6. TreeHash(D)[k][lo] = TreeHash(U)[c][b] /\ TreeHash(D)[n - k][lo + k] = TreeHash(U)[h - c][b + c]
    BY <2>4, <2>5 DEF b, HashAbove
  <2>7. TreeHash(D)[n][lo] = ComputeNodeHash(TreeHash(D)[k][lo], TreeHash(D)[n - k][lo + k])
    BY <1>6, TreeHashEq DEF k
  <2>8. TreeHash(U)[h][b] = ComputeNodeHash(TreeHash(U)[c][b], TreeHash(U)[h - c][b + c])
    <3>. HIDE DEF U
    <3>. QED  BY <2>1, <2>3, TreeHashEq DEF c
  <2>. QED  BY <1>2, <2>6, <2>7, <2>8 DEF h, b, HashAbove
<1>7. n >= 1
  BY <1>2 DEF Whole
<1>. QED  BY <1>4, <1>5, <1>6, <1>7

LEMMA TreeHashIsHash ==
    ASSUME NEW D, \A i \in Nat : D[i] # NoHash, NEW n \in Nat, NEW lo \in Nat
    PROVE  TreeHash(D)[n][lo] # NoHash
<1>1. CASE n <= 1
  BY <1>1, TreeHashEq
<1>2. CASE n > 1
  <2>1. PICK a, b : TreeHash(D)[n][lo] = <<a, b>>
    BY <1>2, TreeHashEq DEF ComputeNodeHash
  <2>. QED  BY <2>1 DEF NoHash
<1>. QED  BY <1>1, <1>2

\* p is a sequence of hashes, whatever they are.
IsPath(p) == \E S : p \in Seq(S)

IsHashPath(p) == \E S : NoHash \notin S /\ p \in Seq(S)

LEMMA AuditPathIsPath ==
    ASSUME NEW D, \A i \in Nat : D[i] # NoHash
    PROVE  \A n \in Nat : \A lo \in Nat : \A m \in Nat : m < n => IsHashPath(AuditPath(D)[n][lo][m])
<1>. DEFINE Good(n, lo, m) == m < n => IsHashPath(AuditPath(D)[n][lo][m])
            T == {n \in Nat : \E lo \in Nat, m \in Nat : ~Good(n, lo, m)}
<1>0. SUFFICES ASSUME T # {} PROVE FALSE
  OBVIOUS
<1>1. PICK n \in Nat : n \in T /\ \A y \in 0..(n - 1) : y \notin T
  BY <1>0, Least
<1>2. PICK lo \in Nat, m \in Nat : ~Good(n, lo, m)
  BY <1>1
<1>3. \A i \in 0..(n - 1) : \A j \in Nat : \A l \in Nat : Good(i, j, l)
  <2>. HIDE DEF Good
  <2>. QED  BY <1>1
<1>4. ASSUME NEW p, IsHashPath(p), NEW x, x # NoHash
      PROVE  IsHashPath(Extend(p, x))
  <2>1. PICK S : NoHash \notin S /\ p \in Seq(S)
    BY <1>4 DEF IsHashPath
  <2>2. Append(p, x) \in Seq(S \cup {x})
    BY <2>1
  <2>. QED  BY <1>4, <2>1, <2>2 DEF IsHashPath, Extend
<1>5. CASE n <= 1
  <2>1. <<>> \in Seq({})
    OBVIOUS
  <2>2. AuditPath(D)[n][lo][m] = <<>>
    BY <1>5, AuditPathEq
  <2>3. NoHash \notin {}
    OBVIOUS
  <2>. QED  BY <1>2, <2>1, <2>2, <2>3, Zenon DEF IsHashPath
<1>6. CASE n > 1
  <2>. DEFINE k == SplitAt[n]
  <2>1. k \in 1..(n - 1) /\ n - k \in 1..(n - 1) /\ lo + k \in Nat
    BY <1>6, SplitAtBounds
  <2>. HIDE DEF k
  <2>2. CASE m < k
    <3>1. IsHashPath(AuditPath(D)[k][lo][m])
      BY <1>3, <2>1, <2>2
    <3>2. AuditPath(D)[n][lo][m] = Extend(AuditPath(D)[k][lo][m], TreeHash(D)[n - k][lo + k])
      BY <1>6, <2>2, AuditPathEq DEF k
    <3>3. TreeHash(D)[n - k][lo + k] # NoHash
      BY <2>1, TreeHashIsHash
    <3>. QED  BY <1>2, <1>4, <3>1, <3>2, <3>3
  <2>3. CASE ~(m < k) /\ m < n
    <3>1. m - k \in Nat /\ m - k < n - k
      BY <2>1, <2>3
    <3>2. IsHashPath(AuditPath(D)[n - k][lo + k][m - k])
      BY <1>3, <2>1, <3>1
    <3>3. AuditPath(D)[n][lo][m] = Extend(AuditPath(D)[n - k][lo + k][m - k], TreeHash(D)[k][lo])
      BY <1>6, <2>3, AuditPathEq DEF k
    <3>4. TreeHash(D)[k][lo] # NoHash
      BY <2>1, TreeHashIsHash
    <3>. QED  BY <1>2, <1>4, <3>2, <3>3, <3>4
  <2>. QED  BY <1>2, <2>2, <2>3
<1>. QED  BY <1>5, <1>6

\* The audit path of a node begins with its sibling on its level, if it has one, and goes
\* on with the audit path of its parent on the next level.
LEMMA AuditPathLevel ==
    ASSUME NEW D, NEW N \in Nat, \A i \in Nat : D[i] # NoHash,
           NEW size \in Nat, NEW first \in Nat, NEW index \in Nat, index < size, Whole(N, size, first)
    PROVE  ClimbsFrom(D, N, size, first, index)
<1>. DEFINE U == Level(D, N)
            T == {n \in Nat : \E lo \in Nat, m \in Nat : Whole(N, n, lo) /\ m < n /\ ~ClimbsFrom(D, N, n, lo, m)}
<1>0. SUFFICES ASSUME T # {} PROVE FALSE
  OBVIOUS
<1>1. PICK n \in Nat : n \in T /\ \A y \in 0..(n - 1) : y \notin T
  BY <1>0, Least
<1>2. PICK lo \in Nat, m \in Nat : Whole(N, n, lo) /\ m < n /\ ~ClimbsFrom(D, N, n, lo, m)
  BY <1>1
<1>3. \A i \in 1..(n - 1) : \A j \in Nat : \A l \in Nat : Whole(N, i, j) /\ l < i => ClimbsFrom(D, N, i, j, l)
  BY <1>1
<1>4. \A i \in Nat : U[i] # NoHash
  BY DEF Level, ComputeNodeHash, NoHash
<1>5. CASE n = 1
  <2>1. m = 0 /\ (n + 1) \div 2 = 1 /\ lo \div 2 \in Nat /\ m \div 2 = 0 /\ lo + m = lo /\ lo + n = lo + 1
    BY <1>2, <1>5
  <2>2. AuditPath(D)[n][lo][m] = <<>> /\ AuditPath(U)[1][lo \div 2][0] = <<>>
    <3>1. 1 \in Nat /\ 0 \in Nat /\ 1 <= 1 /\ n <= 1
      BY <1>5
    <3>. QED  BY <2>1, <3>1, AuditPathEq
  <2>3. Sibling(D, lo + n, lo + m) = <<>>
    <3>1. (lo + m) % 2 = 0 /\ ~(lo + m + 1 < lo + n)
      BY <1>2, <2>1 DEF Whole
    <3>. QED  BY <3>1 DEF Sibling, Odd
  <2>4. <<>> \o <<>> = <<>>
    OBVIOUS
  <2>. QED  BY <1>2, <2>1, <2>2, <2>3, <2>4 DEF ClimbsFrom
<1>6. CASE n = 2
  <2>1. /\ m \in 0..1 /\ (n + 1) \div 2 = 1 /\ lo \div 2 \in Nat /\ m \div 2 = 0
        /\ SplitAt[n] = 1 /\ n - SplitAt[n] = 1
    BY <1>2, <1>6, SplitAtBounds
  <2>2. AuditPath(U)[1][lo \div 2][0] = <<>>
    <3>1. 1 \in Nat /\ 0 \in Nat /\ 1 <= 1
      OBVIOUS
    <3>. QED  BY <2>1, <3>1, AuditPathEq
  <2>3. TreeHash(D)[1][lo] = D[lo] /\ TreeHash(D)[1][lo + 1] = D[lo + 1]
    BY TreeHashEq
  <2>4. AuditPath(D)[1][lo][0] = <<>> /\ AuditPath(D)[1][lo + 1][0] = <<>>
    <3>1. 1 \in Nat /\ 0 \in Nat /\ 1 <= 1 /\ lo + 1 \in Nat
      OBVIOUS
    <3>. QED  BY <3>1, AuditPathEq
  <2>5. CASE m = 0
    <3>1. AuditPath(D)[n][lo][m] = Extend(AuditPath(D)[1][lo][m], TreeHash(D)[1][lo + 1])
      <4>1. AuditPath(D)[n][lo][m] =
               Extend(AuditPath(D)[SplitAt[n]][lo][m], TreeHash(D)[n - SplitAt[n]][lo + SplitAt[n]])
        <5>1. n > 1 /\ m < SplitAt[n]
          BY <1>6, <2>1, <2>5
        <5>. QED  BY <5>1, AuditPathEq
      <4>. QED  BY <4>1, <2>1
    <3>2. Sibling(D, lo + n, lo + m) = <<D[lo + 1]>>
      <4>1. (lo + m) % 2 = 0 /\ lo + m + 1 < lo + n /\ lo + m + 1 = lo + 1
        BY <1>2, <1>6, <2>5 DEF Whole
      <4>. QED  BY <4>1 DEF Sibling, Odd
    <3>3. Extend(<<>>, D[lo + 1]) = <<D[lo + 1]>> \o <<>>
      BY DEF Extend
    <3>. QED  BY <1>2, <2>1, <2>2, <2>3, <2>4, <2>5, <3>1, <3>2, <3>3 DEF ClimbsFrom
  <2>6. CASE m = 1
    <3>1. AuditPath(D)[n][lo][m] = Extend(AuditPath(D)[1][lo + 1][0], TreeHash(D)[1][lo])
      <4>1. AuditPath(D)[n][lo][m] =
               Extend(AuditPath(D)[n - SplitAt[n]][lo + SplitAt[n]][m - SplitAt[n]], TreeHash(D)[SplitAt[n]][lo])
        <5>1. n > 1 /\ ~(m < SplitAt[n])
          BY <1>6, <2>1, <2>6
        <5>. QED  BY <5>1, AuditPathEq
      <4>2. m - SplitAt[n] = 0
        BY <2>1, <2>6
      <4>. QED  BY <4>1, <4>2, <2>1
    <3>2. Sibling(D, lo + n, lo + m) = <<D[lo]>>
      <4>1. (lo + m) % 2 = 1 /\ lo + m - 1 = lo
        <5>1. lo % 2 = 0
          BY <1>2 DEF Whole
        <5>. QED  BY <2>6, <5>1
      <4>. QED  BY <4>1 DEF Sibling, Odd
    <3>3. Extend(<<>>, D[lo]) = <<D[lo]>> \o <<>>
      BY DEF Extend
    <3>. QED  BY <1>2, <2>1, <2>2, <2>3, <2>4, <3>1, <3>2, <3>3 DEF ClimbsFrom
  <2>. QED  BY <2>1, <2>5, <2>6
<1>7. CASE n > 2
  <2>. DEFINE h == (n + 1) \div 2
              k == SplitAt[n]
              c == SplitAt[h]
              b == lo \div 2
              q == m \div 2
  <2>1. h \in Nat /\ h >= 2 /\ h < n /\ 2 * h >= n /\ 2 * h <= n + 1
    BY <1>7
  <2>2. k \in 1..(n - 1) /\ k = 2 * c /\ c \in 1..(h - 1)
    BY <1>7, <2>1, SplitAtBounds
  <2>3. b \in Nat /\ lo = 2 * b /\ lo + n <= N /\ (n % 2 = 0 \/ lo + n = N)
    BY <1>2 DEF Whole
  <2>4. q \in Nat /\ 2 * q <= m /\ m <= 2 * q + 1 /\ m < n
    BY <1>2
  <2>. HIDE DEF k, c, b, h, q
  <2>5. /\ (k + 1) \div 2 = c /\ (n - k + 1) \div 2 = h - c /\ (lo + k) \div 2 = b + c
        /\ Whole(N, k, lo) /\ Whole(N, n - k, lo + k) /\ k \in 1..(n - 1) /\ n - k \in 1..(n - 1) /\ lo + k \in Nat
    BY <1>2, <2>1, <2>2, <2>3 DEF h, Whole
  <2>6. /\ TreeHash(D)[k][lo] = TreeHash(U)[c][b]
        /\ TreeHash(D)[n - k][lo + k] = TreeHash(U)[h - c][b + c]
    <3>1. HashAbove(D, N, k, lo) /\ HashAbove(D, N, n - k, lo + k)
      BY <2>5, TreeHashLevel
    <3>. QED  BY <2>5, <3>1 DEF b, HashAbove
  <2>7. ASSUME NEW s, s \in {Sibling(D, lo + n, lo + m)}, NEW p, IsHashPath(p), NEW x
        PROVE  Extend(s \o p, x) = s \o Extend(p, x)
    <3>1. PICK S : p \in Seq(S)
      BY <2>7 DEF IsHashPath
    <3>2. PICK R : s \in Seq(R)
      <4>1. PICK y : s = <<y>> \/ s = <<>>
        BY <2>7 DEF Sibling
      <4>2. s \in Seq({y})
        <5>1. <<>> \in Seq({y}) /\ <<y>> \in Seq({y})
          OBVIOUS
        <5>. QED  BY <4>1, <5>1
      <4>. QED  BY <4>2
    <3>3. s \in Seq(R \cup S \cup {x}) /\ p \in Seq(R \cup S \cup {x})
      BY <3>1, <3>2
    <3>. QED  BY <3>3 DEF Extend
  <2>8. CASE m < k
    <3>1. q < c
      BY <2>2, <2>4, <2>8
    <3>2. ClimbsFrom(D, N, k, lo, m)
      BY <1>3, <2>5, <2>8
    <3>3. AuditPath(D)[k][lo][m] = Sibling(D, lo + k, lo + m) \o AuditPath(U)[c][b][q]
      BY <2>5, <3>2 DEF b, q, ClimbsFrom
    <3>4. Sibling(D, lo + k, lo + m) = Sibling(D, lo + n, lo + m)
      <4>1. ~Odd(lo + m) => lo + m + 1 < lo + k /\ lo + m + 1 < lo + n
        BY <2>2, <2>3, <2>4, <2>8 DEF Odd
      <4>. QED  BY <4>1 DEF Sibling
    <3>5. AuditPath(D)[n][lo][m] = Extend(AuditPath(D)[k][lo][m], TreeHash(D)[n - k][lo + k])
      <4>1. n > 1
        BY <1>7
      <4>. QED  BY <2>8, <4>1, AuditPathEq DEF k
    <3>6. AuditPath(U)[h][b][q] = Extend(AuditPath(U)[c][b][q], TreeHash(U)[h - c][b + c])
      <4>. HIDE DEF U
      <4>1. h > 1
        BY <2>1
      <4>. QED  BY <2>1, <2>3, <2>4, <3>1, <4>1, AuditPathEq DEF c
    <3>7. IsHashPath(AuditPath(U)[c][b][q])
      <4>. HIDE DEF U
      <4>1. c \in Nat /\ b \in Nat /\ q \in Nat /\ q < c
        BY <2>2, <2>3, <2>4, <3>1
      <4>. QED  BY <1>4, <4>1, AuditPathIsPath, Zenon
    <3>8. AuditPath(D)[n][lo][m] = Sibling(D, lo + n, lo + m) \o AuditPath(U)[h][b][q]
      <4>. DEFINE s == Sibling(D, lo + n, lo + m)
                  p == AuditPath(U)[c][b][q]
                  x == TreeHash(U)[h - c][b + c]
      <4>1. AuditPath(D)[n][lo][m] = Extend(s \o p, x) /\ AuditPath(U)[h][b][q] = Extend(p, x)
        BY <2>6, <3>3, <3>4, <3>5, <3>6
      <4>2. Extend(s \o p, x) = s \o Extend(p, x)
        BY <2>7, <3>7
      <4>. QED  BY <4>1, <4>2
    <3>. QED  BY <1>2, <3>8, Zenon DEF h, b, q, ClimbsFrom
  <2>9. CASE ~(m < k)
    <3>1. ~(q < c) /\ q - c \in Nat /\ m - k \in Nat /\ m - k < n - k /\ (m - k) \div 2 = q - c /\ q - c < h - c
      BY <2>1, <2>2, <2>4, <2>9
    <3>2. ClimbsFrom(D, N, n - k, lo + k, m - k)
      BY <1>3, <2>5, <3>1
    <3>3. lo + k + (n - k) = lo + n /\ lo + k + (m - k) = lo + m
      BY <2>2
    <3>4. AuditPath(D)[n - k][lo + k][m - k] = Sibling(D, lo + n, lo + m) \o AuditPath(U)[h - c][b + c][q - c]
      BY <2>5, <3>1, <3>2, <3>3 DEF ClimbsFrom
    <3>5. AuditPath(D)[n][lo][m] = Extend(AuditPath(D)[n - k][lo + k][m - k], TreeHash(D)[k][lo])
      <4>1. n > 1
        BY <1>7
      <4>. QED  BY <2>9, <4>1, AuditPathEq DEF k
    <3>6. AuditPath(U)[h][b][q] = Extend(AuditPath(U)[h - c][b + c][q - c], TreeHash(U)[c][b])
      <4>. HIDE DEF U
      <4>1. h > 1
        BY <2>1
      <4>. QED  BY <2>1, <2>3, <2>4, <3>1, <4>1, AuditPathEq DEF c
    <3>7. IsHashPath(AuditPath(U)[h - c][b + c][q - c])
      <4>. HIDE DEF U
      <4>1. h - c \in Nat /\ b + c \in Nat /\ q - c \in Nat /\ q - c < h - c
        BY <2>1, <2>2, <2>3, <2>4, <3>1
      <4>. QED  BY <1>4, <4>1, AuditPathIsPath, Zenon
    <3>8. AuditPath(D)[n][lo][m] = Sibling(D, lo + n, lo + m) \o AuditPath(U)[h][b][q]
      <4>. DEFINE s == Sibling(D, lo + n, lo + m)
                  p == AuditPath(U)[h - c][b + c][q - c]
                  x == TreeHash(U)[c][b]
      <4>1. AuditPath(D)[n][lo][m] = Extend(s \o p, x) /\ AuditPath(U)[h][b][q] = Extend(p, x)
        BY <2>6, <3>4, <3>5, <3>6
      <4>2. Extend(s \o p, x) = s \o Extend(p, x)
        BY <2>7, <3>7
      <4>. QED  BY <4>1, <4>2
    <3>. QED  BY <1>2, <3>8, Zenon DEF h, b, q, ClimbsFrom
  <2>. QED  BY <2>8, <2>9
<1>8. n >= 1
  BY <1>2 DEF Whole
<1>. QED  BY <1>5, <1>6, <1>7, <1>8

-----------------------------------------------------------------------------
(* The walk.                                                               *)

LEMMA WalkEmpty ==
    ASSUME NEW s
    PROVE  WalkFrom(s, <<>>) = s
<1>1. PICK at : /\ at = [i \in Nat |-> IF i = 0 THEN s ELSE Advance(at[i - 1], <<>>[i])]
                /\ WalkFrom(s, <<>>) = at[Len(<<>>)]
  BY WalkFromDef
<1>. QED  BY <1>1

\* The walk takes the first element of a path, and then the others.
LEMMA WalkCons ==
    ASSUME NEW s, NEW path, IsPath(path), Len(path) > 0
    PROVE  WalkFrom(s, path) = WalkFrom(Advance(s, path[1]), Tail(path))
<1>1. PICK at : /\ at = [i \in Nat |-> IF i = 0 THEN s ELSE Advance(at[i - 1], path[i])]
                /\ WalkFrom(s, path) = at[Len(path)]
  BY WalkFromDef
<1>2. PICK bt : /\ bt = [i \in Nat |-> IF i = 0 THEN Advance(s, path[1]) ELSE Advance(bt[i - 1], Tail(path)[i])]
                /\ WalkFrom(Advance(s, path[1]), Tail(path)) = bt[Len(Tail(path))]
  BY WalkFromDef
<1>3. PICK S : path \in Seq(S)
  BY DEF IsPath
<1>4. Len(path) \in Nat /\ Len(Tail(path)) = Len(path) - 1 /\ \A i \in 1..(Len(path) - 1) : Tail(path)[i] = path[i + 1]
  BY <1>3
<1>5. at[0] = s /\ bt[0] = Advance(s, path[1])
  BY <1>1, <1>2
<1>6. \A i \in Nat : i # 0 => at[i] = Advance(at[i - 1], path[i]) /\ bt[i] = Advance(bt[i - 1], Tail(path)[i])
  BY <1>1, <1>2
<1>7. bt[0] = at[1]
  BY <1>5, <1>6
<1>. DEFINE T == {i \in Nat : i < Len(path) /\ bt[i] # at[i + 1]}
<1>8. T = {}
  <2>1. SUFFICES ASSUME T # {} PROVE FALSE
    OBVIOUS
  <2>2. PICK x \in Nat : x \in T /\ \A y \in 0..(x - 1) : y \notin T
    BY <2>1, Least
  <2>3. x # 0 /\ x < Len(path) /\ bt[x] # at[x + 1]
    BY <1>7, <2>2
  <2>4. bt[x - 1] = at[x]
    <3>1. x - 1 \notin T /\ x - 1 \in Nat /\ x - 1 < Len(path) /\ (x - 1) + 1 = x
      BY <1>4, <2>2, <2>3
    <3>. QED  BY <3>1
  <2>5. bt[x] = Advance(bt[x - 1], Tail(path)[x]) /\ at[x + 1] = Advance(at[x], path[x + 1])
    BY <1>6, <2>3
  <2>6. Tail(path)[x] = path[x + 1]
    BY <1>4, <2>3
  <2>. QED  BY <2>3, <2>4, <2>5, <2>6
<1>9. bt[Len(path) - 1] = at[Len(path)]
  <2>1. PICK n \in Nat : n = Len(path) - 1
    BY <1>4
  <2>2. n \notin T /\ n < Len(path) /\ n + 1 = Len(path)
    BY <1>4, <1>8, <2>1
  <2>. QED  BY <2>1, <2>2
<1>. QED  BY <1>1, <1>2, <1>4, <1>9

\* A path that is not empty is its first element followed by the others.
LEMMA PathCons ==
    ASSUME NEW p, NEW q, IsPath(q)
    PROVE  /\ IsPath(<<p>> \o q)
           /\ Len(<<p>> \o q) > 0
           /\ (<<p>> \o q)[1] = p
           /\ Tail(<<p>> \o q) = q
<1>1. PICK S : q \in Seq(S)
  BY DEF IsPath
<1>2. q \in Seq(S \cup {p}) /\ <<p>> \in Seq(S \cup {p})
  BY <1>1
<1>3. /\ <<p>> \o q \in Seq(S \cup {p})
      /\ Len(<<p>> \o q) > 0
      /\ (<<p>> \o q)[1] = p
  BY <1>2
<1>4. Tail(<<p>> \o q) = q
  BY <1>2
<1>. QED  BY <1>3, <1>4 DEF IsPath

IsState(s) == DOMAIN s = {"ok", "fn", "sn", "r"}

\* The walk that has met an excess element does not end at a root.
LEMMA WalkExcess ==
    ASSUME NEW s, IsState(s), ~s.ok, NEW path, IsPath(path)
    PROVE  ~Complete(WalkFrom(s, path))
<1>1. PICK at : /\ at = [i \in Nat |-> IF i = 0 THEN s ELSE Advance(at[i - 1], path[i])]
                /\ WalkFrom(s, path) = at[Len(path)]
  BY WalkFromDef
<1>2. at[0] = s /\ \A i \in Nat : i # 0 => at[i] = Advance(at[i - 1], path[i])
  BY <1>1
<1>3. ASSUME NEW u, IsState(u), ~u.ok, NEW p
      PROVE  IsState(Advance(u, p)) /\ ~Advance(u, p).ok
  <2>1. Advance(u, p) = [u EXCEPT !.ok = FALSE]
    BY <1>3 DEF Advance
  <2>. QED  BY <1>3, <2>1 DEF IsState
<1>. DEFINE T == {i \in Nat : ~(IsState(at[i]) /\ ~at[i].ok)}
<1>4. T = {}
  <2>1. SUFFICES ASSUME T # {} PROVE FALSE
    OBVIOUS
  <2>2. PICK x \in Nat : x \in T /\ \A y \in 0..(x - 1) : y \notin T
    BY <2>1, Least
  <2>3. x # 0
    BY <1>2, <2>2
  <2>4. IsState(at[x - 1]) /\ ~at[x - 1].ok
    BY <2>2, <2>3
  <2>5. at[x] = Advance(at[x - 1], path[x])
    BY <1>2, <2>3
  <2>6. IsState(at[x]) /\ ~at[x].ok
    BY <1>3, <2>4, <2>5
  <2>. QED  BY <2>2, <2>6
<1>5. Len(path) \in Nat
  BY DEF IsPath
<1>6. ~at[Len(path)].ok
  <2>1. Len(path) \notin T
    BY <1>4
  <2>. QED  BY <1>5, <2>1
<1>. QED  BY <1>1, <1>6 DEF Complete

\* One element advances two walks at the same place alike, and tells them apart.
LEMMA AdvanceAlike ==
    ASSUME NEW s, NEW t, s.ok, t.ok, s.fn = t.fn, s.sn = t.sn, s.sn # 0, NEW p, NEW q
    PROVE  LET a == Advance(s, p)
               b == Advance(t, q)
           IN  /\ IsState(a) /\ IsState(b) /\ a.ok /\ b.ok /\ a.fn = b.fn /\ a.sn = b.sn
               /\ a.r = b.r => s.r = t.r /\ p = q
<1>. DEFINE a == Advance(s, p)
            b == Advance(t, q)
            m == Step(s.fn, s.sn, s.r, p)
            n == Step(t.fn, t.sn, t.r, q)
<1>1. a = [ok |-> TRUE, fn |-> m.fn, sn |-> m.sn, r |-> m.r]
  BY DEF Advance
<1>2. b = [ok |-> TRUE, fn |-> n.fn, sn |-> n.sn, r |-> n.r]
  BY DEF Advance
<1>3. m.fn = n.fn /\ m.sn = n.sn
  BY DEF Step
<1>4. m.r = n.r => s.r = t.r /\ p = q
  <2>1. CASE Odd(s.fn) \/ s.fn = s.sn
    <3>1. m.r = <<p, s.r>> /\ n.r = <<q, t.r>>
      BY <2>1 DEF Step, ComputeNodeHash
    <3>. HIDE DEF m, n
    <3>. QED  BY <3>1
  <2>2. CASE ~(Odd(s.fn) \/ s.fn = s.sn)
    <3>1. m.r = <<s.r, p>> /\ n.r = <<t.r, q>>
      BY <2>2 DEF Step, ComputeNodeHash
    <3>. HIDE DEF m, n
    <3>. QED  BY <3>1
  <2>. QED  BY <2>1, <2>2
<1>. HIDE DEF a, b, m, n
<1>5. IsState(a) /\ IsState(b) /\ a.ok /\ b.ok /\ a.fn = b.fn /\ a.sn = b.sn
  BY <1>1, <1>2, <1>3 DEF IsState
<1>6. a.r = b.r => s.r = t.r /\ p = q
  BY <1>1, <1>2, <1>4
<1>. QED  BY <1>5, <1>6 DEF a, b

\* Two walks that start at the same place of the tree and end at the same root had the
\* same start and took the same path.
LEMMA WalkSound ==
    ASSUME NEW s, NEW t, IsState(s), IsState(t), s.ok, t.ok, s.fn = t.fn, s.sn = t.sn,
           NEW p, NEW q, IsPath(p), IsPath(q),
           Complete(WalkFrom(s, p)), Complete(WalkFrom(t, q)), WalkFrom(s, p).r = WalkFrom(t, q).r
    PROVE  s.r = t.r /\ p = q
<1>. DEFINE Alike(a, b, x, y) ==
               /\ IsState(a) /\ IsState(b) /\ a.ok /\ b.ok /\ a.fn = b.fn /\ a.sn = b.sn
               /\ IsPath(x) /\ IsPath(y) /\ Complete(WalkFrom(a, x)) /\ Complete(WalkFrom(b, y))
               /\ WalkFrom(a, x).r = WalkFrom(b, y).r
            Same(a, b, x, y) == a.r = b.r /\ x = y
            T == {n \in Nat : \E a, b, x, y : Len(x) = n /\ Alike(a, b, x, y) /\ ~Same(a, b, x, y)}
<1>1. T = {}
  <2>1. SUFFICES ASSUME T # {} PROVE FALSE
    OBVIOUS
  <2>2. PICK n \in Nat : n \in T /\ \A i \in 0..(n - 1) : i \notin T
    BY <2>1, Least
  <2>3. PICK a, b, x, y : Len(x) = n /\ Alike(a, b, x, y) /\ ~Same(a, b, x, y)
    BY <2>2
  <2>4. ASSUME NEW u, NEW v, NEW z, IsState(u), u.ok, IsPath(z), u.sn = 0, Complete(WalkFrom(u, z))
        PROVE  z = <<>>
    <3>1. Len(z) \in Nat
      BY <2>4 DEF IsPath
    <3>2. CASE Len(z) > 0
      <4>1. WalkFrom(u, z) = WalkFrom(Advance(u, z[1]), Tail(z))
        BY <2>4, <3>2, WalkCons
      <4>2. Advance(u, z[1]) = [u EXCEPT !.ok = FALSE]
        BY <2>4 DEF Advance
      <4>3. IsState(Advance(u, z[1])) /\ ~Advance(u, z[1]).ok
        BY <2>4, <4>2 DEF IsState
      <4>4. IsPath(Tail(z))
        BY <2>4, <3>2 DEF IsPath
      <4>. QED  BY <2>4, <4>1, <4>3, <4>4, WalkExcess
    <3>3. CASE Len(z) = 0
      BY <2>4, <3>3 DEF IsPath
    <3>. QED  BY <3>1, <3>2, <3>3
  <2>5. ASSUME NEW u, NEW z, IsPath(z), Complete(WalkFrom(u, z)), u.sn # 0
        PROVE  Len(z) > 0 /\ IsPath(Tail(z)) /\ Len(Tail(z)) = Len(z) - 1 /\ Len(z) \in Nat
    <3>1. PICK S : z \in Seq(S)
      BY <2>5 DEF IsPath
    <3>2. z # <<>>
      BY <2>5, WalkEmpty DEF Complete
    <3>3. Len(z) > 0 /\ Tail(z) \in Seq(S) /\ Len(Tail(z)) = Len(z) - 1 /\ Len(z) \in Nat
      BY <3>1, <3>2
    <3>. QED  BY <3>3 DEF IsPath
  <2>6. CASE a.sn = 0
    <3>1. x = <<>> /\ y = <<>>
      BY <2>3, <2>4, <2>6
    <3>2. a.r = b.r
      BY <2>3, <3>1, WalkEmpty
    <3>. QED  BY <2>3, <3>1, <3>2
  <2>7. CASE a.sn # 0
    <3>. DEFINE c == Advance(a, x[1])
                d == Advance(b, y[1])
    <3>1. /\ Len(x) > 0 /\ IsPath(Tail(x)) /\ Len(Tail(x)) = n - 1 /\ n - 1 \in 0..(n - 1)
          /\ Len(y) > 0 /\ IsPath(Tail(y))
      BY <2>3, <2>5, <2>7
    <3>2. WalkFrom(a, x) = WalkFrom(c, Tail(x)) /\ WalkFrom(b, y) = WalkFrom(d, Tail(y))
      BY <2>3, <3>1, WalkCons
    <3>3. /\ IsState(c) /\ IsState(d) /\ c.ok /\ d.ok /\ c.fn = d.fn /\ c.sn = d.sn
          /\ c.r = d.r => a.r = b.r /\ x[1] = y[1]
      BY <2>3, <2>7, AdvanceAlike
    <3>. HIDE DEF c, d
    <3>4. Alike(c, d, Tail(x), Tail(y))
      BY <2>3, <3>1, <3>2, <3>3
    <3>5. Same(c, d, Tail(x), Tail(y))
      <4>. HIDE DEF Alike, Same
      <4>1. n - 1 \notin T /\ n - 1 \in Nat
        BY <2>2, <3>1
      <4>2. ~\E e, f, g, h : Len(g) = n - 1 /\ Alike(e, f, g, h) /\ ~Same(e, f, g, h)
        BY <4>1
      <4>. QED  BY <3>1, <3>4, <4>2, Zenon
    <3>6. x = y
      <4>1. PICK S : x \in Seq(S)
        BY <2>3 DEF IsPath
      <4>2. PICK R : y \in Seq(R)
        BY <2>3 DEF IsPath
      <4>3. x[1] = y[1] /\ Tail(x) = Tail(y)
        BY <3>3, <3>5
      <4>4. x = <<x[1]>> \o Tail(x) /\ y = <<y[1]>> \o Tail(y)
        <5>1. ASSUME NEW S1, NEW z \in Seq(S1), Len(z) > 0
              PROVE  z = <<z[1]>> \o Tail(z)
          <6>1. z[1] \in S1 /\ <<z[1]>> \in Seq(S1) /\ Tail(z) \in Seq(S1)
            BY <5>1
          <6>2. Len(<<z[1]>> \o Tail(z)) = Len(z)
            BY <5>1, <6>1
          <6>3. \A i \in 1..Len(z) : (<<z[1]>> \o Tail(z))[i] = z[i]
            BY <5>1, <6>1
          <6>. QED  BY <6>1, <6>2, <6>3
        <5>. QED  BY <3>1, <4>1, <4>2, <5>1
      <4>. QED  BY <4>3, <4>4
    <3>. QED  BY <2>3, <3>3, <3>5, <3>6
  <2>. QED  BY <2>6, <2>7
<1>2. Alike(s, t, p, q)
  OBVIOUS
<1>3. PICK n \in Nat : n = Len(p)
  BY DEF IsPath
<1>4. n \notin T
  BY <1>1
<1>5. Same(s, t, p, q)
  <2>. HIDE DEF Alike, Same
  <2>. QED  BY <1>2, <1>3, <1>4
<1>. QED  BY <1>5

At(fn, sn, r) == [ok |-> TRUE, fn |-> fn, sn |-> sn, r |-> r]

LEMMA AlignedEq ==
    ASSUME NEW fn \in Nat, NEW sn \in Nat
    PROVE  /\ Odd(fn) \/ fn = 0 => Aligned[fn][sn] = [fn |-> fn, sn |-> sn]
           /\ ~(Odd(fn) \/ fn = 0) => Aligned[fn][sn] = Aligned[fn \div 2][sn \div 2]
<1>1. Aligned[fn] = [b \in Nat |-> IF Odd(fn) \/ fn = 0 THEN [fn |-> fn, sn |-> b]
                                   ELSE Aligned[fn \div 2][b \div 2]]
  BY AlignedDef, Zenon
<1>2. Aligned[fn][sn] = IF Odd(fn) \/ fn = 0 THEN [fn |-> fn, sn |-> sn] ELSE Aligned[fn \div 2][sn \div 2]
  BY <1>1
<1>. QED  BY <1>2

\* The element of the path of a node that is a left or a right sibling.
LEMMA AdvanceSibling ==
    ASSUME NEW fn \in Nat, NEW sn \in Nat, sn # 0, NEW r, NEW p
    PROVE  /\ Odd(fn) => Advance(At(fn, sn, r), p) = At(fn \div 2, sn \div 2, ComputeNodeHash(p, r))
           /\ ~Odd(fn) /\ fn # sn => Advance(At(fn, sn, r), p) = At(fn \div 2, sn \div 2, ComputeNodeHash(r, p))
<1>. DEFINE n == Step(fn, sn, r, p)
<1>1. Advance(At(fn, sn, r), p) = At(n.fn, n.sn, n.r)
  BY DEF Advance, At
<1>2. Odd(fn) => n = [fn |-> fn \div 2, sn |-> sn \div 2, r |-> ComputeNodeHash(p, r)]
  <2>. SUFFICES ASSUME Odd(fn) PROVE n = [fn |-> fn \div 2, sn |-> sn \div 2, r |-> ComputeNodeHash(p, r)]
    OBVIOUS
  <2>1. Aligned[fn][sn] = [fn |-> fn, sn |-> sn]
    BY AlignedEq
  <2>2. Aligned[fn][sn].fn = fn /\ Aligned[fn][sn].sn = sn
    BY <2>1
  <2>. QED  BY <2>2 DEF Step
<1>3. ~Odd(fn) /\ fn # sn => n = [fn |-> fn \div 2, sn |-> sn \div 2, r |-> ComputeNodeHash(r, p)]
  BY DEF Step
<1>. HIDE DEF n
<1>. QED  BY <1>1, <1>2, <1>3

\* The last node of a level, when it has no sibling there, is advanced as on the next.
LEMMA AdvanceLast ==
    ASSUME NEW m \in Nat, m # 0, ~Odd(m), NEW r, NEW p
    PROVE  Advance(At(m, m, r), p) = Advance(At(m \div 2, m \div 2, r), p)
<1>. DEFINE h == m \div 2
<1>1. h \in Nat /\ h # 0
  BY DEF Odd
<1>2. Aligned[m][m] = Aligned[h][h]
  BY AlignedEq
<1>. HIDE DEF h
<1>3. Step(m, m, r, p) = Step(h, h, r, p)
  BY <1>2 DEF Step
<1>4. /\ Advance(At(m, m, r), p) = At(Step(m, m, r, p).fn, Step(m, m, r, p).sn, Step(m, m, r, p).r)
      /\ Advance(At(h, h, r), p) = At(Step(h, h, r, p).fn, Step(h, h, r, p).sn, Step(h, h, r, p).r)
  BY <1>1 DEF Advance, At
<1>. QED  BY <1>3, <1>4 DEF h

LEMMA AuditPathUp ==
    ASSUME NEW D, \A i \in Nat : D[i] # NoHash, NEW n \in Nat, NEW m \in Nat, m < n
    PROVE  AuditPath(D)[n][0][m] = Sibling(D, n, m) \o AuditPath(Level(D, n))[(n + 1) \div 2][0][m \div 2]
<1>2. PICK z \in Nat : z = 0
  OBVIOUS
<1>3. n >= 1 /\ z % 2 = 0 /\ z + n <= n /\ z + n = n /\ z + m = m /\ z \div 2 = z
  BY <1>2
<1>4. AuditPath(D)[n][z][m] =
         Sibling(D, z + n, z + m) \o AuditPath(Level(D, n))[(n + 1) \div 2][z \div 2][m \div 2]
  <2>1. Whole(n, n, z)
    BY <1>3 DEF Whole
  <2>2. ClimbsFrom(D, n, n, z, m)
    BY <2>1, AuditPathLevel
  <2>. QED  BY <2>2, Zenon DEF ClimbsFrom
<1>5. AuditPath(D)[n][z][m] = Sibling(D, n, m) \o AuditPath(Level(D, n))[(n + 1) \div 2][z][m \div 2]
  BY <1>3, <1>4
<1>. QED  BY <1>2, <1>5, Zenon

\* The walk along the audit path of a leaf ends at the hash of the tree.
LEMMA WalkComplete ==
    ASSUME NEW D, \A i \in Nat : D[i] # NoHash, NEW n \in Nat, NEW m \in Nat, m < n
    PROVE  LET w == WalkFrom(At(m, n - 1, D[m]), AuditPath(D)[n][0][m])
           IN  Complete(w) /\ w.r = TreeHash(D)[n][0]
<1>. DEFINE Hashes(E) == \A i \in Nat : E[i] # NoHash
            W(E, j, l) == WalkFrom(At(l, j - 1, E[l]), AuditPath(E)[j][0][l])
            Ends(E, j, l) == Complete(W(E, j, l)) /\ W(E, j, l).r = TreeHash(E)[j][0]
            T == {j \in Nat : \E E, l : l \in Nat /\ l < j /\ Hashes(E) /\ ~Ends(E, j, l)}
<1>1. T = {}
  <2>1. SUFFICES ASSUME T # {} PROVE FALSE
    OBVIOUS
  <2>2. PICK j \in Nat : j \in T /\ \A i \in 0..(j - 1) : i \notin T
    BY <2>1, Least
  <2>3. PICK E, l : l \in Nat /\ l < j /\ Hashes(E) /\ ~Ends(E, j, l)
    <3>. HIDE DEF Hashes, Ends
    <3>. QED  BY <2>2
  <2>4. CASE j = 1
    <3>1. l = 0 /\ j - 1 = 0
      BY <2>3, <2>4
    <3>2. AuditPath(E)[j][0][l] = <<>>
      BY <2>3, <2>4, AuditPathEq
    <3>3. W(E, j, l) = At(0, 0, E[0])
      BY <3>1, <3>2, WalkEmpty
    <3>4. TreeHash(E)[j][0] = E[0]
      BY <2>4, TreeHashEq
    <3>. QED  BY <2>3, <3>3, <3>4 DEF Complete, At
  <2>5. CASE j > 1
    <3>. DEFINE h == (j + 1) \div 2
                U == Level(E, j)
                q == l \div 2
                P == AuditPath(U)[h][0][q]
    <3>1. h \in 1..(j - 1) /\ (j - 1) \div 2 = h - 1 /\ q \in Nat /\ q < h /\ 2 * q <= l /\ l <= 2 * q + 1
      BY <2>3, <2>5
    <3>2. Hashes(U)
      BY <2>3 DEF Level, ComputeNodeHash, NoHash
    <3>3. Ends(U, h, q)
      <4>1. h \in Nat /\ h \notin T
        BY <2>2, <3>1
      <4>. HIDE DEF h, U, q, Ends, Hashes
      <4>2. ~\E F, k : k \in Nat /\ k < h /\ Hashes(F) /\ ~Ends(F, h, k)
        BY <4>1
      <4>. QED  BY <3>1, <3>2, <4>2, Zenon
    <3>4. AuditPath(E)[j][0][l] = Sibling(E, j, l) \o P
      BY <2>3, AuditPathUp
    <3>5. TreeHash(E)[j][0] = TreeHash(U)[h][0]
      <4>1. PICK z \in Nat : z = 0
        OBVIOUS
      <4>2. j >= 1 /\ z % 2 = 0 /\ z + j <= j /\ z + j = j /\ z \div 2 = 0
        BY <2>5, <4>1
      <4>3. TreeHash(E)[j][z] = TreeHash(U)[h][z \div 2]
        <5>1. Whole(j, j, z)
          BY <4>2 DEF Whole
        <5>2. HashAbove(E, j, j, z)
          BY <5>1, TreeHashLevel
        <5>. QED  BY <5>2, Zenon DEF HashAbove
      <4>. QED  BY <4>1, <4>2, <4>3
    <3>6. IsPath(P)
      <4>. HIDE DEF U, h, q
      <4>1. IsHashPath(AuditPath(U)[h][0][q])
        BY <3>1, <3>2, AuditPathIsPath
      <4>. QED  BY <4>1 DEF IsHashPath, IsPath
    <3>7. ASSUME WalkFrom(At(l, j - 1, E[l]), AuditPath(E)[j][0][l]) = WalkFrom(At(q, h - 1, U[q]), P)
          PROVE  FALSE
      <4>. HIDE DEF U, h, q
      <4>. QED  BY <2>3, <3>3, <3>5, <3>7
    <3>8. CASE Odd(l) \/ l + 1 < j
      <4>. DEFINE p == IF Odd(l) THEN E[l - 1] ELSE E[l + 1]
      <4>1. Sibling(E, j, l) = <<p>>
        BY <3>8 DEF Sibling
      <4>2. WalkFrom(At(l, j - 1, E[l]), <<p>> \o P) = WalkFrom(Advance(At(l, j - 1, E[l]), p), P)
        <5>. HIDE DEF p, P
        <5>. DEFINE z == <<p>> \o P
        <5>1. IsPath(z) /\ Len(z) > 0 /\ z[1] = p /\ Tail(z) = P
          BY <3>6, PathCons
        <5>. HIDE DEF z
        <5>2. WalkFrom(At(l, j - 1, E[l]), z) = WalkFrom(Advance(At(l, j - 1, E[l]), z[1]), Tail(z))
          BY <5>1, WalkCons
        <5>. QED  BY <5>1, <5>2 DEF z
      <4>3. U[q] = IF 2 * q + 1 < j THEN ComputeNodeHash(E[2 * q], E[2 * q + 1]) ELSE E[2 * q]
        BY <3>1 DEF Level
      <4>4. Advance(At(l, j - 1, E[l]), p) = At(q, h - 1, U[q])
        <5>1. l \in Nat /\ j - 1 \in Nat /\ j - 1 # 0
          BY <2>3, <2>5
        <5>. HIDE DEF U
        <5>2. CASE Odd(l)
          <6>1. 2 * q + 1 = l /\ 2 * q = l - 1 /\ 2 * q + 1 < j
            BY <2>3, <3>1, <5>2 DEF Odd
          <6>2. U[q] = ComputeNodeHash(p, E[l])
            BY <4>3, <5>2, <6>1
          <6>3. Advance(At(l, j - 1, E[l]), p) = At(l \div 2, (j - 1) \div 2, ComputeNodeHash(p, E[l]))
            BY <5>1, <5>2, AdvanceSibling
          <6>. QED  BY <3>1, <6>2, <6>3
        <5>3. CASE ~Odd(l)
          <6>1. 2 * q + 1 = l + 1 /\ 2 * q = l /\ 2 * q + 1 < j /\ l # j - 1
            BY <2>3, <3>1, <3>8, <5>3 DEF Odd
          <6>2. U[q] = ComputeNodeHash(E[l], p)
            BY <4>3, <5>3, <6>1
          <6>3. Advance(At(l, j - 1, E[l]), p) = At(l \div 2, (j - 1) \div 2, ComputeNodeHash(E[l], p))
            BY <5>1, <5>3, <6>1, AdvanceSibling
          <6>. QED  BY <3>1, <6>2, <6>3
        <5>. QED  BY <5>2, <5>3
      <4>. HIDE DEF P, p, U, h, q
      <4>. QED  BY <3>4, <3>7, <4>1, <4>2, <4>4
    <3>9. CASE ~Odd(l) /\ ~(l + 1 < j)
      <4>1. l = j - 1 /\ 2 * q = l /\ l # 0 /\ h - 1 = q /\ q # 0 /\ q = l \div 2
        BY <2>3, <2>5, <3>1, <3>9 DEF Odd
      <4>2. Sibling(E, j, l) = <<>>
        BY <3>9 DEF Sibling
      <4>3. AuditPath(E)[j][0][l] = P
        <5>. HIDE DEF P
        <5>1. <<>> \o P = P
          BY <3>6 DEF IsPath
        <5>. QED  BY <3>4, <4>2, <5>1
      <4>4. U[q] = E[l]
        BY <3>1, <3>9, <4>1 DEF Level
      <4>5. Complete(WalkFrom(At(q, q, E[l]), P))
        <5>. HIDE DEF U, h, q
        <5>. QED  BY <3>3, <4>1, <4>4
      <4>. HIDE DEF P
      <4>6. P # <<>>
        <5>1. At(q, q, E[l]).sn = q
          BY DEF At
        <5>. QED  BY <4>1, <4>5, <5>1, WalkEmpty DEF Complete
      <4>7. Len(P) > 0
        BY <3>6, <4>6 DEF IsPath
      <4>8. Advance(At(l, l, E[l]), P[1]) = Advance(At(q, q, E[l]), P[1])
        BY <2>3, <3>9, <4>1, AdvanceLast
      <4>9. WalkFrom(At(l, l, E[l]), P) = WalkFrom(At(q, q, E[l]), P)
        BY <3>6, <4>7, <4>8, WalkCons
      <4>. HIDE DEF U, h, q
      <4>. QED  BY <3>7, <4>1, <4>3, <4>4, <4>9
    <3>. QED  BY <3>8, <3>9
  <2>. QED  BY <2>3, <2>4, <2>5
<1>2. n \notin T
  BY <1>1
<1>3. Ends(D, n, m)
  <2>. HIDE DEF Ends
  <2>. QED  BY <1>2
<1>. QED  BY <1>3

\* For the root of a tree of any size, VerifyInclusionProof (verify/merkle.go) accepts the
\* audit path of the leaf with the given index, as RFC 9162 defines it, and nothing else:
\* no other leaf, no other, longer or shorter path.
THEOREM InclusionExact ==
    ASSUME NEW D, \A i \in Nat : D[i] # NoHash, NEW proof,
           proof.leafIndex \in Int, proof.treeSize \in Int, IsPath(proof.path),
           InRange(proof.leafIndex, proof.treeSize),
           proof.rootHash = TreeHash(D)[proof.treeSize][0]
    PROVE  VerifyInclusionProof(proof) <=> /\ proof.leafHash = D[proof.leafIndex]
                                           /\ proof.path = AuditPath(D)[proof.treeSize][0][proof.leafIndex]
<1>. DEFINE n == proof.treeSize
            m == proof.leafIndex
            A == AuditPath(D)[n][0][m]
            s == At(m, n - 1, proof.leafHash)
            t == At(m, n - 1, D[m])
            W == WalkFrom(s, proof.path)
            V == WalkFrom(t, A)
<1>1. n \in Nat /\ m \in Nat /\ m < n
  BY DEF InRange
<1>2. W = Walk(proof.leafHash, m, n, proof.path)
  BY DEF Walk, At
<1>3. Complete(V) /\ V.r = TreeHash(D)[n][0]
  <2>. HIDE DEF n, m
  <2>. QED  BY <1>1, WalkComplete
<1>4. IsHashPath(A)
  <2>. HIDE DEF n, m
  <2>. QED  BY <1>1, AuditPathIsPath
<1>5. IsPath(A)
  BY <1>4 DEF IsPath, IsHashPath
<1>6. TreeHash(D)[n][0] # NoHash
  BY <1>1, TreeHashIsHash
<1>7. IsState(s) /\ IsState(t) /\ s.ok /\ t.ok /\ s.fn = t.fn /\ s.sn = t.sn /\ s.r = proof.leafHash /\ t.r = D[m]
  BY DEF At, IsState
<1>8. ASSUME VerifyInclusionProof(proof)
      PROVE  proof.leafHash = D[m] /\ proof.path = A
  <2>1. Complete(W) /\ W.r = V.r
    BY <1>2, <1>3, <1>8 DEF VerifyInclusionProof
  <2>. HIDE DEF s, t, A, m
  <2>. QED  BY <1>3, <1>5, <1>7, <2>1, WalkSound
<1>9. ASSUME proof.leafHash = D[m], proof.path = A
      PROVE  VerifyInclusionProof(proof)
  <2>1. W = V
    BY <1>9
  <2>2. \A i \in DOMAIN A : A[i] # NoHash
    <3>. HIDE DEF A
    <3>. QED  BY <1>4 DEF IsHashPath
  <2>3. D[m] # NoHash
    BY <1>1
  <2>. HIDE DEF A, V, W
  <2>. QED  BY <1>2, <1>3, <1>6, <1>9, <2>1, <2>2, <2>3 DEF VerifyInclusionProof
<1>. QED  BY <1>8, <1>9

\* The same of scitt.VerifyMerkleInclusion (verify/scitt/merkle.go), up to the longest path
\* that it accepts.
THEOREM MerkleInclusionExact ==
    ASSUME NEW D, \A i \in Nat : D[i] # NoHash, NEW event, NEW leafIndex \in Int, NEW treeSize \in Int,
           NEW path, IsPath(path), InRange(leafIndex, treeSize)
    PROVE  VerifyMerkleInclusion(event, leafIndex, treeSize, path, TreeHash(D)[treeSize][0]) <=>
              /\ ComputeLeafHash(event) = D[leafIndex]
              /\ path = AuditPath(D)[treeSize][0][leafIndex]
              /\ Len(path) <= MaxHashPathLen
<1>. DEFINE leaf == ComputeLeafHash(event)
            root == TreeHash(D)[treeSize][0]
            A == AuditPath(D)[treeSize][0][leafIndex]
            W == WalkFrom(At(leafIndex, treeSize - 1, leaf), path)
            V == WalkFrom(At(leafIndex, treeSize - 1, D[leafIndex]), A)
<1>1. treeSize \in Nat /\ leafIndex \in Nat /\ leafIndex < treeSize
  BY DEF InRange
<1>2. Complete(V) /\ V.r = root
  BY <1>1, WalkComplete
<1>3. IsPath(A)
  BY <1>1, AuditPathIsPath DEF IsPath, IsHashPath
<1>4. W = Walk(leaf, leafIndex, treeSize, path)
  BY DEF Walk, At
<1>5. VerifyMerkleInclusion(event, leafIndex, treeSize, path, root) <=>
         Len(path) <= MaxHashPathLen /\ Complete(W) /\ W.r = root
  <2>. HIDE DEF W, root
  <2>. QED  BY <1>4 DEF VerifyMerkleInclusion, WalkInclusionPath
<1>6. ASSUME Complete(W), W.r = root
      PROVE  leaf = D[leafIndex] /\ path = A
  <2>. DEFINE s == At(leafIndex, treeSize - 1, leaf)
              t == At(leafIndex, treeSize - 1, D[leafIndex])
  <2>1. /\ IsState(s) /\ IsState(t) /\ s.ok /\ t.ok /\ s.fn = t.fn /\ s.sn = t.sn
        /\ s.r = leaf /\ t.r = D[leafIndex]
    BY DEF At, IsState
  <2>2. Complete(WalkFrom(s, path)) /\ Complete(WalkFrom(t, A)) /\ WalkFrom(s, path).r = WalkFrom(t, A).r
    BY <1>2, <1>6
  <2>. HIDE DEF s, t, A, leaf
  <2>. QED  BY <1>3, <2>1, <2>2, WalkSound
<1>7. ASSUME leaf = D[leafIndex], path = A
      PROVE  Complete(W) /\ W.r = root
  <2>1. W = V
    BY <1>7
  <2>. QED  BY <1>2, <2>1
<1>. HIDE DEF W, root, A, leaf
<1>8. VerifyMerkleInclusion(event, leafIndex, treeSize, path, root) <=>
         leaf = D[leafIndex] /\ path = A /\ Len(path) <= MaxHashPathLen
  BY <1>5, <1>6, <1>7
<1>. QED  BY <1>8 DEF root, A, leaf

-----------------------------------------------------------------------------
(* What is delivered.                                                       *)

LEMMA GenuineAttests ==
    ASSUME NEW p, NEW key, NEW required, NEW i, NEW n
    PROVE  LET r == Genuine(p, key, required, i, n)
           IN  /\ r.payload = p
               /\ r.seal.signature.over[1] = p
               /\ DOMAIN r = {"payload", "evidenceRef", "seal", "proof"}
BY DEF Genuine, Signature

\* Whatever field of a response was damaged on the way, the response shows the record of
\* the log or was sealed over it.
LEMMA ResponsesAttest ==
    ASSUME NEW p, NEW r \in Responses(p)
    PROVE  Attests(r, p)
<1>1. ASSUME NEW k, NEW required, NEW i, NEW n, r \in Damaged(Genuine(p, k, required, i, n))
      PROVE  Attests(r, p)
  <2>. DEFINE g == Genuine(p, k, required, i, n)
  <2>1. g.payload = p /\ g.seal.signature.over[1] = p /\ DOMAIN g = {"payload", "evidenceRef", "seal", "proof"}
    BY GenuineAttests
  <2>. HIDE DEF g
  <2>2. CASE \E q \in Payloads \ {g.payload} : r = [g EXCEPT !.payload = q]
    <3>1. r.seal = g.seal
      BY <2>1, <2>2
    <3>. QED  BY <2>1, <3>1 DEF Attests
  <2>3. CASE ~\E q \in Payloads \ {g.payload} : r = [g EXCEPT !.payload = q]
    <3>1. r \in Damaged(g)
      BY <1>1 DEF g
    <3>2. CASE r = [g EXCEPT !.evidenceRef.required = ~@]
      <4>1. PICK x : x = [g.evidenceRef EXCEPT !.required = ~@]
        OBVIOUS
      <4>2. r = [g EXCEPT !.evidenceRef = x]
        BY <3>2, <4>1, Zenon
      <4>. QED  BY <2>1, <4>2 DEF Attests
    <3>3. CASE r # [g EXCEPT !.evidenceRef.required = ~@]
      <4>1. r \in {[g EXCEPT !.seal.signature = None], [g EXCEPT !.seal.signature.by = None],
                   [g EXCEPT !.seal.kid = None], [g EXCEPT !.seal.kid = "other"],
                   [g EXCEPT !.seal.publicKey = None], [g EXCEPT !.seal.publicKey = Unparsable],
                   [g EXCEPT !.seal.algorithm = None], [g EXCEPT !.seal.algorithm = "unknown"],
                   [g EXCEPT !.evidenceRef.submitter = None]}
        BY <2>3, <3>1, <3>3, Zenon DEF Damaged
      <4>2. r.payload = g.payload
        BY <2>1, <4>1
      <4>. QED  BY <2>1, <4>2 DEF Attests
    <3>. QED  BY <3>2, <3>3
  <2>. QED  BY <2>2, <2>3
<1>2. ASSUME NEW k, NEW i, NEW n, r \in BadProducer(p, k, i, n)
      PROVE  Attests(r, p)
  <2>. DEFINE g == Genuine(p, k, TRUE, i, n)
  <2>1. g.payload = p /\ DOMAIN g = {"payload", "evidenceRef", "seal", "proof"}
    BY DEF Genuine
  <2>. HIDE DEF g
  <2>2. PICK ref : r = [g EXCEPT !.evidenceRef = ref, !.seal.signature.over = <<p, ref>>]
    BY <1>2, Zenon DEF BadProducer, g
  <2>3. r.payload = g.payload
    BY <2>1, <2>2
  <2>. QED  BY <2>1, <2>3 DEF Attests
<1>3. ASSUME NEW k, NEW i, NEW n, r \in DamagedProofs(Genuine(p, k, FALSE, i, n))
      PROVE  Attests(r, p)
  <2>. DEFINE g == Genuine(p, k, FALSE, i, n)
  <2>1. g.payload = p /\ DOMAIN g = {"payload", "evidenceRef", "seal", "proof"}
    BY DEF Genuine
  <2>. HIDE DEF g
  <2>2. r \in DamagedProofs(g)
    BY <1>3 DEF g
  <2>3. r.payload = g.payload
    BY <2>1, <2>2 DEF DamagedProofs
  <2>. QED  BY <2>1, <2>3 DEF Attests
<1>4. ASSUME NEW k, NEW required, NEW i, NEW n, r = Genuine(p, k, required, i, n)
      PROVE  Attests(r, p)
  BY <1>4, GenuineAttests DEF Attests
<1>. DEFINE first == CHOOSE s \in Shapes : TRUE
            key == CHOOSE k \in TLKeys : TRUE
            sealed == {{Genuine(p, k, required, first[1], first[2])}
                          \cup Damaged(Genuine(p, k, required, first[1], first[2]))
                          \cup BadProducer(p, k, first[1], first[2]) : k \in TLKeys, required \in BOOLEAN}
            proofs == {DamagedProofs(Genuine(p, key, FALSE, s[1], s[2])) :
                          s \in {t \in Shapes : p.agentStatus = "ACTIVE"}}
<1>5. r \in (UNION sealed) \cup (UNION proofs)
  <2>1. Responses(p) = (UNION sealed) \cup (UNION proofs)
    BY SMT DEF Responses
  <2>. HIDE DEF sealed, proofs
  <2>. QED  BY <2>1
<1>6. CASE r \in UNION sealed
  <2>1. \E k \in TLKeys, required \in BOOLEAN :
            r \in {Genuine(p, k, required, first[1], first[2])}
                   \cup Damaged(Genuine(p, k, required, first[1], first[2]))
                   \cup BadProducer(p, k, first[1], first[2])
    BY <1>6
  <2>. QED  BY <2>1, <1>1, <1>2, <1>4
<1>7. CASE r \in UNION proofs
  <2>1. \E s \in Shapes : r \in DamagedProofs(Genuine(p, key, FALSE, s[1], s[2]))
    BY <1>7, Zenon
  <2>. QED  BY <2>1, <1>3, Zenon
<1>. HIDE DEF sealed, proofs
<1>. QED
  BY <1>5, <1>6, <1>7

\* Whatever field of a response was damaged on the way, its proof has numbers and a path.
HasProof(r) == r.proof.leafIndex \in Int /\ r.proof.treeSize \in Int /\ IsPath(r.proof.path)

LEMMA LeavesAreHashes == \A i \in Nat : Leaves[i] = ComputeLeafHash(i) /\ Leaves[i] # NoHash
BY DEF Leaves, ComputeLeafHash, NoHash

LEMMA GenuineHasProof ==
    ASSUME NEW p, NEW key, NEW required, NEW i \in Nat, NEW n \in Nat, i < n
    PROVE  LET r == Genuine(p, key, required, i, n)
           IN  /\ HasProof(r)
               /\ DOMAIN r = {"payload", "evidenceRef", "seal", "proof"}
               /\ DOMAIN r.proof = {"rootHash", "leafHash", "leafIndex", "treeSize", "path"}
<1>. DEFINE r == Genuine(p, key, required, i, n)
<1>1. IsPath(AuditPath(Leaves)[n][0][i])
  <2>1. IsHashPath(AuditPath(Leaves)[n][0][i])
    BY LeavesAreHashes, AuditPathIsPath
  <2>. QED  BY <2>1 DEF IsHashPath, IsPath
<1>2. r.proof = [rootHash |-> TreeHash(Leaves)[n][0], leafHash |-> ComputeLeafHash(i), leafIndex |-> i,
                 treeSize |-> n, path |-> AuditPath(Leaves)[n][0][i]]
  BY DEF Genuine
<1>3. DOMAIN r = {"payload", "evidenceRef", "seal", "proof"}
  BY DEF Genuine
<1>. HIDE DEF r
<1>4. HasProof(r) /\ DOMAIN r.proof = {"rootHash", "leafHash", "leafIndex", "treeSize", "path"}
  BY <1>1, <1>2 DEF HasProof
<1>. QED  BY <1>3, <1>4 DEF r

LEMMA DamagedProofsHaveProof ==
    ASSUME NEW g, HasProof(g), NEW r \in DamagedProofs(g),
           DOMAIN g = {"payload", "evidenceRef", "seal", "proof"},
           DOMAIN g.proof = {"rootHash", "leafHash", "leafIndex", "treeSize", "path"}
    PROVE  HasProof(r)
<1>. DEFINE path == g.proof.path
            n == g.proof.treeSize
            paths == {Tail(path \o <<NoHash>>), SubSeq(path, 1, Len(path) - 1),
                      Append(path, ComputeLeafHash(n)), [i \in DOMAIN path |-> path[Len(path) + 1 - i]]}
<1>1. PICK S : path \in Seq(S)
  BY DEF HasProof, IsPath
<1>2. ASSUME NEW q \in paths PROVE IsPath(q)
  <2>1. PICK R : R = S \cup {NoHash, ComputeLeafHash(n)}
    OBVIOUS
  <2>2. path \in Seq(R) /\ <<NoHash>> \in Seq(R) /\ ComputeLeafHash(n) \in R /\ Len(path) \in Nat
    BY <1>1, <2>1
  <2>3. Tail(path \o <<NoHash>>) \in Seq(R)
    <3>1. path \o <<NoHash>> \in Seq(R) /\ path \o <<NoHash>> # <<>>
      BY <2>2
    <3>. QED  BY <3>1
  <2>4. Append(path, ComputeLeafHash(n)) \in Seq(R)
    BY <2>2
  <2>5. SubSeq(path, 1, Len(path) - 1) \in Seq(R)
    BY <2>2
  <2>6. [i \in DOMAIN path |-> path[Len(path) + 1 - i]] \in Seq(R)
    BY <2>2
  <2>. QED  BY <2>3, <2>4, <2>5, <2>6 DEF IsPath
<1>3. n \in Int /\ g.proof.leafIndex \in Int /\ IsPath(path)
  BY DEF HasProof
<1>4. CASE \E i \in -1..n : r = [g EXCEPT !.proof.leafIndex = i]
  BY <1>3, <1>4 DEF HasProof
<1>5. CASE \E m \in {0, n - 1, n + 1, 2 * n} : r = [g EXCEPT !.proof.treeSize = m]
  BY <1>3, <1>5 DEF HasProof
<1>6. CASE \E q \in paths : r = [g EXCEPT !.proof.path = q]
  <2>1. PICK q \in paths : r = [g EXCEPT !.proof.path = q]
    BY <1>6
  <2>2. r.proof.leafIndex = g.proof.leafIndex /\ r.proof.treeSize = n /\ r.proof.path = q
    <3>. HIDE DEF paths
    <3>. QED  BY <2>1
  <2>3. IsPath(q)
    BY <1>2
  <2>. QED  BY <1>3, <2>2, <2>3 DEF HasProof
<1>7. CASE \E h \in {ComputeLeafHash(n), NoHash} : r = [g EXCEPT !.proof.leafHash = h]
  BY <1>3, <1>7 DEF HasProof
<1>8. CASE r = [g EXCEPT !.proof.rootHash = NoHash]
  BY <1>3, <1>8 DEF HasProof
<1>. QED  BY <1>4, <1>5, <1>6, <1>7, <1>8 DEF DamagedProofs

LEMMA ResponsesHaveProof ==
    ASSUME NEW p, NEW r \in Responses(p)
    PROVE  HasProof(r)
<1>1. ASSUME NEW g, NEW k, NEW required, NEW s \in Shapes, g = Genuine(p, k, required, s[1], s[2])
      PROVE  /\ HasProof(g) /\ DOMAIN g = {"payload", "evidenceRef", "seal", "proof"}
             /\ DOMAIN g.proof = {"rootHash", "leafHash", "leafIndex", "treeSize", "path"}
  <2>1. s[1] \in Nat /\ s[2] \in Nat /\ s[1] < s[2]
    BY EvidenceConstants DEF InRange
  <2>2. PICK i \in Nat, n \in Nat : i = s[1] /\ n = s[2] /\ i < n
    BY <2>1
  <2>3. g = Genuine(p, k, required, i, n)
    BY <1>1, <2>2
  <2>4. LET r0 == Genuine(p, k, required, i, n)
        IN  /\ HasProof(r0) /\ DOMAIN r0 = {"payload", "evidenceRef", "seal", "proof"}
            /\ DOMAIN r0.proof = {"rootHash", "leafHash", "leafIndex", "treeSize", "path"}
    BY <2>2, GenuineHasProof
  <2>. QED  BY <2>3, <2>4
<1>2. ASSUME NEW g, HasProof(g), DOMAIN g = {"payload", "evidenceRef", "seal", "proof"}, r.proof = g.proof
      PROVE  HasProof(r)
  BY <1>2 DEF HasProof
<1>3. ASSUME NEW k, NEW required, NEW s \in Shapes, r \in Damaged(Genuine(p, k, required, s[1], s[2]))
      PROVE  HasProof(r)
  <2>. DEFINE g == Genuine(p, k, required, s[1], s[2])
  <2>1. HasProof(g) /\ DOMAIN g = {"payload", "evidenceRef", "seal", "proof"}
    BY <1>1
  <2>. HIDE DEF g
  <2>2. r \in Damaged(g)
    BY <1>3 DEF g
  <2>3. CASE r = [g EXCEPT !.evidenceRef.required = ~@]
    <3>1. PICK x : x = [g.evidenceRef EXCEPT !.required = ~@]
      OBVIOUS
    <3>2. r = [g EXCEPT !.evidenceRef = x]
      BY <2>3, <3>1, Zenon
    <3>3. r.proof = g.proof
      BY <2>1, <3>2
    <3>. QED  BY <1>2, <2>1, <3>3
  <2>4. CASE r # [g EXCEPT !.evidenceRef.required = ~@]
    <3>1. \/ r \in {[g EXCEPT !.seal.signature = None], [g EXCEPT !.seal.signature.by = None],
                    [g EXCEPT !.seal.kid = None], [g EXCEPT !.seal.kid = "other"],
                    [g EXCEPT !.seal.publicKey = None], [g EXCEPT !.seal.publicKey = Unparsable],
                    [g EXCEPT !.seal.algorithm = None], [g EXCEPT !.seal.algorithm = "unknown"],
                    [g EXCEPT !.evidenceRef.submitter = None]}
          \/ \E q \in Payloads \ {g.payload} : r = [g EXCEPT !.payload = q]
      BY <2>2, <2>4, Zenon DEF Damaged
    <3>2. r.proof = g.proof
      BY <2>1, <3>1
    <3>. QED  BY <1>2, <2>1, <3>2
  <2>. QED  BY <2>3, <2>4
<1>4. ASSUME NEW k, NEW s \in Shapes, r \in BadProducer(p, k, s[1], s[2])
      PROVE  HasProof(r)
  <2>. DEFINE g == Genuine(p, k, TRUE, s[1], s[2])
  <2>1. HasProof(g) /\ DOMAIN g = {"payload", "evidenceRef", "seal", "proof"}
    BY <1>1
  <2>. HIDE DEF g
  <2>2. PICK ref : r = [g EXCEPT !.evidenceRef = ref, !.seal.signature.over = <<p, ref>>]
    BY <1>4, Zenon DEF BadProducer, g
  <2>3. r.proof = g.proof
    BY <2>1, <2>2
  <2>. QED  BY <1>2, <2>1, <2>3
<1>5. ASSUME NEW k, NEW s \in Shapes, r \in DamagedProofs(Genuine(p, k, FALSE, s[1], s[2]))
      PROVE  HasProof(r)
  <2>. DEFINE g == Genuine(p, k, FALSE, s[1], s[2])
  <2>1. /\ HasProof(g) /\ DOMAIN g = {"payload", "evidenceRef", "seal", "proof"}
        /\ DOMAIN g.proof = {"rootHash", "leafHash", "leafIndex", "treeSize", "path"}
    BY <1>1
  <2>. HIDE DEF g
  <2>2. r \in DamagedProofs(g)
    BY <1>5 DEF g
  <2>. QED  BY <2>1, <2>2, DamagedProofsHaveProof
<1>6. ASSUME NEW k, NEW required, NEW s \in Shapes, r = Genuine(p, k, required, s[1], s[2])
      PROVE  HasProof(r)
  BY <1>1, <1>6
<1>. DEFINE first == CHOOSE s \in Shapes : TRUE
            key == CHOOSE k \in TLKeys : TRUE
            sealed == {{Genuine(p, k, required, first[1], first[2])}
                          \cup Damaged(Genuine(p, k, required, first[1], first[2]))
                          \cup BadProducer(p, k, first[1], first[2]) : k \in TLKeys, required \in BOOLEAN}
            proofs == {DamagedProofs(Genuine(p, key, FALSE, s[1], s[2])) :
                          s \in {t \in Shapes : p.agentStatus = "ACTIVE"}}
<1>7. r \in (UNION sealed) \cup (UNION proofs)
  <2>1. Responses(p) = (UNION sealed) \cup (UNION proofs)
    BY SMT DEF Responses
  <2>. HIDE DEF sealed, proofs
  <2>. QED  BY <2>1
<1>8. first \in Shapes
  BY EvidenceConstants
<1>9. CASE r \in UNION sealed
  <2>1. \E k \in TLKeys, required \in BOOLEAN :
            r \in {Genuine(p, k, required, first[1], first[2])}
                   \cup Damaged(Genuine(p, k, required, first[1], first[2]))
                   \cup BadProducer(p, k, first[1], first[2])
    BY <1>9
  <2>. HIDE DEF first
  <2>. QED  BY <1>3, <1>4, <1>6, <1>8, <2>1
<1>10. CASE r \in UNION proofs
  <2>1. \E s \in Shapes : r \in DamagedProofs(Genuine(p, key, FALSE, s[1], s[2]))
    BY <1>10, Zenon
  <2>. QED  BY <2>1, <1>5, Zenon
<1>. HIDE DEF sealed, proofs
<1>. QED  BY <1>7, <1>9, <1>10

LEMMA SealOf ==
    ASSUME NEW resp, NEW key, VerifySealSignature(resp, key)
    PROVE  \E k : /\ resp.seal.signature = Signature(k, Sealed(resp))
                  /\ key # None => k = key
BY DEF VerifySealSignature, verifySealDigest

\* An accepted response was sealed over what it shows, by a key that the verifier pins.
LEMMA VerdictRestsOnSeal ==
    ASSUME cfg \in Configs, NEW resp, NEW cert, TLVerdict(resp, cert) = "OK"
    PROVE  \E k : /\ resp.seal.signature = Signature(k, Sealed(resp))
                  /\ cfg.keyStore # None => k \in cfg.keyStore
                  /\ cfg.keyStore = None /\ cfg.trusted # None => k = cfg.trusted
<1>1. SealVerifies(resp)
  BY DEF TLVerdict
<1>2. CASE cfg.keyStore = None
  <2>1. VerifySealSignature(resp, cfg.trusted)
    BY <1>1, <1>2 DEF SealVerifies
  <2>. QED  BY <1>2, <2>1, SealOf
<1>3. CASE cfg.keyStore # None
  <2>1. PICK k \in cfg.keyStore : VerifySealSignature(resp, k)
    BY <1>1, <1>3 DEF SealVerifies, VerifySealSignatureWithKeyStore
  <2>2. k # None
    BY <1>3, EvidenceConstants
  <2>3. resp.seal.signature = Signature(k, Sealed(resp))
    BY <2>1, <2>2, SealOf
  <2>. QED  BY <1>3, <2>3
<1>. QED  BY <1>2, <1>3

\* A response that was sealed over what it shows shows the record of the log.
LEMMA SealedPayload ==
    ASSUME NEW r, NEW p, NEW k, Attests(r, p), r.seal.signature = Signature(k, Sealed(r))
    PROVE  r.payload = p
BY DEF Attests, Signature, Sealed
-----------------------------------------------------------------------------
(* The invariant.                                                           *)

LEMMA Durations ==
    Skew \in Nat /\ StapleLife \in Nat /\ OcspLife \in Nat /\ FetchTimeout \in Nat
BY EvidenceConstants

LEMMA InitInv == Init => IInv
<1>. SUFFICES ASSUME Init PROVE IInv
  OBVIOUS
<1>1. ClockInv
  BY EvidenceConstants DEF Init, ClockInv
<1>2. call.at = "idle"
  BY DEF Init, Idle
<1>. QED
  BY <1>1, <1>2 DEF IInv, WaitInv, CallInv, ReplyInv, HeldInv, OutcomeInv, AcceptedIsPublished, Succeeded

LEMMA LastLiveType ==
    ASSUME ClockInv
    PROVE  LastLive \in Nat /\ LastLive <= now
BY DEF ClockInv, LastLive

\* The passage of time and the end of the record only move the last live moment ahead.
LEMMA LastLiveGrows ==
    ASSUME ClockInv, ClockInv', now <= now',
           ended' = ended \/ (ended = None /\ ended' = now)
    PROVE  LastLive \in Nat /\ LastLive' \in Nat /\ LastLive <= LastLive'
BY EvidenceConstants DEF ClockInv, LastLive

\* What is known of a call stays true when the last live moment moves ahead.
LEMMA CallInvMonotone ==
    ASSUME NEW L \in Nat, NEW M \in Nat, L <= M, WaitInv, CallInv(L)
    PROVE  CallInv(M)
<1>. USE Durations DEF CallInv
<1>1. ReplyInv(M)
  BY DEF ReplyInv, WaitInv
<1>2. HeldInv(M)
  BY DEF HeldInv
<1>3. OutcomeInv(M)
  <2>. SUFFICES ASSUME call.at = "done" PROVE OutcomeInv(M)
    BY DEF OutcomeInv
  <2>. DEFINE w == call.when
  <2>1. w \in Nat /\ w <= now
    BY DEF OutcomeInv
  <2>2. /\ Succeeded({"gold", "diagnose"}) => w <= L + FetchTimeout
        /\ Succeeded({"staple"}) => w <= L + Skew + StapleLife
        /\ call.op = "ocsp" /\ call.code = "Good" => w <= L + OcspLife + FetchTimeout
        /\ Succeeded({"offline"}) => "revocation status unknown" \in call.warnings
    BY Zenon DEF OutcomeInv
  <2>3. /\ w <= L + FetchTimeout => w <= M + FetchTimeout
        /\ w <= L + Skew + StapleLife => w <= M + Skew + StapleLife
        /\ w <= L + OcspLife + FetchTimeout => w <= M + OcspLife + FetchTimeout
    BY <2>1
  <2>. QED  BY <2>1, <2>2, <2>3, Zenon DEF OutcomeInv
<1>. QED  BY <1>1, <1>2, <1>3

\* A step of the environment that leaves the call alone.
LEMMA CallLeftAlone ==
    ASSUME IInv, ClockInv', LastLive <= LastLive', LastLive \in Nat, LastLive' \in Nat,
           now <= now', call' = call, cfg' = cfg
    PROVE  CallInv(LastLive)' /\ AcceptedIsPublished'
<1>1. PICK M \in Nat : M = LastLive'
  OBVIOUS
<1>2. CallInv(M)
  <2>1. PICK L \in Nat : L = LastLive
    OBVIOUS
  <2>2. L <= M /\ WaitInv /\ CallInv(L)
    BY <1>1, <2>1 DEF IInv
  <2>. QED  BY <2>2, CallInvMonotone
<1>3. ReplyInv(M)' /\ HeldInv(M)'
  BY <1>2 DEF CallInv, ReplyInv, HeldInv
<1>4. OutcomeInv(M)'
  <2>1. call.at = "done" => call.when \in Nat /\ call.when <= now
    BY <1>2 DEF CallInv, OutcomeInv
  <2>2. call.at = "done" => call.when <= now'
    BY <2>1 DEF IInv, ClockInv
  <2>. QED  BY <1>2, <2>2, Zenon DEF CallInv, OutcomeInv, Succeeded
<1>5. AcceptedIsPublished'
  BY DEF IInv, AcceptedIsPublished, Succeeded
<1>. QED  BY <1>1, <1>3, <1>4, <1>5, Zenon DEF CallInv

LEMMA TickInv ==
    ASSUME IInv, Tick
    PROVE  IInv'
<1>1. ClockInv' /\ now <= now' /\ call' = call /\ cfg' = cfg
  BY DEF Tick, IInv, ClockInv
<1>2. LastLive <= LastLive' /\ LastLive \in Nat /\ LastLive' \in Nat
  BY <1>1, LastLiveGrows DEF Tick, IInv
<1>3. WaitInv'
  BY <1>1, Durations DEF WaitInv, Tick, IInv, ClockInv
<1>4. CallInv(LastLive)' /\ AcceptedIsPublished'
  BY <1>1, <1>2, CallLeftAlone
<1>. QED  BY <1>1, <1>3, <1>4 DEF IInv

LEMMA AppendInv ==
    ASSUME IInv, NEW p \in Payloads, AppendRecord(p)
    PROVE  IInv'
<1>1. ClockInv' /\ now' = now /\ now \in Nat /\ cfg' = cfg /\ payload' = p
  BY EvidenceConstants DEF AppendRecord, IInv, ClockInv
<1>2. LastLive <= LastLive' /\ LastLive \in Nat /\ LastLive' \in Nat
  BY <1>1, LastLiveGrows DEF AppendRecord, IInv
<1>3. CASE call.at # "requested"
  <2>1. call' = call
    BY <1>3 DEF AppendRecord
  <2>2. WaitInv'
    BY <1>3, <2>1 DEF WaitInv
  <2>. QED  BY <1>1, <1>2, <2>1, <2>2, CallLeftAlone DEF IInv
<1>4. CASE call.at = "requested"
  <2>1. /\ DOMAIN call' = RequestFields
        /\ call'.at = "requested" /\ call'.op = call.op /\ call'.reply = call.reply
        /\ call'.deadline = call.deadline /\ call'.seen = call.seen \cup {p}
    BY <1>4 DEF AppendRecord, IInv, WaitInv, RequestFields
  <2>2. WaitInv'
    BY <1>1, <1>4, <2>1 DEF WaitInv, IInv
  <2>3. PICK M \in Nat : M = LastLive'
    BY <1>2
  <2>4. ReplyInv(M)
    <3>1. PICK L \in Nat : L = LastLive
      BY <1>2
    <3>2. L <= M /\ WaitInv /\ CallInv(L)
      BY <1>2, <2>3, <3>1 DEF IInv
    <3>. QED  BY <3>2, CallInvMonotone DEF CallInv
  <2>5. ReplyInv(M)'
    BY <1>4, <2>1, <2>4 DEF ReplyInv
  <2>6. HeldInv(M)' /\ OutcomeInv(M)' /\ AcceptedIsPublished'
    BY <2>1 DEF HeldInv, OutcomeInv, AcceptedIsPublished, Succeeded
  <2>. QED  BY <1>1, <2>2, <2>3, <2>5, <2>6, Zenon DEF IInv, CallInv
<1>. QED  BY <1>3, <1>4
-----------------------------------------------------------------------------
(* The steps of a call.                                                     *)

LEMMA BecomesFrame ==
    ASSUME IInv, NEW k, Becomes(k)
    PROVE  /\ ClockInv' /\ LastLive' = LastLive /\ LastLive \in Nat
           /\ now' = now /\ payload' = payload /\ cfg' = cfg /\ call' = k
<1>1. now' = now /\ payload' = payload /\ ended' = ended /\ cfg' = cfg /\ call' = k
  BY DEF Becomes
<1>2. ClockInv'
  BY <1>1 DEF IInv, ClockInv
<1>. QED  BY <1>1, <1>2, LastLiveType DEF LastLive, IInv

\* A call that has just begun to wait.
LEMMA RequestBegins ==
    ASSUME IInv, NEW op, NEW cert,
           Becomes([at |-> "requested", op |-> op, cert |-> cert, reply |-> None,
                    deadline |-> now + FetchTimeout, seen |-> {payload}])
    PROVE  IInv'
<1>1. /\ ClockInv' /\ now' = now /\ payload' = payload
      /\ call' = [at |-> "requested", op |-> op, cert |-> cert, reply |-> None,
                  deadline |-> now + FetchTimeout, seen |-> {payload}]
  BY BecomesFrame
<1>2. call'.at = "requested" /\ call'.reply = None /\ call'.deadline = now + FetchTimeout
  BY <1>1
<1>3. WaitInv'
  BY <1>1, Durations DEF WaitInv, RequestFields, IInv, ClockInv
<1>4. CallInv(LastLive)'
  BY <1>2 DEF CallInv, ReplyInv, HeldInv, OutcomeInv
<1>5. AcceptedIsPublished'
  BY <1>2 DEF AcceptedIsPublished, Succeeded
<1>. QED  BY <1>1, <1>3, <1>4, <1>5 DEF IInv

\* A call that has ended without a good outcome.
LEMMA CallFails ==
    ASSUME IInv, NEW op, NEW code, NEW evidence, NEW warnings,
           Becomes(Done(op, code, evidence, warnings)), code # "OK", op = "ocsp" => code # "Good"
    PROVE  IInv'
<1>1. ClockInv' /\ now' = now /\ now \in Nat
  BY BecomesFrame DEF IInv, ClockInv
<1>2. call'.at = "done" /\ call'.op = op /\ call'.code = code /\ call'.when = now
  BY BecomesFrame DEF Done
<1>3. WaitInv' /\ CallInv(LastLive)'
  <2>1. WaitInv' /\ ReplyInv(LastLive)' /\ HeldInv(LastLive)'
    BY <1>2 DEF WaitInv, ReplyInv, HeldInv
  <2>2. call'.when \in Nat /\ call'.when <= now'
    BY <1>1, <1>2
  <2>3. OutcomeInv(LastLive)'
    BY <1>2, <2>2, Zenon DEF OutcomeInv, Succeeded
  <2>. QED  BY <2>1, <2>3 DEF CallInv
<1>4. AcceptedIsPublished'
  BY <1>2 DEF AcceptedIsPublished, Succeeded
<1>. QED  BY <1>1, <1>3, <1>4 DEF IInv

LEMMA StartInv ==
    ASSUME IInv, NEW op \in {"gold", "diagnose"}, NEW found, NEW cert, Start(op, found, cert)
    PROVE  IInv'
<1>1. CASE found \in {"error", "none"} \/ (op = "gold" /\ found = "noID")
  <2>1. Becomes(Done(op, "DNSCoreRecordMissing", None, {}))
    BY <1>1 DEF Start, Failed
  <2>. QED  BY <2>1, CallFails
<1>2. CASE ~(found \in {"error", "none"} \/ (op = "gold" /\ found = "noID"))
  BY <1>2, RequestBegins DEF Start
<1>. QED  BY <1>1, <1>2

LEMMA LogAnswersInv ==
    ASSUME IInv, LogAnswers
    PROVE  IInv'
<1>1. PICK r \in Responses(payload) : Becomes([call EXCEPT !.reply = r])
  BY DEF LogAnswers
<1>2. Attests(r, payload)
  BY <1>1, ResponsesAttest
<1>3. /\ ClockInv' /\ LastLive' = LastLive /\ LastLive \in Nat
      /\ now' = now /\ payload' = payload /\ cfg' = cfg /\ call' = [call EXCEPT !.reply = r]
  BY <1>1, BecomesFrame
<1>4. call.at = "requested" /\ call.op \in {"gold", "diagnose"} /\ DOMAIN call = RequestFields
  BY DEF LogAnswers, IInv, WaitInv
<1>5. /\ call'.at = "requested" /\ call'.op = call.op /\ call'.reply = r /\ DOMAIN call' = RequestFields
      /\ call'.deadline = call.deadline /\ call'.seen = call.seen
  BY <1>3, <1>4 DEF RequestFields
<1>6. WaitInv'
  BY <1>3, <1>4, <1>5 DEF IInv, WaitInv
<1>7. ReplyInv(LastLive)'
  <2>1. payload \in call'.seen
    BY <1>3, <1>6, <1>5 DEF WaitInv
  <2>2. IsTerminal(payload.agentStatus) \/ call'.deadline <= LastLive' + FetchTimeout
    <3>1. IsTerminal(payload.agentStatus) \/ LastLive = now
      BY DEF IInv, ClockInv, LastLive
    <3>. QED  BY <1>3, <1>4, <1>5, <3>1 DEF IInv, WaitInv
  <2>. QED  BY <1>2, <1>4, <1>5, <2>1, <2>2 DEF ReplyInv
<1>8. HeldInv(LastLive)' /\ OutcomeInv(LastLive)' /\ AcceptedIsPublished'
  BY <1>5 DEF HeldInv, OutcomeInv, AcceptedIsPublished, Succeeded
<1>. QED  BY <1>3, <1>6, <1>7, <1>8 DEF IInv, CallInv
\* What the clock says of a reply that is sealed over what it shows: it shows a record that
\* was current during the request, and a live record no longer than one request ago.
LEMMA ReplyIsCurrent ==
    ASSUME IInv, call.at = "requested", call.op \in {"gold", "diagnose"}, call.reply # None,
           NEW k, call.reply.seal.signature = Signature(k, Sealed(call.reply))
    PROVE  /\ call.reply.payload \in call.seen
           /\ \/ IsTerminal(call.reply.payload.agentStatus)
              \/ now <= LastLive + FetchTimeout
<1>1. PICK p \in call.seen :
        /\ Attests(call.reply, p)
        /\ IsTerminal(p.agentStatus) \/ call.deadline <= LastLive + FetchTimeout
  BY DEF IInv, CallInv, ReplyInv
<1>2. call.reply.payload = p
  BY <1>1, SealedPayload
<1>3. ASSUME call.deadline <= LastLive + FetchTimeout
      PROVE  now <= LastLive + FetchTimeout
  <2>1. PICK L \in Nat : L = LastLive
    BY LastLiveType DEF IInv
  <2>2. PICK d \in Nat : d = call.deadline
    BY DEF IInv, WaitInv
  <2>3. now \in Nat /\ now <= d
    BY <2>2 DEF IInv, WaitInv, ClockInv
  <2>4. now <= L + FetchTimeout
    BY <1>3, <2>1, <2>2, <2>3, Durations
  <2>. QED  BY <2>1, <2>4
<1>. QED  BY <1>1, <1>2, <1>3

\* A gold verification or a diagnosis succeeds.
LEMMA ReplyAccepted ==
    ASSUME IInv, call.at = "requested", NEW op \in {"gold", "diagnose"}, call.op = op, call.reply # None,
           NEW warnings, Becomes(Done(op, "OK", call.reply, warnings)),
           ~IsTerminal(call.reply.payload.agentStatus),
           NEW k, call.reply.seal.signature = Signature(k, Sealed(call.reply)),
           op = "gold" => /\ cfg.keyStore # None => k \in cfg.keyStore
                          /\ cfg.keyStore = None /\ cfg.trusted # None => k = cfg.trusted
    PROVE  IInv'
<1>1. ClockInv' /\ LastLive' = LastLive /\ now' = now /\ now \in Nat /\ cfg' = cfg
  BY BecomesFrame DEF IInv, ClockInv
<1>2. /\ call'.at = "done" /\ call'.op = op /\ call'.code = "OK" /\ call'.when = now
      /\ call'.evidence = call.reply /\ call'.seen = call.seen
  BY BecomesFrame DEF Done
<1>3. call.reply.payload \in call.seen /\ now <= LastLive + FetchTimeout
  BY ReplyIsCurrent
<1>4. WaitInv' /\ ReplyInv(LastLive)' /\ HeldInv(LastLive)'
  BY <1>2 DEF WaitInv, ReplyInv, HeldInv
<1>5. OutcomeInv(LastLive)'
  <2>1. call'.when \in Nat /\ call'.when <= now'
    BY <1>1, <1>2
  <2>2. call'.when <= LastLive' + FetchTimeout
    BY <1>1, <1>2, <1>3
  <2>. QED  BY <1>2, <2>1, <2>2, Zenon DEF OutcomeInv, Succeeded
<1>6. call.reply.seal.signature.by = k /\ Sealed(call.reply) = call.reply.seal.signature.over
  BY DEF Signature
<1>7. AcceptedIsPublished'
  BY <1>1, <1>2, <1>3, <1>6 DEF AcceptedIsPublished, Succeeded
<1>. QED  BY <1>1, <1>4, <1>5, <1>7 DEF IInv, CallInv

LEMMA JudgeGoldInv ==
    ASSUME IInv, JudgeGold
    PROVE  IInv'
<1>. DEFINE v == TLVerdict(call.reply, call.cert)
            status == call.reply.payload.agentStatus
<1>1. call.at = "requested" /\ call.op = "gold" /\ call.reply # None
  BY DEF JudgeGold, Replied
<1>2. CASE v # "OK"
  <2>1. Becomes(Done("gold", v, call.reply, {}))
    BY <1>2 DEF JudgeGold, Failed
  <2>. HIDE DEF v
  <2>. QED  BY <1>2, <2>1, CallFails
<1>3. CASE v = "OK" /\ IsTerminal(status)
  <2>1. Becomes(Done("gold", "StatusRevoked", call.reply, {}))
    BY <1>3 DEF JudgeGold, Failed
  <2>. QED  BY <2>1, CallFails
<1>4. CASE v = "OK" /\ ~IsTerminal(status)
  <2>1. PICK k : /\ call.reply.seal.signature = Signature(k, Sealed(call.reply))
                 /\ cfg.keyStore # None => k \in cfg.keyStore
                 /\ cfg.keyStore = None /\ cfg.trusted # None => k = cfg.trusted
    BY <1>4, VerdictRestsOnSeal DEF IInv, ClockInv
  <2>2. PICK warnings : Becomes(Done("gold", "OK", call.reply, warnings))
    BY <1>4 DEF JudgeGold
  <2>. QED  BY <1>1, <1>4, <2>1, <2>2, ReplyAccepted
<1>. QED  BY <1>2, <1>3, <1>4

LEMMA JudgeDiagnosisInv ==
    ASSUME IInv, JudgeDiagnosis
    PROVE  IInv'
<1>1. call.at = "requested" /\ call.op = "diagnose" /\ call.reply # None
  BY DEF JudgeDiagnosis, Replied
<1>2. CASE DiagnoseFails(call.reply)
  <2>1. Becomes(Done("diagnose", "PARTIAL FAIL", call.reply, {}))
    BY <1>2 DEF JudgeDiagnosis, Failed
  <2>. QED  BY <2>1, CallFails
<1>3. CASE ~DiagnoseFails(call.reply)
  <2>1. Becomes(Done("diagnose", "OK", call.reply, {}))
    BY <1>3 DEF JudgeDiagnosis
  <2>2. PICK k : call.reply.seal.signature = Signature(k, Sealed(call.reply))
    BY <1>3, SealOf DEF DiagnoseFails
  <2>3. ~IsTerminal(call.reply.payload.agentStatus)
    BY <1>3 DEF DiagnoseFails
  <2>. QED  BY <1>1, <2>1, <2>2, <2>3, ReplyAccepted
<1>. QED  BY <1>2, <1>3

LEMMA FetchFailsInv ==
    ASSUME IInv, FetchFails
    PROVE  IInv'
<1>. DEFINE code == IF call.op = "gold" THEN "TLUnreachable" ELSE "PARTIAL FAIL"
<1>1. Becomes(Done(call.op, code, None, {})) /\ code # "OK" /\ call.op # "ocsp"
  BY DEF FetchFails, Failed
<1>. HIDE DEF code
<1>. QED  BY <1>1, CallFails
-----------------------------------------------------------------------------
(* Evidence that is handed over.                                            *)

\* Something is handed over, and what it says of a live agent is bounded.
LEMMA HandedOver ==
    ASSUME IInv, NEW op, NEW e, Becomes([at |-> "held", op |-> op, evidence |-> e]),
           e # None /\ op = "staple" =>
              /\ e.fields.expiresAt \in Nat
              /\ e.signature = Signature(e.kid, e.fields) =>
                    IsTerminal(e.fields.status) \/ e.fields.expiresAt <= LastLive + Skew + StapleLife,
           e # None /\ op = "ocsp" =>
              e.nextUpdate \in Nat /\ (e.status = "Good" => e.nextUpdate <= LastLive + OcspLife)
    PROVE  IInv'
<1>1. ClockInv' /\ LastLive' = LastLive
  BY BecomesFrame
<1>2. call'.at = "held" /\ call'.op = op /\ call'.evidence = e
  BY BecomesFrame
<1>3. WaitInv' /\ ReplyInv(LastLive)' /\ OutcomeInv(LastLive)' /\ AcceptedIsPublished'
  BY <1>2 DEF WaitInv, ReplyInv, OutcomeInv, AcceptedIsPublished, Succeeded
<1>4. HeldInv(LastLive)'
  BY <1>1, <1>2, Zenon DEF HeldInv
<1>. QED  BY <1>1, <1>3, <1>4 DEF IInv, CallInv

LEMMA HandOverPackageInv ==
    ASSUME IInv, HandOverPackage
    PROVE  IInv'
<1>1. PICK r : Becomes([at |-> "held", op |-> "offline", evidence |-> r])
  BY DEF HandOverPackage
<1>. QED  BY <1>1, HandedOver

\* A credential about the agent issued at time t: its signature holds only over the fields
\* that the issuer wrote.
LEMMA CredentialIsTrue ==
    ASSUME ClockInv, NEW t \in 0..now + Skew, NEW cred \in Credentials(t)
    PROVE  /\ cred.fields.expiresAt = t + StapleLife
           /\ cred.signature = Signature(cred.kid, cred.fields) =>
                 IsTerminal(cred.fields.status) \/ t <= LastLive + Skew
<1>. DEFINE status == IF LiveAt(t) THEN "ACTIVE" ELSE payload.agentStatus
            fields == [ansId |-> "agent", status |-> status, issuedAt |-> t, expiresAt |-> t + StapleLife]
            g == [fields |-> fields, kid |-> "ra", signature |-> Signature("ra", fields)]
<1>1. IsTerminal(status) \/ t <= LastLive + Skew
  <2>1. now \in Nat /\ ended \in Nat \cup {None} /\ None \notin Nat /\ Skew \in Nat
    BY EvidenceConstants DEF ClockInv
  <2>2. CASE ended = None
    BY <2>1, <2>2 DEF LastLive
  <2>3. CASE ended # None /\ t < ended
    BY <2>1, <2>3 DEF LastLive
  <2>4. CASE ended # None /\ ~(t < ended)
    BY <2>4 DEF LiveAt, ClockInv
  <2>. QED  BY <2>2, <2>3, <2>4
<1>. HIDE DEF status
<1>2. cred \in {g, [g EXCEPT !.fields.ansId = None], [g EXCEPT !.fields.status = None],
                [g EXCEPT !.signature = None], [g EXCEPT !.signature.by = None],
                [g EXCEPT !.fields.status = "WARNING"], [g EXCEPT !.kid = "other"]}
  BY DEF Credentials, status
<1>3. cred.fields.expiresAt = t + StapleLife
  BY <1>2
<1>4. cred.signature = Signature(cred.kid, cred.fields) => cred.fields.status = status
  BY <1>2 DEF Signature
<1>. QED  BY <1>1, <1>3, <1>4

LEMMA HandOverCredentialInv ==
    ASSUME IInv, HandOverCredential
    PROVE  IInv'
<1>0. PICK t \in 0..now + Skew : \E cred \in Credentials(t) \cup {None} :
        Becomes([at |-> "held", op |-> "staple", evidence |-> cred])
  BY DEF HandOverCredential
<1>1. PICK cred \in Credentials(t) \cup {None} :
        Becomes([at |-> "held", op |-> "staple", evidence |-> cred])
  BY <1>0
<1>2. CASE cred = None
  BY <1>1, <1>2, HandedOver
<1>3. CASE cred \in Credentials(t)
  <2>1. /\ cred.fields.expiresAt = t + StapleLife
        /\ cred.signature = Signature(cred.kid, cred.fields) =>
              IsTerminal(cred.fields.status) \/ t <= LastLive + Skew
    BY <1>1, <1>3, CredentialIsTrue DEF IInv
  <2>2. t \in Nat /\ LastLive \in Nat
    BY Durations, LastLiveType DEF IInv, ClockInv
  <2>3. /\ t + StapleLife \in Nat
        /\ t <= LastLive + Skew => t + StapleLife <= LastLive + Skew + StapleLife
    <3>1. PICK L \in Nat : L = LastLive
      BY <2>2
    <3>2. t <= L + Skew => t + StapleLife <= L + Skew + StapleLife
      BY <2>2, Durations
    <3>. QED  BY <2>2, <3>1, <3>2, Durations
  <2>4. /\ cred.fields.expiresAt \in Nat
        /\ cred.signature = Signature(cred.kid, cred.fields) =>
              \/ IsTerminal(cred.fields.status)
              \/ cred.fields.expiresAt <= LastLive + Skew + StapleLife
    BY <2>1, <2>3, Zenon
  <2>. QED  BY <1>1, <2>4, HandedOver
<1>. QED  BY <1>1, <1>2, <1>3

LEMMA OcspIsTrue ==
    ASSUME ClockInv, NEW t \in 0..now, NEW r \in OcspResponse(t)
    PROVE  /\ r.nextUpdate = t + OcspLife
           /\ r.status = "Good" => t <= LastLive
<1>1. /\ r.nextUpdate = t + OcspLife
      /\ r.status = "Good" => LiveAt(t)
  BY DEF OcspResponse
<1>2. LiveAt(t) => t <= LastLive
  BY EvidenceConstants DEF ClockInv, LiveAt, LastLive
<1>. QED  BY <1>1, <1>2

LEMMA HandOverOcspInv ==
    ASSUME IInv, HandOverOcsp
    PROVE  IInv'
<1>0. PICK t \in 0..now : \E r \in OcspResponse(t) \cup {None} :
        Becomes([at |-> "held", op |-> "ocsp", evidence |-> r])
  BY DEF HandOverOcsp
<1>1. PICK r \in OcspResponse(t) \cup {None} :
        Becomes([at |-> "held", op |-> "ocsp", evidence |-> r])
  BY <1>0
<1>2. CASE r = None
  BY <1>1, <1>2, HandedOver
<1>3. CASE r \in OcspResponse(t)
  <2>1. /\ r.nextUpdate = t + OcspLife
        /\ r.status = "Good" => t <= LastLive
    BY <1>1, <1>3, OcspIsTrue DEF IInv
  <2>2. t \in Nat /\ LastLive \in Nat
    BY Durations, LastLiveType DEF IInv, ClockInv
  <2>3. /\ t + OcspLife \in Nat
        /\ t <= LastLive => t + OcspLife <= LastLive + OcspLife
    BY <2>2, Durations
  <2>4. r.nextUpdate \in Nat /\ (r.status = "Good" => r.nextUpdate <= LastLive + OcspLife)
    BY <2>1, <2>3, Zenon
  <2>. QED  BY <1>1, <2>4, HandedOver
<1>. QED  BY <1>1, <1>2, <1>3
LEMMA VerifyOfflineInv ==
    ASSUME IInv, NEW cert, VerifyOffline(cert)
    PROVE  IInv'
<1>. DEFINE r == call.evidence
            v == TLVerdict(r, cert)
<1>1. CASE r = None
  <2>1. Becomes(Done("offline", "empty", None, {}))
    BY <1>1 DEF VerifyOffline, Failed
  <2>. QED  BY <2>1, CallFails
<1>2. CASE r # None /\ v # "OK"
  <2>1. Becomes(Done("offline", v, r, {}))
    BY <1>2 DEF VerifyOffline, Failed
  <2>. HIDE DEF v, r
  <2>. QED  BY <1>2, <2>1, CallFails
<1>3. CASE r # None /\ v = "OK"
  <2>1. PICK w : w = {"revocation status unknown"} /\ Becomes(Done("offline", "OK", r, w))
    BY <1>3, Zenon DEF VerifyOffline
  <2>2. PICK k : /\ r.seal.signature = Signature(k, Sealed(r))
                 /\ cfg.keyStore # None => k \in cfg.keyStore
                 /\ cfg.keyStore = None /\ cfg.trusted # None => k = cfg.trusted
    BY <1>3, VerdictRestsOnSeal DEF IInv, ClockInv
  <2>3. r.seal.signature.by = k /\ Sealed(r) = r.seal.signature.over
    BY <2>2 DEF Signature
  <2>4. ClockInv' /\ now' = now /\ now \in Nat /\ cfg' = cfg
    BY <2>1, BecomesFrame DEF IInv, ClockInv
  <2>5. /\ call'.at = "done" /\ call'.op = "offline" /\ call'.code = "OK" /\ call'.when = now
        /\ call'.evidence = r /\ call'.warnings = w
    <3>1. call' = Done("offline", "OK", r, w)
      BY <2>1, BecomesFrame, Zenon
    <3>. QED  BY <3>1 DEF Done
  <2>6. WaitInv' /\ ReplyInv(LastLive)' /\ HeldInv(LastLive)'
    BY <2>5 DEF WaitInv, ReplyInv, HeldInv
  <2>7. OutcomeInv(LastLive)'
    <3>1. call'.when \in Nat /\ call'.when <= now'
      BY <2>4, <2>5
    <3>2. "revocation status unknown" \in call'.warnings
      BY <2>1, <2>5
    <3>. QED  BY <2>5, <3>1, <3>2 DEF OutcomeInv, Succeeded
  <2>8. AcceptedIsPublished'
    BY <2>2, <2>3, <2>4, <2>5 DEF AcceptedIsPublished, Succeeded
  <2>. QED  BY <2>4, <2>6, <2>7, <2>8 DEF IInv, CallInv
<1>. QED  BY <1>1, <1>2, <1>3

\* A stapled credential or an OCSP response is judged: the outcome is reached while the
\* evidence vouches for the agent, or is not a good one.
LEMMA HeldJudged ==
    ASSUME IInv, NEW op \in {"staple", "ocsp"}, NEW code, NEW evidence,
           Becomes(Done(op, code, evidence, {})),
           op = "staple" /\ code = "OK" => now <= LastLive + Skew + StapleLife,
           op = "ocsp" /\ code = "Good" => now <= LastLive + OcspLife + FetchTimeout
    PROVE  IInv'
<1>1. ClockInv' /\ LastLive' = LastLive /\ now' = now /\ now \in Nat
  BY BecomesFrame DEF IInv, ClockInv
<1>2. call'.at = "done" /\ call'.op = op /\ call'.code = code /\ call'.when = now
  BY BecomesFrame DEF Done
<1>3. WaitInv' /\ ReplyInv(LastLive)' /\ HeldInv(LastLive)'
  BY <1>2 DEF WaitInv, ReplyInv, HeldInv
<1>4. OutcomeInv(LastLive)'
  <2>1. call'.when \in Nat /\ call'.when <= now'
    BY <1>1, <1>2
  <2>2. op \notin {"gold", "diagnose", "offline"}
    OBVIOUS
  <2>3. /\ op = "staple" /\ code = "OK" => call'.when <= LastLive' + Skew + StapleLife
        /\ op = "ocsp" /\ code = "Good" => call'.when <= LastLive' + OcspLife + FetchTimeout
    BY <1>1, <1>2
  <2>. QED  BY <1>2, <2>1, <2>2, <2>3, Zenon DEF OutcomeInv, Succeeded
<1>5. AcceptedIsPublished'
  BY <1>2 DEF AcceptedIsPublished, Succeeded
<1>. QED  BY <1>1, <1>3, <1>4, <1>5 DEF IInv, CallInv

LEMMA VerifyStapledCredentialInv ==
    ASSUME IInv, VerifyStapledCredential
    PROVE  IInv'
<1>. DEFINE cred == call.evidence
            code == IF cred = None THEN "StaplingExpired"
                    ELSE IF ~ParseStapledCredential(cred) THEN "unparsable"
                    ELSE StapleCode(cred, cfg.producers)
<1>1. Becomes(Done("staple", code, cred, {})) /\ call.at = "held" /\ call.op = "staple"
  BY DEF VerifyStapledCredential
<1>2. ASSUME code = "OK"
      PROVE  now <= LastLive + Skew + StapleLife
  <2>1. cred # None /\ StapleCode(cred, cfg.producers) = "OK"
    BY <1>2
  <2>2. /\ ~(now > cred.fields.expiresAt)
        /\ ~IsTerminal(cred.fields.status)
        /\ cred.signature = Signature(cred.kid, cred.fields)
    BY <2>1 DEF StapleCode
  <2>3. cred.fields.expiresAt \in Nat /\ cred.fields.expiresAt <= LastLive + Skew + StapleLife
    BY <1>1, <2>1, <2>2 DEF IInv, CallInv, HeldInv
  <2>4. PICK x \in Nat : x = cred.fields.expiresAt
    BY <2>3
  <2>5. PICK L \in Nat : L = LastLive
    BY LastLiveType DEF IInv
  <2>6. now \in Nat /\ now <= x /\ x <= L + Skew + StapleLife
    BY <2>2, <2>3, <2>4, <2>5 DEF IInv, ClockInv
  <2>7. now <= L + Skew + StapleLife
    BY <2>6, Durations
  <2>. QED  BY <2>5, <2>7
<1>. HIDE DEF cred, code
<1>. QED  BY <1>1, <1>2, HeldJudged

LEMMA CheckOCSPInv ==
    ASSUME IInv, NEW hasServer \in BOOLEAN, CheckOCSP(hasServer)
    PROVE  IInv'
<1>. DEFINE r == call.evidence
<1>1. CASE StapledUsable(r)
  <2>1. Becomes(Done("ocsp", r.status, r, {})) /\ call.at = "held" /\ call.op = "ocsp"
    BY <1>1 DEF CheckOCSP
  <2>2. ASSUME r.status = "Good"
        PROVE  now <= LastLive + OcspLife + FetchTimeout
    <3>1. r # None /\ now <= r.nextUpdate
      BY <1>1 DEF StapledUsable
    <3>2. r.nextUpdate \in Nat /\ r.nextUpdate <= LastLive + OcspLife
      BY <2>1, <2>2, <3>1 DEF IInv, CallInv, HeldInv
    <3>3. PICK x \in Nat : x = r.nextUpdate
      BY <3>2
    <3>4. PICK L \in Nat : L = LastLive
      BY LastLiveType DEF IInv
    <3>5. now \in Nat /\ now <= x /\ x <= L + OcspLife
      BY <3>1, <3>2, <3>3, <3>4 DEF IInv, ClockInv
    <3>6. now <= L + OcspLife + FetchTimeout
      BY <3>5, Durations
    <3>. QED  BY <3>4, <3>6
  <2>. HIDE DEF r
  <2>. QED  BY <2>1, <2>2, HeldJudged
<1>2. CASE ~StapledUsable(r) /\ ~hasServer
  <2>1. Becomes(Done("ocsp", "Unknown", None, {}))
    BY <1>2 DEF CheckOCSP
  <2>. QED  BY <2>1, CallFails
<1>3. CASE ~StapledUsable(r) /\ hasServer
  BY <1>3, RequestBegins DEF CheckOCSP
<1>. QED  BY <1>1, <1>2, <1>3

LEMMA ResponderAnswersInv ==
    ASSUME IInv, ResponderAnswers
    PROVE  IInv'
<1>1. PICK t \in {u \in 0..now : now <= u + OcspLife} :
        \E r \in OcspResponse(t) : Becomes([call EXCEPT !.reply = r])
  BY DEF ResponderAnswers
<1>2. PICK r \in OcspResponse(t) : Becomes([call EXCEPT !.reply = r])
  BY <1>1
<1>3. /\ ClockInv' /\ LastLive' = LastLive /\ LastLive \in Nat
      /\ now' = now /\ payload' = payload /\ cfg' = cfg /\ call' = [call EXCEPT !.reply = r]
  BY <1>2, BecomesFrame
<1>4. call.at = "requested" /\ call.op = "ocsp" /\ DOMAIN call = RequestFields
  BY DEF ResponderAnswers, IInv, WaitInv
<1>5. /\ call'.at = "requested" /\ call'.op = "ocsp" /\ call'.reply = r /\ DOMAIN call' = RequestFields
      /\ call'.deadline = call.deadline /\ call'.seen = call.seen
  BY <1>3, <1>4 DEF RequestFields
<1>6. WaitInv'
  BY <1>3, <1>4, <1>5 DEF IInv, WaitInv
<1>7. ReplyInv(LastLive)'
  <2>1. r.status = "Good" => t <= LastLive
    BY <1>1, OcspIsTrue DEF IInv
  <2>2. PICK L \in Nat : L = LastLive
    BY <1>3
  <2>3. PICK d \in Nat : d = call.deadline
    BY <1>4 DEF IInv, WaitInv
  <2>4. t \in Nat /\ now \in Nat /\ now <= t + OcspLife /\ d <= now + FetchTimeout
    BY <1>1, <1>4, <2>3 DEF IInv, WaitInv, ClockInv
  <2>5. t <= L => d <= L + OcspLife + FetchTimeout
    BY <2>4, Durations
  <2>6. r.status = "Good" => call'.deadline <= LastLive' + OcspLife + FetchTimeout
    BY <1>3, <1>5, <2>1, <2>2, <2>3, <2>5
  <2>. QED  BY <1>5, <2>6 DEF ReplyInv
<1>8. HeldInv(LastLive)' /\ OutcomeInv(LastLive)' /\ AcceptedIsPublished'
  BY <1>5 DEF HeldInv, OutcomeInv, AcceptedIsPublished, Succeeded
<1>. QED  BY <1>3, <1>6, <1>7, <1>8 DEF IInv, CallInv

LEMMA JudgeOCSPInv ==
    ASSUME IInv, JudgeOCSP
    PROVE  IInv'
<1>. DEFINE code == IF call.reply.parses THEN call.reply.status ELSE "error"
<1>1. /\ Becomes(Done("ocsp", code, call.reply, {}))
      /\ call.at = "requested" /\ call.op = "ocsp" /\ call.reply # None
  BY DEF JudgeOCSP, Replied
<1>2. ASSUME code = "Good"
      PROVE  now <= LastLive + OcspLife + FetchTimeout
  <2>1. call.reply.status = "Good"
    BY <1>2
  <2>2. call.deadline <= LastLive + OcspLife + FetchTimeout
    BY <1>1, <2>1 DEF IInv, CallInv, ReplyInv
  <2>3. PICK L \in Nat : L = LastLive
    BY LastLiveType DEF IInv
  <2>4. PICK d \in Nat : d = call.deadline
    BY <1>1 DEF IInv, WaitInv
  <2>5. now \in Nat /\ now <= d /\ d <= L + OcspLife + FetchTimeout
    BY <1>1, <2>2, <2>3, <2>4 DEF IInv, WaitInv, ClockInv
  <2>6. now <= L + OcspLife + FetchTimeout
    BY <2>5, Durations
  <2>. QED  BY <2>3, <2>6
<1>. HIDE DEF code
<1>. QED  BY <1>1, <1>2, HeldJudged

LEMMA OCSPFailsInv ==
    ASSUME IInv, OCSPFails
    PROVE  IInv'
<1>1. Becomes(Done("ocsp", "error", None, {}))
  BY DEF OCSPFails, Failed
<1>. QED  BY <1>1, CallFails

LEMMA ReturnInv ==
    ASSUME IInv, ReturnOutcome
    PROVE  IInv'
<1>1. ClockInv' /\ call'.at = "idle"
  BY BecomesFrame DEF ReturnOutcome, Idle
<1>. QED
  BY <1>1 DEF IInv, WaitInv, CallInv, ReplyInv, HeldInv, OutcomeInv, AcceptedIsPublished, Succeeded
-----------------------------------------------------------------------------
(* The theorems.                                                            *)

LEMMA InvNext ==
    ASSUME IInv, [Next]_vars
    PROVE  IInv'
<1>1. CASE UNCHANGED vars
  <2>1. /\ now' = now /\ payload' = payload /\ ended' = ended /\ cfg' = cfg /\ call' = call
    BY <1>1 DEF vars
  <2>2. ClockInv' /\ now <= now'
    BY <2>1 DEF IInv, ClockInv
  <2>3. WaitInv'
    BY <2>1 DEF IInv, WaitInv
  <2>4. CallInv(LastLive)' /\ AcceptedIsPublished'
    BY <2>1, <2>2, LastLiveGrows, CallLeftAlone DEF IInv
  <2>. QED  BY <2>2, <2>3, <2>4 DEF IInv
<1>2. CASE Tick
  BY <1>2, TickInv
<1>3. ASSUME NEW p \in Payloads, AppendRecord(p)
      PROVE  IInv'
  BY <1>3, AppendInv
<1>4. ASSUME NEW found \in Discovery, Diagnose(found)
      PROVE  IInv'
  BY <1>4, StartInv DEF Diagnose
<1>5. ASSUME NEW found \in Discovery, NEW cert \in Certs, VerifyGold(found, cert)
      PROVE  IInv'
  BY <1>5, StartInv DEF VerifyGold
<1>6. CASE LogAnswers \/ JudgeGold \/ JudgeDiagnosis \/ FetchFails
  BY <1>6, LogAnswersInv, JudgeGoldInv, JudgeDiagnosisInv, FetchFailsInv
<1>7. CASE HandOverPackage \/ HandOverCredential \/ HandOverOcsp
  BY <1>7, HandOverPackageInv, HandOverCredentialInv, HandOverOcspInv
<1>8. ASSUME NEW cert \in Certs, VerifyOffline(cert)
      PROVE  IInv'
  BY <1>8, VerifyOfflineInv
<1>9. CASE VerifyStapledCredential
  BY <1>9, VerifyStapledCredentialInv
<1>10. ASSUME NEW b \in BOOLEAN, CheckOCSP(b)
       PROVE  IInv'
  BY <1>10, CheckOCSPInv
<1>11. CASE ResponderAnswers \/ JudgeOCSP \/ OCSPFails
  BY <1>11, ResponderAnswersInv, JudgeOCSPInv, OCSPFailsInv
<1>12. CASE ReturnOutcome
  BY <1>12, ReturnInv
<1>. QED
  BY <1>1, <1>2, <1>3, <1>4, <1>5, <1>6, <1>7, <1>8, <1>9, <1>10, <1>11, <1>12 DEF Next

\* Every response that a call holds has a proof whose walk is defined.
ProofInv ==
    /\ call.at = "requested" /\ call.op \in {"gold", "diagnose"} /\ call.reply # None => HasProof(call.reply)
    /\ call.at = "held" /\ call.op = "offline" /\ call.evidence # None => HasProof(call.evidence)
    /\ call.at = "done" /\ call.op \in {"gold", "offline", "diagnose"} /\ call.evidence # None =>
          HasProof(call.evidence)

LEMMA DoneHasProof ==
    ASSUME NEW op, NEW code, NEW evidence, NEW warnings, Becomes(Done(op, code, evidence, warnings)),
           op \in {"gold", "offline", "diagnose"} /\ evidence # None => HasProof(evidence)
    PROVE  ProofInv'
<1>1. call'.at = "done" /\ call'.op = op /\ call'.evidence = evidence
  BY DEF Becomes, Done
<1>. QED  BY <1>1 DEF ProofInv

LEMMA RequestHasNoReply ==
    ASSUME NEW op, NEW cert, NEW deadline, NEW seen,
           Becomes([at |-> "requested", op |-> op, cert |-> cert, reply |-> None,
                    deadline |-> deadline, seen |-> seen])
    PROVE  ProofInv'
<1>1. call'.at = "requested" /\ call'.reply = None
  BY DEF Becomes
<1>. QED  BY <1>1 DEF ProofInv

LEMMA ProofInvNext ==
    ASSUME IInv, ProofInv, [Next]_vars
    PROVE  ProofInv'
<1>1. CASE call' = call
  BY <1>1 DEF ProofInv
<1>2. ASSUME NEW p \in Payloads, AppendRecord(p)
      PROVE  ProofInv'
  <2>1. CASE call.at # "requested"
    BY <1>1, <1>2, <2>1 DEF AppendRecord
  <2>2. CASE call.at = "requested"
    <3>1. call' = [call EXCEPT !.seen = @ \cup {p}] /\ DOMAIN call = RequestFields
      BY <1>2, <2>2 DEF AppendRecord, IInv, WaitInv
    <3>2. call'.at = "requested" /\ call'.op = call.op /\ call'.reply = call.reply
      BY <2>2, <3>1 DEF RequestFields
    <3>. QED  BY <2>2, <3>2 DEF ProofInv
  <2>. QED  BY <2>1, <2>2
<1>3. ASSUME NEW op, NEW found, NEW cert, Start(op, found, cert)
      PROVE  ProofInv'
  <2>1. CASE found \in {"error", "none"} \/ (op = "gold" /\ found = "noID")
    <3>1. Becomes(Done(op, "DNSCoreRecordMissing", None, {}))
      BY <1>3, <2>1 DEF Start, Failed
    <3>. QED  BY <3>1, DoneHasProof
  <2>2. CASE ~(found \in {"error", "none"} \/ (op = "gold" /\ found = "noID"))
    <3>1. Becomes([at |-> "requested", op |-> op, cert |-> cert, reply |-> None,
                   deadline |-> now + FetchTimeout, seen |-> {payload}])
      BY <1>3, <2>2 DEF Start
    <3>. QED  BY <3>1, RequestHasNoReply
  <2>. QED  BY <2>1, <2>2
<1>4. CASE LogAnswers
  <2>1. PICK r \in Responses(payload) : Becomes([call EXCEPT !.reply = r])
    BY <1>4 DEF LogAnswers
  <2>2. call.at = "requested" /\ DOMAIN call = RequestFields
    BY <1>4 DEF LogAnswers, IInv, WaitInv
  <2>3. call'.at = "requested" /\ call'.reply = r
    BY <2>1, <2>2 DEF Becomes, RequestFields
  <2>4. HasProof(r)
    BY ResponsesHaveProof
  <2>. QED  BY <2>3, <2>4 DEF ProofInv
<1>5. CASE JudgeGold
  <2>1. call.reply # None /\ HasProof(call.reply)
    BY <1>5 DEF JudgeGold, Replied, ProofInv
  <2>2. \E code, warnings : Becomes(Done("gold", code, call.reply, warnings))
    BY <1>5, Zenon DEF JudgeGold, Failed
  <2>. QED  BY <2>1, <2>2, DoneHasProof
<1>6. CASE JudgeDiagnosis
  <2>1. call.reply # None /\ HasProof(call.reply)
    BY <1>6 DEF JudgeDiagnosis, Replied, ProofInv
  <2>2. \E code, warnings : Becomes(Done("diagnose", code, call.reply, warnings))
    BY <1>6, Zenon DEF JudgeDiagnosis, Failed
  <2>. QED  BY <2>1, <2>2, DoneHasProof
<1>7. CASE FetchFails \/ OCSPFails
  <2>1. \E op, code : Becomes(Done(op, code, None, {}))
    BY <1>7, Zenon DEF FetchFails, OCSPFails, Failed
  <2>. QED  BY <2>1, DoneHasProof
<1>8. CASE HandOverPackage
  <2>1. PICK r \in Responses(payload) \cup {None} : Becomes([at |-> "held", op |-> "offline", evidence |-> r])
    BY <1>8 DEF HandOverPackage
  <2>2. call'.at = "held" /\ call'.evidence = r
    BY <2>1 DEF Becomes
  <2>3. r # None => HasProof(r)
    BY ResponsesHaveProof
  <2>. QED  BY <2>2, <2>3 DEF ProofInv
<1>9. CASE HandOverCredential \/ HandOverOcsp
  <2>1. \E op \in {"staple", "ocsp"} : \E r : Becomes([at |-> "held", op |-> op, evidence |-> r])
    BY <1>9 DEF HandOverCredential, HandOverOcsp
  <2>2. call'.at = "held" /\ call'.op \in {"staple", "ocsp"}
    BY <2>1 DEF Becomes
  <2>. QED  BY <2>2 DEF ProofInv
<1>10. ASSUME NEW cert, VerifyOffline(cert)
       PROVE  ProofInv'
  <2>1. call.evidence # None => HasProof(call.evidence)
    BY <1>10 DEF VerifyOffline, ProofInv
  <2>2. \E code, warnings : Becomes(Done("offline", code, call.evidence, warnings))
    BY <1>10, Zenon DEF VerifyOffline, Failed
  <2>. QED  BY <2>1, <2>2, DoneHasProof
<1>11. CASE VerifyStapledCredential \/ JudgeOCSP
  <2>1. \E op \in {"staple", "ocsp"} : \E code, evidence : Becomes(Done(op, code, evidence, {}))
    BY <1>11, Zenon DEF VerifyStapledCredential, JudgeOCSP
  <2>. QED  BY <2>1, DoneHasProof
<1>12. ASSUME NEW b \in BOOLEAN, CheckOCSP(b)
       PROVE  ProofInv'
  <2>1. \/ \E code, evidence : Becomes(Done("ocsp", code, evidence, {}))
        \/ Becomes([at |-> "requested", op |-> "ocsp", cert |-> None, reply |-> None,
                    deadline |-> now + FetchTimeout, seen |-> {payload}])
    BY <1>12, Zenon DEF CheckOCSP
  <2>. QED  BY <2>1, DoneHasProof, RequestHasNoReply
<1>13. CASE ResponderAnswers
  <2>1. PICK r : Becomes([call EXCEPT !.reply = r])
    BY <1>13 DEF ResponderAnswers
  <2>2. call.at = "requested" /\ call.op = "ocsp" /\ DOMAIN call = RequestFields
    BY <1>13 DEF ResponderAnswers, IInv, WaitInv
  <2>3. call'.at = "requested" /\ call'.op = "ocsp"
    BY <2>1, <2>2 DEF Becomes, RequestFields
  <2>. QED  BY <2>3 DEF ProofInv
<1>14. CASE ReturnOutcome
  BY <1>14 DEF ReturnOutcome, Becomes, Idle, ProofInv
<1>15. CASE UNCHANGED vars \/ Tick
  BY <1>1, <1>15 DEF vars, Tick
<1>. QED
  BY <1>2, <1>3, <1>4, <1>5, <1>6, <1>7, <1>8, <1>9, <1>10, <1>11, <1>12, <1>13, <1>14, <1>15
     DEF Next, Diagnose, VerifyGold

LEMMA InvHolds == Spec => []IInv
BY InitInv, InvNext, PTL DEF Spec

\* However the log, the issuer of the credentials and the OCSP responder interleave with the
\* calls, an agent whose record has ended is vouched for no longer than one request by a
\* response of the log (VerifyGold, Diagnose), than its validity and the issuer's skew by a
\* stapled credential (VerifyStapledCredential), and than its validity and one request by an
\* OCSP response (CheckOCSP); VerifyOffline warns.
THEOREM EndedRecordHorizon == Spec => []StatusHorizon
<1>1. IInv => StatusHorizon
  <2>. SUFFICES ASSUME IInv, ended # None PROVE StatusHorizon
    BY DEF StatusHorizon
  <2>1. LastLive = ended
    BY DEF LastLive
  <2>2. OutcomeInv(ended)
    BY <2>1 DEF IInv, CallInv
  <2>. QED  BY <2>2, Zenon DEF OutcomeInv, StatusHorizon, Succeeded
<1>. QED  BY <1>1, InvHolds, PTL

\* Whatever single field of a response was damaged on the way, one that VerifyGold or
\* Diagnose accepts shows a record the log published during the call, and one that
\* VerifyGold or VerifyOffline accepts is sealed over what it shows by a pinned key.
THEOREM AcceptedWasPublished == Spec => []AcceptedIsPublished
<1>1. IInv => AcceptedIsPublished
  BY DEF IInv
<1>. QED  BY <1>1, InvHolds, PTL

\* Whatever field of a proof was damaged on the way, VerifyInclusionProof accepts it for the
\* root of a tree of any size exactly when it is the audit path of its leaf in that tree,
\* as RFC 9162 defines both, and never without a root or outside of the tree.
THEOREM InclusionProofsExact == Spec => []InclusionIsExact
<1>1. Init => ProofInv
  BY DEF Init, Idle, ProofInv
<1>2. IInv /\ ProofInv /\ [Next]_vars => ProofInv'
  BY ProofInvNext
<1>3. ProofInv => InclusionIsExact
  <2>. SUFFICES ASSUME ProofInv, call.at = "done", call.op \in {"gold", "offline", "diagnose"},
                       call.evidence # None
                PROVE  InclusionIsExact
    BY DEF InclusionIsExact
  <2>. DEFINE proof == call.evidence.proof
  <2>1. proof.leafIndex \in Int /\ proof.treeSize \in Int /\ IsPath(proof.path)
    BY DEF ProofInv, HasProof
  <2>2. VerifyInclusionProof(proof) => InRange(proof.leafIndex, proof.treeSize) /\ proof.rootHash # NoHash
    BY DEF VerifyInclusionProof
  <2>3. ASSUME InRange(proof.leafIndex, proof.treeSize), proof.rootHash = TreeHash(Leaves)[proof.treeSize][0]
        PROVE  VerifyInclusionProof(proof) <=>
                  /\ proof.leafHash = ComputeLeafHash(proof.leafIndex)
                  /\ proof.path = AuditPath(Leaves)[proof.treeSize][0][proof.leafIndex]
    <3>1. proof.leafIndex \in Nat
      BY <2>1, <2>3 DEF InRange
    <3>2. Leaves[proof.leafIndex] = ComputeLeafHash(proof.leafIndex) /\ \A i \in Nat : Leaves[i] # NoHash
      BY <3>1, LeavesAreHashes
    <3>. HIDE DEF proof
    <3>. QED  BY <2>1, <2>3, <3>2, InclusionExact
  <2>. HIDE DEF proof
  <2>. QED  BY <2>2, <2>3, Zenon DEF InclusionIsExact, proof
<1>. QED  BY <1>1, <1>2, <1>3, InvHolds, PTL DEF Spec
=============================================================================
