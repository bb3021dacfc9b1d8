------------------------------- MODULE Merkle -------------------------------
(***************************************************************************)
(* RFC 9162 inclusion proofs (verify/merkle.go, verify/scitt/merkle.go).    *)
(* Hashes are terms, so that two hashes are equal only when what was hashed *)
(* is: the hash of leaf i is <<i>>, an interior node is the pair of its     *)
(* children.                                                               *)
(***************************************************************************)
EXTENDS Integers, Sequences

CONSTANT MaxHashPathLen   \* the longest path that the receipt's walk accepts

ASSUME MerkleConstants == MaxHashPathLen \in Nat

ComputeLeafHash(event) == <<event>>

ComputeNodeHash(left, right) == <<left, right>>

\* What stands in a proof for a hash and is none.
NoHash == <<>>

-----------------------------------------------------------------------------
(* The walk, as a state [fn, sn, r] that every path element advances.       *)

Odd(n) == n % 2 = 1

\* The inner loop: fn and sn are halved until fn is odd or zero.
Aligned[fn \in Nat] ==
    [sn \in Nat |-> IF Odd(fn) \/ fn = 0 THEN [fn |-> fn, sn |-> sn]
                    ELSE Aligned[fn \div 2][sn \div 2]]

\* Faulty variant: fn and sn are halved only once.
StepHalvesOnce(fn, sn, r, p) ==
    [fn |-> fn \div 2, sn |-> sn \div 2,
     r  |-> IF Odd(fn) \/ fn = sn THEN ComputeNodeHash(p, r) ELSE ComputeNodeHash(r, p)]

\* One path element: p is a left sibling when fn is odd or the last node of its
\* level, and then the levels at which that node had no sibling are skipped.
Step(fn, sn, r, p) ==
    LET right == Odd(fn) \/ fn = sn
        s == IF right THEN Aligned[fn][sn] ELSE [fn |-> fn, sn |-> sn]
    IN  [fn |-> s.fn \div 2, sn |-> s.sn \div 2,
         r  |-> IF right THEN ComputeNodeHash(p, r) ELSE ComputeNodeHash(r, p)]

\* One turn of the loop: ok turns FALSE at an excess element.
Advance(s, p) ==
    LET n == Step(s.fn, s.sn, s.r, p)
    IN  IF ~s.ok \/ s.sn = 0 THEN [s EXCEPT !.ok = FALSE]
        ELSE [ok |-> TRUE, fn |-> n.fn, sn |-> n.sn, r |-> n.r]

\* The loop over the path.
WalkFrom(s, path) ==
    LET at[i \in Nat] == IF i = 0 THEN s ELSE Advance(at[i - 1], path[i])
    IN  at[Len(path)]

Walk(leafHash, leafIndex, treeSize, path) ==
    WalkFrom([ok |-> TRUE, fn |-> leafIndex, sn |-> treeSize - 1, r |-> leafHash], path)

InRange(leafIndex, treeSize) == treeSize > 0 /\ leafIndex >= 0 /\ leafIndex < treeSize

\* Whether the walk ends at a root, and which.
Complete(w) == w.ok /\ w.sn = 0

\* scitt.WalkInclusionPath succeeds; it returns the root, which it does not
\* compare with anything.
WalkInclusionPath(event, leafIndex, treeSize, path) ==
    /\ InRange(leafIndex, treeSize)
    /\ Len(path) <= MaxHashPathLen
    /\ Complete(Walk(ComputeLeafHash(event), leafIndex, treeSize, path))

\* scitt.VerifyMerkleInclusion
VerifyMerkleInclusion(event, leafIndex, treeSize, path, expectedRoot) ==
    /\ WalkInclusionPath(event, leafIndex, treeSize, path)
    /\ Walk(ComputeLeafHash(event), leafIndex, treeSize, path).r = expectedRoot

\* verify.VerifyInclusionProof of the proof in a TL response.  A hash that is
\* missing or is not 32 bytes of hex is NoHash.
VerifyInclusionProof(proof) ==
    /\ proof.rootHash # NoHash
    /\ InRange(proof.leafIndex, proof.treeSize)
    /\ proof.leafHash # NoHash
    /\ \A i \in DOMAIN proof.path : proof.path[i] # NoHash
    /\ LET w == Walk(proof.leafHash, proof.leafIndex, proof.treeSize, proof.path)
       IN  Complete(w) /\ w.r = proof.rootHash

-----------------------------------------------------------------------------
(* The reference: the tree hash and the audit path of RFC 9162, section 2.1, *)
(* of the n leaves that the function D gives from number lo on.              *)

\* The largest power of two smaller than n, for n > 1.
SplitAt[n \in Nat] == IF n <= 2 THEN 1 ELSE 2 * SplitAt[(n + 1) \div 2]

TreeHash(D) ==
    LET T[n \in Nat] ==
            [lo \in Nat |->
                IF n <= 1 THEN D[lo]
                ELSE LET k == SplitAt[n]
                     IN  ComputeNodeHash(T[k][lo], T[n - k][lo + k])]
    IN  T

\* The path of leaf lo + m: its siblings from the leaf up.
AuditPath(D) ==
    LET P[n \in Nat] ==
            [lo \in Nat |-> [m \in Nat |->
                IF n <= 1 THEN <<>>
                ELSE LET k == SplitAt[n]
                     IN  IF m < k THEN Append(P[k][lo][m], TreeHash(D)[n - k][lo + k])
                         ELSE Append(P[n - k][lo + k][m - k], TreeHash(D)[k][lo])]]
    IN  P

\* The leaves of a log whose event number i is i.
Leaves == [i \in Nat |-> ComputeLeafHash(i)]
=============================================================================
