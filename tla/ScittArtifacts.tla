--------------------------- MODULE ScittArtifacts ---------------------------
(***************************************************************************)
(* Receipts and status tokens, and how one of them is verified              *)
(* (verify/scitt/cose.go, receipt.go, status_token.go, types.go).           *)
(*                                                                         *)
(* A COSE_Sign1 message is a record of what the decoder finds in it; a       *)
(* field that is missing or does not decode is Absent.  A verification is    *)
(* the sequence of its checks in the order of the code: the first that       *)
(* fails is the error.                                                      *)
(*                                                                         *)
(* An error is its Go type, which is what callers tell apart; of the          *)
(* signature errors the unknown key has a name of its own.                   *)
(***************************************************************************)
EXTENDS Merkle, FiniteSetsExt

CONSTANTS
    Absent,          \* a field that is missing or cannot be decoded
    Undecodable,     \* an array of certificates that cannot be decoded
    NoError,         \* a nil error
    MaxCertArrayLen, \* the longest array of certificates in a token
    MaxClockSkew     \* the largest tolerance that is honoured

\* The errors of this module.
ArtifactError == {"CoseError", "UnknownKeyID", "SignatureError", "MerkleError", "TokenError",
                  "CertArray"}

ASSUME ArtifactConstants ==
    /\ MaxCertArrayLen \in Nat
    /\ MaxClockSkew \in Nat
    /\ NoError \notin ArtifactError

ES256 == -7
vdsRFC9162 == 1

AgentStatus == {"ACTIVE", "WARNING", "DEPRECATED", "EXPIRED", "REVOKED"}

IsValidForConnection(s) == s \in {"ACTIVE", "WARNING", "DEPRECATED"}

IsTerminal(s) == s \in {"EXPIRED", "REVOKED"}

Check(holds, error) == [ok |-> holds, err |-> error]

FirstError(checks) ==
    LET failing == {i \in DOMAIN checks : ~checks[i].ok}
    IN  IF failing = {} THEN NoError ELSE checks[Min(failing)].err

-----------------------------------------------------------------------------
(* COSE_Sign1                                                              *)

\* parseProtectedHeader and parseCWTClaims: the algorithm and the key ID are
\* required, the issuer and vds are left nil when they do not decode.
parseProtectedHeader(a) ==
    <<Check(a.header = "map", "CoseError"),
      Check(a.alg = ES256, "CoseError"),
      Check(a.kid # Absent, "CoseError")>>

\* The array may stand alone or inside tag 18.
ParseCoseSign1(a) ==
    <<Check(a.framing # "oversized", "CoseError"),
      Check(a.framing # "undecodable", "CoseError"),
      Check(a.framing \in {"array", "tag18"}, "CoseError"),
      Check(a.elements = 4, "CoseError")>>
    \o parseProtectedHeader(a)
    \o <<Check(a.payload.kind # "empty", "CoseError"),
         Check(a.sigLen = 64, "CoseError")>>

\* KeyStore.Get
KeyStoreGet(store, kid) ==
    IF kid \in DOMAIN store THEN [key |-> store[kid], err |-> NoError]
                            ELSE [key |-> Absent, err |-> "UnknownKeyID"]

\* verifyECDSA: the signature is over the protected bytes and the payload as they
\* arrived, so only the key that made it verifies it.
verifyECDSA(key, a) == a.signedBy = key

\* verifyIssuerBinding: an issuer claim must be the name of the key.
verifyIssuerBinding(iss, key) == iss # Absent => iss = key.name

\* The key lookup, whose result is got, the signature and then the issuer.
KeyChecks(a, got) ==
    <<Check(got.err = NoError, got.err),
      Check(got.err = NoError => verifyECDSA(got.key, a), "SignatureError"),
      Check(got.err = NoError => verifyIssuerBinding(a.iss, got.key), "SignatureError")>>

-----------------------------------------------------------------------------
(* Receipts                                                                *)

validateVDS(a) == Check(a.vds = vdsRFC9162, "CoseError")

\* extractVDP: a map with the tree size, the leaf index and the path, where a
\* missing path is empty.
extractVDP(a) ==
    Check(/\ a.vdp # Absent
          /\ a.vdp.treeSize # Absent
          /\ a.vdp.leafIndex # Absent
          /\ \A i \in DOMAIN a.vdp.path : a.vdp.path[i] # Absent,
          "CoseError")

\* verifyInclusionProof
verifyInclusionProof(a) ==
    <<extractVDP(a),
      Check(extractVDP(a).ok =>
              WalkInclusionPath(a.payload.event, a.vdp.leafIndex, a.vdp.treeSize, a.vdp.path),
            "MerkleError")>>

VerifyReceipt(a, got) ==
    FirstError(ParseCoseSign1(a) \o <<validateVDS(a)>> \o KeyChecks(a, got)
               \o verifyInclusionProof(a))

-----------------------------------------------------------------------------
(* Status tokens                                                           *)

\* decodeCertArray: an array that is missing is empty, one that does not decode
\* or is too long is an error, an entry without a fingerprint is skipped.
decodeCertArray(arr) ==
    <<Check(arr # Undecodable, "CertArray"),
      Check(arr # Undecodable => Len(arr) <= MaxCertArrayLen, "TokenError")>>

Fingerprints(arr) == {arr[i] : i \in DOMAIN arr} \ {Absent}

\* decodeStatusPayload: the arrays are decoded before the required fields are
\* looked at.
decodeStatusPayload(p) ==
    <<Check(p.kind = "map", "TokenError")>>
    \o decodeCertArray(p.identityCerts)
    \o decodeCertArray(p.serverCerts)
    \o <<Check(p.agentID # Absent, "TokenError"),
         Check(p.status # Absent, "TokenError"),
         Check(p.exp # 0, "TokenError"),
         Check(p.atiName # Absent, "TokenError")>>

\* The tolerance that the expiry check grants.
ClockSkew(skew) ==
    IF skew < 0 THEN 0 ELSE IF skew > MaxClockSkew THEN MaxClockSkew ELSE skew

\* Faulty variant: the expiry is not looked at.
VerifyStatusTokenAnyAge(a, got, skew, t) ==
    FirstError(ParseCoseSign1(a) \o KeyChecks(a, got) \o decodeStatusPayload(a.payload)
               \o <<Check(~IsTerminal(a.payload.status), "TokenError")>>)

VerifyStatusTokenAt(a, got, skew, t) ==
    FirstError(ParseCoseSign1(a) \o KeyChecks(a, got) \o decodeStatusPayload(a.payload)
               \o <<Check(t <= a.payload.exp + ClockSkew(skew), "TokenError"),
                    Check(~IsTerminal(a.payload.status), "TokenError")>>)

MatchesServerCert(p, fp) == fp \in Fingerprints(p.serverCerts)

MatchesIdentityCert(p, fp) == fp \in Fingerprints(p.identityCerts)
=============================================================================
