-------------------------- MODULE VerificationPolicy --------------------------
(* The levels of verification a client or a server can ask for, in the order of *)
(* their integers (ati/verification_policy.go).                                 *)
EXTENDS Integers

PolicyNone == -1
PolicyBasic == 0
PolicyEnhanced == 1
PolicyAdvanced == 2
Level == {PolicyNone, PolicyBasic, PolicyEnhanced, PolicyAdvanced}
=============================================================================
