-------------------------- MODULE MCSessionMonitor --------------------------
(* Sessions s1 and s2 watch the same host; s3, where there is one, another.   *)
EXTENDS SessionMonitor

CONSTANTS f1, f2, s3

MCHost == [s \in Session |-> IF s = s3 THEN f2 ELSE f1]
=============================================================================
