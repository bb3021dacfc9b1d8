CONSTANTS
    f1 = f1
    f2 = f2
    s3 = s3
    Session = {s1, s2}
    Fqdn = {f1}
    Host <- MCHost
    NoSession = NoSession
SPECIFICATION FairMonitor
INVARIANT ReportedOnce
PROPERTY StopEndsEveryLoop
PROPERTY RevocationIsReported
PROPERTY CancelledStaysQuiet
CHECK_DEADLOCK FALSE
