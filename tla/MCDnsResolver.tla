--------------------------- MODULE MCDnsResolver ---------------------------
(* One host whose owner migrates from the legacy name to the ATI name and      *)
(* publishes several versions and protocols.                                 *)
EXTENDS DnsResolver

BadgeTXT(v, version, url) ==
    [v |-> v, av |-> version, version |-> Absent, u |-> url, url |-> Absent]

V1 == BadgeTXT("ati-badge1", 1, 1)
V2 == [BadgeTXT("ati-badge1", Absent, Absent) EXCEPT !.version = 2, !.url = 2]
Versionless == BadgeTXT("ra-badge1", Malformed, 3)
Junk == BadgeTXT("ati-badge1", Malformed, 1)

ATITXT(version, p, url) ==
    [v |-> "ati1", id |-> Absent, av |-> version, version |-> Absent, ver |-> Absent,
     p |-> p, proto |-> Absent, u |-> url, url |-> Absent, mode |-> Absent, m |-> Absent]

A == ATITXT(2, 2, 1)
B == [ATITXT(Absent, Absent, Absent) EXCEPT !.id = "a1", !.ver = 2, !.proto = 1, !.url = 2,
                                            !.m = "card"]
C == ATITXT(1, Absent, 2)
Bad == [ATITXT(1, 1, 1) EXCEPT !.mode = "other"]

MCZones ==
    {[ati |-> {}, ra |-> {Versionless, V2}, disc |-> {}],
     [ati |-> {V1, V2}, ra |-> {Versionless}, disc |-> {A, B}],
     [ati |-> {Junk}, ra |-> {}, disc |-> {Bad, C}]}

MCFold == <<1, 1, 3>>
MCAgentIn == <<"a1", Absent, Absent>>
Symm == Permutations(Caller)
=============================================================================
