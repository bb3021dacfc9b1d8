--------------------------- MODULE MCDaneVerifier ---------------------------
(* A signing zone below its parent and the root: secure, with a rolled key, with  *)
(* a rollover under way, without a delegation at one level, with unsigned records,  *)
(* with a signature by an unpublished key, and with other and no records.           *)
EXTENDS DaneVerifier

Rec(usage, selector, hash) == [usage |-> usage, selector |-> selector, hash |-> hash]

Secure ==
    [tlsa |-> {Rec(3, 1, 2), Rec(2, 0, 1), Rec(3, 2, 1)}, keys |-> [z \in Zone |-> {1}],
     signers |-> [z \in Zone |-> {1}], ds |-> [z \in Zone |-> {1}]]

Rolled == [Secure EXCEPT !.keys[Depth] = {2}, !.signers[Depth] = {2}, !.ds[Depth] = {2}]

MCDeployments ==
    {Secure, Rolled,
     [Secure EXCEPT !.keys[Depth] = {1, 2}, !.signers[Depth] = {1, 2}, !.ds[Depth] = {1, 2}],
     [Secure EXCEPT !.ds[1] = {}],
     [Secure EXCEPT !.signers[Depth] = {}, !.keys[Depth] = {}],
     [Secure EXCEPT !.signers[Depth] = {1, 3}],
     [Secure EXCEPT !.tlsa = {Rec(3, 0, 3)}],
     [Secure EXCEPT !.tlsa = {}]}

MCCerts == {[fp |-> 1, spki |-> 2], None}
=============================================================================
