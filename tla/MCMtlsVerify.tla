--------------------------- MODULE MCMtlsVerify ---------------------------
(* Small instances of MtlsVerify.  Three certificates, and at most two in  *)
(* a set where Pangolin takes twenty: two PEMs have too many, one of them  *)
(* by naming one twice.                                                    *)
EXTENDS MtlsVerify

CONSTANTS c1, c2, c3, secret

Two      == <<c1, c2>>
TooMany  == <<c1, c2, c3>>
Repeated == <<c2, c1, c2>>
WithKey  == <<c2, Key>>

SomePems   == {<<c1>>, Two, TooMany, Repeated, WithKey, <<Bad>>, <<>>}
SomeWishes == {{}, {<<c1>>}, {secret}, {secret, <<c1>>}}
=============================================================================
