------------------------------- MODULE MCAccess -------------------------------
(* A small instance of Access: routes to start from, one of each sort. *)
EXTENDS Access, TLC

Bare == [visibility |-> None, policy |-> None, sso |-> None, roles |-> None, users |-> None,
         mode |-> None, path |-> None, status |-> None, interval |-> None,
         locks |-> [k \in Locks |-> None]]

Locked  == [Bare EXCEPT !.locks = [k \in Locks |-> "on"], !.path = "set", !.status = "set"]
Trusted == [Bare EXCEPT !.locks = "mtls" :> "on" @@ @]
Granted == [Bare EXCEPT !.roles = {"ana"}]
Shared  == [Bare EXCEPT !.policy = "policy", !.mode = "tcp", !.interval = "set"]
Private == [Bare EXCEPT !.visibility = "private", !.users = Grantees]

SomeRoutes == {Bare, Locked, Trusted, Granted, Shared, Private}
=============================================================================
