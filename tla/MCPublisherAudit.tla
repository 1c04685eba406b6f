-------------------------- MODULE MCPublisherAudit --------------------------
(***************************************************************************)
(* A small cluster for PublisherAudit: a route that may move between two   *)
(* Gateways of the class.                                                  *)
(***************************************************************************)
EXTENDS PublisherAudit

Plain == [ok |-> TRUE, parent |-> None, visibility |-> "public",
          policy |-> None, name |-> None, site |-> None]

ClassSpec   == Plain
GatewaySpec == [Plain EXCEPT !.parent = "class"]
RouteSpec(parent, name) ==
    [Plain EXCEPT !.parent = parent, !.name = name, !.site = "s1"]

MCKeyOf == [o \in Claimants |-> CASE o = "web" -> "gw-web" [] o = "api" -> "gw-api"]
MCRank  == [o \in Claimants |-> CASE o = "web" -> 1 [] o = "api" -> 2]

NoRows == {EmptyDoc}

MoveSpecs == [o \in Objects |->
    CASE o = "class" -> {ClassSpec}
      [] o \in {"gw", "gw2"} -> {GatewaySpec, Absent}
      [] o = "web" -> {RouteSpec("gw", "h1"), RouteSpec("gw2", "h1")}]
MoveInitially == [o \in Objects |->
    CASE o = "class" -> {ClassSpec}
      [] o = "gw"    -> {GatewaySpec}
      [] o = "gw2"   -> {Absent}
      [] o = "web"   -> {RouteSpec("gw", "h1")}]
=============================================================================
