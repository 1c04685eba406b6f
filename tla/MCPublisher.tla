----------------------------- MODULE MCPublisher -----------------------------
(***************************************************************************)
(* Small clusters for checking Publisher.  Each instance names its objects *)
(* and the specs they may take; the .cfg files choose one instance, the    *)
(* bounds and the faults.                                                  *)
(***************************************************************************)
EXTENDS Publisher

\* A spec with every optional field empty.
Plain == [ok |-> TRUE, parent |-> None, visibility |-> "public",
          policy |-> None, name |-> None, site |-> None]

ClassSpec    == Plain
GatewaySpec  == [Plain EXCEPT !.parent = "class"]
PolicySpec   == Plain

RouteSpec(name)    == [Plain EXCEPT !.parent = "gw", !.name = name, !.site = "s1"]
PrivateRoute(name) == [RouteSpec(name) EXCEPT !.visibility = "private"]
Under(spec, p)     == [spec EXCEPT !.policy = p]
Resource(name)     == [Plain EXCEPT !.name = name, !.site = "s1"]
AtSite(spec, site) == [spec EXCEPT !.site = site]

MCClasses  == {"class"}
MCGateways == {"gw"}

MCRank == [o \in Claimants |->
              CASE o = "web" -> 1 [] o = "api" -> 2 [] o = "db" -> 3
                [] o = "cache" -> 4 [] o = "staff" -> 5 [] o = "guests" -> 6]

\* One niceId per object.
MCKeyOf == [o \in Claimants |->
              CASE o = "web" -> "gw-web" [] o = "api" -> "gw-api"
                [] o = "db" -> "gw-pr-db" [] o = "cache" -> "gw-pr-cache"
                [] o = "staff" -> "gw-staff" [] o = "guests" -> "gw-guests"]

ForeignRow  == [site |-> "s1", host |-> None, alias |-> None, policy |-> None]
ForeignKey  == {"hand-made"}
RowsOf(objects) == {MCKeyOf[o] : o \in objects} \cup ForeignKey

\* A hand-made row in every section and nothing else.
OnlyForeign ==
    [s \in Sections |-> [k \in Keys |-> IF k \in ForeignKeys THEN ForeignRow ELSE NoRow]]
FoundForeign == {OnlyForeign}

(* routes: a route that may be public or private, and one that contends for its host *)
RoutesKeys  == {"gw-web", "gw-api", "hand-made"}
RoutesSpecs == [o \in Objects |->
    CASE o = "class" -> {ClassSpec}
      [] o = "gw"    -> {GatewaySpec, Absent}
      [] o = "web"   -> {RouteSpec("h1"), PrivateRoute("h1"), Absent}
      [] o = "api"   -> {RouteSpec("h1"), AtSite(RouteSpec("h2"), "s2"), Absent}]
RoutesInitially == [o \in Objects |->
    CASE o = "class" -> {ClassSpec}
      [] o = "gw"    -> {GatewaySpec}
      [] o = "web"   -> {RouteSpec("h1")}
      [] o = "api"   -> {Absent}]

(* policies: a route that may name one of two policies *)
PolicyKeys  == {"gw-web", "gw-staff", "gw-guests", "hand-made"}
PolicySpecs == [o \in Objects |->
    CASE o = "class"  -> {ClassSpec}
      [] o = "gw"     -> {GatewaySpec}
      [] o = "web"    -> {Under(RouteSpec("h1"), "staff"), Under(RouteSpec("h1"), "guests"),
                          Absent}
      [] o = "staff"  -> {PolicySpec, Absent}
      [] o = "guests" -> {PolicySpec, Absent}]
PolicyInitially == [o \in Objects |->
    CASE o = "class"  -> {ClassSpec}
      [] o = "gw"     -> {GatewaySpec}
      [] o = "web"    -> {Under(RouteSpec("h1"), "staff")}
      [] o = "staff"  -> {PolicySpec}
      [] o = "guests" -> {Absent}]
\* One policy, which the route leaves or which goes first.
LeavingSpecs == [PolicySpecs EXCEPT
    !["web"] = {Under(RouteSpec("h1"), "staff"), RouteSpec("h1"), Absent}]

(* resources: two private resources; the instances differ in their aliases *)
ResourceKeys  == {"gw-pr-db", "gw-pr-cache", "hand-made"}
DbKeys        == {"gw-pr-db", "hand-made"}
ResourceSpecs == [o \in Objects |->
    CASE o = "db"    -> {Resource("h1"), AtSite(Resource("h1"), "s2"), Absent}
      [] o = "cache" -> {Resource("h2")}
      [] OTHER       -> {ClassSpec}]
ResourceInitially == [o \in Objects |->
    CASE o = "db"    -> {Resource("h1")}
      [] o = "cache" -> {Resource("h2")}
      [] OTHER       -> {ClassSpec}]
HandoverSpecs == [o \in Objects |->
    CASE o \in {"db", "cache"} -> {Resource("h1"), Absent}
      [] OTHER                 -> {ClassSpec}]
HandoverInitially == [o \in Objects |->
    CASE o = "db"    -> {Resource("h1")}
      [] o = "cache" -> {Absent}
      [] OTHER       -> {ClassSpec}]

(* a resource that may become invalid and valid again *)
FlappingSpecs == [o \in Objects |->
    {Resource("h1"), [Resource("h1") EXCEPT !.ok = FALSE]}]
FlappingInitially == [o \in Objects |-> {Resource("h1")}]
=============================================================================
