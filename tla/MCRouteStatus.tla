---------------------------- MODULE MCRouteStatus ----------------------------
(***************************************************************************)
(* A route between two Gateways and a mesh Service, with a controller      *)
(* before this one in the order of names and one after it.                 *)
(***************************************************************************)
EXTENDS RouteStatus

MCGatewayOf == [p \in {1, 2, 3} |->
                   CASE p = 1 -> "gw-a" [] p = 2 -> "gw-b" [] p = 3 -> NotGateway]

To(p)       == [parent |-> p, port |-> 80]
ToPort(p)   == [parent |-> p, port |-> 443]

\* Both Gateways in either order, one of them, one with another port beside
\* itself, and a Gateway beside a Service.
MCRefLists == {<<To(2), To(1)>>, <<To(2)>>, <<ToPort(2), To(2)>>, <<To(1), To(3)>>}
=============================================================================
