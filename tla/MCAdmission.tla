------------------------------ MODULE MCAdmission ------------------------------
(* An instance of Admission: objects of every shape, and of every sort of    *)
(* grants and sites, in an organisation that changes.                        *)
EXTENDS Admission, TLC

Words == {"ipv4", "ipv6", "cidr", "domain", "label", "wildcard", "junk"}

\* Port lists: none, and ranges about the ends of what a port may be.
Ends       == {0, 1, 65535, 65536}
PortsShort == {<<>>} \cup {<<<<a, b>>>> : a, b \in Ends} \cup {<<<<80, 80>>, <<0, 0>>>>}

Plain == [kind |-> "private", mode |-> "host", destination |-> "ipv4", alias |-> "",
          fullDomain |-> "", tcpPorts |-> <<>>, udpPorts |-> <<>>, switches |-> {},
          sites |-> {"s"}, roles |-> {}, users |-> {}, machines |-> {}]

Hosts == {[Plain EXCEPT !.mode = m, !.destination = d, !.alias = a, !.tcpPorts = p] :
             m \in {"host", "cidr"}, d \in Words, a \in Words \cup {""}, p \in PortsShort}
Webs  == {[Plain EXCEPT !.mode = m, !.destination = d, !.fullDomain = f, !.switches = s,
                        !.udpPorts = p] :
             m \in {"http", "cidr", "other"}, d \in Words, f \in Words \cup {""},
             s \in SUBSET {"destinationPort", "ssl", "disableIcmp"},
             p \in {<<>>, <<<<1, 65535>>>>}}
Granting == {[Plain EXCEPT !.roles = r, !.users = u, !.machines = m, !.sites = s] :
                r \in {{}, {"Admin"}, {"ana"}, {""}}, u \in SUBSET {"ana", "ben"},
                m \in SUBSET {"m1", "m2"}, s \in {{}, {"s", "t"}, {""}}}

\* Namespaces have up to 63 characters and names up to 253, with a slash between.
Policies ==
    [kind : {"policy"}, displayName : {"", "blank", "given"}, fullName : {255, 317},
     sso : BOOLEAN, roles : {{}, {"Admin"}, {"ana"}}, users : {{}, {""}, {"ana"}},
     pincode : {"", "sixDigits", "junk"},
     whitelist : {{}, {"email", "wildcard"}, {"junk"}}, rules : {{}, {"ip"}, {"ip", "junk"}, {"ip", "country"}}]

Org(s, u, m, d, p) ==
    [sites |-> s, users |-> u, machines |-> m, domains |-> d, places |-> p]
Home == Org({"s"}, {"ana"}, {"m1"}, {"domain"}, {"country"})

SomeOrgs == {Home, Org({"s", "t"}, {"ana", "ben"}, {}, {"domain", "label"}, {}),
             Org({}, {"ben"}, {"m1", "m2"}, {}, {"country"})}

\* The length of the name matters where there is no display name.
Shapes == Hosts \cup Webs \cup Granting
              \cup {o \in Policies : o.displayName = "" \/ o.fullName = 255}

\* A website for members, which nobody has registered the domain of.
Website == {[Plain EXCEPT !.mode = "http", !.fullDomain = "label",
                          !.switches = {"destinationPort"}]}
HomeOnly == {Home}
=============================================================================
