------------------------------ MODULE MCEgress ------------------------------
(* Two connections, one API host behind L7 rules and one database host on a *)
(* private address, four policies that restrict, withdraw the API, audit or *)
(* are invalid.                                                             *)
EXTENDS Egress

Api == <<"api", "corp">>
Db  == <<"db", "corp">>
Node == <<"bin", "node">>
Sh   == <<"bin", "sh">>
Sup  == <<"sup">>

Ep(host, ports, protocol, tls, enforcement, access, ips) ==
    [host |-> host, port |-> 0, ports |-> ports, protocol |-> protocol, tls |-> tls,
     enforcement |-> enforcement, access |-> access, rules |-> {}, allowed_ips |-> ips]
Rule(eps, bins) == [endpoints |-> eps, binaries |-> bins]

Inspected == Ep(Api, {443}, "rest", "terminate", "enforce", "read-only", {})
Plain     == Ep(<<"*", "corp">>, {80}, "", "", "", "", {})
Mistyped  == Ep(Db, {80}, "", "", "", "", {"bad"})
Audited   == Ep(Api, {443}, "rest", "", "", "full", {})
Sql       == Ep(Db, {443}, "sql", "", "audit", "full", {"private"})
Broken    == Ep(Api, {443}, "rest", "", "", "", {})

MCPolicies == {(1 :> Rule(<<Inspected, Plain>>, {Sh})),
               (1 :> Rule(<<Plain>>, {Sh})),
               (1 :> Rule(<<Audited, Sql, Mistyped>>, {<<"bin", "*">>})),
               (1 :> Rule(<<Broken>>, {Sh}))}
Target(kind, scheme, host, port) ==
    [kind |-> kind, scheme |-> scheme, host |-> host, port |-> port,
     headers |-> {"proxy-authorization", "auth-placeholder"}]
MCTargets == {Target("connect", "", h, 443) : h \in {Api, Db, InferenceHost}}
             \cup {Target("connect", "", Api, 0), Target("forward", "http", Api, 443),
                   Target("forward", "http", Db, 0), Target("forward", "https", Api, 0)}
\* The supervisor (1) starts sh (2), which starts node (3).
MCProcs == (1 :> [ppid |-> 0, exe |-> Sup, sockets |-> {}])
           @@ (2 :> [ppid |-> 1, exe |-> Sh, sockets |-> {}])
           @@ (3 :> [ppid |-> 2, exe |-> Node, sockets |-> {"s1"}])
MCDns == (Api :> {{"public"}, {"public", "private"}})
         @@ (Db :> {{"private"}, {"loopback"}, {"unspecified"}, {}}) @@ (InferenceHost :> {{}})
MCWritable == {Node}
MCMethods == {"GET", "POST"}
MCPaths == {<<"v1">>}
MCFramings == {<<>>, <<"other", "chunked", "length">>}
MCSymmetry == Permutations(Conns)
=============================================================================
