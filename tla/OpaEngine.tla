----------------------------- MODULE OpaEngine -----------------------------
(***************************************************************************)
(* The policy engine of the sandbox: what OpaEngine::from_proto accepts,   *)
(* how it prepares the data, and what the baked Rego rules answer about a  *)
(* request.  A policy maps rule names to rules                             *)
(*   [endpoints : Seq(Endpoint), binaries : SUBSET pattern]                *)
(* and the names are numbers, so that "lexicographically smallest" and the *)
(* iteration order of the engine's ordered maps are <.  A host, a path and *)
(* a binary are sequences of labels; "*" and "**" are wildcard labels.     *)
(***************************************************************************)
EXTENDS Naturals, Sequences, FiniteSets, SequencesExt, FiniteSetsExt

NoL7 == [protocol |-> "", tls |-> "", enforcement |-> ""]

\* glob.match of the engine's library: "*" is one label, "**" one or more.
GlobMatch(pattern, name) ==
    \E f \in [1..Len(pattern) -> 0..Len(name)] :
        /\ \A i \in 1..Len(pattern) :
              LET from == IF i = 1 THEN 0 ELSE f[i - 1]
              IN CASE pattern[i] = "**" -> f[i] > from
                   [] pattern[i] = "*"  -> f[i] = from + 1
                   [] OTHER             -> f[i] = from + 1 /\ name[f[i]] = pattern[i]
        /\ IF pattern = <<>> THEN name = <<>> ELSE f[Len(pattern)] = Len(name)

Wild(pattern) == \E i \in 1..Len(pattern) : pattern[i] \in {"*", "**"}

-----------------------------------------------------------------------------
(* Loading: normalise ports, validate, expand the access presets.          *)

\* Both loaders hand the rules a ports list; a single port becomes one.
EndpointPorts(ep) == IF ep.ports # {} THEN ep.ports
                     ELSE IF ep.port > 0 THEN {ep.port} ELSE {}

\* The errors of validate_l7_policies; one error rejects the whole policy.
\* (Warnings only reach the log.)  Two of its errors cannot be met here: both
\* loaders have already merged port into ports, and a policy of the gateway
\* has no rules key at all when its list of rules is empty.
EndpointInvalid(ep) ==
    \/ Wild(ep.host) /\ (Len(ep.host) = 1 \/ ~(ep.host[1] \in {"*", "**"}))
    \/ ep.rules # {} /\ ep.access # ""
    \/ ep.protocol # "" /\ ep.rules = {} /\ ep.access = ""
    \/ ep.tls = "terminate" /\ ep.protocol = ""
    \/ ep.protocol = "sql" /\ ep.enforcement = "enforce"

PolicyInvalid(policy) ==
    \E n \in DOMAIN policy : \E i \in 1..Len(policy[n].endpoints) :
        EndpointInvalid(policy[n].endpoints[i])

AnyPath == <<"**">>
Preset(methods) == {[method |-> m, path |-> AnyPath] : m \in methods}

\* expand_access_presets: an unknown preset leaves the endpoint without rules.
ExpandedRules(ep) ==
    IF ep.rules # {} THEN ep.rules
    ELSE CASE ep.access = "read-only"  -> Preset({"GET", "HEAD", "OPTIONS"})
           [] ep.access = "read-write" ->
                Preset({"GET", "HEAD", "OPTIONS", "POST", "PUT", "PATCH"})
           [] ep.access = "full"       -> Preset({"*"})
           [] OTHER                    -> {}

LoadEndpoint(ep) == [ep EXCEPT !.ports = EndpointPorts(ep), !.rules = ExpandedRules(ep)]

\* from_proto / from_strings after validation: the data the rules read.
LoadPolicy(policy) ==
    [n \in DOMAIN policy |->
        [policy[n] EXCEPT !.endpoints =
            [i \in 1..Len(policy[n].endpoints) |-> LoadEndpoint(policy[n].endpoints[i])]]]

-----------------------------------------------------------------------------
(* The rules.  input is [host, port, bin, ancestors].                       *)

\* endpoint_matches_request and, rule by rule, endpoint_allowed.
EndpointMatches(ep, input) ==
    /\ input.port \in ep.ports
    /\ \/ ep.host # <<>> /\ ~Wild(ep.host) /\ ep.host = input.host
       \/ Wild(ep.host) /\ GlobMatch(ep.host, input.host)
       \/ ep.host = <<>> /\ ep.allowed_ips # {}

EndpointAllowed(rule, input) ==
    \E i \in 1..Len(rule.endpoints) : EndpointMatches(rule.endpoints[i], input)

\* binary_allowed: the executable or an ancestor, exactly or by a glob; the
\* command line is never consulted.
BinaryAllowed(rule, input) ==
    \E b \in rule.binaries : \E p \in {input.bin} \cup input.ancestors :
        IF Wild(b) THEN GlobMatch(b, p) ELSE b = p

MatchingPolicies(policy, input) ==
    {n \in DOMAIN policy : EndpointAllowed(policy[n], input)
                           /\ BinaryAllowed(policy[n], input)}

\* network_action.
NetworkAllowed(policy, input) == MatchingPolicies(policy, input) # {}

\* matched_network_policy; 0 is undefined.
MatchedPolicy(policy, input) ==
    IF MatchingPolicies(policy, input) = {} THEN 0 ELSE Min(MatchingPolicies(policy, input))

HasExtendedConfig(ep) == ep.protocol # "" \/ ep.allowed_ips # {}

\* _matching_endpoint_configs, in the order of the ordered map and the list.
MatchingConfigs(policy, input) ==
    LET of(n) == SelectSeq(policy[n].endpoints,
                     LAMBDA ep : EndpointMatches(ep, input) /\ HasExtendedConfig(ep))
        names == SetToSortSeq(MatchingPolicies(policy, input), <)
    IN FlattenSeq([k \in 1..Len(names) |-> of(names[k])])

\* query_allowed_ips: only the first matching extended endpoint is consulted.
AllowedIps(policy, input) ==
    LET configs == MatchingConfigs(policy, input)
    IN IF configs = <<>> THEN {} ELSE configs[1].allowed_ips

\* query_endpoint_config followed by parse_l7_config, of that same endpoint.
L7Config(policy, input) ==
    LET configs == MatchingConfigs(policy, input)
    IN IF configs = <<>> \/ configs[1].protocol \notin {"rest", "sql"} THEN NoL7
       ELSE [protocol    |-> configs[1].protocol,
             tls         |-> IF configs[1].tls = "terminate" THEN "terminate" ELSE "passthrough",
             enforcement |-> IF configs[1].enforcement = "enforce" THEN "enforce" ELSE "audit"]

MethodMatches(method, rule) == rule.method \in {"*", method}
PathMatches(path, rule) == rule.path = AnyPath \/ GlobMatch(rule.path, path)

\* allow_request: any rule of any matching endpoint of any matching policy.
RequestAllowed(policy, input, request) ==
    \E n \in MatchingPolicies(policy, input) : \E i \in 1..Len(policy[n].endpoints) :
        LET ep == policy[n].endpoints[i]
        IN /\ EndpointMatches(ep, input)
           /\ \E r \in ep.rules : MethodMatches(request.method, r) /\ PathMatches(request.path, r)
=============================================================================
