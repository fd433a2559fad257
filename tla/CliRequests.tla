----------------------------- MODULE CliRequests -----------------------------
(***************************************************************************)
(* The commands that only talk to the gateway: each sends a fixed list of  *)
(* requests, one after the other.  A request is answered from what the     *)
(* gateway stores at that moment; whatever a command learned from an       *)
(* earlier answer may be stale by then.  What is printed is left out.      *)
(***************************************************************************)
EXTENDS Naturals, Sequences, FiniteSets, SequencesExt

CONSTANT None

\* What the gateway stores: sandboxes [name, sid, phase], providers [name, type,
\* credentials], policy revisions [sid, policy, status] and settings [sid, key,
\* value] (sid 0: global), rule chunks [id, sid, status, flagged], two routes.
\* A policy is <<the one set, the rules merged into it>>.
NoData == [sandboxes |-> {}, providers |-> {}, policies |-> <<>>, settings |-> {},
           chunks |-> {}, routes |-> [user |-> None, system |-> None]]

Box(d, n) == LET found == {s \in d.sandboxes : s.name = n}
             IN IF found = {} THEN None ELSE CHOOSE s \in found : TRUE
Live(d, sid) == \E s \in d.sandboxes : s.sid = sid

Answer(d, c) == [data |-> d, cmd |-> c, ok |-> TRUE]
Refusal(d, c) == [data |-> d, cmd |-> c, ok |-> FALSE]
Asked(d, c, found) == IF found THEN Answer(d, c) ELSE Refusal(d, c)

-----------------------------------------------------------------------------
(* The gateway's side, as atomic answers; its own interleavings are those   *)
(* of PolicyHandlers, Settings, Inference and SandboxLifecycle.             *)

get_sandbox(d, c) ==
    LET s == Box(d, c.name) IN
    IF s = None THEN Refusal(d, c) ELSE Answer(d, [c EXCEPT !.sid = s.sid])
list_sandboxes(d, c) == Answer(d, c)
get_sandbox_config(d, c) == Asked(d, c, Live(d, c.sid))
get_gateway_config(d, c) == Answer(d, c)

\* Logs are looked up by id and need no sandbox; a watch does.
get_sandbox_logs(d, c) == Answer(d, c)
watch_sandbox(d, c) == Asked(d, c, Live(d, c.sid))

Owner(d, c) == IF c.a.global THEN 0 ELSE IF Box(d, c.name) = None THEN None ELSE Box(d, c.name).sid
Revisions(d, sid) == SelectSeq(d.policies, LAMBDA r : r.sid = sid)
Setting(d, sid, key) == {s \in d.settings : s.sid = sid /\ s.key = key}
require_no_global_policy(d) == Setting(d, 0, "policy") = {}

\* Version 0 asks for the latest revision.
get_sandbox_policy_status(d, c) ==
    LET sid == Owner(d, c) IN
    Asked(d, c, sid # None /\ Revisions(d, sid) # <<>> /\ c.a.version <= Len(Revisions(d, sid)))
list_sandbox_policies(d, c) == Asked(d, c, Owner(d, c) # None)

LatestPolicy(d, sid) ==
    IF Revisions(d, sid) = <<>> THEN <<0, {}>> ELSE Last(Revisions(d, sid)).policy

supersede_older_policies(d, sid) ==
    [i \in DOMAIN d.policies |->
        IF d.policies[i].sid = sid /\ d.policies[i].status \in {"pending", "loaded"}
        THEN [d.policies[i] EXCEPT !.status = "superseded"] ELSE d.policies[i]]

\* The same policy again makes no new revision; a global one counts as loaded.
PutPolicy(d, sid, policy) ==
    IF Revisions(d, sid) # <<>> /\ LatestPolicy(d, sid) = policy THEN d
    ELSE [d EXCEPT !.policies = Append(supersede_older_policies(d, sid),
             [sid |-> sid, policy |-> policy, status |-> IF sid = 0 THEN "loaded" ELSE "pending"])]

\* One key of a scope is set or removed.  A global key is not the sandbox's to
\* change; the policy is a key that is also kept as revisions.
update_config(d, c) ==
    LET a == c.a
        sid == Owner(d, c)
        rest == d.settings \ Setting(d, sid, a.key)
        set == IF a.key = "policy"
               THEN PutPolicy(IF a.global THEN [d EXCEPT !.settings = rest \cup
                                  {[sid |-> 0, key |-> "policy", value |-> a.value]}] ELSE d,
                              sid, <<a.value, {}>>)
               ELSE [d EXCEPT !.settings = rest \cup {[sid |-> sid, key |-> a.key, value |-> a.value]}]
    IN IF \/ sid = None \/ (~a.global /\ Setting(d, 0, a.key) # {})
          \/ a.unset /\ (a.key = "unknown" \/ (a.key = "policy" /\ ~a.global))
       THEN Refusal(d, c)
       ELSE IF a.unset
       THEN Answer([d EXCEPT !.settings = rest,
                             !.policies = IF a.key = "policy" /\ ~require_no_global_policy(d)
                                          THEN supersede_older_policies(d, 0) ELSE @], c)
       ELSE Answer(set, [c EXCEPT !.version = Len(Revisions(set, sid))])

get_draft_policy(d, c) == Asked(d, c, Box(d, c.name) # None)
get_draft_history(d, c) == Asked(d, c, Box(d, c.name) # None)

Decided(d, ids, status) ==
    [d EXCEPT !.chunks = {IF x.id \in ids THEN [x EXCEPT !.status = status] ELSE x : x \in @}]

\* The chunk is found by its id alone; its rule goes to, or is taken from, the
\* policy of the sandbox that was named.
DecideChunk(d, c, from, status) ==
    LET s == Box(d, c.name)
        found == {x \in d.chunks : x.id = c.a.chunk /\ x.status \in from}
        was == \E x \in found : x.status = "approved"
        now == LatestPolicy(d, s.sid)
    IN IF \/ s = None \/ found = {}
          \/ (status = "approved" \/ was) /\ ~require_no_global_policy(d)
          \/ was /\ Revisions(d, s.sid) = <<>>
       THEN Refusal(d, c)
       ELSE Answer(Decided(CASE status = "approved" -> PutPolicy(d, s.sid, <<now[1], now[2] \cup {c.a.chunk}>>)
                             [] status # "approved" /\ was -> PutPolicy(d, s.sid, <<now[1], now[2] \ {c.a.chunk}>>)
                             [] OTHER -> d,
                           {c.a.chunk}, status), c)
approve_draft_chunk(d, c) == DecideChunk(d, c, {"pending", "rejected"}, "approved")
reject_draft_chunk(d, c) == DecideChunk(d, c, {"pending", "approved"}, "rejected")

\* Flagged chunks are skipped unless they are asked for.
approve_all_draft_chunks(d, c) ==
    LET s == Box(d, c.name)
        pending == {x \in d.chunks : x.sid = s.sid /\ x.status = "pending"}
        ids == {x.id : x \in {y \in pending : c.a.flagged \/ ~y.flagged}}
        now == LatestPolicy(d, s.sid)
    IN IF ~require_no_global_policy(d) \/ s = None \/ pending = {} THEN Refusal(d, c)
       ELSE IF ids = {} THEN Answer(d, c)
       ELSE Answer(Decided(PutPolicy(d, s.sid, <<now[1], now[2] \cup ids>>), ids, "approved"), c)
clear_draft_chunks(d, c) ==
    LET s == Box(d, c.name) IN
    IF s = None THEN Refusal(d, c)
    ELSE Answer([d EXCEPT !.chunks = {x \in @ : x.sid # s.sid \/ x.status # "pending"}], c)

Provider(d, n) == {p \in d.providers : p.name = n}
get_provider(d, c) ==
    IF Provider(d, c.a.provider) = {} THEN Refusal(d, c)
    ELSE Answer(d, [c EXCEPT !.found = (CHOOSE p \in Provider(d, c.a.provider) : TRUE).type])
list_providers(d, c) == Answer(d, c)
create_provider(d, c) ==
    IF Provider(d, c.a.provider) # {} THEN Refusal(d, c)
    ELSE Answer([d EXCEPT !.providers = @ \cup
             {[name |-> c.a.provider, type |-> c.a.ptype, credentials |-> {c.a.ptype}]}], c)

\* Merged into whatever provider has the name now; the request names no type.
update_provider(d, c) ==
    LET old == Provider(d, c.a.provider)
        brought == IF c.a.from_existing THEN {c.found} ELSE {}
    IN IF old = {} THEN Refusal(d, c)
       ELSE Answer([d EXCEPT !.providers = (@ \ old) \cup
                {[p EXCEPT !.credentials = @ \cup brought] : p \in old}], c)
delete_provider(d, c) ==
    Answer([d EXCEPT !.providers = @ \ Provider(d, Head(c.names))], [c EXCEPT !.names = Tail(@)])

RouteName(c) == IF c.a.system THEN "system" ELSE "user"
get_cluster_inference(d, c) ==
    IF d.routes[RouteName(c)] = None THEN Refusal(d, c)
    ELSE Answer(d, [c EXCEPT !.route = d.routes[RouteName(c)]])

\* What is not given comes from the route read before, if there was a read.
set_cluster_inference(d, c) ==
    LET provider == IF c.a.provider # None THEN c.a.provider ELSE c.route.provider
        model == IF c.a.model # 0 THEN c.a.model ELSE c.route.model
    IN IF Provider(d, provider) = {} THEN Refusal(d, c)
       ELSE Answer([d EXCEPT !.routes[RouteName(c)] = [provider |-> provider, model |-> model]], c)

-----------------------------------------------------------------------------
(* The command line's side: the requests of each command.  "discover" looks *)
(* for credentials on this machine and "refuse" is an error before any      *)
(* request.                                                                 *)

sandbox_get(a) == <<"get_sandbox">>
sandbox_list(a) == <<"list_sandboxes">>
sandbox_logs(a) == <<"get_sandbox", IF a.tail THEN "watch_sandbox" ELSE "get_sandbox_logs">>

sandbox_policy_get(a) == <<"get_sandbox_policy_status">>
sandbox_policy_get_global(a) == <<"get_sandbox_policy_status">>
sandbox_policy_list(a) == <<"list_sandbox_policies">>
sandbox_policy_list_global(a) == <<"list_sandbox_policies">>
sandbox_policy_set_global(a) == IF a.wait THEN <<"refuse">> ELSE <<"update_config">>

sandbox_settings_get(a) == <<"get_sandbox", "get_sandbox_config">>
gateway_settings_get(a) == <<"get_gateway_config">>
\* Only a registered key, and a value of its kind; the policy is not one.
parse_cli_setting_value(a) == a.key = "key" /\ a.value # 0
gateway_setting_set(a) == IF parse_cli_setting_value(a) THEN <<"update_config">> ELSE <<"refuse">>
sandbox_setting_set(a) == IF parse_cli_setting_value(a) THEN <<"update_config">> ELSE <<"refuse">>
gateway_setting_delete(a) == <<"update_config">>
sandbox_setting_delete(a) == <<"update_config">>

sandbox_draft_get(a) == <<"get_draft_policy">>
sandbox_draft_approve(a) == <<"approve_draft_chunk">>
sandbox_draft_reject(a) == <<"reject_draft_chunk">>
sandbox_draft_approve_all(a) == <<"approve_all_draft_chunks">>
sandbox_draft_clear(a) == <<"clear_draft_chunks">>
sandbox_draft_history(a) == <<"get_draft_history">>

\* Credentials are given, or taken from this machine, never both.
provider_create(a) ==
    IF a.from_existing THEN IF a.credential THEN <<"refuse">> ELSE <<"discover", "create_provider">>
    ELSE IF a.credential THEN <<"create_provider">> ELSE <<"refuse">>
provider_get(a) == <<"get_provider">>
provider_list(a) == <<"list_providers">>
provider_update(a) ==
    IF a.from_existing
    THEN IF a.credential THEN <<"refuse">> ELSE <<"get_provider", "discover", "update_provider">>
    ELSE <<"update_provider">>
provider_delete(a) == [i \in DOMAIN a.names |-> "delete_provider"]

gateway_inference_set(a) == <<"set_cluster_inference">>
gateway_inference_update(a) ==
    IF a.provider = None /\ a.model = 0 THEN <<"refuse">>
    ELSE <<"get_cluster_inference", "set_cluster_inference">>
\* Without --system both routes are shown and a missing one is no error.
print_inference_route(d, c) == Answer(d, c)
gateway_inference_get(a) ==
    IF a.system THEN <<"get_cluster_inference">> ELSE <<"print_inference_route", "print_inference_route">>

\* The command of the arguments, as main chooses it.
Requests(a) ==
    CASE a.op = "sandbox_get"     -> sandbox_get(a)
      [] a.op = "sandbox_list"    -> sandbox_list(a)
      [] a.op = "logs"            -> sandbox_logs(a)
      [] a.op = "policy_get"      -> IF a.global THEN sandbox_policy_get_global(a) ELSE sandbox_policy_get(a)
      [] a.op = "policy_list"     -> IF a.global THEN sandbox_policy_list_global(a) ELSE sandbox_policy_list(a)
      [] a.op = "policy_set"      -> sandbox_policy_set_global(a)
      [] a.op = "policy_delete"   -> IF a.global THEN gateway_setting_delete(a) ELSE <<"refuse">>
      [] a.op = "settings_get"    -> IF ~a.global THEN sandbox_settings_get(a)
                                     ELSE IF a.name # None THEN <<"refuse">> ELSE gateway_settings_get(a)
      [] a.op = "settings_set"    -> IF a.global THEN gateway_setting_set(a) ELSE sandbox_setting_set(a)
      [] a.op = "settings_delete" -> IF a.global THEN gateway_setting_delete(a) ELSE sandbox_setting_delete(a)
      [] a.op = "rule_get"        -> sandbox_draft_get(a)
      [] a.op = "rule_approve"    -> sandbox_draft_approve(a)
      [] a.op = "rule_reject"     -> sandbox_draft_reject(a)
      [] a.op = "rule_approve_all" -> sandbox_draft_approve_all(a)
      [] a.op = "rule_clear"      -> sandbox_draft_clear(a)
      [] a.op = "rule_history"    -> sandbox_draft_history(a)
      [] a.op = "provider_create" -> provider_create(a)
      [] a.op = "provider_get"    -> provider_get(a)
      [] a.op = "provider_list"   -> provider_list(a)
      [] a.op = "provider_update" -> provider_update(a)
      [] a.op = "provider_delete" -> provider_delete(a)
      [] a.op = "inference_set"   -> gateway_inference_set(a)
      [] a.op = "inference_update" -> gateway_inference_update(a)
      [] a.op = "inference_get"   -> gateway_inference_get(a)

Serve(rpc, d, c) ==
    CASE rpc = "get_sandbox"      -> get_sandbox(d, c)
      [] rpc = "list_sandboxes"   -> list_sandboxes(d, c)
      [] rpc = "get_sandbox_config" -> get_sandbox_config(d, c)
      [] rpc = "get_gateway_config" -> get_gateway_config(d, c)
      [] rpc = "get_sandbox_logs" -> get_sandbox_logs(d, c)
      [] rpc = "watch_sandbox"    -> watch_sandbox(d, c)
      [] rpc = "get_sandbox_policy_status" -> get_sandbox_policy_status(d, c)
      [] rpc = "list_sandbox_policies" -> list_sandbox_policies(d, c)
      [] rpc = "update_config"    -> update_config(d, c)
      [] rpc = "get_draft_policy" -> get_draft_policy(d, c)
      [] rpc = "get_draft_history" -> get_draft_history(d, c)
      [] rpc = "approve_draft_chunk" -> approve_draft_chunk(d, c)
      [] rpc = "reject_draft_chunk" -> reject_draft_chunk(d, c)
      [] rpc = "approve_all_draft_chunks" -> approve_all_draft_chunks(d, c)
      [] rpc = "clear_draft_chunks" -> clear_draft_chunks(d, c)
      [] rpc = "get_provider"     -> get_provider(d, c)
      [] rpc = "list_providers"   -> list_providers(d, c)
      [] rpc = "create_provider"  -> create_provider(d, c)
      [] rpc = "update_provider"  -> update_provider(d, c)
      [] rpc = "delete_provider"  -> delete_provider(d, c)
      [] rpc = "get_cluster_inference" -> get_cluster_inference(d, c)
      [] rpc = "set_cluster_inference" -> set_cluster_inference(d, c)
      [] OTHER                    -> print_inference_route(d, c)
==============================================================================
