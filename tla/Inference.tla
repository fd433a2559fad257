----------------------------- MODULE Inference -----------------------------
(***************************************************************************)
(* Inference routing from the gateway's records to the upstream: provider  *)
(* records and the two managed routes in the store, the bundle the gateway *)
(* resolves from them, the route caches a supervisor refreshes from it     *)
(* (behind fair read-write locks), and the connections to inference.local  *)
(* that the proxy intercepts and the router sends upstream.                *)
(***************************************************************************)
EXTENDS Naturals, Sequences, FiniteSets, SequencesExt, TLC

CONSTANTS Calls,        \* concurrent gateway requests
          Conns,        \* intercepted connections
          None,
          ProviderNames, Models,
          Contents,     \* [type, credentials, config] a request may carry
          KeyOrder,     \* credential keys in lexicographic order
          ValidEnvKeys, \* keys that are environment variable names
          Traffic,      \* [method, path, headers] of intercepted requests
          Sources,      \* route sources to start from: "file", "cluster", "none"
          FileConfigs,  \* routes files: sequences of [name, endpoint, model, key,
                        \* protocols, type], key None when it cannot be resolved
          HasTls,
          MaxRequests, MaxTraffic

ASSUME InferenceAssumption ==
    /\ HasTls \in BOOLEAN /\ MaxRequests \in Nat /\ MaxTraffic \in Nat
    /\ Sources \subseteq {"file", "cluster", "none"}

RouteNames == {"inference.local", "sandbox-system"}
UserRoute == "inference.local"
SystemRoute == "sandbox-system"

VARIABLES providers,  \* name -> None or a provider record
          routes,     \* route name -> None or [provider, model, version]
          calls,      \* gateway request -> progress
          begun,      \* gateway requests begun
          source,     \* where this supervisor takes its routes from
          ctx,        \* the inference context exists
          user,       \* user route cache
          system,     \* system route cache
          readers,    \* connections that hold the read lock of the user cache
          refresher,  \* the refresh task
          conns,      \* intercepted connection -> progress
          served      \* requests read from intercepted connections

gatewayVars == <<providers, routes, calls, begun>>
caches == <<source, ctx, user, system, readers, refresher>>
inferenceVars == <<gatewayVars, caches, conns, served>>

-----------------------------------------------------------------------------
(* Provider profiles (clustershell-core).                                   *)

OpenAi == {"openai_chat_completions", "openai_completions", "openai_responses",
           "model_discovery"}
profile_for ==
    [openai    |-> [url |-> "openai-url", protocols |-> OpenAi, auth |-> "authorization",
                    keys |-> <<"OPENAI_API_KEY">>, urlKey |-> "OPENAI_BASE_URL", defaults |-> {}],
     anthropic |-> [url |-> "anthropic-url", protocols |-> {"anthropic_messages", "model_discovery"},
                    auth |-> "x-api-key", keys |-> <<"ANTHROPIC_API_KEY">>,
                    urlKey |-> "ANTHROPIC_BASE_URL", defaults |-> {"anthropic-version"}],
     nvidia    |-> [url |-> "nvidia-url", protocols |-> OpenAi, auth |-> "authorization",
                    keys |-> <<"NVIDIA_API_KEY">>, urlKey |-> "NVIDIA_BASE_URL", defaults |-> {}]]

\* auth_for_provider_type: an unknown type gets a bearer header.
AuthFor(type) == IF type \in DOMAIN profile_for
                 THEN [auth |-> profile_for[type].auth, defaults |-> profile_for[type].defaults]
                 ELSE [auth |-> "authorization", defaults |-> {}]

\* find_provider_api_key: the preferred names, then any key in order.
ApiKey(p, preferred) ==
    LET usable == SelectSeq(preferred \o KeyOrder,
                            LAMBDA k : k \in DOMAIN p.credentials /\ p.credentials[k] # "")
    IN IF usable = <<>> THEN None ELSE p.credentials[Head(usable)]

\* resolve_provider_route; None stands for its errors.
ResolveProvider(p) ==
    IF p.type \notin DOMAIN profile_for THEN None
    ELSE LET prof == profile_for[p.type]
             key == ApiKey(p, prof.keys)
         IN IF key = None THEN None
            ELSE [endpoint  |-> IF /\ prof.urlKey \in DOMAIN p.config
                                   /\ p.config[prof.urlKey] # ""
                                THEN p.config[prof.urlKey] ELSE prof.url,
                  key       |-> key,
                  protocols |-> prof.protocols,
                  type      |-> p.type]

-----------------------------------------------------------------------------
(* Provider records.                                                        *)

\* merge_map: an empty map changes nothing, an empty value removes a key.
merge_map(existing, incoming) ==
    LET merged == incoming @@ existing
        kept == {k \in DOMAIN merged : k \in DOMAIN incoming => incoming[k] # ""}
    IN [k \in kept |-> merged[k]]

CallAt(c, pc) == calls[c].pc = pc
Idle == [pc |-> "idle"]
\* The answer (with the credentials redacted) changes nothing here.
Reply(c, what) == calls' = [calls EXCEPT ![c] = Idle]

\* The requests: create, update and delete a provider, read the environment
\* of a sandbox with these providers, set a managed route.  (A supervisor with
\* another route source never asks for them.)
Begin(c) ==
    /\ CallAt(c, "idle") /\ begun < MaxRequests /\ source = "cluster"
    /\ begun' = begun + 1
    /\ \E n \in ProviderNames :
          \/ \E p \in Contents :
                \/ p.type # "" /\ p.credentials # <<>>
                   /\ calls' = [calls EXCEPT ![c] = [pc |-> "create", id |-> begun, name |-> n, content |-> p]]
                \/ calls' = [calls EXCEPT ![c] = [pc |-> "update", name |-> n, content |-> p]]
          \/ calls' = [calls EXCEPT ![c] = [pc |-> "delete", name |-> n]]
          \/ calls' = [calls EXCEPT ![c] = [pc |-> "env", left |-> <<n>>, list |-> <<>>]]
          \/ \E r \in RouteNames, m \in Models :
                calls' = [calls EXCEPT ![c] = [pc |-> "setProvider", id |-> begun, route |-> r,
                                               name |-> n, model |-> m]]
    /\ UNCHANGED <<providers, routes, caches, conns, served>>

\* Mutant of PutProvider: the insert replaces a row of the same name.
Mutant_PutByName(c) ==
    /\ CallAt(c, "put")
    /\ providers' = [providers EXCEPT ![calls[c].name] = calls[c].row]
    /\ Reply(c, "ok")
    /\ UNCHANGED <<routes, begun, caches, conns, served>>

\* put_message: an upsert by id; a row of the same name and another id is
\* refused by the unique constraint.
PutProvider(c) ==
    /\ CallAt(c, "put")
    /\ LET row == calls[c].row
           old == providers[row.name]
       IN IF old # None /\ old.id # row.id
          THEN Reply(c, "persist provider failed") /\ UNCHANGED providers
          ELSE /\ providers' = [providers EXCEPT ![row.name] = row]
               /\ Reply(c, "ok")
    /\ UNCHANGED <<routes, begun, caches, conns, served>>

\* create_provider_record: refused if the name exists at the read.
CreateProvider(c) ==
    /\ CallAt(c, "create")
    /\ IF providers[calls[c].name] # None THEN Reply(c, "provider already exists")
       ELSE calls' = [calls EXCEPT ![c] =
                [pc |-> "put", name |-> calls[c].name,
                 row |-> [id |-> calls[c].id, name |-> calls[c].name, type |-> calls[c].content.type,
                          credentials |-> calls[c].content.credentials,
                          config |-> calls[c].content.config]]]
    /\ UNCHANGED <<providers, routes, begun, caches, conns, served>>

\* update_provider_record: the type is immutable, the maps are merged.
UpdateProvider(c) ==
    /\ CallAt(c, "update")
    /\ LET old == providers[calls[c].name]
           new == calls[c].content
       IN CASE old = None -> Reply(c, "provider not found")
            [] old # None /\ new.type \notin {"", old.type} -> Reply(c, "type cannot be changed")
            [] OTHER -> calls' = [calls EXCEPT ![c] =
                          [pc |-> "put", name |-> old.name,
                           row |-> [old EXCEPT
                                      !.credentials = merge_map(old.credentials, new.credentials),
                                      !.config = merge_map(old.config, new.config)]]]
    /\ UNCHANGED <<providers, routes, begun, caches, conns, served>>

\* delete_provider_record asks no route whether it uses the provider.
DeleteProvider(c) ==
    /\ CallAt(c, "delete")
    /\ providers' = [providers EXCEPT ![calls[c].name] = None]
    /\ Reply(c, "ok")
    /\ UNCHANGED <<routes, begun, caches, conns, served>>

\* resolve_provider_environment over the providers of a sandbox, in order:
\* the first provider that has a key wins; other keys are skipped.
ProviderEnvironment(list) ==
    LET keys == {k \in ValidEnvKeys : \E i \in 1..Len(list) : k \in DOMAIN list[i].credentials}
        first(k) == CHOOSE i \in 1..Len(list) :
                        /\ k \in DOMAIN list[i].credentials
                        /\ \A j \in 1..(i - 1) : k \notin DOMAIN list[j].credentials
    IN [k \in keys |-> list[first(k)].credentials[k]]

ReadEnvironment(c) ==
    /\ CallAt(c, "env")
    /\ IF calls[c].left = <<>> THEN Reply(c, ProviderEnvironment(calls[c].list))
       ELSE IF providers[Head(calls[c].left)] = None THEN Reply(c, "provider not found")
       ELSE calls' = [calls EXCEPT ![c].left = Tail(@),
                                   ![c].list = Append(@, providers[Head(calls[c].left)])]
    /\ UNCHANGED <<providers, routes, begun, caches, conns, served>>

-----------------------------------------------------------------------------
(* upsert_cluster_inference_route.                                          *)

\* validation_probe: the protocol verify_backend_endpoint sends a ping in.
Probe(protocols) ==
    LET fits == SelectSeq(<<"openai_chat_completions", "anthropic_messages", "openai_responses",
                            "openai_completions">>, LAMBDA x : x \in protocols)
    IN IF fits = <<>> THEN None ELSE Head(fits)

\* Read and resolve the provider; the request says whether to verify it.
SetReadProvider(c) ==
    /\ CallAt(c, "setProvider")
    /\ LET p == providers[calls[c].name]
       IN IF p = None \/ (p # None /\ ResolveProvider(p) = None)
          THEN Reply(c, "refused")
          ELSE \E probe \in {"none", Probe(ResolveProvider(p).protocols)} :
                  calls' = [calls EXCEPT ![c] =
                      [pc |-> IF probe = "none" THEN "setRoute" ELSE "verify", probe |-> probe,
                       id |-> @.id, route |-> @.route, name |-> @.name, model |-> @.model]]
    /\ UNCHANGED <<providers, routes, begun, caches, conns, served>>

\* verify_provider_endpoint: the upstream accepts the ping, or the call fails.
\* The provider may have been changed since it was read.
SetVerify(c) ==
    /\ CallAt(c, "verify")
    /\ \/ Reply(c, "failed to verify inference endpoint")
       \/ calls[c].probe # None /\ calls' = [calls EXCEPT ![c].pc = "setRoute", ![c].probe = "none"]
    /\ UNCHANGED <<providers, routes, begun, caches, conns, served>>

SetReadRoute(c) ==
    /\ CallAt(c, "setRoute")
    /\ LET old == routes[calls[c].route]
       IN calls' = [calls EXCEPT ![c] =
             [pc |-> "setPut", route |-> @.route,
              row |-> [provider |-> @.name, model |-> @.model,
                       id |-> IF old = None THEN @.id ELSE old.id,
                       version |-> IF old = None THEN 1 ELSE old.version + 1]]]
    /\ UNCHANGED <<providers, routes, begun, caches, conns, served>>

SetPutRoute(c) ==
    /\ CallAt(c, "setPut")
    /\ LET old == routes[calls[c].route]
       IN IF old # None /\ old.id # calls[c].row.id
          THEN Reply(c, "persist route failed") /\ UNCHANGED routes
          ELSE /\ routes' = [routes EXCEPT ![calls[c].route] = calls[c].row]
               /\ Reply(c, "ok")
    /\ UNCHANGED <<providers, begun, caches, conns, served>>

\* A dropped request, or a store error.
DropCall(c) ==
    /\ calls[c].pc # "idle"
    /\ calls' = [calls EXCEPT ![c] = Idle]
    /\ UNCHANGED <<providers, routes, begun, caches, conns, served>>

-----------------------------------------------------------------------------
(* The bundle and the refresh task.                                         *)

\* resolve_route_by_name, the provider part; None stands for an error.
Resolved(name, row) ==
    LET p == providers[row.provider]
        r == IF p = None THEN None ELSE ResolveProvider(p)
    IN IF r = None THEN None ELSE [name |-> name, model |-> row.model] @@ r

\* bundle_to_resolved_routes and partition_routes.
ToRoute(b) == [name |-> b.name, endpoint |-> b.endpoint, model |-> b.model, key |-> b.key,
               protocols |-> b.protocols] @@ AuthFor(b.type)
Routes(bundle, isSystem) ==
    LET mine == SelectSeq(bundle, LAMBDA b : (b.name = SystemRoute) = isSystem)
    IN [i \in 1..Len(mine) |-> ToRoute(mine[i])]

\* Mutant of BundleRevision: the key is left out of the hash.
Mutant_NoKeyInHash(bundle) ==
    [i \in 1..Len(bundle) |-> [bundle[i] EXCEPT !.key = None]]

\* The revision is a hash of the contents.
BundleRevision(bundle) == bundle

Task(pc) == [refresher EXCEPT !.pc = pc]

\* One tick: the gateway reads the user route and then its provider, the
\* system route and then its provider.  An unset route is left out; any error
\* fails the whole bundle and the caches stay.
FetchStart ==
    /\ ctx /\ source = "cluster" /\ refresher.pc = "tick"
    /\ refresher' = [Task("route") EXCEPT !.bundle = <<>>, !.name = UserRoute]
    /\ UNCHANGED <<gatewayVars, source, ctx, user, system, readers, conns, served>>

AfterRoute(bundle) ==
    IF refresher.name = UserRoute
    THEN [Task("route") EXCEPT !.bundle = bundle, !.name = SystemRoute, !.row = None]
    ELSE [Task("fetched") EXCEPT !.bundle = bundle, !.row = None]

FetchReadRoute ==
    /\ refresher.pc = "route"
    /\ refresher' = IF routes[refresher.name] = None THEN AfterRoute(refresher.bundle)
                    ELSE [Task("provider") EXCEPT !.row = routes[refresher.name]]
    /\ UNCHANGED <<gatewayVars, source, ctx, user, system, readers, conns, served>>

FetchReadProvider ==
    /\ refresher.pc = "provider"
    /\ LET r == Resolved(refresher.name, refresher.row)
       IN refresher' = IF r = None THEN Task("tick")
                       ELSE AfterRoute(Append(refresher.bundle, r))
    /\ UNCHANGED <<gatewayVars, source, ctx, user, system, readers, conns, served>>

\* The link or the gateway fails: the stale routes are kept.
FetchFails ==
    /\ refresher.pc \in {"route", "provider", "fetched"}
    /\ refresher' = [Task("tick") EXCEPT !.row = None]
    /\ UNCHANGED <<gatewayVars, source, ctx, user, system, readers, conns, served>>

\* The revision decides whether anything is written; it is recorded first.
FetchCompare ==
    /\ refresher.pc = "fetched"
    /\ refresher' = IF refresher.revision = BundleRevision(refresher.bundle) THEN Task("tick")
                    ELSE [Task("lock") EXCEPT !.revision = BundleRevision(refresher.bundle)]
    /\ UNCHANGED <<gatewayVars, source, ctx, user, system, readers, conns, served>>

\* write().await of the user cache waits for the readers it finds, and later
\* readers wait for it ("lock" is the place in the queue).
WriteUser ==
    /\ refresher.pc = "lock" /\ readers = {}
    /\ user' = Routes(refresher.bundle, FALSE)
    /\ refresher' = Task("writeSystem")
    /\ UNCHANGED <<gatewayVars, source, ctx, system, readers, conns, served>>

WriteSystem ==
    /\ refresher.pc = "writeSystem"
    /\ system' = Routes(refresher.bundle, TRUE)
    /\ refresher' = [Task("tick") EXCEPT !.bundle = <<>>]
    /\ UNCHANGED <<gatewayVars, source, ctx, user, readers, conns, served>>

-----------------------------------------------------------------------------
(* build_inference_context.                                                 *)

\* RouterConfig::load_from_file and resolve_routes: every route needs a key and
\* a protocol; None stands for the error.
ResolveFile(config) ==
    IF \E i \in 1..Len(config) : config[i].key = None \/ config[i].protocols = {}
    THEN None ELSE config

\* File: an error stops the supervisor (no start at all); an empty list
\* disables routing.  Cluster: a failed fetch disables it for good, an empty
\* bundle does not (the supervisors here start before any route is set).
Start(src, enabled, bundle) ==
    \/ src = "none" /\ ~enabled /\ bundle = <<>>
    \/ /\ src = "file"
       /\ \E config \in FileConfigs : /\ ResolveFile(config) # None
                                     /\ bundle = ResolveFile(config)
       /\ enabled = (bundle # <<>>)
    \/ src = "cluster" /\ bundle = <<>> /\ enabled \in BOOLEAN

InferenceInit ==
    /\ providers = [n \in ProviderNames |-> None]
    /\ routes = [r \in RouteNames |-> None]
    /\ calls = [c \in Calls |-> Idle]
    /\ begun = 0
    /\ source \in Sources
    /\ ctx \in BOOLEAN
    /\ \E bundle \in {<<>>} \cup FileConfigs :
          /\ Start(source, ctx, bundle)
          /\ user = Routes(bundle, FALSE) /\ system = Routes(bundle, TRUE)
    /\ refresher = [pc |-> "tick", bundle |-> <<>>, name |-> UserRoute, row |-> None,
                    revision |-> IF source = "cluster" THEN BundleRevision(<<>>) ELSE None]
    /\ readers = {}
    /\ conns = [k \in Conns |-> [pc |-> "opened"]]
    /\ served = 0

-----------------------------------------------------------------------------
(* handle_inference_interception and route_inference_request.               *)

Patterns == {[method |-> "POST", path |-> <<"v1", "chat", "completions">>,
              protocol |-> "openai_chat_completions"],
             [method |-> "POST", path |-> <<"v1", "completions">>, protocol |-> "openai_completions"],
             [method |-> "POST", path |-> <<"v1", "responses">>, protocol |-> "openai_responses"],
             [method |-> "POST", path |-> <<"v1", "messages">>, protocol |-> "anthropic_messages"]}

\* detect_inference_pattern: None when the request is no inference call.
Detected(req) ==
    IF req.method = "GET" /\ IsPrefix(<<"v1", "models">>, req.path) THEN "model_discovery"
    ELSE LET fits == {p \in Patterns : p.method = req.method /\ p.path = req.path}
         IN IF fits = {} THEN None ELSE (CHOOSE p \in fits : TRUE).protocol

HopByHop == {"connection", "keep-alive", "proxy-authenticate", "proxy-authorization",
             "proxy-connection", "te", "trailer", "transfer-encoding", "upgrade"}
\* sanitize_inference_request_headers.
Sanitized(hs) == hs \ (HopByHop \cup {"authorization", "x-api-key", "host", "content-length"})

\* send_backend_request: the key in the route's header, the client's headers
\* without credentials, the defaults it did not send, the route's model.
UpstreamRequest(route, hs) ==
    LET sent == hs \ {"authorization", "x-api-key", "host"}
    IN [endpoint |-> route.endpoint, key |-> route.key, auth |-> route.auth,
        headers |-> sent \cup (route.defaults \ hs), model |-> route.model]

\* proxy_with_candidates_streaming: the first route that speaks the protocol.
Candidate(protocol) ==
    LET fits == SelectSeq(user, LAMBDA r : protocol \in r.protocols)
    IN IF fits = <<>> THEN None ELSE Head(fits)

ConnAt(k, pc) == conns[k].pc = pc
EndConn(k, outcome) == conns' = [conns EXCEPT ![k] = [pc |-> "closed", outcome |-> outcome]]

\* The context, the CA and the client handshake, in this order.
OpenTunnel(k) ==
    /\ ConnAt(k, "opened")
    /\ \/ EndConn(k, "denied")
       \/ /\ ctx /\ HasTls
          /\ conns' = [conns EXCEPT ![k] = [pc |-> "read", routed |-> FALSE]]
    /\ UNCHANGED <<gatewayVars, caches, served>>

\* The client closes, fails or exceeds the buffer: denied unless something
\* was routed on this connection before.
CloseTunnel(k) ==
    /\ ConnAt(k, "read")
    /\ EndConn(k, IF conns[k].routed THEN "routed" ELSE "denied")
    /\ UNCHANGED <<gatewayVars, caches, served>>

\* A complete request; one that is no inference call is answered 403.
ReadRequest(k) ==
    /\ ConnAt(k, "read") /\ served < MaxTraffic
    /\ served' = served + 1
    /\ \E req \in Traffic :
          LET protocol == Detected(req)
          IN CASE protocol # None -> conns' = [conns EXCEPT ![k] =
                    [pc |-> "wait", routed |-> @.routed, protocol |-> protocol,
                     headers |-> Sanitized(req.headers)]]
               [] protocol = None /\ conns[k].routed -> UNCHANGED conns
               [] OTHER -> EndConn(k, "denied")
    /\ UNCHANGED <<gatewayVars, caches>>

\* Mutant of ReadLock: the guard is asked for again while it is held.
Mutant_LockTwice(k) ==
    /\ ConnAt(k, "wait") /\ refresher.pc # "lock"
    /\ IF k \in readers
       THEN conns' = [conns EXCEPT ![k].pc = "route"] /\ UNCHANGED readers
       ELSE readers' = readers \cup {k} /\ UNCHANGED conns
    /\ UNCHANGED <<gatewayVars, source, ctx, user, system, refresher, served>>

\* routes.read().await, behind a waiting writer.
ReadLock(k) ==
    /\ ConnAt(k, "wait") /\ refresher.pc # "lock"
    /\ readers' = readers \cup {k}
    /\ conns' = [conns EXCEPT ![k].pc = "route"]
    /\ UNCHANGED <<gatewayVars, source, ctx, user, system, refresher, served>>

\* With the lock held: no route at all (503), no compatible route (400), or a
\* request to the upstream, whose client has a timeout.
RouteRequest(k) ==
    /\ ConnAt(k, "route")
    /\ LET route == Candidate(conns[k].protocol)
       IN conns' = [conns EXCEPT ![k] =
              [pc |-> "answer", routed |-> @.routed,
               sent |-> IF route = None THEN None ELSE UpstreamRequest(route, @.headers)]]
    /\ UNCHANGED <<gatewayVars, caches, served>>

\* The answer, an error or the upstream's response chunk by chunk, is written to
\* the client with the lock held and without a timeout: the step is taken when
\* the client has read it all, or when a write fails and ends the connection.
WriteAnswer(k) ==
    /\ ConnAt(k, "answer")
    /\ readers' = readers \ {k}
    /\ \/ conns' = [conns EXCEPT ![k] = [pc |-> "read", routed |-> TRUE]]
       \/ EndConn(k, "routed")
    /\ UNCHANGED <<gatewayVars, source, ctx, user, system, refresher, served>>

-----------------------------------------------------------------------------
CallStep(c) ==
    \/ CreateProvider(c) \/ UpdateProvider(c) \/ PutProvider(c) \/ DeleteProvider(c)
    \/ ReadEnvironment(c) \/ SetReadProvider(c) \/ SetVerify(c) \/ SetReadRoute(c) \/ SetPutRoute(c)

RefreshStep == FetchStart \/ FetchReadRoute \/ FetchReadProvider \/ FetchCompare
               \/ WriteUser \/ WriteSystem

ConnStep(k) == ReadLock(k) \/ RouteRequest(k)

InferenceNext ==
    \/ \E c \in Calls : Begin(c) \/ CallStep(c) \/ DropCall(c)
    \/ RefreshStep \/ FetchFails
    \/ \E k \in Conns : OpenTunnel(k) \/ ReadRequest(k) \/ CloseTunnel(k)
                         \/ ConnStep(k) \/ WriteAnswer(k)

\* The interval ticks for ever and a working link answers again and again; a
\* waiting writer or reader is served in turn, and the router's client gives up
\* after its timeout.  Nothing is assumed of WriteAnswer, which is the client's.
Fairness ==
    /\ WF_inferenceVars(FetchStart)
    /\ \A n \in RouteNames : /\ SF_inferenceVars(FetchReadRoute /\ refresher.name = n)
                             /\ SF_inferenceVars(FetchReadProvider /\ refresher.name = n)
    /\ SF_inferenceVars(FetchCompare) /\ WF_inferenceVars(WriteUser) /\ WF_inferenceVars(WriteSystem)
    /\ \A k \in Conns : WF_inferenceVars(ConnStep(k))

InferenceSpec == InferenceInit /\ [][InferenceNext]_inferenceVars /\ Fairness

-----------------------------------------------------------------------------
Bundle ==
    LET r(n) == IF routes[n] = None THEN <<>> ELSE <<Resolved(n, routes[n])>>
    IN r(UserRoute) \o r(SystemRoute)
Configured == \A n \in RouteNames : routes[n] # None => Resolved(n, routes[n]) # None
InSync == Configured /\ user = Routes(Bundle, FALSE) /\ system = Routes(Bundle, TRUE)

\* No client keeps an answer half read for ever.
ClientsRead == \A k \in Conns : []<>~ConnAt(k, "answer")

\* docs/inference/configure.md:185, without its five seconds: when the records
\* stop changing and every managed route resolves, the caches come to hold what
\* the gateway would answer, whatever the clients in the sandbox do.  TLC refutes
\* this: a client that stops reading keeps the read lock.
HotReload ==
    (ctx /\ source = "cluster") =>
        (<>[]Configured /\ <>[][FALSE]_<<providers, routes>> => <>[]InSync)

\* Provided that clients read their answers, both caches catch up with the
\* records, although the revision is recorded before the writes and requests hold
\* the read lock meanwhile (spawn_route_refresh).
RoutesConverge == ClientsRead => HotReload

\* A request that was recognised as inference is answered (or its connection
\* ends): waiting for the route cache blocks nobody for good unless some client
\* stops reading (route_inference_request writes with the read guard held, and a
\* writer that waits for it keeps later readers out).
RequestsAnswered ==
    ClientsRead => \A k \in Conns : ConnAt(k, "wait") ~> conns[k].pc \in {"read", "closed"}

\* As long as a name is taken its record keeps its id and its type: a create
\* that found the name free never replaces what another request put there in
\* between, and an update that is written late never brings back the type of an
\* earlier record (create_provider_record, update_provider_record).
ProviderKeepsIdentity ==
    [][\A n \in ProviderNames :
          providers[n] # None /\ providers'[n] # None =>
              /\ providers'[n].id = providers[n].id
              /\ providers'[n].type = providers[n].type]_inferenceVars

\* While a request chooses its route and its answer is written, the refresh task
\* does not change the routes it chose from (route_inference_request keeps the
\* read guard to the end of the exchange).
RoutesHeldStill ==
    [][\A k \in Conns : conns[k].pc \in {"route", "answer"} => user' = user]_inferenceVars
=============================================================================
