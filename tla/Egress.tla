------------------------------- MODULE Egress -------------------------------
(***************************************************************************)
(* The egress proxy of a sandbox: one task per accepted connection, all    *)
(* sharing the policy engine (behind a mutex that every query takes anew), *)
(* the cache of binary hashes and the cache of leaf certificates.  A hot   *)
(* reload of the policy, a replaced binary and other connections           *)
(* interleave between any two queries and at every await.                  *)
(***************************************************************************)
EXTENDS OpaEngine, TLC

CONSTANTS Conns,        \* connections
          Targets,      \* the [kind, scheme, host, port, headers] of a request head
          Procs,        \* pid -> [ppid, exe, sockets] of the sandbox's processes
          Entrypoint,   \* pid of the entrypoint
          Sockets,      \* client sockets that connect to the proxy
          Writable,     \* binaries a process of the sandbox can rewrite
          Policies,     \* the policies the gateway may serve
          Dns,          \* [host -> the address sets a lookup may answer]
          RulesPackage, \* the package line of the Rego rules
          HasTls,       \* the ephemeral CA could be generated at startup
          MaxCerts,     \* MAX_CACHED_CERTS
          Methods, Paths, Statuses,
          Framings,     \* the framing headers of a message, in order
          MaxFileVersion, MaxReloads

ASSUME EgressAssumption ==
    /\ HasTls \in BOOLEAN /\ MaxCerts \in Nat \ {0}
    /\ MaxFileVersion \in Nat /\ MaxReloads \in Nat
    /\ Policies # {} /\ Entrypoint \in DOMAIN Procs
    /\ Writable \subseteq {Procs[p].exe : p \in DOMAIN Procs}

InferenceHost == <<"inference", "local">>
\* Addresses are named by their class: "public", "private", "loopback",
\* "linklocal", and "unspecified", which is none of the internal ones.
AlwaysBlocked == {"loopback", "linklocal"}
Internal == AlwaysBlocked \cup {"private"}

VARIABLES engine,      \* the data of the shared OpaEngine
          reloads,     \* number of hot reloads so far
          spawned,     \* entrypoint_pid is set
          files,       \* binary -> [stamp, hash] on disk
          hashes,      \* BinaryIdentityCache: binary -> NoEntry or [stamp, hash]
          certs,       \* CertCache: hostnames with a leaf certificate
          conns        \* connection -> its task

vars == <<engine, reloads, spawned, files, hashes, certs, conns>>

NoEntry == [stamp |-> 0, hash |-> 0]
Binaries == {Procs[p].exe : p \in DOMAIN Procs}

NoRequest == [method |-> "", path |-> <<>>, framing |-> <<>>]
Fresh == [pc       |-> "accepted",
          target   |-> [kind |-> "", scheme |-> "", host |-> <<>>, port |-> 0, headers |-> {}],
          peer     |-> [bin |-> <<>>, ancestors |-> {}],
          verify   |-> {},       \* binaries still to be verified
          stat     |-> NoEntry,  \* the stat taken before hashing
          path     |-> <<>>,     \* the binary being hashed
          allow    |-> FALSE,
          ips      |-> {},       \* allowed_ips in force
          addrs    |-> {},       \* addresses the lookup answered
          addr     |-> "",       \* address connected to
          l7       |-> NoL7,
          tunnel   |-> <<>>,     \* the engine cloned for the tunnel
          request  |-> NoRequest,\* the request being relayed
          sent     |-> {},       \* headers of the last request sent upstream
          beyond   |-> FALSE,    \* bytes behind its body went upstream with it
          granted  |-> <<>>,     \* the policy that allowed the connection
          asked    |-> <<>>,     \* the policy asked for the L7 configuration
          reply    |-> "",
          denial   |-> ""]       \* stage of the denial event it emitted

Init ==
    /\ engine \in {LoadPolicy(p) : p \in {q \in Policies : ~PolicyInvalid(q)}}
    /\ reloads = 0
    /\ spawned = FALSE
    /\ files = [b \in Binaries |-> [stamp |-> 1, hash |-> 1]]
    /\ hashes = [b \in Binaries |-> NoEntry]
    /\ certs = {}
    /\ conns = [c \in Conns |-> Fresh]

-----------------------------------------------------------------------------
At(c, pc) == conns[c].pc = pc
Input(c) == [host |-> conns[c].target.host, port |-> conns[c].target.port,
             bin |-> conns[c].peer.bin, ancestors |-> conns[c].peer.ancestors]
\* A task assigns some of its fields.
Assign(r, fields) == [f \in DOMAIN r |-> IF f \in DOMAIN fields THEN fields[f] ELSE r[f]]
Step(c, fields) == conns' = [conns EXCEPT ![c] = Assign(@, fields)]
End(c, reply, stage) ==
    conns' = [conns EXCEPT ![c] = [Fresh EXCEPT !.pc = "closed", !.reply = reply,
                                                !.denial = stage]]
Close(c, reply) == End(c, reply, "")

\* emit_denial and emit_denial_simple hand an event of this stage to the
\* aggregator (module Reports) before the answer.
Deny(c, stage) == End(c, "403", stage)

\* The denial stage of a refused decision is the name of the path it is on.
DenyDecision(c) == Deny(c, conns[c].target.kind)

\* eval_rule fails for a path that is not a rule: the queries name the
\* package clustershell.sandbox.
RulesFound == RulesPackage = "clustershell.sandbox"

-----------------------------------------------------------------------------
(* The process that owns a client socket, from /proc.                      *)

\* collect_descendant_pids: breadth first from the entrypoint.
Generation[k \in 0..Cardinality(DOMAIN Procs)] ==
    IF k = 0 THEN {Entrypoint}
    ELSE {p \in DOMAIN Procs : Procs[p].ppid \in Generation[k - 1]}
Descendants == UNION {Generation[k] : k \in DOMAIN Generation}

\* find_pid_by_socket_inode: the first descendant with the socket open, so an
\* inherited socket belongs to the eldest holder; other processes only when
\* no descendant has it.  An empty set is the error.
SocketOwners(s) ==
    LET holders == {p \in DOMAIN Procs : s \in Procs[p].sockets}
        eldest(k) == holders \cap Generation[k]
    IN IF holders \cap Descendants # {}
       THEN eldest(Min({k \in DOMAIN Generation : eldest(k) # {}}))
       ELSE holders

\* collect_ancestor_binaries: parents up to the entrypoint or init; the walk
\* from the entrypoint itself goes on above it.
AncestorPids(pid) ==
    LET up[k \in 0..Cardinality(DOMAIN Procs)] ==
            IF k = 0 THEN pid
            ELSE IF up[k - 1] \notin DOMAIN Procs \/ (k > 1 /\ up[k - 1] \in {Entrypoint, 1})
                 THEN 0 ELSE Procs[up[k - 1]].ppid
    IN {up[k] : k \in DOMAIN up \ {0}} \cap DOMAIN Procs

Peer(pid) == [bin |-> Procs[pid].exe, ancestors |-> {Procs[p].exe : p \in AncestorPids(pid)}]

-----------------------------------------------------------------------------
(* The environment: the gateway, the entrypoint, the disk.                 *)

\* reload_from_proto: the whole pipeline, then one assignment under the
\* mutex; an invalid policy leaves the last good engine.
Reload ==
    /\ reloads < MaxReloads
    /\ \E p \in Policies :
          /\ reloads' = reloads + 1
          /\ engine' = IF PolicyInvalid(p) THEN engine ELSE LoadPolicy(p)
    /\ UNCHANGED <<spawned, files, hashes, certs, conns>>

\* run_sandbox stores the child's pid once it has spawned it.
SpawnEntrypoint ==
    /\ ~spawned /\ spawned' = TRUE
    /\ UNCHANGED <<engine, reloads, files, hashes, certs, conns>>

\* A process of the sandbox rewrites a binary, with other contents or the same.
ReplaceBinary(b) ==
    /\ files[b].stamp < MaxFileVersion
    /\ \E h \in {1, 2} : files' = [files EXCEPT ![b] = [stamp |-> @.stamp + 1, hash |-> h]]
    /\ UNCHANGED <<engine, reloads, spawned, hashes, certs, conns>>

-----------------------------------------------------------------------------
(* handle_tcp_connection up to the decision.                               *)

\* parse_target wants a port; parse_proxy_uri wants a scheme and a host, and
\* defaults the port by the scheme.
TargetMalformed(t) == IF t.kind = "connect" THEN t.port = 0
                      ELSE t.scheme = "" \/ t.host = <<>>
ParsedTarget(t) == IF t.port # 0 THEN t
                   ELSE [t EXCEPT !.port = IF t.scheme = "https" THEN 443 ELSE 80]

\* The header: at most MAX_HEADER_BYTES, then the method chooses the path.  A
\* malformed CONNECT target fails the task without an answer; the forward
\* path answers 400, also to https.
ReadHeader(c) ==
    /\ At(c, "accepted")
    /\ \/ Close(c, "431")
       \/ Close(c, "")           \* closed before the header was complete
       \/ \E t \in Targets :
             CASE t.kind = "connect" /\ TargetMalformed(t) -> Close(c, "")
               [] t.kind = "forward" /\ (TargetMalformed(t) \/ t.scheme = "https") -> Close(c, "400")
               [] OTHER -> Step(c, [target |-> ParsedTarget(t),
                                    pc |-> IF t.kind = "connect" /\ t.host = InferenceHost
                                           THEN "inference" ELSE "identify"])
    /\ UNCHANGED <<engine, reloads, spawned, files, hashes, certs>>

\* evaluate_opa_tcp: no entrypoint yet, or the socket's owner cannot be found.
\* The process and its ancestors are read from /proc when the task gets here.
IdentifyPeer(c) ==
    /\ At(c, "identify")
    /\ \/ DenyDecision(c)
       \/ /\ spawned
          /\ \E s \in Sockets : \E pid \in SocketOwners(s) :
                Step(c, [peer |-> Peer(pid), pc |-> "verify",
                         verify |-> {Peer(pid).bin} \cup Peer(pid).ancestors])
    /\ UNCHANGED <<engine, reloads, spawned, files, hashes, certs>>

\* verify_or_cache, first half: stat, and a hit when the stamp is unchanged.
VerifyStat(c) ==
    /\ At(c, "verify") /\ conns[c].verify # {}
    /\ \/ DenyDecision(c)            \* the file is gone
       \/ /\ \E b \in conns[c].verify :
                IF hashes[b] # NoEntry /\ hashes[b].stamp = files[b].stamp
                THEN Step(c, [verify |-> conns[c].verify \ {b}])
                ELSE Step(c, [path |-> b, stat |-> files[b], pc |-> "hash"])
    /\ UNCHANGED <<engine, reloads, spawned, files, hashes, certs>>

\* Mutant of HashFile: a changed fingerprint refreshes the cached hash.
Mutant_HashRefreshed(c) ==
    /\ At(c, "hash")
    /\ hashes' = [hashes EXCEPT ![conns[c].path] =
                    [stamp |-> conns[c].stat.stamp, hash |-> files[conns[c].path].hash]]
    /\ Step(c, [verify |-> conns[c].verify \ {conns[c].path}, pc |-> "verify"])
    /\ UNCHANGED <<engine, reloads, spawned, files, certs>>

\* Second half: hash the file as it is now, then compare and insert under the
\* lock, against whatever another task has cached meanwhile.
HashFile(c) ==
    LET b == conns[c].path
        now == files[b].hash
    IN /\ At(c, "hash")
       /\ IF hashes[b] # NoEntry /\ hashes[b].hash # now
          THEN DenyDecision(c) /\ UNCHANGED hashes
          ELSE /\ hashes' = [hashes EXCEPT ![b] = [stamp |-> conns[c].stat.stamp, hash |-> now]]
               /\ Step(c, [verify |-> conns[c].verify \ {b}, pc |-> "verify"])
       /\ UNCHANGED <<engine, reloads, spawned, files, certs>>

\* evaluate_network_action.  An evaluation error is a denial.
Decide(c) ==
    /\ At(c, "verify") /\ conns[c].verify = {}
    /\ IF RulesFound /\ NetworkAllowed(engine, Input(c))
       THEN /\ Step(c, [allow |-> TRUE, granted |-> engine,
                        pc |-> IF conns[c].target.kind = "connect" THEN "ips" ELSE "l7check"])
       ELSE DenyDecision(c)
    /\ UNCHANGED <<engine, reloads, spawned, files, hashes, certs>>

-----------------------------------------------------------------------------
(* Address checks.                                                         *)

\* Forward proxy, step 4b: an endpoint with L7 rules must use CONNECT.
ForwardL7Check(c) ==
    /\ At(c, "l7check")
    /\ IF L7Config(engine, Input(c)) # NoL7
       THEN Deny(c, "forward-l7-bypass")
       ELSE Step(c, [asked |-> engine, pc |-> "ips"])
    /\ UNCHANGED <<engine, reloads, spawned, files, hashes, certs>>

\* parse_allowed_ips: one entry that is no network refuses the lot.
IpsMalformed(ips) == "bad" \in ips

QueryAllowedIps(c) ==
    /\ At(c, "ips")
    /\ LET ips == AllowedIps(engine, Input(c))
       IN IF IpsMalformed(ips)
          THEN Deny(c, "ssrf")
          ELSE Step(c, [ips |-> ips, pc |-> "resolve"])
    /\ UNCHANGED <<engine, reloads, spawned, files, hashes, certs>>

\* resolve_and_reject_internal without allowed_ips, otherwise
\* resolve_and_check_allowed_ips: every address the lookup answers must pass,
\* and a lookup without an answer fails.
RejectsInternal(answer) == answer # {} /\ answer \cap Internal = {}
ChecksAllowedIps(answer, ips) == answer # {} /\ answer \cap AlwaysBlocked = {} /\ answer \subseteq ips
AnswerOk(answer, ips) == IF ips = {} THEN RejectsInternal(answer) ELSE ChecksAllowedIps(answer, ips)

\* Mutant of Resolve: one good address is enough.
Mutant_AnyAddress(c) ==
    /\ At(c, "resolve")
    /\ \E answer \in Dns[conns[c].target.host] :
          IF \A ip \in answer : ~AnswerOk({ip}, conns[c].ips)
          THEN Deny(c, "ssrf")
          ELSE Step(c, [addrs |-> answer, pc |-> "dial"])
    /\ UNCHANGED <<engine, reloads, spawned, files, hashes, certs>>

Resolve(c) ==
    /\ At(c, "resolve")
    /\ \E answer \in Dns[conns[c].target.host] :
          IF ~AnswerOk(answer, conns[c].ips)
          THEN Deny(c, "ssrf")
          ELSE Step(c, [addrs |-> answer, pc |-> "dial"])
    /\ UNCHANGED <<engine, reloads, spawned, files, hashes, certs>>

\* SecretResolver: a header whose value is a placeholder leaves the proxy
\* with the secret; every other header leaves as it came.
ResolveHeader(h) == IF h = "auth-placeholder" THEN "auth-secret" ELSE h
RewriteHeaders(hs) == {ResolveHeader(h) : h \in hs}

\* rewrite_forward_request: origin form, no proxy headers, one connection.
RewriteForward(hs) ==
    RewriteHeaders(hs \ {"proxy-connection", "proxy-authorization", "proxy-authenticate",
                         "connection"}) \cup {"connection-close", "via"}

\* TcpStream::connect tries the checked addresses; a failure ends a CONNECT
\* task without an answer and a forward request with 502.  The forward path
\* then sends the rewritten request and copies.
Dial(c) ==
    LET connect == conns[c].target.kind = "connect"
    IN /\ At(c, "dial")
       /\ \/ Close(c, IF connect THEN "" ELSE "502")
          \/ \E ip \in conns[c].addrs :
                Step(c, [addr |-> ip, pc |-> IF connect THEN "l7query" ELSE "raw",
                         reply |-> IF connect THEN "200" ELSE "",
                         sent |-> IF connect THEN {} ELSE RewriteForward(conns[c].target.headers)])
       /\ UNCHANGED <<engine, reloads, spawned, files, hashes, certs>>

-----------------------------------------------------------------------------
(* The CONNECT tunnel.                                                     *)

\* query_l7_config asks the engine again, after the lookup and the dial.
QueryL7Config(c) ==
    /\ At(c, "l7query")
    /\ LET l7 == L7Config(engine, Input(c))
       IN Step(c, [l7 |-> l7, asked |-> engine, pc |-> IF l7 = NoL7 THEN "raw" ELSE "clone"])
    /\ UNCHANGED <<engine, reloads, spawned, files, hashes, certs>>

\* clone_engine_for_tunnel: the tunnel keeps this policy until it closes.
\* TLS termination without a CA falls back to a raw copy.
CloneEngine(c) ==
    /\ At(c, "clone")
    /\ Step(c, [tunnel |-> engine,
                pc |-> CASE conns[c].l7.tls # "terminate" -> "peek"
                         [] conns[c].l7.tls = "terminate" /\ HasTls -> "tls"
                         [] OTHER -> "raw"])
    /\ UNCHANGED <<engine, reloads, spawned, files, hashes, certs>>

\* CertCache::get_or_generate: a full cache is emptied before the insert.
CertInsert(host) ==
    IF host \in certs THEN certs
    ELSE (IF Cardinality(certs) >= MaxCerts THEN {} ELSE certs) \cup {host}

\* relay_with_inspection: sql is passed through.
InspectOrCopy(l7) == IF l7.protocol = "sql" THEN "raw" ELSE "inspect"

TlsHandshake(c) ==
    /\ At(c, "tls")
    /\ certs' = CertInsert(conns[c].target.host)
    /\ Close(c, "200") \/ Step(c, [pc |-> InspectOrCopy(conns[c].l7)])
    /\ UNCHANGED <<engine, reloads, spawned, files, hashes>>

\* The plaintext peek: no bytes, or bytes that are not HTTP, close the tunnel.
Peek(c) ==
    /\ At(c, "peek")
    /\ \/ conns[c].l7.protocol = "rest" /\ Close(c, "200")
       \/ Step(c, [pc |-> InspectOrCopy(conns[c].l7)])
    /\ UNCHANGED <<engine, reloads, spawned, files, hashes, certs>>

\* parse_body_length: the first header that announces a body, in the order
\* they were sent; a transfer encoding other than chunked and a length that
\* is no number are passed over.
BodyLength(framing) ==
    LET known == SelectSeq(framing, LAMBDA h : h \in {"chunked", "length"})
    IN IF known = <<>> THEN "none" ELSE known[1]

\* parse_http_request reads byte by byte up to the empty line.  The relay
\* ends when the client closes, when the header passes MAX_HEADER_BYTES and
\* when the request line has no method or no path.
ParseHttpRequest(c) ==
    /\ At(c, "inspect")
    /\ \/ Close(c, "200")
       \/ \E m \in Methods, p \in Paths, f \in Framings :
             Step(c, [request |-> [method |-> m, path |-> p, framing |-> f], pc |-> "evaluate"])
    /\ UNCHANGED <<engine, reloads, spawned, files, hashes, certs>>

\* relay_rest evaluates on the tunnel's engine; a request that is neither
\* allowed nor only audited gets the 403 of send_deny_response, which
\* announces the close.  An allowed one leaves with its secrets in place.
EvaluateL7Request(c) ==
    /\ At(c, "evaluate")
    /\ IF \/ RequestAllowed(conns[c].tunnel, Input(c), conns[c].request)
          \/ conns[c].l7.enforcement = "audit"
       THEN Step(c, [sent |-> RewriteHeaders(conns[c].target.headers),
                     pc |-> IF BodyLength(conns[c].request.framing) = "none"
                            THEN "response" ELSE "forward"])
       ELSE Close(c, "l7-403")
    /\ UNCHANGED <<engine, reloads, spawned, files, hashes, certs>>

\* relay_fixed and relay_chunked copy until the end their framing announces;
\* a sender that closes before it, a chunk size that is no number and a
\* chunk without its CRLF are errors, which end the tunnel.
\* relay_fixed reads no further than the length; relay_chunked writes each
\* buffer it has read before it looks for the end in it, so what the sender
\* sent behind the last chunk leaves with the body and is not read again.
RelayBody(c, next, framing) ==
    \/ Close(c, "200")
    \/ Step(c, [pc |-> next])
    \/ BodyLength(framing) = "chunked" /\ Step(c, [pc |-> next, beyond |-> TRUE])

ForwardBody(c) ==
    /\ At(c, "forward") /\ RelayBody(c, "response", conns[c].request.framing)
    /\ UNCHANGED <<engine, reloads, spawned, files, hashes, certs>>

\* is_bodiless_response.
Bodiless(method, status) == method = "HEAD" \/ status \in {100, 204, 304}

\* relay_rest goes round its loop.
NextRequest(c) == Step(c, [pc |-> "inspect", request |-> NoRequest, beyond |-> FALSE])

\* relay_response up to the body: an upstream that closes ends the tunnel;
\* a head without a body, or without framing on a connection that stays
\* open, is passed on alone; after a framed body the tunnel goes on whatever
\* the Connection header says.
RelayResponse(c) ==
    /\ At(c, "response")
    /\ \/ Close(c, "200")
       \/ \E status \in Statuses, f \in Framings, close \in BOOLEAN :
             IF Bodiless(conns[c].request.method, status)
             THEN IF close THEN Close(c, "200") ELSE NextRequest(c)
             ELSE IF BodyLength(f) # "none" THEN Step(c, [pc |-> "body"])
             ELSE IF close THEN Step(c, [pc |-> "until_eof"])
             ELSE NextRequest(c)
    /\ UNCHANGED <<engine, reloads, spawned, files, hashes, certs>>

RelayResponseBody(c) ==
    /\ At(c, "body")
    /\ Close(c, "200") \/ NextRequest(c)
    /\ UNCHANGED <<engine, reloads, spawned, files, hashes, certs>>

\* relay_until_eof ends at the upstream's end or when it is idle for
\* RELAY_EOF_IDLE_TIMEOUT; either way the tunnel is closed.
RelayUntilEof(c) ==
    /\ At(c, "until_eof") /\ Close(c, "200")
    /\ UNCHANGED <<engine, reloads, spawned, files, hashes, certs>>

\* copy_bidirectional until either side closes; the inference interception,
\* which answers 200 and never asks the engine, likewise ends by itself.
EndCopy(c) ==
    /\ conns[c].pc \in {"raw", "inference"}
    /\ Close(c, "200")
    /\ UNCHANGED <<engine, reloads, spawned, files, hashes, certs>>

-----------------------------------------------------------------------------
ConnStep(c) ==
    \/ ReadHeader(c) \/ IdentifyPeer(c) \/ VerifyStat(c) \/ HashFile(c) \/ Decide(c)
    \/ ForwardL7Check(c) \/ QueryAllowedIps(c) \/ Resolve(c) \/ Dial(c)
    \/ QueryL7Config(c) \/ CloneEngine(c) \/ TlsHandshake(c) \/ Peek(c)
    \/ ParseHttpRequest(c) \/ EvaluateL7Request(c) \/ ForwardBody(c) \/ RelayResponse(c)
    \/ RelayResponseBody(c) \/ RelayUntilEof(c) \/ EndCopy(c)

Next ==
    \/ \E c \in Conns : ConnStep(c)
    \/ Reload \/ SpawnEntrypoint
    \/ \E b \in Writable : ReplaceBinary(b)

Spec == Init /\ [][Next]_vars

-----------------------------------------------------------------------------
\* The proxy never holds a connection to an address it has not checked: a
\* loopback or link-local address never, a private one only when the
\* allowed_ips in force for this connection name it, whatever a lookup
\* answers beside it and whatever is reloaded meanwhile.  (is_internal_ip
\* counts the unspecified address among the public ones.)
ConnectsOnlyCheckedAddress ==
    \A c \in Conns :
        /\ conns[c].addr \notin {"loopback", "linklocal"}
        /\ conns[c].addr = "private" => "private" \in conns[c].ips

\* Trust on first use: once a binary has a golden hash no step replaces it,
\* even when two tasks hash the same binary while it is being rewritten.
GoldenHashKept ==
    [][\A b \in Binaries : hashes[b] # NoEntry => hashes'[b].hash = hashes[b].hash]_vars

\* The traffic of a REST endpoint is parsed request by request: what is
\* copied unread (with a CA at hand) was let through unread by the policy
\* that decided on the connection or by the one it asked how to relay it.  TLC
\* refutes this: a reload that withdraws the endpoint leaves no rules to ask for.
RestInspected ==
    \A c \in Conns : conns[c].pc = "raw" /\ HasTls =>
        \E p \in {conns[c].granted, conns[c].asked} :
            NetworkAllowed(p, Input(c)) /\ L7Config(p, Input(c)).protocol # "rest"

\* The relay of a request stops at the end of its body: no byte that belongs
\* to a later request of the client goes upstream before that is evaluated.  TLC
\* refutes this of chunked bodies.
StopsAtBodyEnd == \A c \in Conns : ~conns[c].beyond
=============================================================================
