-------------------------------- MODULE Cli --------------------------------
(***************************************************************************)
(* The command line: commands of several terminals that share one          *)
(* configuration directory, one Docker host, one table of processes and    *)
(* the gateways.  A command is a sequence of steps, one for each request,  *)
(* child process or file it waits for; others run in between, and Ctrl-C   *)
(* may end it there.                                                       *)
(***************************************************************************)
EXTENDS Bootstrap, FiniteSetsExt

CONSTANTS Setups,      \* [scripts, disk, docker, cluster, pidfiles, kills]
          BootName,    \* the gateway that is started when there is none
          Cloud,       \* gateways behind an edge proxy, run by someone else
          Names,       \* sandbox names
          PortSuffixes,    \* <<p, q>>: the digits of port q end with those of p
          Pids, MaxSandboxes

ASSUME CliAssumption ==
    /\ BootName \in Gateways /\ Cloud \subseteq Gateways /\ None \notin Gateways
    /\ Pids \subseteq Nat /\ MaxSandboxes \in Nat /\ MaxBundles \in Nat

VARIABLES procs,     \* the processes of the machine that matter here, by pid
          pidfiles,  \* PID files of background forwards, by sandbox name and port
          signalled, \* the processes that a stop sent a signal to, and for which port
          created,   \* sandboxes created so far, on any gateway
          alone,     \* per user: no other command worked on its gateway meanwhile
          setup

hostVars == <<procs, pidfiles, signalled>>
vars == <<docker, images, cluster, disk, cmd, bundles, procs, pidfiles, signalled, created, alone, setup>>

Data(g) == cluster[g].data

-----------------------------------------------------------------------------
(* Which gateway and which sandbox a command is about.                      *)

Registered(g) == g # None /\ g \in Gateways /\ disk.metadata[g] # None

\* The active gateway first, then any registered one with that endpoint.
find_gateway_by_endpoint(endpoint) ==
    IF Registered(disk.active) /\ disk.metadata[disk.active].port = endpoint THEN disk.active
    ELSE LET found == {g \in Gateways : Registered(g) /\ disk.metadata[g].port = endpoint}
         IN IF found = {} THEN None ELSE CHOOSE g \in found : TRUE

resolve_gateway_name(a) == IF a.g # None THEN a.g ELSE disk.active

\* None: an unknown name, or no name at all, is an error to every caller.
resolve_gateway(a) ==
    IF a.endpoint # None
    THEN IF Registered(a.g) THEN a.g ELSE find_gateway_by_endpoint(a.endpoint)
    ELSE LET g == resolve_gateway_name(a) IN IF Registered(g) THEN g ELSE None

resolve_sandbox_name(a, g) == IF a.name # None THEN a.name ELSE disk.last[g]

\* An edge gateway needs its token, and is reached through a local tunnel that
\* presents it; the others need the files of their bundle.
apply_edge_auth(g) == disk.metadata[g] # None /\ disk.metadata[g].auth = "edge" /\ disk.token[g]
start_tunnel_proxy(g) == apply_edge_auth(g)
open_ws(g) == disk.token[g]

grpc_client(g) == IF g \in Cloud THEN start_tunnel_proxy(g) /\ open_ws(g) ELSE Running(g) /\ Trusted(g)

resolve_gateway_control_target(a, g) ==
    IF a.remote \/ ~Registered(g) \/ ~disk.metadata[g].remote THEN "docker"
    ELSE IF disk.metadata[g].host THEN "docker" ELSE "external"

Sandbox(g, n) == Box(Data(g), n)
Lives(g, sid) == Live(Data(g), sid)

-----------------------------------------------------------------------------
(* From the arguments of a command to its first step.                       *)

NoArgs == [op |-> "none", g |-> None, endpoint |-> None, port |-> 0, image |-> "registry",
           remote |-> FALSE, edge |-> FALSE, recreate |-> FALSE, push |-> FALSE, tty |-> FALSE,
           bootstrap |-> TRUE, name |-> None, keep |-> TRUE, forward |-> 0, upload |-> FALSE,
           editor |-> FALSE, command |-> FALSE, dockerfile |-> FALSE, ptype |-> None,
           auto |-> FALSE, all |-> FALSE, yes |-> TRUE, wait |-> FALSE, background |-> TRUE,
           global |-> FALSE, key |-> "key", value |-> 0, unset |-> FALSE, version |-> 0,
           tail |-> FALSE, chunk |-> 0, flagged |-> FALSE, provider |-> None, names |-> <<>>,
           from_existing |-> FALSE, credential |-> FALSE, model |-> 0, system |-> FALSE,
           verify |-> TRUE]

Fresh(todo) ==
    [todo |-> todo, a |-> NoArgs, pc |-> "idle", g |-> None, then |-> "ok", after |-> "none",
     recreate |-> FALSE, existed |-> FALSE, certs |-> None, image |-> None, name |-> None,
     sid |-> 0, names |-> <<>>, phase |-> "none", ran |-> FALSE, result |-> "ok",
     provs |-> {}, tries |-> 0, version |-> 0, route |-> None, port |-> 0, ret |-> "ok",
     session |-> 0, hosts |-> {}, plan |-> <<>>, found |-> None, record |-> None]

Over(u) == cmd[u].pc \in {"idle", "ok", "err"}

\* A sandbox outlives its first session unless nothing asks for that.
sandbox_should_persist(a) == a.keep \/ a.editor \/ a.forward # 0

DefaultName(a) == LET g == resolve_gateway_name(a) IN IF g = None THEN BootName ELSE g

\* What a set-up may be: for every gateway a container only with its volume, a
\* cluster only in a volume, sandboxes with ids that no new one gets, and
\* commands that name the gateway they start or add.
Scripted == UNION {ToSet(s.scripts[u]) : s \in Setups, u \in Users}
DockerFields == {"container", "image", "port", "volume", "network"}
DiskFields == {"metadata", "active", "last", "token", "mtls", "mtls_tmp", "mtls_bak", "hosts"}

ASSUME SetupAssumption ==
    /\ \A s \in Setups :
         /\ DOMAIN s.docker = Gateways /\ DOMAIN s.cluster = Gateways /\ DOMAIN s.disk = DiskFields
         /\ DOMAIN s.disk.mtls = Gateways /\ DOMAIN s.disk.mtls_tmp = Gateways
         /\ DOMAIN s.disk.metadata = Gateways
         /\ \A g \in Gateways :
              /\ DOMAIN s.docker[g] = DockerFields /\ DOMAIN s.cluster[g] = DOMAIN NoCluster
              /\ DOMAIN s.cluster[g].data = DOMAIN NoData
              /\ \A b \in s.cluster[g].data.sandboxes :
                    DOMAIN b = {"name", "sid", "phase"} /\ b.sid \notin 1..MaxSandboxes
              /\ s.docker[g].container # "none" => s.docker[g].volume
              /\ ~s.docker[g].volume => /\ s.cluster[g].server = 0 /\ s.cluster[g].ca = 0
                                        /\ s.cluster[g].client = 0 /\ s.cluster[g].serving = None
         /\ \A u \in Users : s.scripts[u] \in Seq(Scripted)
    /\ \A a \in Scripted :
         /\ DOMAIN a = DOMAIN NoArgs
         /\ a.op \in {"start", "add"} => a.g \in Gateways
         /\ a.all => a.op = "delete"
         /\ None # [remote |-> a.remote, host |-> a.remote, auth |-> "mtls", port |-> a.port]

\* Only a registered gateway can become the active one.
gateway_use(g) == IF Registered(g) THEN "activate" ELSE "err"

GatewayCommand(r, a) ==
    LET g == DefaultName(a) IN
    CASE a.op = "start" -> [r EXCEPT !.g = a.g, !.pc = "check", !.then = "activate", !.recreate = a.recreate]
      [] a.op = "stop" -> [r EXCEPT !.g = g, !.pc =
              IF resolve_gateway_control_target(a, g) = "external" THEN "err" ELSE "stop"]
      [] a.op = "destroy" ->
              IF resolve_gateway_control_target(a, g) = "external"
              THEN [r EXCEPT !.g = g, !.pc = "cleanup_metadata"]
              ELSE [r EXCEPT !.g = g, !.pc = "d_stop", !.after = "command"]
      [] a.op = "add" -> [r EXCEPT !.g = a.g, !.pc =
              IF Registered(a.g) THEN "err" ELSE IF a.edge THEN "add_metadata" ELSE "extract"]
      [] a.op = "login" -> LET l == resolve_gateway_name(a) IN
              [r EXCEPT !.g = l, !.pc =
                  IF Registered(l) /\ disk.metadata[l].auth = "edge" THEN "auth" ELSE "err"]
      [] a.op = "select" -> [r EXCEPT !.g = a.g, !.pc =
              IF a.g = None THEN "select" ELSE gateway_use(a.g)]
      [] a.op = "status" -> [r EXCEPT !.g = resolve_gateway(a), !.pc =
              IF resolve_gateway(a) = None THEN "ok" ELSE "inspect"]
      [] OTHER -> [r EXCEPT !.g = g, !.pc = "inspect"]

\* Without a gateway one is started, whatever the reason it was not found;
\* an endpoint always counts as a gateway.
CreateCommand(r, a) ==
    LET g == resolve_gateway(a) IN
    IF g # None THEN [r EXCEPT !.g = g, !.pc = IF a.remote THEN "ok" ELSE "c_port"]
    ELSE IF a.endpoint # None \/ ~a.bootstrap THEN [r EXCEPT !.pc = "err"]
    ELSE [r EXCEPT !.g = BootName, !.pc = "existing", !.then = "boot_activate", !.recreate = TRUE]

\* The other commands need a registered gateway, and some a sandbox.
SandboxOps == {"connect", "forward", "sandbox_get", "logs", "rule_get", "rule_approve", "rule_reject",
               "rule_approve_all", "rule_clear", "rule_history"}
ScopedOps == {"policy_set", "policy_get", "policy_list", "settings_get", "settings_set", "settings_delete"}
ConfirmedOps == {"policy_set", "policy_delete", "settings_set", "settings_delete"}
FirstStep == [delete |-> "del_connect", connect |-> "k_session", upload |-> "u_session",
              download |-> "u_session", forward |-> "f_port"]

ClientCommand(r, a) ==
    LET g == resolve_gateway(a)
        name == IF g = None THEN None ELSE resolve_sandbox_name(a, g)
        named == a.op \in SandboxOps \/ (a.op \in ScopedOps /\ ~a.global)
        plan == Requests(a)
        first == IF a.op \in DOMAIN FirstStep THEN FirstStep[a.op]
                 ELSE IF a.op = "policy_set" /\ ~a.global THEN "p_read"
                 ELSE IF plan = <<"refuse">> THEN "err"
                 ELSE IF a.op \in ConfirmedOps /\ a.global THEN "confirm"
                 ELSE "request"
    IN [r EXCEPT !.g = g, !.name = name, !.a = [a EXCEPT !.key = IF a.op \in {"policy_set", "policy_delete"} THEN "policy" ELSE @,
                                                  !.unset = a.op \in {"policy_delete", "settings_delete"}],
                 !.names = IF a.name # None THEN <<a.name>> ELSE a.names,
                 !.plan = IF first \in {"confirm", "request"} THEN plan ELSE <<>>,
                 !.pc = IF g = None \/ (name = None /\ named) THEN "err" ELSE first]

\* forward stop needs no gateway; the port finds the sandbox.
StopCommand(r, a) ==
    LET named == {f \in pidfiles : f.port = a.forward}
        name == IF a.name # None THEN a.name
                ELSE IF named = {} THEN None ELSE (CHOOSE f \in named : TRUE).name
    IN [r EXCEPT !.name = name, !.port = a.forward, !.pc = IF name = None THEN "ok" ELSE "s_read"]

GatewayOps == {"start", "stop", "destroy", "add", "login", "select", "status", "info",
               "doctor_logs", "doctor_exec", "doctor_check"}

main(u) ==
    /\ Over(u) /\ cmd[u].todo # <<>>
    /\ LET a == Head(cmd[u].todo)
           r == [Fresh(Tail(cmd[u].todo)) EXCEPT !.a = a]
       IN cmd' = [cmd EXCEPT ![u] =
              CASE a.op \in GatewayOps -> GatewayCommand(r, a)
                [] a.op = "create" -> CreateCommand(r, a)
                [] a.op = "stop_forward" -> StopCommand(r, a)
                [] OTHER -> ClientCommand(r, a)]
    /\ UNCHANGED <<bootVars, hostVars, created>>

\* Ctrl-C, or a terminal that is closed.
Interrupt(u) ==
    /\ setup.kills /\ ~Over(u)
    /\ Goto(u, "idle")
    /\ UNCHANGED <<bootVars, hostVars, created>>

-----------------------------------------------------------------------------
(* Gateways.                                                                *)

gateway_admin_deploy(u) ==
    /\ At(u, "check")
    /\ IF ~Exists(Gw(u)) \/ cmd[u].recreate THEN Goto(u, "existing")
       ELSE \E yes \in {FALSE, Arg(u).tty} :
              IF yes THEN Goes(u, [cmd[u] EXCEPT !.recreate = TRUE], "existing") ELSE Goto(u, "ok")
    /\ UNCHANGED <<bootVars, hostVars, created>>

save_active_gateway(u) ==
    /\ cmd[u].pc \in {"activate", "boot_activate"}
    /\ disk' = [disk EXCEPT !.active = Gw(u)]
    /\ Goto(u, IF At(u, "activate") THEN "ok" ELSE "boot_wait")
    /\ UNCHANGED <<docker, images, cluster, bundles, hostVars, created>>

\* Without a name: a list, or a choice that may be cancelled.
gateway_select_with(u) ==
    LET known == {g \in Gateways : Registered(g)} IN
    /\ At(u, "select")
    /\ IF known = {} \/ ~Arg(u).tty THEN Goto(u, "ok")
       ELSE \E choice \in known \cup {None} :
              Goes(u, [cmd[u] EXCEPT !.g = choice], IF choice = None THEN "ok" ELSE "activate")
    /\ UNCHANGED <<bootVars, hostVars, created>>

\* Commands that only look: the server by gRPC, then by HTTP, which an edge
\* proxy answers on its own; the registration; the container; Docker.
http_health_check(g) == g \in Cloud \/ grpc_client(g)
gateway_status(g) == IF grpc_client(g) \/ http_health_check(g) THEN {"ok"} ELSE {"err"}
gateway_admin_info(g) == IF Registered(g) THEN {"ok"} ELSE {"err"}
doctor_logs(g) == IF docker[g].container # "none" THEN {"ok"} ELSE {"err"}
doctor_exec(g) == IF Running(g) THEN {"ok", "err"} ELSE {"err"}
doctor_check == {"ok", "err"}
Inspect(u) ==
    /\ At(u, "inspect")
    /\ \E result \in CASE Arg(u).op = "status" -> gateway_status(Gw(u))
                        [] Arg(u).op = "info" -> gateway_admin_info(Gw(u))
                        [] Arg(u).op = "doctor_logs" -> doctor_logs(Gw(u))
                        [] Arg(u).op = "doctor_exec" -> doctor_exec(Gw(u))
                        [] OTHER -> doctor_check : Goto(u, result)
    /\ UNCHANGED <<bootVars, hostVars, created>>

\* Thirty seconds of retries with the certificates just stored.
wait_for_grpc_ready(u) ==
    /\ At(u, "boot_wait")
    /\ Goto(u, IF grpc_client(Gw(u)) THEN "c_port" ELSE "err")
    /\ UNCHANGED <<bootVars, hostVars, created>>

\* Token and metadata go; the active gateway only if it is this one.
cleanup_gateway_metadata(u) ==
    LET g == Gw(u) IN
    /\ At(u, "cleanup_metadata")
    /\ disk' = [disk EXCEPT !.token[g] = FALSE, !.metadata[g] = None,
                            !.active = IF @ = g THEN None ELSE @]
    /\ Goto(u, "ok")
    /\ UNCHANGED <<docker, images, cluster, bundles, hostVars, created>>

\* Exactly one running gateway container must listen on the port; its
\* certificates are stored before the gateway is registered.
extract_and_store_pki(u) ==
    LET found == {g \in Gateways \ Cloud : Running(g) /\ docker[g].port = Arg(u).port} IN
    /\ At(u, "extract")
    /\ IF \E g \in found : found = {g} /\ Complete(g)
       THEN \E g \in found : Goes(u, [cmd[u] EXCEPT !.certs = Certs(g)], "pki_write")
       ELSE Goto(u, "err")
    /\ UNCHANGED <<bootVars, hostVars, created>>

\* Registered and active, whether or not the login that follows succeeds.
gateway_add(u) ==
    LET a == Arg(u) IN
    /\ At(u, "add_metadata")
    /\ disk' = [disk EXCEPT !.metadata[Gw(u)] = [remote |-> a.remote \/ a.edge, host |-> a.remote,
                                                 auth |-> IF a.edge THEN "edge" ELSE "mtls",
                                                 port |-> a.port],
                            !.active = Gw(u)]
    /\ Goto(u, IF a.edge THEN "auth" ELSE "ok")
    /\ UNCHANGED <<docker, images, cluster, bundles, hostVars, created>>

\* The browser posts the token to a local port.  A request with another origin,
\* an unreadable body or another code takes the only sender away, so that the
\* flow fails; preflights and other paths do nothing.
handle_callback_request(request) ==
    CASE request = "good" -> "token" [] request \in {"origin", "body", "code"} -> "dropped"

\* The first request that takes the sender decides, or two minutes without one.
browser_auth_flow(u) ==
    /\ At(u, "auth")
    /\ \E outcome \in {handle_callback_request(r) : r \in {"good", "origin", "body", "code"}} \cup {"timeout"} :
         /\ disk' = [disk EXCEPT !.token[Gw(u)] = disk.token[Gw(u)] \/ outcome = "token"]
         /\ Goto(u, IF outcome = "token" \/ Arg(u).op = "add" THEN "ok" ELSE "err")
    /\ UNCHANGED <<docker, images, cluster, bundles, hostVars, created>>

-----------------------------------------------------------------------------
(* Processes and port forwards.                                             *)

Bound(port) == \E pid \in Pids : procs[pid] # None /\ procs[pid].port = port
check_port_available(port) == ~Bound(port)

\* Both searches look for "port:127.0.0.1:port" in a command line, which the
\* one of a port with more digits contains as well.
MatchesForward(proc, sid, port) ==
    proc.kind = "ssh" /\ proc.sid = sid /\ (proc.port = port \/ <<port, proc.port>> \in PortSuffixes)

\* Older PID files have no sandbox id, and then any sandbox will do.
pid_matches_forward(pid, port, sid) ==
    procs[pid] # None /\ MatchesForward(procs[pid], IF sid = None THEN procs[pid].sid ELSE sid, port)

\* pgrep lists by pid, the last one is taken.
find_ssh_forward_pid(sid, port) ==
    LET found == {pid \in Pids : procs[pid] # None /\ MatchesForward(procs[pid], sid, port)}
    IN IF found = {} THEN None ELSE Max(found)

SameFile(f, name, port) == f.name = name /\ f.port = port
PidFile(name, port) == {f \in pidfiles : SameFile(f, name, port)}

\* Ask for a session; it is for the sandbox that has the name now.
SessionGranted(u) == grpc_client(Gw(u)) /\ Sandbox(Gw(u), cmd[u].name) # None
ssh_session_config(u, step) ==
    /\ IF SessionGranted(u)
       THEN Goes(u, [cmd[u] EXCEPT !.session = Sandbox(Gw(u), cmd[u].name).sid], step)
       ELSE Goto(u, "err")
    /\ UNCHANGED <<bootVars, hostVars, created>>

\* The proxy of an ssh process reaches the sandbox of its session.
connect_gateway(g) == grpc_client(g)
read_connect_status(g, sid) == IF Lives(g, sid) THEN 200 ELSE 404
sandbox_ssh_proxy(g, sid) == connect_gateway(g) /\ read_connect_status(g, sid) = 200

ForwardPort(u) ==
    /\ At(u, "f_port")
    /\ IF check_port_available(Arg(u).forward) THEN Goto(u, "f_session") ELSE Goto(u, "err")
    /\ UNCHANGED <<bootVars, hostVars, created>>

\* ssh -f returns once the port is bound and the proxy connected.
sandbox_forward(u) ==
    LET a == Arg(u) IN
    /\ At(u, "f_ssh")
    /\ \/ /\ ~Bound(a.forward) /\ sandbox_ssh_proxy(Gw(u), cmd[u].session)
          /\ \E pid \in Pids :
               /\ procs[pid] = None
               /\ procs' = [procs EXCEPT ![pid] =
                                [kind |-> "ssh", sid |-> cmd[u].session, port |-> a.forward]]
          /\ Goto(u, IF a.background THEN "f_pid" ELSE "f_wait")
       \/ /\ Goto(u, "err")
          /\ UNCHANGED procs
    /\ UNCHANGED <<bootVars, pidfiles, signalled, created>>

\* The PID file is named after the sandbox, on whichever gateway it is.
write_forward_pid(u) ==
    LET port == Arg(u).forward
        pid == find_ssh_forward_pid(cmd[u].session, port)
    IN /\ At(u, "f_pid")
       /\ pidfiles' = IF pid = None THEN pidfiles
                      ELSE (pidfiles \ PidFile(cmd[u].name, port))
                           \cup {[name |-> cmd[u].name, port |-> port, pid |-> pid, sid |-> cmd[u].session]}
       /\ Goto(u, IF Arg(u).op = "create" THEN "c_open" ELSE "ok")
       /\ UNCHANGED <<bootVars, procs, signalled, created>>

\* A forward in the foreground lasts until its ssh ends.
ForegroundForward(u) ==
    /\ At(u, "f_wait")
    /\ ~Bound(Arg(u).forward)
    /\ Goto(u, "err")
    /\ UNCHANGED <<bootVars, hostVars, created>>

\* The pid of the file may be dead, or belong to another process by now.  Asking
\* whether it is alive (kill -0), what it is (ps), and signalling it (kill) are
\* three child processes.
stop_forward(u) ==
    /\ At(u, "s_read")
    /\ LET files == PidFile(cmd[u].name, cmd[u].port) IN
       IF files = {} THEN Goto(u, cmd[u].ret)
       ELSE \E f \in files : Goes(u, [cmd[u] EXCEPT !.record = f],
                                 IF procs[f.pid] = None THEN "s_remove" ELSE "s_match")
    /\ UNCHANGED <<bootVars, hostVars, created>>

StopMatches(u) ==
    LET f == cmd[u].record IN
    /\ At(u, "s_match")
    /\ IF pid_matches_forward(f.pid, cmd[u].port, f.sid) THEN Goto(u, "s_kill") /\ UNCHANGED pidfiles
       ELSE pidfiles' = pidfiles \ PidFile(cmd[u].name, cmd[u].port) /\ Goto(u, cmd[u].ret)
    /\ UNCHANGED <<bootVars, procs, signalled, created>>

\* Whichever process has the pid now; the file goes a moment later.
StopKills(u) ==
    LET pid == cmd[u].record.pid IN
    /\ At(u, "s_kill")
    /\ Goto(u, "s_remove")
    /\ signalled' = IF procs[pid] = None THEN signalled
                    ELSE signalled \cup {[kind |-> procs[pid].kind, port |-> procs[pid].port,
                                          asked |-> cmd[u].port]}
    /\ procs' = [procs EXCEPT ![pid] = None]
    /\ UNCHANGED <<bootVars, pidfiles, created>>

RemovePidFile(u) ==
    /\ At(u, "s_remove")
    /\ pidfiles' = pidfiles \ PidFile(cmd[u].name, cmd[u].port)
    /\ Goto(u, cmd[u].ret)
    /\ UNCHANGED <<bootVars, procs, signalled, created>>

\* An ssh process dies, its pid goes to another program, which ends too.
ProcessChange ==
    \E pid \in Pids :
      /\ \/ /\ procs[pid] # None
            /\ procs' = [procs EXCEPT ![pid] = None]
         \/ /\ procs[pid] = None /\ \E f \in pidfiles : f.pid = pid
            /\ procs' = [procs EXCEPT ![pid] = [kind |-> "other", sid |-> 0, port |-> 0]]
      /\ UNCHANGED <<bootVars, cmd, pidfiles, signalled, created>>

-----------------------------------------------------------------------------
(* Sandboxes: creation, its watch, the first session and its end.           *)

Store(g, d) == cluster' = [cluster EXCEPT ![g].data = d]
SetData(g, field, value) == cluster' = [cluster EXCEPT ![g].data[field] = value]

\* The port is looked at before there is a sandbox that could be left over.
CreateStart(u) ==
    /\ At(u, "c_port")
    /\ Goto(u, IF \/ Arg(u).editor /\ Arg(u).command
                  \/ Arg(u).forward # 0 /\ ~check_port_available(Arg(u).forward)
                  \/ ~grpc_client(Gw(u))
               THEN "err" ELSE "c_source")
    /\ UNCHANGED <<bootVars, hostVars, created>>

\* A Dockerfile is built locally and pushed into the container of the gateway.
build_from_dockerfile(u) ==
    /\ At(u, "c_source")
    /\ \E built \in BOOLEAN :
         Goto(u, IF Arg(u).dockerfile /\ ~(built /\ Gw(u) \notin Cloud /\ Running(Gw(u)))
                 THEN "err" ELSE "c_providers")
    /\ UNCHANGED <<bootVars, hostVars, created>>

\* The type asked for: a provider of that type, or one made from local
\* credentials if the user agrees and there are any.
OfType(g, t) == {p \in Data(g).providers : p.type = t}
ensure_required_providers(u) ==
    LET g == Gw(u)
        t == Arg(u).ptype
    IN /\ At(u, "c_providers")
       /\ grpc_client(g)
       /\ IF t = None THEN Goto(u, "c_create")
          ELSE IF OfType(g, t) # {}
          THEN \E p \in OfType(g, t) : Goes(u, [cmd[u] EXCEPT !.provs = {p.name}], "c_create")
          ELSE IF Arg(u).auto THEN \E has \in BOOLEAN : Goto(u, IF has THEN "c_provider" ELSE "c_create")
          ELSE Goto(u, IF Arg(u).tty THEN "c_create" ELSE "err")
       /\ UNCHANGED <<bootVars, hostVars, created>>

\* type, type-1, ... type-4: the next name whenever one is taken.
auto_create_provider(u) ==
    LET g == Gw(u)
        name == <<Arg(u).ptype, cmd[u].tries>>
    IN /\ At(u, "c_provider")
       /\ grpc_client(g)
       /\ IF \E p \in Data(g).providers : p.name = name
          THEN /\ IF cmd[u].tries = 4 THEN Goto(u, "err")
                  ELSE Goes(u, [cmd[u] EXCEPT !.tries = @ + 1], "c_provider")
               /\ UNCHANGED cluster
          ELSE /\ SetData(g, "providers", Data(g).providers \cup {[name |-> name, type |-> Arg(u).ptype,
                                                               credentials |-> {Arg(u).ptype}]})
               /\ Goes(u, [cmd[u] EXCEPT !.provs = {name}], "c_create")
       /\ UNCHANGED <<docker, images, disk, bundles, hostVars, created>>

\* The gateway refuses a name in use and providers that are gone.  Only a
\* sandbox that is to stay becomes the last used one.
sandbox_create(u) ==
    LET g == Gw(u)
        a == Arg(u)
    IN /\ At(u, "c_create")
       /\ grpc_client(g)
       /\ created < MaxSandboxes
       /\ \E n \in IF a.name # None THEN {a.name} ELSE {m \in Names : Sandbox(g, m) = None} :
            IF Sandbox(g, n) # None \/ ~(cmd[u].provs \subseteq {p.name : p \in Data(g).providers})
            THEN Goto(u, "err") /\ UNCHANGED <<cluster, disk, created>>
            ELSE /\ SetData(g, "sandboxes", Data(g).sandboxes \cup
                                {[name |-> n, sid |-> created + 1, phase |-> "Provisioning"]})
                 /\ created' = created + 1
                 /\ disk' = IF sandbox_should_persist(a) THEN [disk EXCEPT !.last[g] = n] ELSE disk
                 /\ Goes(u, [cmd[u] EXCEPT !.name = n, !.sid = created + 1,
                                           !.phase = "Provisioning"], "c_watch")
       /\ UNCHANGED <<docker, images, bundles, hostVars>>

\* Events of the stream until Ready, its end, or the timeout.  The phase in the
\* answer to the creation already counts as one that was not Ready, and an Error
\* is only reported when the stream ends.
WatchSandbox(u) ==
    LET s == Sandbox(Gw(u), cmd[u].name)
        now == IF s = None \/ s.sid # cmd[u].sid THEN "gone" ELSE s.phase
    IN /\ At(u, "c_watch")
       /\ \/ now = "Ready" /\ Goes(u, [cmd[u] EXCEPT !.phase = "Ready"], "c_upload")
          \/ now \in {"Provisioning", "Error"} /\ now # cmd[u].phase
                /\ Goes(u, [cmd[u] EXCEPT !.phase = now], "c_watch")
          \/ Goto(u, "err")
       /\ UNCHANGED <<bootVars, hostVars, created>>

\* The upload, then the forward, then the editor or the session.
AfterUpload(u) == IF Arg(u).forward # 0 THEN "f_port" ELSE "c_open"
UploadFirst(u) ==
    /\ At(u, "c_upload")
    /\ IF Arg(u).upload THEN ssh_session_config(u, "u_copy")
       ELSE Goto(u, AfterUpload(u)) /\ UNCHANGED <<bootVars, hostVars, created>>

\* tar over ssh: it fails when the sandbox goes away, or on its own.
sandbox_sync_up(u) ==
    /\ At(u, "u_copy")
    /\ \E copied \in BOOLEAN :
         Goto(u, IF ~(copied /\ sandbox_ssh_proxy(Gw(u), cmd[u].session)) THEN "err"
                 ELSE IF Arg(u).op = "create" THEN AfterUpload(u) ELSE "ok")
    /\ UNCHANGED <<bootVars, hostVars, created>>

\* The other way the archive may end early, which unpacking may not notice; the
\* status of ssh tells.
sandbox_sync_down(u) ==
    /\ At(u, "d_copy")
    /\ \E unpacked, status \in BOOLEAN :
         Goto(u, IF unpacked /\ status /\ sandbox_ssh_proxy(Gw(u), cmd[u].session) THEN "ok" ELSE "err")
    /\ UNCHANGED <<bootVars, hostVars, created>>

\* A session that cannot be set up ends like one that failed.
OpenSession(u) ==
    /\ At(u, "c_open")
    /\ IF Arg(u).editor THEN Goto(u, "e_read")
       ELSE IF SessionGranted(u)
       THEN Goes(u, [cmd[u] EXCEPT !.session = Sandbox(Gw(u), cmd[u].name).sid], "session")
       ELSE Goes(u, [cmd[u] EXCEPT !.ran = TRUE, !.result = "err"], "finalize")
    /\ UNCHANGED <<bootVars, hostVars, created>>

sandbox_exec_with_mode(a) == a.tty /\ sandbox_should_persist(a)

\* A terminal session of a sandbox that stays replaces the process by ssh, and
\* nothing runs after it; otherwise the session ends with some status.
exec_or_wait(u) ==
    LET replaces == IF Arg(u).op = "connect" THEN Arg(u).tty ELSE sandbox_exec_with_mode(Arg(u)) IN
    /\ At(u, "session")
    /\ IF replaces THEN Goto(u, "idle")
       ELSE \E status \in IF sandbox_ssh_proxy(Gw(u), cmd[u].session) THEN {"ok", "err"} ELSE {"err"} :
              Goes(u, [cmd[u] EXCEPT !.ran = TRUE, !.result = status],
                   IF Arg(u).op = "create" THEN "finalize"
                   ELSE IF status = "ok" THEN "k_save" ELSE "err")
    /\ UNCHANGED <<bootVars, hostVars, created>>

SaveLast(u) ==
    /\ At(u, "k_save")
    /\ disk' = [disk EXCEPT !.last[Gw(u)] = cmd[u].name]
    /\ Goto(u, "ok")
    /\ UNCHANGED <<docker, images, cluster, bundles, hostVars, created>>

Mutant_SkipOnError(u) ==
    /\ At(u, "finalize")
    /\ IF sandbox_should_persist(Arg(u)) \/ cmd[u].result = "err" THEN Goto(u, cmd[u].result)
       ELSE Goes(u, [cmd[u] EXCEPT !.names = <<cmd[u].name>>], "del_connect")
    /\ UNCHANGED <<bootVars, hostVars, created>>

\* A sandbox that is not to stay is deleted, however its session ended.
finalize_sandbox_create_session(u) ==
    /\ At(u, "finalize")
    /\ IF sandbox_should_persist(Arg(u)) THEN Goto(u, cmd[u].result)
       ELSE Goes(u, [cmd[u] EXCEPT !.names = <<cmd[u].name>>], "del_connect")
    /\ UNCHANGED <<bootVars, hostVars, created>>

-----------------------------------------------------------------------------
(* Deletion, by name.                                                       *)

\* A deletion that cannot reach the gateway is an error of its own.
DeleteFails(u) == Goes(u, [cmd[u] EXCEPT !.ran = FALSE], "err")

\* With --all the list is read once, in an order that nothing here depends on.
DeleteConnect(u) ==
    /\ At(u, "del_connect")
    /\ IF ~grpc_client(Gw(u)) THEN DeleteFails(u)
       ELSE \E names \in IF Arg(u).all THEN SetToSeqs({s.name : s \in Data(Gw(u)).sandboxes})
                         ELSE {cmd[u].names} :
              Goes(u, [cmd[u] EXCEPT !.names = names], "del_stop")
    /\ UNCHANGED <<bootVars, hostVars, created>>

\* The forwards of the name are stopped first, one file after the other.
stop_forwards_for_sandbox(u) ==
    LET files == {f \in pidfiles : f.name = Head(cmd[u].names)} IN
    /\ At(u, "del_stop")
    /\ IF cmd[u].names = <<>> THEN Goto(u, cmd[u].result)
       ELSE IF files = {} THEN Goto(u, "del_request")
       ELSE \E f \in files :
              Goes(u, [cmd[u] EXCEPT !.name = f.name, !.port = f.port, !.ret = "del_stop"], "s_read")
    /\ UNCHANGED <<bootVars, hostVars, created>>

\* Whichever sandbox has the name now; the first error ends the command, and that
\* no sandbox has the name is one.
sandbox_delete(u) ==
    LET g == Gw(u)
        n == Head(cmd[u].names)
    IN /\ At(u, "del_request")
       /\ IF ~grpc_client(g) THEN DeleteFails(u) /\ UNCHANGED cluster
          ELSE IF \A s \in Data(g).sandboxes : s.name # n THEN Goto(u, "err") /\ UNCHANGED cluster
          ELSE /\ SetData(g, "sandboxes", {s \in Data(g).sandboxes : s.name # n})
               /\ Goes(u, [cmd[u] EXCEPT !.names = Tail(@)], "del_stop")
       /\ UNCHANGED <<docker, images, disk, bundles, hostVars, created>>

-----------------------------------------------------------------------------
(* Sessions of an existing sandbox, and requests about it.                  *)

SessionOf(u) ==
    \/ At(u, "k_session") /\ IF Arg(u).editor
                             THEN Goto(u, "e_read") /\ UNCHANGED <<bootVars, hostVars, created>>
                             ELSE ssh_session_config(u, "session")
    \/ At(u, "u_session") /\ ssh_session_config(u, IF Arg(u).op = "upload" THEN "u_copy" ELSE "d_copy")
    \/ At(u, "f_session") /\ ssh_session_config(u, "f_ssh")

\* The managed SSH configuration is read, changed and written back.
install_ssh_config(u) ==
    /\ cmd[u].pc \in {"e_read", "e_write"}
    /\ IF At(u, "e_read")
       THEN /\ IF grpc_client(Gw(u)) /\ Sandbox(Gw(u), cmd[u].name) # None
               THEN Goes(u, [cmd[u] EXCEPT !.hosts = disk.hosts], "e_write") ELSE Goto(u, "err")
            /\ UNCHANGED disk
       ELSE /\ disk' = [disk EXCEPT !.hosts = cmd[u].hosts \cup {cmd[u].name}]
            /\ Goto(u, IF Arg(u).op = "create" THEN "ok" ELSE "k_save")
    /\ UNCHANGED <<docker, images, cluster, bundles, hostVars, created>>

\* The version read first only serves to tell a change from a repetition; a
\* read that fails counts as version 0.
sandbox_policy_set(u) ==
    LET g == Gw(u)
        box == Sandbox(g, cmd[u].name)
        reply == update_config(Data(g), cmd[u])
    IN /\ cmd[u].pc \in {"p_read", "p_update"}
       /\ grpc_client(g)
       /\ IF At(u, "p_read")
          THEN /\ Goes(u, [cmd[u] EXCEPT !.version = IF box = None THEN 0 ELSE Len(Revisions(Data(g), box.sid))],
                       "p_update")
               /\ UNCHANGED cluster
          ELSE /\ Store(g, reply.data)
               /\ Goes(u, reply.cmd, IF ~reply.ok THEN "err"
                                     ELSE IF reply.cmd.version = cmd[u].version \/ ~Arg(u).wait THEN "ok"
                                     ELSE "p_poll")
       /\ UNCHANGED <<docker, images, disk, bundles, hostVars, created>>

\* Asked by name again and again, until the deadline.
PolicyPoll(u) ==
    LET box == Sandbox(Gw(u), cmd[u].name)
        revs == Revisions(Data(Gw(u)), box.sid)
        status == revs[cmd[u].version].status
    IN /\ At(u, "p_poll")
       /\ IF ~grpc_client(Gw(u)) \/ box = None \/ (box # None /\ cmd[u].version > Len(revs)) THEN Goto(u, "err")
          ELSE \/ status # "pending" /\ Goto(u, IF status = "failed" THEN "err" ELSE "ok")
               \/ status = "pending" /\ Goto(u, "err")
       /\ UNCHANGED <<bootVars, hostVars, created>>

\* A global value takes the key away from every sandbox, and its removal gives
\* it back: both are asked for.
confirm_global_setting_takeover(u) ==
    /\ At(u, "confirm") /\ ~Arg(u).unset
    /\ \E yes \in {Arg(u).yes, Arg(u).yes \/ Arg(u).tty} : Goto(u, IF yes THEN "request" ELSE "err")
    /\ UNCHANGED <<bootVars, hostVars, created>>
confirm_global_setting_delete(u) ==
    /\ At(u, "confirm") /\ Arg(u).unset
    /\ \E yes \in {Arg(u).yes, Arg(u).yes \/ Arg(u).tty} : Goto(u, IF yes THEN "request" ELSE "err")
    /\ UNCHANGED <<bootVars, hostVars, created>>

\* The next request of the command.  A route is tried out before it is stored.
Request(u) ==
    LET g == Gw(u)
        rpc == Head(cmd[u].plan)
        reply == Serve(rpc, Data(g), cmd[u])
        more == [reply.cmd EXCEPT !.plan = Tail(@)]
        tried == rpc = "set_cluster_inference" /\ Arg(u).verify
    IN /\ At(u, "request") /\ rpc # "discover"
       /\ grpc_client(g)
       /\ \/ /\ Store(g, reply.data)
             /\ IF reply.ok THEN Goes(u, more, IF more.plan = <<>> THEN "ok" ELSE "request")
                ELSE Goto(u, "err")
          \/ /\ tried
             /\ Goto(u, "err") /\ UNCHANGED cluster
       /\ UNCHANGED <<docker, images, disk, bundles, hostVars, created>>

\* Credentials of the type on this machine, or none.
discover_existing(u) ==
    /\ At(u, "request") /\ Head(cmd[u].plan) = "discover"
    /\ \E found \in BOOLEAN :
         IF found THEN Goes(u, [cmd[u] EXCEPT !.plan = Tail(@)], "request") ELSE Goto(u, "err")
    /\ UNCHANGED <<bootVars, hostVars, created>>

\* The gateway went away before the request.
RequestFails(u) ==
    /\ cmd[u].pc \in {"c_providers", "c_provider", "c_create", "p_read", "p_update", "request"}
    /\ ~grpc_client(Gw(u))
    /\ Goto(u, "err")
    /\ UNCHANGED <<bootVars, hostVars, created>>

-----------------------------------------------------------------------------
(* The gateways go on by themselves.  External: the gateway and its          *)
(* supervisors, whose own modules are SandboxLifecycle and PolicySync.       *)

GatewayProgress ==
    \E g \in Gateways :
      /\ Running(g) \/ g \in Cloud
      /\ \/ \E s \in Data(g).sandboxes, phase \in {"Ready", "Error"} :
              /\ s.phase = "Provisioning"
              /\ SetData(g, "sandboxes", (Data(g).sandboxes \ {s}) \cup {[s EXCEPT !.phase = phase]})
         \/ \E i \in DOMAIN Data(g).policies, status \in {"loaded", "failed"} :
              /\ Data(g).policies[i].status = "pending"
              /\ SetData(g, "policies", [Data(g).policies EXCEPT ![i].status = status])
      /\ UNCHANGED <<docker, images, disk, cmd, bundles, hostVars, created>>

-----------------------------------------------------------------------------
(* The specification.                                                       *)

Init ==
    /\ setup \in Setups
    /\ docker = setup.docker /\ cluster = setup.cluster /\ disk = setup.disk
    /\ images = {docker[g].image : g \in Gateways} \ {None}
    /\ cmd = [u \in Users |-> Fresh(setup.scripts[u])]
    /\ bundles = 1 /\ created = 0
    /\ procs = [pid \in Pids |-> None] /\ pidfiles = setup.pidfiles /\ signalled = {}
    /\ alone = [u \in Users |-> TRUE]

GatewayStep(u) ==
    \/ gateway_admin_deploy(u) \/ save_active_gateway(u) \/ wait_for_grpc_ready(u)
    \/ cleanup_gateway_metadata(u) \/ extract_and_store_pki(u) \/ gateway_add(u)
    \/ browser_auth_flow(u) \/ gateway_select_with(u) \/ Inspect(u)

ForwardStep(u) ==
    \/ ForwardPort(u) \/ sandbox_forward(u) \/ write_forward_pid(u) \/ ForegroundForward(u)
    \/ stop_forward(u) \/ StopMatches(u) \/ StopKills(u) \/ RemovePidFile(u)

SandboxStep(u) ==
    \/ CreateStart(u) \/ build_from_dockerfile(u) \/ ensure_required_providers(u)
    \/ auto_create_provider(u) \/ sandbox_create(u) \/ WatchSandbox(u) \/ UploadFirst(u)
    \/ sandbox_sync_up(u) \/ sandbox_sync_down(u) \/ OpenSession(u) \/ exec_or_wait(u) \/ SaveLast(u)
    \/ finalize_sandbox_create_session(u) \/ DeleteConnect(u) \/ stop_forwards_for_sandbox(u)
    \/ sandbox_delete(u) \/ SessionOf(u) \/ install_ssh_config(u)

RequestStep(u) ==
    \/ sandbox_policy_set(u) \/ PolicyPoll(u) \/ confirm_global_setting_takeover(u)
    \/ confirm_global_setting_delete(u) \/ Request(u) \/ discover_existing(u) \/ RequestFails(u)

DockerStep(u) ==
    /\ DeployStep(u) \/ DestroyStep(u)
    /\ UNCHANGED <<hostVars, created>>

Step(u) ==
    \/ main(u) \/ Interrupt(u) \/ GatewayStep(u) \/ ForwardStep(u) \/ SandboxStep(u)
    \/ RequestStep(u) \/ DockerStep(u)

\* A command is alone on its gateway until another one starts or goes on there.
Solitude(u) ==
    alone' = [v \in Users |->
        IF v = u THEN IF Over(u) THEN \A w \in Users \ {u} : Over(w) \/ cmd[w].g # cmd'[u].g
                      ELSE alone[u]
        ELSE alone[v] /\ cmd'[u].g # cmd[v].g]

Next ==
    /\ \/ \E u \in Users : Step(u) /\ Solitude(u)
       \/ ClusterStep /\ UNCHANGED <<hostVars, created, alone>>
       \/ (GatewayProgress \/ ProcessChange) /\ UNCHANGED alone
    /\ UNCHANGED setup

Spec == Init /\ [][Next]_vars

-----------------------------------------------------------------------------
(* Properties.                                                              *)

\* A deployment that reports success, with no other command on the gateway in
\* between, leaves files on disk that the server running then accepts, and a
\* registration, whatever earlier commands were interrupted in
\* (deploy_gateway_with_logs, store_pki_bundle, wait_for_gateway_ready).
DeployedReachable ==
    \A u \in Users :
        cmd[u].pc \in {"activate", "boot_activate"} /\ Arg(u).op # "select" /\ alone[u] =>
            Registered(Gw(u)) /\ Trusted(Gw(u))

\* A deployment that fails after the port check, and whose cleanup is not
\* reported to have failed, leaves neither container nor volume: the next start
\* is a fresh one (the cleanup block of deploy_gateway_with_logs).
FailedDeployCleaned ==
    \A u \in Users : At(u, "err") /\ cmd[u].after = "failed" /\ alone[u] => ~Exists(Gw(u))

\* Stopping a forward, alone or with its sandbox, never signals a program that
\* got the pid of a dead forward: "validates PID ownership and then kills a
\* background forward" (stop_forward).  TLC refutes this: the pid may change hands
\* between ps and kill.
SignalsOnlyForwards == \A s \in signalled : s.kind = "ssh"

\* Nor the forward of another port: the process is one "matching the expected
\* port" (pid_matches_forward).  TLC refutes this too: 80 matches 8080.
SignalsOnlyItsPort == \A s \in signalled : s.kind = "ssh" => s.port = s.asked

\* A sandbox that was not to stay is gone once its command ends after the session,
\* however the session ended and even if it could not be set up, unless the
\* deletion could not reach the gateway (finalize_sandbox_create_session).
EphemeralGone ==
    \A u \in Users :
        cmd[u].pc \in {"ok", "err"} /\ Arg(u).op = "create" /\ cmd[u].ran
            /\ ~sandbox_should_persist(Arg(u)) => ~Lives(Gw(u), cmd[u].sid)
============================================================================
