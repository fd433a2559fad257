------------------------------- MODULE MCCli -------------------------------
(* Users of the command line and what they find. *)
EXTENDS Cli, TLC

CONSTANTS u1, u2, g1, g2, g3, n1, n2

MCPortSuffixes == {<<80, 8080>>}

None_ == [g \in Gateways |-> None]
EmptyDisk == [metadata |-> None_, active |-> None, last |-> None_, token |-> [g \in Gateways |-> FALSE],
              mtls |-> None_, mtls_tmp |-> None_, mtls_bak |-> None_, hosts |-> {}]
EmptyDocker == [g \in Gateways |-> [container |-> "none", image |-> None, port |-> 0,
                                    volume |-> FALSE, network |-> FALSE]]
Empty == [docker |-> EmptyDocker, cluster |-> [g \in Gateways |-> NoCluster], disk |-> EmptyDisk,
          pidfiles |-> {}, kills |-> FALSE, scripts |-> [u \in Users |-> <<>>]]

\* g1 deployed, registered and active; g3 registered behind its edge proxy.
Deployed ==
    [Empty EXCEPT
       !.docker[g1] = [container |-> "running", image |-> "registry", port |-> 1, volume |-> TRUE, network |-> TRUE],
       !.cluster[g1] = [NoCluster EXCEPT !.namespace = TRUE, !.workload = TRUE, !.server = 1, !.ca = 1,
                                         !.client = 1, !.serving = [server |-> 1, ca |-> 1]],
       !.disk.mtls[g1] = [ca |-> 1, client |-> 1], !.disk.active = g1,
       !.disk.metadata[g1] = [remote |-> FALSE, host |-> FALSE, auth |-> "mtls", port |-> 1],
       !.disk.metadata[g3] = [remote |-> TRUE, host |-> FALSE, auth |-> "edge", port |-> 3],
       !.disk.token[g3] = TRUE]

Start(g, p)  == [NoArgs EXCEPT !.op = "start", !.g = g, !.port = p]
Create       == [NoArgs EXCEPT !.op = "create", !.port = 1]
On(g, op)    == [NoArgs EXCEPT !.op = op, !.g = g]

\* A first deployment that is interrupted or fails and is tried again, next to
\* another one that wants the same port, or that deploys another image of it.
Deploying ==
    [Empty EXCEPT !.kills = TRUE,
       !.scripts = u1 :> <<Start(g1, 1), [Start(g1, 1) EXCEPT !.recreate = TRUE]>>
                @@ u2 :> <<Start(g2, 1)>>]
Contending ==
    [Empty EXCEPT !.scripts = u1 :> <<Start(g1, 1)>>
                           @@ u2 :> <<[Start(g1, 1) EXCEPT !.image = "dev"]>>]
Redeploying ==
    [Deployed EXCEPT !.kills = TRUE,
       !.scripts = u1 :> <<[Start(g1, 1) EXCEPT !.image = "dev", !.push = TRUE, !.tty = TRUE],
                           [On(g1, "add") EXCEPT !.port = 1]>>
                @@ u2 :> <<On(None, "stop"), On(g1, "destroy")>>]
Sessions ==
    [Deployed EXCEPT
       !.scripts = u1 :> <<[Create EXCEPT !.keep = FALSE, !.name = n1, !.upload = TRUE],
                           [Create EXCEPT !.keep = FALSE, !.command = TRUE]>>
                @@ u2 :> <<[NoArgs EXCEPT !.op = "delete", !.all = TRUE],
                           [Create EXCEPT !.name = n1]>>]

\* Two terminals that find no gateway, or name one that does not exist.
Bootstrapping ==
    [Empty EXCEPT
       !.scripts = u1 :> <<[Create EXCEPT !.dockerfile = TRUE, !.ptype = "t", !.auto = TRUE]>>
                @@ u2 :> <<[Create EXCEPT !.ptype = "t"]>>]
Mistyped == [Deployed EXCEPT !.scripts = u1 :> <<[Create EXCEPT !.g = g2]>> @@ u2 :> <<>>]

\* Forwards of two ports, one the end of the other, stopped and started again.
Forwarding ==
    [Deployed EXCEPT
       !.scripts = u1 :> <<[Create EXCEPT !.name = n1, !.forward = 80],
                           [NoArgs EXCEPT !.op = "stop_forward", !.forward = 80]>>
                @@ u2 :> <<[NoArgs EXCEPT !.op = "forward", !.name = n1, !.forward = 8080],
                           [NoArgs EXCEPT !.op = "delete", !.name = n1]>>]
ForwardAgain ==
    [Deployed EXCEPT
       !.scripts = u1 :> <<[Create EXCEPT !.name = n1, !.forward = 80],
                           [NoArgs EXCEPT !.op = "stop_forward", !.forward = 80, !.name = n1],
                           [NoArgs EXCEPT !.op = "forward", !.forward = 80, !.background = FALSE]>>
                @@ u2 :> <<[NoArgs EXCEPT !.op = "forward", !.name = n1, !.forward = 80]>>]

\* A gateway behind an edge proxy, added, logged in to, left and removed.
Edge ==
    [Empty EXCEPT
       !.scripts = u1 :> <<[On(g3, "add") EXCEPT !.edge = TRUE, !.port = 3], On(g3, "login"),
                           [Create EXCEPT !.editor = TRUE, !.name = n2]>>
                @@ u2 :> <<[Create EXCEPT !.endpoint = 3], [NoArgs EXCEPT !.op = "connect"],
                           On(None, "destroy"), On(g3, "select")>>]

\* A gateway with a ready sandbox, three proposed rules and a provider.
Op(op)      == [NoArgs EXCEPT !.op = op]
Named(op)   == [NoArgs EXCEPT !.op = op, !.name = n1]
Global(op)  == [NoArgs EXCEPT !.op = op, !.global = TRUE, !.value = 1]
P == <<"t", 0>>
Stocked ==
    [Deployed EXCEPT
       !.cluster[g1].data.sandboxes = {[name |-> n1, sid |-> 9, phase |-> "Ready"]},
       !.cluster[g1].data.providers = {[name |-> P, type |-> "t", credentials |-> {"t"}]},
       !.cluster[g1].data.chunks = {[id |-> 1, sid |-> 9, status |-> "pending", flagged |-> FALSE],
                                    [id |-> 2, sid |-> 9, status |-> "pending", flagged |-> TRUE],
                                    [id |-> 3, sid |-> 8, status |-> "approved", flagged |-> FALSE]}]

\* Policies and routes from two terminals, next to a stop of the gateway.
Requesting ==
    [Stocked EXCEPT
       !.scripts = u1 :> <<[Named("policy_set") EXCEPT !.value = 1, !.wait = TRUE],
                           [Op("inference_update") EXCEPT !.model = 2],
                           [Global("settings_set") EXCEPT !.yes = FALSE, !.tty = TRUE]>>
                @@ u2 :> <<[Named("policy_set") EXCEPT !.value = 2],
                           [Named("policy_set") EXCEPT !.value = 2],
                           [Op("inference_set") EXCEPT !.provider = P, !.model = 1, !.verify = FALSE],
                           [Op("inference_update") EXCEPT !.provider = P], On(g1, "stop")>>]

\* Rules decided while a global policy comes and goes.
Deciding ==
    [Stocked EXCEPT
       !.scripts = u1 :> <<[Named("rule_approve") EXCEPT !.chunk = 1], Named("rule_approve_all"),
                           [Named("rule_reject") EXCEPT !.chunk = 1], [Named("rule_reject") EXCEPT !.chunk = 3],
                           [Named("rule_approve_all") EXCEPT !.flagged = TRUE], Named("rule_approve_all"),
                           Named("rule_clear"), Named("rule_get"), Named("rule_history"),
                           [Named("policy_get") EXCEPT !.version = 2], Named("policy_list")>>
                @@ u2 :> <<Global("policy_set"), Global("policy_get"), Global("policy_list"),
                           Global("policy_delete"), Named("policy_delete"), Global("policy_delete"),
                           [Op("delete") EXCEPT !.all = TRUE]>>]

\* Settings of both scopes and the reads, next to a deletion.
Configuring ==
    [Stocked EXCEPT
       !.scripts = u1 :> <<[Named("settings_set") EXCEPT !.value = 2], Named("settings_set"),
                           Named("settings_get"), Named("settings_delete"),
                           [Named("settings_delete") EXCEPT !.key = "unknown"], Op("sandbox_list"),
                           Named("sandbox_get"), Named("logs"), [Named("logs") EXCEPT !.tail = TRUE],
                           Named("download"), On(g1, "stop")>>
                @@ u2 :> <<[Global("policy_set") EXCEPT !.wait = TRUE], Global("settings_set"),
                           [Global("settings_get") EXCEPT !.name = n1], Global("settings_get"),
                           [Global("settings_delete") EXCEPT !.yes = FALSE, !.tty = TRUE],
                           [Op("delete") EXCEPT !.name = n1], Create>>]

\* Providers changed while one terminal replaces them.
Providing ==
    [Stocked EXCEPT
       !.scripts = u1 :> <<[Op("provider_update") EXCEPT !.provider = P, !.from_existing = TRUE],
                           [Op("provider_update") EXCEPT !.provider = P],
                           [Op("provider_update") EXCEPT !.provider = P, !.from_existing = TRUE, !.credential = TRUE],
                           [Op("provider_get") EXCEPT !.provider = P], Op("provider_list"),
                           [Op("inference_set") EXCEPT !.provider = P, !.model = 1, !.system = TRUE],
                           [Op("inference_get") EXCEPT !.system = TRUE], Op("inference_get"), Op("inference_update")>>
                @@ u2 :> <<[Op("provider_delete") EXCEPT !.names = <<P, <<"w", 0>>>>],
                           [Op("provider_create") EXCEPT !.provider = P, !.ptype = "w", !.from_existing = TRUE],
                           [Op("provider_create") EXCEPT !.provider = P, !.ptype = "w", !.credential = TRUE],
                           [Op("provider_create") EXCEPT !.provider = P, !.ptype = "w"],
                           [Op("provider_create") EXCEPT !.provider = P, !.from_existing = TRUE, !.credential = TRUE]>>]

\* Looking at gateways and choosing one while another terminal takes it away.
Looking ==
    [Deployed EXCEPT
       !.scripts = u1 :> <<[Op("select") EXCEPT !.tty = TRUE], Op("status"), On(None, "info"), Op("doctor_logs"),
                           Op("doctor_exec"), Op("doctor_check"), Op("select"), On(g3, "status")>>
                @@ u2 :> <<On(g1, "stop"), On(g1, "destroy"), On(g2, "info")>>]
Uploading ==
    [Deployed EXCEPT
       !.scripts = u1 :> <<[Create EXCEPT !.ptype = "t", !.auto = TRUE, !.tty = TRUE, !.name = n1],
                           [NoArgs EXCEPT !.op = "upload", !.name = n1]>>
                @@ u2 :> <<[Op("provider_create") EXCEPT !.provider = P, !.ptype = "t", !.credential = TRUE],
                           [Create EXCEPT !.keep = FALSE, !.tty = TRUE],
                           [NoArgs EXCEPT !.op = "connect", !.editor = TRUE],
                           [NoArgs EXCEPT !.op = "delete", !.name = n1], On(g1, "stop")>>]


\* A PID file of an older version, without a sandbox id, and a forward that gets
\* its pid.
OldFile ==
    [Deployed EXCEPT
       !.pidfiles = {[name |-> n1, port |-> 80, pid |-> 1, sid |-> None]},
       !.scripts = u1 :> <<[NoArgs EXCEPT !.op = "stop_forward", !.forward = 80]>>
                @@ u2 :> <<[Create EXCEPT !.name = n2, !.forward = 80]>>]

MCSetups == {OldFile, Contending, Deploying, Redeploying, Sessions, Bootstrapping, Mistyped, Forwarding, ForwardAgain,
             Edge, Requesting, Deciding, Configuring, Providing, Looking, Uploading}
============================================================================
