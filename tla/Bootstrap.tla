----------------------------- MODULE Bootstrap -----------------------------
(***************************************************************************)
(* Deploying, stopping and destroying a gateway: Docker resources, the     *)
(* cluster in the volume of the container, the TLS secrets in it, and the  *)
(* files the command line keeps about its gateways.  Every Docker or       *)
(* kubectl call is a step of its own, so that commands in two terminals    *)
(* interleave, a call may fail, and Ctrl-C may come between any two.       *)
(***************************************************************************)
EXTENDS CliRequests

CONSTANTS Users, Gateways,
          MaxBundles     \* certificate bundles generated in a behaviour

VARIABLES docker,   \* per gateway: container, image, port, volume, network
          images,   \* images on the Docker host
          cluster,  \* per gateway: what the volume holds, and what is served
          disk,     \* the configuration directory of the command line
          cmd,      \* per user: the command under way and its locals
          bundles   \* bundles generated so far

bootVars == <<docker, images, cluster, disk, bundles>>

NoCluster == [data |-> NoData, namespace |-> FALSE, workload |-> FALSE, server |-> 0, ca |-> 0, client |-> 0,
              serving |-> None, ghosts |-> FALSE]

-----------------------------------------------------------------------------
(* Steps of a command.                                                      *)

At(u, step) == cmd[u].pc = step
Goes(u, r, step) == cmd' = [cmd EXCEPT ![u] = [r EXCEPT !.pc = step]]
Goto(u, step) == Goes(u, cmd[u], step)
Arg(u) == cmd[u].a
Gw(u) == cmd[u].g

\* The block whose errors are answered by removing the Docker resources.
Guarded == {"container", "replace", "make", "start", "workload", "reconcile", "namespace", "apply_server",
            "apply_ca", "apply_client", "restart", "pki_write", "pki_backup", "pki_swap",
            "push", "push_restart", "ready", "metadata"}

Raised(u) ==
    IF cmd[u].pc \in Guarded /\ Arg(u).op # "add" THEN [cmd[u] EXCEPT !.pc = "d_stop", !.after = "failed"]
    ELSE [cmd[u] EXCEPT !.pc = "err"]
Raise(u) == cmd' = [cmd EXCEPT ![u] = Raised(u)]

-----------------------------------------------------------------------------
(* Docker.                                                                  *)

Exists(g) == docker[g].container # "none" \/ docker[g].volume
Running(g) == docker[g].container = "running"
Halted(g) == IF Running(g) THEN "exited" ELSE docker[g].container
PortHolders(g, port) == {h \in Gateways \ {g} : Running(h) /\ docker[h].port = port}

\* Client and ping; with an existing gateway either tear down or give up.
check_existing_gateway(u) ==
    /\ At(u, "existing")
    /\ IF ~Exists(Gw(u)) THEN Goto(u, "image")
       ELSE IF cmd[u].recreate THEN Goes(u, [cmd[u] EXCEPT !.after = "image"], "d_stop")
       ELSE Raise(u)
    /\ UNCHANGED bootVars

\* A local image without a registry cannot be pulled.
ensure_image(u) ==
    /\ At(u, "image")
    /\ Arg(u).image \in images \/ Arg(u).image # "local"
    /\ images' = images \cup {Arg(u).image}
    /\ Goto(u, "network")
    /\ UNCHANGED <<docker, cluster, disk, bundles>>

\* Any old network is removed with its endpoints before a fresh one is made.
ensure_network(u) ==
    /\ At(u, "network")
    /\ docker' = [docker EXCEPT ![Gw(u)].network = TRUE]
    /\ Goto(u, "volume")
    /\ UNCHANGED <<images, cluster, disk, bundles>>

ensure_volume(u) ==
    /\ At(u, "volume")
    /\ docker' = [docker EXCEPT ![Gw(u)].volume = TRUE]
    /\ Goto(u, "ports")
    /\ UNCHANGED <<images, cluster, disk, bundles>>

\* Before the guarded block: the network and the volume stay behind.
check_port_conflicts(u) ==
    /\ At(u, "ports")
    /\ IF PortHolders(Gw(u), Arg(u).port) = {} THEN Goto(u, "container") ELSE Raise(u)
    /\ UNCHANGED bootVars

\* A container of the image stays; one of another image is stopped, removed and
\* replaced, which are three calls.
ensure_container(u) ==
    LET g == Gw(u) IN
    /\ At(u, "container")
    /\ IF docker[g].container = "none" THEN Goto(u, "make") /\ UNCHANGED <<docker, cluster>>
       ELSE IF docker[g].image = Arg(u).image /\ Arg(u).image \in images
       THEN Goto(u, "start") /\ UNCHANGED <<docker, cluster>>
       ELSE /\ docker' = [docker EXCEPT ![g].container = Halted(g)]
            /\ cluster' = [cluster EXCEPT ![g].serving = None]
            /\ Goto(u, "replace")
    /\ UNCHANGED <<images, disk, bundles>>

RemoveStale(u) ==
    LET g == Gw(u) IN
    /\ At(u, "replace") /\ docker[g].container # "none"
    /\ docker' = [docker EXCEPT ![g].container = "none", ![g].image = None]
    /\ cluster' = [cluster EXCEPT ![g].serving = None]
    /\ Goto(u, "make")
    /\ UNCHANGED <<images, disk, bundles>>

\* The name must be free; a node of an earlier container stays behind in the volume.
create_container(u) ==
    LET g == Gw(u) IN
    /\ At(u, "make") /\ docker[g].container = "none" /\ Arg(u).image \in images
    /\ docker' = [docker EXCEPT ![g].container = "created", ![g].volume = TRUE,
                                ![g].image = Arg(u).image, ![g].port = Arg(u).port]
    /\ cluster' = [cluster EXCEPT ![g].serving = None, ![g].ghosts = cluster[g].namespace]
    /\ Goto(u, "start")
    /\ UNCHANGED <<images, disk, bundles>>

\* A port taken meanwhile is retried five times and then an error.
start_container(u) ==
    LET g == Gw(u) IN
    /\ At(u, "start")
    /\ docker[g].container # "none" /\ PortHolders(g, docker[g].port) = {}
    /\ docker' = [docker EXCEPT ![g].container = "running"]
    /\ Goto(u, "workload")
    /\ UNCHANGED <<images, cluster, disk, bundles>>

\* Stale nodes go if kubectl answers; whether the workload is there decides
\* later whether new certificates need a rollout.
clean_stale_nodes(u) ==
    LET g == Gw(u) IN
    /\ At(u, "workload")
    /\ \E cleaned \in BOOLEAN : cluster' = [cluster EXCEPT ![g].ghosts = cluster[g].ghosts /\ ~cleaned]
    /\ Goes(u, [cmd[u] EXCEPT !.existed = Running(g) /\ cluster[g].workload], "reconcile")
    /\ UNCHANGED <<docker, images, disk, bundles>>

-----------------------------------------------------------------------------
(* Certificates.  A bundle is named by its number; the three secrets and    *)
(* the files of the command line say from which bundle each of them is.     *)

Complete(g) == cluster[g].server > 0 /\ cluster[g].ca > 0 /\ cluster[g].client > 0
Certs(g) == [ca |-> cluster[g].ca, client |-> cluster[g].client]

\* All six keys are there: reuse them, from whichever bundles they are.
load_existing_pki_bundle(u) ==
    /\ At(u, "reconcile")
    /\ IF Running(Gw(u)) /\ Complete(Gw(u))
       THEN Goes(u, [cmd[u] EXCEPT !.certs = Certs(Gw(u))], "pki_write")
       ELSE Goto(u, "namespace")
    /\ UNCHANGED bootVars

wait_for_namespace(u) ==
    /\ At(u, "namespace")
    /\ Running(Gw(u)) /\ cluster[Gw(u)].namespace
    /\ bundles < MaxBundles
    /\ bundles' = bundles + 1
    /\ Goes(u, [cmd[u] EXCEPT !.certs = [ca |-> bundles + 1, client |-> bundles + 1]], "apply_server")
    /\ UNCHANGED <<docker, images, cluster, disk>>

\* One kubectl apply for each of the three secrets.
create_k8s_tls_secrets(u) ==
    LET g == Gw(u) IN
    /\ cmd[u].pc \in {"apply_server", "apply_ca", "apply_client"}
    /\ Running(g)
    /\ CASE At(u, "apply_server") -> /\ cluster' = [cluster EXCEPT ![g].server = cmd[u].certs.ca]
                                     /\ Goto(u, "apply_ca")
         [] At(u, "apply_ca")     -> /\ cluster' = [cluster EXCEPT ![g].ca = cmd[u].certs.ca]
                                     /\ Goto(u, "apply_client")
         [] At(u, "apply_client") -> /\ cluster' = [cluster EXCEPT ![g].client = cmd[u].certs.client]
                                     /\ Goto(u, IF cmd[u].existed THEN "restart" ELSE "pki_write")
    /\ UNCHANGED <<docker, images, disk, bundles>>

\* kubectl rollout restart and status: the pods read the secrets again.
restart_clustershell_deployment(u) ==
    LET g == Gw(u) IN
    /\ cmd[u].pc \in {"restart", "push_restart"}
    /\ Running(g) /\ cluster[g].workload
    /\ cluster' = [cluster EXCEPT ![g].serving =
                       [server |-> cluster[g].server, ca |-> cluster[g].ca]]
    /\ Goto(u, IF At(u, "restart") THEN "pki_write" ELSE "ready")
    /\ UNCHANGED <<docker, images, disk, bundles>>

\* Written to a temporary directory, the old one moved aside, the new one in,
\* the old one removed; if the new one cannot move in, the old one comes back.
store_pki_bundle(u) ==
    LET g == Gw(u) IN
    /\ cmd[u].pc \in {"pki_write", "pki_backup", "pki_swap"}
    /\ CASE At(u, "pki_write") ->
              /\ disk' = [disk EXCEPT !.mtls_tmp[g] = cmd[u].certs]
              /\ Goto(u, IF disk.mtls[g] # None THEN "pki_backup" ELSE "pki_swap")
         [] At(u, "pki_backup") /\ disk.mtls[g] # None ->
              /\ disk' = [disk EXCEPT !.mtls[g] = None, !.mtls_bak[g] = disk.mtls[g]]
              /\ Goto(u, "pki_swap")
         [] At(u, "pki_swap") /\ disk.mtls_tmp[g] # None /\ disk.mtls[g] = None ->
              /\ disk' = [disk EXCEPT !.mtls[g] = disk.mtls_tmp[g], !.mtls_tmp[g] = None,
                                      !.mtls_bak[g] = None]
              /\ Goto(u, IF Arg(u).op = "add" THEN "add_metadata"
                         ELSE IF Arg(u).push THEN "push" ELSE "ready")
         [] OTHER ->
              /\ disk' = IF At(u, "pki_swap") /\ disk.mtls[g] = None
                         THEN [disk EXCEPT !.mtls[g] = disk.mtls_bak[g], !.mtls_bak[g] = None]
                         ELSE disk
              /\ Raise(u)
    /\ UNCHANGED <<docker, images, cluster, bundles>>

\* Local images go into the container runtime, then the pods restart.
push_local_images(u) ==
    /\ At(u, "push")
    /\ Running(Gw(u))
    /\ Goto(u, "push_restart")
    /\ UNCHANGED bootVars

-----------------------------------------------------------------------------
(* The health check, and the end of a deployment.                           *)

Healthy(g) == Running(g) /\ cluster[g].serving # None /\ ~cluster[g].ghosts

Mutant_AnyRunning(u) ==
    /\ At(u, "ready")
    /\ Running(Gw(u))
    /\ Goto(u, "metadata")
    /\ UNCHANGED bootVars

wait_for_gateway_ready(u) ==
    /\ At(u, "ready")
    /\ Healthy(Gw(u))
    /\ Goto(u, "metadata")
    /\ UNCHANGED bootVars

\* The deployment returns; its caller goes on at cmd[u].then.
store_gateway_metadata(u) ==
    /\ At(u, "metadata")
    /\ disk' = [disk EXCEPT !.metadata[Gw(u)] = [remote |-> Arg(u).remote, host |-> Arg(u).remote,
                                                 auth |-> "mtls", port |-> Arg(u).port]]
    /\ Goto(u, cmd[u].then)
    /\ UNCHANGED <<docker, images, cluster, bundles>>

\* A call of Docker or kubectl that fails, a wait that runs out, an image or a
\* container that went away.  Exec errors of the workload and secret reads and
\* of the stale nodes are taken as absence, so there is no error there.
Fallible == {"check", "existing", "image", "network", "volume", "ports", "container", "replace", "make",
             "start", "namespace", "apply_server", "apply_ca", "apply_client", "restart", "push",
             "push_restart", "ready"}
DockerFails(u) ==
    /\ cmd[u].pc \in Fallible
    /\ Raise(u)
    /\ UNCHANGED bootVars

-----------------------------------------------------------------------------
(* destroy_gateway_resources, from a recreate, from the cleanup of a failed *)
(* deployment, and from the destroy command: cmd[u].after says which.       *)

\* The cleanup of a failed deployment only warns that something is left.
DestroyFails(u) ==
    /\ cmd[u].pc \in {"d_container", "d_volume", "d_network"}
    /\ Goes(u, [cmd[u] EXCEPT !.after = "left"], "err")
    /\ UNCHANGED bootVars

\* The image is remembered, the container disconnected and stopped.
StopForDestroy(u) ==
    LET g == Gw(u) IN
    /\ At(u, "d_stop")
    /\ docker' = [docker EXCEPT ![g].container = Halted(g)]
    /\ cluster' = [cluster EXCEPT ![g].serving = None]
    /\ Goes(u, [cmd[u] EXCEPT !.image = docker[g].image], "d_container")
    /\ UNCHANGED <<images, disk, bundles>>

\* The image goes too, unless another container still needs it.
RemoveContainer(u) ==
    LET g == Gw(u) IN
    /\ At(u, "d_container")
    /\ docker' = [docker EXCEPT ![g].container = "none", ![g].image = None]
    /\ cluster' = [cluster EXCEPT ![g].serving = None]
    /\ images' = IF \E h \in Gateways \ {g} : docker[h].image = cmd[u].image THEN images
                 ELSE images \ {cmd[u].image}
    /\ Goto(u, "d_volume")
    /\ UNCHANGED <<disk, bundles>>

Mutant_KeepVolume(u) ==
    /\ At(u, "d_volume")
    /\ Goto(u, "d_network")
    /\ UNCHANGED bootVars

\* Docker refuses to remove the volume of a container.
RemoveVolume(u) ==
    LET g == Gw(u) IN
    /\ At(u, "d_volume")
    /\ docker[g].container = "none"
    /\ docker' = [docker EXCEPT ![g].volume = FALSE]
    /\ cluster' = [cluster EXCEPT ![g] = NoCluster]
    /\ Goto(u, "d_network")
    /\ UNCHANGED <<images, disk, bundles>>

force_remove_network(u) ==
    LET g == Gw(u) IN
    /\ At(u, "d_network")
    /\ docker' = [docker EXCEPT ![g].network = FALSE]
    /\ Goto(u, CASE cmd[u].after = "image" -> "image"
                 [] cmd[u].after = "failed" -> "err"
                 [] cmd[u].after = "command" -> "cleanup_metadata")
    /\ UNCHANGED <<images, cluster, disk, bundles>>

stop_container(u) ==
    LET g == Gw(u) IN
    /\ At(u, "stop")
    /\ docker' = [docker EXCEPT ![g].container = Halted(g)]
    /\ cluster' = [cluster EXCEPT ![g].serving = None]
    /\ Goto(u, "ok")
    /\ UNCHANGED <<images, disk, bundles>>

-----------------------------------------------------------------------------
(* The cluster in a running container.  External: k3s and its controllers.  *)

NamespaceCreated(g) ==
    /\ Running(g) /\ ~cluster[g].namespace
    /\ cluster' = [cluster EXCEPT ![g].namespace = TRUE]
    /\ UNCHANGED <<docker, images, disk, cmd, bundles>>

\* The chart's pods start once the secrets they mount exist.
WorkloadStarts(g) ==
    /\ Running(g) /\ cluster[g].namespace /\ cluster[g].serving = None
    /\ \/ /\ ~cluster[g].workload
          /\ cluster' = [cluster EXCEPT ![g].workload = TRUE]
       \/ /\ cluster[g].workload /\ cluster[g].server > 0 /\ cluster[g].ca > 0
          /\ cluster' = [cluster EXCEPT ![g].serving =
                             [server |-> cluster[g].server, ca |-> cluster[g].ca]]
    /\ UNCHANGED <<docker, images, disk, cmd, bundles>>

ClusterStep == \E g \in Gateways : NamespaceCreated(g) \/ WorkloadStarts(g)

\* The files of the command line let it talk to the server that runs.
Trusted(g) ==
    /\ cluster[g].serving # None /\ disk.mtls[g] # None
    /\ disk.mtls[g].ca = cluster[g].serving.server
    /\ disk.mtls[g].client = cluster[g].serving.ca

DeployStep(u) ==
    \/ check_existing_gateway(u) \/ ensure_image(u) \/ ensure_network(u) \/ ensure_volume(u)
    \/ check_port_conflicts(u) \/ ensure_container(u) \/ RemoveStale(u) \/ create_container(u) \/ start_container(u)
    \/ clean_stale_nodes(u) \/ load_existing_pki_bundle(u) \/ wait_for_namespace(u)
    \/ create_k8s_tls_secrets(u) \/ restart_clustershell_deployment(u) \/ store_pki_bundle(u)
    \/ push_local_images(u) \/ wait_for_gateway_ready(u) \/ store_gateway_metadata(u)
    \/ DockerFails(u)

DestroyStep(u) ==
    \/ StopForDestroy(u) \/ RemoveContainer(u) \/ RemoveVolume(u) \/ force_remove_network(u)
    \/ DestroyFails(u) \/ stop_container(u)
============================================================================
