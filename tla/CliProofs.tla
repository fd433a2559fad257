------------------------------- MODULE CliProofs -------------------------------
(***************************************************************************)
(* Proofs about Bootstrap and Cli, for any number of users, gateways and   *)
(* commands, any set-up and any interleaving of the users' steps, and      *)
(* about Tui, the other client of the gateway, which shares no state with  *)
(* them.                                                                   *)
(*                                                                         *)
(* A deployment is a long sequence of calls on one gateway.  The invariant *)
(* says what has been done at each of them (Done), as long as no other     *)
(* command worked on the gateway.  Everything it says is read off a View   *)
(* of the gateway, so that the steps of others leave it alone and each     *)
(* step of the deployment is a change of one view.                         *)
(***************************************************************************)
EXTENDS Cli, Tui, FiniteSetTheorems, TLAPS

-------------------------------------------------------------------------------
(* The invariant. *)

Cleanup  == {"d_stop", "d_container", "d_volume", "d_network"}
Before   == {"check", "existing"}
Blank    == {"image", "network", "volume", "ports", "container", "replace", "make", "start", "workload",
             "reconcile", "namespace"}
Signed   == {"restart", "pki_write", "pki_backup", "pki_swap"}
Filed    == {"push", "push_restart", "ready", "metadata", "activate", "boot_activate"}
Ladder   == Before \cup Blank \cup {"apply_server", "apply_ca", "apply_client"} \cup Signed \cup Filed
CmdFields == DOMAIN Fresh(<<>>)

\* What the proof needs to know of a gateway.
View(g) ==
    [container |-> docker[g].container, volume |-> docker[g].volume,
     server |-> cluster[g].server, ca |-> cluster[g].ca, client |-> cluster[g].client,
     serving |-> cluster[g].serving,
     tmp |-> disk.mtls_tmp[g], mtls |-> disk.mtls[g], meta |-> disk.metadata[g]]

Unsigned(w) == w.server = 0 /\ w.ca = 0 /\ w.client = 0 /\ w.serving = None
Vacant(w)   == w.container = "none" /\ ~w.volume
Sane(w)     == (w.container # "none" => w.volume) /\ (~w.volume => Unsigned(w))

\* The command is deploying a gateway, or removing what it was deploying.
Deploys(c) == c.pc \in Ladder /\ c.a.op # "add" /\ ~(c.pc = "activate" /\ c.a.op = "select")
Removes(c) == c.pc \in Cleanup /\ c.after \in {"image", "failed"}
Failed(c)  == c.pc = "err" /\ c.after = "failed"

CmdOk(c) ==
    /\ DOMAIN c = CmdFields
    /\ c.todo \in Seq(Scripted)
    /\ c.then \in {"ok", "activate", "boot_activate"}
    /\ c.ret \in {"ok", "del_stop"}
    /\ c.result \in {"ok", "err"}
    /\ c.after = "failed" => c.pc \in Cleanup \cup {"err", "idle"}
    /\ c.pc \in Cleanup => c.after \in {"image", "failed", "command"}
    /\ c.pc = "extract" => c.a.op = "add"
    /\ c.pc = "select" => c.a.op = "select"
    /\ c.pc \in Before \cup Filed => c.a.op # "add"
    /\ Deploys(c) \/ Removes(c) \/ Failed(c) => c.g \in Gateways /\ c.a \in Scripted

\* How far a deployment that nobody disturbed has come.
Done(c, w) ==
    /\ c.pc \in Blank \cup {"apply_server"} => Unsigned(w)
    /\ c.pc \in {"apply_server", "apply_ca", "apply_client"} => c.certs.ca = c.certs.client
    /\ c.pc = "apply_ca" => w.server = c.certs.ca /\ w.ca = 0 /\ w.serving = None
    /\ c.pc \in {"apply_client"} \cup Signed \cup Filed =>
          /\ w.server = c.certs.ca /\ w.ca = c.certs.ca
          /\ w.serving \in {None, [server |-> c.certs.ca, ca |-> c.certs.ca]}
    /\ c.pc \in Signed \cup Filed => c.certs.client = c.certs.ca
    /\ c.pc \in {"pki_backup", "pki_swap"} => w.tmp = c.certs
    /\ c.pc \in Filed => w.mtls = c.certs /\ w.mtls # None
    /\ c.pc \in {"metadata", "activate", "boot_activate"} => w.serving # None
    /\ c.pc \in {"activate", "boot_activate"} => w.meta # None

Facts(c, w) ==
    /\ Deploys(c) => Done(c, w)
    /\ (c.pc = "d_network" /\ c.after \in {"image", "failed"}) \/ Failed(c) => Vacant(w)

Shapes ==
    /\ DOMAIN docker = Gateways /\ DOMAIN cluster = Gateways /\ DOMAIN disk = DiskFields
    /\ DOMAIN disk.mtls = Gateways /\ DOMAIN disk.mtls_tmp = Gateways
    /\ DOMAIN disk.metadata = Gateways
    /\ \A g \in Gateways : DOMAIN docker[g] = DockerFields /\ DOMAIN cluster[g] = DOMAIN NoCluster

IInv ==
    /\ Shapes
    /\ DOMAIN cmd = Users /\ \A u \in Users : CmdOk(cmd[u])
    /\ \A g \in Gateways : Sane(View(g))
    /\ \A u \in Users : alone[u] => Facts(cmd[u], View(cmd[u].g))
-------------------------------------------------------------------------------
(* A step of one user. *)

\* A command without a gateway of its own has nothing to keep.
LEMMA NothingHeld ==
    ASSUME NEW c, NEW w, CmdOk(c), c.g \notin Gateways
    PROVE  Facts(c, w)
BY DEF CmdOk, Facts, Removes, Cleanup

\* The others' gateways look the same, or they are no longer alone.
LEMMA StepOfUser ==
    ASSUME IInv, NEW u \in Users, NEW c1, Solitude(u),
           cmd' = [cmd EXCEPT ![u] = c1], CmdOk(c1), Shapes',
           \A h \in Gateways : h # c1.g => View(h)' = View(h),
           c1.g \in Gateways => Sane(View(c1.g)'),
           Over(u) \/ Facts(cmd[u], View(cmd[u].g)) => Facts(c1, View(c1.g)')
    PROVE  IInv'
<1>1. DOMAIN cmd' = Users /\ cmd'[u] = c1 /\ \A v \in Users \ {u} : cmd'[v] = cmd[v]
    BY DEF IInv
<1>2. \A v \in Users : CmdOk(cmd'[v])
    BY <1>1 DEF IInv
<1>3. \A h \in Gateways : Sane(View(h)')
    BY DEF IInv
<1>4. /\ alone'[u] => Over(u) \/ alone[u]
      /\ \A v \in Users \ {u} : alone'[v] => alone[v] /\ cmd'[u].g # cmd[v].g
    BY Zenon DEF Solitude
<1>5. ASSUME NEW v \in Users, alone'[v]
      PROVE  Facts(cmd'[v], View(cmd[v].g)')
    <2>1. CASE v = u
        <3>1. Facts(c1, View(c1.g)')
            BY <1>4, <1>5, <2>1 DEF IInv
        <3> QED  BY <3>1, <2>1, <1>1
    <2>2. CASE v # u
        <3>1. PICK c : c = cmd[v]
            OBVIOUS
        <3>2. cmd'[v] = c /\ c1.g # c.g /\ Facts(c, View(c.g)) /\ CmdOk(c)
            BY <1>1, <1>4, <1>5, <2>2, <3>1 DEF IInv
        <3>3. c.g \in Gateways => View(c.g)' = View(c.g)
            BY <3>2
        <3>4. Facts(c, View(c.g)')
            BY <3>2, <3>3, NothingHeld
        <3> QED  BY <3>2, <3>4
    <2> QED  BY <2>1, <2>2
<1> QED  BY <1>1, <1>2, <1>3, <1>5 DEF IInv

\* A step that leaves the views of all gateways alone.
Untouched == Shapes' /\ \A h \in Gateways : View(h)' = View(h)

\* A command that goes on at a label that is no part of a deployment.
Elsewhere(step) == step \notin Ladder \cup Cleanup \cup {"extract", "select"}
Kept(c, r) ==
    /\ DOMAIN r = CmdFields
    /\ r.todo = c.todo /\ r.then = c.then /\ r.after = c.after /\ r.a = c.a
    /\ r.ret \in {"ok", "del_stop"} /\ r.result \in {"ok", "err"}
Quietly(u) ==
    /\ cmd[u].pc \notin Cleanup \cup {"ok", "err", "idle"}
    /\ \E r, step : Goes(u, r, step) /\ Kept(cmd[u], r) /\ Elsewhere(step)

LEMMA Fields ==
    CmdFields = {"todo", "a", "pc", "g", "then", "after", "recreate", "existed", "certs", "image", "name",
                 "sid", "names", "phase", "ran", "result", "provs", "tries", "version", "route", "port",
                 "ret", "session", "hosts", "plan", "found", "record"}
BY DEF CmdFields, Fresh

LEMMA GoesElsewhere ==
    ASSUME NEW c, NEW r, NEW step, CmdOk(c), Kept(c, r), Elsewhere(step),
           c.pc \notin Cleanup \cup {"ok", "err", "idle"}
    PROVE  /\ CmdOk([r EXCEPT !.pc = step]) /\ \A w : Facts([r EXCEPT !.pc = step], w)
           /\ [r EXCEPT !.pc = step].g = r.g
<1>1. PICK c1 : c1 = [r EXCEPT !.pc = step]
    OBVIOUS
<1>2. /\ DOMAIN c1 = CmdFields /\ c1.pc = step /\ c1.todo = c.todo /\ c1.then = c.then /\ c1.after = c.after
      /\ c1.ret \in {"ok", "del_stop"} /\ c1.result \in {"ok", "err"} /\ c1.g = r.g
    BY <1>1, Fields DEF Kept
<1>3. /\ ~Deploys(c1) /\ ~Removes(c1) /\ c1.after # "failed"
      /\ c1.pc \notin Cleanup \cup Before \cup Filed \cup {"extract", "select"}
    BY <1>2 DEF CmdOk, Deploys, Removes, Elsewhere, Ladder
<1>4. CmdOk(c1) /\ \A w : Facts(c1, w)
    BY <1>2, <1>3 DEF CmdOk, Facts, Failed, Cleanup
<1> QED  BY <1>1, <1>2, <1>4

LEMMA QuietStep ==
    ASSUME IInv, NEW u \in Users, Solitude(u), Quietly(u), Untouched
    PROVE  IInv'
<1>1. PICK r, step : Goes(u, r, step) /\ Kept(cmd[u], r) /\ Elsewhere(step)
    BY DEF Quietly
<1>2. CmdOk(cmd[u]) /\ cmd[u].pc \notin Cleanup \cup {"ok", "err", "idle"}
    BY DEF IInv, Quietly
<1>3. PICK c1 : c1 = [r EXCEPT !.pc = step]
    OBVIOUS
<1>4. CmdOk(c1) /\ \A w : Facts(c1, w)
    BY <1>1, <1>2, <1>3, GoesElsewhere
<1>5. cmd' = [cmd EXCEPT ![u] = c1]
    BY <1>1, <1>3 DEF Goes
<1>6. c1.g \in Gateways => Sane(View(c1.g)')
    BY DEF IInv, Untouched
<1> QED  BY <1>4, <1>5, <1>6, StepOfUser DEF Untouched

LEMMA SameBoot ==
    ASSUME IInv, UNCHANGED bootVars
    PROVE  Untouched
BY DEF IInv, Shapes, View, Untouched, bootVars

\* Requests change what the gateway stores, never its certificates.
LEMMA SameData ==
    ASSUME IInv, UNCHANGED docker, NEW g, NEW d, Store(g, d), DOMAIN disk' = DiskFields,
           disk'.mtls = disk.mtls, disk'.mtls_tmp = disk.mtls_tmp, disk'.metadata = disk.metadata
    PROVE  Untouched
<1>1. PICK k : k = cluster
    OBVIOUS
<1>2. DOMAIN k = Gateways /\ \A h \in Gateways : DOMAIN k[h] = DOMAIN NoCluster
    BY <1>1 DEF IInv, Shapes
<1>3. cluster' = [k EXCEPT ![g] = [k[g] EXCEPT !.data = d]]
    BY <1>1 DEF Store
<1>4. /\ DOMAIN cluster' = Gateways
      /\ \A h \in Gateways : DOMAIN cluster'[h] = DOMAIN NoCluster
      /\ \A h \in Gateways : /\ cluster'[h].server = k[h].server /\ cluster'[h].ca = k[h].ca
                             /\ cluster'[h].client = k[h].client /\ cluster'[h].serving = k[h].serving
    BY <1>2, <1>3 DEF NoCluster
<1> QED  BY <1>1, <1>4 DEF IInv, Shapes, View, Untouched

LEMMA SameDataField ==
    ASSUME IInv, UNCHANGED docker, NEW g, NEW field, NEW value, SetData(g, field, value),
           DOMAIN disk' = DiskFields,
           disk'.mtls = disk.mtls, disk'.mtls_tmp = disk.mtls_tmp, disk'.metadata = disk.metadata
    PROVE  Untouched
<1>1. Store(g, [cluster[g].data EXCEPT ![field] = value])
    BY DEF SetData, Store
<1> QED  BY <1>1, SameData

\* Files that say nothing of the certificates or the registration.
LEMMA SameFiles ==
    ASSUME IInv, UNCHANGED <<docker, cluster>>, DOMAIN disk' = DiskFields,
           disk'.mtls = disk.mtls, disk'.mtls_tmp = disk.mtls_tmp, disk'.metadata = disk.metadata
    PROVE  Untouched
BY DEF IInv, Shapes, View, Untouched

-------------------------------------------------------------------------------
(* Steps that are not part of a deployment. *)

LEMMA KeptSelf ==
    ASSUME NEW c, CmdOk(c)
    PROVE  /\ Kept(c, c)
           /\ \A x : /\ Kept(c, [c EXCEPT !.name = x]) /\ Kept(c, [c EXCEPT !.names = x])
                     /\ Kept(c, [c EXCEPT !.session = x]) /\ Kept(c, [c EXCEPT !.provs = x])
                     /\ Kept(c, [c EXCEPT !.tries = x]) /\ Kept(c, [c EXCEPT !.phase = x])
                     /\ Kept(c, [c EXCEPT !.ran = x]) /\ Kept(c, [c EXCEPT !.hosts = x])
                     /\ Kept(c, [c EXCEPT !.version = x]) /\ Kept(c, [c EXCEPT !.plan = x])
                     /\ Kept(c, [c EXCEPT !.sid = x]) /\ Kept(c, [c EXCEPT !.found = x])
                     /\ Kept(c, [c EXCEPT !.route = x]) /\ Kept(c, [c EXCEPT !.g = x])
                     /\ Kept(c, [c EXCEPT !.record = x])
           /\ \A x, y : Kept(c, [c EXCEPT !.name = x, !.port = y, !.ret = "del_stop"])
           /\ \A x, y, z : Kept(c, [c EXCEPT !.name = x, !.sid = y, !.phase = z])
           /\ \A x, y : y \in {"ok", "err"} => Kept(c, [c EXCEPT !.ran = x, !.result = y])
BY Fields DEF CmdOk, Kept

\* Commands that are not being removed or over, at a label of their own.
LEMMA Leaves ==
    ASSUME NEW u, NEW r, NEW step, Goes(u, r, step), Kept(cmd[u], r), Elsewhere(step),
           cmd[u].pc \notin Cleanup \cup {"ok", "err", "idle"}
    PROVE  Quietly(u)
BY DEF Quietly

LEMMA ForwardQuiet ==
    ASSUME IInv, NEW u \in Users, ForwardStep(u)
    PROVE  Quietly(u) /\ Untouched
<1>0. CmdOk(cmd[u])
    BY DEF IInv
<1>1. Kept(cmd[u], cmd[u])
    BY <1>0, KeptSelf
<1>2. Untouched
    <2>1. UNCHANGED bootVars
        BY DEF ForwardStep, ForwardPort, sandbox_forward, write_forward_pid, ForegroundForward,
            stop_forward, StopMatches, StopKills, RemovePidFile
    <2> QED  BY <2>1, SameBoot
<1>3. \E r, step : Goes(u, r, step) /\ Kept(cmd[u], r) /\ Elsewhere(step)
    <2>1. Elsewhere(cmd[u].ret)
        BY <1>0 DEF CmdOk, Elsewhere, Ladder, Before, Blank, Signed, Filed, Cleanup
    <2>2. \A step \in {"f_session", "err", "f_pid", "f_wait", "c_open", "ok", "s_match", "s_kill", "s_remove"} :
              Elsewhere(step)
        BY DEF Elsewhere, Ladder, Before, Blank, Signed, Filed, Cleanup
    <2>3. CASE ~stop_forward(u)
        BY <1>1, <2>1, <2>2, <2>3 DEF ForwardStep, ForwardPort, sandbox_forward, write_forward_pid,
                ForegroundForward, StopMatches, StopKills, RemovePidFile, Goto
    <2>4. CASE stop_forward(u)
        <3>1. \/ Goes(u, cmd[u], cmd[u].ret)
              \/ \E f : \E step \in {"s_match", "s_remove"} : Goes(u, [cmd[u] EXCEPT !.record = f], step)
            BY <2>4 DEF stop_forward, Goto
        <3>2. \A f : Kept(cmd[u], [cmd[u] EXCEPT !.record = f])
            BY <1>0, KeptSelf
        <3> QED  BY <1>1, <2>1, <2>2, <3>1, <3>2
    <2> QED  BY <2>3, <2>4
<1>4. cmd[u].pc \in {"f_port", "f_ssh", "f_pid", "f_wait", "s_read", "s_match", "s_kill", "s_remove"}
    BY DEF ForwardStep, ForwardPort, sandbox_forward, write_forward_pid,
           ForegroundForward, stop_forward, StopMatches, StopKills, RemovePidFile, At
<1> QED  BY <1>2, <1>3, <1>4, Leaves DEF Cleanup

LEMMA SessionQuiet ==
    ASSUME IInv, NEW u \in Users, NEW step, ssh_session_config(u, step), Elsewhere(step),
           cmd[u].pc \notin Cleanup \cup {"ok", "err", "idle"}
    PROVE  Quietly(u) /\ Untouched
<1>1. CmdOk(cmd[u])
    BY DEF IInv
<1>2. Untouched
    BY SameBoot DEF ssh_session_config
<1>3. Elsewhere("err")
    BY DEF Elsewhere, Ladder, Before, Blank, Signed, Filed, Cleanup
<1>4. \E r, s : Goes(u, r, s) /\ Kept(cmd[u], r) /\ Elsewhere(s)
    BY <1>1, <1>3, KeptSelf DEF ssh_session_config, Goto
<1> QED  BY <1>2, <1>4 DEF Quietly

\* The labels at which the commands about sandboxes go on.
LEMMA SandboxLabels ==
    \A step \in {"ok", "err", "idle", "c_source", "c_providers", "c_provider", "c_create", "c_watch",
                 "c_upload", "c_open", "f_port", "f_ssh", "u_copy", "d_copy", "session", "finalize",
                 "k_save", "e_read", "e_write", "del_connect", "del_stop", "del_request", "s_read",
                 "p_update", "p_poll", "request", "boot_wait", "c_port", "auth"} : Elsewhere(step)
BY DEF Elsewhere, Ladder, Before, Blank, Signed, Filed, Cleanup

LEMMA OpenQuiet ==
    ASSUME IInv, NEW u \in Users, UploadFirst(u) \/ OpenSession(u) \/ SessionOf(u)
    PROVE  Quietly(u) /\ Untouched
<1>0. CmdOk(cmd[u])
    BY DEF IInv
<1>1. cmd[u].pc \in {"c_upload", "c_open", "k_session", "u_session", "f_session"}
    BY DEF UploadFirst, OpenSession, SessionOf, At
<1>2. CASE \E step \in {"u_copy", "d_copy", "session", "f_ssh"} : ssh_session_config(u, step)
    BY <1>1, <1>2, SessionQuiet, SandboxLabels DEF Cleanup
<1>3. CASE (\E step \in {"f_port", "c_open", "e_read"} : Goto(u, step)) /\ UNCHANGED bootVars
    <2>1. Untouched
        BY <1>3, SameBoot
    <2>2. Quietly(u)
        BY <1>0, <1>1, <1>3, KeptSelf, SandboxLabels, Leaves DEF Goto, Cleanup
    <2> QED  BY <2>1, <2>2
<1>4. CASE OpenSession(u)
    <2>1. Untouched
        BY <1>4, SameBoot DEF OpenSession
    <2>2. \/ Goes(u, cmd[u], "e_read") \/ \E x : Goes(u, [cmd[u] EXCEPT !.session = x], "session")
          \/ Goes(u, [cmd[u] EXCEPT !.ran = TRUE, !.result = "err"], "finalize")
        BY <1>4 DEF OpenSession, Goto
    <2>3. /\ Kept(cmd[u], cmd[u]) /\ \A x : Kept(cmd[u], [cmd[u] EXCEPT !.session = x])
          /\ Kept(cmd[u], [cmd[u] EXCEPT !.ran = TRUE, !.result = "err"])
        BY <1>0, KeptSelf
    <2>4. Quietly(u)
        BY <1>1, <2>2, <2>3, SandboxLabels, Leaves DEF Cleanup
    <2> QED  BY <2>1, <2>4
<1> QED  BY <1>2, <1>3, <1>4 DEF UploadFirst, SessionOf, AfterUpload

LEMMA CreateQuiet ==
    ASSUME IInv, NEW u \in Users,
           \/ CreateStart(u) \/ build_from_dockerfile(u) \/ ensure_required_providers(u)
           \/ auto_create_provider(u) \/ sandbox_create(u) \/ WatchSandbox(u)
    PROVE  Quietly(u) /\ Untouched
<1>0. CmdOk(cmd[u])
    BY DEF IInv
<1>1. cmd[u].pc \in {"c_port", "c_source", "c_providers", "c_provider", "c_create", "c_watch"}
    BY DEF CreateStart, build_from_dockerfile, ensure_required_providers, auto_create_provider,
           sandbox_create, WatchSandbox, At
<1>2. Untouched
    <2>1. CASE CreateStart(u) \/ build_from_dockerfile(u) \/ ensure_required_providers(u) \/ WatchSandbox(u)
        BY <2>1, SameBoot DEF CreateStart, build_from_dockerfile, ensure_required_providers, WatchSandbox
    <2>2. CASE auto_create_provider(u)
        <3>1. CASE UNCHANGED cluster
            BY <2>2, <3>1, SameBoot DEF auto_create_provider, bootVars
        <3>2. CASE ~UNCHANGED cluster
            <4>1. \E x : SetData(Gw(u), "providers", x)
                BY <2>2, <3>2 DEF auto_create_provider
            <4> QED  BY <2>2, <4>1, SameDataField DEF auto_create_provider, IInv, Shapes
        <3> QED  BY <3>1, <3>2
    <2>3. CASE sandbox_create(u)
        <3>1. \/ UNCHANGED <<cluster, disk>>
              \/ /\ \E x : SetData(Gw(u), "sandboxes", x)
                 /\ disk' = disk \/ \E n : disk' = [disk EXCEPT !.last[Gw(u)] = n]
            BY <2>3 DEF sandbox_create
        <3>2. UNCHANGED docker /\ DOMAIN disk = DiskFields
            BY <2>3 DEF sandbox_create, IInv, Shapes
        <3>3. CASE UNCHANGED <<cluster, disk>>
            BY <3>2, <3>3 DEF Untouched, IInv, Shapes, View
        <3>4. CASE \E x : SetData(Gw(u), "sandboxes", x)
            <4>1. DOMAIN disk' = DiskFields /\ disk'.mtls = disk.mtls /\ disk'.mtls_tmp = disk.mtls_tmp
                  /\ disk'.metadata = disk.metadata
                BY <3>1, <3>2 DEF DiskFields
            <4>2. PICK x : SetData(Gw(u), "sandboxes", x)
                BY <3>4
            <4> QED  BY <3>2, <4>1, <4>2, SameDataField
        <3> QED  BY <3>1, <3>3, <3>4
    <2> QED  BY <2>1, <2>2, <2>3
<1>3. \E r, step : Goes(u, r, step) /\ Kept(cmd[u], r) /\ Elsewhere(step)
    <2>1. CASE CreateStart(u) \/ build_from_dockerfile(u)
        BY <1>0, <2>1, KeptSelf, SandboxLabels DEF CreateStart, build_from_dockerfile, Goto
    <2>2. CASE ensure_required_providers(u)
        BY <1>0, <2>2, KeptSelf, SandboxLabels DEF ensure_required_providers, Goto
    <2>3. CASE auto_create_provider(u)
        <3>1. \/ Goes(u, cmd[u], "err")
              \/ \E x : Goes(u, [cmd[u] EXCEPT !.tries = x], "c_provider")
              \/ \E x : Goes(u, [cmd[u] EXCEPT !.provs = x], "c_create")
            BY <2>3 DEF auto_create_provider, Goto
        <3> QED  BY <1>0, <3>1, KeptSelf, SandboxLabels
    <2>4. CASE sandbox_create(u)
        <3>1. \/ Goes(u, cmd[u], "err")
              \/ \E x, y, z : Goes(u, [cmd[u] EXCEPT !.name = x, !.sid = y, !.phase = z], "c_watch")
            BY <2>4, Zenon DEF sandbox_create, Goto
        <3>2. ASSUME NEW x, NEW y, NEW z
              PROVE  Kept(cmd[u], [cmd[u] EXCEPT !.name = x, !.sid = y, !.phase = z])
            BY <1>0, KeptSelf
        <3>3. Kept(cmd[u], cmd[u]) /\ Elsewhere("err") /\ Elsewhere("c_watch")
            BY <1>0, KeptSelf, SandboxLabels
        <3> QED  BY <3>1, <3>2, <3>3, Zenon
    <2>5. CASE WatchSandbox(u)
        BY <1>0, <2>5, KeptSelf, SandboxLabels DEF WatchSandbox, Goto
    <2> QED  BY <2>1, <2>2, <2>3, <2>4, <2>5
<1> QED  BY <1>1, <1>2, <1>3 DEF Quietly, Cleanup

LEMMA SessionEndQuiet ==
    ASSUME IInv, NEW u \in Users,
           \/ sandbox_sync_up(u) \/ sandbox_sync_down(u) \/ exec_or_wait(u) \/ SaveLast(u)
           \/ finalize_sandbox_create_session(u) \/ install_ssh_config(u)
    PROVE  Quietly(u) /\ Untouched
<1>0. CmdOk(cmd[u])
    BY DEF IInv
<1>1. cmd[u].pc \in {"u_copy", "d_copy", "session", "k_save", "finalize", "e_read", "e_write"}
    BY DEF sandbox_sync_up, sandbox_sync_down, exec_or_wait, SaveLast,
           finalize_sandbox_create_session, install_ssh_config, At
<1>2. Untouched
    <2>1. CASE sandbox_sync_up(u) \/ sandbox_sync_down(u) \/ exec_or_wait(u)
               \/ finalize_sandbox_create_session(u)
        BY <2>1, SameBoot DEF sandbox_sync_up, sandbox_sync_down, exec_or_wait,
                              finalize_sandbox_create_session
    <2>2. CASE SaveLast(u)
        <3>1. disk' = [disk EXCEPT !.last[Gw(u)] = cmd[u].name] /\ UNCHANGED <<docker, cluster>>
            BY <2>2 DEF SaveLast
        <3> QED  BY <3>1, SameFiles DEF IInv, Shapes, DiskFields
    <2>3. CASE install_ssh_config(u)
        <3>1. (disk' = disk \/ disk' = [disk EXCEPT !.hosts = cmd[u].hosts \cup {cmd[u].name}])
              /\ UNCHANGED <<docker, cluster>>
            BY <2>3 DEF install_ssh_config
        <3> QED  BY <3>1, SameFiles DEF IInv, Shapes, DiskFields
    <2> QED  BY <2>1, <2>2, <2>3
<1>3. \E r, step : Goes(u, r, step) /\ Kept(cmd[u], r) /\ Elsewhere(step)
    <2>0. Elsewhere(cmd[u].result) /\ Kept(cmd[u], cmd[u])
        BY <1>0, KeptSelf, SandboxLabels DEF CmdOk
    <2>1. CASE sandbox_sync_up(u) \/ sandbox_sync_down(u) \/ SaveLast(u)
        BY <2>0, <2>1, SandboxLabels DEF sandbox_sync_up, sandbox_sync_down, SaveLast, Goto, AfterUpload
    <2>2. CASE exec_or_wait(u)
        <3>1. \/ Goes(u, cmd[u], "idle")
              \/ \E y \in {"ok", "err"} : \E step \in {"finalize", "k_save", "err"} :
                    Goes(u, [cmd[u] EXCEPT !.ran = TRUE, !.result = y], step)
            BY <2>2 DEF exec_or_wait, Goto
        <3>2. ASSUME NEW y \in {"ok", "err"}
              PROVE  Kept(cmd[u], [cmd[u] EXCEPT !.ran = TRUE, !.result = y])
            BY <1>0, KeptSelf
        <3>3. \A step \in {"idle", "finalize", "k_save", "err"} : Elsewhere(step)
            BY SandboxLabels
        <3>4. CASE Goes(u, cmd[u], "idle")
            BY <2>0, <3>3, <3>4
        <3>5. CASE \E y \in {"ok", "err"} : \E step \in {"finalize", "k_save", "err"} :
                    Goes(u, [cmd[u] EXCEPT !.ran = TRUE, !.result = y], step)
            <4>1. PICK y \in {"ok", "err"}, step \in {"finalize", "k_save", "err"} :
                    Goes(u, [cmd[u] EXCEPT !.ran = TRUE, !.result = y], step)
                BY <3>5
            <4>2. Kept(cmd[u], [cmd[u] EXCEPT !.ran = TRUE, !.result = y]) /\ Elsewhere(step)
                BY <3>2, <3>3
            <4> QED  BY <4>1, <4>2, Zenon
        <3> QED  BY <3>1, <3>4, <3>5
    <2>3. CASE finalize_sandbox_create_session(u)
        BY <1>0, <2>0, <2>3, KeptSelf, SandboxLabels DEF finalize_sandbox_create_session, Goto
    <2>4. CASE install_ssh_config(u)
        BY <1>0, <2>0, <2>4, KeptSelf, SandboxLabels DEF install_ssh_config, Goto
    <2> QED  BY <2>1, <2>2, <2>3, <2>4
<1> QED  BY <1>1, <1>2, <1>3 DEF Quietly, Cleanup

LEMMA DeleteQuiet ==
    ASSUME IInv, NEW u \in Users,
           DeleteConnect(u) \/ stop_forwards_for_sandbox(u) \/ sandbox_delete(u)
    PROVE  Quietly(u) /\ Untouched
<1>0. CmdOk(cmd[u])
    BY DEF IInv
<1>1. cmd[u].pc \in {"del_connect", "del_stop", "del_request"}
    BY DEF DeleteConnect, stop_forwards_for_sandbox, sandbox_delete, At
<1>2. Untouched
    <2>1. CASE DeleteConnect(u) \/ stop_forwards_for_sandbox(u)
        BY <2>1, SameBoot DEF DeleteConnect, stop_forwards_for_sandbox
    <2>2. CASE sandbox_delete(u)
        <3>1. UNCHANGED <<docker, disk>> /\ (UNCHANGED cluster \/ \E x : SetData(Gw(u), "sandboxes", x))
            BY <2>2 DEF sandbox_delete
        <3>2. CASE UNCHANGED cluster
            BY <3>1, <3>2, SameFiles DEF IInv, Shapes
        <3>3. CASE \E x : SetData(Gw(u), "sandboxes", x)
            BY <3>1, <3>3, SameDataField DEF IInv, Shapes
        <3> QED  BY <3>1, <3>2, <3>3
    <2> QED  BY <2>1, <2>2
<1>3. \E r, step : Goes(u, r, step) /\ Kept(cmd[u], r) /\ Elsewhere(step)
    <2>0. Elsewhere(cmd[u].result) /\ Kept(cmd[u], cmd[u])
        BY <1>0, KeptSelf, SandboxLabels DEF CmdOk
    <2>1. CASE DeleteConnect(u)
        <3>1. \/ \E x : Goes(u, [cmd[u] EXCEPT !.ran = x], "err")
              \/ \E x : Goes(u, [cmd[u] EXCEPT !.names = x], "del_stop")
            BY <2>1 DEF DeleteConnect, DeleteFails
        <3> QED  BY <1>0, <3>1, KeptSelf, SandboxLabels
    <2>2. CASE stop_forwards_for_sandbox(u)
        <3>1. \/ Goes(u, cmd[u], cmd[u].result) \/ Goes(u, cmd[u], "del_request")
              \/ \E x, y : Goes(u, [cmd[u] EXCEPT !.name = x, !.port = y, !.ret = "del_stop"], "s_read")
            BY <2>2, Zenon DEF stop_forwards_for_sandbox, Goto
        <3>2. ASSUME NEW x, NEW y
              PROVE  Kept(cmd[u], [cmd[u] EXCEPT !.name = x, !.port = y, !.ret = "del_stop"])
            BY <1>0, KeptSelf
        <3>3. Elsewhere("s_read") /\ Elsewhere("del_request")
            BY SandboxLabels
        <3> QED  BY <2>0, <3>1, <3>2, <3>3, Zenon
    <2>3. CASE sandbox_delete(u)
        <3>1. \/ Goes(u, cmd[u], "err")
              \/ \E x : Goes(u, [cmd[u] EXCEPT !.ran = x], "err")
              \/ \E x : Goes(u, [cmd[u] EXCEPT !.names = x], "del_stop")
            BY <2>3 DEF sandbox_delete, DeleteFails, Goto
        <3> QED  BY <1>0, <3>1, KeptSelf, SandboxLabels
    <2> QED  BY <2>1, <2>2, <2>3
<1> QED  BY <1>1, <1>2, <1>3 DEF Quietly, Cleanup

LEMMA SandboxQuiet ==
    ASSUME IInv, NEW u \in Users, SandboxStep(u)
    PROVE  Quietly(u) /\ Untouched
BY OpenQuiet, CreateQuiet, SessionEndQuiet, DeleteQuiet DEF SandboxStep

\* The gateway's answers change only what a command has learned.
LEMMA Replies ==
    ASSUME NEW d, NEW c, CmdOk(c)
    PROVE  /\ Kept(c, Answer(d, c).cmd) /\ Kept(c, Refusal(d, c).cmd)
           /\ \A found : Kept(c, Asked(d, c, found).cmd)
BY KeptSelf DEF Answer, Refusal, Asked

LEMMA UpdateKeeps ==
    ASSUME NEW d, NEW c, CmdOk(c)
    PROVE  Kept(c, update_config(d, c).cmd)
<1>1. \/ update_config(d, c).cmd = c
      \/ \E x : update_config(d, c).cmd = [c EXCEPT !.version = x]
    BY DEF update_config, Answer, Refusal
<1>2. Kept(c, c) /\ \A x : Kept(c, [c EXCEPT !.version = x])
    BY KeptSelf
<1> QED  BY <1>1, <1>2, Zenon

LEMMA ServeKeeps ==
    ASSUME NEW rpc, NEW d, NEW c, CmdOk(c)
    PROVE  Kept(c, Serve(rpc, d, c).cmd)
<1>1. Kept(c, get_sandbox(d, c).cmd)
    BY KeptSelf DEF get_sandbox, Answer, Refusal
<1>2. /\ Kept(c, list_sandboxes(d, c).cmd) /\ Kept(c, get_sandbox_config(d, c).cmd)
      /\ Kept(c, get_gateway_config(d, c).cmd) /\ Kept(c, get_sandbox_logs(d, c).cmd)
      /\ Kept(c, watch_sandbox(d, c).cmd) /\ Kept(c, get_sandbox_policy_status(d, c).cmd)
      /\ Kept(c, list_sandbox_policies(d, c).cmd) /\ Kept(c, get_draft_policy(d, c).cmd)
      /\ Kept(c, get_draft_history(d, c).cmd) /\ Kept(c, list_providers(d, c).cmd)
      /\ Kept(c, print_inference_route(d, c).cmd)
    BY Replies DEF list_sandboxes, get_sandbox_config, get_gateway_config, get_sandbox_logs,
        watch_sandbox, get_sandbox_policy_status, list_sandbox_policies, get_draft_policy,
        get_draft_history, list_providers, print_inference_route
<1>3. \A from, status : Kept(c, DecideChunk(d, c, from, status).cmd)
    <2> SUFFICES ASSUME NEW from, NEW status PROVE DecideChunk(d, c, from, status).cmd = c
        BY KeptSelf
    <2> QED  BY DEF DecideChunk, Answer, Refusal
<1>4. Kept(c, approve_draft_chunk(d, c).cmd) /\ Kept(c, reject_draft_chunk(d, c).cmd)
    BY <1>3 DEF approve_draft_chunk, reject_draft_chunk
<1>5. approve_all_draft_chunks(d, c).cmd = c
    BY DEF approve_all_draft_chunks, Answer, Refusal
<1>6. clear_draft_chunks(d, c).cmd = c
    BY DEF clear_draft_chunks, Answer, Refusal
<1>7. Kept(c, get_provider(d, c).cmd)
    BY KeptSelf DEF get_provider, Answer, Refusal
<1>8. create_provider(d, c).cmd = c
    BY DEF create_provider, Answer, Refusal
<1>9. update_provider(d, c).cmd = c
    BY DEF update_provider, Answer, Refusal
<1>10. Kept(c, delete_provider(d, c).cmd)
    BY KeptSelf DEF delete_provider, Answer, Refusal
<1>11. Kept(c, get_cluster_inference(d, c).cmd)
    BY KeptSelf DEF get_cluster_inference, Answer, Refusal
<1>12. set_cluster_inference(d, c).cmd = c
    BY DEF set_cluster_inference, Answer, Refusal
<1>13. /\ Kept(c, approve_all_draft_chunks(d, c).cmd) /\ Kept(c, clear_draft_chunks(d, c).cmd)
       /\ Kept(c, create_provider(d, c).cmd) /\ Kept(c, update_provider(d, c).cmd)
       /\ Kept(c, set_cluster_inference(d, c).cmd)
    BY <1>5, <1>6, <1>8, <1>9, <1>12, KeptSelf
<1> QED  BY <1>1, <1>2, <1>4, <1>7, <1>10, <1>11, <1>13, UpdateKeeps DEF Serve

LEMMA RequestQuiet ==
    ASSUME IInv, NEW u \in Users, RequestStep(u)
    PROVE  Quietly(u) /\ Untouched
<1>0. CmdOk(cmd[u]) /\ DOMAIN disk = DiskFields
    BY DEF IInv, Shapes
<1>1. cmd[u].pc \in {"p_read", "p_update", "p_poll", "confirm", "request", "c_providers", "c_provider", "c_create"}
    BY DEF RequestStep, sandbox_policy_set, PolicyPoll, confirm_global_setting_takeover,
           confirm_global_setting_delete, Request, discover_existing, RequestFails, At
<1>2. Untouched
    <2>1. CASE PolicyPoll(u) \/ confirm_global_setting_takeover(u) \/ confirm_global_setting_delete(u)
               \/ discover_existing(u) \/ RequestFails(u)
        BY <2>1, SameBoot DEF PolicyPoll, confirm_global_setting_takeover,
            confirm_global_setting_delete, discover_existing, RequestFails
    <2>2. CASE sandbox_policy_set(u)
        <3>1. UNCHANGED <<docker, disk>> /\ (UNCHANGED cluster \/ \E d : Store(Gw(u), d))
            BY <2>2 DEF sandbox_policy_set
        <3> QED  BY <1>0, <3>1, SameFiles, SameData
    <2>3. CASE Request(u)
        <3>1. UNCHANGED <<docker, disk>> /\ (UNCHANGED cluster \/ \E d : Store(Gw(u), d))
            BY <2>3 DEF Request
        <3> QED  BY <1>0, <3>1, SameFiles, SameData
    <2> QED  BY <2>1, <2>2, <2>3 DEF RequestStep
<1>3. \E r, step : Goes(u, r, step) /\ Kept(cmd[u], r) /\ Elsewhere(step)
    <2>0. Kept(cmd[u], cmd[u])
        BY <1>0, KeptSelf
    <2>1. CASE PolicyPoll(u) \/ RequestFails(u)
        BY <2>0, <2>1, SandboxLabels DEF PolicyPoll, RequestFails, Goto
    <2>2. CASE confirm_global_setting_takeover(u) \/ confirm_global_setting_delete(u)
        BY <2>0, <2>2, SandboxLabels DEF confirm_global_setting_takeover, confirm_global_setting_delete, Goto
    <2>3. CASE discover_existing(u)
        BY <1>0, <2>0, <2>3, KeptSelf, SandboxLabels DEF discover_existing, Goto
    <2>4. CASE sandbox_policy_set(u)
        <3>1. \/ \E x : Goes(u, [cmd[u] EXCEPT !.version = x], "p_update")
              \/ \E step \in {"err", "ok", "p_poll"} : Goes(u, update_config(Data(Gw(u)), cmd[u]).cmd, step)
            BY <2>4 DEF sandbox_policy_set
        <3>2. \A x : Kept(cmd[u], [cmd[u] EXCEPT !.version = x])
            BY <1>0, KeptSelf
        <3>3. Kept(cmd[u], update_config(Data(Gw(u)), cmd[u]).cmd)
            BY <1>0, UpdateKeeps
        <3>4. \A step \in {"err", "ok", "p_poll", "p_update"} : Elsewhere(step)
            BY SandboxLabels
        <3> QED  BY <3>1, <3>2, <3>3, <3>4
    <2>5. CASE Request(u)
        <3> DEFINE reply == Serve(Head(cmd[u].plan), Data(Gw(u)), cmd[u])
        <3>1. \/ Goes(u, cmd[u], "err")
              \/ \E x : \E step \in {"ok", "request"} : Goes(u, [reply.cmd EXCEPT !.plan = x], step)
            BY <2>5 DEF Request, Goto
        <3>2. Kept(cmd[u], reply.cmd)
            BY <1>0, ServeKeeps
        <3>3. \A x : Kept(cmd[u], [reply.cmd EXCEPT !.plan = x])
            BY <3>2, Fields DEF Kept
        <3>4. \A step \in {"err", "ok", "request"} : Elsewhere(step)
            BY SandboxLabels
        <3> HIDE DEF reply
        <3> QED  BY <2>0, <3>1, <3>3, <3>4
    <2> QED  BY <2>1, <2>2, <2>3, <2>4, <2>5 DEF RequestStep
<1> QED  BY <1>1, <1>2, <1>3 DEF Quietly, Cleanup

-------------------------------------------------------------------------------
(* Registration, selection and login. *)

LEMMA GatewayQuiet ==
    ASSUME IInv, NEW u \in Users,
           save_active_gateway(u) \/ wait_for_grpc_ready(u) \/ browser_auth_flow(u) \/ Inspect(u)
    PROVE  Quietly(u) /\ Untouched
<1>0. CmdOk(cmd[u]) /\ DOMAIN disk = DiskFields
    BY DEF IInv, Shapes
<1>1. cmd[u].pc \in {"activate", "boot_activate", "boot_wait", "auth", "inspect"}
    BY DEF save_active_gateway, wait_for_grpc_ready, browser_auth_flow, Inspect, At
<1>2. Untouched
    <2>1. CASE wait_for_grpc_ready(u) \/ Inspect(u)
        BY <2>1, SameBoot DEF wait_for_grpc_ready, Inspect
    <2>2. CASE save_active_gateway(u)
        <3>1. disk' = [disk EXCEPT !.active = Gw(u)] /\ UNCHANGED <<docker, cluster>>
            BY <2>2 DEF save_active_gateway
        <3> QED  BY <1>0, <3>1, SameFiles DEF DiskFields
    <2>3. CASE browser_auth_flow(u)
        <3>1. (\E x : disk' = [disk EXCEPT !.token[Gw(u)] = x]) /\ UNCHANGED <<docker, cluster>>
            BY <2>3, Zenon DEF browser_auth_flow
        <3> QED  BY <1>0, <3>1, SameFiles DEF DiskFields
    <2> QED  BY <2>1, <2>2, <2>3
<1>3. \E step \in {"ok", "err", "boot_wait", "c_port"} : Goes(u, cmd[u], step)
    <2>1. CASE wait_for_grpc_ready(u) \/ save_active_gateway(u)
        BY <2>1 DEF wait_for_grpc_ready, save_active_gateway, Goto
    <2>2. CASE browser_auth_flow(u)
        BY <2>2 DEF browser_auth_flow, Goto
    <2>3. CASE Inspect(u)
        BY <2>3 DEF Inspect, Goto, gateway_status, gateway_admin_info, doctor_logs, doctor_exec, doctor_check
    <2> QED  BY <2>1, <2>2, <2>3
<1>4. Kept(cmd[u], cmd[u])
    BY <1>0, KeptSelf
<1> QED  BY <1>1, <1>2, <1>3, <1>4, SandboxLabels DEF Quietly, Cleanup

\* A step that changes the registration of the command's own gateway.
LEMMA RegistrationStep ==
    ASSUME IInv, NEW u \in Users, Solitude(u), NEW step, Goto(u, step), Elsewhere(step),
           cmd[u].pc \notin Cleanup \cup {"ok", "err", "idle"},
           UNCHANGED <<docker, cluster>>, DOMAIN disk' = DiskFields,
           disk'.mtls = disk.mtls, disk'.mtls_tmp = disk.mtls_tmp,
           NEW m, disk'.metadata = [disk.metadata EXCEPT ![cmd[u].g] = m]
    PROVE  IInv'
<1>1. PICK c : c = cmd[u]
    OBVIOUS
<1>2. PICK c1 : c1 = [c EXCEPT !.pc = step]
    OBVIOUS
<1>3. CmdOk(c) /\ Kept(c, c)
    BY <1>1, KeptSelf DEF IInv
<1>4. CmdOk(c1) /\ c1.g = c.g /\ \A w : Facts(c1, w)
    BY <1>1, <1>2, <1>3, GoesElsewhere
<1>5. cmd' = [cmd EXCEPT ![u] = c1]
    BY <1>1, <1>2 DEF Goto, Goes
<1>6. Shapes' /\ \A h \in Gateways : h # c1.g => View(h)' = View(h)
    BY <1>1, <1>4 DEF IInv, Shapes, View
<1>7. c1.g \in Gateways => Sane(View(c1.g)')
    BY DEF IInv, View, Sane, Unsigned
<1> QED  BY <1>4, <1>5, <1>6, <1>7, StepOfUser

LEMMA RegistersIInv ==
    ASSUME IInv, NEW u \in Users, Solitude(u), cleanup_gateway_metadata(u) \/ gateway_add(u)
    PROVE  IInv'
<1>0. DOMAIN disk = DiskFields /\ DOMAIN disk.metadata = Gateways
    BY DEF IInv, Shapes
<1>1. CASE cleanup_gateway_metadata(u)
    <2>1. /\ Goto(u, "ok") /\ UNCHANGED <<docker, cluster>> /\ cmd[u].pc = "cleanup_metadata"
          /\ disk' = [disk EXCEPT !.token[Gw(u)] = FALSE, !.metadata[Gw(u)] = None,
                                  !.active = IF disk.active = Gw(u) THEN None ELSE disk.active]
        BY <1>1 DEF cleanup_gateway_metadata, At
    <2>2. /\ DOMAIN disk' = DiskFields /\ disk'.mtls = disk.mtls /\ disk'.mtls_tmp = disk.mtls_tmp
          /\ disk'.metadata = [disk.metadata EXCEPT ![cmd[u].g] = None]
        BY <1>0, <2>1 DEF DiskFields, Gw
    <2> QED  BY <2>1, <2>2, RegistrationStep, SandboxLabels DEF Cleanup
<1>2. CASE gateway_add(u)
    <2>1. PICK step \in {"auth", "ok"} : Goto(u, step)
        BY <1>2 DEF gateway_add
    <2>2. PICK m : disk' = [disk EXCEPT !.metadata[Gw(u)] = m, !.active = Gw(u)]
        BY <1>2 DEF gateway_add
    <2>3. UNCHANGED <<docker, cluster>> /\ cmd[u].pc = "add_metadata"
        BY <1>2 DEF gateway_add, At
    <2>4. /\ DOMAIN disk' = DiskFields /\ disk'.mtls = disk.mtls /\ disk'.mtls_tmp = disk.mtls_tmp
          /\ disk'.metadata = [disk.metadata EXCEPT ![cmd[u].g] = m]
        BY <1>0, <2>2 DEF DiskFields, Gw
    <2> QED  BY <2>1, <2>3, <2>4, RegistrationStep, SandboxLabels DEF Cleanup
<1> QED  BY <1>1, <1>2

\* The two commands that choose a gateway, or the certificates of one.
LEMMA ChoosesIInv ==
    ASSUME IInv, NEW u \in Users, Solitude(u), gateway_select_with(u) \/ extract_and_store_pki(u)
    PROVE  IInv'
<1>0. CmdOk(cmd[u]) /\ Untouched /\ cmd[u].pc \in {"select", "extract"} /\ ~Over(u)
    BY SameBoot DEF IInv, gateway_select_with, extract_and_store_pki, At, Over
<1>1. CASE Goto(u, "ok") \/ Goto(u, "err") \/ \E x : Goes(u, [cmd[u] EXCEPT !.g = x], "ok")
    <2>1. Kept(cmd[u], cmd[u]) /\ \A x : Kept(cmd[u], [cmd[u] EXCEPT !.g = x])
        BY <1>0, KeptSelf
    <2>2. Quietly(u)
        BY <1>0, <1>1, <2>1, SandboxLabels DEF Goto, Cleanup, Quietly
    <2> QED  BY <1>0, <2>2, QuietStep
<1>2. CASE gateway_select_with(u) /\ \E x : Goes(u, [cmd[u] EXCEPT !.g = x], "activate") 
    <2>1. PICK x : Goes(u, [cmd[u] EXCEPT !.g = x], "activate")
        BY <1>2
    <2>2. PICK c1 : c1 = [[cmd[u] EXCEPT !.g = x] EXCEPT !.pc = "activate"]
        OBVIOUS
    <2>3. cmd[u].a.op = "select" /\ cmd[u].after # "failed"
        BY <1>0, <1>2 DEF CmdOk, gateway_select_with, At, Cleanup
    <2>4. /\ DOMAIN c1 = CmdFields /\ c1.pc = "activate" /\ c1.todo = cmd[u].todo /\ c1.then = cmd[u].then
          /\ c1.after = cmd[u].after /\ c1.ret = cmd[u].ret /\ c1.result = cmd[u].result
          /\ c1.g = x /\ c1.a = cmd[u].a
        BY <1>0, <2>2, Fields DEF CmdOk
    <2>5. CmdOk(c1) /\ \A w : Facts(c1, w)
        BY <1>0, <2>3, <2>4 DEF CmdOk, Facts, Deploys, Removes, Failed, Cleanup, Before
    <2>6. cmd' = [cmd EXCEPT ![u] = c1]
        BY <2>1, <2>2 DEF Goes
    <2>7. c1.g \in Gateways => Sane(View(c1.g)')
        BY <1>0 DEF IInv, Untouched
    <2> QED  BY <1>0, <2>5, <2>6, <2>7, StepOfUser DEF Untouched
<1>3. CASE extract_and_store_pki(u) /\ \E x : Goes(u, [cmd[u] EXCEPT !.certs = x], "pki_write")
    <2>1. PICK x : Goes(u, [cmd[u] EXCEPT !.certs = x], "pki_write")
        BY <1>3
    <2>2. PICK c1 : c1 = [[cmd[u] EXCEPT !.certs = x] EXCEPT !.pc = "pki_write"]
        OBVIOUS
    <2>3. cmd[u].a.op = "add" /\ cmd[u].after # "failed"
        BY <1>0, <1>3 DEF CmdOk, extract_and_store_pki, At, Cleanup
    <2>4. /\ DOMAIN c1 = CmdFields /\ c1.pc = "pki_write" /\ c1.todo = cmd[u].todo /\ c1.then = cmd[u].then
          /\ c1.after = cmd[u].after /\ c1.ret = cmd[u].ret /\ c1.result = cmd[u].result
          /\ c1.g = cmd[u].g /\ c1.a = cmd[u].a
        BY <1>0, <2>2, Fields DEF CmdOk
    <2>5. CmdOk(c1) /\ \A w : Facts(c1, w)
        BY <1>0, <2>3, <2>4 DEF CmdOk, Facts, Deploys, Removes, Failed, Cleanup, Before, Filed
    <2>6. cmd' = [cmd EXCEPT ![u] = c1]
        BY <2>1, <2>2 DEF Goes
    <2>7. c1.g \in Gateways => Sane(View(c1.g)')
        BY <1>0 DEF IInv, Untouched
    <2> QED  BY <1>0, <2>5, <2>6, <2>7, StepOfUser DEF Untouched
<1>4. CASE gateway_select_with(u)
    BY <1>1, <1>2, <1>4 DEF gateway_select_with
<1>5. CASE extract_and_store_pki(u)
    BY <1>1, <1>3, <1>5 DEF extract_and_store_pki
<1> QED  BY <1>4, <1>5

-------------------------------------------------------------------------------
(* The steps of a deployment. *)

\* A step that touches at most the gateway g.
Touches(g) == Shapes' /\ \A h \in Gateways : h # g => View(h)' = View(h)

LEMMA UntouchedOk ==
    ASSUME IInv, Untouched, NEW g
    PROVE  Touches(g) /\ (g \in Gateways => View(g)' = View(g) /\ Sane(View(g)'))
BY DEF IInv, Untouched, Touches

\* What a step that changes Docker and the cluster of g does to the view of g.
LEMMA ViewStep ==
    ASSUME IInv, NEW g, NEW d, NEW k, UNCHANGED disk,
           DOMAIN docker' = Gateways, \A h \in Gateways : docker'[h] = IF h = g THEN d ELSE docker[h],
           DOMAIN cluster' = Gateways, \A h \in Gateways : cluster'[h] = IF h = g THEN k ELSE cluster[h],
           g \in Gateways => DOMAIN d = DockerFields /\ DOMAIN k = DOMAIN NoCluster
    PROVE  /\ Touches(g)
           /\ g \in Gateways =>
                View(g)' = [container |-> d.container, volume |-> d.volume, server |-> k.server, ca |-> k.ca,
                            client |-> k.client, serving |-> k.serving, tmp |-> disk.mtls_tmp[g],
                            mtls |-> disk.mtls[g], meta |-> disk.metadata[g]]
<1>1. Shapes'
    BY DEF IInv, Shapes
<1>2. \A h \in Gateways : h # g => View(h)' = View(h)
    BY DEF View
<1>3. g \in Gateways => docker'[g] = d /\ cluster'[g] = k
    OBVIOUS
<1> QED  BY <1>1, <1>2, <1>3 DEF Touches, View

LEMMA LadderStep ==
    ASSUME IInv, NEW u \in Users, Solitude(u), NEW g, g = cmd[u].g, NEW r, NEW step, Goes(u, r, step),
           Kept(cmd[u], r), r.g = g, r.a = cmd[u].a,
           cmd[u].pc \in Ladder \ {"activate"}, step \notin Cleanup \cup {"extract", "select"},
           step \in Before \cup Filed => r.a.op # "add",
           Touches(g), g \in Gateways => Sane(View(g)'),
           g \in Gateways /\ cmd[u].a \in Scripted /\ r.a.op # "add" /\ step \in Ladder
              /\ Done(cmd[u], View(g)) => Done([r EXCEPT !.pc = step], View(g)')
    PROVE  IInv'
<1>1. PICK c : c = cmd[u]
    OBVIOUS
<1>2. PICK c1 : c1 = [r EXCEPT !.pc = step]
    OBVIOUS
<1>3. CmdOk(c) /\ c.pc \in Ladder \ {"activate"} /\ c.pc \notin Cleanup \cup {"ok", "err", "idle"}
    BY <1>1 DEF IInv, Ladder, Before, Blank, Signed, Filed, Cleanup
<1>4. /\ DOMAIN c1 = CmdFields /\ c1.pc = step /\ c1.todo = c.todo /\ c1.then = c.then /\ c1.after = c.after
      /\ c1.ret \in {"ok", "del_stop"} /\ c1.result \in {"ok", "err"} /\ c1.g = c.g /\ c1.a = c.a
    BY <1>1, <1>2, Fields DEF Kept
<1>5. c1.after # "failed" /\ ~Removes(c1) /\ ~Failed(c1) /\ c1.pc \notin Cleanup
    BY <1>3, <1>4 DEF CmdOk, Removes, Failed
<1>6. Deploys(c1) => Deploys(c)
    BY <1>3, <1>4 DEF Deploys
<1>7. Deploys(c) => g \in Gateways /\ c.a \in Scripted
    BY <1>1, <1>3 DEF CmdOk
<1>8. CmdOk(c1)
    <2>1. c1.pc \in Before \cup Filed => c1.a.op # "add"
        BY <1>1, <1>4
    <2> QED  BY <1>1, <1>3, <1>4, <1>5, <1>6, <1>7, <2>1 DEF CmdOk
<1>9. Facts(c, View(g)) => Facts(c1, View(g)')
    <2> SUFFICES ASSUME Facts(c, View(g)), Deploys(c1) PROVE Done(c1, View(g)')
        BY <1>5 DEF Facts, Failed, Cleanup
    <2>1. Done(c, View(g))
        BY <1>6 DEF Facts
    <2>2. r.a.op # "add" /\ step \in Ladder
        BY <1>1, <1>4 DEF Deploys
    <2> QED  BY <1>1, <1>2, <1>6, <1>7, <2>1, <2>2
<1>10. cmd' = [cmd EXCEPT ![u] = c1] /\ ~Over(u) /\ c1.g = g
    BY <1>1, <1>2, <1>3, <1>4 DEF Goes, Over
<1> QED  BY <1>1, <1>8, <1>9, <1>10, StepOfUser DEF Touches

\* Back to the removal of what is there, before a new start or after an error.
LEMMA TearDownStep ==
    ASSUME IInv, NEW u \in Users, Solitude(u), NEW g, g = cmd[u].g, NEW after,
           Goes(u, [cmd[u] EXCEPT !.after = after], "d_stop"), after \in {"image", "failed"},
           Deploys(cmd[u]), Touches(g), g \in Gateways => Sane(View(g)')
    PROVE  IInv'
<1>1. PICK c : c = cmd[u]
    OBVIOUS
<1>2. PICK c1 : c1 = [[c EXCEPT !.after = after] EXCEPT !.pc = "d_stop"]
    OBVIOUS
<1>3. CmdOk(c) /\ Deploys(c)
    BY <1>1 DEF IInv
<1>4. /\ DOMAIN c1 = CmdFields /\ c1.pc = "d_stop" /\ c1.todo = c.todo /\ c1.then = c.then /\ c1.after = after
      /\ c1.ret = c.ret /\ c1.result = c.result /\ c1.g = c.g /\ c1.a = c.a
    BY <1>2, <1>3, Fields DEF CmdOk
<1>5. CmdOk(c1) /\ \A w : Facts(c1, w)
    <2>1. ~Deploys(c1) /\ ~Failed(c1) /\ c1.pc \in Cleanup /\ c1.pc \notin Before \cup Filed
        BY <1>4 DEF Deploys, Failed, Ladder, Before, Blank, Signed, Filed, Cleanup
    <2> QED  BY <1>3, <1>4, <2>1 DEF CmdOk, Facts
<1>6. cmd' = [cmd EXCEPT ![u] = c1]
    BY <1>1, <1>2 DEF Goes
<1> QED  BY <1>1, <1>4, <1>5, <1>6, StepOfUser DEF Touches

LEMMA RaiseStep ==
    ASSUME IInv, NEW u \in Users, Solitude(u), NEW g, g = cmd[u].g, Raise(u),
           cmd[u].pc \in Ladder \ {"activate"}, Touches(g), g \in Gateways => Sane(View(g)')
    PROVE  IInv'
<1>0. CmdOk(cmd[u]) /\ Kept(cmd[u], cmd[u])
    BY KeptSelf DEF IInv
<1>1. CASE cmd[u].pc \in Guarded /\ Arg(u).op # "add"
    <2>1. Deploys(cmd[u])
        BY <1>1 DEF Deploys, Arg
    <2>2. Goes(u, [cmd[u] EXCEPT !.after = "failed"], "d_stop")
        <3>1. PICK c : c = cmd[u]
            OBVIOUS
        <3>2. [c EXCEPT !.pc = "d_stop", !.after = "failed"] = [[c EXCEPT !.after = "failed"] EXCEPT !.pc = "d_stop"]
            BY <1>0, <3>1, Fields DEF CmdOk
        <3>3. cmd' = [cmd EXCEPT ![u] = [c EXCEPT !.pc = "d_stop", !.after = "failed"]]
            BY <1>1, <3>1 DEF Raise, Raised
        <3> QED  BY <3>1, <3>2, <3>3 DEF Goes
    <2> QED  BY <2>1, <2>2, TearDownStep
<1>2. CASE ~(cmd[u].pc \in Guarded /\ Arg(u).op # "add")
    <2>1. Goes(u, cmd[u], "err")
        BY <1>2 DEF Raise, Raised, Goes
    <2>2. "err" \notin Ladder \cup Cleanup \cup Before \cup Filed \cup {"extract", "select"}
        BY DEF Ladder, Before, Blank, Signed, Filed, Cleanup
    <2> QED  BY <1>0, <2>1, <2>2, LadderStep
<1> QED  BY <1>1, <1>2

\* The rungs of the ladder.
Matches(c, w) ==
    /\ w.server = c.certs.ca /\ w.ca = c.certs.ca /\ c.certs.client = c.certs.ca
    /\ w.serving \in {None, [server |-> c.certs.ca, ca |-> c.certs.ca]}

LEMMA Rungs ==
    ASSUME NEW c, NEW w
    PROVE  /\ c.pc \in Before => Done(c, w)
           /\ c.pc \in Blank => (Done(c, w) <=> Unsigned(w))
           /\ c.pc = "apply_server" => (Done(c, w) <=> Unsigned(w) /\ c.certs.ca = c.certs.client)
           /\ c.pc = "apply_ca" => (Done(c, w) <=> /\ c.certs.ca = c.certs.client /\ w.server = c.certs.ca
                                                   /\ w.ca = 0 /\ w.serving = None)
           /\ c.pc \in {"apply_client", "restart", "pki_write"} => (Done(c, w) <=> Matches(c, w))
           /\ c.pc \in {"pki_backup", "pki_swap"} => (Done(c, w) <=> Matches(c, w) /\ w.tmp = c.certs)
           /\ c.pc \in {"push", "push_restart", "ready"} =>
                 (Done(c, w) <=> Matches(c, w) /\ w.mtls = c.certs /\ w.mtls # None)
           /\ c.pc = "metadata" => (Done(c, w) <=> /\ Matches(c, w) /\ w.mtls = c.certs /\ w.mtls # None
                                                   /\ w.serving # None)
           /\ c.pc \in {"activate", "boot_activate"} =>
                 (Done(c, w) <=> /\ Matches(c, w) /\ w.mtls = c.certs /\ w.mtls # None
                                 /\ w.serving # None /\ w.meta # None)
<1> USE DEF Before, Blank, Signed, Filed
<1>1. c.pc \in Before => Done(c, w)
    BY DEF Done
<1>2. c.pc \in Blank => (Done(c, w) <=> Unsigned(w))
    BY DEF Done
<1>3. c.pc = "apply_server" => (Done(c, w) <=> Unsigned(w) /\ c.certs.ca = c.certs.client)
    BY DEF Done
<1>4. c.pc = "apply_ca" => (Done(c, w) <=> /\ c.certs.ca = c.certs.client /\ w.server = c.certs.ca
                                           /\ w.ca = 0 /\ w.serving = None)
    BY DEF Done
<1>5. c.pc \in {"apply_client", "restart", "pki_write"} => (Done(c, w) <=> Matches(c, w))
    BY DEF Done, Matches
<1>6. c.pc \in {"pki_backup", "pki_swap"} => (Done(c, w) <=> Matches(c, w) /\ w.tmp = c.certs)
    BY DEF Done, Matches
<1>7. c.pc \in {"push", "push_restart", "ready"} =>
                 (Done(c, w) <=> Matches(c, w) /\ w.mtls = c.certs /\ w.mtls # None)
    BY DEF Done, Matches
<1>8. c.pc = "metadata" => (Done(c, w) <=> /\ Matches(c, w) /\ w.mtls = c.certs /\ w.mtls # None
                                           /\ w.serving # None)
    BY DEF Done, Matches
<1>9. c.pc \in {"activate", "boot_activate"} =>
                 (Done(c, w) <=> /\ Matches(c, w) /\ w.mtls = c.certs /\ w.mtls # None
                                 /\ w.serving # None /\ w.meta # None)
    BY DEF Done, Matches
<1> HIDE DEF Before, Blank, Signed, Filed
<1> QED  BY <1>1, <1>2, <1>3, <1>4, <1>5, <1>6, <1>7, <1>8, <1>9

\* A step of a deployment that changes nothing in a view.
LEMMA LadderMove ==
    ASSUME IInv, NEW u \in Users, Solitude(u), Untouched, NEW r, NEW step, Goes(u, r, step),
           Kept(cmd[u], r), r.g = cmd[u].g, r.a = cmd[u].a,
           cmd[u].pc \in Ladder \ {"activate"}, step \notin Cleanup \cup {"extract", "select"},
           step \in Before \cup Filed => r.a.op # "add",
           cmd[u].g \in Gateways /\ r.a.op # "add" /\ step \in Ladder /\ Done(cmd[u], View(cmd[u].g)) =>
              Done([r EXCEPT !.pc = step], View(cmd[u].g))
    PROVE  IInv'
<1>1. PICK g : g = cmd[u].g
    OBVIOUS
<1>2. Touches(g) /\ (g \in Gateways => View(g)' = View(g) /\ Sane(View(g)'))
    BY UntouchedOk
<1>3. g \in Gateways /\ r.a.op # "add" /\ step \in Ladder /\ Done(cmd[u], View(g)) =>
              Done([r EXCEPT !.pc = step], View(g)')
    BY <1>1, <1>2
<1> QED  BY <1>1, <1>2, <1>3, LadderStep

LEMMA KeptLocals ==
    ASSUME NEW c, CmdOk(c)
    PROVE  \A x : /\ Kept(c, [c EXCEPT !.recreate = x]) /\ Kept(c, [c EXCEPT !.existed = x])
                  /\ Kept(c, [c EXCEPT !.certs = x]) /\ Kept(c, [c EXCEPT !.image = x])
                  /\ [c EXCEPT !.recreate = x].g = c.g /\ [c EXCEPT !.existed = x].g = c.g
                  /\ [c EXCEPT !.certs = x].g = c.g /\ [c EXCEPT !.image = x].g = c.g
                  /\ [c EXCEPT !.recreate = x].a = c.a /\ [c EXCEPT !.existed = x].a = c.a
                  /\ [c EXCEPT !.certs = x].a = c.a /\ [c EXCEPT !.image = x].a = c.a
BY Fields DEF CmdOk, Kept

LEMMA Relabelled ==
    ASSUME NEW c, NEW r, NEW step, Kept(c, r)
    PROVE  [r EXCEPT !.pc = step].pc = step /\ [r EXCEPT !.pc = step].certs = r.certs
BY Fields DEF Kept

\* gateway_admin_deploy, check_existing_gateway: what exists is kept, removed,
\* or there was nothing.
LEMMA DeployStarts ==
    ASSUME IInv, NEW u \in Users, Solitude(u), gateway_admin_deploy(u) \/ check_existing_gateway(u)
    PROVE  IInv'
<1>0. CmdOk(cmd[u]) /\ Kept(cmd[u], cmd[u]) /\ Untouched
    BY KeptSelf, SameBoot DEF IInv, gateway_admin_deploy, check_existing_gateway
<1>1. cmd[u].pc \in Before /\ cmd[u].pc \in Ladder \ {"activate"}
    BY DEF gateway_admin_deploy, check_existing_gateway, At, Ladder, Before
<1>2. /\ \A step \in {"ok", "existing", "image"} : step \notin Cleanup \cup Filed \cup {"extract", "select"}
      /\ cmd[u].a.op # "add"
    BY <1>0, <1>1 DEF Filed, Cleanup, CmdOk
<1>3. CASE gateway_admin_deploy(u)
    <2>1. \/ Goes(u, cmd[u], "existing") \/ Goes(u, cmd[u], "ok")
          \/ Goes(u, [cmd[u] EXCEPT !.recreate = TRUE], "existing")
        BY <1>3 DEF gateway_admin_deploy, Goto
    <2>2. ASSUME NEW r, NEW w, Kept(cmd[u], r)
          PROVE  Done([r EXCEPT !.pc = "existing"], w)
        <3>1. [r EXCEPT !.pc = "existing"].pc \in Before
            BY <2>2, Relabelled DEF Before
        <3> QED  BY <3>1, Rungs
    <2>3. CASE Goes(u, cmd[u], "existing")
        BY <1>0, <1>1, <1>2, <2>2, <2>3, LadderMove
    <2>4. CASE Goes(u, cmd[u], "ok")
        <3>1. "ok" \notin Ladder
            BY DEF Ladder, Before, Blank, Signed, Filed
        <3> QED  BY <1>0, <1>1, <1>2, <2>4, <3>1, LadderMove
    <2>5. CASE Goes(u, [cmd[u] EXCEPT !.recreate = TRUE], "existing")
        <3>1. PICK r : r = [cmd[u] EXCEPT !.recreate = TRUE]
            OBVIOUS
        <3>2. Kept(cmd[u], r) /\ r.g = cmd[u].g /\ r.a = cmd[u].a
            BY <1>0, <3>1, KeptLocals
        <3>3. Goes(u, r, "existing")
            BY <2>5, <3>1
        <3> QED  BY <1>0, <1>1, <1>2, <2>2, <3>2, <3>3, LadderMove
    <2> QED  BY <2>1, <2>3, <2>4, <2>5
<1>4. CASE check_existing_gateway(u) /\ ~Exists(Gw(u))
    <2>1. Goes(u, cmd[u], "image") /\ cmd[u].pc = "existing"
        BY <1>4 DEF check_existing_gateway, Goto, At
    <2>2. cmd[u].g \in Gateways => Unsigned(View(cmd[u].g))
        BY <1>4 DEF Exists, IInv, View, Sane, Gw
    <2>3. [cmd[u] EXCEPT !.pc = "image"].pc \in Blank
        BY <1>0, Relabelled DEF Blank
    <2>4. cmd[u].g \in Gateways => Done([cmd[u] EXCEPT !.pc = "image"], View(cmd[u].g))
        BY <2>2, <2>3, Rungs
    <2> QED  BY <1>0, <1>1, <1>2, <2>1, <2>4, LadderMove
<1>5. CASE check_existing_gateway(u) /\ Exists(Gw(u)) /\ cmd[u].recreate
    <2>1. Goes(u, [cmd[u] EXCEPT !.after = "image"], "d_stop") /\ cmd[u].pc = "existing"
        BY <1>5 DEF check_existing_gateway, At
    <2>2. PICK g : g = cmd[u].g
        OBVIOUS
    <2>3. Touches(g) /\ (g \in Gateways => Sane(View(g)'))
        BY <1>0, UntouchedOk
    <2>4. CASE Deploys(cmd[u])
        BY <2>1, <2>2, <2>3, <2>4, TearDownStep
    <2> QED  BY <1>1, <1>2, <2>1, <2>4 DEF Deploys
<1>6. CASE check_existing_gateway(u) /\ Raise(u)
    <2>1. PICK g : g = cmd[u].g
        OBVIOUS
    <2>2. Touches(g) /\ (g \in Gateways => Sane(View(g)'))
        BY <1>0, UntouchedOk
    <2> QED  BY <1>1, <1>6, <2>1, <2>2, RaiseStep
<1> QED  BY <1>3, <1>4, <1>5, <1>6 DEF check_existing_gateway

\* From one blank rung to the next: the certificates stay as they are.
LEMMA BlankStep ==
    ASSUME IInv, NEW u \in Users, Solitude(u), NEW g, g = cmd[u].g, NEW r, NEW step, Goes(u, r, step),
           Kept(cmd[u], r), r.g = g, r.a = cmd[u].a, cmd[u].pc \in Blank, step \in Blank,
           Touches(g), g \in Gateways => Sane(View(g)'),
           g \in Gateways /\ Unsigned(View(g)) => Unsigned(View(g)')
    PROVE  IInv'
<1>1. /\ cmd[u].pc \in Ladder \ {"activate"}
      /\ step \notin Cleanup \cup Before \cup Filed \cup {"extract", "select"}
    BY DEF Ladder, Before, Blank, Signed, Filed, Cleanup
<1>2. [r EXCEPT !.pc = step].pc \in Blank
    BY Relabelled
<1>3. g \in Gateways /\ Done(cmd[u], View(g)) => Done([r EXCEPT !.pc = step], View(g)')
    BY <1>2, Rungs
<1> QED  BY <1>1, <1>3, LadderStep

LEMMA BlankRaise ==
    ASSUME IInv, NEW u \in Users, Solitude(u), Raise(u), Untouched, cmd[u].pc \in Ladder \ {"activate"}
    PROVE  IInv'
<1>1. PICK g : g = cmd[u].g
    OBVIOUS
<1>2. Touches(g) /\ (g \in Gateways => Sane(View(g)'))
    BY UntouchedOk
<1> QED  BY <1>1, <1>2, RaiseStep

\* The image, the network and the volume; the free port.
LEMMA ResourcesIInv ==
    ASSUME IInv, NEW u \in Users, Solitude(u),
           ensure_image(u) \/ ensure_network(u) \/ ensure_volume(u) \/ check_port_conflicts(u)
    PROVE  IInv'
<1>0. CmdOk(cmd[u]) /\ Kept(cmd[u], cmd[u]) /\ Shapes
    BY KeptSelf DEF IInv
<1>1. PICK g : g = cmd[u].g
    OBVIOUS
<1>2. cmd[u].pc \in Blank /\ cmd[u].pc \in Ladder \ {"activate"}
    BY DEF ensure_image, ensure_network, ensure_volume, check_port_conflicts, At, Ladder, Blank
<1>3. \A step \in {"network", "volume", "ports", "container"} : step \in Blank
    BY DEF Blank
<1>4. CASE ensure_image(u) \/ check_port_conflicts(u)
    <2>1. Untouched
        BY <1>0, <1>4 DEF Untouched, Shapes, View, ensure_image, check_port_conflicts, bootVars
    <2>2. Touches(g) /\ (g \in Gateways => View(g)' = View(g) /\ Sane(View(g)'))
        BY <2>1, UntouchedOk
    <2>3. CASE Goes(u, cmd[u], "network") \/ Goes(u, cmd[u], "container")
        BY <1>0, <1>1, <1>2, <1>3, <2>2, <2>3, BlankStep
    <2>4. CASE Raise(u)
        BY <1>2, <2>1, <2>4, BlankRaise
    <2> QED  BY <1>4, <2>3, <2>4 DEF ensure_image, check_port_conflicts, Goto
<1>5. CASE ensure_network(u) \/ ensure_volume(u)
    <2>1. UNCHANGED <<cluster, disk>> /\ (Goes(u, cmd[u], "volume") \/ Goes(u, cmd[u], "ports"))
        BY <1>5 DEF ensure_network, ensure_volume, Goto
    <2>2. PICK d : /\ docker' = [docker EXCEPT ![g] = d]
                   /\ d = [docker[g] EXCEPT !.network = TRUE] \/ d = [docker[g] EXCEPT !.volume = TRUE]
        BY <1>1, <1>5 DEF ensure_network, ensure_volume, Gw
    <2>3. g \in Gateways => /\ DOMAIN d = DockerFields /\ d.container = docker[g].container
                            /\ d.volume = docker[g].volume \/ d.volume
        BY <1>0, <2>2 DEF Shapes, DockerFields
    <2>4. /\ DOMAIN docker' = Gateways /\ \A h \in Gateways : docker'[h] = IF h = g THEN d ELSE docker[h]
          /\ DOMAIN cluster' = Gateways /\ \A h \in Gateways : cluster'[h] = IF h = g THEN cluster[g] ELSE cluster[h]
        BY <1>0, <2>1, <2>2 DEF Shapes
    <2>5. g \in Gateways => DOMAIN d = DockerFields /\ DOMAIN cluster[g] = DOMAIN NoCluster
        BY <1>0, <2>3 DEF Shapes
    <2>6. UNCHANGED disk
        BY <2>1
    <2>7. /\ Touches(g)
          /\ g \in Gateways =>
                View(g)' = [container |-> d.container, volume |-> d.volume, server |-> cluster[g].server,
                            ca |-> cluster[g].ca, client |-> cluster[g].client, serving |-> cluster[g].serving,
                            tmp |-> disk.mtls_tmp[g], mtls |-> disk.mtls[g], meta |-> disk.metadata[g]]
        BY <2>4, <2>5, <2>6, ViewStep
    <2>8. g \in Gateways => Sane(View(g)') /\ (Unsigned(View(g)) => Unsigned(View(g)'))
        <3>1. g \in Gateways => Sane(View(g))
            BY DEF IInv
        <3> QED  BY <2>3, <2>7, <3>1 DEF Sane, Unsigned, View
    <2> QED  BY <1>0, <1>1, <1>2, <1>3, <2>1, <2>7, <2>8, BlankStep
<1> QED  BY <1>4, <1>5

\* The container and its start; the stale nodes.
LEMMA ContainerIInv ==
    ASSUME IInv, NEW u \in Users, Solitude(u),
           \/ ensure_container(u) \/ RemoveStale(u) \/ create_container(u) \/ start_container(u)
           \/ clean_stale_nodes(u)
    PROVE  IInv'
<1>0. CmdOk(cmd[u]) /\ Kept(cmd[u], cmd[u]) /\ Shapes
    BY KeptSelf DEF IInv
<1>1. PICK g : g = cmd[u].g
    OBVIOUS
<1>2. cmd[u].pc \in Blank
    BY DEF ensure_container, RemoveStale, create_container, start_container, clean_stale_nodes, At, Blank
<1>3. PICK r : /\ Kept(cmd[u], r) /\ r.g = g /\ r.a = cmd[u].a
               /\ \E step \in {"replace", "make", "start", "workload", "reconcile"} : Goes(u, r, step)
    <2>1. CASE ensure_container(u) \/ RemoveStale(u) \/ create_container(u) \/ start_container(u)
        <3>1. \E step \in {"replace", "make", "start", "workload", "reconcile"} : Goes(u, cmd[u], step)
            BY <2>1 DEF ensure_container, RemoveStale, create_container, start_container, Goto
        <3> QED  BY <1>0, <1>1, <3>1
    <2>2. CASE clean_stale_nodes(u)
        <3>1. PICK x : Goes(u, [cmd[u] EXCEPT !.existed = x], "reconcile")
            BY <2>2 DEF clean_stale_nodes
        <3>2. PICK r : r = [cmd[u] EXCEPT !.existed = x]
            OBVIOUS
        <3>3. Kept(cmd[u], r) /\ r.g = g /\ r.a = cmd[u].a
            BY <1>0, <1>1, <3>2, KeptLocals
        <3> QED  BY <3>1, <3>2, <3>3
    <2> QED  BY <2>1, <2>2
<1>4. PICK step \in {"replace", "make", "start", "workload", "reconcile"} : Goes(u, r, step)
    BY <1>3
<1>5. step \in Blank
    BY DEF Blank
<1>6. PICK d : /\ DOMAIN docker' = Gateways /\ \A h \in Gateways : docker'[h] = IF h = g THEN d ELSE docker[h]
               /\ g \in Gateways => /\ DOMAIN d = DockerFields
                                    /\ d.volume = docker[g].volume \/ d.volume
                                    /\ d.volume \/ d.container = docker[g].container
                                                \/ docker[g].container # "none"
    <2>1. \/ docker' = docker
          \/ docker' = [docker EXCEPT ![g].container = "created", ![g].volume = TRUE,
                                      ![g].image = Arg(u).image, ![g].port = Arg(u).port]
          \/ docker[g].container # "none" /\ \E x : docker' = [docker EXCEPT ![g].container = x]
          \/ docker' = [docker EXCEPT ![g].container = "none", ![g].image = None]
        BY <1>1 DEF ensure_container, RemoveStale, create_container, start_container, clean_stale_nodes, Gw
    <2>2. CASE docker' = docker
        BY <1>0, <2>2 DEF Shapes
    <2>3. CASE docker' = [docker EXCEPT ![g].container = "created", ![g].volume = TRUE,
                                        ![g].image = Arg(u).image, ![g].port = Arg(u).port]
        <3>1. PICK d : d = [docker[g] EXCEPT !.container = "created", !.volume = TRUE,
                                             !.image = Arg(u).image, !.port = Arg(u).port]
            OBVIOUS
        <3>2. g \in Gateways => DOMAIN d = DockerFields /\ d.volume
            BY <1>0, <3>1 DEF Shapes, DockerFields
        <3>3. DOMAIN docker' = Gateways /\ \A h \in Gateways : docker'[h] = IF h = g THEN d ELSE docker[h]
            BY <1>0, <2>3, <3>1 DEF Shapes
        <3> QED  BY <3>2, <3>3
    <2>4. CASE docker[g].container # "none" /\ \E x : docker' = [docker EXCEPT ![g].container = x]
        <3>0. PICK x : docker' = [docker EXCEPT ![g].container = x]
            BY <2>4
        <3>1. PICK d : d = [docker[g] EXCEPT !.container = x]
            OBVIOUS
        <3>2. g \in Gateways => DOMAIN d = DockerFields /\ d.volume = docker[g].volume
            BY <1>0, <3>1 DEF Shapes, DockerFields
        <3>3. DOMAIN docker' = Gateways /\ \A h \in Gateways : docker'[h] = IF h = g THEN d ELSE docker[h]
            BY <1>0, <3>0, <3>1 DEF Shapes
        <3> QED  BY <2>4, <3>2, <3>3
    <2>5. CASE docker' = [docker EXCEPT ![g].container = "none", ![g].image = None]
        <3>1. PICK d : d = [docker[g] EXCEPT !.container = "none", !.image = None]
            OBVIOUS
        <3>2. g \in Gateways => DOMAIN d = DockerFields /\ d.volume = docker[g].volume /\ d.container = "none"
            BY <1>0, <3>1 DEF Shapes, DockerFields
        <3>3. DOMAIN docker' = Gateways /\ \A h \in Gateways : docker'[h] = IF h = g THEN d ELSE docker[h]
            BY <1>0, <2>5, <3>1 DEF Shapes
        <3> QED  BY <3>2, <3>3
    <2> QED  BY <2>1, <2>2, <2>3, <2>4, <2>5
<1>7. PICK k : /\ DOMAIN cluster' = Gateways /\ \A h \in Gateways : cluster'[h] = IF h = g THEN k ELSE cluster[h]
               /\ g \in Gateways => /\ DOMAIN k = DOMAIN NoCluster
                                    /\ k.server = cluster[g].server /\ k.ca = cluster[g].ca
                                    /\ k.client = cluster[g].client
                                    /\ k.serving = cluster[g].serving \/ k.serving = None
    <2>1. \/ cluster' = cluster
          \/ cluster' = [cluster EXCEPT ![g].serving = None, ![g].ghosts = cluster[g].namespace]
          \/ cluster' = [cluster EXCEPT ![g].serving = None]
          \/ \E x : cluster' = [cluster EXCEPT ![g].ghosts = x]
        BY <1>1, Zenon DEF ensure_container, RemoveStale, create_container, start_container, clean_stale_nodes, Gw
    <2>2. CASE cluster' = cluster
        BY <1>0, <2>2 DEF Shapes
    <2>3. CASE cluster' = [cluster EXCEPT ![g].serving = None, ![g].ghosts = cluster[g].namespace]
        <3>1. PICK k : k = [cluster[g] EXCEPT !.serving = None, !.ghosts = cluster[g].namespace]
            OBVIOUS
        <3>2. g \in Gateways => /\ DOMAIN k = DOMAIN NoCluster
                                /\ k.server = cluster[g].server /\ k.ca = cluster[g].ca
                                /\ k.client = cluster[g].client /\ k.serving = None
            BY <1>0, <3>1 DEF Shapes, NoCluster
        <3>3. DOMAIN cluster' = Gateways /\ \A h \in Gateways : cluster'[h] = IF h = g THEN k ELSE cluster[h]
            BY <1>0, <2>3, <3>1 DEF Shapes
        <3> QED  BY <3>2, <3>3
    <2>4. ASSUME NEW x, cluster' = [cluster EXCEPT ![g].ghosts = x]
          PROVE  \E k : /\ DOMAIN cluster' = Gateways
                        /\ \A h \in Gateways : cluster'[h] = IF h = g THEN k ELSE cluster[h]
                        /\ g \in Gateways => /\ DOMAIN k = DOMAIN NoCluster
                                             /\ k.server = cluster[g].server /\ k.ca = cluster[g].ca
                                             /\ k.client = cluster[g].client
                                             /\ k.serving = cluster[g].serving \/ k.serving = None
        <3>1. PICK k : k = [cluster[g] EXCEPT !.ghosts = x]
            OBVIOUS
        <3>2. g \in Gateways => /\ DOMAIN k = DOMAIN NoCluster
                                /\ k.server = cluster[g].server /\ k.ca = cluster[g].ca
                                /\ k.client = cluster[g].client /\ k.serving = cluster[g].serving
            BY <1>0, <3>1 DEF Shapes, NoCluster
        <3>3. DOMAIN cluster' = Gateways /\ \A h \in Gateways : cluster'[h] = IF h = g THEN k ELSE cluster[h]
            BY <1>0, <2>4, <3>1 DEF Shapes
        <3> QED  BY <3>2, <3>3
    <2>5. CASE cluster' = [cluster EXCEPT ![g].serving = None]
        <3>1. PICK k : k = [cluster[g] EXCEPT !.serving = None]
            OBVIOUS
        <3>2. g \in Gateways => /\ DOMAIN k = DOMAIN NoCluster
                                /\ k.server = cluster[g].server /\ k.ca = cluster[g].ca
                                /\ k.client = cluster[g].client /\ k.serving = None
            BY <1>0, <3>1 DEF Shapes, NoCluster
        <3>3. DOMAIN cluster' = Gateways /\ \A h \in Gateways : cluster'[h] = IF h = g THEN k ELSE cluster[h]
            BY <1>0, <2>5, <3>1 DEF Shapes
        <3> QED  BY <3>2, <3>3
    <2> QED  BY <2>1, <2>2, <2>3, <2>4, <2>5
<1>8. UNCHANGED disk
    BY DEF ensure_container, RemoveStale, create_container, start_container, clean_stale_nodes
<1>9. /\ Touches(g)
      /\ g \in Gateways =>
            View(g)' = [container |-> d.container, volume |-> d.volume, server |-> k.server, ca |-> k.ca,
                        client |-> k.client, serving |-> k.serving, tmp |-> disk.mtls_tmp[g],
                        mtls |-> disk.mtls[g], meta |-> disk.metadata[g]]
    BY <1>6, <1>7, <1>8, ViewStep
<1>10. g \in Gateways => Sane(View(g)') /\ (Unsigned(View(g)) => Unsigned(View(g)'))
    <2>1. g \in Gateways => Sane(View(g))
        BY DEF IInv
    <2> QED  BY <1>6, <1>7, <1>9, <2>1 DEF Sane, Unsigned, View
<1> QED  BY <1>1, <1>2, <1>3, <1>4, <1>5, <1>9, <1>10, BlankStep

\* A deployment that nobody disturbed finds no certificates, and makes them.
LEMMA CertificatesIInv ==
    ASSUME IInv, NEW u \in Users, Solitude(u), load_existing_pki_bundle(u) \/ wait_for_namespace(u)
    PROVE  IInv'
<1>0. CmdOk(cmd[u]) /\ Kept(cmd[u], cmd[u]) /\ Shapes
    BY KeptSelf DEF IInv
<1>1. Untouched
    BY <1>0 DEF load_existing_pki_bundle, wait_for_namespace, bootVars, Untouched, Shapes, View
<1>2. cmd[u].pc \in Blank /\ cmd[u].pc \in Ladder \ {"activate"}
    BY DEF load_existing_pki_bundle, wait_for_namespace, At, Ladder, Blank
<1>3. \A step \in {"namespace", "pki_write", "apply_server"} :
          step \notin Cleanup \cup Before \cup Filed \cup {"extract", "select"}
    BY DEF Before, Filed, Cleanup
<1>4. Done(cmd[u], View(cmd[u].g)) => Unsigned(View(cmd[u].g))
    BY <1>2, Rungs
<1>5. CASE Goes(u, cmd[u], "namespace")
    <2>1. [cmd[u] EXCEPT !.pc = "namespace"].pc \in Blank
        BY <1>0, Relabelled DEF Blank
    <2>2. Done(cmd[u], View(cmd[u].g)) => Done([cmd[u] EXCEPT !.pc = "namespace"], View(cmd[u].g))
        BY <1>4, <2>1, Rungs
    <2> QED  BY <1>0, <1>1, <1>2, <1>3, <1>5, <2>2, LadderMove
<1>6. CASE load_existing_pki_bundle(u) /\ Complete(Gw(u)) /\ Goes(u, [cmd[u] EXCEPT !.certs = Certs(Gw(u))], "pki_write")
    <2>1. PICK r : r = [cmd[u] EXCEPT !.certs = Certs(Gw(u))]
        OBVIOUS
    <2>2. Kept(cmd[u], r) /\ r.g = cmd[u].g /\ r.a = cmd[u].a /\ Goes(u, r, "pki_write")
        BY <1>0, <1>6, <2>1, KeptLocals
    <2>3. ~Unsigned(View(cmd[u].g))
        BY <1>6 DEF Complete, Unsigned, View, Gw
    <2> QED  BY <1>0, <1>1, <1>2, <1>3, <1>4, <2>2, <2>3, LadderMove
<1>7. CASE wait_for_namespace(u)
    <2>1. PICK r : r = [cmd[u] EXCEPT !.certs = [ca |-> bundles + 1, client |-> bundles + 1]]
        OBVIOUS
    <2>2. Kept(cmd[u], r) /\ r.g = cmd[u].g /\ r.a = cmd[u].a /\ Goes(u, r, "apply_server")
        BY <1>0, <1>7, <2>1, KeptLocals DEF wait_for_namespace
    <2>3. r.certs.ca = r.certs.client
        BY <1>0, <2>1, Fields DEF CmdOk
    <2>4. PICK c1 : c1 = [r EXCEPT !.pc = "apply_server"]
        OBVIOUS
    <2>5. c1.pc = "apply_server" /\ c1.certs = r.certs
        BY <2>2, <2>4, Relabelled
    <2>6. Done(cmd[u], View(cmd[u].g)) => Done(c1, View(cmd[u].g))
        BY <1>4, <2>3, <2>5, Rungs
    <2> QED  BY <1>0, <1>1, <1>2, <1>3, <2>2, <2>4, <2>6, LadderMove
<1> QED  BY <1>5, <1>6, <1>7 DEF load_existing_pki_bundle, Goto

\* The three secrets, from one bundle.
LEMMA SecretsIInv ==
    ASSUME IInv, NEW u \in Users, Solitude(u), create_k8s_tls_secrets(u)
    PROVE  IInv'
<1>0. CmdOk(cmd[u]) /\ Kept(cmd[u], cmd[u]) /\ Shapes
    BY KeptSelf DEF IInv
<1>1. PICK g : g = cmd[u].g
    OBVIOUS
<1>2. PICK c : c = cmd[u]
    OBVIOUS
<1>3. /\ UNCHANGED <<docker, disk>> /\ docker[g].container = "running"
      /\ \/ /\ c.pc = "apply_server" /\ Goes(u, cmd[u], "apply_ca")
            /\ cluster' = [cluster EXCEPT ![g].server = c.certs.ca]
         \/ /\ c.pc = "apply_ca" /\ Goes(u, cmd[u], "apply_client")
            /\ cluster' = [cluster EXCEPT ![g].ca = c.certs.ca]
         \/ /\ c.pc = "apply_client" /\ \E step \in {"restart", "pki_write"} : Goes(u, cmd[u], step)
            /\ cluster' = [cluster EXCEPT ![g].client = c.certs.client]
    BY <1>1, <1>2 DEF create_k8s_tls_secrets, At, Running, Gw, Goto
<1>4. PICK step \in {"apply_ca", "apply_client", "restart", "pki_write"} :
          /\ Goes(u, cmd[u], step)
          /\ step = "apply_ca" => /\ c.pc = "apply_server"
                                  /\ cluster' = [cluster EXCEPT ![g].server = c.certs.ca]
          /\ step = "apply_client" => /\ c.pc = "apply_ca"
                                      /\ cluster' = [cluster EXCEPT ![g].ca = c.certs.ca]
          /\ step \in {"restart", "pki_write"} => /\ c.pc = "apply_client"
                                                  /\ cluster' = [cluster EXCEPT ![g].client = c.certs.client]
    <2>1. CASE c.pc = "apply_server"
        BY <1>3, <2>1
    <2>2. CASE c.pc = "apply_ca"
        BY <1>3, <2>2
    <2>3. CASE c.pc = "apply_client"
        BY <1>3, <2>3
    <2> QED  BY <1>3, <2>1, <2>2, <2>3
<1>5. /\ cmd[u].pc \in Ladder \ {"activate"}
      /\ step \notin Cleanup \cup Before \cup Filed \cup {"extract", "select"}
    BY <1>2, <1>4 DEF Ladder, Before, Filed, Cleanup
<1>6. PICK k : k = CASE step = "apply_ca" -> [cluster[g] EXCEPT !.server = c.certs.ca]
                     [] step = "apply_client" -> [cluster[g] EXCEPT !.ca = c.certs.ca]
                     [] OTHER -> [cluster[g] EXCEPT !.client = c.certs.client]
    OBVIOUS
<1>7. g \in Gateways =>
         /\ DOMAIN k = DOMAIN NoCluster
         /\ k.server = (IF step = "apply_ca" THEN c.certs.ca ELSE cluster[g].server)
         /\ k.ca = (IF step = "apply_client" THEN c.certs.ca ELSE cluster[g].ca)
         /\ k.serving = cluster[g].serving
    BY <1>0, <1>6 DEF Shapes, NoCluster
<1>8. DOMAIN cluster' = Gateways /\ \A h \in Gateways : cluster'[h] = IF h = g THEN k ELSE cluster[h]
    BY <1>0, <1>4, <1>6 DEF Shapes
<1>9. /\ Touches(g)
      /\ g \in Gateways =>
            View(g)' = [container |-> docker[g].container, volume |-> docker[g].volume, server |-> k.server,
                        ca |-> k.ca, client |-> k.client, serving |-> k.serving, tmp |-> disk.mtls_tmp[g],
                        mtls |-> disk.mtls[g], meta |-> disk.metadata[g]]
    <2>1. DOMAIN docker' = Gateways /\ \A h \in Gateways : docker'[h] = IF h = g THEN docker[g] ELSE docker[h]
        BY <1>0, <1>3 DEF Shapes
    <2>2. g \in Gateways => DOMAIN docker[g] = DockerFields /\ DOMAIN k = DOMAIN NoCluster
        BY <1>0, <1>7 DEF Shapes
    <2> QED  BY <1>3, <1>8, <2>1, <2>2, ViewStep
<1>10. g \in Gateways => Sane(View(g)')
    <2>1. g \in Gateways => Sane(View(g))
        BY DEF IInv
    <2> QED  BY <1>3, <1>9, <2>1 DEF Sane, View
<1>11. g \in Gateways /\ Done(cmd[u], View(g)) => Done([cmd[u] EXCEPT !.pc = step], View(g)')
    <2> SUFFICES ASSUME g \in Gateways, Done(cmd[u], View(g))
                 PROVE  Done([cmd[u] EXCEPT !.pc = step], View(g)')
        OBVIOUS
    <2>1. PICK w, w1 : w = View(g) /\ w1 = View(g)'
        OBVIOUS
    <2>2. PICK c1 : c1 = [cmd[u] EXCEPT !.pc = step]
        OBVIOUS
    <2>3. c1.pc = step /\ c1.certs = c.certs
        BY <1>0, <1>2, <2>2, Relabelled
    <2>4. /\ w.server = cluster[g].server /\ w.ca = cluster[g].ca /\ w.serving = cluster[g].serving
          /\ w1.server = k.server /\ w1.ca = k.ca /\ w1.serving = k.serving
        BY <1>9, <2>1 DEF View
    <2>5. Done(c, w)
        BY <1>2, <2>1
    <2>6. CASE step = "apply_ca"
        <3>1. Unsigned(w) /\ c.certs.ca = c.certs.client
            BY <1>4, <2>5, <2>6, Rungs
        <3>2. /\ c1.certs.ca = c1.certs.client /\ w1.server = c1.certs.ca
              /\ w1.ca = 0 /\ w1.serving = None
            BY <1>7, <2>3, <2>4, <2>6, <3>1 DEF Unsigned
        <3> QED  BY <2>1, <2>2, <2>3, <2>6, <3>2, Rungs
    <2>7. CASE step = "apply_client"
        <3>1. Matches(c1, w1)
            BY <1>4, <1>7, <2>3, <2>4, <2>5, <2>7, Rungs DEF Matches
        <3> QED  BY <2>1, <2>2, <2>3, <2>7, <3>1, Rungs
    <2>8. CASE step \in {"restart", "pki_write"}
        <3>1. Matches(c1, w1)
            BY <1>4, <1>7, <2>3, <2>4, <2>5, <2>8, Rungs DEF Matches
        <3> QED  BY <2>1, <2>2, <2>3, <2>8, <3>1, Rungs
    <2> QED  BY <2>6, <2>7, <2>8
<1> QED  BY <1>0, <1>1, <1>4, <1>5, <1>9, <1>10, <1>11, LadderStep

\* The pods read the secrets again, which are of one bundle.
LEMMA RestartIInv ==
    ASSUME IInv, NEW u \in Users, Solitude(u), restart_clustershell_deployment(u)
    PROVE  IInv'
<1>0. CmdOk(cmd[u]) /\ Kept(cmd[u], cmd[u]) /\ Shapes
    BY KeptSelf DEF IInv
<1>1. PICK g : g = cmd[u].g
    OBVIOUS
<1>2. PICK c : c = cmd[u]
    OBVIOUS
<1>3. /\ UNCHANGED <<docker, disk>> /\ docker[g].container = "running"
      /\ cluster' = [cluster EXCEPT ![g].serving = [server |-> cluster[g].server, ca |-> cluster[g].ca]]
      /\ c.pc \in {"restart", "push_restart"}
      /\ Goes(u, cmd[u], IF c.pc = "restart" THEN "pki_write" ELSE "ready")
    BY <1>1, <1>2 DEF restart_clustershell_deployment, At, Running, Gw, Goto
<1>4. PICK step : step = IF c.pc = "restart" THEN "pki_write" ELSE "ready"
    OBVIOUS
<1>5. /\ cmd[u].pc \in Ladder \ {"activate"} /\ step \notin Cleanup \cup {"extract", "select"}
      /\ step \in Before \cup Filed => c.a.op # "add"
    BY <1>0, <1>2, <1>3, <1>4 DEF Ladder, Before, Signed, Filed, Cleanup, CmdOk
<1>6. PICK k : k = [cluster[g] EXCEPT !.serving = [server |-> cluster[g].server, ca |-> cluster[g].ca]]
    OBVIOUS
<1>7. g \in Gateways =>
         /\ DOMAIN k = DOMAIN NoCluster /\ k.server = cluster[g].server /\ k.ca = cluster[g].ca
         /\ k.serving = [server |-> cluster[g].server, ca |-> cluster[g].ca]
    BY <1>0, <1>6 DEF Shapes, NoCluster
<1>8. DOMAIN cluster' = Gateways /\ \A h \in Gateways : cluster'[h] = IF h = g THEN k ELSE cluster[h]
    BY <1>0, <1>3, <1>6 DEF Shapes
<1>9. /\ Touches(g)
      /\ g \in Gateways =>
            View(g)' = [container |-> docker[g].container, volume |-> docker[g].volume, server |-> k.server,
                        ca |-> k.ca, client |-> k.client, serving |-> k.serving, tmp |-> disk.mtls_tmp[g],
                        mtls |-> disk.mtls[g], meta |-> disk.metadata[g]]
    <2>1. DOMAIN docker' = Gateways /\ \A h \in Gateways : docker'[h] = IF h = g THEN docker[g] ELSE docker[h]
        BY <1>0, <1>3 DEF Shapes
    <2>2. g \in Gateways => DOMAIN docker[g] = DockerFields /\ DOMAIN k = DOMAIN NoCluster
        BY <1>0, <1>7 DEF Shapes
    <2> QED  BY <1>3, <1>8, <2>1, <2>2, ViewStep
<1>10. g \in Gateways => Sane(View(g)')
    <2>1. g \in Gateways => Sane(View(g))
        BY DEF IInv
    <2> QED  BY <1>3, <1>9, <2>1 DEF Sane, View
<1>11. g \in Gateways /\ Done(cmd[u], View(g)) => Done([cmd[u] EXCEPT !.pc = step], View(g)')
    <2> SUFFICES ASSUME g \in Gateways, Done(cmd[u], View(g))
                 PROVE  Done([cmd[u] EXCEPT !.pc = step], View(g)')
        OBVIOUS
    <2>1. PICK w, w1 : w = View(g) /\ w1 = View(g)'
        OBVIOUS
    <2>2. PICK c1 : c1 = [cmd[u] EXCEPT !.pc = step]
        OBVIOUS
    <2>3. c1.pc = step /\ c1.certs = c.certs
        BY <1>0, <1>2, <2>2, Relabelled
    <2>4. /\ w.server = cluster[g].server /\ w.ca = cluster[g].ca /\ w.mtls = w1.mtls
          /\ w1.server = w.server /\ w1.ca = w.ca /\ w1.serving = [server |-> w.server, ca |-> w.ca]
        BY <1>7, <1>9, <2>1 DEF View
    <2>5. Done(c, w)
        BY <1>2, <2>1
    <2>6. Matches(c, w)
        BY <1>3, <2>5, Rungs
    <2>7. Matches(c1, w1)
        BY <2>3, <2>4, <2>6 DEF Matches
    <2>8. CASE c.pc = "restart"
        <3>1. c1.pc = "pki_write"
            BY <1>4, <2>3, <2>8
        <3> QED  BY <2>1, <2>2, <2>7, <3>1, Rungs
    <2>9. CASE c.pc = "push_restart"
        <3>1. w.mtls = c.certs /\ w.mtls # None
            BY <2>5, <2>9, Rungs
        <3> QED  BY <1>4, <2>1, <2>2, <2>3, <2>4, <2>7, <2>9, <3>1, Rungs
    <2> QED  BY <1>3, <2>8, <2>9
<1> QED  BY <1>0, <1>1, <1>2, <1>3, <1>4, <1>5, <1>9, <1>10, <1>11, LadderStep

\* The images are pushed, the gateway is ready, or a call fails.
LEMMA ReadyIInv ==
    ASSUME IInv, NEW u \in Users, Solitude(u),
           push_local_images(u) \/ wait_for_gateway_ready(u) \/ DockerFails(u)
    PROVE  IInv'
<1>0. CmdOk(cmd[u]) /\ Kept(cmd[u], cmd[u]) /\ Untouched
    BY KeptSelf, SameBoot DEF IInv, push_local_images, wait_for_gateway_ready, DockerFails
<1>1. CASE DockerFails(u)
    <2>1. cmd[u].pc \in Ladder \ {"activate"} /\ Raise(u)
        BY <1>1 DEF DockerFails, Fallible, Ladder, Before, Blank, Signed, Filed
    <2> QED  BY <1>0, <2>1, BlankRaise
<1>2. CASE push_local_images(u) \/ wait_for_gateway_ready(u)
    <2>1. PICK w : w = View(cmd[u].g)
        OBVIOUS
    <2>2. /\ cmd[u].pc \in {"push", "ready"}
          /\ Goes(u, cmd[u], IF cmd[u].pc = "push" THEN "push_restart" ELSE "metadata")
          /\ cmd[u].pc = "ready" => w.serving # None
        BY <1>2, <2>1 DEF push_local_images, wait_for_gateway_ready, At, Goto, Healthy, Gw, View
    <2>3. PICK step : step = IF cmd[u].pc = "push" THEN "push_restart" ELSE "metadata"
        OBVIOUS
    <2>4. PICK c1 : c1 = [cmd[u] EXCEPT !.pc = step]
        OBVIOUS
    <2>5. c1.pc = step /\ c1.certs = cmd[u].certs
        BY <1>0, <2>4, Relabelled
    <2>6. Done(cmd[u], w) => Done(c1, w)
        <3> SUFFICES ASSUME Done(cmd[u], w) PROVE Done(c1, w)
            OBVIOUS
        <3>1. Matches(cmd[u], w) /\ w.mtls = cmd[u].certs /\ w.mtls # None
            BY <2>2, Rungs
        <3>2. Matches(c1, w)
            BY <2>5, <3>1 DEF Matches
        <3> QED  BY <2>2, <2>3, <2>5, <3>1, <3>2, Rungs
    <2>7. /\ cmd[u].pc \in Ladder \ {"activate"} /\ step \notin Cleanup \cup {"extract", "select"}
          /\ cmd[u].a.op # "add"
        BY <1>0, <2>2, <2>3 DEF Ladder, Filed, Cleanup, CmdOk
    <2> QED  BY <1>0, <2>1, <2>2, <2>3, <2>4, <2>6, <2>7, LadderMove
<1> QED  BY <1>1, <1>2

\* A step that writes the files of g.
FilesOf(g, x, y, z) ==
    /\ UNCHANGED <<docker, cluster>> /\ DOMAIN disk' = DiskFields
    /\ DOMAIN disk'.mtls = Gateways /\ \A h \in Gateways : disk'.mtls[h] = IF h = g THEN x ELSE disk.mtls[h]
    /\ DOMAIN disk'.mtls_tmp = Gateways
    /\ \A h \in Gateways : disk'.mtls_tmp[h] = IF h = g THEN y ELSE disk.mtls_tmp[h]
    /\ DOMAIN disk'.metadata = Gateways
    /\ \A h \in Gateways : disk'.metadata[h] = IF h = g THEN z ELSE disk.metadata[h]

LEMMA ViewFiles ==
    ASSUME IInv, NEW g, NEW x, NEW y, NEW z, FilesOf(g, x, y, z)
    PROVE  /\ Touches(g)
           /\ g \in Gateways =>
                /\ Sane(View(g)')
                /\ View(g)'.mtls = x /\ View(g)'.tmp = y /\ View(g)'.meta = z
                /\ View(g)'.server = View(g).server /\ View(g)'.ca = View(g).ca
                /\ View(g)'.serving = View(g).serving
<1>1. Shapes'
    BY DEF FilesOf, IInv, Shapes
<1>2. \A h \in Gateways : h # g => View(h)' = View(h)
    BY DEF FilesOf, View
<1>3. g \in Gateways =>
         View(g)' = [container |-> docker[g].container, volume |-> docker[g].volume,
                     server |-> cluster[g].server, ca |-> cluster[g].ca, client |-> cluster[g].client,
                     serving |-> cluster[g].serving, tmp |-> y, mtls |-> x, meta |-> z]
    BY DEF FilesOf, View
<1>4. g \in Gateways => Sane(View(g))
    BY DEF IInv
<1>5. g \in Gateways => Sane(View(g)')
    BY <1>3, <1>4 DEF Sane, Unsigned, View
<1> QED  BY <1>1, <1>2, <1>3, <1>5 DEF Touches, View

\* The files are of the bundle of the secrets once the new directory is in.
LEMMA StoreIInv ==
    ASSUME IInv, NEW u \in Users, Solitude(u), store_pki_bundle(u)
    PROVE  IInv'
<1>0. CmdOk(cmd[u]) /\ Kept(cmd[u], cmd[u]) /\ Shapes
    BY KeptSelf DEF IInv
<1>1. PICK g : g = cmd[u].g
    OBVIOUS
<1>2. PICK c : c = cmd[u]
    OBVIOUS
<1>3. /\ UNCHANGED <<docker, cluster>> /\ c.pc \in {"pki_write", "pki_backup", "pki_swap"}
      /\ \/ /\ c.pc = "pki_write" /\ disk' = [disk EXCEPT !.mtls_tmp[g] = c.certs]
            /\ \E step \in {"pki_backup", "pki_swap"} : Goes(u, cmd[u], step)
         \/ /\ c.pc = "pki_backup" /\ Goes(u, cmd[u], "pki_swap")
            /\ disk' = [disk EXCEPT !.mtls[g] = None, !.mtls_bak[g] = disk.mtls[g]]
         \/ /\ c.pc = "pki_swap" /\ disk.mtls_tmp[g] # None
            /\ disk' = [disk EXCEPT !.mtls[g] = disk.mtls_tmp[g], !.mtls_tmp[g] = None, !.mtls_bak[g] = None]
            /\ \E step \in {"add_metadata", "push", "ready"} :
                  Goes(u, cmd[u], step) /\ (step # "add_metadata" => c.a.op # "add")
         \/ /\ Raise(u)
            /\ disk' = disk \/ disk' = [disk EXCEPT !.mtls[g] = disk.mtls_bak[g], !.mtls_bak[g] = None]
    BY <1>1, <1>2 DEF store_pki_bundle, At, Gw, Goto, Arg
<1>4. cmd[u].pc \in Ladder \ {"activate"}
    BY <1>2, <1>3 DEF Ladder, Signed
<1>20. UNCHANGED <<docker, cluster>>
    BY <1>3
<1>5. \A step \in {"pki_backup", "pki_swap", "add_metadata", "push", "ready"} :
          /\ step \notin Cleanup \cup {"extract", "select"}
          /\ step \in Before \cup Filed => step \in {"push", "ready"}
    BY DEF Before, Filed, Cleanup
<1>6. PICK w : w = View(g)
    OBVIOUS
<1>7. CASE c.pc = "pki_write" /\ disk' = [disk EXCEPT !.mtls_tmp[g] = c.certs]
             /\ \E step \in {"pki_backup", "pki_swap"} : Goes(u, cmd[u], step)
    <2>1. PICK step \in {"pki_backup", "pki_swap"} : Goes(u, cmd[u], step)
        BY <1>7
    <2>2. /\ DOMAIN disk' = DiskFields /\ disk'.mtls = disk.mtls /\ disk'.metadata = disk.metadata
          /\ disk'.mtls_tmp = [disk.mtls_tmp EXCEPT ![g] = c.certs]
        BY <1>0, <1>7 DEF Shapes, DiskFields
    <2>3. FilesOf(g, disk.mtls[g], c.certs, disk.metadata[g])
        BY <1>0, <1>20, <2>2 DEF Shapes, FilesOf
    <2>4. /\ Touches(g)
          /\ g \in Gateways => /\ Sane(View(g)') /\ View(g)'.tmp = c.certs /\ View(g)'.server = w.server
                               /\ View(g)'.ca = w.ca /\ View(g)'.serving = w.serving
        BY <1>6, <2>3, ViewFiles
    <2>5. g \in Gateways /\ Done(cmd[u], View(g)) => Done([cmd[u] EXCEPT !.pc = step], View(g)')
        <3> SUFFICES ASSUME g \in Gateways, Done(cmd[u], View(g))
                     PROVE  Done([cmd[u] EXCEPT !.pc = step], View(g)')
            OBVIOUS
        <3>1. PICK c1, w1 : c1 = [cmd[u] EXCEPT !.pc = step] /\ w1 = View(g)'
            OBVIOUS
        <3>2. c1.pc = step /\ c1.certs = c.certs
            BY <1>0, <1>2, <3>1, Relabelled
        <3>3. Matches(c, w)
            BY <1>2, <1>6, <1>7, Rungs
        <3>4. Matches(c1, w1) /\ w1.tmp = c1.certs
            BY <2>4, <3>1, <3>2, <3>3 DEF Matches
        <3> QED  BY <3>1, <3>2, <3>4, Rungs
    <2> QED  BY <1>0, <1>1, <1>4, <1>5, <2>1, <2>4, <2>5, LadderStep
<1>8. CASE c.pc = "pki_backup" /\ Goes(u, cmd[u], "pki_swap")
             /\ disk' = [disk EXCEPT !.mtls[g] = None, !.mtls_bak[g] = disk.mtls[g]]
    <2>2. /\ DOMAIN disk' = DiskFields /\ disk'.mtls_tmp = disk.mtls_tmp /\ disk'.metadata = disk.metadata
          /\ disk'.mtls = [disk.mtls EXCEPT ![g] = None]
        BY <1>0, <1>8 DEF Shapes, DiskFields
    <2>3. FilesOf(g, None, disk.mtls_tmp[g], disk.metadata[g])
        BY <1>0, <1>20, <2>2 DEF Shapes, FilesOf
    <2>4. /\ Touches(g)
          /\ g \in Gateways => /\ Sane(View(g)') /\ View(g)'.tmp = disk.mtls_tmp[g] /\ View(g)'.server = w.server
                               /\ View(g)'.ca = w.ca /\ View(g)'.serving = w.serving
        BY <1>6, <2>3, ViewFiles
    <2>5. g \in Gateways /\ Done(cmd[u], View(g)) => Done([cmd[u] EXCEPT !.pc = "pki_swap"], View(g)')
        <3> SUFFICES ASSUME g \in Gateways, Done(cmd[u], View(g))
                     PROVE  Done([cmd[u] EXCEPT !.pc = "pki_swap"], View(g)')
            OBVIOUS
        <3>1. PICK c1, w1 : c1 = [cmd[u] EXCEPT !.pc = "pki_swap"] /\ w1 = View(g)'
            OBVIOUS
        <3>2. c1.pc = "pki_swap" /\ c1.certs = c.certs
            BY <1>0, <1>2, <3>1, Relabelled
        <3>3. Matches(c, w) /\ w.tmp = c.certs /\ w.tmp = disk.mtls_tmp[g]
            BY <1>2, <1>6, <1>8, Rungs DEF View
        <3>4. Matches(c1, w1) /\ w1.tmp = c1.certs
            BY <2>4, <3>1, <3>2, <3>3 DEF Matches
        <3> QED  BY <3>1, <3>2, <3>4, Rungs
    <2> QED  BY <1>0, <1>1, <1>4, <1>5, <1>8, <2>4, <2>5, LadderStep
<1>9. CASE /\ c.pc = "pki_swap" /\ disk.mtls_tmp[g] # None
           /\ disk' = [disk EXCEPT !.mtls[g] = disk.mtls_tmp[g], !.mtls_tmp[g] = None, !.mtls_bak[g] = None]
           /\ \E step \in {"add_metadata", "push", "ready"} :
                  Goes(u, cmd[u], step) /\ (step # "add_metadata" => c.a.op # "add")
    <2>1. PICK step \in {"add_metadata", "push", "ready"} :
                  Goes(u, cmd[u], step) /\ (step # "add_metadata" => c.a.op # "add")
        BY <1>9
    <2>2. /\ DOMAIN disk' = DiskFields /\ disk'.metadata = disk.metadata
          /\ disk'.mtls = [disk.mtls EXCEPT ![g] = disk.mtls_tmp[g]]
          /\ disk'.mtls_tmp = [disk.mtls_tmp EXCEPT ![g] = None]
        BY <1>0, <1>9 DEF Shapes, DiskFields
    <2>3. FilesOf(g, disk.mtls_tmp[g], None, disk.metadata[g])
        BY <1>0, <1>20, <2>2 DEF Shapes, FilesOf
    <2>4. /\ Touches(g)
          /\ g \in Gateways => /\ Sane(View(g)') /\ View(g)'.mtls = disk.mtls_tmp[g] /\ View(g)'.server = w.server
                               /\ View(g)'.ca = w.ca /\ View(g)'.serving = w.serving
        BY <1>6, <2>3, ViewFiles
    <2>5. g \in Gateways /\ step \in Ladder /\ Done(cmd[u], View(g)) => Done([cmd[u] EXCEPT !.pc = step], View(g)')
        <3> SUFFICES ASSUME g \in Gateways, Done(cmd[u], View(g)), step \in Ladder
                     PROVE  Done([cmd[u] EXCEPT !.pc = step], View(g)')
            OBVIOUS
        <3>1. PICK c1, w1 : c1 = [cmd[u] EXCEPT !.pc = step] /\ w1 = View(g)'
            OBVIOUS
        <3>2. c1.pc = step /\ c1.certs = c.certs
            BY <1>0, <1>2, <3>1, Relabelled
        <3>3. Matches(c, w) /\ w.tmp = c.certs /\ w.tmp = disk.mtls_tmp[g]
            BY <1>2, <1>6, <1>9, Rungs DEF View
        <3>4. Matches(c1, w1) /\ w1.mtls = c1.certs /\ w1.mtls # None
            BY <1>9, <2>4, <3>1, <3>2, <3>3 DEF Matches
        <3>5. step \in {"push", "ready"}
            BY <2>1 DEF Ladder, Before, Blank, Signed, Filed
        <3> QED  BY <3>1, <3>2, <3>4, <3>5, Rungs
    <2> QED  BY <1>0, <1>1, <1>2, <1>4, <1>5, <2>1, <2>4, <2>5, LadderStep
<1>10. CASE Raise(u) /\ (disk' = disk \/ disk' = [disk EXCEPT !.mtls[g] = disk.mtls_bak[g], !.mtls_bak[g] = None])
    <2>1. /\ DOMAIN disk' = DiskFields /\ disk'.mtls_tmp = disk.mtls_tmp /\ disk'.metadata = disk.metadata
          /\ disk'.mtls = disk.mtls \/ disk'.mtls = [disk.mtls EXCEPT ![g] = disk.mtls_bak[g]]
        BY <1>0, <1>10 DEF Shapes, DiskFields
    <2>2. PICK x : FilesOf(g, x, disk.mtls_tmp[g], disk.metadata[g])
        <3>1. CASE disk'.mtls = disk.mtls
            <4>1. FilesOf(g, disk.mtls[g], disk.mtls_tmp[g], disk.metadata[g])
                BY <1>0, <1>20, <2>1, <3>1 DEF Shapes, FilesOf
            <4> QED  BY <4>1
        <3>2. CASE disk'.mtls = [disk.mtls EXCEPT ![g] = disk.mtls_bak[g]]
            <4>1. FilesOf(g, disk.mtls_bak[g], disk.mtls_tmp[g], disk.metadata[g])
                BY <1>0, <1>20, <2>1, <3>2 DEF Shapes, FilesOf
            <4> QED  BY <4>1
        <3> QED  BY <2>1, <3>1, <3>2
    <2>4. Touches(g) /\ (g \in Gateways => Sane(View(g)'))
        BY <2>2, ViewFiles
    <2> QED  BY <1>1, <1>4, <1>10, <2>4, RaiseStep
<1> QED  BY <1>3, <1>7, <1>8, <1>9, <1>10

\* The registration comes last; the deployment returns to its caller.
LEMMA MetadataIInv ==
    ASSUME IInv, NEW u \in Users, Solitude(u), store_gateway_metadata(u)
    PROVE  IInv'
<1>0. CmdOk(cmd[u]) /\ Kept(cmd[u], cmd[u]) /\ Shapes
    BY KeptSelf DEF IInv
<1>1. PICK g : g = cmd[u].g
    OBVIOUS
<1>2. PICK c : c = cmd[u]
    OBVIOUS
<1>3. PICK meta : meta = [remote |-> c.a.remote, host |-> c.a.remote, auth |-> "mtls", port |-> c.a.port]
    OBVIOUS
<1>4. /\ UNCHANGED <<docker, cluster>> /\ c.pc = "metadata" /\ Goes(u, cmd[u], c.then)
      /\ disk' = [disk EXCEPT !.metadata[g] = meta]
    BY <1>1, <1>2, <1>3 DEF store_gateway_metadata, At, Gw, Arg, Goto
<1>5. c.then \in {"ok", "activate", "boot_activate"} /\ c.a.op # "add" /\ c.then \notin Cleanup \cup {"extract", "select"}
    BY <1>0, <1>2, <1>4 DEF CmdOk, Filed, Cleanup
<1>6. /\ DOMAIN disk' = DiskFields /\ disk'.mtls = disk.mtls /\ disk'.mtls_tmp = disk.mtls_tmp
      /\ disk'.metadata = [disk.metadata EXCEPT ![g] = meta]
    BY <1>0, <1>4 DEF Shapes, DiskFields
<1>7. FilesOf(g, disk.mtls[g], disk.mtls_tmp[g], meta)
    BY <1>0, <1>4, <1>6 DEF Shapes, FilesOf
<1>8. PICK w : w = View(g)
    OBVIOUS
<1>9. /\ Touches(g)
      /\ g \in Gateways => /\ Sane(View(g)') /\ View(g)'.mtls = disk.mtls[g] /\ View(g)'.meta = meta
                           /\ View(g)'.server = w.server /\ View(g)'.ca = w.ca
                           /\ View(g)'.serving = w.serving
    BY <1>7, <1>8, ViewFiles
<1>10. ASSUME g \in Gateways, c.a \in Scripted, c.then \in Ladder, Done(c, w)
       PROVE  Done([cmd[u] EXCEPT !.pc = c.then], View(g)')
    <2>1. PICK c1, w1 : c1 = [cmd[u] EXCEPT !.pc = c.then] /\ w1 = View(g)'
        OBVIOUS
    <2>2. c1.pc = c.then /\ c1.certs = c.certs
        BY <1>0, <1>2, <2>1, Relabelled
    <2>3. Matches(c, w) /\ w.mtls = c.certs /\ w.mtls # None /\ w.serving # None
        BY <1>4, <1>10, Rungs
    <2>4. meta # None
        BY <1>3, <1>10, SetupAssumption
    <2>5. w.mtls = disk.mtls[g]
        BY <1>8 DEF View
    <2>6. Matches(c1, w1) /\ w1.mtls = c1.certs /\ w1.mtls # None /\ w1.serving # None /\ w1.meta # None
        BY <1>9, <1>10, <2>1, <2>2, <2>3, <2>4, <2>5 DEF Matches
    <2>7. c1.pc \in {"activate", "boot_activate"}
        BY <1>5, <1>10, <2>2 DEF Ladder, Before, Blank, Signed, Filed
    <2> QED  BY <2>1, <2>6, <2>7, Rungs
<1>11. cmd[u].pc \in Ladder \ {"activate"}
    BY <1>2, <1>4 DEF Ladder, Filed
<1>12. g \in Gateways /\ cmd[u].a \in Scripted /\ cmd[u].a.op # "add" /\ c.then \in Ladder
          /\ Done(cmd[u], View(g)) => Done([cmd[u] EXCEPT !.pc = c.then], View(g)')
    BY <1>2, <1>8, <1>10
<1> QED  BY <1>0, <1>1, <1>2, <1>4, <1>5, <1>9, <1>11, <1>12, LadderStep

LEMMA DeployIInv ==
    ASSUME IInv, NEW u \in Users, Solitude(u), DeployStep(u)
    PROVE  IInv'
BY DeployStarts, ResourcesIInv, ContainerIInv, CertificatesIInv, SecretsIInv, RestartIInv, StoreIInv,
   ReadyIInv, MetadataIInv DEF DeployStep

-------------------------------------------------------------------------------
(* Removing and stopping. *)

LEMMA RemovalStep ==
    ASSUME IInv, NEW u \in Users, Solitude(u), NEW g, g = cmd[u].g, NEW r, NEW step, Goes(u, r, step),
           DOMAIN r = CmdFields, r.todo = cmd[u].todo, r.then = cmd[u].then, r.ret = cmd[u].ret,
           r.result = cmd[u].result, r.g = g, r.a = cmd[u].a, cmd[u].pc \in Cleanup,
           step \in Cleanup \cup {"image", "err", "cleanup_metadata"},
           step = "image" => r.after = "image", step = "cleanup_metadata" => r.after = "command",
           r.after = cmd[u].after \/ (r.after = "left" /\ step = "err"),
           Touches(g), g \in Gateways => Sane(View(g)'),
           g \in Gateways /\ Facts(cmd[u], View(g)) => Facts([r EXCEPT !.pc = step], View(g)')
    PROVE  IInv'
<1>1. PICK c : c = cmd[u]
    OBVIOUS
<1>2. PICK c1 : c1 = [r EXCEPT !.pc = step]
    OBVIOUS
<1>3. CmdOk(c) /\ c.pc \in Cleanup
    BY <1>1 DEF IInv
<1>4. /\ DOMAIN c1 = CmdFields /\ c1.pc = step /\ c1.todo = c.todo /\ c1.then = c.then /\ c1.after = r.after
      /\ c1.ret = c.ret /\ c1.result = c.result /\ c1.g = c.g /\ c1.a = c.a
    BY <1>1, <1>2, Fields
<1>5. /\ step \notin Before \cup Filed \cup {"extract", "select"}
      /\ step \in Ladder => step = "image"
      /\ step \in Cleanup => step \notin Ladder
    BY DEF Ladder, Before, Blank, Signed, Filed, Cleanup
<1>6. Deploys(c1) \/ Removes(c1) \/ Failed(c1) => Removes(c)
    BY <1>1, <1>3, <1>4, <1>5 DEF Deploys, Removes, Failed
<1>7. CmdOk(c1)
    <2>1. c1.after = "failed" => c1.pc \in Cleanup \cup {"err", "idle"}
        BY <1>4
    <2>2. c1.pc \in Cleanup => c1.after \in {"image", "failed", "command"}
        BY <1>1, <1>3, <1>4 DEF CmdOk, Cleanup
    <2>3. Deploys(c1) \/ Removes(c1) \/ Failed(c1) => c1.g \in Gateways /\ c1.a \in Scripted
        BY <1>3, <1>4, <1>6 DEF CmdOk
    <2>4. c.todo \in Seq(Scripted) /\ c.then \in {"ok", "activate", "boot_activate"}
          /\ c.ret \in {"ok", "del_stop"} /\ c.result \in {"ok", "err"}
        BY <1>3 DEF CmdOk
    <2> QED  BY <1>4, <1>5, <2>1, <2>2, <2>3, <2>4 DEF CmdOk
<1>8. cmd' = [cmd EXCEPT ![u] = c1] /\ ~Over(u) /\ c1.g = g
    BY <1>1, <1>2, <1>3, <1>4 DEF Goes, Over, Cleanup
<1>9. Facts(cmd[u], View(cmd[u].g)) => Facts(c1, View(c1.g)')
    <2>1. CASE g \in Gateways
        BY <1>2, <1>8, <2>1
    <2>2. CASE g \notin Gateways
        BY <1>7, <1>8, <2>2, NothingHeld
    <2> QED  BY <2>1, <2>2
<1> QED  BY <1>7, <1>8, <1>9, StepOfUser DEF Touches

\* Where nothing is claimed of a gateway that is being removed.
LEMMA StillRemoving ==
    ASSUME NEW c, NEW w, c.pc \in {"d_stop", "d_container", "d_volume"} \/ (c.pc = "err" /\ c.after = "left")
    PROVE  Facts(c, w)
BY DEF Facts, Deploys, Failed, Ladder, Before, Blank, Signed, Filed

\* Stopping and removing the container, or its network, leaves the volume alone.
LEMMA HaltView ==
    ASSUME IInv, NEW u, NEW g, g = cmd[u].g,
           StopForDestroy(u) \/ RemoveContainer(u) \/ force_remove_network(u) \/ stop_container(u)
    PROVE  /\ Touches(g) /\ (g \in Gateways => Sane(View(g)'))
           /\ force_remove_network(u) /\ g \in Gateways => View(g)' = View(g)
<1>0. Shapes
    BY DEF IInv
<1>1. PICK d : /\ DOMAIN docker' = Gateways /\ \A h \in Gateways : docker'[h] = IF h = g THEN d ELSE docker[h]
               /\ g \in Gateways => /\ DOMAIN d = DockerFields /\ d.volume = docker[g].volume
                                    /\ d.container # "none" => docker[g].container # "none"
                                    /\ force_remove_network(u) => d.container = docker[g].container
    <2>1. \/ /\ ~force_remove_network(u) /\ docker' = [docker EXCEPT ![g].container = Halted(g)]
          \/ /\ ~force_remove_network(u) /\ docker' = [docker EXCEPT ![g].container = "none", ![g].image = None]
          \/ docker' = [docker EXCEPT ![g].network = FALSE]
        BY DEF StopForDestroy, RemoveContainer, force_remove_network, stop_container, Gw
    <2>2. PICK d : /\ DOMAIN docker' = Gateways
                   /\ \A h \in Gateways : docker'[h] = IF h = g THEN d ELSE docker[h]
                   /\ \/ d = [docker[g] EXCEPT !.container = Halted(g)] /\ ~force_remove_network(u)
                      \/ d = [docker[g] EXCEPT !.container = "none", !.image = None] /\ ~force_remove_network(u)
                      \/ d = [docker[g] EXCEPT !.network = FALSE]
        <3>1. CASE docker' = [docker EXCEPT ![g].network = FALSE]
            BY <1>0, <3>1 DEF Shapes
        <3>2. CASE ~force_remove_network(u) /\ docker' = [docker EXCEPT ![g].container = Halted(g)]
            BY <1>0, <3>2 DEF Shapes
        <3>3. CASE ~force_remove_network(u) /\ docker' = [docker EXCEPT ![g].container = "none", ![g].image = None]
            BY <1>0, <3>3 DEF Shapes
        <3> QED  BY <2>1, <3>1, <3>2, <3>3
    <2>3. g \in Gateways => /\ DOMAIN d = DockerFields /\ d.volume = docker[g].volume
                            /\ d.container # "none" => docker[g].container # "none"
                            /\ force_remove_network(u) => d.container = docker[g].container
        BY <1>0, <2>2 DEF Shapes, DockerFields, Halted, Running
    <2> QED  BY <2>2, <2>3
<1>2. PICK k : /\ DOMAIN cluster' = Gateways /\ \A h \in Gateways : cluster'[h] = IF h = g THEN k ELSE cluster[h]
               /\ g \in Gateways => /\ DOMAIN k = DOMAIN NoCluster /\ k.server = cluster[g].server
                                    /\ k.ca = cluster[g].ca /\ k.client = cluster[g].client
                                    /\ k.serving = cluster[g].serving \/ k.serving = None
                                    /\ force_remove_network(u) => k = cluster[g]
    <2>1. CASE force_remove_network(u)
        BY <1>0, <2>1 DEF force_remove_network, Shapes
    <2>2. CASE ~force_remove_network(u)
        <3>1. cluster' = [cluster EXCEPT ![g].serving = None]
            BY <2>2 DEF StopForDestroy, RemoveContainer, stop_container, Gw
        <3>2. PICK k : k = [cluster[g] EXCEPT !.serving = None]
            OBVIOUS
        <3>3. DOMAIN cluster' = Gateways /\ \A h \in Gateways : cluster'[h] = IF h = g THEN k ELSE cluster[h]
            BY <1>0, <3>1, <3>2 DEF Shapes
        <3>4. g \in Gateways => /\ DOMAIN k = DOMAIN NoCluster /\ k.server = cluster[g].server
                                /\ k.ca = cluster[g].ca /\ k.client = cluster[g].client /\ k.serving = None
            BY <1>0, <3>2 DEF Shapes, NoCluster
        <3> QED  BY <2>2, <3>3, <3>4
    <2> QED  BY <2>1, <2>2
<1>3. UNCHANGED disk
    BY DEF StopForDestroy, RemoveContainer, force_remove_network, stop_container
<1>4. /\ Touches(g)
      /\ g \in Gateways =>
            View(g)' = [container |-> d.container, volume |-> d.volume, server |-> k.server, ca |-> k.ca,
                        client |-> k.client, serving |-> k.serving, tmp |-> disk.mtls_tmp[g],
                        mtls |-> disk.mtls[g], meta |-> disk.metadata[g]]
    BY <1>1, <1>2, <1>3, ViewStep
<1>5. g \in Gateways => Sane(View(g)')
    <2>1. g \in Gateways => Sane(View(g))
        BY DEF IInv
    <2> QED  BY <1>1, <1>2, <1>4, <2>1 DEF Sane, Unsigned, View
<1>6. force_remove_network(u) /\ g \in Gateways => View(g)' = View(g)
    BY <1>1, <1>2, <1>4 DEF View
<1> QED  BY <1>4, <1>5, <1>6

\* The volume takes the cluster and its certificates with it.
LEMMA VolumeView ==
    ASSUME IInv, NEW u, NEW g, g = cmd[u].g, RemoveVolume(u)
    PROVE  Touches(g) /\ (g \in Gateways => Sane(View(g)') /\ Vacant(View(g)'))
<1>0. Shapes
    BY DEF IInv
<1>1. PICK d : d = [docker[g] EXCEPT !.volume = FALSE]
    OBVIOUS
<1>2. /\ docker' = [docker EXCEPT ![g].volume = FALSE] /\ cluster' = [cluster EXCEPT ![g] = NoCluster]
      /\ UNCHANGED disk /\ docker[g].container = "none"
    BY DEF RemoveVolume, Gw
<1>3. /\ DOMAIN docker' = Gateways /\ \A h \in Gateways : docker'[h] = IF h = g THEN d ELSE docker[h]
      /\ DOMAIN cluster' = Gateways /\ \A h \in Gateways : cluster'[h] = IF h = g THEN NoCluster ELSE cluster[h]
    BY <1>0, <1>1, <1>2 DEF Shapes
<1>4. g \in Gateways => DOMAIN d = DockerFields /\ d.container = "none" /\ ~d.volume
    BY <1>0, <1>1, <1>2 DEF Shapes, DockerFields
<1>5. g \in Gateways => DOMAIN d = DockerFields /\ DOMAIN NoCluster = DOMAIN NoCluster
    BY <1>4
<1>6. UNCHANGED disk
    BY <1>2
<1>7. /\ Touches(g)
      /\ g \in Gateways =>
            View(g)' = [container |-> d.container, volume |-> d.volume, server |-> NoCluster.server,
                        ca |-> NoCluster.ca, client |-> NoCluster.client, serving |-> NoCluster.serving,
                        tmp |-> disk.mtls_tmp[g], mtls |-> disk.mtls[g], meta |-> disk.metadata[g]]
    BY <1>3, <1>5, <1>6, ViewStep
<1> QED  BY <1>4, <1>7 DEF Sane, Unsigned, Vacant, NoCluster

LEMMA DestroyIInv ==
    ASSUME IInv, NEW u \in Users, Solitude(u), DestroyStep(u)
    PROVE  IInv'
<1>0. CmdOk(cmd[u]) /\ Kept(cmd[u], cmd[u]) /\ Shapes
    BY KeptSelf DEF IInv
<1>1. PICK g : g = cmd[u].g
    OBVIOUS
<1>2. PICK c : c = cmd[u]
    OBVIOUS
<1>3. /\ DOMAIN c = CmdFields
      /\ \A step \in Cleanup \cup {"image", "err", "cleanup_metadata", "ok"} : [c EXCEPT !.pc = step].pc = step
    BY <1>0, <1>2, Fields DEF CmdOk
<1>4. CASE StopForDestroy(u)
    <2>1. PICK r : r = [c EXCEPT !.image = docker[g].image]
        OBVIOUS
    <2>2. /\ DOMAIN r = CmdFields /\ r.todo = c.todo /\ r.then = c.then /\ r.ret = c.ret /\ r.g = c.g
          /\ r.result = c.result /\ r.a = c.a /\ r.after = c.after
          /\ [r EXCEPT !.pc = "d_container"].pc = "d_container"
        BY <1>3, <2>1, Fields
    <2>3. Goes(u, r, "d_container") /\ cmd[u].pc \in Cleanup /\ "d_container" \in Cleanup
        BY <1>1, <1>2, <1>4, <2>1 DEF StopForDestroy, At, Gw, Cleanup
    <2>4. Facts([r EXCEPT !.pc = "d_container"], View(g)')
        BY <2>2, StillRemoving
    <2>5. Touches(g) /\ (g \in Gateways => Sane(View(g)'))
        BY <1>1, <1>4, HaltView
    <2> QED  BY <1>1, <1>2, <2>2, <2>3, <2>4, <2>5, RemovalStep
<1>5. CASE RemoveContainer(u)
    <2>1. Goes(u, c, "d_volume") /\ cmd[u].pc \in Cleanup /\ "d_volume" \in Cleanup
        BY <1>2, <1>5 DEF RemoveContainer, At, Goto, Cleanup
    <2>2. Facts([c EXCEPT !.pc = "d_volume"], View(g)')
        BY <1>3, <2>1, StillRemoving
    <2>3. Touches(g) /\ (g \in Gateways => Sane(View(g)'))
        BY <1>1, <1>5, HaltView
    <2> QED  BY <1>1, <1>2, <1>3, <2>1, <2>2, <2>3, RemovalStep
<1>6. CASE RemoveVolume(u)
    <2>1. Goes(u, c, "d_network") /\ cmd[u].pc \in Cleanup /\ "d_network" \in Cleanup
        BY <1>2, <1>6 DEF RemoveVolume, At, Goto, Cleanup
    <2>2. Touches(g) /\ (g \in Gateways => Sane(View(g)') /\ Vacant(View(g)'))
        BY <1>1, <1>6, VolumeView
    <2>3. g \in Gateways => Facts([c EXCEPT !.pc = "d_network"], View(g)')
        <3>1. PICK c1 : c1 = [c EXCEPT !.pc = "d_network"]
            OBVIOUS
        <3>2. c1.pc = "d_network"
            BY <1>3, <2>1, <3>1
        <3>3. ~Deploys(c1) /\ ~Failed(c1)
            BY <3>2 DEF Deploys, Failed, Ladder, Before, Blank, Signed, Filed
        <3> QED  BY <2>2, <3>1, <3>3 DEF Facts
    <2> QED  BY <1>1, <1>2, <1>3, <2>1, <2>2, <2>3, RemovalStep
<1>7. CASE force_remove_network(u)
    <2>1. cmd[u].pc = "d_network" /\ cmd[u].pc \in Cleanup /\ c.after \in {"image", "failed", "command"}
        BY <1>0, <1>2, <1>7 DEF force_remove_network, At, Cleanup, CmdOk
    <2>2. PICK step \in {"image", "err", "cleanup_metadata"} :
             /\ Goes(u, c, step)
             /\ step = "image" => c.after = "image"
             /\ step = "err" => c.after = "failed"
             /\ step = "cleanup_metadata" => c.after = "command"
        BY <1>2, <1>7, <2>1 DEF force_remove_network, Goto
    <2>3. Touches(g) /\ (g \in Gateways => Sane(View(g)') /\ View(g)' = View(g))
        BY <1>1, <1>7, HaltView
    <2>4. ASSUME g \in Gateways, Facts(c, View(g))
          PROVE  Facts([c EXCEPT !.pc = step], View(g)')
        <3>1. PICK c1, w : c1 = [c EXCEPT !.pc = step] /\ w = View(g)
            OBVIOUS
        <3>2. c1.pc = step /\ c1.after = c.after
            BY <1>3, <3>1, Fields
        <3>3. c.after \in {"image", "failed"} => Vacant(w)
            BY <1>2, <2>1, <2>4, <3>1 DEF Facts
        <3>4. Sane(w)
            BY <2>4, <3>1 DEF IInv
        <3>5. Deploys(c1) => Done(c1, w)
            <4>1. Deploys(c1) => step = "image"
                BY <3>2 DEF Deploys, Ladder, Before, Blank, Signed, Filed
            <4>2. step = "image" => c1.pc \in Blank /\ Unsigned(w)
                BY <2>2, <3>2, <3>3, <3>4 DEF Blank, Sane, Vacant
            <4> QED  BY <4>1, <4>2, Rungs
        <3>6. Failed(c1) => Vacant(w)
            BY <3>2, <3>3 DEF Failed
        <3> QED  BY <2>3, <2>4, <3>1, <3>2, <3>5, <3>6 DEF Facts
    <2> QED  BY <1>1, <1>2, <1>3, <2>1, <2>2, <2>3, <2>4, RemovalStep
<1>8. CASE DestroyFails(u)
    <2>1. PICK r : r = [c EXCEPT !.after = "left"]
        OBVIOUS
    <2>2. /\ DOMAIN r = CmdFields /\ r.todo = c.todo /\ r.then = c.then /\ r.ret = c.ret /\ r.g = c.g
          /\ r.result = c.result /\ r.a = c.a /\ r.after = "left"
          /\ [r EXCEPT !.pc = "err"].pc = "err" /\ [r EXCEPT !.pc = "err"].after = "left"
        BY <1>3, <2>1, Fields
    <2>3. Goes(u, r, "err") /\ cmd[u].pc \in Cleanup
        BY <1>1, <1>2, <1>8, <2>1 DEF DestroyFails, Cleanup
    <2>4. Facts([r EXCEPT !.pc = "err"], View(g)')
        BY <2>2, StillRemoving
    <2>5. Touches(g) /\ (g \in Gateways => Sane(View(g)'))
        <3>1. Untouched
            BY <1>8, SameBoot DEF DestroyFails
        <3> QED  BY <3>1, UntouchedOk
    <2> QED  BY <1>1, <1>2, <2>2, <2>3, <2>4, <2>5, RemovalStep
<1>9. CASE stop_container(u)
    <2>1. Goes(u, c, "ok") /\ c.pc = "stop"
        BY <1>2, <1>9 DEF stop_container, At, Goto
    <2>2. Elsewhere("ok") /\ c.pc \notin Cleanup \cup {"ok", "err", "idle"}
        BY <2>1 DEF Elsewhere, Ladder, Before, Blank, Signed, Filed, Cleanup
    <2>3. PICK c1 : c1 = [c EXCEPT !.pc = "ok"]
        OBVIOUS
    <2>4. CmdOk(c1) /\ (\A w : Facts(c1, w)) /\ c1.g = g
        BY <1>0, <1>1, <1>2, <2>2, <2>3, GoesElsewhere
    <2>5. Touches(g) /\ (g \in Gateways => Sane(View(g)'))
        BY <1>1, <1>9, HaltView
    <2>6. cmd' = [cmd EXCEPT ![u] = c1]
        BY <2>1, <2>3 DEF Goes
    <2> QED  BY <2>4, <2>5, <2>6, StepOfUser DEF Touches
<1> QED  BY <1>4, <1>5, <1>6, <1>7, <1>8, <1>9 DEF DestroyStep

-------------------------------------------------------------------------------
(* The start of a command, and its interruption. *)

Started(c) ==
    /\ DOMAIN c = CmdFields /\ c.todo \in Seq(Scripted) /\ c.then \in {"ok", "activate", "boot_activate"}
    /\ c.after \in {"none", "command"} /\ c.ret = "ok" /\ c.result = "ok"

\* The first steps that matter to a deployment.
Entry(c) ==
    \/ Elsewhere(c.pc)
    \/ c.pc = "extract" /\ c.a.op = "add"
    \/ c.pc \in {"select", "activate"} /\ c.a.op = "select"
    \/ c.pc \in Before /\ c.a.op # "add" /\ c.g \in Gateways /\ c.a \in Scripted
    \/ c.pc = "d_stop" /\ c.after = "command"

LEMMA StartedOk ==
    ASSUME NEW c, Started(c), Entry(c)
    PROVE  CmdOk(c) /\ \A w : Facts(c, w)
<1>1. c.after # "failed" /\ ~Removes(c) /\ ~Failed(c)
    BY DEF Started, Entry, Removes, Failed, Elsewhere
<1>2. /\ c.pc \in Cleanup => c.after = "command"
      /\ c.pc = "extract" => c.a.op = "add"
      /\ c.pc = "select" => c.a.op = "select"
      /\ c.pc \in Before \cup Filed => c.a.op # "add"
    BY DEF Entry, Elsewhere, Ladder, Before, Filed, Cleanup
<1>3. Deploys(c) => c.pc \in Before /\ c.g \in Gateways /\ c.a \in Scripted
    BY DEF Deploys, Entry, Elsewhere, Ladder, Before, Blank, Signed, Filed, Cleanup
<1>4. CmdOk(c)
    BY <1>1, <1>2, <1>3 DEF CmdOk, Started
<1>5. \A w : Facts(c, w)
    BY <1>1, <1>2, <1>3, Rungs DEF Facts, Cleanup
<1> QED  BY <1>4, <1>5

LEMMA GatewayCommandOk ==
    ASSUME NEW a, a \in Scripted, NEW r, Started(r), r.a = a, r.after = "none", a.op \in GatewayOps
    PROVE  Started(GatewayCommand(r, a)) /\ Entry(GatewayCommand(r, a))
<1>0. PICK c : c = GatewayCommand(r, a)
    OBVIOUS
<1>1. ASSUME NEW x, NEW y, c = [r EXCEPT !.g = x, !.pc = y]
      PROVE  Started(c) /\ c.pc = y /\ c.g = x /\ c.a = a /\ c.after = "none"
    BY <1>1, Fields DEF Started
<1>2. \A step \in {"err", "ok", "stop", "cleanup_metadata", "add_metadata", "auth", "inspect"} : Elsewhere(step)
    BY DEF Elsewhere, Ladder, Before, Blank, Signed, Filed, Cleanup
<1>3. CASE a.op = "start"
    <2>1. c = [r EXCEPT !.g = a.g, !.pc = "check", !.then = "activate", !.recreate = a.recreate]
        BY <1>0, <1>3 DEF GatewayCommand
    <2>2. Started(c) /\ c.pc = "check" /\ c.g = a.g /\ c.a = a
        BY <2>1, Fields DEF Started
    <2>3. a.g \in Gateways
        BY <1>3, SetupAssumption
    <2> QED  BY <1>0, <1>3, <2>2, <2>3 DEF Entry, Before
<1>4. CASE a.op \in {"stop", "login", "status", "info", "doctor_logs", "doctor_exec", "doctor_check"}
    <2>1. PICK x, y : /\ c = [r EXCEPT !.g = x, !.pc = y]
                      /\ y \in {"err", "ok", "stop", "auth", "inspect"}
        BY <1>0, <1>4 DEF GatewayCommand
    <2>2. Started(c) /\ Elsewhere(c.pc)
        BY <1>1, <1>2, <2>1
    <2> QED  BY <1>0, <2>2 DEF Entry
<1>5. CASE a.op = "destroy"
    <2>1. PICK x : \/ c = [r EXCEPT !.g = x, !.pc = "cleanup_metadata"]
                   \/ c = [r EXCEPT !.g = x, !.pc = "d_stop", !.after = "command"]
        BY <1>0, <1>5 DEF GatewayCommand
    <2>2. CASE c = [r EXCEPT !.g = x, !.pc = "cleanup_metadata"]
        <3>1. Started(c) /\ Elsewhere(c.pc)
            BY <1>1, <1>2, <2>2
        <3> QED  BY <1>0, <3>1 DEF Entry
    <2>3. CASE c = [r EXCEPT !.g = x, !.pc = "d_stop", !.after = "command"]
        <3>1. Started(c) /\ c.pc = "d_stop" /\ c.after = "command"
            BY <2>3, Fields DEF Started
        <3> QED  BY <1>0, <3>1 DEF Entry
    <2> QED  BY <2>1, <2>2, <2>3
<1>6. CASE a.op = "add"
    <2>1. PICK x, y : c = [r EXCEPT !.g = x, !.pc = y] /\ y \in {"err", "add_metadata", "extract"}
        BY <1>0, <1>6 DEF GatewayCommand
    <2>2. Started(c) /\ c.pc = y /\ c.a = a
        BY <1>1, <2>1
    <2> QED  BY <1>0, <1>2, <1>6, <2>1, <2>2 DEF Entry
<1>7. CASE a.op = "select"
    <2>1. PICK x, y : c = [r EXCEPT !.g = x, !.pc = y] /\ y \in {"err", "select", "activate"}
        BY <1>0, <1>7 DEF GatewayCommand, gateway_use
    <2>2. Started(c) /\ c.pc = y /\ c.a = a
        BY <1>1, <2>1
    <2> QED  BY <1>0, <1>2, <1>7, <2>1, <2>2 DEF Entry
<1> QED  BY <1>3, <1>4, <1>5, <1>6, <1>7 DEF GatewayOps

LEMMA ClientCommandOk ==
    ASSUME NEW a, NEW r, Started(r)
    PROVE  Started(ClientCommand(r, a)) /\ Entry(ClientCommand(r, a))
<1>0. PICK c : c = ClientCommand(r, a)
    OBVIOUS
<1>2. \A step \in {"del_connect", "k_session", "u_session", "f_port", "p_read", "err", "confirm", "request"} :
          Elsewhere(step)
    BY DEF Elsewhere, Ladder, Before, Blank, Signed, Filed, Cleanup
<1>3. a.op \in DOMAIN FirstStep => FirstStep[a.op] \in {"del_connect", "k_session", "u_session", "f_port"}
    BY DEF FirstStep
<1>4. Started(c)
    BY <1>0, Fields DEF ClientCommand, Started
<1>5. c.pc \in {"del_connect", "k_session", "u_session", "f_port", "p_read", "err", "confirm", "request"}
    BY <1>0, <1>3, Fields DEF ClientCommand, Started
<1> QED  BY <1>0, <1>2, <1>4, <1>5 DEF Entry

LEMMA OtherCommandsOk ==
    ASSUME NEW a, a \in Scripted, NEW r, Started(r), r.a = a, r.after = "none"
    PROVE  /\ a.op = "create" => Started(CreateCommand(r, a)) /\ Entry(CreateCommand(r, a))
           /\ Started(StopCommand(r, a)) /\ Entry(StopCommand(r, a))
<1>1. \A step \in {"err", "ok", "c_port", "s_read"} : Elsewhere(step)
    BY DEF Elsewhere, Ladder, Before, Blank, Signed, Filed, Cleanup
<1>2. ASSUME a.op = "create"
      PROVE  Started(CreateCommand(r, a)) /\ Entry(CreateCommand(r, a))
    <2>0. PICK c : c = CreateCommand(r, a)
        OBVIOUS
    <2>1. PICK x, y : /\ y \in {"err", "ok", "c_port"}
                      /\ \/ c = [r EXCEPT !.g = x, !.pc = y]
                         \/ c = [r EXCEPT !.pc = "err"]
                         \/ c = [r EXCEPT !.g = BootName, !.pc = "existing", !.then = "boot_activate", !.recreate = TRUE]
        BY <2>0 DEF CreateCommand
    <2>2. CASE c = [r EXCEPT !.g = x, !.pc = y]
        <3>1. Started(c) /\ c.pc = y
            BY <2>2, Fields DEF Started
        <3> QED  BY <1>1, <2>0, <2>1, <3>1 DEF Entry
    <2>3. CASE c = [r EXCEPT !.pc = "err"]
        <3>1. Started(c) /\ c.pc = "err"
            BY <2>3, Fields DEF Started
        <3> QED  BY <1>1, <2>0, <3>1 DEF Entry
    <2>4. CASE c = [r EXCEPT !.g = BootName, !.pc = "existing", !.then = "boot_activate", !.recreate = TRUE]
        <3>1. Started(c) /\ c.pc = "existing" /\ c.g = BootName /\ c.a = a
            BY <2>4, Fields DEF Started
        <3> QED  BY <1>2, <2>0, <3>1, CliAssumption DEF Entry, Before
    <2> QED  BY <2>1, <2>2, <2>3, <2>4
<1>3. Started(StopCommand(r, a)) /\ Entry(StopCommand(r, a))
    <2>0. PICK c : c = StopCommand(r, a)
        OBVIOUS
    <2>1. PICK x, y, z : z \in {"ok", "s_read"} /\ c = [r EXCEPT !.name = x, !.port = y, !.pc = z]
        BY <2>0, Zenon DEF StopCommand
    <2>2. Started(c) /\ c.pc = z
        BY <2>1, Fields DEF Started
    <2> QED  BY <1>1, <2>0, <2>1, <2>2 DEF Entry
<1> QED  BY <1>2, <1>3

LEMMA MainIInv ==
    ASSUME IInv, NEW u \in Users, Solitude(u), main(u)
    PROVE  IInv'
<1>0. Over(u) /\ cmd[u].todo # <<>> /\ cmd[u].todo \in Seq(Scripted) /\ Untouched
    BY SameBoot DEF IInv, CmdOk, main
<1>1. PICK a, t : a = Head(cmd[u].todo) /\ t = Tail(cmd[u].todo)
    OBVIOUS
<1>2. a \in Scripted /\ t \in Seq(Scripted)
    BY <1>0, <1>1
<1>3. PICK r : r = [Fresh(t) EXCEPT !.a = a]
    OBVIOUS
<1>4. Started(r) /\ r.a = a /\ r.after = "none"
    BY <1>2, <1>3, Fields DEF Fresh, Started, CmdFields
<1>5. PICK c1 : /\ cmd' = [cmd EXCEPT ![u] = c1]
                /\ \/ a.op \in GatewayOps /\ c1 = GatewayCommand(r, a)
                   \/ a.op = "create" /\ c1 = CreateCommand(r, a)
                   \/ c1 = StopCommand(r, a)
                   \/ c1 = ClientCommand(r, a)
    <2>1. cmd' = [cmd EXCEPT ![u] =
              CASE a.op \in GatewayOps -> GatewayCommand(r, a)
                [] a.op = "create" -> CreateCommand(r, a)
                [] a.op = "stop_forward" -> StopCommand(r, a)
                [] OTHER -> ClientCommand(r, a)]
        BY <1>1, <1>3 DEF main
    <2>2. a.op \in GatewayOps => a.op # "create" /\ a.op # "stop_forward"
        BY DEF GatewayOps
    <2>3. CASE a.op \in GatewayOps
        BY <2>1, <2>2, <2>3
    <2>4. CASE a.op \notin GatewayOps
        BY <2>1, <2>4
    <2> QED  BY <2>3, <2>4
<1>6. Started(c1) /\ Entry(c1)
    BY <1>2, <1>4, <1>5, GatewayCommandOk, OtherCommandsOk, ClientCommandOk
<1>7. CmdOk(c1) /\ \A w : Facts(c1, w)
    BY <1>6, StartedOk
<1>8. c1.g \in Gateways => Sane(View(c1.g)')
    BY <1>0 DEF IInv, Untouched
<1> QED  BY <1>0, <1>5, <1>7, <1>8, StepOfUser DEF Untouched

LEMMA InterruptIInv ==
    ASSUME IInv, NEW u \in Users, Solitude(u), Interrupt(u)
    PROVE  IInv'
<1>0. PICK c : c = cmd[u]
    OBVIOUS
<1>1. CmdOk(c) /\ Untouched
    BY <1>0, SameBoot DEF IInv, Interrupt
<1>2. PICK c1 : c1 = [c EXCEPT !.pc = "idle"]
    OBVIOUS
<1>3. cmd' = [cmd EXCEPT ![u] = c1]
    BY <1>0, <1>2 DEF Interrupt, Goto, Goes
<1>4. /\ DOMAIN c1 = CmdFields /\ c1.pc = "idle" /\ c1.todo = c.todo /\ c1.then = c.then
      /\ c1.ret = c.ret /\ c1.result = c.result
    BY <1>1, <1>2, Fields DEF CmdOk
<1>5. /\ ~Deploys(c1) /\ ~Removes(c1) /\ ~Failed(c1)
      /\ c1.pc \notin Cleanup \cup Before \cup Filed \cup {"extract", "select"}
    BY <1>4 DEF Deploys, Removes, Failed, Ladder, Before, Blank, Signed, Filed, Cleanup
<1>6. CmdOk(c1) /\ \A w : Facts(c1, w)
    BY <1>1, <1>4, <1>5 DEF CmdOk, Facts
<1>7. c1.g \in Gateways => Sane(View(c1.g)')
    BY <1>1 DEF IInv, Untouched
<1> QED  BY <1>1, <1>3, <1>6, <1>7, StepOfUser DEF Untouched

-------------------------------------------------------------------------------
(* Steps of the cluster, the gateways and the machine. *)

\* Nobody's command goes on; the facts of each survive what happens to the view.
LEMMA OthersStep ==
    ASSUME IInv, UNCHANGED <<cmd, alone>>, Shapes', \A g \in Gateways : Sane(View(g)'),
           ASSUME NEW c, CmdOk(c), c.g \in Gateways, Facts(c, View(c.g)) PROVE Facts(c, View(c.g)')
    PROVE  IInv'
<1>1. DOMAIN cmd' = Users /\ \A u \in Users : CmdOk(cmd'[u])
    BY DEF IInv
<1>2. ASSUME NEW u \in Users, alone'[u]
      PROVE  Facts(cmd'[u], View(cmd[u].g)')
    <2>1. PICK c : c = cmd[u]
        OBVIOUS
    <2>2. CmdOk(c) /\ Facts(c, View(c.g)) /\ cmd'[u] = c
        BY <1>2, <2>1 DEF IInv
    <2>3. CASE c.g \in Gateways
        BY <2>1, <2>2, <2>3
    <2>4. CASE c.g \notin Gateways
        BY <2>1, <2>2, <2>4, NothingHeld
    <2> QED  BY <2>3, <2>4
<1> QED  BY <1>1, <1>2 DEF IInv

\* The pods come up with the secrets there are, which needs the first two.
LEMMA ServingFacts ==
    ASSUME NEW c, NEW w, NEW w1, Facts(c, w), w.server > 0, w.ca > 0, w.serving = None,
           w1.server = w.server, w1.ca = w.ca, w1.client = w.client, w1.container = w.container,
           w1.volume = w.volume, w1.tmp = w.tmp, w1.mtls = w.mtls, w1.meta = w.meta,
           w1.serving = [server |-> w.server, ca |-> w.ca]
    PROVE  Facts(c, w1)
<1>1. Vacant(w) => Vacant(w1)
    BY DEF Vacant
<1>2. Done(c, w) => Done(c, w1)
    <2> SUFFICES ASSUME Done(c, w) PROVE Done(c, w1)
        OBVIOUS
    <2>1. c.pc \notin Blank \cup {"apply_server", "apply_ca"}
        BY DEF Done, Unsigned
    <2>2. c.pc \notin {"metadata", "activate", "boot_activate"}
        BY DEF Done
    <2> QED  BY <2>1, <2>2 DEF Done
<1> QED  BY <1>1, <1>2 DEF Facts

LEMMA ClusterIInv ==
    ASSUME IInv, ClusterStep, UNCHANGED alone
    PROVE  IInv'
<1>0. Shapes
    BY DEF IInv
<1>1. PICK g \in Gateways : NamespaceCreated(g) \/ WorkloadStarts(g)
    BY DEF ClusterStep
<1>2. UNCHANGED <<docker, disk, cmd>> /\ docker[g].container = "running"
    BY <1>1 DEF NamespaceCreated, WorkloadStarts, Running
<1>3. PICK k : /\ DOMAIN cluster' = Gateways /\ \A h \in Gateways : cluster'[h] = IF h = g THEN k ELSE cluster[h]
               /\ DOMAIN k = DOMAIN NoCluster /\ k.server = cluster[g].server /\ k.ca = cluster[g].ca
               /\ k.client = cluster[g].client
               /\ \/ k.serving = cluster[g].serving
                  \/ /\ cluster[g].serving = None /\ cluster[g].server > 0 /\ cluster[g].ca > 0
                     /\ k.serving = [server |-> cluster[g].server, ca |-> cluster[g].ca]
    <2>1. \/ cluster' = [cluster EXCEPT ![g].namespace = TRUE]
          \/ cluster' = [cluster EXCEPT ![g].workload = TRUE]
          \/ /\ cluster[g].serving = None /\ cluster[g].server > 0 /\ cluster[g].ca > 0
             /\ cluster' = [cluster EXCEPT ![g].serving = [server |-> cluster[g].server, ca |-> cluster[g].ca]]
        BY <1>1 DEF NamespaceCreated, WorkloadStarts
    <2>2. CASE cluster' = [cluster EXCEPT ![g].namespace = TRUE]
        BY <1>0, <2>2 DEF Shapes, NoCluster
    <2>3. CASE cluster' = [cluster EXCEPT ![g].workload = TRUE]
        BY <1>0, <2>3 DEF Shapes, NoCluster
    <2>4. CASE /\ cluster[g].serving = None /\ cluster[g].server > 0 /\ cluster[g].ca > 0
               /\ cluster' = [cluster EXCEPT ![g].serving = [server |-> cluster[g].server, ca |-> cluster[g].ca]]
        <3>1. PICK k : k = [cluster[g] EXCEPT !.serving = [server |-> cluster[g].server, ca |-> cluster[g].ca]]
            OBVIOUS
        <3>2. /\ DOMAIN k = DOMAIN NoCluster /\ k.server = cluster[g].server /\ k.ca = cluster[g].ca
              /\ k.client = cluster[g].client
              /\ k.serving = [server |-> cluster[g].server, ca |-> cluster[g].ca]
            BY <1>0, <3>1 DEF Shapes, NoCluster
        <3>3. DOMAIN cluster' = Gateways /\ \A h \in Gateways : cluster'[h] = IF h = g THEN k ELSE cluster[h]
            BY <1>0, <2>4, <3>1 DEF Shapes
        <3> QED  BY <2>4, <3>2, <3>3
    <2> QED  BY <2>1, <2>2, <2>3, <2>4
<1>4. DOMAIN docker' = Gateways /\ \A h \in Gateways : docker'[h] = IF h = g THEN docker[g] ELSE docker[h]
    BY <1>0, <1>2 DEF Shapes
<1>5. g \in Gateways => DOMAIN docker[g] = DockerFields /\ DOMAIN k = DOMAIN NoCluster
    BY <1>0, <1>3 DEF Shapes
<1>6. UNCHANGED disk
    BY <1>2
<1>7. /\ Touches(g)
      /\ View(g)' = [container |-> docker[g].container, volume |-> docker[g].volume, server |-> k.server,
                     ca |-> k.ca, client |-> k.client, serving |-> k.serving, tmp |-> disk.mtls_tmp[g],
                     mtls |-> disk.mtls[g], meta |-> disk.metadata[g]]
    BY <1>3, <1>4, <1>5, <1>6, ViewStep
<1>8. \A h \in Gateways : Sane(View(h)')
    <2>1. Sane(View(g)')
        <3>1. Sane(View(g))
            BY DEF IInv
        <3> QED  BY <1>2, <1>7, <3>1 DEF Sane, View
    <2>2. \A h \in Gateways : h # g => Sane(View(h)')
        BY <1>7 DEF Touches, IInv
    <2> QED  BY <2>1, <2>2
<1>9. ASSUME NEW c, CmdOk(c), c.g \in Gateways, Facts(c, View(c.g))
      PROVE  Facts(c, View(c.g)')
    <2>1. CASE c.g # g
        BY <1>7, <1>9, <2>1 DEF Touches
    <2>2. CASE c.g = g /\ k.serving = cluster[g].serving
        <3>1. View(g)' = View(g)
            BY <1>3, <1>7, <2>2 DEF View
        <3> QED  BY <1>9, <2>2, <3>1
    <2>3. CASE /\ c.g = g /\ cluster[g].serving = None /\ cluster[g].server > 0 /\ cluster[g].ca > 0
               /\ k.serving = [server |-> cluster[g].server, ca |-> cluster[g].ca]
        <3>1. PICK w, w1 : w = View(g) /\ w1 = View(g)'
            OBVIOUS
        <3>2. /\ w.server > 0 /\ w.ca > 0 /\ w.serving = None
              /\ w1.server = w.server /\ w1.ca = w.ca /\ w1.client = w.client /\ w1.container = w.container
              /\ w1.volume = w.volume /\ w1.tmp = w.tmp /\ w1.mtls = w.mtls /\ w1.meta = w.meta
              /\ w1.serving = [server |-> w.server, ca |-> w.ca]
            BY <1>3, <1>7, <2>3, <3>1 DEF View
        <3>3. Facts(c, w)
            BY <1>9, <2>3, <3>1
        <3>4. Facts(c, w1)
            BY <3>2, <3>3, ServingFacts
        <3> QED  BY <2>3, <3>1, <3>4
    <2> QED  BY <1>3, <2>1, <2>2, <2>3
<1>10. UNCHANGED <<cmd, alone>> /\ Shapes'
    BY <1>2, <1>7 DEF Touches
<1> QED  BY <1>8, <1>9, <1>10, OthersStep

\* What the gateways store and which processes run is no part of the views.
LEMMA ProgressIInv ==
    ASSUME IInv, GatewayProgress \/ ProcessChange, UNCHANGED alone
    PROVE  IInv'
<1>1. Untouched /\ UNCHANGED <<cmd, alone>>
    <2>1. CASE GatewayProgress
        <3>1. PICK g, field, value : SetData(g, field, value)
            BY <2>1 DEF GatewayProgress
        <3>2. UNCHANGED <<docker, disk, cmd>> /\ DOMAIN disk = DiskFields
            BY <2>1 DEF GatewayProgress, IInv, Shapes
        <3> QED  BY <3>1, <3>2, SameDataField
    <2>2. CASE ProcessChange
        BY <2>2, SameBoot DEF ProcessChange
    <2> QED  BY <2>1, <2>2
<1>2. Shapes' /\ \A h \in Gateways : Sane(View(h)')
    BY <1>1 DEF Untouched, IInv
<1>3. ASSUME NEW c, CmdOk(c), c.g \in Gateways, Facts(c, View(c.g))
      PROVE  Facts(c, View(c.g)')
    BY <1>1, <1>3 DEF Untouched
<1> QED  BY <1>1, <1>2, <1>3, OthersStep

-------------------------------------------------------------------------------
(* The theorems. *)

LEMMA InitIInv ==
    ASSUME Init
    PROVE  IInv
<1>1. Shapes
    BY SetupAssumption DEF Init, Shapes
<1>2. \A g \in Gateways : Sane(View(g))
    BY SetupAssumption DEF Init, Sane, Unsigned, View
<1>3. ASSUME NEW u \in Users
      PROVE  CmdOk(cmd[u]) /\ \A w : Facts(cmd[u], w)
    <2>1. PICK c : c = cmd[u]
        OBVIOUS
    <2>2. setup.scripts[u] \in Seq(Scripted) /\ c = Fresh(setup.scripts[u])
        BY <1>3, <2>1, SetupAssumption DEF Init
    <2>3. Started(c) /\ c.pc = "idle"
        BY <2>2 DEF Fresh, Started, CmdFields
    <2>4. Entry(c)
        BY <2>3 DEF Entry, Elsewhere, Ladder, Before, Blank, Signed, Filed, Cleanup
    <2> QED  BY <2>1, <2>3, <2>4, StartedOk
<1>4. DOMAIN cmd = Users
    BY DEF Init
<1> QED  BY <1>1, <1>2, <1>3, <1>4 DEF IInv

LEMMA StepIInv ==
    ASSUME IInv, NEW u \in Users, Step(u), Solitude(u)
    PROVE  IInv'
<1>1. CASE main(u) \/ Interrupt(u)
    BY <1>1, MainIInv, InterruptIInv
<1>2. CASE GatewayStep(u)
    BY <1>2, DeployStarts, GatewayQuiet, QuietStep, RegistersIInv, ChoosesIInv DEF GatewayStep
<1>3. CASE ForwardStep(u)
    BY <1>3, ForwardQuiet, QuietStep
<1>4. CASE SandboxStep(u)
    BY <1>4, SandboxQuiet, QuietStep
<1>5. CASE RequestStep(u)
    BY <1>5, RequestQuiet, QuietStep
<1>6. CASE DockerStep(u)
    BY <1>6, DeployIInv, DestroyIInv DEF DockerStep
<1> QED  BY <1>1, <1>2, <1>3, <1>4, <1>5, <1>6 DEF Step

LEMMA NextIInv ==
    ASSUME IInv, [Next]_vars
    PROVE  IInv'
<1>1. CASE UNCHANGED vars
    <2>1. Untouched /\ UNCHANGED <<cmd, alone>>
        BY <1>1, SameBoot DEF vars, bootVars
    <2>2. Shapes' /\ \A h \in Gateways : Sane(View(h)')
        BY <2>1 DEF Untouched, IInv
    <2>3. ASSUME NEW c, CmdOk(c), c.g \in Gateways, Facts(c, View(c.g))
          PROVE  Facts(c, View(c.g)')
        BY <2>1, <2>3 DEF Untouched
    <2> QED  BY <2>1, <2>2, <2>3, OthersStep
<1>2. CASE \E u \in Users : Step(u) /\ Solitude(u)
    BY <1>2, StepIInv
<1>3. CASE ClusterStep /\ UNCHANGED alone
    BY <1>3, ClusterIInv
<1>4. CASE (GatewayProgress \/ ProcessChange) /\ UNCHANGED alone
    BY <1>4, ProgressIInv
<1> QED  BY <1>1, <1>2, <1>3, <1>4 DEF Next

\* The invariant of the commands, the Docker resources, the certificates and the
\* files holds in every behaviour, of any number of users (Bootstrap, Cli).
THEOREM CommandsInvariant == Spec => []IInv
<1>1. Init => IInv
    BY InitIInv
<1>2. IInv /\ [Next]_vars => IInv'
    BY NextIInv
<1> QED  BY <1>1, <1>2, PTL DEF Spec

\* A deployment that fails after the port check, and whose cleanup is not
\* reported to have failed, leaves neither container nor volume (the cleanup
\* block of deploy_gateway_with_logs, destroy_gateway_resources).
THEOREM FailedDeploymentsLeaveNothing == Spec => []FailedDeployCleaned
<1>1. IInv => FailedDeployCleaned
    <2> SUFFICES ASSUME IInv, NEW u \in Users, At(u, "err"), cmd[u].after = "failed", alone[u]
                 PROVE  ~Exists(Gw(u))
        BY DEF FailedDeployCleaned
    <2>1. Vacant(View(cmd[u].g))
        BY DEF IInv, Facts, Failed, At
    <2> QED  BY <2>1 DEF Vacant, View, Exists, Gw
<1> QED  BY <1>1, CommandsInvariant, PTL

\* A deployment that reports success, with no other command on the gateway in
\* between, leaves files that the running server accepts, and a registration
\* (deploy_gateway_with_logs, store_pki_bundle, wait_for_gateway_ready).
THEOREM DeploymentsAreReachable == Spec => []DeployedReachable
<1>1. IInv => DeployedReachable
    <2> SUFFICES ASSUME IInv, NEW u \in Users, cmd[u].pc \in {"activate", "boot_activate"},
                        Arg(u).op # "select", alone[u]
                 PROVE  Registered(Gw(u)) /\ Trusted(Gw(u))
        BY DEF DeployedReachable
    <2>1. PICK c, g : c = cmd[u] /\ g = c.g
        OBVIOUS
    <2>2. PICK w : w = View(g)
        OBVIOUS
    <2>3. CmdOk(c) /\ Facts(c, w)
        BY <2>1, <2>2 DEF IInv
    <2>4. Deploys(c) /\ g \in Gateways
        BY <2>1, <2>3 DEF CmdOk, Deploys, Ladder, Filed, Arg
    <2>5. /\ Matches(c, w) /\ w.mtls = c.certs /\ w.mtls # None /\ w.serving # None /\ w.meta # None
        BY <2>1, <2>3, <2>4, Rungs DEF Facts
    <2>6. /\ w.mtls = disk.mtls[g] /\ w.serving = cluster[g].serving /\ w.meta = disk.metadata[g]
        BY <2>2 DEF View
    <2>7. w.serving = [server |-> c.certs.ca, ca |-> c.certs.ca] /\ c.certs.client = c.certs.ca
        BY <2>5 DEF Matches
    <2>8. Trusted(g)
        BY <2>5, <2>6, <2>7 DEF Trusted
    <2>9. g # None
        BY <2>4, CliAssumption
    <2> QED  BY <2>1, <2>4, <2>5, <2>6, <2>8, <2>9 DEF Registered, Gw
<1> QED  BY <1>1, CommandsInvariant, PTL

-------------------------------------------------------------------------------
(* Sandboxes that are not to stay.  A command knows its sandbox by name and     *)
(* deletes by name; the invariant says that no other sandbox has the id, so     *)
(* that the name is enough.                                                     *)

\* The command was to create a sandbox that is not to stay.
Ephemeral(c) == c.a.op = "create" /\ ~sandbox_should_persist(c.a)

\* Labels before the sandbox exists, while it is used, and while it is deleted;
\* and those of commands that do none of this.
Making  == {"boot_wait", "c_port", "c_source", "c_providers", "c_provider", "c_create"}
Using   == {"c_watch", "c_upload", "u_copy", "c_open", "session", "finalize"}
Stopping == {"s_read", "s_match", "s_kill", "s_remove"}
Ending  == {"del_connect", "del_stop", "del_request"} \cup Stopping
Foreign == {"k_session", "u_session", "d_copy", "f_port", "f_session", "f_ssh", "f_pid", "f_wait",
            "e_read", "e_write", "k_save", "p_read", "p_update", "p_poll", "confirm", "request"}

\* The sandbox of the command, if there is one left, is on the command's gateway
\* and has the name the command knows; or there is none left.
Holds(c) ==
    /\ c.sid \in 1..created
    /\ \A h \in Gateways : \A b \in Data(h).sandboxes : b.sid = c.sid => h = c.g /\ b.name = c.name
Gone(c) ==
    /\ c.sid \in 1..created
    /\ \A h \in Gateways : \A b \in Data(h).sandboxes : b.sid # c.sid
Deletes(c) == Holds(c) /\ c.names = <<c.name>>

EphemeralOk(c) ==
    Ephemeral(c) =>
      /\ c.pc \notin Foreign /\ ~c.a.all
      /\ c.pc \in Making \cup Using \cup Ending => c.g \in Gateways
      /\ c.ran => c.pc \in {"finalize", "ok", "err", "idle"} \cup Ending
      /\ c.pc \in Using => Holds(c)
      /\ c.pc \in {"del_connect", "del_request"} => Deletes(c)
      /\ c.pc = "del_stop" => Deletes(c) \/ (c.names = <<>> /\ Gone(c))
      /\ c.pc \in Stopping => c.ret = "del_stop" /\ Deletes(c)
      /\ c.pc \in {"ok", "err"} /\ c.ran => c.g \in Gateways /\ Gone(c)

\* No sandbox has an id that is still to be given.
RowsOk ==
    /\ created \in 0..MaxSandboxes
    /\ \A h \in Gateways :
         /\ DOMAIN Data(h) = DOMAIN NoData
         /\ \A b \in Data(h).sandboxes :
              DOMAIN b = {"name", "sid", "phase"} /\ b.sid \notin (created + 1)..MaxSandboxes

EInv == RowsOk /\ \A u \in Users : EphemeralOk(cmd[u])

-------------------------------------------------------------------------------
(* What the steps do to the sandboxes of the gateways. *)

\* Every sandbox was there before with its name and id, or has the next id.
RowsStep ==
    /\ created' \in {created, created + 1} /\ created' <= MaxSandboxes
    /\ \A h \in Gateways :
         /\ DOMAIN Data(h)' = DOMAIN NoData
         /\ \A b \in Data(h)'.sandboxes :
              /\ DOMAIN b = {"name", "sid", "phase"}
              /\ \/ \E s \in Data(h).sandboxes : s.name = b.name /\ s.sid = b.sid
                 \/ created' = created + 1 /\ b.sid = created'

LEMMA RowsKept ==
    ASSUME RowsOk, RowsStep
    PROVE  RowsOk'
<1>1. created \in 0..MaxSandboxes /\ MaxSandboxes \in Nat
    BY CliAssumption DEF RowsOk
<1>2. created' \in 0..MaxSandboxes /\ created' >= created
    BY <1>1 DEF RowsStep
<1>3. ASSUME NEW h \in Gateways, NEW b \in Data(h)'.sandboxes
      PROVE  b.sid \notin (created' + 1)..MaxSandboxes
    <2>1. CASE \E s \in Data(h).sandboxes : s.name = b.name /\ s.sid = b.sid
        <3>1. b.sid \notin (created + 1)..MaxSandboxes
            BY <2>1 DEF RowsOk
        <3> QED  BY <1>1, <1>2, <3>1
    <2>2. CASE created' = created + 1 /\ b.sid = created'
        BY <1>1, <2>2
    <2> QED  BY <1>3, <2>1, <2>2 DEF RowsStep
<1> QED  BY <1>2, <1>3 DEF RowsOk, RowsStep

\* Such a step keeps what a command knows of its sandbox.
LEMMA HoldsKept ==
    ASSUME RowsOk, RowsStep, NEW c
    PROVE  (Holds(c) => Holds(c)') /\ (Gone(c) => Gone(c)')
<1>1. created \in Nat /\ created' \in Nat /\ created' >= created
    BY CliAssumption DEF RowsOk, RowsStep
<1>2. c.sid \in 1..created => c.sid \in 1..created' /\ c.sid # created + 1
    BY <1>1
<1>3. ASSUME c.sid \in 1..created, NEW h \in Gateways, NEW b \in Data(h)'.sandboxes, b.sid = c.sid
      PROVE  \E s \in Data(h).sandboxes : s.name = b.name /\ s.sid = c.sid
    BY <1>2, <1>3 DEF RowsStep
<1>4. ASSUME Holds(c) PROVE Holds(c)'
    BY <1>2, <1>3, <1>4, Zenon DEF Holds
<1>5. ASSUME Gone(c) PROVE Gone(c)'
    BY <1>2, <1>3, <1>5, Zenon DEF Gone
<1> QED  BY <1>4, <1>5

LEMMA EphemeralKept ==
    ASSUME RowsOk, RowsStep, NEW c, EphemeralOk(c)
    PROVE  EphemeralOk(c)'
<1>1. (Holds(c) => Holds(c)') /\ (Gone(c) => Gone(c)')
    BY HoldsKept
<1>2. Deletes(c) => Deletes(c)'
    BY <1>1 DEF Deletes
<1> QED  BY <1>1, <1>2, Zenon DEF EphemeralOk, Ephemeral

\* A step of one user, and a step of nobody.
LEMMA EphemeralStep ==
    ASSUME IInv, EInv, RowsStep, NEW u \in Users, NEW c1, cmd' = [cmd EXCEPT ![u] = c1], EphemeralOk(c1)'
    PROVE  EInv'
<1>1. cmd'[u] = c1 /\ \A v \in Users \ {u} : cmd'[v] = cmd[v]
    BY DEF IInv
<1>2. RowsOk'
    BY RowsKept DEF EInv
<1>3. ASSUME NEW v \in Users
      PROVE  EphemeralOk(cmd[v])'
    <2>1. CASE v = u
        <3>1. cmd'[v] = c1
            BY <1>1, <2>1
        <3> QED  BY <3>1
    <2>2. CASE v # u
        <3>1. PICK c : c = cmd[v]
            OBVIOUS
        <3>2. EphemeralOk(c) /\ RowsOk /\ cmd'[v] = c
            BY <1>1, <2>2, <3>1 DEF EInv
        <3>3. EphemeralOk(c)'
            BY <3>2, EphemeralKept
        <3> QED  BY <3>2, <3>3
    <2> QED  BY <2>1, <2>2
<1> QED  BY <1>2, <1>3 DEF EInv

LEMMA NobodysStep ==
    ASSUME EInv, RowsStep, UNCHANGED cmd
    PROVE  EInv'
<1>1. RowsOk'
    BY RowsKept DEF EInv
<1>2. ASSUME NEW v \in Users
      PROVE  EphemeralOk(cmd[v])'
    <2>1. PICK c : c = cmd[v]
        OBVIOUS
    <2>2. EphemeralOk(c)'
        BY <2>1, EphemeralKept DEF EInv
    <2> QED  BY <2>1, <2>2
<1> QED  BY <1>1, <1>2 DEF EInv

LEMMA DataFields ==
    DOMAIN NoData = {"sandboxes", "providers", "policies", "settings", "chunks", "routes"}
    /\ "data" \in DOMAIN NoCluster /\ NoData.sandboxes = {} /\ NoCluster.data = NoData
BY DEF NoData, NoCluster

\* Nothing changes on any gateway, or its volume is gone.
LEMMA RowsSame ==
    ASSUME RowsOk, UNCHANGED created, \A h \in Gateways : Data(h)' = Data(h) \/ Data(h)' = NoData
    PROVE  RowsStep
<1>1. created' \in {created, created + 1} /\ created' <= MaxSandboxes
    BY CliAssumption DEF RowsOk
<1>2. ASSUME NEW h \in Gateways
      PROVE  /\ DOMAIN Data(h)' = DOMAIN NoData
             /\ \A b \in Data(h)'.sandboxes :
                   DOMAIN b = {"name", "sid", "phase"}
                   /\ \E s \in Data(h).sandboxes : s.name = b.name /\ s.sid = b.sid
    <2>1. CASE Data(h)' = Data(h)
        BY <2>1 DEF RowsOk
    <2>2. CASE Data(h)' = NoData
        BY <2>2, DataFields
    <2> QED  BY <2>1, <2>2
<1> QED  BY <1>1, <1>2 DEF RowsStep

LEMMA RowsUntouched ==
    ASSUME RowsOk, UNCHANGED <<cluster, created>>
    PROVE  RowsStep
BY RowsSame DEF Data

\* Only the data of one gateway changes.
LEMMA RowsStored ==
    ASSUME IInv, RowsOk, NEW g, NEW d, Store(g, d),
           created' \in {created, created + 1}, created' <= MaxSandboxes,
           g \in Gateways =>
              /\ DOMAIN d = DOMAIN NoData
              /\ \A b \in d.sandboxes :
                   /\ DOMAIN b = {"name", "sid", "phase"}
                   /\ \/ \E s \in Data(g).sandboxes : s.name = b.name /\ s.sid = b.sid
                      \/ created' = created + 1 /\ b.sid = created'
    PROVE  RowsStep
<1>1. PICK k : k = cluster
    OBVIOUS
<1>2. DOMAIN k = Gateways /\ \A h \in Gateways : "data" \in DOMAIN k[h]
    BY <1>1, DataFields DEF IInv, Shapes
<1>3. cluster' = [k EXCEPT ![g] = [k[g] EXCEPT !.data = d]]
    BY <1>1 DEF Store
<1>4. \A h \in Gateways : cluster'[h].data = IF h = g THEN d ELSE k[h].data
    BY <1>2, <1>3
<1>5. ASSUME NEW h \in Gateways
      PROVE  /\ DOMAIN Data(h)' = DOMAIN NoData
             /\ \A b \in Data(h)'.sandboxes :
                   /\ DOMAIN b = {"name", "sid", "phase"}
                   /\ \/ \E s \in Data(h).sandboxes : s.name = b.name /\ s.sid = b.sid
                      \/ created' = created + 1 /\ b.sid = created'
    <2>1. CASE h = g
        <3>1. Data(h)' = d
            BY <1>4, <2>1 DEF Data
        <3> QED  BY <2>1, <3>1
    <2>2. CASE h # g
        <3>1. Data(h)' = Data(h)
            BY <1>1, <1>4, <2>2 DEF Data
        <3> QED  BY <3>1 DEF RowsOk
    <2> QED  BY <2>1, <2>2
<1> QED  BY <1>5 DEF RowsStep

LEMMA RowsSet ==
    ASSUME IInv, RowsOk, NEW g, NEW field, NEW value, SetData(g, field, value), field \in DOMAIN NoData,
           created' \in {created, created + 1}, created' <= MaxSandboxes,
           g \in Gateways /\ field = "sandboxes" =>
              \A b \in value :
                   /\ DOMAIN b = {"name", "sid", "phase"}
                   /\ \/ \E s \in Data(g).sandboxes : s.name = b.name /\ s.sid = b.sid
                      \/ created' = created + 1 /\ b.sid = created'
    PROVE  RowsStep
<1>1. PICK d : d = [Data(g) EXCEPT ![field] = value]
    OBVIOUS
<1>2. Store(g, d)
    BY <1>1 DEF SetData, Store, Data
<1>3. ASSUME g \in Gateways
      PROVE  /\ DOMAIN d = DOMAIN NoData
             /\ d.sandboxes = IF field = "sandboxes" THEN value ELSE Data(g).sandboxes
    <2>1. DOMAIN Data(g) = DOMAIN NoData
        BY <1>3 DEF RowsOk
    <2> QED  BY <1>1, <2>1, DataFields
<1>4. g \in Gateways => \A b \in Data(g).sandboxes : DOMAIN b = {"name", "sid", "phase"}
    BY DEF RowsOk
<1> QED  BY <1>2, <1>3, <1>4, RowsStored

\* No request that a command sends on its own changes the sandboxes.
SameBoxes(d, e) == DOMAIN e = DOMAIN d /\ e.sandboxes = d.sandboxes

LEMMA BoxesKept ==
    ASSUME NEW d, DOMAIN d = DOMAIN NoData
    PROVE  /\ SameBoxes(d, d)
           /\ \A x : /\ SameBoxes(d, [d EXCEPT !.settings = x]) /\ SameBoxes(d, [d EXCEPT !.policies = x])
                     /\ SameBoxes(d, [d EXCEPT !.chunks = x]) /\ SameBoxes(d, [d EXCEPT !.providers = x])
                     /\ SameBoxes(d, [d EXCEPT !.routes = x])
           /\ \A x, y : SameBoxes(d, [d EXCEPT !.settings = x, !.policies = y])
BY DataFields DEF SameBoxes

LEMMA PutPolicyBoxes ==
    ASSUME NEW d, DOMAIN d = DOMAIN NoData, NEW sid, NEW policy
    PROVE  SameBoxes(d, PutPolicy(d, sid, policy))
<1>1. PutPolicy(d, sid, policy) = d \/ \E x : PutPolicy(d, sid, policy) = [d EXCEPT !.policies = x]
    BY DEF PutPolicy
<1>2. SameBoxes(d, d) /\ \A x : SameBoxes(d, [d EXCEPT !.policies = x])
    BY BoxesKept
<1> QED  BY <1>1, <1>2, Zenon

LEMMA UpdateBoxes ==
    ASSUME NEW d, DOMAIN d = DOMAIN NoData, NEW c
    PROVE  SameBoxes(d, update_config(d, c).data)
<1>1. \/ update_config(d, c).data = d
      \/ \E x, y : update_config(d, c).data = [d EXCEPT !.settings = x, !.policies = y]
      \/ \E x : update_config(d, c).data = [d EXCEPT !.settings = x]
      \/ \E sid, p : update_config(d, c).data = PutPolicy(d, sid, p)
      \/ \E x, sid, p : update_config(d, c).data = PutPolicy([d EXCEPT !.settings = x], sid, p)
    BY DEF update_config, Answer, Refusal
<1>2. \A x, sid, p : SameBoxes(d, PutPolicy([d EXCEPT !.settings = x], sid, p))
    <2> SUFFICES ASSUME NEW x, NEW sid, NEW p
                 PROVE  SameBoxes(d, PutPolicy([d EXCEPT !.settings = x], sid, p))
        OBVIOUS
    <2>1. PICK e : e = [d EXCEPT !.settings = x]
        OBVIOUS
    <2>2. SameBoxes(d, e)
        BY <2>1, BoxesKept
    <2>3. SameBoxes(e, PutPolicy(e, sid, p))
        BY <2>2, PutPolicyBoxes DEF SameBoxes
    <2> QED  BY <2>1, <2>2, <2>3 DEF SameBoxes
<1>3. \A sid, p : SameBoxes(d, PutPolicy(d, sid, p))
    BY PutPolicyBoxes
<1>4. /\ SameBoxes(d, d) /\ \A x : SameBoxes(d, [d EXCEPT !.settings = x])
      /\ \A x, y : SameBoxes(d, [d EXCEPT !.settings = x, !.policies = y])
    BY BoxesKept
<1>5. CASE \E x, y : update_config(d, c).data = [d EXCEPT !.settings = x, !.policies = y]
    <2>1. PICK x, y : update_config(d, c).data = [d EXCEPT !.settings = x, !.policies = y]
        BY <1>5
    <2>2. SameBoxes(d, [d EXCEPT !.settings = x, !.policies = y])
        BY <1>4
    <2> QED  BY <2>1, <2>2
<1>6. CASE \E x, sid, p : update_config(d, c).data = PutPolicy([d EXCEPT !.settings = x], sid, p)
    BY <1>2, <1>6, Zenon
<1>7. CASE \E sid, p : update_config(d, c).data = PutPolicy(d, sid, p)
    BY <1>3, <1>7, Zenon
<1>8. CASE update_config(d, c).data = d \/ \E x : update_config(d, c).data = [d EXCEPT !.settings = x]
    BY <1>4, <1>8, Zenon
<1> QED  BY <1>1, <1>5, <1>6, <1>7, <1>8

LEMMA DecidedBoxes ==
    ASSUME NEW d, DOMAIN d = DOMAIN NoData, NEW ids, NEW status
    PROVE  /\ SameBoxes(d, Decided(d, ids, status))
           /\ \A sid, p : SameBoxes(d, Decided(PutPolicy(d, sid, p), ids, status))
<1>1. ASSUME NEW e, DOMAIN e = DOMAIN NoData
      PROVE  SameBoxes(e, Decided(e, ids, status))
    <2>1. PICK x : Decided(e, ids, status) = [e EXCEPT !.chunks = x]
        BY DEF Decided
    <2>2. SameBoxes(e, [e EXCEPT !.chunks = x])
        BY <1>1, BoxesKept
    <2> QED  BY <2>1, <2>2
<1>2. ASSUME NEW sid, NEW p
      PROVE  SameBoxes(d, Decided(PutPolicy(d, sid, p), ids, status))
    <2>1. PICK e : e = PutPolicy(d, sid, p)
        OBVIOUS
    <2>2. SameBoxes(d, e)
        BY <2>1, PutPolicyBoxes
    <2>3. SameBoxes(e, Decided(e, ids, status))
        BY <1>1, <2>2 DEF SameBoxes
    <2> QED  BY <2>1, <2>2, <2>3 DEF SameBoxes
<1> QED  BY <1>1, <1>2

LEMMA ServeBoxes ==
    ASSUME NEW rpc, NEW d, NEW c, DOMAIN d = DOMAIN NoData
    PROVE  SameBoxes(d, Serve(rpc, d, c).data)
<1>0. SameBoxes(d, d)
    BY BoxesKept
<1>1. /\ get_sandbox(d, c).data = d /\ get_provider(d, c).data = d /\ get_cluster_inference(d, c).data = d
      /\ list_sandboxes(d, c).data = d /\ get_gateway_config(d, c).data = d
      /\ get_sandbox_logs(d, c).data = d /\ list_providers(d, c).data = d
      /\ print_inference_route(d, c).data = d
    BY DEF get_sandbox, get_provider, get_cluster_inference, list_sandboxes, get_gateway_config,
           get_sandbox_logs, list_providers, print_inference_route, Answer, Refusal
<1>2. \A found : Asked(d, c, found).data = d
    BY DEF Asked, Answer, Refusal
<1>3. /\ get_sandbox_config(d, c).data = d /\ watch_sandbox(d, c).data = d
      /\ get_sandbox_policy_status(d, c).data = d /\ list_sandbox_policies(d, c).data = d
      /\ get_draft_policy(d, c).data = d /\ get_draft_history(d, c).data = d
    BY <1>2 DEF get_sandbox_config, watch_sandbox, get_sandbox_policy_status, list_sandbox_policies,
                get_draft_policy, get_draft_history
<1>4. \A from, status : SameBoxes(d, DecideChunk(d, c, from, status).data)
    <2> SUFFICES ASSUME NEW from, NEW status
                 PROVE  SameBoxes(d, DecideChunk(d, c, from, status).data)
        OBVIOUS
    <2>1. \/ DecideChunk(d, c, from, status).data = d
          \/ DecideChunk(d, c, from, status).data = Decided(d, {c.a.chunk}, status)
          \/ \E sid, p : DecideChunk(d, c, from, status).data = Decided(PutPolicy(d, sid, p), {c.a.chunk}, status)
        BY DEF DecideChunk, Answer, Refusal
    <2>2. /\ SameBoxes(d, Decided(d, {c.a.chunk}, status))
          /\ \A sid, p : SameBoxes(d, Decided(PutPolicy(d, sid, p), {c.a.chunk}, status))
        BY DecidedBoxes
    <2> QED  BY <1>0, <2>1, <2>2, Zenon
<1>5. SameBoxes(d, approve_draft_chunk(d, c).data) /\ SameBoxes(d, reject_draft_chunk(d, c).data)
    BY <1>4 DEF approve_draft_chunk, reject_draft_chunk
<1>6. SameBoxes(d, approve_all_draft_chunks(d, c).data)
    <2>1. \/ approve_all_draft_chunks(d, c).data = d
          \/ \E sid, p, ids : approve_all_draft_chunks(d, c).data = Decided(PutPolicy(d, sid, p), ids, "approved")
        BY DEF approve_all_draft_chunks, Answer, Refusal
    <2>2. \A sid, p, ids : SameBoxes(d, Decided(PutPolicy(d, sid, p), ids, "approved"))
        BY DecidedBoxes
    <2> QED  BY <1>0, <2>1, <2>2, Zenon
<1>7. SameBoxes(d, clear_draft_chunks(d, c).data)
    BY BoxesKept DEF clear_draft_chunks, Answer, Refusal
<1>8. /\ SameBoxes(d, create_provider(d, c).data) /\ SameBoxes(d, update_provider(d, c).data)
      /\ SameBoxes(d, delete_provider(d, c).data)
    BY BoxesKept DEF create_provider, update_provider, delete_provider, Answer, Refusal
<1>9. SameBoxes(d, set_cluster_inference(d, c).data)
    <2>1. \/ set_cluster_inference(d, c).data = d
          \/ \E x : set_cluster_inference(d, c).data = [d EXCEPT !.routes = x]
        BY DEF set_cluster_inference, Answer, Refusal
    <2>2. \A x : SameBoxes(d, [d EXCEPT !.routes = x])
        BY BoxesKept
    <2> QED  BY <1>0, <2>1, <2>2, Zenon
<1>10. SameBoxes(d, update_config(d, c).data)
    BY UpdateBoxes
<1> QED  BY <1>0, <1>1, <1>3, <1>5, <1>6, <1>7, <1>8, <1>9, <1>10 DEF Serve

-------------------------------------------------------------------------------
(* Commands on their way to a sandbox. *)

LEMMA NotEphemeral ==
    ASSUME NEW c, NEW c1, c1.a = c.a, ~Ephemeral(c)
    PROVE  EphemeralOk(c1)'
BY DEF EphemeralOk, Ephemeral

LEMMA StillEarly ==
    ASSUME NEW c1, ~c1.ran, ~c1.a.all, c1.pc \notin Foreign \cup Using \cup Ending,
           c1.pc \in Making => c1.g \in Gateways
    PROVE  EphemeralOk(c1)'
BY DEF EphemeralOk, Using, Ending, Stopping

\* A command that moves on and keeps its arguments, its gateway and its history.
Onward(c, c1) == c1.a = c.a /\ c1.g = c.g /\ c1.ran = c.ran
Outside == Ladder \cup Cleanup \cup {"ok", "err", "idle", "stop", "cleanup_metadata", "add_metadata",
                                     "auth", "inspect", "select", "extract"}

LEMMA Labels ==
    /\ \A l \in Outside : l \notin Foreign \cup Making \cup Using \cup Ending
    /\ \A l \in (Outside \ {"ok", "err", "idle"}) \cup Making \cup Using :
          l # "finalize" => l \notin {"finalize", "ok", "err", "idle"} \cup Ending
    /\ \A l \in Making \cup Using \cup Ending : l \notin Foreign
    /\ \A l \in Making : l \notin Using \cup Ending \cup {"ok", "err", "idle"}
    /\ \A l \in Using : l \notin Making \cup Ending \cup {"ok", "err", "idle"}
    /\ \A l \in Ending : l \notin Making \cup Using \cup {"ok", "err", "idle"}
BY DEF Outside, Ladder, Before, Blank, Signed, Filed, Cleanup, Foreign, Making, Using, Ending, Stopping

\* Nothing has run yet, so the command may stop at any of these labels.
LEMMA StaysOutside ==
    ASSUME NEW c, EphemeralOk(c), NEW c1, Onward(c, c1),
           c.pc \in (Outside \ {"ok", "err", "idle"}) \cup Making \cup (Using \ {"finalize"}),
           c1.pc \in Outside \/ (c1.pc \in Making /\ (Ephemeral(c) => c.g \in Gateways))
    PROVE  EphemeralOk(c1)'
<1>1. CASE ~Ephemeral(c)
    BY <1>1, NotEphemeral DEF Onward
<1>2. CASE Ephemeral(c)
    <2>1. ~c.ran /\ ~c.a.all
        BY <1>2, Labels DEF EphemeralOk, Using
    <2>2. ~c1.ran /\ ~c1.a.all /\ c1.g = c.g
        BY <2>1 DEF Onward
    <2>3. c1.pc \notin Foreign \cup Using \cup Ending /\ (c1.pc \in Making => c1.g \in Gateways)
        BY <1>2, <2>2, Labels
    <2> QED  BY <2>2, <2>3, StillEarly
<1> QED  BY <1>1, <1>2

\* The locals of a deployment.
Local(c, r) ==
    \/ r = c
    \/ \E x : \/ r = [c EXCEPT !.after = x] \/ r = [c EXCEPT !.recreate = x] \/ r = [c EXCEPT !.existed = x]
              \/ r = [c EXCEPT !.certs = x] \/ r = [c EXCEPT !.image = x]

LEMMA LocalOnward ==
    ASSUME NEW c, CmdOk(c), NEW r, Local(c, r), NEW step
    PROVE  Onward(c, [r EXCEPT !.pc = step]) /\ [r EXCEPT !.pc = step].pc = step
<1>1. DOMAIN r = CmdFields /\ r.a = c.a /\ r.g = c.g /\ r.ran = c.ran
    BY Fields DEF Local, CmdOk
<1> QED  BY <1>1, Fields DEF Onward

Locally(u) == \E r : \E step \in Outside : Goes(u, r, step) /\ Local(cmd[u], r)

LEMMA MovesLocally ==
    ASSUME NEW u, NEW r, NEW step \in Outside, Goes(u, r, step), Local(cmd[u], r)
    PROVE  Locally(u)
BY DEF Locally

LEMMA RaiseLocal ==
    ASSUME IInv, NEW u \in Users, Raise(u)
    PROVE  \E r : \E step \in {"d_stop", "err"} : Goes(u, r, step) /\ Local(cmd[u], r)
<1>1. PICK c : c = cmd[u]
    OBVIOUS
<1>2. CmdOk(c)
    BY <1>1 DEF IInv
<1>3. [c EXCEPT !.pc = "d_stop", !.after = "failed"] = [[c EXCEPT !.after = "failed"] EXCEPT !.pc = "d_stop"]
    BY <1>2, Fields DEF CmdOk
<1>4. CASE cmd' = [cmd EXCEPT ![u] = [c EXCEPT !.pc = "d_stop", !.after = "failed"]]
    <2>1. Goes(u, [c EXCEPT !.after = "failed"], "d_stop")
        BY <1>3, <1>4 DEF Goes
    <2>2. Local(c, [c EXCEPT !.after = "failed"])
        BY DEF Local
    <2> QED  BY <1>1, <2>1, <2>2
<1>5. CASE cmd' = [cmd EXCEPT ![u] = [c EXCEPT !.pc = "err"]]
    <2>1. Goes(u, c, "err") /\ Local(c, c)
        BY <1>5 DEF Goes, Local
    <2> QED  BY <1>1, <2>1
<1> QED  BY <1>1, <1>4, <1>5 DEF Raise, Raised

LEMMA DeployLocal ==
    ASSUME IInv, NEW u \in Users, DeployStep(u)
    PROVE  /\ cmd[u].pc \in Ladder
           /\ Locally(u)
<1>0. /\ CmdOk(cmd[u]) /\ Local(cmd[u], cmd[u])
      /\ \A x : /\ Local(cmd[u], [cmd[u] EXCEPT !.after = x]) /\ Local(cmd[u], [cmd[u] EXCEPT !.existed = x])
                /\ Local(cmd[u], [cmd[u] EXCEPT !.certs = x])
    BY DEF IInv, Local
<1>1. cmd[u].pc \in Ladder
    BY DEF DeployStep, check_existing_gateway, ensure_image, ensure_network, ensure_volume,
       check_port_conflicts, ensure_container, RemoveStale, create_container, start_container, clean_stale_nodes,
       load_existing_pki_bundle, wait_for_namespace, create_k8s_tls_secrets,
       restart_clustershell_deployment, store_pki_bundle, push_local_images, wait_for_gateway_ready,
       store_gateway_metadata, DockerFails, At, Fallible, Ladder, Before, Blank, Signed, Filed
<1>2. {"image", "d_stop", "network", "volume", "ports", "container", "replace", "make", "start", "workload",
       "reconcile", "namespace", "pki_write", "apply_server", "apply_ca", "apply_client", "restart", "ready",
       "pki_backup", "pki_swap", "add_metadata", "push", "push_restart", "metadata", "err", "ok",
       "activate", "boot_activate"} \subseteq Outside
    BY DEF Outside, Ladder, Before, Blank, Signed, Filed, Cleanup
<1>3. CASE Raise(u)
    BY <1>1, <1>2, <1>3, RaiseLocal, MovesLocally
<1>4. CASE \E step \in Outside : Goto(u, step)
    BY <1>0, <1>1, <1>4, MovesLocally DEF Goto
<1>5. CASE check_existing_gateway(u)
    <2>1. Goto(u, "image") \/ Raise(u) \/ Goes(u, [cmd[u] EXCEPT !.after = "image"], "d_stop")
        BY <1>5 DEF check_existing_gateway
    <2> QED  BY <1>0, <1>1, <1>2, <1>3, <1>4, <2>1, MovesLocally
<1>6. CASE ensure_image(u) \/ ensure_network(u) \/ ensure_volume(u) \/ check_port_conflicts(u)
           \/ ensure_container(u) \/ RemoveStale(u) \/ create_container(u) \/ start_container(u)
    <2>1. Raise(u) \/ \E step \in {"network", "volume", "ports", "container", "replace", "make", "start", "workload"} :
              Goto(u, step)
        BY <1>6 DEF ensure_image, ensure_network, ensure_volume, check_port_conflicts, ensure_container,
                    RemoveStale, create_container, start_container
    <2> QED  BY <1>2, <1>3, <1>4, <2>1
<1>7. CASE clean_stale_nodes(u)
    <2>1. \E x : Goes(u, [cmd[u] EXCEPT !.existed = x], "reconcile")
        BY <1>7 DEF clean_stale_nodes
    <2> QED  BY <1>0, <1>1, <1>2, <2>1, MovesLocally
<1>8. CASE load_existing_pki_bundle(u) \/ wait_for_namespace(u)
    <2>1. Goto(u, "namespace") \/ \E x : \E step \in {"pki_write", "apply_server"} :
              Goes(u, [cmd[u] EXCEPT !.certs = x], step)
        BY <1>8 DEF load_existing_pki_bundle, wait_for_namespace
    <2> QED  BY <1>0, <1>1, <1>2, <1>4, <2>1, MovesLocally
<1>9. CASE create_k8s_tls_secrets(u) \/ restart_clustershell_deployment(u)
    <2>1. \E step \in {"apply_ca", "apply_client", "restart", "pki_write", "ready"} : Goto(u, step)
        BY <1>9 DEF create_k8s_tls_secrets, restart_clustershell_deployment, At
    <2> QED  BY <1>2, <1>4, <2>1
<1>10. CASE store_pki_bundle(u)
    <2>1. Raise(u) \/ \E step \in {"pki_backup", "pki_swap", "add_metadata", "push", "ready"} : Goto(u, step)
        BY <1>10 DEF store_pki_bundle, At
    <2> QED  BY <1>2, <1>3, <1>4, <2>1
<1>11. CASE push_local_images(u) \/ wait_for_gateway_ready(u) \/ store_gateway_metadata(u)
    <2>1. \E step \in {"push_restart", "metadata", "ok", "activate", "boot_activate"} : Goto(u, step)
        BY <1>0, <1>11 DEF push_local_images, wait_for_gateway_ready, store_gateway_metadata, CmdOk
    <2> QED  BY <1>2, <1>4, <2>1
<1>12. CASE DockerFails(u)
    BY <1>3, <1>12 DEF DockerFails
<1> QED  BY <1>1, <1>5, <1>6, <1>7, <1>8, <1>9, <1>10, <1>11, <1>12 DEF DeployStep

LEMMA DestroyLocal ==
    ASSUME IInv, NEW u \in Users, DestroyStep(u)
    PROVE  /\ cmd[u].pc \in Cleanup \cup {"stop"}
           /\ Locally(u)
<1>0. /\ CmdOk(cmd[u]) /\ Local(cmd[u], cmd[u])
      /\ \A x : /\ Local(cmd[u], [cmd[u] EXCEPT !.after = x]) /\ Local(cmd[u], [cmd[u] EXCEPT !.image = x])
    BY DEF IInv, Local
<1>1. cmd[u].pc \in Cleanup \cup {"stop"}
    BY DEF DestroyStep, StopForDestroy, RemoveContainer, RemoveVolume, force_remove_network,
           DestroyFails, stop_container, At, Cleanup
<1>2. {"d_container", "d_volume", "d_network", "image", "err", "cleanup_metadata", "ok"} \subseteq Outside
    BY DEF Outside, Ladder, Before, Blank, Cleanup
<1>3. CASE \E step \in Outside : Goto(u, step)
    BY <1>0, <1>1, <1>3, MovesLocally DEF Goto
<1>4. CASE StopForDestroy(u) \/ DestroyFails(u)
    <2>1. \/ \E x : Goes(u, [cmd[u] EXCEPT !.image = x], "d_container")
          \/ \E x : Goes(u, [cmd[u] EXCEPT !.after = x], "err")
        BY <1>4 DEF StopForDestroy, DestroyFails
    <2> QED  BY <1>0, <1>1, <1>2, <2>1, MovesLocally
<1>5. CASE RemoveContainer(u) \/ RemoveVolume(u) \/ stop_container(u)
    BY <1>2, <1>3, <1>5 DEF RemoveContainer, RemoveVolume, stop_container
<1>6. CASE force_remove_network(u)
    <2>1. cmd[u].after \in {"image", "failed", "command"}
        BY <1>0, <1>6 DEF force_remove_network, At, CmdOk, Cleanup
    <2>2. Goto(u, "image") \/ Goto(u, "err") \/ Goto(u, "cleanup_metadata")
        BY <1>6, <2>1 DEF force_remove_network
    <2> QED  BY <1>2, <1>3, <2>2
<1> QED  BY <1>1, <1>4, <1>5, <1>6 DEF DestroyStep

\* Deployments, removals and the cluster itself leave the data alone, or take
\* the volume with all of it away.
DataStep == \A h \in Gateways : Data(h)' = Data(h) \/ Data(h)' = NoData

LEMMA ClusterFields ==
    ASSUME IInv, NEW g, NEW x, NEW y,
           \/ cluster' = cluster
           \/ cluster' = [cluster EXCEPT ![g] = NoCluster]
           \/ cluster' = [cluster EXCEPT ![g].serving = x, ![g].ghosts = y]
           \/ cluster' = [cluster EXCEPT ![g].serving = x]
           \/ cluster' = [cluster EXCEPT ![g].ghosts = x]
           \/ cluster' = [cluster EXCEPT ![g].server = x]
           \/ cluster' = [cluster EXCEPT ![g].ca = x]
           \/ cluster' = [cluster EXCEPT ![g].client = x]
           \/ cluster' = [cluster EXCEPT ![g].namespace = x]
           \/ cluster' = [cluster EXCEPT ![g].workload = x]
    PROVE  DataStep
<1>1. PICK k : k = cluster
    OBVIOUS
<1>2. DOMAIN k = Gateways /\ \A h \in Gateways : DOMAIN k[h] = DOMAIN NoCluster
    BY <1>1 DEF IInv, Shapes
<1>3. \A h \in Gateways : cluster'[h].data = k[h].data \/ cluster'[h].data = NoData
    BY <1>1, <1>2 DEF NoCluster
<1> QED  BY <1>1, <1>3 DEF DataStep, Data

LEMMA DockerRows ==
    ASSUME IInv, NEW u, DeployStep(u) \/ DestroyStep(u)
    PROVE  DataStep
<1>1. CASE UNCHANGED cluster
    BY <1>1 DEF DataStep, Data
<1>2. CASE create_container(u)
    <2>1. UNCHANGED cluster \/ \E x, y : cluster' = [cluster EXCEPT ![Gw(u)].serving = x, ![Gw(u)].ghosts = y]
        BY <1>2 DEF create_container
    <2>2. CASE \E x, y : cluster' = [cluster EXCEPT ![Gw(u)].serving = x, ![Gw(u)].ghosts = y]
        <3>1. PICK x, y : cluster' = [cluster EXCEPT ![Gw(u)].serving = x, ![Gw(u)].ghosts = y]
            BY <2>2
        <3> QED  BY <3>1, ClusterFields
    <2> QED  BY <1>1, <2>1, <2>2
<1>3. CASE clean_stale_nodes(u)
    <2>1. \E x : cluster' = [cluster EXCEPT ![Gw(u)].ghosts = x]
        BY <1>3 DEF clean_stale_nodes
    <2> QED  BY <2>1, ClusterFields
<1>4. CASE create_k8s_tls_secrets(u)
    <2>1. \E x : \/ cluster' = [cluster EXCEPT ![Gw(u)].server = x]
                 \/ cluster' = [cluster EXCEPT ![Gw(u)].ca = x]
                 \/ cluster' = [cluster EXCEPT ![Gw(u)].client = x]
        BY <1>4 DEF create_k8s_tls_secrets, At
    <2> QED  BY <2>1, ClusterFields
<1>5. CASE \/ restart_clustershell_deployment(u) \/ StopForDestroy(u) \/ RemoveContainer(u) \/ stop_container(u)
           \/ ensure_container(u) \/ RemoveStale(u)
    <2>1. UNCHANGED cluster \/ \E x : cluster' = [cluster EXCEPT ![Gw(u)].serving = x]
        BY <1>5 DEF restart_clustershell_deployment, StopForDestroy, RemoveContainer, stop_container,
                    ensure_container, RemoveStale
    <2> QED  BY <1>1, <2>1, ClusterFields
<1>6. CASE RemoveVolume(u)
    <2>1. cluster' = [cluster EXCEPT ![Gw(u)] = NoCluster]
        BY <1>6 DEF RemoveVolume
    <2> QED  BY <2>1, ClusterFields
<1>7. CASE \/ check_existing_gateway(u) \/ ensure_image(u) \/ ensure_network(u) \/ ensure_volume(u)
           \/ check_port_conflicts(u) \/ start_container(u) \/ load_existing_pki_bundle(u)
           \/ wait_for_namespace(u) \/ store_pki_bundle(u) \/ push_local_images(u)
           \/ wait_for_gateway_ready(u) \/ store_gateway_metadata(u) \/ DockerFails(u)
           \/ force_remove_network(u) \/ DestroyFails(u)
    BY <1>1, <1>7 DEF check_existing_gateway, ensure_image, ensure_network, ensure_volume,
        check_port_conflicts, start_container, load_existing_pki_bundle, wait_for_namespace,
        store_pki_bundle, push_local_images, wait_for_gateway_ready, store_gateway_metadata, DockerFails,
        force_remove_network, DestroyFails, bootVars
<1> QED  BY <1>2, <1>3, <1>4, <1>5, <1>6, <1>7 DEF DeployStep, DestroyStep

LEMMA DockerEphemeral ==
    ASSUME IInv, EInv, NEW u \in Users, DockerStep(u)
    PROVE  EInv'
<1>1. DeployStep(u) \/ DestroyStep(u)
    BY DEF DockerStep
<1>2. RowsStep
    BY <1>1, DockerRows, RowsSame DEF DockerStep, DataStep, EInv
<1>3. cmd[u].pc \in Ladder \cup Cleanup \cup {"stop"} /\ Locally(u)
    BY <1>1, DeployLocal, DestroyLocal
<1>4. PICK r, step : step \in Outside /\ Goes(u, r, step) /\ Local(cmd[u], r)
    BY <1>3 DEF Locally
<1>5. PICK c : c = cmd[u]
    OBVIOUS
<1>6. PICK c1 : c1 = [r EXCEPT !.pc = step]
    OBVIOUS
<1>7. CmdOk(c) /\ EphemeralOk(c) /\ cmd' = [cmd EXCEPT ![u] = c1]
    BY <1>4, <1>5, <1>6 DEF IInv, EInv, Goes
<1>8. Onward(c, c1) /\ c1.pc = step
    BY <1>4, <1>5, <1>6, <1>7, LocalOnward
<1>9. c.pc \in Outside \ {"ok", "err", "idle"}
    BY <1>3, <1>5 DEF Outside, Ladder, Before, Blank, Signed, Filed, Cleanup
<1>10. EphemeralOk(c1)'
    BY <1>4, <1>7, <1>8, <1>9, StaysOutside
<1> QED  BY <1>2, <1>7, <1>10, EphemeralStep

\* Steps of the gateways' own.
LEMMA OthersEphemeral ==
    ASSUME IInv, EInv, (ClusterStep /\ UNCHANGED created) \/ GatewayProgress \/ ProcessChange
    PROVE  EInv'
<1>0. RowsOk
    BY DEF EInv
<1>1. CASE ClusterStep /\ UNCHANGED created
    <2>1. PICK g \in Gateways : NamespaceCreated(g) \/ WorkloadStarts(g)
        BY <1>1 DEF ClusterStep
    <2>2. \E x : \/ cluster' = [cluster EXCEPT ![g].namespace = x]
                 \/ cluster' = [cluster EXCEPT ![g].workload = x]
                 \/ cluster' = [cluster EXCEPT ![g].serving = x]
        BY <2>1 DEF NamespaceCreated, WorkloadStarts
    <2>3. DataStep
        BY <2>2, ClusterFields
    <2>4. UNCHANGED cmd
        BY <2>1 DEF NamespaceCreated, WorkloadStarts
    <2> QED  BY <1>0, <1>1, <2>3, <2>4, RowsSame, NobodysStep DEF DataStep
<1>2. CASE ProcessChange
    <2>1. UNCHANGED <<cluster, created, cmd>>
        BY <1>2 DEF ProcessChange, bootVars
    <2> QED  BY <1>0, <2>1, RowsUntouched, NobodysStep
<1>3. CASE GatewayProgress
    <2>1. PICK g \in Gateways :
             \/ \E s \in Data(g).sandboxes, phase \in {"Ready", "Error"} :
                   SetData(g, "sandboxes", (Data(g).sandboxes \ {s}) \cup {[s EXCEPT !.phase = phase]})
             \/ \E x : SetData(g, "policies", x)
        BY <1>3 DEF GatewayProgress
    <2>2. UNCHANGED <<cmd, created>>
        BY <1>3 DEF GatewayProgress
    <2>3. created' \in {created, created + 1} /\ created' <= MaxSandboxes
        BY <1>0, <2>2, CliAssumption DEF RowsOk
    <2>4. CASE \E x : SetData(g, "policies", x)
        <3>1. PICK x : SetData(g, "policies", x)
            BY <2>4
        <3>2. RowsStep
            BY <1>0, <2>3, <3>1, DataFields, RowsSet
        <3> QED  BY <2>2, <3>2, NobodysStep
    <2>5. CASE ~\E x : SetData(g, "policies", x)
        <3>1. PICK s \in Data(g).sandboxes, phase \in {"Ready", "Error"} :
                   SetData(g, "sandboxes", (Data(g).sandboxes \ {s}) \cup {[s EXCEPT !.phase = phase]})
            BY <2>1, <2>5
        <3>2. PICK b1 : b1 = [s EXCEPT !.phase = phase]
            OBVIOUS
        <3>3. \A b \in Data(g).sandboxes : DOMAIN b = {"name", "sid", "phase"}
            BY <1>0 DEF RowsOk
        <3>4. DOMAIN b1 = {"name", "sid", "phase"} /\ b1.name = s.name /\ b1.sid = s.sid
            BY <3>2, <3>3
        <3>5. PICK value : value = (Data(g).sandboxes \ {s}) \cup {b1}
            OBVIOUS
        <3>6. \A b \in value : /\ DOMAIN b = {"name", "sid", "phase"}
                               /\ \E t \in Data(g).sandboxes : t.name = b.name /\ t.sid = b.sid
            BY <3>3, <3>4, <3>5
        <3>7. SetData(g, "sandboxes", value)
            BY <3>1, <3>2, <3>5
        <3>8. RowsStep
            BY <1>0, <2>3, <3>6, <3>7, DataFields, RowsSet
        <3> QED  BY <2>2, <3>8, NobodysStep
    <2> QED  BY <2>4, <2>5
<1> QED  BY <1>1, <1>2, <1>3

-------------------------------------------------------------------------------
(* The steps of a command on its sandbox. *)

\* A step of a command of another kind.
LEMMA OtherKind ==
    ASSUME IInv, EInv, NEW u \in Users, Quietly(u), RowsStep, ~Ephemeral(cmd[u])
    PROVE  EInv'
<1>1. PICK r, step : Goes(u, r, step) /\ Kept(cmd[u], r)
    BY DEF Quietly
<1>2. PICK c1 : c1 = [r EXCEPT !.pc = step]
    OBVIOUS
<1>3. c1.a = cmd[u].a
    BY <1>1, <1>2, Fields DEF Kept
<1>4. PICK c : c = cmd[u]
    OBVIOUS
<1>5. EphemeralOk(c1)'
    BY <1>3, <1>4, NotEphemeral
<1> QED  BY <1>1, <1>2, <1>5, EphemeralStep DEF Goes

\* The command moves on outside of its sandbox's life, or towards it.
LEMMA MovesOutside ==
    ASSUME IInv, EInv, NEW u \in Users, RowsStep, NEW r, NEW step, Goes(u, r, step),
           DOMAIN r = CmdFields, Onward(cmd[u], r),
           cmd[u].pc \in (Outside \ {"ok", "err", "idle"}) \cup Making \cup (Using \ {"finalize"}),
           step \in Outside \/ (step \in Making /\ (Ephemeral(cmd[u]) => cmd[u].g \in Gateways))
    PROVE  EInv'
<1>1. PICK c : c = cmd[u]
    OBVIOUS
<1>2. PICK c1 : c1 = [r EXCEPT !.pc = step]
    OBVIOUS
<1>3. c1.pc = step /\ Onward(c, c1)
    BY <1>1, <1>2, Fields DEF Onward
<1>4. EphemeralOk(c) /\ cmd' = [cmd EXCEPT ![u] = c1]
    BY <1>1, <1>2 DEF EInv, Goes
<1>5. EphemeralOk(c1)'
    BY <1>1, <1>3, <1>4, StaysOutside
<1> QED  BY <1>4, <1>5, EphemeralStep

LEMMA GatewayEphemeral ==
    ASSUME IInv, EInv, NEW u \in Users, GatewayStep(u)
    PROVE  EInv'
<1>0. CmdOk(cmd[u]) /\ EphemeralOk(cmd[u]) /\ DOMAIN cmd[u] = CmdFields /\ Onward(cmd[u], cmd[u])
    BY DEF IInv, EInv, CmdOk, Onward
<1>1. UNCHANGED <<cluster, created>>
    BY DEF GatewayStep, gateway_admin_deploy, save_active_gateway, wait_for_grpc_ready,
        cleanup_gateway_metadata, extract_and_store_pki, gateway_add, browser_auth_flow,
        gateway_select_with, Inspect, bootVars
<1>2. RowsStep
    BY <1>1, RowsUntouched DEF EInv
<1>3. {"check", "existing", "ok", "err", "activate", "boot_activate", "cleanup_metadata", "extract", "pki_write",
       "add_metadata", "auth", "select", "inspect"} \subseteq Outside
    BY DEF Outside, Ladder, Before, Blank, Signed, Filed, Cleanup
<1>4. ASSUME cmd[u].pc \in Outside \ {"ok", "err", "idle"}, \E step \in {"ok", "err", "existing", "auth"} : Goto(u, step)
      PROVE  EInv'
    BY <1>0, <1>2, <1>3, <1>4, MovesOutside DEF Goto
<1>5. CASE gateway_admin_deploy(u)
    <2>1. (\E step \in {"ok", "err", "existing", "auth"} : Goto(u, step))
          \/ Goes(u, [cmd[u] EXCEPT !.recreate = TRUE], "existing")
        BY <1>5 DEF gateway_admin_deploy
    <2>2. DOMAIN [cmd[u] EXCEPT !.recreate = TRUE] = CmdFields /\ Onward(cmd[u], [cmd[u] EXCEPT !.recreate = TRUE])
        BY <1>0, Fields DEF Onward
    <2>3. cmd[u].pc \in Outside \ {"ok", "err", "idle"}
        BY <1>3, <1>5 DEF gateway_admin_deploy, At
    <2> QED  BY <1>2, <1>3, <1>4, <2>1, <2>2, <2>3, MovesOutside
<1>6. CASE save_active_gateway(u)
    <2>1. CASE At(u, "activate")
        BY <1>3, <1>4, <1>6, <2>1 DEF save_active_gateway, At
    <2>2. CASE ~At(u, "activate")
        <3>1. cmd[u].pc = "boot_activate" /\ Goes(u, cmd[u], "boot_wait")
            BY <1>6, <2>2 DEF save_active_gateway, At, Goto
        <3>2. Ephemeral(cmd[u]) => cmd[u].g \in Gateways
            BY <1>0, <3>1 DEF CmdOk, Deploys, Ladder, Filed, Ephemeral
        <3>3. "boot_wait" \in Making /\ cmd[u].pc \in Outside \ {"ok", "err", "idle"}
            BY <1>3, <3>1 DEF Making
        <3> QED  BY <1>0, <1>2, <3>1, <3>2, <3>3, MovesOutside
    <2> QED  BY <2>1, <2>2
<1>7. CASE wait_for_grpc_ready(u)
    <2>1. cmd[u].pc = "boot_wait" /\ (Goes(u, cmd[u], "c_port") \/ Goes(u, cmd[u], "err"))
        BY <1>7 DEF wait_for_grpc_ready, At, Goto
    <2>2. cmd[u].pc \in Making /\ "c_port" \in Making
        BY <2>1 DEF Making
    <2>3. Ephemeral(cmd[u]) => cmd[u].g \in Gateways
        BY <1>0, <2>2 DEF EphemeralOk
    <2> QED  BY <1>0, <1>2, <1>3, <2>1, <2>2, <2>3, MovesOutside
<1>8. CASE cleanup_gateway_metadata(u) \/ gateway_add(u) \/ browser_auth_flow(u) \/ Inspect(u)
    <2>1. cmd[u].pc \in {"cleanup_metadata", "add_metadata", "auth", "inspect"}
        BY <1>8 DEF cleanup_gateway_metadata, gateway_add, browser_auth_flow, Inspect, At
    <2>2. \E step \in {"ok", "err", "existing", "auth"} : Goto(u, step)
        <3>1. CASE cleanup_gateway_metadata(u) \/ gateway_add(u) \/ browser_auth_flow(u)
            BY <3>1 DEF cleanup_gateway_metadata, gateway_add, browser_auth_flow
        <3>2. CASE Inspect(u)
            BY <3>2 DEF Inspect, gateway_status, gateway_admin_info, doctor_logs, doctor_exec, doctor_check
        <3> QED  BY <1>8, <3>1, <3>2
    <2> QED  BY <1>3, <1>4, <2>1, <2>2
<1>9. CASE gateway_select_with(u) \/ extract_and_store_pki(u)
    <2>1. ~Ephemeral(cmd[u])
        BY <1>0, <1>9 DEF gateway_select_with, extract_and_store_pki, At, CmdOk, Ephemeral
    <2>2. \/ \E step \in {"ok", "err"} : Goes(u, cmd[u], step)
          \/ \E x : \E step \in {"ok", "activate"} : Goes(u, [cmd[u] EXCEPT !.g = x], step)
          \/ \E x : Goes(u, [cmd[u] EXCEPT !.certs = x], "pki_write")
        BY <1>9 DEF gateway_select_with, extract_and_store_pki, Goto
    <2>3. PICK r, step : Goes(u, r, step) /\ (r = cmd[u] \/ \E x : r = [cmd[u] EXCEPT !.g = x] \/ r = [cmd[u] EXCEPT !.certs = x])
        BY <2>2
    <2>4. DOMAIN r = CmdFields /\ r.a = cmd[u].a
        BY <1>0, <2>3, Fields
    <2>5. PICK c1 : c1 = [r EXCEPT !.pc = step]
        OBVIOUS
    <2>6. PICK c : c = cmd[u]
        OBVIOUS
    <2>7. c1.a = c.a
        BY <2>4, <2>5, <2>6, Fields
    <2>8. EphemeralOk(c1)'
        BY <2>1, <2>6, <2>7, NotEphemeral
    <2> QED  BY <1>2, <2>3, <2>5, <2>8, EphemeralStep DEF Goes
<1> QED  BY <1>5, <1>6, <1>7, <1>8, <1>9 DEF GatewayStep

\* The command goes on with its sandbox, or towards the end of it.
SameBox(c, c1) == c1.a = c.a /\ c1.g = c.g /\ c1.sid = c.sid /\ c1.name = c.name

LEMMA HoldsSame ==
    ASSUME NEW c, NEW c1, SameBox(c, c1), RowsOk, RowsStep
    PROVE  (Holds(c) => Holds(c1)') /\ (Gone(c) => Gone(c1)')
<1>1. (Holds(c) => Holds(c)') /\ (Gone(c) => Gone(c)')
    BY HoldsKept
<1>2. (Holds(c)' => Holds(c1)') /\ (Gone(c)' => Gone(c1)')
    BY DEF SameBox, Holds, Gone
<1> QED  BY <1>1, <1>2

LEMMA StaysUsing ==
    ASSUME NEW c, NEW c1, EphemeralOk(c), SameBox(c, c1), RowsOk, RowsStep, c.pc \in Using \ {"finalize"},
           c1.pc \in Using, c1.ran => c1.pc = "finalize"
    PROVE  EphemeralOk(c1)'
<1>1. CASE ~Ephemeral(c)
    BY <1>1, NotEphemeral DEF SameBox
<1>2. CASE Ephemeral(c)
    <2>1. Holds(c) /\ c.g \in Gateways /\ ~c.a.all
        BY <1>2, Labels DEF EphemeralOk
    <2>2. Holds(c1)' /\ c1.g \in Gateways /\ ~c1.a.all
        BY <2>1, HoldsSame DEF SameBox
    <2> QED  BY <2>2, Labels DEF EphemeralOk, Ending, Stopping
<1> QED  BY <1>1, <1>2

LEMMA StaysDeleting ==
    ASSUME NEW c, NEW c1, Ephemeral(c), EphemeralOk(c), SameBox(c, c1), RowsOk, RowsStep,
           c.pc \in {"finalize"} \cup Ending, Holds(c), c1.names = <<c1.name>>, c1.pc \in Ending,
           c1.pc \in Stopping => c1.ret = "del_stop"
    PROVE  EphemeralOk(c1)'
<1>1. c.g \in Gateways /\ ~c.a.all
    BY DEF EphemeralOk, Using
<1>2. Holds(c1)' /\ c1.g \in Gateways /\ ~c1.a.all /\ Deletes(c1)'
    BY <1>1, HoldsSame DEF SameBox, Deletes
<1> QED  BY <1>2, Labels DEF EphemeralOk

\* The steps before there is a sandbox.
LEMMA MakingEphemeral ==
    ASSUME IInv, EInv, NEW u \in Users,
           \/ CreateStart(u) \/ build_from_dockerfile(u) \/ ensure_required_providers(u)
           \/ auto_create_provider(u) \/ (RequestFails(u) /\ cmd[u].pc \in Making)
    PROVE  EInv'
<1>0. /\ CmdOk(cmd[u]) /\ EphemeralOk(cmd[u]) /\ DOMAIN cmd[u] = CmdFields /\ Onward(cmd[u], cmd[u])
      /\ RowsOk /\ "err" \in Outside
    BY DEF IInv, EInv, CmdOk, Onward, Outside
<1>1. cmd[u].pc \in Making /\ {"c_source", "c_providers", "c_provider", "c_create"} \subseteq Making
    BY DEF CreateStart, build_from_dockerfile, ensure_required_providers, auto_create_provider, At, Making
<1>2. Ephemeral(cmd[u]) => cmd[u].g \in Gateways
    BY <1>0, <1>1 DEF EphemeralOk
<1>3. /\ \A x : DOMAIN [cmd[u] EXCEPT !.provs = x] = CmdFields /\ Onward(cmd[u], [cmd[u] EXCEPT !.provs = x])
      /\ \A x : DOMAIN [cmd[u] EXCEPT !.tries = x] = CmdFields /\ Onward(cmd[u], [cmd[u] EXCEPT !.tries = x])
    BY <1>0, Fields DEF Onward
<1>4. CASE CreateStart(u) \/ build_from_dockerfile(u) \/ (RequestFails(u) /\ cmd[u].pc \in Making)
    <2>1. UNCHANGED <<cluster, created>>
          /\ \E step \in {"err", "c_source", "c_providers"} : Goes(u, cmd[u], step)
        BY <1>4 DEF CreateStart, build_from_dockerfile, RequestFails, bootVars, Goto
    <2> QED  BY <1>0, <1>1, <1>2, <2>1, RowsUntouched, MovesOutside
<1>5. CASE ensure_required_providers(u)
    <2>1. /\ UNCHANGED <<cluster, created>>
          /\ \/ \E step \in {"err", "c_create", "c_provider"} : Goes(u, cmd[u], step)
             \/ \E x : Goes(u, [cmd[u] EXCEPT !.provs = x], "c_create")
        BY <1>5 DEF ensure_required_providers, bootVars, Goto
    <2> QED  BY <1>0, <1>1, <1>2, <1>3, <2>1, RowsUntouched, MovesOutside
<1>6. CASE auto_create_provider(u)
    <2>1. UNCHANGED created /\ (UNCHANGED cluster \/ \E x : SetData(Gw(u), "providers", x))
        BY <1>6 DEF auto_create_provider
    <2>2. RowsStep
        <3>1. CASE UNCHANGED cluster
            BY <1>0, <2>1, <3>1, RowsUntouched
        <3>2. CASE \E x : SetData(Gw(u), "providers", x)
            <4>1. PICK x : SetData(Gw(u), "providers", x)
                BY <3>2
            <4>2. created' \in {created, created + 1} /\ created' <= MaxSandboxes
                BY <1>0, <2>1, CliAssumption DEF RowsOk
            <4> QED  BY <1>0, <4>1, <4>2, DataFields, RowsSet
        <3> QED  BY <2>1, <3>1, <3>2
    <2>3. \/ Goes(u, cmd[u], "err")
          \/ \E x : Goes(u, [cmd[u] EXCEPT !.tries = x], "c_provider")
          \/ \E x : Goes(u, [cmd[u] EXCEPT !.provs = x], "c_create")
        BY <1>6 DEF auto_create_provider, Goto
    <2> QED  BY <1>0, <1>1, <1>2, <1>3, <2>2, <2>3, MovesOutside
<1> QED  BY <1>4, <1>5, <1>6

\* The new sandbox is the only one with its id.
LEMMA CreateEphemeral ==
    ASSUME IInv, EInv, NEW u \in Users, sandbox_create(u)
    PROVE  EInv'
<1>0. /\ CmdOk(cmd[u]) /\ EphemeralOk(cmd[u]) /\ DOMAIN cmd[u] = CmdFields /\ Onward(cmd[u], cmd[u])
      /\ RowsOk /\ "err" \in Outside /\ cmd[u].pc \in Making
    BY DEF IInv, EInv, CmdOk, Onward, Outside, sandbox_create, At, Making
<1>1. CASE Goto(u, "err") /\ UNCHANGED <<cluster, created>>
    BY <1>0, <1>1, RowsUntouched, MovesOutside DEF Goto
<1>2. CASE ~(Goto(u, "err") /\ UNCHANGED <<cluster, created>>)
    <2>1. PICK n : /\ SetData(Gw(u), "sandboxes", Data(Gw(u)).sandboxes \cup
                                 {[name |-> n, sid |-> created + 1, phase |-> "Provisioning"]})
                   /\ Goes(u, [cmd[u] EXCEPT !.name = n, !.sid = created + 1, !.phase = "Provisioning"], "c_watch")
                   /\ created' = created + 1
        BY <1>2 DEF sandbox_create
    <2>2. PICK g, b1, c, c1 : /\ g = cmd[u].g /\ b1 = [name |-> n, sid |-> created + 1, phase |-> "Provisioning"]
                              /\ c = cmd[u]
                              /\ c1 = [[c EXCEPT !.name = n, !.sid = created + 1, !.phase = "Provisioning"]
                                           EXCEPT !.pc = "c_watch"]
        OBVIOUS
    <2>3. /\ c1.a = c.a /\ c1.g = g /\ c1.ran = c.ran /\ c1.sid = created + 1 /\ c1.name = n
          /\ c1.pc = "c_watch"
        BY <1>0, <2>2, Fields
    <2>4. created \in 0..MaxSandboxes /\ created < MaxSandboxes /\ MaxSandboxes \in Nat
        BY <1>0, CliAssumption DEF sandbox_create, RowsOk
    <2>5. PICK value : value = Data(g).sandboxes \cup {b1}
        OBVIOUS
    <2>6. SetData(g, "sandboxes", value)
        BY <2>1, <2>2, <2>5 DEF Gw
    <2>7. g \in Gateways => \A b \in value :
             /\ DOMAIN b = {"name", "sid", "phase"}
             /\ \/ \E s \in Data(g).sandboxes : s.name = b.name /\ s.sid = b.sid
                \/ created' = created + 1 /\ b.sid = created'
        <3>1. DOMAIN b1 = {"name", "sid", "phase"} /\ b1.sid = created + 1
            BY <2>2
        <3> QED  BY <1>0, <2>1, <2>5, <3>1 DEF RowsOk
    <2>8. RowsStep
        BY <1>0, <2>1, <2>4, <2>6, <2>7, DataFields, RowsSet
    <2>9. EphemeralOk(c1)'
        <3>1. CASE ~Ephemeral(c)
            BY <2>3, <3>1, NotEphemeral
        <3>2. CASE Ephemeral(c)
            <4>1. g \in Gateways /\ ~c1.a.all /\ ~c1.ran
                BY <1>0, <2>2, <2>3, <3>2, Labels DEF EphemeralOk, Using
            <4>2. \A h \in Gateways : Data(h)'.sandboxes = IF h = g THEN value ELSE Data(h).sandboxes
                <5>1. PICK k, d : k = cluster /\ d = Data(g)
                    OBVIOUS
                <5>2. /\ DOMAIN k = Gateways /\ \A h \in Gateways : "data" \in DOMAIN k[h]
                      /\ DOMAIN d = DOMAIN NoData
                    BY <1>0, <4>1, <5>1, DataFields DEF IInv, Shapes, RowsOk
                <5>3. cluster' = [k EXCEPT ![g] = [k[g] EXCEPT !.data = [d EXCEPT !.sandboxes = value]]]
                    BY <2>6, <5>1 DEF SetData, Data
                <5>4. \A h \in Gateways : cluster'[h].data.sandboxes = IF h = g THEN value ELSE k[h].data.sandboxes
                    BY <5>2, <5>3, DataFields
                <5> QED  BY <5>1, <5>4 DEF Data
            <4>3. \A h \in Gateways : \A b \in Data(h).sandboxes : b.sid # created + 1
                BY <1>0, <2>4 DEF RowsOk
            <4>4. \A h \in Gateways : \A b \in Data(h)'.sandboxes : b.sid = created + 1 => h = g /\ b.name = n
                BY <2>2, <2>5, <4>2, <4>3
            <4>5. Holds(c1)'
                BY <2>1, <2>3, <2>4, <4>4 DEF Holds
            <4> QED  BY <2>3, <4>1, <4>5 DEF EphemeralOk, Foreign, Using, Ending, Stopping
        <3> QED  BY <3>1, <3>2
    <2> QED  BY <2>1, <2>2, <2>8, <2>9, EphemeralStep DEF Goes
<1> QED  BY <1>1, <1>2

\* From the watch to the end of the session.
LEMMA UsingEphemeral ==
    ASSUME IInv, EInv, NEW u \in Users, Ephemeral(cmd[u]),
           WatchSandbox(u) \/ UploadFirst(u) \/ sandbox_sync_up(u) \/ OpenSession(u)
    PROVE  EInv'
<1>1. PICK c : c = cmd[u]
    OBVIOUS
<1>0. /\ CmdOk(c) /\ EphemeralOk(c) /\ DOMAIN c = CmdFields /\ Onward(c, c) /\ RowsOk /\ "err" \in Outside
      /\ Ephemeral(c) /\ c.a.op = "create" /\ ~c.a.editor /\ c.a.forward = 0
    BY <1>1 DEF IInv, EInv, CmdOk, Onward, Outside, Ephemeral, sandbox_should_persist
<1>2. c.pc \in Using \ {"finalize"} /\ {"c_watch", "c_upload", "u_copy", "c_open", "session"} \subseteq Using
    BY <1>1 DEF WatchSandbox, UploadFirst, sandbox_sync_up, OpenSession, At, Using
<1>3. ~c.ran
    BY <1>0, <1>2, Labels DEF EphemeralOk
<1>4. /\ UNCHANGED <<cluster, created>>
      /\ \/ Goes(u, c, "err")
         \/ \E step \in {"c_watch", "c_upload", "u_copy", "c_open", "session"} :
               \/ Goes(u, c, step)
               \/ \E x : Goes(u, [c EXCEPT !.phase = x], step) \/ Goes(u, [c EXCEPT !.session = x], step)
         \/ Goes(u, [c EXCEPT !.ran = TRUE, !.result = "err"], "finalize")
    <2>1. CASE WatchSandbox(u)
        BY <1>1, <2>1 DEF WatchSandbox, Goto, bootVars
    <2>2. ASSUME NEW step, ssh_session_config(u, step)
          PROVE  UNCHANGED <<cluster, created>> /\ (Goes(u, c, "err") \/ \E x : Goes(u, [c EXCEPT !.session = x], step))
        BY <1>1, <2>2 DEF ssh_session_config, Goto, bootVars
    <2>3. CASE UploadFirst(u)
        BY <1>0, <1>1, <2>2, <2>3 DEF UploadFirst, AfterUpload, Arg, Goto, bootVars
    <2>4. CASE sandbox_sync_up(u)
        BY <1>0, <1>1, <2>4 DEF sandbox_sync_up, AfterUpload, Arg, Goto, bootVars
    <2>5. CASE OpenSession(u)
        BY <1>0, <1>1, <2>5 DEF OpenSession, Arg, bootVars
    <2> QED  BY <2>1, <2>3, <2>4, <2>5
<1>5. RowsStep
    BY <1>0, <1>4, RowsUntouched
<1>6. CASE Goes(u, c, "err")
    BY <1>0, <1>1, <1>2, <1>5, <1>6, MovesOutside
<1>7. CASE \E step \in {"c_watch", "c_upload", "u_copy", "c_open", "session"} :
               \/ Goes(u, c, step)
               \/ \E x : Goes(u, [c EXCEPT !.phase = x], step) \/ Goes(u, [c EXCEPT !.session = x], step)
    <2>1. PICK step \in {"c_watch", "c_upload", "u_copy", "c_open", "session"} :
               \/ Goes(u, c, step)
               \/ \E x : Goes(u, [c EXCEPT !.phase = x], step) \/ Goes(u, [c EXCEPT !.session = x], step)
        BY <1>7
    <2>2. PICK r : Goes(u, r, step) /\ (r = c \/ \E x : r = [c EXCEPT !.phase = x] \/ r = [c EXCEPT !.session = x])
        BY <2>1
    <2>3. PICK c1 : c1 = [r EXCEPT !.pc = step]
        OBVIOUS
    <2>4. SameBox(c, c1) /\ c1.ran = c.ran /\ c1.pc = step
        BY <1>0, <2>2, <2>3, Fields DEF SameBox
    <2>5. EphemeralOk(c1)'
        BY <1>0, <1>2, <1>3, <1>5, <2>4, StaysUsing
    <2> QED  BY <1>5, <2>2, <2>3, <2>5, EphemeralStep DEF Goes
<1>8. CASE Goes(u, [c EXCEPT !.ran = TRUE, !.result = "err"], "finalize")
    <2>1. PICK c1 : c1 = [[c EXCEPT !.ran = TRUE, !.result = "err"] EXCEPT !.pc = "finalize"]
        OBVIOUS
    <2>2. SameBox(c, c1) /\ c1.pc = "finalize" /\ c1.pc \in Using
        BY <1>0, <2>1, Fields DEF SameBox, Using
    <2>3. EphemeralOk(c1)'
        BY <1>0, <1>2, <1>5, <2>2, StaysUsing
    <2> QED  BY <1>5, <1>8, <2>1, <2>3, EphemeralStep DEF Goes
<1> QED  BY <1>4, <1>6, <1>7, <1>8

\* The session ended; what was not to stay is to be deleted.
LEMMA FinalEphemeral ==
    ASSUME IInv, EInv, NEW u \in Users, Ephemeral(cmd[u]),
           exec_or_wait(u) \/ finalize_sandbox_create_session(u)
    PROVE  EInv'
<1>1. PICK c : c = cmd[u]
    OBVIOUS
<1>0. /\ CmdOk(c) /\ EphemeralOk(c) /\ DOMAIN c = CmdFields /\ RowsOk
      /\ Ephemeral(c) /\ c.a.op = "create" /\ ~sandbox_should_persist(c.a)
    BY <1>1 DEF IInv, EInv, CmdOk, Ephemeral
<1>2. UNCHANGED <<cluster, created>>
    BY DEF exec_or_wait, finalize_sandbox_create_session, bootVars
<1>3. RowsStep
    BY <1>0, <1>2, RowsUntouched
<1>4. CASE exec_or_wait(u)
    <2>1. PICK y : Goes(u, [c EXCEPT !.ran = TRUE, !.result = y], "finalize")
        BY <1>0, <1>1, <1>4 DEF exec_or_wait, sandbox_exec_with_mode, Arg
    <2>2. PICK c1 : c1 = [[c EXCEPT !.ran = TRUE, !.result = y] EXCEPT !.pc = "finalize"]
        OBVIOUS
    <2>3. SameBox(c, c1) /\ c1.pc = "finalize"
        BY <1>0, <2>2, Fields DEF SameBox
    <2>4. c.pc \in Using \ {"finalize"} /\ c1.pc \in Using
        BY <1>1, <1>4, <2>3 DEF exec_or_wait, At, Using
    <2>5. EphemeralOk(c1)'
        BY <1>0, <1>3, <2>3, <2>4, StaysUsing
    <2> QED  BY <1>3, <2>1, <2>2, <2>5, EphemeralStep DEF Goes
<1>5. CASE finalize_sandbox_create_session(u)
    <2>1. Goes(u, [c EXCEPT !.names = <<c.name>>], "del_connect") /\ c.pc = "finalize"
        BY <1>0, <1>1, <1>5 DEF finalize_sandbox_create_session, Arg, At
    <2>2. PICK c1 : c1 = [[c EXCEPT !.names = <<c.name>>] EXCEPT !.pc = "del_connect"]
        OBVIOUS
    <2>3. SameBox(c, c1) /\ c1.pc = "del_connect" /\ c1.names = <<c1.name>>
        BY <1>0, <2>2, Fields DEF SameBox
    <2>4. Holds(c) /\ c1.pc \in Ending
        BY <1>0, <2>1, <2>3 DEF EphemeralOk, Using, Ending, Stopping
    <2>5. EphemeralOk(c1)'
        BY <1>0, <1>3, <2>1, <2>3, <2>4, StaysDeleting DEF Stopping
    <2> QED  BY <1>3, <2>1, <2>2, <2>5, EphemeralStep DEF Goes
<1> QED  BY <1>4, <1>5

\* A deletion that fails is forgotten to have followed a session.
LEMMA DeleteFailsEphemeral ==
    ASSUME IInv, EInv, NEW u \in Users, Ephemeral(cmd[u]), UNCHANGED <<cluster, created>>, DeleteFails(u)
    PROVE  EInv'
<1>1. PICK c : c = cmd[u]
    OBVIOUS
<1>2. PICK c1 : c1 = [[c EXCEPT !.ran = FALSE] EXCEPT !.pc = "err"]
    OBVIOUS
<1>3. EphemeralOk(c) /\ DOMAIN c = CmdFields /\ RowsOk /\ Ephemeral(c)
    BY <1>1 DEF IInv, EInv, CmdOk
<1>4. c1.a = c.a /\ c1.ran = FALSE /\ c1.pc = "err"
    BY <1>2, <1>3, Fields
<1>5. EphemeralOk(c1)'
    BY <1>3, <1>4, StillEarly DEF EphemeralOk, Foreign, Using, Ending, Stopping, Making
<1>6. cmd' = [cmd EXCEPT ![u] = c1] /\ RowsStep
    BY <1>1, <1>2, <1>3, RowsUntouched DEF DeleteFails, Goes
<1> QED  BY <1>5, <1>6, EphemeralStep

\* The list of names is the one name until it has been deleted.
LEMMA DeletingEphemeral ==
    ASSUME IInv, EInv, NEW u \in Users, Ephemeral(cmd[u]), DeleteConnect(u) \/ stop_forwards_for_sandbox(u)
    PROVE  EInv'
<1>1. PICK c : c = cmd[u]
    OBVIOUS
<1>0. CmdOk(c) /\ EphemeralOk(c) /\ DOMAIN c = CmdFields /\ RowsOk /\ Ephemeral(c) /\ ~c.a.all
    BY <1>1 DEF IInv, EInv, CmdOk, EphemeralOk
<1>2. UNCHANGED <<cluster, created>> /\ c.pc \in Ending
    BY <1>1 DEF DeleteConnect, stop_forwards_for_sandbox, bootVars, At, Ending, Stopping
<1>3. RowsStep /\ c.g \in Gateways
    BY <1>0, <1>2, RowsUntouched DEF EphemeralOk
<1>4. CASE DeleteConnect(u)
    <2>1. DeleteFails(u) \/ Goes(u, [c EXCEPT !.names = c.names], "del_stop")
        BY <1>0, <1>1, <1>4 DEF DeleteConnect, Arg
    <2>2. CASE DeleteFails(u)
        BY <1>2, <2>2, DeleteFailsEphemeral
    <2>3. CASE Goes(u, [c EXCEPT !.names = c.names], "del_stop")
        <3>1. PICK c1 : c1 = [[c EXCEPT !.names = c.names] EXCEPT !.pc = "del_stop"]
            OBVIOUS
        <3>2. SameBox(c, c1) /\ c1.pc = "del_stop" /\ c1.names = c.names
            BY <1>0, <3>1, Fields DEF SameBox
        <3>3. Holds(c) /\ c1.names = <<c1.name>> /\ c1.pc \in Ending
            BY <1>0, <1>1, <1>4, <3>2 DEF DeleteConnect, At, EphemeralOk, Deletes, SameBox, Ending, Stopping
        <3>4. EphemeralOk(c1)'
            BY <1>0, <1>2, <1>3, <3>2, <3>3, StaysDeleting DEF Stopping
        <3> QED  BY <1>3, <2>3, <3>1, <3>4, EphemeralStep DEF Goes
    <2> QED  BY <2>1, <2>2, <2>3
<1>5. CASE stop_forwards_for_sandbox(u)
    <2>1. c.pc = "del_stop" /\ (Deletes(c) \/ (c.names = <<>> /\ Gone(c)))
        BY <1>0, <1>1, <1>5 DEF stop_forwards_for_sandbox, At, EphemeralOk
    <2>2. CASE c.names = <<>>
        <3>1. Goes(u, c, c.result) /\ Gone(c)
            BY <1>1, <1>5, <2>1, <2>2 DEF stop_forwards_for_sandbox, Goto, Deletes
        <3>2. PICK c1 : c1 = [c EXCEPT !.pc = c.result]
            OBVIOUS
        <3>3. SameBox(c, c1) /\ c1.pc \in {"ok", "err"}
            BY <1>0, <3>2, Fields DEF SameBox, CmdOk
        <3>4. Gone(c1)' /\ c1.g \in Gateways /\ ~c1.a.all
            BY <1>0, <1>3, <3>1, <3>3, HoldsSame DEF SameBox
        <3>5. EphemeralOk(c1)'
            BY <3>3, <3>4 DEF EphemeralOk, Foreign, Making, Using, Ending, Stopping
        <3> QED  BY <1>1, <1>3, <3>1, <3>2, <3>5, EphemeralStep DEF Goes
    <2>3. CASE c.names # <<>>
        <3>1. Holds(c) /\ c.names = <<c.name>> /\ Head(c.names) = c.name
            BY <2>1, <2>3 DEF Deletes
        <3>2. \/ Goes(u, c, "del_request")
              \/ \E y : Goes(u, [c EXCEPT !.name = c.name, !.port = y, !.ret = "del_stop"], "s_read")
            BY <1>1, <1>5, <2>3, <3>1 DEF stop_forwards_for_sandbox, Goto
        <3>3. CASE Goes(u, c, "del_request")
            <4>1. PICK c1 : c1 = [c EXCEPT !.pc = "del_request"]
                OBVIOUS
            <4>2. SameBox(c, c1) /\ c1.pc = "del_request" /\ c1.names = <<c1.name>> /\ c1.pc \in Ending
                BY <1>0, <3>1, <4>1, Fields DEF SameBox, Ending, Stopping
            <4>3. EphemeralOk(c1)'
                BY <1>0, <1>2, <1>3, <3>1, <4>2, StaysDeleting DEF Stopping
            <4> QED  BY <1>1, <1>3, <3>3, <4>1, <4>3, EphemeralStep DEF Goes
        <3>4. CASE \E y : Goes(u, [c EXCEPT !.name = c.name, !.port = y, !.ret = "del_stop"], "s_read")
            <4>1. PICK y : Goes(u, [c EXCEPT !.name = c.name, !.port = y, !.ret = "del_stop"], "s_read")
                BY <3>4
            <4>2. PICK c1 : c1 = [[c EXCEPT !.name = c.name, !.port = y, !.ret = "del_stop"] EXCEPT !.pc = "s_read"]
                OBVIOUS
            <4>3. /\ SameBox(c, c1) /\ c1.pc = "s_read" /\ c1.names = <<c1.name>> /\ c1.pc \in Ending
                  /\ c1.ret = "del_stop"
                BY <1>0, <3>1, <4>2, Fields DEF SameBox, Ending, Stopping
            <4>4. EphemeralOk(c1)'
                BY <1>0, <1>2, <1>3, <3>1, <4>3, StaysDeleting
            <4> QED  BY <1>1, <1>3, <4>1, <4>2, <4>4, EphemeralStep DEF Goes
        <3> QED  BY <3>2, <3>3, <3>4
    <2> QED  BY <2>2, <2>3
<1> QED  BY <1>4, <1>5

\* All sandboxes of the name go, and with them the one that was not to stay.
LEMMA DeletedRows ==
    ASSUME IInv, RowsOk, NEW g, NEW n, UNCHANGED created,
           SetData(g, "sandboxes", {s \in Data(g).sandboxes : s.name # n})
    PROVE  /\ RowsStep
           /\ g \in Gateways => \A b \in Data(g)'.sandboxes : b.name # n
<1>1. PICK value : value = {s \in Data(g).sandboxes : s.name # n}
    OBVIOUS
<1>2. SetData(g, "sandboxes", value)
    BY <1>1
<1>3. created' \in {created, created + 1} /\ created' <= MaxSandboxes
    BY CliAssumption DEF RowsOk
<1>4. g \in Gateways => \A b \in value : /\ DOMAIN b = {"name", "sid", "phase"}
                                         /\ \E s \in Data(g).sandboxes : s.name = b.name /\ s.sid = b.sid
    BY <1>1 DEF RowsOk
<1>5. RowsStep
    BY <1>2, <1>3, <1>4, DataFields, RowsSet
<1>6. g \in Gateways => Data(g)'.sandboxes = value
    <2>1. PICK k, d : k = cluster /\ d = Data(g)
        OBVIOUS
    <2>2. /\ DOMAIN k = Gateways /\ \A h \in Gateways : "data" \in DOMAIN k[h]
          /\ g \in Gateways => DOMAIN d = DOMAIN NoData
        BY <2>1, DataFields DEF IInv, Shapes, RowsOk
    <2>3. cluster' = [k EXCEPT ![g] = [k[g] EXCEPT !.data = [d EXCEPT !.sandboxes = value]]]
        BY <1>2, <2>1 DEF SetData, Data
    <2>4. g \in Gateways => cluster'[g].data.sandboxes = value
        BY <2>2, <2>3, DataFields
    <2> QED  BY <2>4 DEF Data
<1> QED  BY <1>1, <1>5, <1>6

LEMMA DeletedEphemeral ==
    ASSUME IInv, EInv, NEW u \in Users, Ephemeral(cmd[u]), sandbox_delete(u)
    PROVE  EInv'
<1>1. PICK c, n : c = cmd[u] /\ n = Head(c.names)
    OBVIOUS
<1>0. CmdOk(c) /\ EphemeralOk(c) /\ DOMAIN c = CmdFields /\ RowsOk /\ Ephemeral(c) /\ ~c.a.all
    BY <1>1 DEF IInv, EInv, CmdOk, EphemeralOk
<1>2. UNCHANGED created /\ c.pc = "del_request"
    BY <1>1 DEF sandbox_delete, At
<1>3. Holds(c) /\ c.names = <<c.name>> /\ c.g \in Gateways /\ n = c.name
    BY <1>0, <1>1, <1>2 DEF EphemeralOk, Deletes, Ending, Stopping
<1>4. CASE DeleteFails(u) /\ UNCHANGED cluster
    BY <1>2, <1>4, DeleteFailsEphemeral
<1>5. CASE Goto(u, "err") /\ UNCHANGED cluster /\ \A s \in Data(c.g).sandboxes : s.name # n
    <2>1. PICK c1 : c1 = [c EXCEPT !.pc = "err"]
        OBVIOUS
    <2>2. SameBox(c, c1) /\ c1.pc = "err"
        BY <1>0, <2>1, Fields DEF SameBox
    <2>4. Gone(c)
        BY <1>3, <1>5 DEF Holds, Gone
    <2>5. RowsStep
        BY <1>0, <1>2, <1>5, RowsUntouched
    <2>6. Gone(c1)' /\ c1.g \in Gateways /\ ~c1.a.all
        BY <1>0, <1>3, <2>2, <2>4, <2>5, HoldsSame DEF SameBox
    <2>7. EphemeralOk(c1)'
        BY <2>2, <2>6 DEF EphemeralOk, Foreign, Making, Using, Ending, Stopping
    <2> QED  BY <1>1, <1>5, <2>1, <2>5, <2>7, EphemeralStep DEF Goto, Goes
<1>6. CASE /\ ~(DeleteFails(u) /\ UNCHANGED cluster)
           /\ ~(Goto(u, "err") /\ UNCHANGED cluster /\ \A s \in Data(c.g).sandboxes : s.name # n)
    <2>1. /\ SetData(c.g, "sandboxes", {s \in Data(c.g).sandboxes : s.name # n})
          /\ Goes(u, [c EXCEPT !.names = Tail(c.names)], "del_stop")
        BY <1>1, <1>6 DEF sandbox_delete, Gw
    <2>2. RowsStep /\ \A b \in Data(c.g)'.sandboxes : b.name # n
        BY <1>0, <1>2, <1>3, <2>1, DeletedRows
    <2>3. PICK c1 : c1 = [[c EXCEPT !.names = Tail(c.names)] EXCEPT !.pc = "del_stop"]
        OBVIOUS
    <2>4. SameBox(c, c1) /\ c1.pc = "del_stop" /\ c1.names = <<>>
        BY <1>0, <1>3, <2>3, Fields DEF SameBox
    <2>5. Holds(c1)'
        BY <1>0, <1>3, <2>2, <2>4, HoldsSame
    <2>6. Gone(c1)'
        BY <1>3, <2>2, <2>4, <2>5 DEF Holds, Gone, SameBox
    <2>7. c1.g \in Gateways /\ ~c1.a.all
        BY <1>0, <1>3, <2>4 DEF SameBox
    <2>8. EphemeralOk(c1)'
        BY <2>4, <2>6, <2>7 DEF EphemeralOk, Foreign, Using, Ending, Stopping
    <2> QED  BY <2>1, <2>2, <2>3, <2>8, EphemeralStep DEF Goes
<1> QED  BY <1>4, <1>5, <1>6

\* A forward of the sandbox is stopped on the way.
LEMMA ForwardEphemeral ==
    ASSUME IInv, EInv, NEW u \in Users, ForwardStep(u)
    PROVE  EInv'
<1>1. PICK c : c = cmd[u]
    OBVIOUS
<1>0. CmdOk(c) /\ EphemeralOk(c) /\ DOMAIN c = CmdFields /\ RowsOk
    BY <1>1 DEF IInv, EInv, CmdOk
<1>2. UNCHANGED <<cluster, created>>
    BY DEF ForwardStep, ForwardPort, sandbox_forward, write_forward_pid, ForegroundForward,
           stop_forward, StopMatches, StopKills, RemovePidFile, bootVars
<1>3. RowsStep
    BY <1>0, <1>2, RowsUntouched
<1>4. CASE ~Ephemeral(cmd[u])
    BY <1>3, <1>4, ForwardQuiet, OtherKind
<1>5. CASE Ephemeral(cmd[u])
    <2>1. c.pc \notin {"f_port", "f_ssh", "f_pid", "f_wait"}
        BY <1>0, <1>1, <1>5 DEF EphemeralOk, Foreign
    <2>2. stop_forward(u) \/ StopMatches(u) \/ StopKills(u) \/ RemovePidFile(u)
        BY <1>1, <2>1 DEF ForwardStep, ForwardPort, sandbox_forward, write_forward_pid, ForegroundForward, At
    <2>3. /\ c.pc \in Stopping
          /\ \E r : /\ r = c \/ \E f : r = [c EXCEPT !.record = f]
                    /\ \E step \in {c.ret, "s_match", "s_kill", "s_remove"} : Goes(u, r, step)
        BY <1>1, <2>2 DEF stop_forward, StopMatches, StopKills, RemovePidFile, At, Goto, Stopping
    <2>4. c.ret = "del_stop" /\ Holds(c) /\ c.names = <<c.name>> /\ c.pc \in Ending
        BY <1>0, <1>1, <1>5, <2>3 DEF EphemeralOk, Deletes, Ending, Stopping
    <2>5. PICK r : /\ r = c \/ \E f : r = [c EXCEPT !.record = f]
                   /\ \E step \in {"del_stop", "s_match", "s_kill", "s_remove"} : Goes(u, r, step)
        BY <2>3, <2>4
    <2>6. PICK step \in {"del_stop", "s_match", "s_kill", "s_remove"} : Goes(u, r, step)
        BY <2>5
    <2>7. PICK c1 : c1 = [r EXCEPT !.pc = step]
        OBVIOUS
    <2>8. /\ SameBox(c, c1) /\ c1.names = <<c1.name>> /\ c1.pc \in Ending /\ c1.ret = "del_stop"
        BY <1>0, <2>4, <2>5, <2>6, <2>7, Fields DEF SameBox, Ending, Stopping
    <2>9. EphemeralOk(c1)'
        BY <1>0, <1>1, <1>3, <1>5, <2>4, <2>8, StaysDeleting
    <2> QED  BY <1>1, <1>3, <2>6, <2>7, <2>9, EphemeralStep DEF Goes
<1> QED  BY <1>4, <1>5

\* The other steps about sandboxes belong to other commands.
LEMMA SandboxEphemeral ==
    ASSUME IInv, EInv, NEW u \in Users, SandboxStep(u)
    PROVE  EInv'
<1>0. RowsOk /\ EphemeralOk(cmd[u])
    BY DEF EInv
<1>1. CASE CreateStart(u) \/ build_from_dockerfile(u) \/ ensure_required_providers(u) \/ auto_create_provider(u)
    BY <1>1, MakingEphemeral
<1>2. CASE sandbox_create(u)
    BY <1>2, CreateEphemeral
<1>3. CASE sandbox_delete(u)
    <2>1. CASE Ephemeral(cmd[u])
        BY <1>3, <2>1, DeletedEphemeral
    <2>2. CASE ~Ephemeral(cmd[u])
        <3>1. UNCHANGED created /\ (UNCHANGED cluster \/
                \E n : SetData(Gw(u), "sandboxes", {s \in Data(Gw(u)).sandboxes : s.name # n}))
            BY <1>3 DEF sandbox_delete
        <3>2. RowsStep
            BY <1>0, <3>1, RowsUntouched, DeletedRows
        <3> QED  BY <1>3, <2>2, <3>2, DeleteQuiet, OtherKind
    <2> QED  BY <2>1, <2>2
<1>4. CASE \/ WatchSandbox(u) \/ UploadFirst(u) \/ sandbox_sync_up(u) \/ OpenSession(u) \/ exec_or_wait(u)
           \/ finalize_sandbox_create_session(u) \/ DeleteConnect(u) \/ stop_forwards_for_sandbox(u)
           \/ sandbox_sync_down(u) \/ SaveLast(u) \/ SessionOf(u) \/ install_ssh_config(u)
    <2>1. CASE Ephemeral(cmd[u])
        <3>1. cmd[u].pc \notin {"d_copy", "k_save", "k_session", "u_session", "f_session", "e_read", "e_write"}
            BY <1>0, <2>1 DEF EphemeralOk, Foreign
        <3>2. ~(sandbox_sync_down(u) \/ SaveLast(u) \/ SessionOf(u) \/ install_ssh_config(u))
            BY <3>1 DEF sandbox_sync_down, SaveLast, SessionOf, install_ssh_config, At
        <3> QED  BY <1>4, <2>1, <3>2, UsingEphemeral, FinalEphemeral, DeletingEphemeral
    <2>2. CASE ~Ephemeral(cmd[u])
        <3>1. \A step : ssh_session_config(u, step) => UNCHANGED <<cluster, created>>
            BY DEF ssh_session_config, bootVars
        <3>2. UNCHANGED <<cluster, created>>
            BY <1>4, <3>1 DEF WatchSandbox, UploadFirst, sandbox_sync_up, OpenSession, exec_or_wait,
                finalize_sandbox_create_session, DeleteConnect, stop_forwards_for_sandbox,
                sandbox_sync_down, SaveLast, SessionOf, install_ssh_config, bootVars
        <3>3. RowsStep /\ Quietly(u)
            BY <1>0, <3>2, RowsUntouched, SandboxQuiet
        <3> QED  BY <2>2, <3>3, OtherKind
    <2> QED  BY <2>1, <2>2
<1> QED  BY <1>1, <1>2, <1>3, <1>4 DEF SandboxStep

LEMMA RequestEphemeral ==
    ASSUME IInv, EInv, NEW u \in Users, RequestStep(u)
    PROVE  EInv'
<1>0. RowsOk /\ EphemeralOk(cmd[u])
    BY DEF EInv
<1>1. CASE RequestFails(u) /\ cmd[u].pc \in Making
    BY <1>1, MakingEphemeral
<1>2. CASE ~(RequestFails(u) /\ cmd[u].pc \in Making)
    <2>1. cmd[u].pc \in Foreign
        BY <1>2 DEF RequestStep, sandbox_policy_set, PolicyPoll, confirm_global_setting_takeover,
            confirm_global_setting_delete, Request, discover_existing, RequestFails, At, Making, Foreign
    <2>2. ~Ephemeral(cmd[u])
        BY <1>0, <2>1 DEF EphemeralOk
    <2>3. PICK g : g = Gw(u)
        OBVIOUS
    <2>4. UNCHANGED created /\ (UNCHANGED cluster \/ (\E c : Store(g, update_config(Data(g), c).data))
                                \/ \E rpc, c : Store(g, Serve(rpc, Data(g), c).data))
        <3>1. CASE sandbox_policy_set(u)
            BY <2>3, <3>1 DEF sandbox_policy_set
        <3>2. CASE Request(u)
            BY <2>3, <3>2 DEF Request
        <3>3. CASE \/ PolicyPoll(u) \/ confirm_global_setting_takeover(u) \/ confirm_global_setting_delete(u)
                   \/ discover_existing(u) \/ RequestFails(u)
            BY <3>3 DEF PolicyPoll, confirm_global_setting_takeover, confirm_global_setting_delete,
                        discover_existing, RequestFails, bootVars
        <3> QED  BY <3>1, <3>2, <3>3 DEF RequestStep
    <2>5. RowsStep
        <3>1. CASE UNCHANGED cluster
            BY <1>0, <2>4, <3>1, RowsUntouched
        <3>2. CASE ~UNCHANGED cluster
            <4>1. PICK d : Store(g, d) /\ ((\E c : d = update_config(Data(g), c).data)
                                           \/ \E rpc, c : d = Serve(rpc, Data(g), c).data)
                BY <2>4, <3>2
            <4>2. g \in Gateways => DOMAIN Data(g) = DOMAIN NoData
                BY <1>0 DEF RowsOk
            <4>3. g \in Gateways => SameBoxes(Data(g), d)
                BY <4>1, <4>2, UpdateBoxes, ServeBoxes
            <4>4. g \in Gateways => DOMAIN d = DOMAIN NoData /\ d.sandboxes = Data(g).sandboxes
                BY <4>2, <4>3 DEF SameBoxes
            <4>5. created' \in {created, created + 1} /\ created' <= MaxSandboxes
                BY <1>0, <2>4, CliAssumption DEF RowsOk
            <4>6. g \in Gateways => \A b \in Data(g).sandboxes : DOMAIN b = {"name", "sid", "phase"}
                BY <1>0 DEF RowsOk
            <4> QED  BY <1>0, <4>1, <4>4, <4>5, <4>6, RowsStored
        <3> QED  BY <3>1, <3>2
    <2> QED  BY <2>2, <2>5, RequestQuiet, OtherKind
<1> QED  BY <1>1, <1>2

\* A gateway that is found is a known one.
LEMMA ResolvedGateway ==
    ASSUME NEW a, resolve_gateway(a) # None
    PROVE  resolve_gateway(a) \in Gateways
BY DEF resolve_gateway, resolve_gateway_name, find_gateway_by_endpoint, Registered

LEMMA CommandsKeepOp ==
    ASSUME NEW a, a \in Scripted, NEW r, Started(r), r.a = a
    PROVE  /\ a.op \in GatewayOps => GatewayCommand(r, a).a.op = a.op
           /\ StopCommand(r, a).a.op = a.op /\ ClientCommand(r, a).a.op = a.op
<1>1. \A x, y, z, w : /\ [r EXCEPT !.g = x, !.pc = y].a = a
                      /\ [r EXCEPT !.g = x, !.pc = y, !.then = z, !.recreate = w].a = a
                      /\ [r EXCEPT !.g = x, !.pc = y, !.after = z].a = a
                      /\ [r EXCEPT !.name = x, !.port = y, !.pc = z].a = a
    BY Fields DEF Started
<1>2. a.op \in GatewayOps => GatewayCommand(r, a).a.op = a.op
    <2>1. CASE a.op \in {"start", "stop", "destroy", "add", "login"}
        BY <1>1, <2>1 DEF GatewayCommand
    <2>2. CASE a.op \in {"select", "status", "info", "doctor_logs", "doctor_exec", "doctor_check"}
        BY <1>1, <2>2 DEF GatewayCommand
    <2> QED  BY <2>1, <2>2 DEF GatewayOps
<1>3. StopCommand(r, a).a.op = a.op
    BY <1>1 DEF StopCommand
<1>4. ClientCommand(r, a).a.op = a.op
    <2>1. "op" \in DOMAIN a
        BY SetupAssumption DEF NoArgs
    <2>2. PICK c : c = ClientCommand(r, a)
        OBVIOUS
    <2>3. PICK x, y : c.a = [a EXCEPT !.key = x, !.unset = y]
        BY <2>2, Fields DEF ClientCommand, Started
    <2> QED  BY <2>1, <2>2, <2>3
<1> QED  BY <1>2, <1>3, <1>4

LEMMA MainEphemeral ==
    ASSUME IInv, EInv, NEW u \in Users, main(u)
    PROVE  EInv'
<1>0. cmd[u].todo # <<>> /\ cmd[u].todo \in Seq(Scripted) /\ UNCHANGED <<cluster, created>>
    BY DEF IInv, CmdOk, main, bootVars
<1>1. PICK a, t : a = Head(cmd[u].todo) /\ t = Tail(cmd[u].todo)
    OBVIOUS
<1>2. a \in Scripted /\ t \in Seq(Scripted)
    BY <1>0, <1>1
<1>3. PICK r : r = [Fresh(t) EXCEPT !.a = a]
    OBVIOUS
<1>4. Started(r) /\ r.a = a /\ ~r.ran
    BY <1>2, <1>3, Fields DEF Fresh, Started, CmdFields
<1>5. PICK c1 : cmd' = [cmd EXCEPT ![u] = c1] /\ c1 =
              CASE a.op \in GatewayOps -> GatewayCommand(r, a)
                [] a.op = "create" -> CreateCommand(r, a)
                [] a.op = "stop_forward" -> StopCommand(r, a)
                [] OTHER -> ClientCommand(r, a)
    BY <1>1, <1>3 DEF main
<1>6. RowsStep
    BY <1>0, RowsUntouched DEF EInv
<1>7. EphemeralOk(c1)'
    <2>1. "create" \notin GatewayOps /\ "stop_forward" \notin GatewayOps
        BY DEF GatewayOps
    <2>2. CASE a.op # "create"
        <3>1. c1.a.op = a.op
            BY <1>2, <1>4, <1>5, <2>1, <2>2, CommandsKeepOp
        <3> QED  BY <2>2, <3>1 DEF EphemeralOk, Ephemeral
    <2>3. CASE a.op = "create"
        <3>1. c1 = CreateCommand(r, a)
            BY <1>5, <2>1, <2>3
        <3>2. ~a.all
            BY <1>2, <2>3, SetupAssumption
        <3>3. PICK g : g = resolve_gateway(a) /\ (g # None => g \in Gateways)
            BY ResolvedGateway
        <3>4. /\ c1.a = a /\ ~c1.ran /\ c1.pc \in {"err", "ok", "c_port", "existing"}
              /\ c1.pc = "c_port" => c1.g \in Gateways
            <4>1. CASE g # None
                <5>1. PICK y \in {"ok", "c_port"} : c1 = [r EXCEPT !.g = g, !.pc = y]
                    BY <3>1, <3>3, <4>1 DEF CreateCommand
                <5> QED  BY <1>4, <3>3, <4>1, <5>1, Fields DEF Started
            <4>2. CASE g = None
                <5>1. \/ c1 = [r EXCEPT !.pc = "err"]
                      \/ c1 = [r EXCEPT !.g = BootName, !.pc = "existing", !.then = "boot_activate", !.recreate = TRUE]
                    BY <3>1, <3>3, <4>2 DEF CreateCommand
                <5> QED  BY <1>4, <5>1, Fields DEF Started
            <4> QED  BY <4>1, <4>2
        <3> QED  BY <3>2, <3>4, StillEarly DEF Foreign, Using, Ending, Stopping, Making
    <2> QED  BY <2>2, <2>3
<1> QED  BY <1>5, <1>6, <1>7, EphemeralStep

LEMMA InterruptEphemeral ==
    ASSUME IInv, EInv, NEW u \in Users, Interrupt(u)
    PROVE  EInv'
<1>1. PICK c, c1 : c = cmd[u] /\ c1 = [c EXCEPT !.pc = "idle"]
    OBVIOUS
<1>2. EphemeralOk(c) /\ DOMAIN c = CmdFields /\ RowsOk
    BY <1>1 DEF IInv, EInv, CmdOk
<1>3. c1.a = c.a /\ c1.pc = "idle"
    BY <1>1, <1>2, Fields
<1>4. EphemeralOk(c1)'
    BY <1>2, <1>3 DEF EphemeralOk, Ephemeral, Foreign, Making, Using, Ending, Stopping
<1>5. cmd' = [cmd EXCEPT ![u] = c1] /\ UNCHANGED <<cluster, created>>
    BY <1>1 DEF Interrupt, Goto, Goes, bootVars
<1>6. RowsStep
    BY <1>2, <1>5, RowsUntouched
<1> QED  BY <1>4, <1>5, <1>6, EphemeralStep

LEMMA InitEphemeral ==
    ASSUME Init
    PROVE  EInv
<1>1. setup \in Setups /\ cluster = setup.cluster /\ created = 0 /\ cmd = [u \in Users |-> Fresh(setup.scripts[u])]
    BY DEF Init
<1>2. RowsOk
    <2>1. created \in 0..MaxSandboxes /\ (created + 1)..MaxSandboxes = 1..MaxSandboxes
        BY <1>1, CliAssumption
    <2> QED  BY <1>1, <2>1, SetupAssumption DEF RowsOk, Data
<1>3. ASSUME NEW u \in Users
      PROVE  EphemeralOk(cmd[u])
    <2>1. PICK c : c = cmd[u]
        OBVIOUS
    <2>2. c.a = NoArgs
        BY <1>1, <2>1 DEF Fresh
    <2>3. NoArgs.op = "none"
        BY DEF NoArgs
    <2>4. c.a.op # "create"
        BY <2>2, <2>3
    <2> QED  BY <2>1, <2>4 DEF EphemeralOk, Ephemeral
<1> QED  BY <1>2, <1>3 DEF EInv

LEMMA NextEphemeral ==
    ASSUME IInv, EInv, [Next]_vars
    PROVE  EInv'
<1>1. CASE UNCHANGED vars
    BY <1>1, RowsUntouched, NobodysStep DEF vars, EInv
<1>2. ASSUME NEW u \in Users, Step(u)
      PROVE  EInv'
    BY <1>2, MainEphemeral, InterruptEphemeral, GatewayEphemeral, ForwardEphemeral, SandboxEphemeral,
       RequestEphemeral, DockerEphemeral DEF Step
<1>3. CASE ClusterStep /\ UNCHANGED created
    BY <1>3, OthersEphemeral
<1>4. CASE GatewayProgress \/ ProcessChange
    BY <1>4, OthersEphemeral
<1> QED  BY <1>1, <1>2, <1>3, <1>4 DEF Next

\* A sandbox that was not to stay is gone once its command ended after the
\* session, however many others create and delete sandboxes meanwhile, also under
\* the same name (finalize_sandbox_create_session, sandbox_delete).
THEOREM EphemeralSandboxesGo == Spec => []EphemeralGone
<1>1. Init => EInv
    BY InitEphemeral
<1>2. IInv /\ EInv /\ [Next]_vars => EInv'
    BY NextEphemeral
<1>3. EInv => EphemeralGone
    BY DEF EInv, EphemeralOk, Ephemeral, Gone, EphemeralGone, Lives, Live, Arg, Gw
<1> QED  BY <1>1, <1>2, <1>3, CommandsInvariant, PTL DEF Spec

-------------------------------------------------------------------------------
(* The terminal interface, for any user, any answers of the gateway and any    *)
(* heights of the pane.                                                        *)

\* The fields of the App that the log pane and the approve-all dialog rest on.
PaneFields ==
    {"log_lines", "log_scroll", "log_cursor", "log_filter", "log_autoscroll", "log_height",
     "log_detail", "log_anchor", "focus", "screen", "middle_pane_tab", "pending",
     "approve_all_confirm_open", "approve_all_chunks"}

LogLineSet == {"error"} \cup UNION {s.lines : s \in TuiSetups}

PaneShape(a) ==
    /\ PaneFields \subseteq DOMAIN a
    /\ a.log_lines \in Seq(LogLineSet)
    /\ a.log_scroll \in Nat /\ a.log_cursor \in Nat /\ a.log_height \in Nat

\* A pane of the sandbox screen has the focus only on that screen.
Seated(a) ==
    /\ a.focus \in {"Gateways", "Providers", "Sandboxes", "SandboxPolicy", "SandboxLogs",
                    "SandboxDraft"}
    /\ a.middle_pane_tab \in {"Providers", "GlobalSettings"}
    /\ a.focus \in {"SandboxPolicy", "SandboxLogs", "SandboxDraft"} => a.screen = "Sandbox"

\* No draw finds a log pane without a line to show.
Tall == 0 \notin tuiSetup.heights

\* Where the handlers may leave the positions, before the next draw.
LogOk(a) ==
    /\ PaneShape(a)
    /\ Tall =>
          /\ a.log_scroll + a.log_cursor <= Shown(a)
          /\ a.log_anchor # Nil => a.log_anchor \in Nat /\ a.log_anchor <= Shown(a)
          /\ a.log_detail # Nil => a.log_detail \in Nat /\ a.log_detail < Shown(a)
    /\ Seated(a)
    /\ a.focus # "SandboxLogs" => a.log_anchor = Nil

\* After it the cursor is also inside the visible part: a line down scrolls
\* by one when the cursor is at its end, and the cursor must not be further.
PaneOk(a) ==
    /\ LogOk(a)
    /\ Tall /\ a.focus = "SandboxLogs" =>
          /\ a.log_height > 0
          /\ a.log_scroll < Shown(a) =>
                a.log_cursor < a.log_height /\ a.log_scroll + a.log_cursor < Shown(a)

SameLog(a, b) ==
    /\ PaneFields \subseteq DOMAIN b
    /\ b.log_lines = a.log_lines /\ b.log_scroll = a.log_scroll /\ b.log_cursor = a.log_cursor
    /\ b.log_filter = a.log_filter /\ b.log_height = a.log_height
    /\ b.log_detail = a.log_detail /\ b.log_anchor = a.log_anchor

SameDialog(a, b) ==
    /\ b.approve_all_confirm_open = a.approve_all_confirm_open
    /\ b.approve_all_chunks = a.approve_all_chunks

\* Neither the positions nor the dialog change, and the log pane is neither
\* entered nor left.
Calm(a, b) ==
    /\ SameLog(a, b) /\ SameDialog(a, b)
    /\ \/ b.focus = a.focus /\ b.screen = a.screen
       \/ a.focus # "SandboxLogs" /\ b.focus # "SandboxLogs"
    /\ Seated(a) => Seated(b)

\* How many lines are shown.
LEMMA ShownNat ==
    ASSUME NEW a, PaneShape(a)
    PROVE  Shown(a) \in Nat
<1>1. IsFiniteSet(DOMAIN a.log_lines)
    <2>1. DOMAIN a.log_lines = 1..Len(a.log_lines) /\ Len(a.log_lines) \in Nat
        BY DEF PaneShape
    <2>2. IsFiniteSet(1..Len(a.log_lines))
        BY <2>1, FS_Interval
    <2> QED  BY <2>1, <2>2
<1>2. filtered_log_lines(a) \subseteq DOMAIN a.log_lines
    BY DEF filtered_log_lines
<1> QED  BY <1>1, <1>2, FS_Subset, FS_CardinalityType DEF Shown

\* It depends on the lines and the filter, and grows with the lines.
LEMMA ShownSame ==
    ASSUME NEW a, NEW b, b.log_lines = a.log_lines, b.log_filter = a.log_filter
    PROVE  Shown(b) = Shown(a)
BY DEF Shown, filtered_log_lines

LEMMA ShownGrows ==
    ASSUME NEW a, NEW b, PaneShape(a), PaneShape(b), NEW line \in LogLineSet,
           b.log_lines = Append(a.log_lines, line), b.log_filter = a.log_filter
    PROVE  Shown(a) <= Shown(b)
<1>1. IsFiniteSet(filtered_log_lines(b))
    <2>1. DOMAIN b.log_lines = 1..Len(b.log_lines) /\ Len(b.log_lines) \in Nat
        BY DEF PaneShape
    <2>2. IsFiniteSet(DOMAIN b.log_lines)
        BY <2>1, FS_Interval
    <2>3. filtered_log_lines(b) \subseteq DOMAIN b.log_lines
        BY DEF filtered_log_lines
    <2> QED  BY <2>2, <2>3, FS_Subset
<1>2. filtered_log_lines(a) \subseteq filtered_log_lines(b)
    <2>1. \A i \in DOMAIN a.log_lines : i \in DOMAIN b.log_lines /\ b.log_lines[i] = a.log_lines[i]
        BY DEF PaneShape
    <2> QED  BY <2>1 DEF filtered_log_lines
<1> QED  BY <1>1, <1>2, FS_Subset DEF Shown

LEMMA CalmOk ==
    ASSUME NEW a, NEW b, Calm(a, b)
    PROVE  /\ PaneShape(a) => PaneShape(b)
           /\ LogOk(a) => LogOk(b)
           /\ PaneOk(a) => PaneOk(b)
<1>1. Shown(b) = Shown(a)
    BY ShownSame DEF Calm, SameLog
<1>2. PaneShape(a) => PaneShape(b)
    BY DEF Calm, SameLog, PaneShape
<1>3. LogOk(a) => LogOk(b)
    BY <1>1, <1>2 DEF Calm, SameLog, LogOk, Seated
<1> QED  BY <1>1, <1>2, <1>3 DEF Calm, SameLog, PaneOk

LEMMA CalmChain ==
    ASSUME NEW a, NEW b, NEW c, Calm(a, b), Calm(b, c)
    PROVE  Calm(a, c)
BY DEF Calm, SameLog, SameDialog, Seated

LEMMA CalmSelf ==
    ASSUME NEW a, PaneShape(a)
    PROVE  Calm(a, a)
BY DEF Calm, SameLog, SameDialog, PaneShape

-------------------------------------------------------------------------------
(* Keys. *)

Harmless(a, b) == Calm(a, b) /\ b.pending \notin {"approveAll", "delete"}

LEMMA SettingDialogs ==
    ASSUME NEW a, NEW k, PaneShape(a), a.pending = "none"
    PROVE  /\ Harmless(a, handle_setting_confirm_set_key(a, k))
           /\ Harmless(a, handle_setting_confirm_delete_key(a, k))
           /\ Harmless(a, handle_sandbox_setting_confirm_set_key(a, k))
           /\ Harmless(a, handle_sandbox_setting_confirm_delete_key(a, k))
<1>1. Harmless(a, handle_setting_confirm_set_key(a, k))
    BY DEF handle_setting_confirm_set_key, Confirm, Harmless, Calm, SameLog, SameDialog, Seated,
        PaneShape, PaneFields
<1>2. Harmless(a, handle_setting_confirm_delete_key(a, k))
    BY DEF handle_setting_confirm_delete_key, Confirm, Harmless, Calm, SameLog, SameDialog, Seated,
        PaneShape, PaneFields
<1>3. Harmless(a, handle_sandbox_setting_confirm_set_key(a, k))
    BY DEF handle_sandbox_setting_confirm_set_key, Confirm, Harmless, Calm, SameLog,
        SameDialog, Seated, PaneShape, PaneFields
<1>4. Harmless(a, handle_sandbox_setting_confirm_delete_key(a, k))
    BY DEF handle_sandbox_setting_confirm_delete_key, Confirm, Harmless, Calm, SameLog,
        SameDialog, Seated, PaneShape, PaneFields
<1> QED  BY <1>1, <1>2, <1>3, <1>4

LEMMA SettingEditors ==
    ASSUME NEW a, NEW k, PaneShape(a), a.pending = "none"
    PROVE  /\ Harmless(a, handle_setting_edit_key(a, k))
           /\ Harmless(a, handle_sandbox_setting_edit_key(a, k))
<1>1. Harmless(a, handle_setting_edit_key(a, k))
    BY DEF handle_setting_edit_key, EditKey, Harmless, Calm, SameLog, SameDialog, Seated,
        PaneShape, PaneFields
<1>2. Harmless(a, handle_sandbox_setting_edit_key(a, k))
    BY DEF handle_sandbox_setting_edit_key, EditKey, Harmless, Calm, SameLog, SameDialog, Seated,
        PaneShape, PaneFields
<1> QED  BY <1>1, <1>2

LEMMA Forms ==
    ASSUME NEW a, NEW k, PaneShape(a), a.pending = "none"
    PROVE  /\ Harmless(a, handle_create_form_key(a, k))
           /\ Harmless(a, handle_create_provider_key(a, k))
           /\ Harmless(a, handle_provider_detail_key(a, k))
           /\ Harmless(a, handle_update_provider_key(a, k))
           /\ Harmless(a, handle_command_key(a, k))
<1>1. Harmless(a, handle_create_form_key(a, k))
    BY DEF handle_create_form_key, Harmless, Calm, SameLog, SameDialog, Seated, PaneShape,
        PaneFields
<1>2. Harmless(a, handle_create_provider_key(a, k))
    BY DEF handle_create_provider_key, Harmless, Calm, SameLog, SameDialog, Seated, PaneShape,
        PaneFields
<1>3. Harmless(a, handle_provider_detail_key(a, k))
    BY DEF handle_provider_detail_key, Harmless, Calm, SameLog, SameDialog, Seated, PaneShape,
        PaneFields
<1>4. Harmless(a, handle_update_provider_key(a, k))
    BY DEF handle_update_provider_key, Harmless, Calm, SameLog, SameDialog, Seated, PaneShape,
        PaneFields
<1>5. Harmless(a, handle_command_key(a, k))
    BY DEF handle_command_key, Harmless, Calm, SameLog, SameDialog, Seated, PaneShape,
        PaneFields
<1> QED  BY <1>1, <1>2, <1>3, <1>4, <1>5

LEMMA DashboardKeys ==
    ASSUME NEW a, NEW k, PaneShape(a), a.pending = "none", a.focus # "SandboxLogs"
    PROVE  /\ Harmless(a, handle_gateways_key(a, k))
           /\ Harmless(a, handle_global_settings_key(a, k))
           /\ Harmless(a, handle_providers_key(a, k))
           /\ Harmless(a, handle_sandboxes_key(a, k))
           /\ Harmless(a, handle_sandbox_settings_key(a, k))
<1>1. Harmless(a, handle_gateways_key(a, k))
    BY DEF handle_gateways_key, Quit, Command, Harmless, Calm, SameLog, SameDialog, Seated,
        PaneShape, PaneFields
<1>2. Harmless(a, handle_global_settings_key(a, k))
    BY DEF handle_global_settings_key, OpenEdit, Quit, Command, Harmless, Calm,
        SameLog, SameDialog, Seated, PaneShape,
        PaneFields
<1>3. Harmless(a, handle_providers_key(a, k))
    BY DEF handle_providers_key, open_create_provider_form, open_update_provider_form,
        Quit, Command, Harmless, Calm, SameLog, SameDialog, Seated, PaneShape,
        PaneFields
<1>4. Harmless(a, handle_sandboxes_key(a, k))
    BY DEF handle_sandboxes_key, open_create_form, Quit, Command, Harmless, Calm,
        SameLog, SameDialog, Seated, PaneShape,
        PaneFields
<1>5. Harmless(a, handle_sandbox_settings_key(a, k))
    BY DEF handle_sandbox_settings_key, OpenEdit, cancel_log_stream, Harmless, Calm,
        SameLog, SameDialog, Seated, PaneShape,
        PaneFields
<1> QED  BY <1>1, <1>2, <1>3, <1>4, <1>5


\* What a key may leave to the loop.
KeyOk(a, b) ==
    /\ LogOk(b)
    /\ b.pending = "delete" => b.focus # "SandboxLogs"
    /\ b.pending = "approveAll" =>
          /\ a.approve_all_confirm_open /\ ~b.approve_all_confirm_open
          /\ b.approve_all_chunks = a.approve_all_chunks
    /\ b.approve_all_confirm_open =>
          \/ a.approve_all_confirm_open /\ b.approve_all_chunks = a.approve_all_chunks
          \/ ~a.approve_all_confirm_open /\ b.approve_all_chunks = Snapshot(a)

LEMMA HarmlessKey ==
    ASSUME NEW a, NEW b, LogOk(a), Harmless(a, b)
    PROVE  KeyOk(a, b)
<1>1. LogOk(b)
    BY CalmOk DEF Harmless
<1> QED  BY <1>1 DEF Harmless, KeyOk, Calm, SameDialog

\* The log pane opens with no line, and positions at its start.
LEMMA LogsOpened ==
    ASSUME NEW a, LogOk(a), a.focus # "SandboxLogs", a.screen = "Sandbox"
    PROVE  KeyOk(a, OpenLogs(a))
<1> DEFINE b == OpenLogs(a)
<1>1. /\ PaneFields \subseteq DOMAIN b /\ b.log_lines = <<>> /\ b.log_scroll = 0
      /\ b.log_cursor = 0 /\ b.log_height = a.log_height /\ b.log_detail = Nil
      /\ b.log_anchor = a.log_anchor /\ b.focus = "SandboxLogs" /\ b.screen = a.screen
      /\ b.middle_pane_tab = a.middle_pane_tab
      /\ b.pending = "log" /\ SameDialog(a, b)
    BY DEF OpenLogs, LogOk, PaneShape, PaneFields, SameDialog
<1>2. PaneShape(b)
    BY <1>1 DEF PaneShape, LogOk
<1>3. Shown(b) \in Nat
    BY <1>2, ShownNat
<1>4. LogOk(b)
    BY <1>1, <1>2, <1>3 DEF LogOk, Seated
<1> QED  BY <1>1, <1>4 DEF KeyOk, SameDialog

LEMMA PolicyKeys ==
    ASSUME NEW a, NEW k, LogOk(a), a.pending = "none", a.focus = "SandboxPolicy"
    PROVE  KeyOk(a, handle_policy_key(a, k))
<1>s. PaneShape(a) /\ a.focus # "SandboxLogs" /\ a.screen = "Sandbox"
    BY DEF LogOk, Seated
<1>1. CASE a.confirm_delete
    <2> DEFINE b == handle_policy_key(a, k)
    <2>1. Calm(a, b) /\ b.focus = a.focus /\ b.pending # "approveAll"
        BY <1>s, <1>1 DEF handle_policy_key, Calm, SameLog, SameDialog, Seated, PaneShape,
        PaneFields
    <2>2. LogOk(b)
        BY <2>1, CalmOk
    <2> QED  BY <1>s, <2>1, <2>2 DEF KeyOk, Calm, SameDialog
<1>2. CASE ~a.confirm_delete /\ a.sandbox_policy_tab = "Settings"
    <2>1. handle_policy_key(a, k) = handle_sandbox_settings_key(a, k)
        BY <1>2 DEF handle_policy_key
    <2> QED  BY <1>s, <2>1, DashboardKeys, HarmlessKey
<1>3. CASE ~a.confirm_delete /\ a.sandbox_policy_tab # "Settings" /\ k = "l"
    <2>1. handle_policy_key(a, k) = OpenLogs(a)
        BY <1>3 DEF handle_policy_key
    <2> QED  BY <1>s, <2>1, LogsOpened
<1>4. CASE ~a.confirm_delete /\ a.sandbox_policy_tab # "Settings" /\ k # "l"
    <2>1. Harmless(a, handle_policy_key(a, k))
        BY <1>s, <1>4 DEF handle_policy_key, cancel_log_stream, Quit, Harmless, Calm,
            SameLog, SameDialog, Seated, PaneShape,
        PaneFields
    <2> QED  BY <2>1, HarmlessKey
<1> QED  BY <1>1, <1>2, <1>3, <1>4

LEMMA DraftKeys ==
    ASSUME NEW a, NEW k, LogOk(a), a.pending = "none", a.focus = "SandboxDraft"
    PROVE  KeyOk(a, handle_draft_key(a, k))
<1> DEFINE b == handle_draft_key(a, k)
<1>s. PaneShape(a) /\ a.focus # "SandboxLogs" /\ a.screen = "Sandbox"
    BY DEF LogOk, Seated
<1>1. CASE a.approve_all_confirm_open
    <2>1. /\ SameLog(a, b) /\ b.focus = a.focus /\ b.screen = a.screen /\ b.pending # "delete"
          /\ b.middle_pane_tab = a.middle_pane_tab
          /\ b.pending = "approveAll" =>
                ~b.approve_all_confirm_open /\ b.approve_all_chunks = a.approve_all_chunks
          /\ b.approve_all_confirm_open => b.approve_all_chunks = a.approve_all_chunks
        BY <1>s, <1>1 DEF handle_draft_key, SameLog, PaneShape, PaneFields
    <2>2. LogOk(b)
        BY <2>1, ShownSame DEF SameLog, LogOk, PaneShape, Seated
    <2> QED  BY <1>1, <2>1, <2>2 DEF KeyOk
<1>2. CASE ~a.approve_all_confirm_open /\ b = OpenLogs(a)
    BY <1>s, <1>2, LogsOpened
<1>3. CASE ~a.approve_all_confirm_open /\ b # OpenLogs(a)
    <2>1. /\ SameLog(a, b) /\ b.focus # "SandboxLogs" /\ b.pending \notin {"delete", "approveAll"}
          /\ (Seated(a) => Seated(b))
          /\ b.approve_all_confirm_open => b.approve_all_chunks = Snapshot(a)
        BY <1>s, <1>3 DEF handle_draft_key, Quit, SameLog, Seated, PaneShape, PaneFields
    <2>2. LogOk(b)
        BY <1>s, <2>1, ShownSame DEF SameLog, LogOk, PaneShape
    <2> QED  BY <1>3, <2>1, <2>2 DEF KeyOk
<1> QED  BY <1>1, <1>2, <1>3


\* The position to scroll to is not past the end.
LEMMA OffsetShown ==
    ASSUME NEW a, PaneShape(a)
    PROVE  log_autoscroll_offset(a) \in Nat /\ log_autoscroll_offset(a) <= Shown(a)
<1>1. Shown(a) \in Nat /\ a.log_height \in Nat /\ BottomPad \in Nat
    BY ShownNat, TuiAssumption DEF PaneShape
<1>2. Sub(a.log_height, BottomPad) \in Nat
    BY <1>1 DEF Sub
<1>3. \A m \in Nat : Sub(Shown(a), m) \in Nat /\ Sub(Shown(a), m) <= Shown(a)
    BY <1>1 DEF Sub
<1> QED  BY <1>1, <1>2, <1>3 DEF log_autoscroll_offset

\* Positions may move within the lines that are shown.
LEMMA Repositioned ==
    ASSUME NEW a, NEW b, LogOk(a), PaneFields \subseteq DOMAIN b,
           b.log_lines = a.log_lines, b.log_filter = a.log_filter, b.log_height \in Nat,
           b.log_scroll \in Nat, b.log_cursor \in Nat,
           Tall => /\ b.log_scroll + b.log_cursor <= Shown(a)
                   /\ b.log_anchor # Nil => b.log_anchor \in Nat /\ b.log_anchor <= Shown(a)
                   /\ b.log_detail # Nil => b.log_detail \in Nat /\ b.log_detail < Shown(a),
           Seated(b), b.focus # "SandboxLogs" => b.log_anchor = Nil
    PROVE  LogOk(b)
<1>1. Shown(b) = Shown(a)
    BY ShownSame
<1> QED  BY <1>1 DEF LogOk, PaneShape

LEMMA LineDownOk ==
    ASSUME NEW a, PaneOk(a), a.focus = "SandboxLogs"
    PROVE  /\ LogOk(LineDown(a)) /\ SameDialog(a, LineDown(a))
           /\ LineDown(a).pending = a.pending
<1> DEFINE n == Shown(a)
           b == LineDown(a)
           visible == Least(Sub(n, a.log_scroll), a.log_height)
<1>n. /\ n \in Nat /\ a.log_scroll \in Nat /\ a.log_cursor \in Nat /\ a.log_height \in Nat
      /\ Tall => /\ a.log_height > 0 /\ a.log_scroll + a.log_cursor <= n
                 /\ a.log_scroll < n =>
                       a.log_cursor < a.log_height /\ a.log_scroll + a.log_cursor < n
    BY ShownNat DEF PaneOk, LogOk, PaneShape
<1>s. PaneFields \subseteq DOMAIN a /\ LogOk(a)
    BY DEF PaneOk, LogOk, PaneShape
<1>v. Sub(visible, 1) \in Nat
    BY <1>n DEF Sub, Least
<1>1. CASE n > 0 /\ a.log_cursor < Sub(visible, 1)
    <2>1. Tall => a.log_scroll + a.log_cursor + 1 <= n
        BY <1>n, <1>1 DEF Sub, Least
    <2>2. b = [a EXCEPT !.log_cursor = @ + 1]
        BY <1>n, <1>v, <1>1 DEF LineDown
    <2> HIDE DEF b, n
    <2>3. LogOk(b)
        BY <1>n, <1>s, <2>1, <2>2, Repositioned DEF LogOk, Seated, PaneFields, n
    <2> QED  BY <1>s, <2>2, <2>3 DEF SameDialog, PaneFields, b
<1>2. CASE /\ n > 0 /\ ~(a.log_cursor < Sub(visible, 1))
           /\ a.log_scroll < Sub(n, Least(a.log_height, n))
    <2>1. Tall => a.log_scroll + 1 + a.log_cursor <= n
        BY <1>n, <1>2 DEF Sub, Least
    <2>0. a.log_cursor >= Sub(visible, 1)
        BY <1>n, <1>2 DEF Sub, Least
    <2>2. b = [a EXCEPT !.log_scroll = @ + 1]
        BY <1>2, <2>0 DEF LineDown
    <2> HIDE DEF b, n
    <2>3. LogOk(b)
        BY <1>n, <1>s, <2>1, <2>2, Repositioned DEF LogOk, Seated, PaneFields, n
    <2> QED  BY <1>s, <2>2, <2>3 DEF SameDialog, PaneFields, b
<1>3. CASE b = a
    BY <1>s, <1>3 DEF SameDialog
<1>4. \/ n > 0 /\ a.log_cursor < Sub(visible, 1)
      \/ /\ n > 0 /\ ~(a.log_cursor < Sub(visible, 1))
         /\ a.log_scroll < Sub(n, Least(a.log_height, n))
      \/ b = a
    <2> SUFFICES ASSUME ~(n > 0 /\ a.log_cursor < Sub(visible, 1)),
                        ~(/\ n > 0 /\ ~(a.log_cursor < Sub(visible, 1))
                          /\ a.log_scroll < Sub(n, Least(a.log_height, n)))
                 PROVE  b = a
        OBVIOUS
    <2> QED  BY <1>n, <1>v DEF LineDown
<1> QED  BY <1>1, <1>2, <1>3, <1>4

LEMMA LogsKeys ==
    ASSUME NEW a, NEW k, PaneOk(a), a.pending = "none", a.focus = "SandboxLogs"
    PROVE  KeyOk(a, handle_logs_key(a, k))
<1> DEFINE n == Shown(a)
           b == handle_logs_key(a, k)
           offset == log_autoscroll_offset(a)
<1>n. /\ n \in Nat /\ a.log_scroll \in Nat /\ a.log_cursor \in Nat /\ a.log_height \in Nat
      /\ Tall => a.log_height > 0 /\ a.log_scroll + a.log_cursor <= n
      /\ offset \in Nat /\ offset <= n
    BY ShownNat, OffsetShown DEF PaneOk, LogOk, PaneShape
<1>s. PaneFields \subseteq DOMAIN a /\ LogOk(a) /\ a.screen = "Sandbox"
    BY DEF PaneOk, LogOk, PaneShape, Seated
<1>0. SUFFICES LogOk(b) /\ SameDialog(a, b) /\ b.pending = "none"
    BY DEF KeyOk, SameDialog
<1>1. CASE k = "j" /\ a.log_detail = Nil
    <2>1. b = LineDown(a)
        BY <1>1 DEF handle_logs_key
    <2> QED  BY <2>1, LineDownOk
<1>2. CASE ~(k = "j" /\ a.log_detail = Nil)
    <2>1. /\ PaneFields \subseteq DOMAIN b /\ b.log_lines = a.log_lines
          /\ SameDialog(a, b) /\ b.pending = "none" /\ b.log_height = a.log_height
          /\ b.screen = a.screen /\ b.middle_pane_tab = a.middle_pane_tab
          /\ b.focus \in {a.focus, "SandboxPolicy", "SandboxDraft"}
        BY <1>s, <1>2 DEF handle_logs_key, cancel_log_stream, Quit, SwitchFilter,
            SameDialog, PaneFields
    <2>2. CASE ~(k \in {"k", "G"} /\ a.log_detail = Nil)
        <3>1. \/ b.log_filter = a.log_filter
              \/ /\ b.log_anchor = Nil /\ b.log_detail = Nil
                 /\ b.log_scroll = 0 /\ b.log_cursor = 0
            BY <1>s, <1>2, <2>2 DEF handle_logs_key, cancel_log_stream, Quit,
                SwitchFilter, PaneFields
        <3>2. /\ \/ b.log_scroll = a.log_scroll /\ b.log_cursor = a.log_cursor
                 \/ b.log_scroll = 0 /\ b.log_cursor = 0
              /\ b.log_anchor \in {a.log_anchor, Nil, a.log_scroll + a.log_cursor}
              /\ \/ b.log_detail \in {a.log_detail, Nil}
                 \/ b.log_detail = a.log_scroll + a.log_cursor /\ a.log_scroll + a.log_cursor < n
              /\ b.focus # "SandboxLogs" => b.log_anchor = Nil
            BY <1>s, <1>2, <2>2 DEF handle_logs_key, cancel_log_stream, Quit,
                SwitchFilter, PaneFields
        <3> HIDE DEF b, n
        <3>3. PaneShape(b)
            BY <1>n, <1>s, <2>1, <3>2 DEF LogOk, PaneShape
        <3>4. Shown(b) \in Nat
            BY <3>3, ShownNat
        <3>5. Seated(b)
            BY <1>s, <2>1 DEF LogOk, Seated
        <3>6. CASE b.log_filter = a.log_filter
            BY <1>n, <1>s, <2>1, <3>2, <3>5, <3>6, Repositioned DEF LogOk, n
        <3>7. CASE /\ b.log_anchor = Nil /\ b.log_detail = Nil
                   /\ b.log_scroll = 0 /\ b.log_cursor = 0
            BY <2>1, <3>3, <3>4, <3>5, <3>7 DEF LogOk
        <3> QED  BY <2>1, <3>1, <3>6, <3>7
    <2>3. CASE k = "k" /\ a.log_detail = Nil
        <3>1. b = [a EXCEPT !.log_cursor = Sub(@, 1), !.log_autoscroll = FALSE,
                            !.log_scroll = IF a.log_cursor > 0 THEN @ ELSE Sub(@, 1)]
            BY <2>3 DEF handle_logs_key
        <3> HIDE DEF b, n
        <3>2. /\ b.log_filter = a.log_filter /\ b.log_anchor = a.log_anchor
              /\ b.log_detail = a.log_detail /\ b.focus = a.focus
              /\ b.log_cursor = Sub(a.log_cursor, 1)
              /\ b.log_scroll = IF a.log_cursor > 0 THEN a.log_scroll ELSE Sub(a.log_scroll, 1)
            BY <1>s, <3>1 DEF PaneFields
        <3>3. /\ b.log_scroll \in Nat /\ b.log_cursor \in Nat
              /\ Tall => b.log_scroll + b.log_cursor <= n
            BY <1>n, <3>2 DEF Sub
        <3> QED  BY <1>n, <1>s, <2>1, <3>2, <3>3, Repositioned DEF LogOk, Seated, n
    <2>4. CASE k = "G" /\ a.log_detail = Nil
        <3>1. b = [a EXCEPT !.log_anchor = Nil, !.log_scroll = offset, !.log_autoscroll = TRUE,
                            !.log_cursor = Least(Sub(Sub(Shown(a), offset), 1),
                                                    Sub(a.log_height, 1))]
            BY <2>4 DEF handle_logs_key
        <3> HIDE DEF b, n, offset
        <3>2. /\ b.log_filter = a.log_filter /\ b.log_anchor = Nil
              /\ b.log_detail = a.log_detail /\ b.focus = a.focus /\ b.log_scroll = offset
              /\ b.log_cursor = Least(Sub(Sub(n, offset), 1), Sub(a.log_height, 1))
            BY <1>s, <3>1 DEF PaneFields, n
        <3>3. b.log_scroll \in Nat /\ b.log_cursor \in Nat /\ b.log_scroll + b.log_cursor <= n
            BY <1>n, <3>2 DEF Sub, Least
        <3> QED  BY <1>n, <1>s, <2>1, <3>2, <3>3, Repositioned DEF LogOk, Seated, n
    <2> QED  BY <2>2, <2>3, <2>4
<1> QED  BY <1>1, <1>2


LEMMA SplashEnds ==
    ASSUME NEW a, LogOk(a)
    PROVE  Calm(a, dismiss_splash(a)) /\ dismiss_splash(a).pending = a.pending
BY DEF dismiss_splash, LogOk, Calm, SameLog, SameDialog, Seated, PaneShape, PaneFields

\* A key leaves positions that are within the lines shown.
LEMMA KeyKeeps ==
    ASSUME NEW a, NEW k, PaneOk(a), a.pending = "none"
    PROVE  KeyOk(a, handle_key(a, k))
<1>s. LogOk(a) /\ PaneShape(a) /\ Seated(a)
    BY DEF PaneOk, LogOk
<1> DEFINE b == handle_key(a, k)
<1>1. CASE b = Quit(a)
    <2>1. Harmless(a, b)
        BY <1>s, <1>1 DEF Quit, Harmless, Calm, SameLog, SameDialog, Seated, PaneShape, PaneFields
    <2> QED  BY <1>s, <2>1, HarmlessKey
<1>2. CASE b = dismiss_splash(a)
    <2>1. Harmless(a, b)
        BY <1>s, <1>2, SplashEnds DEF Harmless
    <2> QED  BY <1>s, <2>1, HarmlessKey
<1>3. CASE \/ b = handle_setting_confirm_set_key(a, k)
           \/ b = handle_setting_confirm_delete_key(a, k)
           \/ b = handle_sandbox_setting_confirm_set_key(a, k)
           \/ b = handle_sandbox_setting_confirm_delete_key(a, k)
           \/ b = handle_setting_edit_key(a, k)
           \/ b = handle_sandbox_setting_edit_key(a, k)
    <2>1. Harmless(a, b)
        BY <1>s, <1>3, SettingDialogs, SettingEditors
    <2> QED  BY <1>s, <2>1, HarmlessKey
<1>4. CASE \/ b = handle_create_form_key(a, k)
           \/ b = handle_create_provider_key(a, k)
           \/ b = handle_provider_detail_key(a, k)
           \/ b = handle_update_provider_key(a, k)
           \/ b = handle_command_key(a, k)
    <2>1. Harmless(a, b)
        BY <1>s, <1>4, Forms
    <2> QED  BY <1>s, <2>1, HarmlessKey
<1>5. CASE b = handle_normal_key(a, k)
    <2>1. CASE /\ a.focus \in {"Gateways", "Providers", "Sandboxes"}
        <3>1. \/ b = handle_gateways_key(a, k)
              \/ b = handle_global_settings_key(a, k)
              \/ b = handle_providers_key(a, k)
              \/ b = handle_sandboxes_key(a, k)
            BY <1>s, <1>5, <2>1 DEF handle_normal_key, Seated
        <3>2. Harmless(a, b)
            BY <1>s, <2>1, <3>1, DashboardKeys
        <3> QED  BY <1>s, <3>2, HarmlessKey
    <2>2. CASE a.focus = "SandboxPolicy"
        <3>1. b = handle_policy_key(a, k)
            BY <1>5, <2>2 DEF handle_normal_key
        <3> QED  BY <1>s, <2>2, <3>1, PolicyKeys
    <2>3. CASE a.focus = "SandboxLogs"
        <3>1. b = handle_logs_key(a, k)
            BY <1>5, <2>3 DEF handle_normal_key
        <3> QED  BY <1>s, <2>3, <3>1, LogsKeys
    <2>4. CASE a.focus = "SandboxDraft"
        <3>1. b = handle_draft_key(a, k)
            BY <1>5, <2>4 DEF handle_normal_key
        <3> QED  BY <1>s, <2>4, <3>1, DraftKeys
    <2> QED  BY <1>s, <2>1, <2>2, <2>3, <2>4 DEF Seated
<1> QED  BY <1>1, <1>2, <1>3, <1>4, <1>5 DEF handle_key

-------------------------------------------------------------------------------
(* Requests the loop waits for, and the next draw. *)

LEMMA ListsKeep ==
    ASSUME NEW a, PaneShape(a), NEW b
    PROVE  /\ b \in refresh_gateway_list(a) => Calm(a, b) /\ b.pending = a.pending
           /\ b \in refresh_providers(a) => Calm(a, b) /\ b.pending = a.pending
           /\ b \in refresh_global_settings(a) => Calm(a, b) /\ b.pending = a.pending
           /\ b \in refresh_sandboxes(a) => Calm(a, b) /\ b.pending = a.pending
           /\ b \in refresh_sandbox_policy(a) => Calm(a, b) /\ b.pending = a.pending
           /\ b \in fetch_sandbox_detail(a) => Calm(a, b) /\ b.pending = a.pending
           /\ b \in refresh_draft_chunks(a) => Calm(a, b) /\ b.pending = a.pending
<1>1. b \in refresh_gateway_list(a) => Calm(a, b) /\ b.pending = a.pending
    BY DEF refresh_gateway_list, Calm, SameLog, SameDialog, Seated, PaneShape, PaneFields
<1>2. b \in refresh_providers(a) => Calm(a, b) /\ b.pending = a.pending
    BY DEF refresh_providers, Calm, SameLog, SameDialog, Seated, PaneShape, PaneFields
<1>3. b \in refresh_global_settings(a) => Calm(a, b) /\ b.pending = a.pending
    BY DEF refresh_global_settings, Calm, SameLog, SameDialog, Seated, PaneShape, PaneFields
<1>4. b \in refresh_sandboxes(a) => Calm(a, b) /\ b.pending = a.pending
    BY DEF refresh_sandboxes, Calm, SameLog, SameDialog, Seated, PaneShape, PaneFields
<1>5. b \in refresh_sandbox_policy(a) => Calm(a, b) /\ b.pending = a.pending
    <2>1. b \in refresh_sandbox_policy(a) =>
             b = a \/ \E l, g : b = [a EXCEPT !.sandbox_settings = l, !.policy_is_global = g]
        <3> DEFINE Answered(g) == {[a EXCEPT !.sandbox_settings = l, !.policy_is_global = g]
                                   : l \in tuiSetup.scopes}
        <3>1. refresh_sandbox_policy(a) \subseteq {a} \cup UNION {Answered(g) : g \in tuiSetup.global}
            BY Zenon DEF refresh_sandbox_policy
        <3>2. \A g : b \in Answered(g) =>
                        \E l : b = [a EXCEPT !.sandbox_settings = l, !.policy_is_global = g]
            OBVIOUS
        <3> HIDE DEF Answered
        <3> QED  BY <3>1, <3>2
    <2>2. \A l, g : b = [a EXCEPT !.sandbox_settings = l, !.policy_is_global = g] =>
                      Calm(a, b) /\ b.pending = a.pending
        BY DEF Calm, SameLog, SameDialog, Seated, PaneShape, PaneFields
    <2> QED  BY <2>1, <2>2, CalmSelf
<1>6. b \in refresh_draft_chunks(a) => Calm(a, b) /\ b.pending = a.pending
    BY DEF refresh_draft_chunks, Calm, SameLog, SameDialog, Seated, PaneShape, PaneFields
<1> QED  BY <1>1, <1>2, <1>3, <1>4, <1>5, <1>6 DEF fetch_sandbox_detail

LEMMA DataKeeps ==
    ASSUME NEW a, PaneShape(a), NEW b \in refresh_data(a)
    PROVE  Calm(a, b) /\ b.pending = a.pending
<1>1. PICK c : c \in Bind(refresh_providers(a), refresh_global_settings)
               /\ b \in refresh_sandboxes(c)
    BY DEF refresh_data, Bind
<1>2. PICK d : d \in refresh_providers(a) /\ c \in refresh_global_settings(d)
    BY <1>1 DEF Bind
<1>3. Calm(a, d) /\ d.pending = a.pending
    BY <1>2, ListsKeep
<1>4. Calm(d, c) /\ c.pending = d.pending
    BY <1>2, <1>3, ListsKeep, CalmOk
<1>5. Calm(c, b) /\ b.pending = c.pending
    BY <1>1, <1>3, <1>4, ListsKeep, CalmOk
<1> QED  BY <1>3, <1>4, <1>5, CalmChain

\* The draw of the log pane brings the cursor into its visible part.
LEMMA DrawKeeps ==
    ASSUME tuiSetup \in TuiSetups, NEW a, LogOk(a), NEW b \in Drawn(a)
    PROVE  PaneOk(b) /\ SameDialog(a, b) /\ b.pending = a.pending
<1>1. CASE a.focus # "SandboxLogs"
    BY <1>1 DEF Drawn, PaneOk, SameDialog
<1>2. CASE a.focus = "SandboxLogs"
    <2>1. a.screen = "Sandbox"
        BY <1>2 DEF LogOk, Seated
    <2> DEFINE n == Shown(a)
               visible(h) == Least(Sub(n, a.log_scroll), h)
    <2>2. PICK h \in tuiSetup.heights :
               b = [a EXCEPT !.log_height = h,
                             !.log_cursor = IF visible(h) > 0 THEN Least(@, visible(h) - 1) ELSE @]
        BY <1>2, <2>1 DEF Drawn
    <2>3. h \in Nat /\ (Tall => h # 0)
        BY TuiAssumption DEF Tall
    <2>4. /\ n \in Nat /\ a.log_scroll \in Nat /\ a.log_cursor \in Nat
          /\ Tall => a.log_scroll + a.log_cursor <= n
          /\ PaneFields \subseteq DOMAIN a
        BY ShownNat DEF LogOk, PaneShape
    <2>5. /\ PaneFields \subseteq DOMAIN b /\ b.log_height = h /\ b.log_scroll = a.log_scroll
          /\ b.log_cursor = IF visible(h) > 0 THEN Least(a.log_cursor, visible(h) - 1)
                            ELSE a.log_cursor
          /\ b.log_lines = a.log_lines /\ b.log_filter = a.log_filter
          /\ b.log_anchor = a.log_anchor /\ b.log_detail = a.log_detail
          /\ b.focus = a.focus /\ b.screen = a.screen /\ b.middle_pane_tab = a.middle_pane_tab
          /\ SameDialog(a, b) /\ b.pending = a.pending
        BY <2>2, <2>4 DEF PaneFields, SameDialog
    <2> HIDE DEF n
    <2>6. /\ b.log_cursor \in Nat
          /\ Tall => /\ b.log_scroll + b.log_cursor <= n
                     /\ b.log_scroll < n => b.log_cursor < h /\ b.log_scroll + b.log_cursor < n
        BY <2>3, <2>4, <2>5 DEF Sub, Least
    <2>7. LogOk(b)
        BY <2>3, <2>4, <2>5, <2>6, Repositioned DEF LogOk, Seated, n
    <2>8. Shown(b) = n
        BY <2>5, ShownSame DEF n
    <2> QED  BY <2>3, <2>5, <2>6, <2>7, <2>8 DEF PaneOk
<1> QED  BY <1>1, <1>2


\* What the loop does for a key keeps the positions where they may be.
LEMMA SettleKeeps ==
    ASSUME NEW a, LogOk(a), a.pending = "delete" => a.focus # "SandboxLogs",
           a.pending = "approveAll" => ~a.approve_all_confirm_open, NEW b \in Settled(a)
    PROVE  /\ LogOk(b) /\ b.pending = "none"
           /\ b.approve_all_confirm_open = a.approve_all_confirm_open
           /\ b.approve_all_confirm_open => b.approve_all_chunks = a.approve_all_chunks
<1> DEFINE c == [a EXCEPT !.pending = "none"]
<1>c. /\ Calm(a, c) /\ c.pending = "none" /\ c.focus = a.focus /\ c.screen = a.screen
      /\ c.middle_pane_tab = a.middle_pane_tab
    BY DEF LogOk, PaneShape, PaneFields, Calm, SameLog, SameDialog, Seated
<1>l. LogOk(c) /\ PaneShape(c)
    BY <1>c, CalmOk DEF LogOk
<1>0. ASSUME NEW d, Calm(c, d), d.pending = "none", b = d
      PROVE  /\ LogOk(b) /\ b.pending = "none"
             /\ b.approve_all_confirm_open = a.approve_all_confirm_open
             /\ b.approve_all_confirm_open => b.approve_all_chunks = a.approve_all_chunks
    <2>1. Calm(a, b)
        BY <1>c, <1>0, CalmChain
    <2> QED  BY <1>0, <2>1, CalmOk DEF Calm, SameDialog
<1> HIDE DEF c
<1>1. CASE a.pending = "switch"
    <2>1. b \in handle_gateway_switch(c)
        BY <1>1 DEF Settled, c
    <2> DEFINE e == [c EXCEPT !.gateway_name = ItemAt(c.gateways, c.gateway_selected)]
               d == reset_sandbox_state(e)
    <2>2. CASE b = c
        BY <1>0, <1>c, <1>l, <2>2, CalmSelf
    <2>3. CASE b \in refresh_data(d)
        <3>e. Calm(c, e) /\ e.pending = "none"
            BY <1>c, <1>l DEF PaneShape, PaneFields, Calm, SameLog, SameDialog, Seated
        <3>l. LogOk(e)
            BY <1>l, <3>e, CalmOk
        <3> HIDE DEF e
        <3>1. /\ PaneFields \subseteq DOMAIN d /\ d.log_lines = <<>> /\ d.log_scroll = 0
              /\ d.log_cursor = 0 /\ d.log_height = e.log_height /\ d.log_detail = Nil
              /\ d.log_anchor = Nil /\ d.pending = e.pending /\ SameDialog(e, d) /\ Seated(d)
            BY <3>l DEF reset_sandbox_state, cancel_log_stream, LogOk, PaneShape, PaneFields,
                SameDialog, Seated
        <3> HIDE DEF d
        <3>2. PaneShape(d)
            BY <3>l, <3>1 DEF LogOk, PaneShape
        <3>3. LogOk(d)
            BY <3>1, <3>2, ShownNat DEF LogOk
        <3>4. Calm(d, b) /\ b.pending = "none"
            BY <2>3, <3>e, <3>1, <3>2, DataKeeps
        <3>5. LogOk(b)
            BY <3>3, <3>4, CalmOk
        <3>6. SameDialog(a, b)
            BY <1>c, <3>e, <3>1, <3>4 DEF Calm, SameDialog
        <3> QED  BY <3>4, <3>5, <3>6 DEF SameDialog
    <2> QED  BY <2>1, <2>2, <2>3 DEF handle_gateway_switch
<1>2. CASE a.pending = "delete"
    <2>1. b \in handle_sandbox_delete(c)
        BY <1>2 DEF Settled, c
    <2> DEFINE d == [c EXCEPT !.screen = "Dashboard", !.focus = "Sandboxes"]
               e == cancel_log_stream(d)
    <2>2. Calm(c, d) /\ d.pending = "none" /\ Calm(c, e) /\ e.pending = "none"
        BY <1>2, <1>c, <1>l DEF cancel_log_stream, PaneShape, PaneFields, Calm, SameLog, SameDialog,
            Seated
    <2>3. b = c \/ b = d \/ b \in refresh_sandboxes(e)
        BY <2>1 DEF handle_sandbox_delete
    <2> HIDE DEF d, e
    <2>4. CASE b \in refresh_sandboxes(e)
        <3>1. PaneShape(e)
            BY <1>l, <2>2, CalmOk
        <3>2. Calm(e, b) /\ b.pending = "none"
            BY <2>2, <2>4, <3>1, ListsKeep
        <3> QED  BY <1>0, <2>2, <3>2, CalmChain
    <2> QED  BY <1>0, <1>c, <1>l, <2>2, <2>3, <2>4, CalmSelf
<1>3. CASE a.pending = "shell"
    <2>1. PICK d : d \in handle_shell_connect(c) /\ b \in refresh_data(d)
        BY <1>3 DEF Settled, Bind, c
    <2>2. Calm(c, d) /\ d.pending = "none"
        BY <1>c, <1>l, <2>1 DEF handle_shell_connect, cancel_log_stream, PaneShape, PaneFields,
            Calm, SameLog, SameDialog, Seated
    <2>3. Calm(d, b) /\ b.pending = "none"
        BY <1>l, <2>1, <2>2, DataKeeps, CalmOk
    <2> QED  BY <1>0, <2>2, <2>3, CalmChain
<1>4. CASE a.pending = "detail"
    <2>1. b \in fetch_sandbox_detail(c)
        BY <1>4 DEF Settled, c
    <2> QED  BY <1>0, <1>c, <1>l, <2>1, ListsKeep
<1>5. CASE a.pending = "approveAll"
    <2>1. b = [c EXCEPT !.approve_all_chunks = {}]
        BY <1>5 DEF Settled, c
    <2>2. /\ SameLog(c, b) /\ b.focus = c.focus /\ b.screen = c.screen /\ b.pending = "none"
          /\ b.middle_pane_tab = c.middle_pane_tab
          /\ b.approve_all_confirm_open = c.approve_all_confirm_open
        BY <1>c, <1>l, <2>1 DEF PaneShape, PaneFields, SameLog
    <2>3. LogOk(b)
        BY <1>l, <2>2, ShownSame DEF LogOk, PaneShape, SameLog, Seated
    <2> QED  BY <1>5, <1>c, <2>2, <2>3 DEF Calm, SameDialog
<1>6. CASE a.pending \notin {"switch", "delete", "shell", "detail", "approveAll"}
    <2>1. b = spawn_log_stream(c) \/ b = start_anim_ticker(c) \/ b = c
        BY <1>6 DEF Settled, c
    <2>2. Calm(c, b) /\ b.pending = "none"
        BY <1>c, <1>l, <2>1 DEF spawn_log_stream, start_anim_ticker, PaneShape, PaneFields,
            Calm, SameLog, SameDialog, Seated
    <2> QED  BY <1>0, <2>2
<1> QED  BY <1>1, <1>2, <1>3, <1>4, <1>5, <1>6


-------------------------------------------------------------------------------
(* The steps of the interface. *)

\* Between two events no request is left to settle, and an open dialog holds
\* only chunks it was opened for.
TuiInv ==
    /\ tuiSetup \in TuiSetups
    /\ logq \in Seq(LogLineSet)
    /\ \A t \in tasks : "kind" \in DOMAIN t
    /\ PaneOk(app) /\ app.pending = "none"
    /\ app.approve_all_confirm_open => {c.id : c \in app.approve_all_chunks} \subseteq offered

\* A task that appears continues one of the same kind.
CalmStep ==
    /\ Calm(app, app') /\ app'.pending = app.pending
    /\ UNCHANGED <<offered, tuiSetup>>
    /\ \A t \in tasks' : "kind" \in DOMAIN t /\ (t \notin tasks => \E u \in tasks : u.kind = t.kind)

LEMMA PaneOkNext ==
    ASSUME PaneOk(app'), UNCHANGED tuiSetup
    PROVE  PaneOk(app)'
BY DEF PaneOk, LogOk, PaneShape, Seated, Shown, filtered_log_lines, LogLineSet, Tall

LEMMA CalmInv ==
    ASSUME TuiInv, CalmStep, logq' \in Seq(LogLineSet)
    PROVE  TuiInv'
<1>1. PaneOk(app')
    BY CalmOk DEF TuiInv, CalmStep
<1>2. \A t \in tasks' : "kind" \in DOMAIN t
    BY DEF CalmStep
<1>3. app'.approve_all_confirm_open => {c.id : c \in app'.approve_all_chunks} \subseteq offered'
    BY DEF TuiInv, CalmStep, Calm, SameDialog
<1>4. PaneOk(app)'
    BY <1>1, PaneOkNext DEF CalmStep
<1> QED  BY <1>2, <1>3, <1>4 DEF TuiInv, CalmStep

LEMMA BufferCalm ==
    ASSUME TuiInv, NEW form \in {"create_form", "create_provider_form"}, NEW result,
           Buffer(form, result)
    PROVE  Calm(app, app') /\ app'.pending = app.pending
<1>s. PaneShape(app)
    BY DEF TuiInv, PaneOk, LogOk
<1>1. CASE form = "create_form"
    BY <1>s, <1>1 DEF Buffer, Calm, SameLog, SameDialog, Seated, PaneShape, PaneFields
<1>2. CASE form = "create_provider_form"
    BY <1>s, <1>2 DEF Buffer, Calm, SameLog, SameDialog, Seated, PaneShape, PaneFields
<1> QED  BY <1>1, <1>2

LEMMA TaskEnds ==
    ASSUME TuiInv, NEW t \in tasks, Ends(t)
    PROVE  \A u \in tasks' : "kind" \in DOMAIN u /\ (u \notin tasks => \E v \in tasks : v.kind = u.kind)
BY DEF TuiInv, Ends

LEMMA TaskGoesOn ==
    ASSUME TuiInv, NEW t \in tasks, NEW u, Becomes(t, u), "kind" \in DOMAIN u, u.kind = t.kind
    PROVE  \A v \in tasks' : "kind" \in DOMAIN v /\ (v \notin tasks => \E w \in tasks : w.kind = v.kind)
BY DEF TuiInv, Becomes

LEMMA CreationCalm ==
    ASSUME TuiInv, NEW t \in tasks, Creation(t)
    PROVE  CalmStep /\ UNCHANGED logq
<1>s. PaneShape(app) /\ "kind" \in DOMAIN t
    BY DEF TuiInv, PaneOk, LogOk
<1>1. UNCHANGED <<logq, offered, tuiSetup>>
    BY DEF Creation, CreateCall, CreateWait, StartPortForwards, CreateProvider
<1>2. CASE Ends(t) /\ \E form \in {"create_form", "create_provider_form"} :
                              \E result : Buffer(form, result)
    BY <1>1, <1>2, TaskEnds, BufferCalm DEF CalmStep
<1>3. CASE UNCHANGED app /\ \E u : Becomes(t, u) /\ "kind" \in DOMAIN u /\ u.kind = t.kind
    <2>1. Calm(app, app') /\ app'.pending = app.pending
        BY <1>s, <1>3, CalmSelf
    <2> QED  BY <1>1, <1>3, <2>1, TaskGoesOn DEF CalmStep
<1>4. CASE CreateCall(t)
    <2>1. /\ "kind" \in DOMAIN [t EXCEPT !.step = "wait"] /\ [t EXCEPT !.step = "wait"].kind = t.kind
        BY <1>s
    <2> QED  BY <1>2, <1>3, <1>4, <2>1 DEF CreateCall
<1>5. CASE CreateWait(t)
    <2>1. /\ "kind" \in DOMAIN [t EXCEPT !.step = "forward"]
          /\ [t EXCEPT !.step = "forward"].kind = t.kind
        BY <1>s
    <2> QED  BY <1>2, <1>3, <1>5, <2>1 DEF CreateWait
<1>6. CASE StartPortForwards(t)
    BY <1>2, <1>6 DEF StartPortForwards
<1>7. CASE CreateProvider(t)
    <2>1. /\ "kind" \in DOMAIN [t EXCEPT !.attempt = @ + 1]
          /\ [t EXCEPT !.attempt = @ + 1].kind = t.kind
        BY <1>s
    <2> QED  BY <1>2, <1>3, <1>7, <2>1 DEF CreateProvider
<1> QED  BY <1>1, <1>4, <1>5, <1>6, <1>7 DEF Creation

LEMMA AnswerCalm ==
    ASSUME TuiInv, NEW t \in tasks, AnswerTask(t)
    PROVE  CalmStep /\ UNCHANGED logq
<1>s. PaneShape(app) /\ "kind" \in DOMAIN t
    BY DEF TuiInv, PaneOk, LogOk
<1>1. UNCHANGED <<logq, offered, tuiSetup>>
    BY DEF AnswerTask, ProviderDetail, ProviderUpdated, ProviderDeleted, GlobalSet,
        GlobalDeleted, SandboxSet, SandboxDeleted, DraftDone, ApproveNext
<1>2. CASE ApproveNext(t)
    <2>1. PICK c : Becomes(t, [t EXCEPT !.left = @ \ {c}])
        BY <1>2 DEF ApproveNext
    <2>2. "kind" \in DOMAIN [t EXCEPT !.left = @ \ {c}] /\ [t EXCEPT !.left = @ \ {c}].kind = t.kind
        BY <1>s
    <2>3. Calm(app, app') /\ app'.pending = app.pending
        BY <1>s, <1>2, CalmSelf DEF ApproveNext
    <2> QED  BY <1>1, <2>1, <2>2, <2>3, TaskGoesOn DEF CalmStep
<1>3. CASE Ends(t) /\ Calm(app, app') /\ app'.pending = app.pending
    BY <1>1, <1>3, TaskEnds DEF CalmStep
<1>4. CASE ProviderDetail(t)
    <2>1. Calm(app, app') /\ app'.pending = app.pending
        BY <1>s, <1>4 DEF ProviderDetail, Calm, SameLog, SameDialog, Seated, PaneShape, PaneFields
    <2> QED  BY <1>3, <1>4, <2>1 DEF ProviderDetail
<1>5. CASE ProviderUpdated(t)
    <2> DEFINE c == [app EXCEPT !.update_provider_form = Nil]
    <2>1. Calm(app, c) /\ c.pending = app.pending
        BY <1>s DEF Calm, SameLog, SameDialog, Seated, PaneShape, PaneFields
    <2> HIDE DEF c
    <2>2. app' = app \/ app' \in refresh_providers(c)
        BY <1>5 DEF ProviderUpdated, c
    <2>3. Calm(app, app') /\ app'.pending = app.pending
        BY <1>s, <2>1, <2>2, CalmSelf, CalmOk, ListsKeep, CalmChain
    <2> QED  BY <1>3, <1>5, <2>3 DEF ProviderUpdated
<1>6. CASE GlobalSet(t)
    <2> DEFINE c == [app EXCEPT !.setting_edit = Nil]
    <2>1. Calm(app, c) /\ c.pending = app.pending
        BY <1>s DEF Calm, SameLog, SameDialog, Seated, PaneShape, PaneFields
    <2> HIDE DEF c
    <2>2. app' \in refresh_global_settings(c)
        BY <1>6 DEF GlobalSet, c
    <2>3. Calm(app, app') /\ app'.pending = app.pending
        BY <1>s, <2>1, <2>2, CalmOk, ListsKeep, CalmChain
    <2> QED  BY <1>3, <1>6, <2>3 DEF GlobalSet
<1>7. CASE SandboxSet(t)
    <2> DEFINE c == [app EXCEPT !.sandbox_setting_edit = Nil]
    <2>1. Calm(app, c) /\ c.pending = app.pending
        BY <1>s DEF Calm, SameLog, SameDialog, Seated, PaneShape, PaneFields
    <2> HIDE DEF c
    <2>2. app' \in fetch_sandbox_detail(c)
        BY <1>7 DEF SandboxSet, c
    <2>3. Calm(app, app') /\ app'.pending = app.pending
        BY <1>s, <2>1, <2>2, CalmOk, ListsKeep, CalmChain
    <2> QED  BY <1>3, <1>7, <2>3 DEF SandboxSet
<1>8. CASE ProviderDeleted(t) \/ GlobalDeleted(t) \/ SandboxDeleted(t) \/ DraftDone(t)
    BY <1>s, <1>3, <1>8, ListsKeep
       DEF ProviderDeleted, GlobalDeleted, SandboxDeleted, DraftDone
<1> QED  BY <1>2, <1>4, <1>5, <1>6, <1>7, <1>8 DEF AnswerTask


\* The draw that ends an event.
LEMMA DrawInv ==
    ASSUME TuiInv, NEW c, LogOk(c), c.pending = "none", SameDialog(app, c),
           app' \in Drawn(c), logq' \in Seq(LogLineSet), UNCHANGED <<tasks, offered, tuiSetup>>
    PROVE  TuiInv'
<1>1. PaneOk(app') /\ SameDialog(c, app') /\ app'.pending = "none"
    BY DrawKeeps DEF TuiInv
<1>2. app'.approve_all_confirm_open => {d.id : d \in app'.approve_all_chunks} \subseteq offered'
    BY <1>1 DEF TuiInv, SameDialog
<1>3. PaneOk(app)'
    BY <1>1, PaneOkNext
<1> QED  BY <1>1, <1>2, <1>3 DEF TuiInv

LEMMA WheelInv ==
    ASSUME TuiInv, NEW down \in BOOLEAN, Wheel(down)
    PROVE  TuiInv'
<1> DEFINE b == scroll_logs(app, down)
           n == Shown(app)
           offset == log_autoscroll_offset(app)
           scroll == IF down THEN Least(app.log_scroll + 3, offset) ELSE Sub(app.log_scroll, 3)
           visible == Least(Sub(n, scroll), app.log_height)
<1>s. /\ LogOk(app) /\ PaneFields \subseteq DOMAIN app /\ app.pending = "none"
      /\ n \in Nat /\ app.log_scroll \in Nat /\ app.log_cursor \in Nat /\ app.log_height \in Nat
      /\ Tall => app.log_scroll + app.log_cursor <= n
      /\ offset \in Nat /\ offset <= n
    BY ShownNat, OffsetShown DEF TuiInv, PaneOk, LogOk, PaneShape
<1>1. b = [app EXCEPT !.log_scroll = scroll, !.log_autoscroll = @ /\ down,
                      !.log_cursor = IF visible > 0 THEN Least(@, visible - 1) ELSE 0]
    BY DEF scroll_logs
<1> HIDE DEF b
<1>2. /\ PaneFields \subseteq DOMAIN b /\ b.log_scroll = scroll
      /\ b.log_cursor = IF visible > 0 THEN Least(app.log_cursor, visible - 1) ELSE 0
      /\ b.log_lines = app.log_lines /\ b.log_filter = app.log_filter
      /\ b.log_height = app.log_height
      /\ b.log_anchor = app.log_anchor /\ b.log_detail = app.log_detail
      /\ b.focus = app.focus /\ b.screen = app.screen /\ b.middle_pane_tab = app.middle_pane_tab
      /\ SameDialog(app, b) /\ b.pending = app.pending
    BY <1>s, <1>1 DEF PaneFields, SameDialog
<1> HIDE DEF n, offset
<1>3. scroll \in Nat /\ (Tall => scroll <= n)
    BY <1>s DEF Least, Sub
<1> HIDE DEF scroll
<1>4. b.log_cursor \in Nat /\ (Tall => scroll + b.log_cursor <= n)
    BY <1>s, <1>2, <1>3 DEF Least, Sub
<1> HIDE DEF visible
<1>5. LogOk(b)
    <2>1. /\ Seated(b) /\ (b.focus # "SandboxLogs" => b.log_anchor = Nil)
          /\ Tall => /\ b.log_anchor # Nil => b.log_anchor \in Nat /\ b.log_anchor <= n
                     /\ b.log_detail # Nil => b.log_detail \in Nat /\ b.log_detail < n
        BY <1>s, <1>2 DEF LogOk, Seated, n
    <2> QED  BY <1>s, <1>2, <1>3, <1>4, <2>1, Repositioned DEF n
<1>6. app' \in Drawn(b) /\ UNCHANGED <<tasks, logq, offered, tuiSetup>>
    BY DEF Wheel, b
<1> QED  BY <1>s, <1>2, <1>5, <1>6, DrawInv DEF TuiInv

LEMMA ResizeInv ==
    ASSUME TuiInv, Resize
    PROVE  TuiInv'
<1>1. LogOk(app) /\ app.pending = "none" /\ SameDialog(app, app) /\ logq' \in Seq(LogLineSet)
    BY DEF TuiInv, PaneOk, SameDialog, Resize
<1> QED  BY <1>1, DrawInv DEF Resize

\* A batch arrives: the positions stay, or follow the end.
LEMMA LogLinesInv ==
    ASSUME TuiInv, LogLines
    PROVE  TuiInv'
<1> DEFINE a == [app EXCEPT !.log_lines = Append(@, Head(logq))]
           b == [a EXCEPT !.log_scroll = log_autoscroll_offset(a)]
           visible == Least(Sub(Shown(b), b.log_scroll), b.log_height)
           d == [b EXCEPT !.log_cursor = Sub(visible, 1)]
           c == IF a.log_autoscroll THEN d ELSE a
<1>1. app' \in Drawn(c) /\ logq' = Tail(logq) /\ logq # <<>>
      /\ UNCHANGED <<tasks, offered, tuiSetup>>
    BY DEF LogLines
<1>2. Head(logq) \in LogLineSet /\ Tail(logq) \in Seq(LogLineSet)
    BY <1>1 DEF TuiInv
<1>3. LogOk(app) /\ PaneShape(app) /\ PaneFields \subseteq DOMAIN app /\ app.pending = "none"
    BY DEF TuiInv, PaneOk, LogOk, PaneShape
<1>4. /\ PaneFields \subseteq DOMAIN a /\ a.log_lines = Append(app.log_lines, Head(logq))
      /\ a.log_scroll = app.log_scroll /\ a.log_cursor = app.log_cursor
      /\ a.log_filter = app.log_filter /\ a.log_height = app.log_height
      /\ a.log_anchor = app.log_anchor /\ a.log_detail = app.log_detail
      /\ a.focus = app.focus /\ a.screen = app.screen /\ a.middle_pane_tab = app.middle_pane_tab
      /\ SameDialog(app, a) /\ a.pending = app.pending
    BY <1>3 DEF PaneFields, SameDialog
<1> HIDE DEF a
<1>5. PaneShape(a)
    BY <1>2, <1>3, <1>4 DEF PaneShape
<1>6. Shown(app) <= Shown(a) /\ Shown(app) \in Nat /\ Shown(a) \in Nat
    BY <1>2, <1>3, <1>4, <1>5, ShownGrows, ShownNat
<1>7. LogOk(a)
    BY <1>3, <1>4, <1>5, <1>6 DEF LogOk, PaneShape, Seated
<1>8. LogOk(d) /\ SameDialog(a, d) /\ d.pending = a.pending
    <2>1. log_autoscroll_offset(a) \in Nat /\ log_autoscroll_offset(a) <= Shown(a)
        BY <1>5, OffsetShown
    <2>2. /\ b.log_lines = a.log_lines /\ b.log_filter = a.log_filter
          /\ b.log_scroll = log_autoscroll_offset(a) /\ b.log_height = a.log_height
          /\ PaneFields \subseteq DOMAIN b
        BY <1>4 DEF PaneFields
    <2>3. Shown(b) = Shown(a)
        BY <2>2, ShownSame
    <2>4. /\ PaneFields \subseteq DOMAIN d /\ d.log_scroll = b.log_scroll
          /\ d.log_cursor = Sub(visible, 1)
          /\ d.log_lines = a.log_lines /\ d.log_filter = a.log_filter
          /\ d.log_height = a.log_height
          /\ d.log_anchor = a.log_anchor /\ d.log_detail = a.log_detail
          /\ d.focus = a.focus /\ d.screen = a.screen /\ d.middle_pane_tab = a.middle_pane_tab
          /\ SameDialog(a, d) /\ d.pending = a.pending
        BY <1>4 DEF PaneFields, SameDialog
    <2>5. a.log_height \in Nat
        BY <1>5 DEF PaneShape
    <2>6. Sub(visible, 1) \in Nat /\ b.log_scroll + Sub(visible, 1) <= Shown(a)
        <3> HIDE DEF b
        <3> QED  BY <1>6, <2>1, <2>2, <2>3, <2>5 DEF Least, Sub
    <2> HIDE DEF d, b, visible
    <2> QED  BY <1>7, <2>1, <2>2, <2>4, <2>5, <2>6, Repositioned DEF LogOk, Seated
<1> HIDE DEF d
<1>9. LogOk(c) /\ SameDialog(app, c) /\ c.pending = "none"
    BY <1>3, <1>4, <1>7, <1>8 DEF SameDialog
<1> HIDE DEF c
<1> QED  BY <1>1, <1>2, <1>9, DrawInv


LEMMA TickCalm ==
    ASSUME TuiInv, Tick
    PROVE  CalmStep /\ UNCHANGED logq
<1>s. PaneShape(app) /\ LogOk(app)
    BY DEF TuiInv, PaneOk, LogOk
<1>1. PICK splash \in {app, dismiss_splash(app)} :
          LET detail(a) == IF a.screen = "Sandbox"
                           THEN Bind(refresh_sandbox_policy(a), refresh_draft_chunks) ELSE {a}
          IN app' \in Bind(Bind(refresh_gateway_list(splash), refresh_data), detail)
    BY DEF Tick
<1>2. Calm(app, splash) /\ splash.pending = app.pending
    BY <1>s, SplashEnds, CalmSelf
<1>3. PICK c : /\ c \in Bind(refresh_gateway_list(splash), refresh_data)
               /\ app' \in IF c.screen = "Sandbox"
                           THEN Bind(refresh_sandbox_policy(c), refresh_draft_chunks) ELSE {c}
    BY <1>1 DEF Bind
<1>4. PICK d : d \in refresh_gateway_list(splash) /\ c \in refresh_data(d)
    BY <1>3 DEF Bind
<1>5. Calm(splash, d) /\ d.pending = app.pending /\ PaneShape(d)
    BY <1>s, <1>2, <1>4, CalmOk, ListsKeep
<1>6. Calm(d, c) /\ c.pending = app.pending /\ PaneShape(c)
    BY <1>4, <1>5, CalmOk, DataKeeps
<1>7. Calm(app, c)
    BY <1>2, <1>5, <1>6, CalmChain
<1>8. Calm(c, app') /\ app'.pending = app.pending
    <2>1. CASE c.screen # "Sandbox"
        BY <1>3, <1>6, <2>1, CalmSelf
    <2>2. CASE c.screen = "Sandbox"
        <3>1. PICK e : e \in refresh_sandbox_policy(c) /\ app' \in refresh_draft_chunks(e)
            BY <1>3, <2>2 DEF Bind
        <3>2. Calm(c, e) /\ e.pending = app.pending /\ PaneShape(e)
            BY <1>6, <3>1, CalmOk, ListsKeep
        <3>3. Calm(e, app') /\ app'.pending = app.pending
            BY <3>1, <3>2, ListsKeep
        <3> QED  BY <3>2, <3>3, CalmChain
    <2> QED  BY <2>1, <2>2
<1>9. Calm(app, app')
    BY <1>7, <1>8, CalmChain
<1> QED  BY <1>8, <1>9 DEF Tick, CalmStep, TuiInv

LEMMA RedrawCalm ==
    ASSUME TuiInv, Redraw
    PROVE  CalmStep /\ UNCHANGED logq
<1>s. PaneShape(app)
    BY DEF TuiInv, PaneOk, LogOk
<1> DEFINE stopped == [app EXCEPT !.anim = FALSE]
           made == [stopped EXCEPT !.create_form = Nil]
           closed == [stopped EXCEPT !.create_provider_form = Nil]
           again == [stopped EXCEPT !.create_form.phase = "Form", !.create_form.result = Nil]
           reenter == [stopped EXCEPT !.create_provider_form.phase = "EnterKey",
                                      !.create_provider_form.result = Nil]
<1>1. /\ Calm(app, made) /\ made.pending = app.pending
      /\ Calm(app, closed) /\ closed.pending = app.pending
      /\ Calm(app, again) /\ again.pending = app.pending
      /\ Calm(app, reenter) /\ reenter.pending = app.pending
    BY <1>s DEF Calm, SameLog, SameDialog, Seated, PaneShape, PaneFields
<1>2. /\ \/ app' \in Bind(refresh_sandboxes(made), handle_exec_command)
         \/ app' \in refresh_sandboxes(made)
         \/ app' = again
         \/ app' \in refresh_providers(closed)
         \/ app' = reenter
      /\ UNCHANGED <<tasks, logq, offered, tuiSetup>>
    BY DEF Redraw
<1> HIDE DEF made, closed, again, reenter
<1>3. PaneShape(made) /\ PaneShape(closed)
    BY <1>s, <1>1, CalmOk
<1>4. CASE app' \in Bind(refresh_sandboxes(made), handle_exec_command)
    <2>1. PICK c : c \in refresh_sandboxes(made) /\ app' \in handle_exec_command(c)
        BY <1>4 DEF Bind
    <2>2. Calm(made, c) /\ c.pending = made.pending /\ PaneShape(c)
        BY <1>3, <2>1, ListsKeep, CalmOk
    <2>3. Calm(c, app') /\ app'.pending = c.pending
        BY <2>1, <2>2 DEF handle_exec_command, cancel_log_stream, Calm, SameLog, SameDialog,
            Seated, PaneShape, PaneFields
    <2>4. Calm(app, app')
        BY <1>1, <2>2, <2>3, CalmChain
    <2> QED  BY <1>1, <1>2, <2>2, <2>3, <2>4 DEF CalmStep, TuiInv
<1>5. CASE app' \in refresh_sandboxes(made)
    <2>1. Calm(made, app') /\ app'.pending = made.pending
        BY <1>3, <1>5, ListsKeep
    <2>2. Calm(app, app')
        BY <1>1, <2>1, CalmChain
    <2> QED  BY <1>1, <1>2, <2>1, <2>2 DEF CalmStep, TuiInv
<1>6. CASE app' \in refresh_providers(closed)
    <2>1. Calm(closed, app') /\ app'.pending = closed.pending
        BY <1>3, <1>6, ListsKeep
    <2>2. Calm(app, app')
        BY <1>1, <2>1, CalmChain
    <2> QED  BY <1>1, <1>2, <2>1, <2>2 DEF CalmStep, TuiInv
<1>7. CASE app' = again \/ app' = reenter
    BY <1>1, <1>2, <1>7 DEF CalmStep, TuiInv
<1> QED  BY <1>2, <1>4, <1>5, <1>6, <1>7

LEMMA StreamCalm ==
    ASSUME TuiInv, (\E ok \in BOOLEAN : LogHistory(ok)) \/ LogLive \/ LogEnds
    PROVE  CalmStep /\ logq' \in Seq(LogLineSet)
<1>s. PaneShape(app) /\ tuiSetup.lines \cup {"error"} \subseteq LogLineSet /\ logq \in Seq(LogLineSet)
    BY DEF TuiInv, PaneOk, LogOk, LogLineSet
<1>1. /\ \/ UNCHANGED app \/ app' = [app EXCEPT !.log_stream = "live"]
         \/ app' = [app EXCEPT !.log_stream = "ended"]
      /\ UNCHANGED <<tasks, offered, tuiSetup>>
      /\ logq' = logq \/ \E line \in tuiSetup.lines \cup {"error"} : logq' = Append(logq, line)
    BY DEF LogHistory, LogLive, LogEnds
<1>2. Calm(app, app') /\ app'.pending = app.pending
    BY <1>s, <1>1 DEF Calm, SameLog, SameDialog, Seated, PaneShape, PaneFields
<1>3. logq' \in Seq(LogLineSet)
    BY <1>s, <1>1
<1> QED  BY <1>1, <1>2, <1>3 DEF CalmStep, TuiInv

\* The requests of a key: an approval of all sends what the dialog held.
LEMMA SpawnedTasks ==
    ASSUME NEW a, NEW t \in Spawned(a)
    PROVE  /\ "kind" \in DOMAIN t
           /\ t.kind = "approveAll" => a.pending = "approveAll" /\ t.left = a.approve_all_chunks
<1>1. CASE a.pending = "approveAll"
    BY <1>1 DEF Spawned, spawn_draft_approve_all, Approvals
<1>2. CASE a.pending \in {"create", "pcreate"}
    <2>1. \/ \E p, r : t = [kind |-> "create", step |-> "call", ports |-> p, ready |-> r]
          \/ \E n : t = [kind |-> "pcreate", name |-> n, attempt |-> 0]
        BY <1>2, Zenon DEF Spawned, spawn_create_sandbox, spawn_create_provider
    <2> QED  BY <2>1
<1>p. CASE a.pending \in {"pget", "pupdate", "pdelete"}
    <2>1. PICK kind \in {"pget", "pupdate", "pdelete"} : \E name : t \in ForProvider(kind, name)
        BY <1>p DEF Spawned, spawn_get_provider, spawn_update_provider,
            spawn_delete_provider
    <2> QED  BY <2>1 DEF ForProvider
<1>3. CASE a.pending \in {"gset", "gdel", "sset", "sdel"}
    BY <1>3 DEF Spawned, spawn_set_global_setting, spawn_delete_global_setting,
        spawn_set_sandbox_setting, spawn_delete_sandbox_setting
<1>4. CASE a.pending \in {"approve", "reject"}
    BY <1>4 DEF Spawned, spawn_draft_approve, spawn_draft_reject, Draft
<1>5. CASE a.pending \notin {"approveAll", "create", "pcreate", "pget", "pupdate", "pdelete", "gset",
                             "gdel", "sset", "sdel", "approve", "reject"}
    BY <1>5 DEF Spawned
<1> QED  BY <1>1, <1>2, <1>p, <1>3, <1>4, <1>5

LEMMA KeyInv ==
    ASSUME TuiInv, NEW k, Key(k)
    PROVE  /\ TuiInv'
           /\ \A t \in tasks' \ tasks :
                 t.kind = "approveAll" => {c.id : c \in t.left} \subseteq offered
<1> DEFINE a == handle_key(app, k)
<1>1. /\ app' \in Bind(Settled(a), Drawn)
      /\ tasks' = tasks \cup Spawned(a)
      /\ offered' = IF a.approve_all_confirm_open /\ ~app.approve_all_confirm_open
                    THEN Pending(app.draft_chunks) ELSE offered
      /\ UNCHANGED <<logq, tuiSetup>>
    BY DEF Key
<1>2. KeyOk(app, a)
    BY KeyKeeps DEF TuiInv
<1> HIDE DEF a
<1>3. PICK b : b \in Settled(a) /\ app' \in Drawn(b)
    BY <1>1 DEF Bind
<1>4. /\ LogOk(b) /\ b.pending = "none"
      /\ b.approve_all_confirm_open = a.approve_all_confirm_open
      /\ b.approve_all_confirm_open => b.approve_all_chunks = a.approve_all_chunks
    BY <1>2, <1>3, SettleKeeps DEF KeyOk
<1>5. PaneOk(app') /\ SameDialog(b, app') /\ app'.pending = "none"
    BY <1>3, <1>4, DrawKeeps DEF TuiInv
<1>6. app'.approve_all_confirm_open => {c.id : c \in app'.approve_all_chunks} \subseteq offered'
    <2> SUFFICES ASSUME app'.approve_all_confirm_open
                 PROVE  {c.id : c \in app'.approve_all_chunks} \subseteq offered'
        OBVIOUS
    <2>1. a.approve_all_confirm_open /\ app'.approve_all_chunks = a.approve_all_chunks
        BY <1>4, <1>5 DEF SameDialog
    <2>2. CASE app.approve_all_confirm_open /\ a.approve_all_chunks = app.approve_all_chunks
        BY <1>1, <2>1, <2>2 DEF TuiInv
    <2>3. CASE ~app.approve_all_confirm_open /\ a.approve_all_chunks = Snapshot(app)
        <3>1. offered' = Pending(app.draft_chunks)
            BY <1>1, <2>1, <2>3
        <3>2. {c.id : c \in Snapshot(app)} = Pending(app.draft_chunks)
            BY DEF Snapshot, Pending
        <3> QED  BY <2>1, <2>3, <3>1, <3>2
    <2> QED  BY <1>2, <2>1, <2>2, <2>3 DEF KeyOk
<1>7. \A t \in tasks' : "kind" \in DOMAIN t
    BY <1>1, SpawnedTasks DEF TuiInv
<1>8. TuiInv'
    <2>1. PaneOk(app)'
        BY <1>1, <1>5, PaneOkNext
    <2> QED  BY <1>1, <1>5, <1>6, <1>7, <2>1 DEF TuiInv
<1>9. ASSUME NEW t \in tasks' \ tasks, t.kind = "approveAll"
      PROVE  {c.id : c \in t.left} \subseteq offered
    <2>1. a.pending = "approveAll" /\ t.left = a.approve_all_chunks
        BY <1>1, <1>9, SpawnedTasks
    <2>2. app.approve_all_confirm_open /\ a.approve_all_chunks = app.approve_all_chunks
        BY <1>2, <2>1 DEF KeyOk
    <2> QED  BY <2>1, <2>2 DEF TuiInv
<1> QED  BY <1>8, <1>9


LEMMA InitTui ==
    ASSUME TuiInit
    PROVE  TuiInv
<1>1. PICK c : c \in refresh_gateway_list(InitApp) /\ app \in refresh_data(c)
    BY DEF TuiInit, Bind
<1>2. /\ PaneFields \subseteq DOMAIN InitApp /\ InitApp.log_lines = <<>>
      /\ InitApp.log_scroll = 0 /\ InitApp.log_cursor = 0 /\ InitApp.log_height = 0
      /\ InitApp.log_anchor = Nil /\ InitApp.log_detail = Nil
      /\ InitApp.focus = "Gateways" /\ InitApp.middle_pane_tab = "Providers"
      /\ InitApp.pending = "none" /\ InitApp.approve_all_confirm_open = FALSE
    BY DEF InitApp, PaneFields
<1>3. PaneShape(InitApp)
    BY <1>2 DEF PaneShape
<1>4. PaneOk(InitApp)
    BY <1>2, <1>3, ShownNat DEF PaneOk, LogOk, Seated
<1>5. Calm(InitApp, c) /\ c.pending = "none" /\ PaneShape(c)
    BY <1>1, <1>2, <1>3, ListsKeep, CalmOk
<1>6. Calm(c, app) /\ app.pending = "none"
    BY <1>1, <1>5, DataKeeps
<1>7. PaneOk(app) /\ ~app.approve_all_confirm_open
    BY <1>2, <1>4, <1>5, <1>6, CalmOk DEF Calm, SameDialog
<1> QED  BY <1>6, <1>7 DEF TuiInv, TuiInit

LEMMA NextTui ==
    ASSUME TuiInv, [TuiNext]_tuiVars
    PROVE  TuiInv'
<1>q. logq \in Seq(LogLineSet)
    BY DEF TuiInv
<1>1. CASE \E k \in tuiSetup.keys : Key(k)
    BY <1>1, KeyInv
<1>2. CASE Tick
    BY <1>q, <1>2, TickCalm, CalmInv
<1>3. CASE Redraw
    BY <1>q, <1>3, RedrawCalm, CalmInv
<1>4. CASE Resize \/ LogLines \/ \E down \in BOOLEAN : Wheel(down)
    BY <1>4, ResizeInv, LogLinesInv, WheelInv
<1>5. CASE (\E ok \in BOOLEAN : LogHistory(ok)) \/ LogLive \/ LogEnds
    BY <1>5, StreamCalm, CalmInv
<1>6. CASE app.running /\ \E t \in tasks : Creation(t) \/ AnswerTask(t)
    BY <1>q, <1>6, CreationCalm, AnswerCalm, CalmInv
<1>7. CASE UNCHANGED tuiVars
    BY <1>7 DEF tuiVars, TuiInv, PaneOk, LogOk, PaneShape, Seated, Shown, filtered_log_lines,
        LogLineSet, Tall
<1> QED  BY <1>1, <1>2, <1>3, <1>4, <1>5, <1>6, <1>7 DEF TuiNext

\* Whatever a user types, however the pane is resized (but to nothing) and
\* whatever arrives meanwhile, handle_logs_key and the draw of the log pane find the scroll
\* offset, the cursor, the selection and the detail inside the lines that
\* filtered_log_lines returns.
THEOREM LogPaneStaysInBounds == TuiSpec => []LogIndexesInBounds
<1>1. TuiInit => TuiInv
    BY InitTui
<1>2. TuiInv /\ [TuiNext]_tuiVars => TuiInv'
    BY NextTui
<1>3. TuiInv => LogIndexesInBounds
    <2> SUFFICES ASSUME TuiInv PROVE LogIndexesInBounds
        OBVIOUS
    <2>1. filtered_log_lines(app) = {i \in DOMAIN app.log_lines :
                                           app.log_filter \in {"All", app.log_lines[i]}}
        BY DEF filtered_log_lines
    <2>2. Shown(app) = Cardinality({i \in DOMAIN app.log_lines :
                                           app.log_filter \in {"All", app.log_lines[i]}})
        BY <2>1 DEF Shown
    <2> QED  BY <2>2 DEF TuiInv, PaneOk, LogOk, LogIndexesInBounds, PositionsInLog, Tall
<1> QED  BY <1>1, <1>2, <1>3, PTL DEF TuiSpec

\* An approval of all pending chunks sends only chunks that handle_draft_key
\* had copied when it opened the dialog, however often the list is read again
\* before the user confirms.
THEOREM ApprovalsWereOffered == TuiSpec => ApprovedWereOffered
<1>1. TuiInit => TuiInv
    BY InitTui
<1>2. TuiInv /\ [TuiNext]_tuiVars => TuiInv'
    BY NextTui
<1> DEFINE Offers == \A t \in tasks' \ tasks :
                        t.kind = "approveAll" /\ (\A u \in tasks : u.kind # "approveAll")
                           => {c.id : c \in t.left} \subseteq offered
<1>3. ASSUME TuiInv, TuiNext
      PROVE  Offers
    <2>1. CASE \E k \in tuiSetup.keys : Key(k)
        BY <1>3, <2>1, KeyInv
    <2>2. CASE CalmStep
        BY <2>2 DEF CalmStep
    <2>3. CASE UNCHANGED tasks
        BY <2>3
    <2>4. Tick \/ Redraw => CalmStep
        BY <1>3, TickCalm, RedrawCalm
    <2>5. (\E ok \in BOOLEAN : LogHistory(ok)) \/ LogLive \/ LogEnds => CalmStep
        BY <1>3, StreamCalm
    <2>6. Resize \/ LogLines \/ (\E down \in BOOLEAN : Wheel(down)) => UNCHANGED tasks
        BY DEF Resize, LogLines, Wheel
    <2>7. (\E t \in tasks : Creation(t) \/ AnswerTask(t)) => CalmStep
        BY <1>3, CreationCalm, AnswerCalm
    <2> HIDE DEF Offers
    <2> QED  BY <1>3, <2>1, <2>2, <2>3, <2>4, <2>5, <2>6, <2>7 DEF TuiNext
<1>4. TuiInv /\ [TuiNext]_tuiVars => [Offers]_tuiVars
    BY <1>3
<1> QED  BY <1>1, <1>2, <1>4, PTL DEF TuiSpec, ApprovedWereOffered
================================================================================
