----------------------------- MODULE SandboxSpec -----------------------------
(***************************************************************************)
(* From the spec of a create request to the custom resource: what          *)
(* create_sandbox accepts and completes, and the pod template that         *)
(* sandbox/mod.rs writes for it; and back, from the status the controller  *)
(* reports to the phase of the record.                                     *)
(*                                                                         *)
(* A spec is [log_level, environment, template, gpu, providers, policy]; a *)
(* template is [image, runtime, labels, annotations, environment, limits,  *)
(* socket, claims].  Maps are functions.  A value of the environment is    *)
(* <<who sets it, value>>.                                                 *)
(***************************************************************************)
EXTENDS Naturals, Sequences, FiniteSets, TLC

CONSTANTS Specs,          \* the specs that are submitted, in order
          DefaultImage,   \* "" when none is configured
          PullPolicy, SshListenAddr, ClientTlsSecret, HostGatewayIp,   \* "": not set
          GpuClass,       \* whether the GPU runtime class exists
          GpuNodes,       \* allocatable quantities of the nodes, "" for none
          KnownProviders, \* provider records
          MaxProviders, MaxEntries

\* A string that is not set.
Unset == ""
\* A string longer than its limit, or a struct that encodes to more bytes.
Oversized == "oversized"
NoMap == [k \in {} |-> ""]
EmptyTemplate == [image |-> "", runtime |-> "", labels |-> NoMap, annotations |-> NoMap,
                  environment |-> NoMap, limits |-> NoMap, socket |-> "", claims |-> ""]

-----------------------------------------------------------------------------
(* create_sandbox, before the id is drawn.                                  *)

validate_string_map(map) ==
    /\ Cardinality(DOMAIN map) <= MaxEntries
    /\ \A k \in DOMAIN map : Oversized # k /\ map[k] # Oversized

validate_sandbox_template(t) ==
    /\ Oversized \notin {t.image, t.runtime, t.socket, t.claims}
    /\ \A map \in {t.labels, t.annotations, t.environment, t.limits} : validate_string_map(map)

validate_sandbox_spec(s) ==
    /\ Cardinality(s.providers) <= MaxProviders
    /\ s.log_level # Oversized /\ s.policy # Oversized
    /\ validate_string_map(s.environment)
    /\ validate_sandbox_template(s.template)

\* The runtime class, and one node with a quantity other than 0.
validate_gpu_support == GpuClass /\ \E q \in GpuNodes : q \notin {"", "0"}

\* The checks of create_sandbox, in their order: sizes, providers, GPU, policy.
Accepted(s) ==
    /\ validate_sandbox_spec(s)
    /\ s.providers \subseteq KnownProviders
    /\ s.gpu => validate_gpu_support
    /\ s.policy # "unsafe"

\* The record always carries the resolved image.
Completed(s) == [s EXCEPT !.template.image = IF @ = Unset THEN DefaultImage ELSE @]

\* A refused request leaves no trace, so the i-th sandbox has the i-th spec
\* that is accepted.
AcceptedSpecs == SelectSeq(Specs, Accepted)
SpecOf(i) == Completed(AcceptedSpecs[i])

-----------------------------------------------------------------------------
(* The custom resource.                                                     *)

Gateway(value) == <<"gateway", value>>
\* upsert_env: a value that is set later replaces an earlier one.
Upsert(later, earlier) ==
    [k \in DOMAIN later \cup DOMAIN earlier |->
        IF k \in DOMAIN later THEN later[k] ELSE earlier[k]]

User(map) == [k \in DOMAIN map |-> <<"user", map[k]>>]

\* apply_required_env: an address and the TLS paths only when configured.
required_env(id) ==
    [k \in {"SANDBOX_ID", "SANDBOX", "ENDPOINT", "SANDBOX_COMMAND", "SSH_HANDSHAKE_SECRET",
            "SSH_HANDSHAKE_SKEW_SECS"}
           \cup (IF SshListenAddr = Unset THEN {} ELSE {"SSH_LISTEN_ADDR"})
           \cup (IF ClientTlsSecret = Unset THEN {} ELSE {"TLS_CA", "TLS_CERT", "TLS_KEY"})
        |-> IF k = "SANDBOX_ID" THEN Gateway(id) ELSE Gateway("configured")]

\* Mutant of build_env_list: the user's variables are applied last.
Mutant_UserEnvLast(s, id) ==
    Upsert(User(s.environment), Upsert(User(s.template.environment), required_env(id)))

\* Template, then spec, then required.
build_env_list(s, id) ==
    Upsert(required_env(id), Upsert(User(s.environment), User(s.template.environment)))

\* container_resources: the template's limits, the GPU limit over them.
container_resources(s) == IF s.gpu THEN Upsert("nvidia.com/gpu" :> "1", s.template.limits)
                          ELSE s.template.limits

\* The supervisor binary comes from the node, whatever the image is.
apply_supervisor_sideload(pod) ==
    [pod EXCEPT !.command = "supervisor", !.runAsUser = "root",
                !.volumes = @ \cup {"supervisor"}, !.mounts = @ \cup {"supervisor"}]

sandbox_template_to_k8s(s, id) ==
    LET t == s.template
        tls == IF ClientTlsSecret = Unset THEN {} ELSE {"client-tls"}
    IN apply_supervisor_sideload(
        [labels       |-> t.labels,
         annotations  |-> t.annotations,
         runtimeClass |-> IF s.gpu THEN "nvidia" ELSE t.runtime,
         image        |-> IF t.image = Unset THEN DefaultImage ELSE t.image,
         pullPolicy   |-> PullPolicy,
         env          |-> build_env_list(s, id),
         capabilities |-> {"SYS_ADMIN", "NET_ADMIN", "SYS_PTRACE", "SYSLOG"},
         runAsUser    |-> "image",
         command      |-> "image",
         mounts       |-> tls,
         volumes      |-> tls,
         resources    |-> container_resources(s),
         hostAliases  |-> {HostGatewayIp} \ {Unset}])

sandbox_to_k8s_spec(s, id) ==
    [logLevel |-> s.log_level, environment |-> s.environment,
     podTemplate |-> sandbox_template_to_k8s(s, id),
     agentSocket |-> s.template.socket, volumeClaimTemplates |-> s.template.claims]

\* What SandboxClient::create sends for the i-th sandbox.
ResourceSpecs == [i \in 1..Len(AcceptedSpecs) |-> sandbox_to_k8s_spec(SpecOf(i), i)]

-----------------------------------------------------------------------------
(* The status of the custom resource.                                       *)

\* What the sandbox controller reports: no status at all, or conditions, of
\* which some lack a field.
StatusObject ==
    LET ready(status, reason) == [type |-> "Ready", status |-> status, reason |-> reason]
        other == [type |-> "PodScheduled", status |-> "True", reason |-> ""]
    IN [none    |-> <<>>,
        waiting |-> <<other, ready("", ""), ready("False", "DependenciesNotReady")>>,
        true    |-> <<ready("True", "")>>,
        failed  |-> <<other, ready("False", "ImagePullBackOff")>>]

\* condition_from_value drops a condition without a type or a status.
status_from_object(cond) ==
    SelectSeq(StatusObject[cond], LAMBDA c : c.type # "" /\ c.status # "")

is_terminal_failure_condition(c) == c.reason \notin {"ReconcilerError", "DependenciesNotReady"}

Phases == {"Provisioning", "Ready", "Error", "Deleting", "Unknown"}
ReadyConditions(cond) == SelectSeq(status_from_object(cond), LAMBDA c : c.type = "Ready")

\* The first Ready condition decides; without one it is still provisioning.
derive_phase(cond, deleting) ==
    LET ready == ReadyConditions(cond)
    IN IF deleting THEN "Deleting"
       ELSE IF cond = "none" THEN "Unknown"
       ELSE IF ready = <<>> THEN "Provisioning"
       ELSE IF ready[1].status = "True" THEN "Ready"
       ELSE IF ready[1].status = "False" /\ is_terminal_failure_condition(ready[1]) THEN "Error"
       ELSE "Provisioning"
=============================================================================
