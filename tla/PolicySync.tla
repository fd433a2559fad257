------------------------------ MODULE PolicySync ------------------------------
(***************************************************************************)
(* How a policy reaches the OPA engine of a running sandbox.  The          *)
(* supervisor (crates/clustershell-sandbox/src/lib.rs and grpc_client.rs)  *)
(* loads a policy at startup and then polls the gateway; the gateway       *)
(* serves get_sandbox_config, whose answer combines two reads, from the    *)
(* sandbox's revisions, the global policy and the settings.  A handler of  *)
(* the gateway that writes is one step here: PolicyHandlers interleaves    *)
(* those.  A report may be lost, or be applied after the supervisor has    *)
(* given up on it; the supervisor may be restarted at any point.           *)
(***************************************************************************)
EXTENDS PolicyStore, FiniteSets

CONSTANTS Nets,          \* network_policies maps
          EmptyNet,      \* the empty map
          BadNets,       \* maps that reload_from_proto refuses
          Settings,      \* values of the rest of the effective settings
          SpecPolicies,  \* spec.policy at creation: policies, NoPolicy
          DiskPolicy,    \* discover_policy_from_disk_or_default
          SubmittedNets, \* the maps that operators submit
          NoPolicy,
          LossyReports,  \* whether report_policy_status calls may be lost
          MaxChanges,    \* bound: changes that operators make
          MaxRestarts    \* bound: restarts of the supervisor

\* enr: the baseline filesystem paths of proxy mode are present.
Policy == [net : Nets, enr : BOOLEAN]

ASSUME SyncAssumption ==
    /\ EmptyNet \in Nets /\ BadNets \subseteq Nets /\ SubmittedNets \subseteq Nets
    /\ SpecPolicies \subseteq Policy \cup {NoPolicy}
    /\ DiskPolicy \in Policy
    /\ DiskPolicy.net \notin BadNets
    /\ NoPolicy \notin Policy
    /\ LossyReports \in BOOLEAN
    /\ MaxChanges \in Nat /\ MaxRestarts \in Nat

VARIABLES
    table,    \* sandbox_policies rows of the sandbox
    rec,      \* its Sandbox message: spec.policy, current_policy_version
    gpolicy,  \* the global policy, or NoPolicy
    setting,  \* the other settings
    sup,      \* the supervisor
    engine,   \* the policy in the OPA engine, NoPolicy before startup
    reports,  \* report_policy_status calls on the wire or being served
    changes, restarts,
    everLoaded,  \* history: what the engine has held
    inSync       \* history: the policy that the poll loop took as its start is
                 \* the one the engine was built from, or a later reload

vars == <<table, rec, gpolicy, setting, sup, engine, reports, changes, restarts,
          everLoaded, inSync>>
gateway == <<table, rec, gpolicy, setting>>

\* Answer of get_sandbox_config.  config_revision hashes the source, the policy
\* and the settings, so it is the triple of them.
NoAnswer == [policy |-> NoPolicy, version |-> 0, source |-> "none",
             setting |-> "none"]
Mutant_RevisionWithoutPolicy(a) == <<a.source, a.setting>>
Revision(a) == <<a.source, a.policy, a.setting>>
\* Mutant of Hash: the version stands for the policy.
Mutant_HashIsVersion(a) == a.version
Hash(a) == a.policy

\* Where the supervisor is, and what it has fetched and tracks.
Booting == [pc |-> "fetch", policy |-> NoPolicy, read |-> NoAnswer,
            answer |-> NoAnswer, track |-> NoAnswer]

Init ==
    /\ table = EmptyTable
    /\ rec \in [policy : SpecPolicies, version : {0}]
    /\ gpolicy = NoPolicy
    /\ setting \in Settings
    /\ sup = Booting
    /\ engine = NoPolicy
    /\ reports = {}
    /\ changes = 0 /\ restarts = 0
    /\ everLoaded = {} /\ inSync = TRUE

-------------------------------------------------------------------------------
(* The gateway. *)

\* The sandbox-scoped branch of update_config: refused under a global policy
\* and when it takes paths away; backfills spec.policy; a repetition of the
\* latest policy is a no-op.
Accepts(p) ==
    gpolicy = NoPolicy /\ (rec.policy # NoPolicy => (rec.policy.enr => p.enr))

LatestPolicy == LET n == get_latest_policy(table)
                IN  IF n = 0 THEN NoPolicy ELSE table[n].policy

UpdateConfig(p) ==
    LET n == get_latest_policy(table) + 1 IN
    /\ rec' = IF rec.policy = NoPolicy THEN [rec EXCEPT !.policy = p] ELSE rec
    /\ table' = IF LatestPolicy = p THEN table
                ELSE supersede_older_policies(put_policy_revision(table, n, p), n)
    /\ UNCHANGED <<gpolicy, setting>>

Change == changes < MaxChanges /\ changes' = changes + 1

\* `policy set`, or a draft approval.
OperatorSetsPolicy(p) ==
    /\ Change
    /\ Accepts(p) /\ LatestPolicy # p
    /\ UpdateConfig(p)
    /\ UNCHANGED <<sup, engine, reports, restarts, everLoaded, inSync>>

OperatorSetsGlobal(p) ==
    /\ Change
    /\ gpolicy # p
    /\ gpolicy' = p
    /\ UNCHANGED <<table, rec, setting, sup, engine, reports, restarts,
                   everLoaded, inSync>>

OperatorChangesSetting(s) ==
    /\ Change
    /\ setting # s
    /\ setting' = s
    /\ UNCHANGED <<table, rec, gpolicy, sup, engine, reports, restarts,
                   everLoaded, inSync>>

\* get_sandbox_config, first half: the latest revision, or spec.policy which is
\* backfilled as version 1 with status loaded.
ReadRevision ==
    IF get_latest_policy(table) > 0
    THEN [NoAnswer EXCEPT !.policy = LatestPolicy, !.source = "sandbox",
                          !.version = get_latest_policy(table)]
    ELSE [NoAnswer EXCEPT !.policy = rec.policy, !.source = "sandbox",
                          !.version = IF rec.policy = NoPolicy THEN 0 ELSE 1]

LazyBackfill ==
    table' = IF DOMAIN table = {} /\ rec.policy # NoPolicy
             THEN update_policy_status(
                      put_policy_revision(table, 1, rec.policy), 1, "loaded")
             ELSE table

\* Second half: the global policy overrides what was read, and the settings
\* are merged in.
Answer(read) ==
    IF gpolicy = NoPolicy THEN [read EXCEPT !.setting = setting]
    ELSE [policy |-> gpolicy, source |-> "global", setting |-> setting,
          version |-> IF read.version = 0 THEN 1 ELSE read.version]

\* The policy that a sandbox asking now would be given.
Effective == Answer(ReadRevision).policy

\* report_policy_status, whenever it gets to run.
ReportArrives(r) ==
    /\ r \in reports
    /\ reports' = reports \ {r}
    /\ IF r.version \notin DOMAIN table THEN UNCHANGED <<table, rec>>
       ELSE IF r.status = "failed"
       THEN /\ table' = update_policy_status(table, r.version, "failed")
            /\ UNCHANGED rec
       ELSE /\ table' = supersede_older_policies(
                            update_policy_status(table, r.version, "loaded"),
                            r.version)
            /\ rec' = [rec EXCEPT !.version = r.version]
    /\ UNCHANGED <<gpolicy, setting, sup, engine, changes, restarts, everLoaded,
                   inSync>>

ReportLost(r) ==
    /\ LossyReports
    /\ r \in reports
    /\ reports' = reports \ {r}
    /\ UNCHANGED <<gateway, sup, engine, changes, restarts, everLoaded, inSync>>

-------------------------------------------------------------------------------
(* The supervisor: load_policy. *)

At(label) == sup.pc = label /\ UNCHANGED <<changes, restarts>>
Goto(label) == sup' = [sup EXCEPT !.pc = label]

\* First half of a get_sandbox_config call, from three places of the code.
CallConfig(from, to) ==
    /\ At(from)
    /\ sup' = [sup EXCEPT !.pc = to, !.read = ReadRevision]
    /\ LazyBackfill
    /\ UNCHANGED <<rec, gpolicy, setting, engine, reports, everLoaded, inSync>>

FetchPolicy   == CallConfig("fetch", "fetch_end")
RefetchPolicy == CallConfig("refetch", "refetch_end")

\* fetch_policy: no policy means that one is to be discovered.
FetchPolicyEnd ==
    LET a == Answer(sup.read) IN
    /\ At("fetch_end")
    /\ sup' = IF a.policy = NoPolicy THEN [sup EXCEPT !.pc = "discover"]
              ELSE [sup EXCEPT !.pc = "enrich", !.policy = a.policy]
    /\ UNCHANGED <<gateway, engine, reports, everLoaded, inSync>>

\* enrich_proto_baseline_paths: only a policy that has network rules.
Enrich(p) == IF p.net = EmptyNet THEN p ELSE [p EXCEPT !.enr = TRUE]

\* discover_and_sync_policy: the policy found on disk becomes the baseline; a
\* refusal by the gateway ends load_policy.
DiscoverAndSync ==
    /\ At("discover")
    /\ IF Accepts(Enrich(DiskPolicy))
       THEN UpdateConfig(Enrich(DiskPolicy)) /\ Goto("refetch")
       ELSE Goto("stopped") /\ UNCHANGED gateway
    /\ UNCHANGED <<engine, reports, everLoaded, inSync>>

RefetchPolicyEnd ==
    LET a == Answer(sup.read) IN
    /\ At("refetch_end")
    /\ sup' = IF a.policy = NoPolicy THEN [sup EXCEPT !.pc = "stopped"]
              ELSE [sup EXCEPT !.pc = "enrich", !.policy = a.policy]
    /\ UNCHANGED <<gateway, engine, reports, everLoaded, inSync>>

\* OpaEngine::from_proto, and with it reload_from_proto, accepts the policy.
Loads(p) == p.net \notin BadNets

\* The enriched policy is synced back, best effort, and the engine is built
\* from it; from_proto refuses a bad policy and load_policy fails.
EnrichAndBuild ==
    LET e == Enrich(sup.policy) IN
    /\ At("enrich")
    /\ \/ e # sup.policy /\ Accepts(e) /\ UpdateConfig(e)
       \/ UNCHANGED gateway
    /\ IF ~Loads(e)
       THEN Goto("stopped") /\ UNCHANGED <<engine, everLoaded>>
       ELSE /\ Goto("connect")
            /\ engine' = e
            /\ everLoaded' = everLoaded \cup {e}
    /\ UNCHANGED <<reports, inSync>>

\* A failed call during startup ends load_policy and with it the process.
StartupFails ==
    /\ sup.pc \in {"fetch_end", "discover", "refetch_end"}
    /\ Goto("stopped")
    /\ UNCHANGED <<gateway, engine, reports, changes, restarts, everLoaded, inSync>>

\* The container is started again; nothing is kept.
Restart ==
    /\ restarts < MaxRestarts
    /\ restarts' = restarts + 1
    /\ sup' = Booting
    /\ engine' = NoPolicy
    /\ inSync' = TRUE
    /\ UNCHANGED <<gateway, reports, changes, everLoaded>>

-------------------------------------------------------------------------------
(* The supervisor: run_policy_poll_loop. *)

Connect ==
    /\ At("connect")
    /\ Goto("init")
    /\ UNCHANGED <<gateway, engine, reports, everLoaded, inSync>>

\* CachedClusterShellClient::connect is not retried: the task ends.
ConnectFails ==
    /\ At("connect")
    /\ Goto("exited")
    /\ UNCHANGED <<gateway, engine, reports, everLoaded, inSync>>

InitialPoll == CallConfig("init", "init_end")

\* The first answer is only recorded: it is taken for what the engine runs.
InitialPollEnd ==
    LET a == Answer(sup.read) IN
    /\ At("init_end")
    /\ sup' = [sup EXCEPT !.pc = "poll", !.track = a]
    /\ inSync' = (a.policy # NoPolicy /\ a.policy.net = engine.net)
    /\ UNCHANGED <<gateway, engine, reports, everLoaded>>

\* "failed to fetch initial version, will retry".
InitialPollFails ==
    /\ At("init_end")
    /\ Goto("poll")
    /\ UNCHANGED <<gateway, engine, reports, everLoaded, inSync>>

\* A tick of the loop.  A poll that fails has no effect, so it is a stutter.
Poll == CallConfig("poll", "poll_end")

LoadStatus(good) == IF good THEN "loaded" ELSE "failed"

Mutant_ReportGlobalToo(a, status) ==
    IF a.version > 0
    THEN reports' = reports \cup {[version |-> a.version, status |-> status]}
    ELSE UNCHANGED reports

\* The status of a revision is reported for a sandbox-scoped policy only.
Report(a, status) ==
    IF a.version > 0 /\ a.source = "sandbox"
    THEN reports' = reports \cup {[version |-> a.version, status |-> status]}
    ELSE UNCHANGED reports

\* reload_from_proto only when the hash changed; a refused policy leaves the
\* last known good engine; the answer is tracked in every case.
PollEnd ==
    LET a        == Answer(sup.read)
        changed  == Revision(a) # Revision(sup.track)
        reload   == changed /\ Hash(a) # Hash(sup.track) /\ a.policy # NoPolicy
        good     == reload /\ Loads(a.policy)
        reported == reload /\ a.version > 0 /\ a.source = "sandbox"
    IN  /\ At("poll_end")
        /\ sup' = [sup EXCEPT !.pc = IF reported THEN "reporting" ELSE "poll",
                              !.track = IF changed THEN a ELSE @,
                              !.read = NoAnswer]
        /\ IF good THEN /\ engine' = a.policy
                        /\ everLoaded' = everLoaded \cup {a.policy}
                        /\ inSync' = TRUE
           ELSE UNCHANGED <<engine, everLoaded, inSync>>
        /\ IF reload THEN Report(a, LoadStatus(good))
           ELSE UNCHANGED reports
        /\ UNCHANGED gateway

\* The call returned or failed: either way the loop goes on.
ReportReturns ==
    /\ At("reporting")
    /\ Goto("poll")
    /\ UNCHANGED <<gateway, engine, reports, everLoaded, inSync>>

-------------------------------------------------------------------------------
Operator ==
    \/ \E n \in SubmittedNets, e \in BOOLEAN :
          OperatorSetsPolicy([net |-> n, enr |-> e])
    \/ \E p \in [net : SubmittedNets, enr : {TRUE}] \cup {NoPolicy} :
          OperatorSetsGlobal(p)
    \/ \E s \in Settings : OperatorChangesSetting(s)

Network == \E r \in reports : ReportArrives(r) \/ ReportLost(r)

Supervisor ==
    \/ FetchPolicy \/ FetchPolicyEnd \/ DiscoverAndSync
    \/ RefetchPolicy \/ RefetchPolicyEnd \/ EnrichAndBuild
    \/ Connect \/ InitialPoll \/ InitialPollEnd
    \/ Poll \/ PollEnd \/ ReportReturns

Failure == StartupFails \/ ConnectFails \/ InitialPollFails \/ Restart

Next == Operator \/ Network \/ Supervisor \/ Failure

Spec == Init /\ [][Next]_vars

\* The poll loop sleeps and polls for ever, its calls are answered from some
\* time on, and a report on the wire does not stay there.
FairSpec == Spec /\ WF_vars(Supervisor) /\ WF_vars(Network)

-------------------------------------------------------------------------------
(* Properties. *)

Polling == sup.pc \in {"poll", "poll_end", "reporting"}

\* The engine applies the rules of the policy in force, if that is a policy it
\* can load.
Enforced ==
    Effective # NoPolicy /\ Effective.net \notin BadNets =>
        engine # NoPolicy /\ engine.net = Effective.net

\* A revision is "loaded" only if the engine has held that very policy, and
\* "failed" only if the engine refuses it, although the report names a version
\* and arrives late: version 1 excepted, which the lazy backfill marks loaded.
StatusTruthful ==
    \A v \in DOMAIN table :
        /\ v > 1 /\ table[v].status = "loaded" => table[v].policy \in everLoaded
        /\ table[v].status = "failed" => table[v].policy.net \in BadNets

\* What run_policy_poll_loop takes for current is what the engine enforces,
\* unless the engine refuses it.  The loop reloads only when both the revision and
\* the hash differ from the tracked ones, and tracks an answer also when it has no
\* policy or is refused: no such answer in between, no change of the source at
\* the same version, makes it skip the reload that brings a good policy back.
\* Stated, like ConvergesWhenInSync, for a loop that was in step once.
TrackedIsEnforced ==
    /\ Polling /\ inSync
    /\ sup.track.policy # NoPolicy /\ sup.track.policy.net \notin BadNets
    => engine # NoPolicy /\ engine.net = sup.track.policy.net

\* architecture/security-policy.md:249, without its ten seconds: a global policy
\* that stays set is picked up by every sandbox whose poll loop runs on.  TLC
\* refutes this: one set before the first poll is tracked without being loaded.
GlobalPickedUp == <>[](Polling /\ gpolicy # NoPolicy) => <>[]Enforced

\* A poll loop that started from the policy the engine runs brings every later
\* change into the engine: sandbox policy, global policy or the way back.
ConvergesWhenInSync ==
    <>[](Polling /\ inSync) =>
        <>[]Enforced

===============================================================================
