----------------------------- MODULE Supervisor -----------------------------
(***************************************************************************)
(* The supervisor of a sandbox, PID 1 of its container: run_sandbox        *)
(* prepares the image, the network and the proxy, starts the SSH server,   *)
(* spawns the entrypoint and waits for it.  Every child it spawns has one  *)
(* waiter; the zombie reaper collects whatever else ends up as a child of  *)
(* PID 1.  The two agree only through the set of managed children.         *)
(*                                                                         *)
(* A process is named by the channel that started it, Entry or Daemon (a   *)
(* background process of setup.daemonOf): pids are not reused.             *)
(***************************************************************************)
EXTENDS Naturals, FiniteSetsExt, SequencesExt

CONSTANTS Channels, Entry, Daemon, None, Lost,
          Setups    \* the constant parts of the behaviours

ASSUME ProcessAssumption ==
    /\ Entry \notin Channels /\ Daemon \notin Channels /\ Entry # Daemon
    /\ None \notin Channels \cup {Entry, Daemon, Lost, "pipe", "pty"}

VARIABLES setup,    \* the configuration, and the faults that may occur
          sup,      \* run_sandbox: its phase and what it has built so far
          net,      \* the namespace and the veth pair it created
          proc,     \* the state of every process
          code,     \* the exit code of a process that has exited
          managed,  \* MANAGED_CHILDREN
          waited,   \* what the waiter of a process got: None, a code or Lost
          early,    \* history: processes that exited before they were registered
          reaper

supVars == <<setup, sup, net, proc, code, managed, waited, early, reaper>>

Pids == Channels \cup {Entry, Daemon}

\* The bypass rules of a family, in the order in which they are appended; the
\* proxy has an IPv4 address only.
V6Rules  == <<"loopback", "established", "log_tcp", "reject_tcp", "log_udp", "reject_udp">>
V4Rules  == <<"proxy">> \o V6Rules
LogRules == {"log_tcp", "log_udp"}

NoNet   == [ns |-> FALSE, veth |-> FALSE, v4 |-> {}, v6 |-> {}]
FullNet == [ns |-> TRUE, veth |-> TRUE, v4 |-> ToSet(V4Rules), v6 |-> ToSet(V6Rules)]
Booted  == [phase |-> "user", tls |-> FALSE, fd |-> FALSE, proxy |-> FALSE, monitor |-> FALSE,
            ssh |-> FALSE, pid |-> None, exit |-> None]
\* The state after a start without faults, in proxy mode.
Running == [phase |-> "running", tls |-> TRUE, fd |-> TRUE, proxy |-> TRUE, monitor |-> TRUE,
            ssh |-> TRUE, pid |-> Entry, exit |-> None]

\* init is the state that a setup starts in.
SupInit ==
    /\ setup \in Setups
    /\ sup = setup.init
    /\ net = IF sup.phase = "running" THEN FullNet ELSE NoNet
    /\ proc = [p \in Pids |-> IF p = sup.pid THEN "run" ELSE "none"]
    /\ code = [p \in Pids |-> None]
    /\ managed = {sup.pid} \ {None}
    /\ waited = [p \in Pids |-> None]
    /\ early = {}
    /\ reaper = [st |-> "idle", pid |-> None, signal |-> FALSE]

-----------------------------------------------------------------------------
(* The steps of run_sandbox, in order.  A fault is possible only where the
   setup names it. *)

Fault(f) == f \in setup.faults
Outcomes(f) == {TRUE} \cup {ok \in {FALSE} : Fault(f)}

\* run_sandbox returns and main exits with the code: the namespace is dropped,
\* and with PID 1 every process of the container ends.
Exit(c) ==
    /\ sup' = [sup EXCEPT !.phase = "exited", !.exit = c, !.ssh = FALSE, !.proxy = FALSE,
                          !.monitor = FALSE, !.fd = FALSE]
    /\ net' = IF Fault("cleanup") THEN net ELSE NoNet
    /\ proc' = [p \in Pids |-> IF proc[p] = "none" THEN "none" ELSE "gone"]
    /\ UNCHANGED <<setup, code, managed, waited, early, reaper>>

\* The step succeeds and the next phase begins, or run_sandbox returns an error.
Step(phase, f, next) ==
    /\ sup.phase = phase
    /\ \E ok \in Outcomes(f) :
          IF ok THEN /\ sup' = next
                     /\ UNCHANGED <<setup, net, proc, code, managed, waited, early, reaper>>
                ELSE Exit(1)

To(phase) == [sup EXCEPT !.phase = phase]

\* The image must have the user the children run as.
validate_sandbox_user == Step("user", "user", To("files"))

\* A provider environment that cannot be fetched is an empty one; then every
\* read-write path is created and chowned, and a symbolic link is refused.
prepare_filesystem == Step("files", "files", To("ca"))

\* Without a CA the proxy starts without TLS termination.
GenerateCa ==
    /\ sup.phase = "ca"
    /\ \E ok \in Outcomes("ca") :
          sup' = [To(IF setup.mode = "proxy" THEN "netns" ELSE "reaper") EXCEPT !.tls = setup.mode = "proxy" /\ ok]
    /\ UNCHANGED <<setup, net, proc, code, managed, waited, early, reaper>>

\* Nine ip commands (netns, veth pair, move, four addresses and links, lo, route).
\* The one that fails is followed by the deletion of what exists so far; the
\* result of a deletion is ignored.
NetnsCommands == 1 .. 9
create ==
    /\ sup.phase = "netns"
    /\ \/ /\ net' = [net EXCEPT !.ns = TRUE, !.veth = TRUE]
          /\ \E fd \in Outcomes("fd") : sup' = [To("rules") EXCEPT !.fd = fd]
          /\ UNCHANGED <<setup, proc, code, managed, waited, early, reaper>>
       \/ /\ Fault("netns")
          /\ \E k \in NetnsCommands, kept \in {FALSE} \cup {x \in {TRUE} : Fault("cleanup")} :
                net' = [net EXCEPT !.ns = k > 1 /\ kept, !.veth = k > 2 /\ kept]
          /\ sup' = [sup EXCEPT !.phase = "exited", !.exit = 1]
          /\ UNCHANGED <<setup, proc, code, managed, waited, early, reaper>>

\* One iptables command per rule.  A LOG rule that is refused is left out; the
\* refusal of any other rule ends the family, and a failed family keeps the rules
\* it has.
RulesUpTo(rules, failed) ==
    LET fatal == {i \in DOMAIN rules : rules[i] \in failed \ LogRules}
        n     == IF fatal = {} THEN Len(rules) ELSE Min(fatal) - 1
    IN ToSet(SubSeq(rules, 1, n)) \ failed
install_bypass_rules_for(failed)    == RulesUpTo(V4Rules, failed)
install_bypass_rules_for_v6(failed) == RulesUpTo(V6Rules, failed)

\* Without iptables nothing is installed, IPv6 only after a complete IPv4;
\* the start goes on in every case.
Refusals(rules) == {{}} \cup {f \in SUBSET ToSet(rules) : Fault("rules")}
install_bypass_rules ==
    /\ sup.phase = "rules"
    /\ \/ Fault("rules") /\ UNCHANGED net
       \/ \E f4 \in Refusals(V4Rules), f6 \in Refusals(V6Rules) :
             net' = [net EXCEPT !.v4 = install_bypass_rules_for(f4),
                                !.v6 = IF f4 \subseteq LogRules
                                       THEN install_bypass_rules_for_v6(f6) ELSE {}]
    /\ sup' = To("inference")
    /\ UNCHANGED <<setup, proc, code, managed, waited, early, reaper>>

build_inference_context == Step("inference", "inference", To("proxy"))
StartProxy == Step("proxy", "proxy", [To("monitor") EXCEPT !.proxy = TRUE])

\* dmesg may be missing: the monitor is then not started.
SpawnMonitor ==
    /\ sup.phase = "monitor"
    /\ \E ok \in Outcomes("dmesg") : sup' = [To("reaper") EXCEPT !.monitor = ok]
    /\ UNCHANGED <<setup, net, proc, code, managed, waited, early, reaper>>

\* The reaper task is spawned and the SSH server bound; the entrypoint waits
\* for the bind, so that an exec request finds a listener.
StartSsh == Step("reaper", IF setup.ssh THEN "bind" ELSE None, [To("spawn") EXCEPT !.ssh = setup.ssh])

\* What the child does between fork and exec, in this order: enter the namespace
\* if there is a descriptor of it, drop privileges (root without a user in the
\* policy becomes the sandbox user, any other user stays), apply Landlock (its
\* failure counts only where the policy requires it, and there is nothing to do
\* without paths) and seccomp (not in allow mode).  A failure is a failed spawn.
setns_fails          == sup.fd /\ Fault("setns")
drop_privileges_fails == (setup.user # None \/ setup.root) /\ Fault("privileges")
landlock_fails       == setup.paths /\ setup.hard /\ Fault("landlock")
seccomp_fails        == setup.mode # "allow" /\ Fault("seccomp")
apply_fails          == landlock_fails \/ seccomp_fails
PreExecFails         == setns_fails \/ drop_privileges_fails \/ apply_fails

SpawnEntry ==
    /\ sup.phase = "spawn"
    /\ \/ /\ proc' = [proc EXCEPT ![Entry] = "run"]
          /\ sup' = To("register")
          /\ UNCHANGED <<setup, net, code, managed, waited, early, reaper>>
       \/ PreExecFails /\ Exit(1)

register_managed_child(p) == managed' = managed \cup {p}

RegisterEntry ==
    /\ sup.phase = "register"
    /\ register_managed_child(Entry)
    /\ sup' = [To("running") EXCEPT !.pid = Entry]
    /\ UNCHANGED <<setup, net, proc, code, waited, early, reaper>>

-----------------------------------------------------------------------------
(* Processes. *)

Alive == sup.phase # "exited"

DaemonStarts ==
    /\ Alive
    /\ setup.daemonOf # None
    /\ proc[Daemon] = "none" /\ proc[setup.daemonOf] = "run"
    /\ proc' = [proc EXCEPT ![Daemon] = "run"]
    /\ UNCHANGED <<setup, sup, net, code, managed, waited, early, reaper>>

\* A process whose parent is gone belongs to PID 1, a zombie too.
Orphaned(p) == p = Daemon /\ proc[setup.daemonOf] # "run"
Zombies     == {p \in Pids : proc[p] = "zombie" /\ (p = Daemon => Orphaned(p))}

ProcessExits(p) ==
    /\ Alive
    /\ proc[p] = "run" /\ p \in setup.ends
    /\ proc' = [proc EXCEPT ![p] = "zombie"]
    /\ \E c \in setup.codes : code' = [code EXCEPT ![p] = c]
    /\ early' = IF p \in managed THEN early ELSE early \cup {p}
    /\ reaper' = [reaper EXCEPT !.signal = @ \/ p # Daemon \/ Orphaned(p)]
    /\ UNCHANGED <<setup, sup, net, managed, waited>>

\* The explicit waiter of p: it gets the status, or none when the reaper took it.
\* It unregisters the child after the wait.
Wait(p) ==
    /\ Alive
    /\ p \in managed
    /\ proc[p] \in {"zombie", "gone"}
    /\ waited[p] = None
    /\ waited' = [waited EXCEPT ![p] = IF proc[p] = "zombie" THEN code[p] ELSE Lost]
    /\ proc' = [proc EXCEPT ![p] = "gone"]
    /\ managed' = managed \ {p}

wait == Wait(Entry) /\ UNCHANGED <<setup, sup, net, code, early, reaper>>

ReturnStatus ==
    /\ sup.phase = "running"
    /\ waited[Entry] # None
    /\ Exit(IF waited[Entry] = Lost THEN 1 ELSE waited[Entry])

\* The time limit: SIGTERM, 100 ms, SIGKILL, code 124.
kill ==
    /\ sup.phase = "running" /\ setup.timeout
    /\ waited[Entry] = None
    /\ Exit(124)

-----------------------------------------------------------------------------
(* The zombie reaper. *)

ReaperRuns == Alive /\ sup.phase \in {"spawn", "register", "running"}
Look == [reaper EXCEPT !.st = "look", !.pid = None]

Sigchld ==
    /\ ReaperRuns
    /\ reaper.st = "idle" /\ reaper.signal
    /\ reaper' = [Look EXCEPT !.signal = FALSE]
    /\ UNCHANGED <<setup, sup, net, proc, code, managed, waited, early>>

\* The five-second interval next to the signal; a pass that finds no zombie
\* changes nothing.
Mutant_SignalOnly == FALSE /\ UNCHANGED supVars
RetryTick ==
    /\ ReaperRuns
    /\ reaper.st = "idle" /\ Zombies # {}
    /\ reaper' = Look
    /\ UNCHANGED <<setup, sup, net, proc, code, managed, waited, early>>

\* waitid(WNOHANG, WNOWAIT): some zombie, which stays one.
PeekZombie ==
    /\ ReaperRuns
    /\ reaper.st = "look"
    /\ \/ /\ Zombies = {}
          /\ reaper' = [reaper EXCEPT !.st = "idle"]
       \/ \E p \in Zombies : reaper' = [reaper EXCEPT !.st = "check", !.pid = p]
    /\ UNCHANGED <<setup, sup, net, proc, code, managed, waited, early>>

is_managed_child(p) == p \in managed

\* A managed zombie ends the pass: its waiter owns the status.
CheckZombie ==
    /\ ReaperRuns
    /\ reaper.st = "check"
    /\ reaper' = IF is_managed_child(reaper.pid) THEN [reaper EXCEPT !.st = "idle", !.pid = None]
                                                 ELSE [reaper EXCEPT !.st = "reap"]
    /\ UNCHANGED <<setup, sup, net, proc, code, managed, waited, early>>

\* waitpid(WNOHANG): the zombie may have been collected since the check.
Reap ==
    /\ ReaperRuns
    /\ reaper.st = "reap"
    /\ proc' = [proc EXCEPT ![reaper.pid] = "gone"]
    /\ reaper' = Look
    /\ UNCHANGED <<setup, sup, net, code, managed, waited, early>>

-----------------------------------------------------------------------------
Startup == \/ validate_sandbox_user \/ prepare_filesystem \/ GenerateCa \/ create
           \/ install_bypass_rules \/ build_inference_context \/ StartProxy \/ SpawnMonitor
           \/ StartSsh \/ SpawnEntry \/ RegisterEntry
ReaperStep == Sigchld \/ PeekZombie \/ CheckZombie \/ Reap
SupNext == \/ Startup \/ DaemonStarts \/ (\E p \in Pids : ProcessExits(p))
           \/ wait \/ ReturnStatus \/ kill \/ ReaperStep \/ RetryTick

\* The tasks of the runtime are polled and its timers fire: every step of the
\* start, of the reaper and of a waiter that can be taken is taken.
SupFairness == /\ WF_supVars(Startup) /\ WF_supVars(wait) /\ WF_supVars(ReturnStatus)
               /\ WF_supVars(ReaperStep) /\ WF_supVars(RetryTick)
=============================================================================
