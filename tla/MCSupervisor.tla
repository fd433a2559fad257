---------------------------- MODULE MCSupervisor ----------------------------
EXTENDS Reports

CONSTANTS c1, c2, k1, k2, x, y

MCConn == c1 :> k1 @@ c2 :> k1
Base == [init |-> Running, mode |-> "proxy", user |-> "sandbox", root |-> TRUE, paths |-> TRUE, hard |-> FALSE, ssh |-> TRUE, timeout |-> FALSE, faults |-> {},
         daemonOf |-> None, clock |-> 0, conn |-> MCConn, want |-> [c \in Channels |-> None],
         preface |-> [k \in Conns |-> None], attempts |-> <<>>, pod |-> None, resizes |-> FALSE,
         ends |-> Channels \cup {Daemon}, codes |-> {0},
         writes |-> [c \in Channels |-> {"stdout"}],
         denials |-> [k \in Keys |-> 0], grpc |-> FALSE, lines |-> 0, gateway |-> 0, events |-> 0, deletes |-> FALSE, watch |-> FALSE]

Starting == {[Base EXCEPT !.init = Booted, !.mode = m, !.hard = m = "proxy", !.ssh = m = "proxy", !.timeout = TRUE,
                !.ends = {Entry}, !.codes = {0, 1},
                !.faults = {"user", "files", "ca", "netns", "fd", "cleanup", "rules", "inference",
                            "proxy", "dmesg", "bind", "setns", "privileges", "landlock", "seccomp"}] : m \in {"proxy", "block"}}
            \cup {[Base EXCEPT !.init = Booted, !.mode = "allow", !.ssh = FALSE, !.user = None, !.root = FALSE,
                     !.ends = {Entry}, !.faults = {"privileges", "landlock", "seccomp"}]}
Daemons == [Base EXCEPT !.want = c1 :> "pipe" @@ c2 :> "nothing", !.daemonOf = c1,
              !.writes = [c \in Channels |-> Streams], !.codes = {0}]
Shared == [Base EXCEPT !.want = c1 :> "pipe" @@ c2 :> "pty", !.faults = {"seccomp"}, !.writes = c1 :> {"stdout"} @@ c2 :> {}]
Terminal == [Base EXCEPT !.want = c1 :> "pty" @@ c2 :> "nothing", !.faults = {"tty"}, !.resizes = TRUE]
Forwards == [Base EXCEPT !.conn = c1 :> k1 @@ c2 :> k2, !.want = c1 :> "loopback" @@ c2 :> "elsewhere",
               !.clock = 3, !.preface = [k \in Conns |-> [parts |-> 5, signed |-> TRUE, timestamp |-> 1, nonce |-> k1]]]
Execs == [Base EXCEPT !.init = [Running EXCEPT !.phase = "reaper", !.ssh = FALSE, !.pid = None],
             !.conn = c1 :> k1 @@ c2 :> k2, !.attempts = <<c1, c2>>, !.faults = {"connection", "timeout"}, !.pod = "ip"]
NoAddress == [Execs EXCEPT !.pod = "pending"]
\* The clock of the gateway is behind that of the sandbox.
Skewed == [Execs EXCEPT !.clock = 2, !.faults = {},
             !.preface = [k \in Conns |-> [parts |-> 5, signed |-> TRUE, timestamp |-> 0, nonce |-> k]]]
Denying == [Base EXCEPT !.grpc = TRUE, !.denials = x :> 2 @@ y :> 1, !.deletes = TRUE]
Pushes  == [Base EXCEPT !.grpc = TRUE, !.lines = 5]
Follows == [Base EXCEPT !.grpc = TRUE, !.lines = 3, !.deletes = TRUE, !.watch = TRUE]
Watched == [Base EXCEPT !.gateway = 3, !.events = 2, !.deletes = TRUE, !.watch = TRUE]
MCSetups == Starting \cup {Daemons, Shared, Terminal, Forwards, Execs, NoAddress, Skewed, Denying, Pushes, Follows, Watched}
=============================================================================
