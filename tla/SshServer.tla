----------------------------- MODULE SshServer ------------------------------
(***************************************************************************)
(* The SSH server inside a sandbox and the gateway's exec over it.  A      *)
(* connection opens with a signed preface; a channel runs one command,     *)
(* with pipes or on a terminal, forwards a port, or is refused.  A command *)
(* has three or four threads: a writer of its input, a reader per output   *)
(* stream, and one that waits for the child, then for the readers, and     *)
(* then sends the exit status and closes the channel.                      *)
(***************************************************************************)
EXTENDS Supervisor

CONSTANTS Conns,       \* connections
          Skew,        \* ssh_handshake_skew_secs
          MaxOut       \* chunks a command writes to one stream

VARIABLES clock, nonces,   \* seconds; the nonce cache, with the time of insertion
          conn,            \* the SshHandler of a connection
          sess,            \* the threads of a channel and what they exchange
          exec             \* exec_sandbox on the gateway

sshVars == <<clock, nonces, conn, sess, exec>>
allVars == <<supVars, sshVars>>

Streams == {"stdout", "stderr"}
StreamsOf(kind) == IF kind = "pty" THEN {"stdout"} ELSE Streams

NoConn == [st |-> "none", input |-> None, pty |-> FALSE, master |-> None]
NoSess == [st |-> "none", kind |-> None, resized |-> FALSE, stdin |-> "none", exit |-> "none",
           timedout |-> FALSE,
           pipe |-> [s \in Streams |-> 0], wrote |-> [s \in Streams |-> 0],
           reader |-> [s \in Streams |-> "none"], done |-> 0, sent |-> <<>>]
NoExec == [st |-> "idle", attempt |-> 1, code |-> None]

SshInit ==
    /\ clock = 0 /\ nonces = {}
    /\ conn = [k \in Conns |-> NoConn]
    /\ sess = [c \in Channels |-> NoSess]
    /\ exec = NoExec

ConnOf(c) == setup.conn[c]
Up(c) == conn[ConnOf(c)].st = "up"

\* A message on a channel reaches the client while the connection is up and until
\* the channel is closed.
Msg(kind) == [kind |-> kind, code |-> None]
Closed(c) == \E i \in DOMAIN sess[c].sent : sess[c].sent[i].kind = "close"
Send(c, s, msgs) == [s EXCEPT !.sent = IF Up(c) /\ ~Closed(c) THEN @ \o msgs ELSE @]

-----------------------------------------------------------------------------
(* Connections. *)

Tick ==
    /\ Alive /\ clock < setup.clock
    /\ clock' = clock + 1
    /\ UNCHANGED <<supVars, nonces, conn, sess, exec>>

\* The minute reaper of the nonce cache.
NonceReaper ==
    /\ Alive
    /\ \E n \in nonces : clock - n.at >= Skew
    /\ nonces' = {n \in nonces : clock - n.at < Skew}
    /\ UNCHANGED <<supVars, clock, conn, sess, exec>>

\* Five parts, a timestamp within the skew of now, a signature made with the
\* shared secret, and a nonce the cache does not hold.
Distance(a, b) == IF a > b THEN a - b ELSE b - a
verify_preface(p) ==
    /\ p.parts = 5 /\ p.signed
    /\ Distance(clock, p.timestamp) <= Skew
    /\ \A n \in nonces : n.nonce # p.nonce

\* A client that connects by itself sends the preface its setup gives it; the
\* gateway signs a new one.
Preface(k) == IF setup.preface[k] = None
              THEN [parts |-> 5, signed |-> TRUE, timestamp |-> clock, nonce |-> k]
              ELSE setup.preface[k]

handle_connection(k) ==
    /\ sup.ssh /\ conn[k].st = "none"
    /\ IF verify_preface(Preface(k))
       THEN /\ nonces' = nonces \cup {[nonce |-> Preface(k).nonce, at |-> clock]}
            /\ conn' = [conn EXCEPT ![k].st = "up"]
       ELSE /\ conn' = [conn EXCEPT ![k].st = "refused"]
            /\ UNCHANGED nonces

Connect(k) ==
    /\ setup.attempts = <<>> /\ \E c \in Channels : ConnOf(c) = k /\ setup.want[c] # None
    /\ handle_connection(k)
    /\ UNCHANGED <<supVars, clock, sess, exec>>

\* The end of a connection drops its handler, and with it the sender of the
\* input: the command that was fed by it sees the end of its input.
CloseInput(k, s) ==
    [c \in Channels |-> IF conn[k].input = c THEN [s[c] EXCEPT !.stdin = "closed"] ELSE s[c]]
Disconnect(k) ==
    /\ conn' = [conn EXCEPT ![k] = [@ EXCEPT !.st = "down", !.input = None, !.master = None]]
    /\ sess' = CloseInput(k, sess)

ConnectionLost(k) ==
    /\ Alive /\ "connection" \in setup.faults
    /\ conn[k].st = "up"
    /\ Disconnect(k)
    /\ UNCHANGED <<supVars, clock, nonces, exec>>

-----------------------------------------------------------------------------
(* Channel requests.  The handler is one per connection: a pending terminal
   request and the sender of the input are shared by its channels. *)

CanOpen(c) == Alive /\ Up(c) /\ sess[c].st = "none" /\ setup.attempts = <<>>

pty_request(c) ==
    /\ CanOpen(c) /\ setup.want[c] = "pty" /\ ~conn[ConnOf(c)].pty
    /\ conn' = [conn EXCEPT ![ConnOf(c)].pty = TRUE]
    /\ UNCHANGED <<supVars, clock, nonces, sess, exec>>

\* A new size is for the last terminal of the connection, whatever the channel.
window_change_request(c) ==
    LET t == conn[ConnOf(c)].master IN
    /\ Alive /\ Up(c) /\ setup.resizes /\ t # None
    /\ sess' = [sess EXCEPT ![t].resized = TRUE]
    /\ UNCHANGED <<supVars, clock, nonces, conn, exec>>

\* A thread of its own enters the namespace and connects there; both may fail.
connect_in_netns == {FALSE} \cup {ok \in {TRUE} : ~setns_fails}

\* Only loopback destinations, reached from inside the namespace; a failed
\* connect closes the channel.
channel_open_direct_tcpip(c) ==
    /\ CanOpen(c) /\ setup.want[c] \in {"loopback", "elsewhere"}
    /\ \/ /\ setup.want[c] = "loopback" /\ TRUE \in connect_in_netns
          /\ sess' = [sess EXCEPT ![c].st = "forwarding"]
       \/ sess' = [sess EXCEPT ![c] = Send(c, [@ EXCEPT !.st = "end"], <<Msg("close")>>)]
    /\ UNCHANGED <<supVars, clock, nonces, conn, exec>>

\* An unknown subsystem is refused, an empty command starts nothing.
NothingToRun(c) ==
    /\ CanOpen(c) /\ setup.want[c] = "nothing"
    /\ sess' = [sess EXCEPT ![c].st = "end"]
    /\ UNCHANGED <<supVars, clock, nonces, conn, exec>>

\* A shell, a command or sftp: the child is forked; the threads start after it
\* was registered.  A failed spawn ends the connection.
Fork(c) ==
    /\ sess' = [sess EXCEPT ![c] = [@ EXCEPT !.st = "forked",
                   !.kind = IF conn[ConnOf(c)].pty THEN "pty" ELSE "pipe"]]
    /\ conn' = [conn EXCEPT ![ConnOf(c)].pty = FALSE]
    /\ proc' = [proc EXCEPT ![c] = "run"]
    /\ UNCHANGED <<setup, sup, net, code, managed, waited, early, reaper, clock, nonces, exec>>

\* With a terminal the child also becomes the leader of a session that has it.
install_pre_exec(c) == PreExecFails \/ (conn[ConnOf(c)].pty /\ Fault("tty"))
SpawnFails(c) ==
    /\ install_pre_exec(c)
    /\ conn' = [conn EXCEPT ![ConnOf(c)] = [@ EXCEPT !.st = "down", !.input = None, !.pty = FALSE, !.master = None]]
    /\ sess' = [CloseInput(ConnOf(c), sess) EXCEPT ![c].st = "end"]
    /\ UNCHANGED <<supVars, clock, nonces, exec>>

start_shell(c) ==
    /\ \/ /\ CanOpen(c) /\ setup.want[c] \in {"pipe", "pty"}
          /\ setup.want[c] = "pty" => conn[ConnOf(c)].pty
       \/ Alive /\ sess[c].st = "requested"
    /\ Fork(c) \/ SpawnFails(c)

\* The new input sender replaces the connection's: a command that was still fed
\* through the old one gets the end of its input.
Threads(c) ==
    /\ Alive /\ sess[c].st = "forked"
    /\ register_managed_child(c)
    /\ LET k == ConnOf(c)
           s == [sess EXCEPT ![c] = [@ EXCEPT !.st = "child", !.exit = "waiting",
                    !.stdin = IF Up(c) THEN "open" ELSE "closed",
                    !.reader = [x \in Streams |-> IF x \in StreamsOf(sess[c].kind) THEN "reading" ELSE "none"]]]
       IN /\ sess' = CloseInput(k, s)
          /\ conn' = [conn EXCEPT ![k].input = IF Up(c) THEN c ELSE None,
                                  ![k].master = IF Up(c) /\ sess[c].kind = "pty" THEN c ELSE @]
    /\ UNCHANGED <<setup, sup, net, proc, code, waited, early, reaper, clock, nonces, exec>>

\* End of input on any channel of the connection.
channel_eof(c) ==
    /\ Alive /\ Up(c) /\ sess[c].st = "child" /\ setup.attempts = <<>>
    /\ conn[ConnOf(c)].input # None
    /\ conn' = [conn EXCEPT ![ConnOf(c)].input = None]
    /\ sess' = CloseInput(ConnOf(c), sess)
    /\ UNCHANGED <<supVars, clock, nonces, exec>>

-----------------------------------------------------------------------------
(* The threads of a command. *)

Writes(c, s) ==
    /\ Alive /\ proc[c] = "run"
    /\ sess[c].kind # None /\ s \in StreamsOf(sess[c].kind) \cap setup.writes[c]
    /\ sess[c].wrote[s] < MaxOut
    /\ sess' = [sess EXCEPT ![c].wrote[s] = @ + 1, ![c].pipe[s] = @ + 1]
    /\ UNCHANGED <<supVars, clock, nonces, conn, exec>>

\* A background process of the command keeps its output open.
Held(c) == proc[c] = "run" \/ (setup.daemonOf = c /\ proc[Daemon] = "run")

ReaderForwards(c, s) ==
    /\ Alive /\ sess[c].reader[s] = "reading" /\ sess[c].pipe[s] > 0
    /\ sess' = [sess EXCEPT ![c] = Send(c, [sess[c] EXCEPT !.pipe[s] = @ - 1], <<Msg(s)>>)]
    /\ UNCHANGED <<supVars, clock, nonces, conn, exec>>

\* The reader of a terminal also sends the end of the data.
ReaderEnds(c, s) ==
    /\ Alive /\ sess[c].reader[s] = "reading" /\ sess[c].pipe[s] = 0
    /\ ~Held(c)
    /\ sess' = [sess EXCEPT ![c] =
                  Send(c, [sess[c] EXCEPT !.reader[s] = "done", !.done = @ + 1],
                       IF sess[c].kind = "pty" THEN <<Msg("eof")>> ELSE <<>>)]
    /\ UNCHANGED <<supVars, clock, nonces, conn, exec>>

WaitChild(c) ==
    /\ sess[c].exit = "waiting"
    /\ Wait(c)
    /\ sess' = [sess EXCEPT ![c].exit = "first"]
    /\ UNCHANGED <<setup, sup, net, code, early, reaper, clock, nonces, conn, exec>>

\* A command with pipes waits for two readers, one on a terminal for one.
AfterFirst(c) == IF sess[c].kind = "pipe" THEN "second" ELSE "status"
\* Each wait has a limit of its own (2 s, then 1 s).  It runs out whatever is left:
\* a background process keeps the output open, or the client reads so slowly that
\* a reader is still handing over what the pipe holds.
Mutant_NoWaitForReaders(c) ==
    /\ Alive /\ sess[c].exit \in {"first", "second"}
    /\ sess' = [sess EXCEPT ![c].exit = "status"]
    /\ UNCHANGED <<supVars, clock, nonces, conn, exec>>
RecvReaderDone(c) ==
    /\ Alive /\ sess[c].exit \in {"first", "second"}
    /\ sess' = [sess EXCEPT ![c].exit = IF @ = "first" THEN AfterFirst(c) ELSE "status",
                            ![c].done = IF @ > 0 THEN @ - 1 ELSE 0,
                            ![c].timedout = @ \/ sess[c].done = 0]
    /\ UNCHANGED <<supVars, clock, nonces, conn, exec>>

\* The status of a child that was lost is 1.
ExitStatus(c) == IF waited[c] = Lost THEN 1 ELSE waited[c]
SendExitStatus(c) ==
    /\ Alive /\ sess[c].exit = "status"
    /\ sess' = [sess EXCEPT ![c] =
                  Send(c, [@ EXCEPT !.exit = "sent", !.st = "end"],
                       (IF sess[c].kind = "pipe" THEN <<Msg("eof")>> ELSE <<>>)
                         \o <<[kind |-> "exit", code |-> ExitStatus(c)], Msg("close")>>)]
    /\ UNCHANGED <<supVars, clock, nonces, conn, exec>>

-----------------------------------------------------------------------------
(* The gateway: exec_sandbox and its attempts.  Attempt i uses channel
   setup.attempts[i] on a connection of its own. *)

Attempt == setup.attempts[exec.attempt]
Finish(c) == exec' = [exec EXCEPT !.st = "done", !.code = c]

\* The messages of the errors before the transport is up are retried.
is_retryable_ssh_error(e) == e = "transport"
AttemptFails(e) ==
    IF is_retryable_ssh_error(e) /\ exec.attempt < Len(setup.attempts)
    THEN exec' = [exec EXCEPT !.st = "attempt", !.attempt = @ + 1]
    ELSE Finish(Lost)

\* The address of the pod the status names, which may have none yet, or the name
\* of the service.
resolve_sandbox_exec_target == setup.pod \in {None, "ip"}

\* The sandbox is Ready in the store; its SSH server may not listen yet.
exec_sandbox ==
    /\ exec.st = "idle" /\ setup.attempts # <<>>
    /\ IF resolve_sandbox_exec_target THEN exec' = [exec EXCEPT !.st = "attempt"] ELSE Finish(Lost)
    /\ UNCHANGED <<supVars, clock, nonces, conn, sess>>

\* A single-use local proxy connects, sends the preface and copies; whatever
\* fails there shows up as a transport that cannot be established.
start_single_use_ssh_proxy ==
    /\ exec.st = "attempt"
    /\ \/ /\ handle_connection(ConnOf(Attempt))
          /\ IF conn'[ConnOf(Attempt)].st = "up" THEN exec' = [exec EXCEPT !.st = "open"]
                                                 ELSE AttemptFails("transport")
       \/ /\ ~sup.ssh \/ Fault("connection")
          /\ AttemptFails("transport")
          /\ UNCHANGED <<nonces, conn>>
    /\ UNCHANGED <<supVars, clock, sess>>

\* Authentication, the channel and the command, then the input and its end.  An
\* error of the first two may name a connection reset; the ones after the command
\* was sent only say that the channel is closed.
ErrorsOf(st) == IF st = "open" THEN {"transport", "channel"} ELSE {"channel"}
run_exec_with_russh ==
    /\ \/ /\ exec.st = "open" /\ Up(Attempt)
          /\ sess' = [sess EXCEPT ![Attempt].st = "requested"]
          /\ exec' = [exec EXCEPT !.st = "stdin"]
          /\ UNCHANGED conn
       \/ /\ exec.st = "stdin" /\ Up(Attempt)
          /\ sess[Attempt].st \notin {"requested", "forked"}
          /\ exec' = [exec EXCEPT !.st = "wait"]
          /\ conn' = [conn EXCEPT ![ConnOf(Attempt)].input = None]
          /\ sess' = CloseInput(ConnOf(Attempt), sess)
       \/ /\ exec.st \in {"open", "stdin"} /\ ~Up(Attempt)
          /\ \E e \in ErrorsOf(exec.st) : AttemptFails(e)
          /\ UNCHANGED <<conn, sess>>
    /\ UNCHANGED <<supVars, clock, nonces>>

\* Events are passed on until the channel closes; a lost connection ends the
\* stream without a status, which is reported as 1.
ExecResult ==
    /\ exec.st = "wait"
    /\ \/ Closed(Attempt) /\ Finish(sess[Attempt].sent[Len(sess[Attempt].sent) - 1].code)
       \/ ~Closed(Attempt) /\ ~Up(Attempt) /\ Finish(1)
    /\ UNCHANGED <<supVars, clock, nonces, conn, sess>>

\* The time limit of the request: 124 at once; the command is not stopped, but
\* the connection ends.
ExecTimeout ==
    /\ "timeout" \in setup.faults
    /\ exec.st \in {"attempt", "open", "stdin", "wait"}
    /\ Finish(124)
    /\ IF Up(Attempt) THEN Disconnect(ConnOf(Attempt)) ELSE UNCHANGED <<conn, sess>>
    /\ UNCHANGED <<supVars, clock, nonces>>

\* The connection of an exec that has its result is closed.
ExecDisconnects ==
    /\ exec.st = "done" /\ Up(Attempt)
    /\ Disconnect(ConnOf(Attempt))
    /\ UNCHANGED <<supVars, clock, nonces, exec>>

-----------------------------------------------------------------------------
Session(c) ==
    \/ Threads(c) \/ WaitChild(c) \/ RecvReaderDone(c) \/ SendExitStatus(c)
    \/ \E s \in Streams : ReaderForwards(c, s) \/ ReaderEnds(c, s)
Client(c) ==
    \/ pty_request(c) \/ window_change_request(c) \/ channel_open_direct_tcpip(c) \/ NothingToRun(c) \/ start_shell(c)
    \/ channel_eof(c) \/ (\E s \in Streams : Writes(c, s))
GatewayExec == \/ exec_sandbox \/ start_single_use_ssh_proxy \/ run_exec_with_russh
               \/ ExecResult \/ ExecTimeout \/ ExecDisconnects
Loss(k) == Connect(k) \/ ConnectionLost(k)
SshNext ==
    \/ SupNext /\ UNCHANGED sshVars
    \/ \E c \in Channels : Session(c) \/ Client(c)
    \/ \E k \in Conns : Loss(k)
    \/ GatewayExec \/ Tick \/ NonceReaper

\* The threads of a command run; clients, commands and the network need not.
SshFairness == SupFairness /\ \A c \in Channels : WF_allVars(Session(c))

-----------------------------------------------------------------------------
Received(c, m) == Cardinality({i \in DOMAIN sess[c].sent : sess[c].sent[i].kind = m})
AllReceived(c) == \A s \in Streams : Received(c, s) = sess[c].wrote[s]
\* A command whose channel is closed: no later message reaches the client.
Over(c) == Closed(c) /\ sess[c].kind # None

\* The comments of spawn_pty_shell: the exit status is sent when all output has been
\* forwarded ("data, EOF, exit-status, close"), and two seconds are enough for what
\* is left.  TLC refutes this: the wait runs out whatever is left.
OutputBeforeStatus == \A c \in Channels : Over(c) => AllReceived(c)

\* What a client learns of its command is the truth, whatever the order in which
\* the child, the two readers, a background process that keeps the pipes open, the
\* waits and the reaper run: a channel is closed with an exit status; unless a wait
\* for a reader ran out, everything the command wrote came before it; and the
\* status is the child's own, or 1 for a child that exited before it was registered
\* and was taken by the reaper (lib.rs: it "avoids racing explicit child.wait()
\* calls").
SessionFaithful ==
    \A c \in Channels :
       Over(c) =>
          /\ ~sess[c].timedout => AllReceived(c)
          /\ \E i \in DOMAIN sess[c].sent : sess[c].sent[i].kind = "exit"
          /\ \A i \in DOMAIN sess[c].sent :
                sess[c].sent[i].kind = "exit" =>
                   sess[c].sent[i].code \in {code[c]} \cup {1 : d \in early \cap {c}}

\* A process that PID 1 inherits does not stay a zombie, although a managed
\* zombie makes the reaper give up a pass and signals are merged.
OrphansReaped ==
    (Alive /\ Daemon \in Zombies) ~> (~Alive \/ proc[Daemon] = "gone")
=============================================================================
