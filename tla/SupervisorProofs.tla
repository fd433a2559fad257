--------------------------- MODULE SupervisorProofs ---------------------------
(***************************************************************************)
(* Proofs about Supervisor, SshServer and Reports, for any number of       *)
(* channels, connections, keys, lines and push streams, and any setup.     *)
(*                                                                         *)
(* Three arguments that hardly share a variable: processes and sessions    *)
(* (ProcInv, SessOk), the lines on their way to the tails and to a watch   *)
(* stream (LineInv, WatchInv), and denials (DenInv).                       *)
(***************************************************************************)
EXTENDS Reports, FiniteSetTheorems, TLAPS

-------------------------------------------------------------------------------
(* Processes, their waiters and the reaper. *)

ProcStates == {"none", "run", "zombie", "gone"}

\* A child that exits is registered then, or it is early: so a status that the
\* reaper takes away from a waiter belongs to an early child.
ProcOk(p) ==
    /\ proc[p] = "zombie" => /\ p \in managed \/ p \in early
                             /\ code[p] \in setup.codes
    /\ Alive /\ proc[p] = "gone" /\ waited[p] = None => p \in early

ReaperOk ==
    /\ reaper = [st |-> reaper.st, pid |-> reaper.pid, signal |-> reaper.signal]
    /\ \A c \in Channels :
          /\ reaper.st \in {"check", "reap"} /\ reaper.pid = c => proc[c] \in {"zombie", "gone"}
          /\ reaper.st = "reap" /\ reaper.pid = c /\ proc[c] = "zombie" => c \in early

ProcInv ==
    /\ setup \in Setups
    /\ DOMAIN sup = DOMAIN Booted
    /\ proc \in [Pids -> ProcStates]
    /\ code = [p \in Pids |-> code[p]] /\ waited = [p \in Pids |-> waited[p]]
    /\ \A c \in Channels : ProcOk(c)
    /\ ReaperOk

\* What a step of the supervisor may do to the process of a channel.
Bystander(c) ==
    /\ \/ proc'[c] = proc[c]
       \/ proc[c] = "run" /\ proc'[c] = "zombie"
       \/ proc[c] # "none" /\ proc'[c] = "gone"
    /\ waited'[c] = waited[c]
    /\ code'[c] = code[c] \/ proc[c] = "run"
    /\ early \subseteq early'

LEMMA PidFacts ==
    /\ Channels \subseteq Pids /\ Entry \in Pids /\ Daemon \in Pids
    /\ \A c \in Channels : c # Entry /\ c # Daemon
BY ProcessAssumption DEF Pids

\* A step that leaves processes, their waiters and the reaper alone.
LEMMA ProcQuiet ==
    ASSUME ProcInv, UNCHANGED <<setup, proc, code, managed, waited, early, reaper>>,
           DOMAIN sup' = DOMAIN sup, sup.phase = "exited" => sup'.phase = "exited"
    PROVE  ProcInv' /\ \A c \in Channels : Bystander(c)
BY DEF ProcInv, ProcOk, ReaperOk, Bystander, Alive

\* run_sandbox returns.
LEMMA ExitOk ==
    ASSUME ProcInv, NEW c, Exit(c)
    PROVE  ProcInv' /\ \A d \in Channels : Bystander(d)
<1>1. sup'.phase = "exited" /\ DOMAIN sup' = DOMAIN sup
    BY DEF Exit, ProcInv, Booted
<1>2. /\ proc' = [p \in Pids |-> IF proc[p] = "none" THEN "none" ELSE "gone"]
      /\ UNCHANGED <<setup, code, managed, waited, early, reaper>>
    BY DEF Exit
<1>3. \A p \in Channels : ProcOk(p)'
    BY <1>1, <1>2, PidFacts DEF ProcOk, Alive
<1>4. ReaperOk'
    BY <1>2, PidFacts DEF ReaperOk, ProcInv
<1>5. proc' \in [Pids -> ProcStates]
    BY <1>2 DEF ProcStates
<1>6. \A d \in Channels : Bystander(d)
    BY <1>2, PidFacts DEF Bystander
<1> QED  BY <1>1, <1>2, <1>3, <1>4, <1>5, <1>6 DEF ProcInv

LEMMA StepOk ==
    ASSUME ProcInv, NEW phase, phase # "exited", NEW f, NEW next, Step(phase, f, next),
           DOMAIN next = DOMAIN sup
    PROVE  ProcInv' /\ \A d \in Channels : Bystander(d)
<1>1. CASE Exit(1)
    BY <1>1, ExitOk
<1>2. CASE /\ sup' = next
           /\ UNCHANGED <<setup, net, proc, code, managed, waited, early, reaper>>
    <2>1. sup.phase # "exited"
        BY DEF Step
    <2> QED  BY <1>2, <2>1, ProcQuiet
<1> QED  BY <1>1, <1>2 DEF Step

LEMMA StartupOk ==
    ASSUME ProcInv, Startup
    PROVE  ProcInv' /\ \A d \in Channels : Bystander(d)
<1>0. \A phase : DOMAIN To(phase) = DOMAIN sup
    BY DEF To
<1>1. CASE validate_sandbox_user
    BY <1>0, <1>1, StepOk DEF validate_sandbox_user
<1>2. CASE prepare_filesystem
    BY <1>0, <1>2, StepOk DEF prepare_filesystem
<1>3. CASE GenerateCa
    <2>1. DOMAIN sup' = DOMAIN sup /\ sup.phase # "exited"
        BY <1>0, <1>3 DEF GenerateCa
    <2> QED  BY <1>3, <2>1, ProcQuiet DEF GenerateCa
<1>4. CASE create
    <2>1. DOMAIN sup' = DOMAIN sup /\ sup.phase # "exited"
        BY <1>0, <1>4 DEF create
    <2> QED  BY <1>4, <2>1, ProcQuiet DEF create
<1>5. CASE install_bypass_rules
    <2>1. DOMAIN sup' = DOMAIN sup /\ sup.phase # "exited"
        BY <1>0, <1>5 DEF install_bypass_rules
    <2> QED  BY <1>5, <2>1, ProcQuiet DEF install_bypass_rules
<1>6. CASE build_inference_context
    BY <1>0, <1>6, StepOk DEF build_inference_context
<1>7. CASE StartProxy
    <2> DEFINE next == [To("monitor") EXCEPT !.proxy = TRUE]
    <2>1. DOMAIN next = DOMAIN sup
        BY <1>0
    <2> QED  BY <1>7, <2>1, StepOk DEF StartProxy
<1>8. CASE SpawnMonitor
    <2>1. DOMAIN sup' = DOMAIN sup /\ sup.phase # "exited"
        BY <1>0, <1>8 DEF SpawnMonitor
    <2> QED  BY <1>8, <2>1, ProcQuiet DEF SpawnMonitor
<1>9. CASE StartSsh
    <2> DEFINE next == [To("spawn") EXCEPT !.ssh = setup.ssh]
               f == IF setup.ssh THEN "bind" ELSE None
    <2>1. DOMAIN next = DOMAIN sup
        BY <1>0
    <2>2. Step("reaper", f, next)
        BY <1>9 DEF StartSsh
    <2> QED  BY <2>1, <2>2, StepOk
<1>10. CASE SpawnEntry
    <2>1. CASE Exit(1)
        BY <2>1, ExitOk
    <2>2. CASE /\ proc' = [proc EXCEPT ![Entry] = "run"]
               /\ sup' = To("register")
               /\ UNCHANGED <<setup, net, code, managed, waited, early, reaper>>
        <3>1. DOMAIN sup' = DOMAIN sup /\ sup.phase # "exited" /\ sup'.phase # "exited"
            BY <1>0, <1>10, <2>2 DEF SpawnEntry, To, ProcInv, Booted
        <3>2. /\ proc' \in [Pids -> ProcStates] /\ proc'[Entry] = "run"
              /\ \A p \in Pids \ {Entry} : proc'[p] = proc[p]
            BY <2>2, PidFacts DEF ProcInv, ProcStates
        <3>3. \A p \in Channels : ProcOk(p)'
            BY <2>2, <3>1, <3>2, PidFacts DEF ProcOk, ProcInv, Alive
        <3>4. ReaperOk'
            BY <2>2, <3>2, PidFacts DEF ReaperOk, ProcInv
        <3>5. \A d \in Channels : Bystander(d)
            BY <2>2, <3>2, PidFacts DEF Bystander
        <3> QED  BY <2>2, <3>1, <3>2, <3>3, <3>4, <3>5 DEF ProcInv
    <2> QED  BY <1>10, <2>1, <2>2 DEF SpawnEntry
<1>11. CASE RegisterEntry
    <2>1. DOMAIN sup' = DOMAIN sup /\ sup.phase # "exited" /\ managed \subseteq managed'
        BY <1>0, <1>11 DEF RegisterEntry, register_managed_child
    <2>2. \A p \in Channels : ProcOk(p)'
        BY <1>11, <2>1 DEF RegisterEntry, ProcOk, ProcInv, Alive
    <2>3. UNCHANGED <<setup, proc, code, waited, early, reaper>>
        BY <1>11 DEF RegisterEntry
    <2> QED  BY <2>1, <2>2, <2>3 DEF ProcInv, ReaperOk, Bystander
<1> QED  BY <1>1, <1>2, <1>3, <1>4, <1>5, <1>6, <1>7, <1>8, <1>9, <1>10, <1>11 DEF Startup

\* The waiter of a process.
LEMMA WaitOk ==
    ASSUME ProcInv, NEW p \in Pids, Wait(p), UNCHANGED <<setup, sup, code, early, reaper>>
    PROVE  /\ ProcInv'
           /\ \A c \in Channels \ {p} : Bystander(c)
           /\ proc'[p] = "gone"
           /\ p \in Channels => \/ p \in early /\ waited'[p] = Lost
                                \/ waited'[p] = code[p] /\ code[p] \in setup.codes
<1>1. /\ Alive /\ p \in managed /\ proc[p] \in {"zombie", "gone"} /\ waited[p] = None
      /\ waited' = [waited EXCEPT ![p] = IF proc[p] = "zombie" THEN code[p] ELSE Lost]
      /\ proc' = [proc EXCEPT ![p] = "gone"] /\ managed' = managed \ {p}
    BY DEF Wait
<1>2. /\ proc' \in [Pids -> ProcStates] /\ proc'[p] = "gone"
      /\ \A q \in Pids \ {p} : proc'[q] = proc[q] /\ waited'[q] = waited[q]
      /\ waited'[p] = IF proc[p] = "zombie" THEN code[p] ELSE Lost
      /\ waited' = [q \in Pids |-> waited'[q]]
    BY <1>1 DEF ProcInv, ProcStates
<1>3. None \notin setup.codes /\ None # Lost
    BY SetupAssumption, ProcessAssumption DEF ProcInv
<1>4. ASSUME p \in Channels
      PROVE  \/ p \in early /\ waited'[p] = Lost
             \/ waited'[p] = code[p] /\ code[p] \in setup.codes
    <2>1. ProcOk(p)
        BY <1>4 DEF ProcInv
    <2>2. CASE proc[p] = "zombie"
        BY <1>2, <1>3, <2>1, <2>2 DEF ProcOk
    <2>3. CASE proc[p] = "gone"
        BY <1>1, <1>2, <1>3, <2>1, <2>3 DEF ProcOk
    <2> QED  BY <1>1, <2>2, <2>3
<1>5. \A c \in Channels : ProcOk(c)'
    BY <1>1, <1>2, <1>4, <1>3, PidFacts DEF ProcInv, ProcOk, Alive
<1>6. ReaperOk'
    BY <1>1, <1>2, PidFacts DEF ProcInv, ReaperOk
<1>7. \A c \in Channels \ {p} : Bystander(c)
    BY <1>2, PidFacts DEF Bystander
<1> QED  BY <1>2, <1>4, <1>3, <1>5, <1>6, <1>7 DEF ProcInv

LEMMA ProcessExitsOk ==
    ASSUME ProcInv, NEW p \in Pids, ProcessExits(p)
    PROVE  ProcInv' /\ \A c \in Channels : Bystander(c)
<1>1. /\ proc[p] = "run" /\ proc' = [proc EXCEPT ![p] = "zombie"]
      /\ \E c \in setup.codes : code' = [code EXCEPT ![p] = c]
      /\ early' = IF p \in managed THEN early ELSE early \cup {p}
      /\ UNCHANGED <<setup, sup, managed, waited>>
    BY DEF ProcessExits
<1>2. /\ proc' \in [Pids -> ProcStates] /\ proc'[p] = "zombie"
      /\ \A q \in Pids \ {p} : proc'[q] = proc[q]
    BY <1>1 DEF ProcInv, ProcStates
<1>3. /\ code' = [q \in Pids |-> code'[q]] /\ code'[p] \in setup.codes
      /\ \A q \in Pids \ {p} : code'[q] = code[q]
    BY <1>1 DEF ProcInv
<1>4. early \subseteq early' /\ (p \in managed \/ p \in early')
    BY <1>1
<1>5. \A c \in Channels : ProcOk(c)'
    BY <1>1, <1>2, <1>3, <1>4, PidFacts DEF ProcInv, ProcOk, Alive
<1>6. ReaperOk'
    <2>1. /\ reaper' = [st |-> reaper'.st, pid |-> reaper'.pid, signal |-> reaper'.signal]
          /\ reaper'.st = reaper.st /\ reaper'.pid = reaper.pid
        BY DEF ProcessExits, ProcInv, ReaperOk
    <2> QED  BY <1>1, <1>2, <1>4, <2>1, PidFacts DEF ProcInv, ReaperOk
<1>7. \A c \in Channels : Bystander(c)
    BY <1>1, <1>2, <1>3, <1>4, PidFacts DEF Bystander
<1> QED  BY <1>1, <1>2, <1>3, <1>5, <1>6, <1>7 DEF ProcInv

LEMMA ReaperStepOk ==
    ASSUME ProcInv, ReaperStep \/ RetryTick
    PROVE  ProcInv' /\ \A c \in Channels : Bystander(c)
<1>1. CASE Sigchld \/ RetryTick \/ PeekZombie \/ CheckZombie
    <2>1. UNCHANGED <<setup, sup, proc, code, managed, waited, early>>
        BY <1>1 DEF Sigchld, RetryTick, PeekZombie, CheckZombie
    <2>2. ReaperOk'
        <3>1. CASE Sigchld \/ RetryTick
            BY <2>1, <3>1 DEF Sigchld, RetryTick, Look, ProcInv, ReaperOk
        <3>2. CASE PeekZombie
            BY <2>1, <3>2 DEF PeekZombie, Zombies, ProcInv, ReaperOk
        <3>3. CASE CheckZombie
            BY <2>1, <3>3 DEF CheckZombie, is_managed_child, ProcInv, ReaperOk, ProcOk
        <3> QED  BY <1>1, <3>1, <3>2, <3>3
    <2> QED  BY <2>1, <2>2 DEF ProcInv, ProcOk, Alive, Bystander
<1>2. CASE Reap
    <2> DEFINE p == reaper.pid
    <2>1. /\ reaper.st = "reap" /\ proc' = [proc EXCEPT ![p] = "gone"]
          /\ reaper' = Look /\ UNCHANGED <<setup, sup, code, managed, waited, early>>
        BY <1>2 DEF Reap
    <2>2. /\ proc' \in [Pids -> ProcStates]
          /\ \A q \in Pids : proc'[q] = IF q = p THEN "gone" ELSE proc[q]
        BY <2>1 DEF ProcInv, ProcStates
    <2>3. ReaperOk'
        BY <2>1 DEF Look, ProcInv, ReaperOk
    <2>4. \A c \in Channels : ProcOk(c)'
        BY <2>1, <2>2, PidFacts DEF ProcInv, ReaperOk, ProcOk, Alive
    <2>5. \A c \in Channels : Bystander(c)
        BY <2>1, <2>2, PidFacts DEF ProcInv, ReaperOk, Bystander
    <2> QED  BY <2>1, <2>2, <2>3, <2>4, <2>5 DEF ProcInv
<1> QED  BY <1>1, <1>2 DEF ReaperStep

LEMMA SupNextOk ==
    ASSUME ProcInv, SupNext
    PROVE  ProcInv' /\ \A c \in Channels : Bystander(c)
<1>1. CASE Startup
    BY <1>1, StartupOk
<1>2. CASE DaemonStarts
    <2>1. /\ proc[Daemon] = "none" /\ proc' = [proc EXCEPT ![Daemon] = "run"]
          /\ UNCHANGED <<setup, sup, code, managed, waited, early, reaper>>
        BY <1>2 DEF DaemonStarts
    <2>2. /\ proc' \in [Pids -> ProcStates]
          /\ \A q \in Pids \ {Daemon} : proc'[q] = proc[q]
        BY <2>1 DEF ProcInv, ProcStates
    <2>3. \A c \in Channels : c \in Pids \ {Daemon}
        BY PidFacts
    <2>4. (\A c \in Channels : ProcOk(c)' /\ Bystander(c)) /\ ReaperOk'
        BY <2>1, <2>2, <2>3 DEF ProcInv, ReaperOk, ProcOk, Alive, Bystander
    <2> QED  BY <2>1, <2>2, <2>4 DEF ProcInv
<1>3. CASE \E p \in Pids : ProcessExits(p)
    BY <1>3, ProcessExitsOk
<1>4. CASE wait
    <2>1. Wait(Entry) /\ UNCHANGED <<setup, sup, code, early, reaper>>
        BY <1>4 DEF wait
    <2> QED  BY <2>1, WaitOk, PidFacts
<1>5. CASE ReturnStatus \/ kill
    BY <1>5, ExitOk DEF ReturnStatus, kill
<1>6. CASE ReaperStep \/ RetryTick
    BY <1>6, ReaperStepOk
<1> QED  BY <1>1, <1>2, <1>3, <1>4, <1>5, <1>6 DEF SupNext


-------------------------------------------------------------------------------
(* Messages. *)

ExitCodes == UNION {s.codes : s \in Setups}
Codes == {None, 1} \cup ExitCodes
MsgType == [kind : {"stdout", "stderr", "eof", "exit", "close"}, code : Codes]

\* Received, of a sequence of messages.
Places(sent, m) == {i \in DOMAIN sent : sent[i].kind = m}
Count(sent, m) == Cardinality(Places(sent, m))

LEMMA PlacesFinite ==
    ASSUME NEW sent \in Seq(MsgType), NEW m
    PROVE  IsFiniteSet(Places(sent, m)) /\ Count(sent, m) \in Nat
<1>1. DOMAIN sent = 1 .. Len(sent) /\ Len(sent) \in Nat
    OBVIOUS
<1>2. IsFiniteSet(1 .. Len(sent))
    BY <1>1, FS_Interval
<1>3. Places(sent, m) \subseteq 1 .. Len(sent)
    BY <1>1 DEF Places
<1>4. IsFiniteSet(Places(sent, m))
    BY <1>2, <1>3, FS_Subset
<1> QED  BY <1>4, FS_CardinalityType DEF Count

LEMMA CountEmpty ==
    ASSUME NEW m
    PROVE  Count(<<>>, m) = 0
<1>1. Places(<<>>, m) = {}
    BY DEF Places
<1> QED  BY <1>1, FS_EmptySet DEF Count

LEMMA SentMore ==
    ASSUME NEW sent \in Seq(MsgType), NEW msgs \in Seq(MsgType)
    PROVE  /\ sent \o msgs \in Seq(MsgType)
           /\ Len(sent \o msgs) = Len(sent) + Len(msgs)
           /\ DOMAIN (sent \o msgs) = 1 .. Len(sent) + Len(msgs)
           /\ \A i \in DOMAIN sent : i \in DOMAIN (sent \o msgs) /\ (sent \o msgs)[i] = sent[i]
           /\ \A i \in DOMAIN (sent \o msgs) :
                 \/ i \in DOMAIN sent
                 \/ i - Len(sent) \in DOMAIN msgs /\ (sent \o msgs)[i] = msgs[i - Len(sent)]
OBVIOUS

LEMMA SentLast ==
    ASSUME NEW sent \in Seq(MsgType), NEW msgs \in Seq(MsgType), NEW i \in DOMAIN msgs
    PROVE  /\ Len(sent) + i \in DOMAIN (sent \o msgs)
           /\ (sent \o msgs)[Len(sent) + i] = msgs[i]
OBVIOUS

\* Messages of other kinds do not count ...
LEMMA CountOthers ==
    ASSUME NEW sent \in Seq(MsgType), NEW msgs \in Seq(MsgType), NEW m,
           \A i \in DOMAIN msgs : msgs[i].kind # m
    PROVE  Count(sent \o msgs, m) = Count(sent, m)
<1>1. Places(sent \o msgs, m) = Places(sent, m)
    BY SentMore DEF Places
<1> QED  BY <1>1 DEF Count

\* ... and one of the kind does.
LEMMA CountOne ==
    ASSUME NEW sent \in Seq(MsgType), NEW e \in MsgType
    PROVE  Count(sent \o <<e>>, e.kind) = Count(sent, e.kind) + 1
<1> DEFINE n == Len(sent) + 1
           m == e.kind
<1>1. <<e>> \in Seq(MsgType) /\ Len(<<e>>) = 1 /\ Len(sent) \in Nat
    OBVIOUS
<1>2. n \in DOMAIN (sent \o <<e>>) /\ (sent \o <<e>>)[n] = e
    BY <1>1, SentMore
<1>3. \A i \in DOMAIN (sent \o <<e>>) : i # n => i \in DOMAIN sent
    BY <1>1, SentMore
<1>4. n \notin DOMAIN sent
    BY <1>1
<1>5. Places(sent \o <<e>>, m) = Places(sent, m) \cup {n} /\ n \notin Places(sent, m)
    BY <1>1, <1>2, <1>3, <1>4, SentMore DEF Places
<1>6. IsFiniteSet(Places(sent, m))
    BY PlacesFinite
<1> QED  BY <1>5, <1>6, FS_AddElement DEF Count

-------------------------------------------------------------------------------
(* The threads of a session. *)

Zeros(f) == \A x \in Streams : f[x] = 0
Done(reader) == (IF reader["stdout"] = "done" THEN 1 ELSE 0)
                + (IF reader["stderr"] = "done" THEN 1 ELSE 0)

SessStates == {"none", "requested", "forked", "child", "end", "forwarding"}
ExitStates == {"none", "waiting", "first", "second", "status", "sent"}
ReaderStates == {"none", "reading", "done"}
Counters == [Streams -> Nat]
Readers == [Streams -> ReaderStates]
Kinds == {None, "pipe", "pty"}

SessType ==
    [st : SessStates, kind : Kinds, resized : BOOLEAN, stdin : {"none", "open", "closed"},
     exit : ExitStates, pipe : Counters, wrote : Counters, reader : Readers, done : Nat,
     sent : Seq(MsgType), timedout : BOOLEAN]

Blank(s) == /\ s.kind = None /\ s.exit = "none" /\ s.done = 0 /\ s.sent = <<>>
            /\ Zeros(s.pipe) /\ Zeros(s.wrote)

\* The readers: one that is done has left nothing, and no more is written.  The
\* exit thread goes on when all are done, or when a wait has run out.
ReadersOk(s, p) ==
    /\ \A x \in Streams : s.reader[x] = "done" => s.pipe[x] = 0 /\ p # "run"
    /\ \A x \in Streams \ StreamsOf(s.kind) : s.pipe[x] = 0 /\ s.reader[x] = "none"
    /\ s.exit = "none" => \A x \in Streams : s.reader[x] = "none"
    /\ s.exit # "none" => \A x \in StreamsOf(s.kind) : s.reader[x] # "none"
    /\ s.exit \in {"none", "waiting", "first"} => s.done = Done(s.reader)
    /\ s.exit = "second" => s.kind # "pty" /\ (s.timedout \/ Done(s.reader) = s.done + 1)
    /\ s.exit \in {"status", "sent"} => s.timedout \/ Zeros(s.pipe)

\* The child has ended when its waiter goes on, and its status is its own.
WaiterOk(s, p, w, cd, e) ==
    /\ s.exit \in {"first", "second", "status", "sent"} => p \in {"zombie", "gone"} /\ w # None
    /\ p \in {"none", "run"} => w = None
    /\ w # None => (e /\ w = Lost) \/ (w = cd /\ w \in ExitCodes)

\* What the client has been sent.
MessagesOk(s, cd, e) ==
    /\ \A i \in DOMAIN s.sent : s.sent[i].kind = "exit" =>
          s.exit = "sent" /\ ((e /\ s.sent[i].code = 1) \/ s.sent[i].code = cd)
    /\ \A i \in DOMAIN s.sent : s.sent[i].kind = "close" =>
          \/ s.kind = None
          \/ /\ s.exit = "sent"
             /\ \E j \in DOMAIN s.sent : s.sent[j].kind = "exit"
             /\ s.timedout \/ \A x \in Streams : Count(s.sent, x) = s.wrote[x]

\* A session, with the state of its process, what its waiter got, the exit code
\* and whether the process is early.
SessOk(s, p, w, cd, e) ==
    /\ s \in SessType
    /\ s.st \in {"none", "requested"} => Blank(s) /\ p = "none"
    /\ s.st = "forked" => s.exit = "none" /\ s.kind \in {"pipe", "pty"}
    /\ s.exit # "none" => s.kind \in {"pipe", "pty"}
    /\ ReadersOk(s, p)
    /\ WaiterOk(s, p, w, cd, e)
    /\ MessagesOk(s, cd, e)

\* While the connection is up and the channel open, everything the readers took has
\* been sent.
Open(c) == Up(c) /\ ~Closed(c)
FlowOk(s, up) == up /\ s.exit # "sent" => \A x \in Streams : Count(s.sent, x) + s.pipe[x] = s.wrote[x]

\* A channel exists only on a connection that was up; one that is down stays down.
LinkOk(s, k) == s.st # "none" => k.st \in {"up", "down"}

SessionOk(c) ==
    /\ SessOk(sess[c], proc[c], waited[c], code[c], c \in early)
    /\ FlowOk(sess[c], Up(c))
    /\ LinkOk(sess[c], conn[ConnOf(c)])

ConnInv == /\ conn = [k \in Conns |-> conn[k]]
           /\ \A k \in Conns : "st" \in DOMAIN conn[k]

\* An exec request has used the channel of its last attempt only, and that one
\* only once the attempt cannot be repeated.
ExecInv ==
    /\ exec = [st |-> exec.st, attempt |-> exec.attempt, code |-> exec.code]
    /\ exec.attempt \in Nat \ {0} /\ (exec.st = "idle" => exec.attempt = 1)
    /\ exec.st # "idle" => exec.attempt \in DOMAIN setup.attempts
    /\ \A i \in DOMAIN setup.attempts :
          sess[setup.attempts[i]].st # "none" => /\ i = exec.attempt
                                                 /\ exec.st \in {"stdin", "wait", "done"}

SshInv ==
    /\ ProcInv /\ ConnInv /\ ExecInv
    /\ sess = [c \in Channels |-> sess[c]]
    /\ \A c \in Channels : SessionOk(c)

-------------------------------------------------------------------------------
(* What may happen to a session. *)

LEMMA BlankFlow ==
    ASSUME NEW s, Blank(s), NEW up
    PROVE  FlowOk(s, up)
BY CountEmpty DEF Blank, FlowOk, Zeros

\* A step of the supervisor.
LEMMA BystanderOk ==
    ASSUME NEW c \in Channels, SessOk(sess[c], proc[c], waited[c], code[c], c \in early),
           Bystander(c), proc[c] \in ProcStates
    PROVE  SessOk(sess[c], proc'[c], waited'[c], code'[c], c \in early')
<1> DEFINE s == sess[c]
<1>1. /\ s \in SessType
      /\ s.st \in {"none", "requested"} => Blank(s) /\ proc'[c] = "none"
      /\ s.st = "forked" => s.exit = "none" /\ s.kind \in {"pipe", "pty"}
      /\ s.exit # "none" => s.kind \in {"pipe", "pty"}
    BY DEF SessOk, Bystander
<1>2. ReadersOk(s, proc'[c])
    BY DEF SessOk, Bystander, ReadersOk
<1>3. WaiterOk(s, proc'[c], waited'[c], code'[c], c \in early')
    BY DEF SessOk, Bystander, WaiterOk, ProcStates
<1>4. MessagesOk(s, code'[c], c \in early')
    <2>1. s.exit = "sent" => code'[c] = code[c]
        BY DEF SessOk, WaiterOk, Bystander
    <2> QED  BY <2>1 DEF SessOk, Bystander, MessagesOk
<1> QED  BY <1>1, <1>2, <1>3, <1>4 DEF SessOk

\* The input of a command or the size of its terminal.
LEMMA InputOk ==
    ASSUME NEW s, NEW p, NEW w, NEW cd, NEW e, SessOk(s, p, w, cd, e),
           NEW t, t \in {[s EXCEPT !.stdin = "closed"], [s EXCEPT !.resized = TRUE]}
    PROVE  /\ SessOk(t, p, w, cd, e) /\ t.st = s.st
           /\ \A up : FlowOk(s, up) => FlowOk(t, up)
<1>1. t \in SessType
    BY DEF SessOk, SessType
<1>2. /\ t.st = s.st /\ t.kind = s.kind /\ t.exit = s.exit /\ t.pipe = s.pipe
      /\ t.wrote = s.wrote /\ t.reader = s.reader /\ t.done = s.done /\ t.sent = s.sent
      /\ t.timedout = s.timedout
    BY DEF SessOk, SessType
<1> QED  BY <1>1, <1>2 DEF SessOk, Blank, ReadersOk, WaiterOk, MessagesOk, FlowOk
LEMMA SetupFacts ==
    ASSUME setup \in Setups
    PROVE  /\ \A c \in Channels : ConnOf(c) \in Conns
           /\ setup.attempts \in Seq(Channels) /\ DOMAIN setup.attempts = 1 .. Len(setup.attempts)
           /\ Len(setup.attempts) \in Nat
           /\ \A i \in DOMAIN setup.attempts : setup.attempts[i] \in Channels
           /\ \A i, j \in DOMAIN setup.attempts : setup.attempts[i] = setup.attempts[j] => i = j
           /\ setup.codes \subseteq ExitCodes
           /\ None \notin ExitCodes /\ Lost \notin ExitCodes /\ None # Lost
<1>1. /\ setup.conn \in [Channels -> Conns] /\ setup.attempts \in Seq(Channels)
      /\ \A i, j \in DOMAIN setup.attempts : setup.attempts[i] = setup.attempts[j] => i = j
    BY SetupAssumption
<1>2. setup.codes \subseteq ExitCodes
    BY DEF ExitCodes
<1>3. None \notin ExitCodes /\ Lost \notin ExitCodes
    BY SetupAssumption DEF ExitCodes
<1> QED  BY <1>1, <1>2, <1>3, ProcessAssumption DEF ConnOf

\* The exec request when no session begins, or when there is no request.
LEMMA ExecFrame ==
    ASSUME ExecInv, setup \in Setups, setup' = setup, exec' = exec,
           \A c \in Channels :
              sess'[c].st # "none" => sess[c].st # "none" \/ setup.attempts = <<>>
    PROVE  ExecInv'
BY SetupFacts DEF ExecInv

\* A step that ends or keeps connections, seen from a session it does not
\* concern: at most its input is closed.
LEMMA OtherSession ==
    ASSUME SshInv, NEW d \in Channels, setup' = setup, Bystander(d),
           sess'[d] \in {sess[d], [sess[d] EXCEPT !.stdin = "closed"], [sess[d] EXCEPT !.resized = TRUE]},
           \/ conn'[ConnOf(d)].st = conn[ConnOf(d)].st
           \/ conn[ConnOf(d)].st # "none" /\ conn'[ConnOf(d)].st = "down"
    PROVE  SessionOk(d)' /\ sess'[d].st = sess[d].st
<1>1. /\ SessOk(sess[d], proc[d], waited[d], code[d], d \in early)
      /\ FlowOk(sess[d], Up(d)) /\ LinkOk(sess[d], conn[ConnOf(d)])
    BY DEF SshInv, SessionOk
<1>2. proc[d] \in ProcStates
    BY PidFacts DEF SshInv, ProcInv
<1>3. SessOk(sess[d], proc'[d], waited'[d], code'[d], d \in early')
    BY <1>1, <1>2, BystanderOk
<1>4. /\ SessOk(sess'[d], proc'[d], waited'[d], code'[d], d \in early')
      /\ sess'[d].st = sess[d].st
      /\ \A up : FlowOk(sess[d], up) => FlowOk(sess'[d], up)
    <2>1. CASE sess'[d] = sess[d]
        BY <1>3, <2>1
    <2>2. CASE sess'[d] \in {[sess[d] EXCEPT !.stdin = "closed"], [sess[d] EXCEPT !.resized = TRUE]}
        BY <1>3, <2>2, InputOk
    <2> QED  BY <2>1, <2>2
<1>5. ConnOf(d)' = ConnOf(d)
    BY DEF ConnOf
<1>6. FlowOk(sess'[d], Up(d)')
    <2>1. CASE Up(d)
        BY <1>1, <1>4, <2>1 DEF FlowOk
    <2>2. CASE ~Up(d)
        <3>1. ~Up(d)'
            BY <1>5, <2>2 DEF Up
        <3> QED  BY <3>1 DEF FlowOk
    <2> QED  BY <2>1, <2>2
<1>7. LinkOk(sess'[d], conn'[ConnOf(d)'])
    BY <1>1, <1>4, <1>5 DEF LinkOk
<1> QED  BY <1>4, <1>6, <1>7 DEF SessionOk

\* The tables after a step.
LEMMA Rebuilt ==
    ASSUME SshInv, ProcInv', ConnInv', ExecInv', NEW c \in Channels,
           sess' = [d \in Channels |-> sess'[d]],
           \A d \in Channels \ {c} : SessionOk(d)', SessionOk(c)'
    PROVE  SshInv'
BY DEF SshInv

\* A step of the threads of one command.
LEMMA ThreadStep ==
    ASSUME SshInv, NEW c \in Channels, NEW t, UNCHANGED <<supVars, conn, exec>>,
           sess' = [sess EXCEPT ![c] = t],
           SessOk(t, proc[c], waited[c], code[c], c \in early),
           FlowOk(t, Up(c)), LinkOk(t, conn[ConnOf(c)]),
           t.st # "none" => sess[c].st # "none" \/ setup.attempts = <<>>
    PROVE  SshInv'
<1>1. ProcInv' /\ \A d \in Channels : Bystander(d)
    BY ProcQuiet DEF SshInv, supVars
<1>2. /\ sess' = [d \in Channels |-> sess'[d]] /\ sess'[c] = t
      /\ \A d \in Channels \ {c} : sess'[d] = sess[d]
    BY DEF SshInv
<1>3. ExecInv'
    BY <1>2, ExecFrame DEF SshInv, ProcInv, supVars
<1>4. ConnInv'
    BY DEF SshInv, ConnInv
<1>5. \A d \in Channels \ {c} : SessionOk(d)'
    BY <1>1, <1>2, OtherSession DEF supVars
<1>6. SessionOk(c)'
    <2>1. Up(c)' = Up(c) /\ conn'[ConnOf(c)'] = conn[ConnOf(c)]
        BY DEF Up, ConnOf, supVars
    <2> QED  BY <1>2, <2>1 DEF SessionOk, supVars
<1> QED  BY <1>1, <1>2, <1>3, <1>4, <1>5, <1>6, Rebuilt

\* Sending.
LEMMA SendFields ==
    ASSUME NEW c, NEW s \in SessType, NEW msgs \in Seq(MsgType), NEW t, t = Send(c, s, msgs)
    PROVE  /\ t \in SessType
           /\ t.sent = IF Open(c) THEN s.sent \o msgs ELSE s.sent
           /\ t.st = s.st /\ t.kind = s.kind /\ t.exit = s.exit /\ t.pipe = s.pipe
           /\ t.wrote = s.wrote /\ t.reader = s.reader /\ t.done = s.done /\ t.timedout = s.timedout
<1> DEFINE new == IF Open(c) THEN s.sent \o msgs ELSE s.sent
<1>1. Send(c, s, msgs) = [s EXCEPT !.sent = new]
    BY DEF Send, SessType, Open
<1>2. s.sent \in Seq(MsgType)
    BY DEF SessType
<1>3. new \in Seq(MsgType)
    BY <1>2, SentMore
<1>4. [s EXCEPT !.sent = new] \in SessType
    BY <1>3 DEF SessType
<1> QED  BY <1>1, <1>4 DEF SessType

LEMMA MsgFacts ==
    ASSUME NEW m \in {"stdout", "stderr", "eof", "close"}
    PROVE  Msg(m) \in MsgType /\ Msg(m).kind = m
BY DEF Msg, MsgType, Codes

-------------------------------------------------------------------------------
(* The threads of a command. *)

\* The session c as the invariant describes it.
LEMMA SessionFacts ==
    ASSUME SshInv, NEW c \in Channels
    PROVE  /\ SessOk(sess[c], proc[c], waited[c], code[c], c \in early)
           /\ FlowOk(sess[c], Up(c)) /\ LinkOk(sess[c], conn[ConnOf(c)])
           /\ sess[c] \in SessType /\ sess[c].sent \in Seq(MsgType)
           /\ sess[c].pipe \in Counters /\ sess[c].wrote \in Counters
           /\ sess[c].reader \in Readers /\ sess[c].done \in Nat
           /\ c \in DOMAIN sess
<1>1. SessOk(sess[c], proc[c], waited[c], code[c], c \in early)
    BY DEF SshInv, SessionOk
<1>2. sess[c] \in SessType
    BY <1>1 DEF SessOk
<1> QED  BY <1>1, <1>2 DEF SshInv, SessionOk, SessType

LEMMA WritesOk ==
    ASSUME SshInv, NEW c \in Channels, NEW x \in Streams, Writes(c, x)
    PROVE  SshInv'
<1> DEFINE s == sess[c]
           t == [s EXCEPT !.wrote = [s.wrote EXCEPT ![x] = s.wrote[x] + 1],
                          !.pipe = [s.pipe EXCEPT ![x] = s.pipe[x] + 1]]
<1>1. /\ SessOk(s, proc[c], waited[c], code[c], c \in early)
      /\ FlowOk(s, Up(c)) /\ LinkOk(s, conn[ConnOf(c)])
      /\ s \in SessType /\ s.pipe \in Counters /\ s.wrote \in Counters /\ s.sent \in Seq(MsgType)
    BY SessionFacts
<1>2. /\ proc[c] = "run" /\ x \in StreamsOf(s.kind)
      /\ UNCHANGED <<supVars, conn, exec>> /\ sess' = [sess EXCEPT ![c] = t]
    BY DEF Writes, SshInv, SessType
<1>3. /\ [s.wrote EXCEPT ![x] = s.wrote[x] + 1] \in Counters
      /\ [s.pipe EXCEPT ![x] = s.pipe[x] + 1] \in Counters
    BY <1>1 DEF Counters
<1>4. t \in SessType
    BY <1>1, <1>3 DEF SessType
<1>5. /\ t.st = s.st /\ t.kind = s.kind /\ t.exit = s.exit /\ t.reader = s.reader
      /\ t.done = s.done /\ t.timedout = s.timedout /\ t.sent = s.sent
      /\ t.wrote[x] = s.wrote[x] + 1 /\ t.pipe[x] = s.pipe[x] + 1
      /\ \A y \in Streams \ {x} : t.wrote[y] = s.wrote[y] /\ t.pipe[y] = s.pipe[y]
    BY <1>1 DEF SessType, Counters
<1>6. s.st \notin {"none", "requested"} /\ s.exit \in {"none", "waiting"} /\ s.reader[x] # "done"
    BY <1>1, <1>2 DEF SessOk, SessType, ReadersOk, WaiterOk, ExitStates
<1>7. ReadersOk(t, proc[c])
    BY <1>1, <1>2, <1>5, <1>6 DEF SessOk, ReadersOk
<1>8. WaiterOk(t, proc[c], waited[c], code[c], c \in early) /\ MessagesOk(t, code[c], c \in early)
    BY <1>1, <1>5, <1>6 DEF SessOk, WaiterOk, MessagesOk
<1>9. SessOk(t, proc[c], waited[c], code[c], c \in early)
    BY <1>1, <1>4, <1>5, <1>6, <1>7, <1>8 DEF SessOk
<1>10. FlowOk(t, Up(c)) /\ LinkOk(t, conn[ConnOf(c)])
    <2>1. \A y \in Streams : Count(s.sent, y) \in Nat /\ s.pipe[y] \in Nat /\ s.wrote[y] \in Nat
        BY <1>1, PlacesFinite DEF Counters
    <2> QED  BY <1>1, <1>5, <2>1 DEF FlowOk, LinkOk
<1> QED  BY <1>2, <1>5, <1>6, <1>9, <1>10, ThreadStep

LEMMA ReaderForwardsOk ==
    ASSUME SshInv, NEW c \in Channels, NEW x \in Streams, ReaderForwards(c, x)
    PROVE  SshInv'
<1> DEFINE s == sess[c]
           u == [s EXCEPT !.pipe = [s.pipe EXCEPT ![x] = s.pipe[x] - 1]]
           msgs == <<Msg(x)>>
           t == Send(c, u, msgs)
<1>1. /\ SessOk(s, proc[c], waited[c], code[c], c \in early)
      /\ FlowOk(s, Up(c)) /\ LinkOk(s, conn[ConnOf(c)])
      /\ s \in SessType /\ s.pipe \in Counters /\ s.wrote \in Counters /\ s.sent \in Seq(MsgType)
    BY SessionFacts
<1>2. /\ s.reader[x] = "reading" /\ s.pipe[x] > 0 /\ UNCHANGED <<supVars, conn, exec>>
      /\ sess' = [sess EXCEPT ![c] = t]
    BY DEF ReaderForwards, SshInv, SessType
<1>3. Msg(x) \in MsgType /\ Msg(x).kind = x /\ msgs \in Seq(MsgType)
    BY MsgFacts DEF Streams
<1>4. [s.pipe EXCEPT ![x] = s.pipe[x] - 1] \in Counters
    BY <1>1, <1>2 DEF Counters
<1>5. u \in SessType
    BY <1>1, <1>4 DEF SessType
<1>6. /\ u.st = s.st /\ u.kind = s.kind /\ u.exit = s.exit /\ u.reader = s.reader
      /\ u.done = s.done /\ u.timedout = s.timedout /\ u.sent = s.sent /\ u.wrote = s.wrote
      /\ u.pipe[x] = s.pipe[x] - 1 /\ \A y \in Streams \ {x} : u.pipe[y] = s.pipe[y]
    BY <1>1 DEF SessType, Counters
<1>a. t = Send(c, u, msgs) /\ \A i \in DOMAIN msgs : msgs[i].kind = x
    BY <1>3
<1>b. \A f \in Seq(MsgType) : /\ Count(f \o msgs, x) = Count(f, x) + 1
                               /\ \A y : y # x => Count(f \o msgs, y) = Count(f, y)
    <2>1. ASSUME NEW f \in Seq(MsgType)
          PROVE  Count(f \o msgs, x) = Count(f, x) + 1
        <3>1. Count(f \o msgs, Msg(x).kind) = Count(f, Msg(x).kind) + 1
            BY <1>3, CountOne
        <3> QED  BY <1>3, <3>1
    <2>2. ASSUME NEW f \in Seq(MsgType), NEW y, y # x
          PROVE  Count(f \o msgs, y) = Count(f, y)
        <3>1. \A i \in DOMAIN msgs : msgs[i].kind # y
            BY <1>a, <2>2
        <3> HIDE DEF msgs
        <3> QED  BY <1>3, <3>1, CountOthers
    <2> QED  BY <2>1, <2>2
<1> HIDE DEF u, msgs, t
<1>7. /\ t \in SessType /\ t.sent = IF Open(c) THEN s.sent \o msgs ELSE s.sent
      /\ t.st = s.st /\ t.kind = s.kind /\ t.exit = s.exit /\ t.pipe = u.pipe
      /\ t.wrote = s.wrote /\ t.reader = s.reader /\ t.done = s.done /\ t.timedout = s.timedout
    <2>1. t.sent = IF Open(c) THEN u.sent \o msgs ELSE u.sent
        BY <1>3, <1>5, <1>a, SendFields
    <2>2. /\ t \in SessType
          /\ t.st = u.st /\ t.kind = u.kind /\ t.exit = u.exit /\ t.pipe = u.pipe
          /\ t.wrote = u.wrote /\ t.reader = u.reader /\ t.done = u.done /\ t.timedout = u.timedout
        BY <1>3, <1>5, <1>a, <2>1, SendFields
    <2> QED  BY <1>6, <2>1, <2>2
<1>8. /\ s.exit # "none" /\ s.st \notin {"none", "requested", "forked"}
      /\ s.exit \in {"status", "sent"} => s.timedout
    BY <1>1, <1>2 DEF SessOk, ReadersOk, Blank, Zeros, Counters
<1>9. ReadersOk(t, proc[c])
    <2>1. \A y \in Streams : s.reader[y] = "done" \/ y \notin StreamsOf(s.kind) => y # x
        BY <1>1, <1>2 DEF SessOk, ReadersOk
    <2> QED  BY <1>1, <1>6, <1>7, <1>8, <2>1 DEF SessOk, ReadersOk
<1>10. MessagesOk(t, code[c], c \in early)
    <2>1. CASE ~Open(c)
        BY <1>1, <1>7, <2>1 DEF SessOk, MessagesOk
    <2>2. CASE Open(c)
        <3>1. \A i \in DOMAIN msgs : msgs[i].kind \notin {"exit", "close"}
            BY <1>a DEF Streams
        <3>2. \A i \in DOMAIN s.sent : s.sent[i].kind # "close"
            BY <2>2 DEF Open, Closed
        <3>3. \A i \in DOMAIN t.sent :
                 t.sent[i].kind \notin {"exit", "close"} \/ (i \in DOMAIN s.sent /\ t.sent[i] = s.sent[i])
            BY <1>1, <1>3, <1>7, <2>2, <3>1, SentMore
        <3> QED  BY <1>1, <1>7, <3>2, <3>3 DEF SessOk, MessagesOk
    <2> QED  BY <2>1, <2>2
<1>11. SessOk(t, proc[c], waited[c], code[c], c \in early)
    BY <1>1, <1>7, <1>8, <1>9, <1>10 DEF SessOk, WaiterOk
<1>12. FlowOk(t, Up(c)) /\ LinkOk(t, conn[ConnOf(c)])
    <2>1. \A y \in Streams : Count(s.sent, y) \in Nat /\ s.pipe[y] \in Nat /\ s.wrote[y] \in Nat
        BY <1>1, PlacesFinite DEF Counters
    <2>o. s.exit # "sent" => ~Closed(c)
        BY <1>1, <1>8, ProcessAssumption DEF SessOk, MessagesOk, Closed
    <2>2. ASSUME Up(c), s.exit # "sent", NEW y \in Streams
          PROVE  Count(t.sent, y) + t.pipe[y] = t.wrote[y]
        <3>o. Open(c)
            BY <2>o, <2>2 DEF Open
        <3>1. CASE y = x
            <4>1. Count(t.sent, x) = Count(s.sent, x) + 1
                BY <1>1, <1>7, <1>b, <3>o
            <4> QED  BY <1>1, <1>6, <1>7, <2>1, <2>2, <3>1, <4>1 DEF FlowOk
        <3>2. CASE y # x
            <4>1. Count(t.sent, y) = Count(s.sent, y)
                BY <1>1, <1>7, <1>b, <3>o, <3>2
            <4> QED  BY <1>1, <1>6, <1>7, <2>1, <2>2, <3>2, <4>1 DEF FlowOk
        <3> QED  BY <3>1, <3>2
    <2> QED  BY <1>1, <1>7, <2>2 DEF FlowOk, LinkOk
<1> QED  BY <1>2, <1>8, <1>11, <1>12, ThreadStep

LEMMA ReaderEndsOk ==
    ASSUME SshInv, NEW c \in Channels, NEW x \in Streams, ReaderEnds(c, x)
    PROVE  SshInv'
<1> DEFINE s == sess[c]
           rs == [s.reader EXCEPT ![x] = "done"]
           n == s.done + 1
           u == [s EXCEPT !.reader = rs, !.done = n]
           msgs == IF s.kind = "pty" THEN <<Msg("eof")>> ELSE <<>>
           t == Send(c, u, msgs)
<1>1. /\ SessOk(s, proc[c], waited[c], code[c], c \in early)
      /\ FlowOk(s, Up(c)) /\ LinkOk(s, conn[ConnOf(c)])
      /\ s \in SessType /\ s.reader \in Readers /\ s.done \in Nat /\ s.sent \in Seq(MsgType)
    BY SessionFacts
<1>2. /\ s.reader[x] = "reading" /\ s.pipe[x] = 0 /\ proc[c] # "run"
      /\ UNCHANGED <<supVars, conn, exec>> /\ sess' = [sess EXCEPT ![c] = t]
    BY DEF ReaderEnds, Held, SshInv, SessType
<1>3. rs \in Readers /\ rs[x] = "done" /\ \A y \in Streams \ {x} : rs[y] = s.reader[y]
    BY <1>1 DEF Readers, ReaderStates
<1>4. msgs \in Seq(MsgType) /\ \A i \in DOMAIN msgs : msgs[i].kind = "eof"
    BY MsgFacts
<1>a. n \in Nat /\ n = s.done + 1
    BY <1>1
<1> HIDE DEF rs, n
<1>5. u \in SessType
    BY <1>1, <1>3, <1>a DEF SessType
<1>6. /\ u.st = s.st /\ u.kind = s.kind /\ u.exit = s.exit /\ u.reader = rs
      /\ u.done = n /\ u.timedout = s.timedout /\ u.sent = s.sent /\ u.wrote = s.wrote /\ u.pipe = s.pipe
    BY <1>1 DEF SessType
<1>7. t = Send(c, u, msgs)
    OBVIOUS
<1> HIDE DEF u, msgs, t
<1>8. /\ t \in SessType /\ t.sent = IF Open(c) THEN s.sent \o msgs ELSE s.sent
      /\ t.st = s.st /\ t.kind = s.kind /\ t.exit = s.exit /\ t.pipe = s.pipe
      /\ t.wrote = s.wrote /\ t.reader = rs /\ t.done = n /\ t.timedout = s.timedout
    <2>1. /\ t \in SessType /\ t.sent = IF Open(c) THEN u.sent \o msgs ELSE u.sent
          /\ t.st = u.st /\ t.kind = u.kind /\ t.exit = u.exit /\ t.pipe = u.pipe
          /\ t.wrote = u.wrote /\ t.reader = u.reader /\ t.done = u.done /\ t.timedout = u.timedout
        <3>1. msgs \in Seq(MsgType)
            BY <1>4
        <3>2. t.sent = IF Open(c) THEN u.sent \o msgs ELSE u.sent
            BY <1>5, <1>7, <3>1, SendFields
        <3> QED  BY <1>5, <1>7, <3>1, <3>2, SendFields
    <2> QED  BY <1>6, <2>1
<1>9. /\ s.exit # "none" /\ x \in StreamsOf(s.kind)
      /\ s.st \notin {"none", "requested", "forked"}
    BY <1>1, <1>2 DEF SessOk, ReadersOk, Blank
<1>10. ReadersOk(t, proc[c])
    <2>1. Done(rs) = Done(s.reader) + 1
        BY <1>2, <1>3 DEF Done, Streams
    <2>2. Done(s.reader) \in Nat
        BY DEF Done
    <2>3. ReadersOk(s, proc[c])
        BY <1>1 DEF SessOk
    <2>4. \A y \in Streams : /\ y = x => t.reader[y] = "done"
                             /\ y # x => t.reader[y] = s.reader[y]
        BY <1>3, <1>8
    <2>5. /\ \A y \in Streams : t.reader[y] = "done" => t.pipe[y] = 0 /\ proc[c] # "run"
          /\ \A y \in Streams \ StreamsOf(t.kind) : t.pipe[y] = 0 /\ t.reader[y] = "none"
          /\ \A y \in StreamsOf(t.kind) : t.reader[y] # "none"
        BY <1>2, <1>8, <1>9, <2>3, <2>4 DEF ReadersOk, StreamsOf, Streams
    <2>6. /\ t.exit \in {"none", "waiting", "first"} => t.done = Done(t.reader)
          /\ t.exit = "second" => t.kind # "pty" /\ (t.timedout \/ Done(t.reader) = t.done + 1)
          /\ t.exit \in {"status", "sent"} => t.timedout \/ Zeros(t.pipe)
        BY <1>1, <1>8, <1>a, <2>1, <2>2, <2>3 DEF ReadersOk
    <2> QED  BY <1>8, <1>9, <2>5, <2>6 DEF ReadersOk
<1>11. /\ \A y \in Streams : Count(t.sent, y) = Count(s.sent, y)
       /\ \A i \in DOMAIN s.sent : i \in DOMAIN t.sent /\ t.sent[i] = s.sent[i]
       /\ \A i \in DOMAIN t.sent : (i \in DOMAIN s.sent /\ t.sent[i] = s.sent[i]) \/ t.sent[i].kind = "eof"
    <2>1. CASE Open(c)
        <3>1. \A y \in Streams, i \in DOMAIN msgs : msgs[i].kind # y
            BY <1>4 DEF Streams
        <3>2. \A y \in Streams : Count(s.sent \o msgs, y) = Count(s.sent, y)
            BY <1>1, <1>4, <3>1, CountOthers
        <3> QED  BY <1>1, <1>4, <1>8, <2>1, <3>2, SentMore
    <2>2. CASE ~Open(c)
        BY <1>8, <2>2
    <2> QED  BY <2>1, <2>2
<1>12. MessagesOk(t, code[c], c \in early)
    BY <1>1, <1>8, <1>11 DEF SessOk, MessagesOk
<1>13. SessOk(t, proc[c], waited[c], code[c], c \in early)
    BY <1>1, <1>8, <1>9, <1>10, <1>12 DEF SessOk, WaiterOk
<1>14. FlowOk(t, Up(c)) /\ LinkOk(t, conn[ConnOf(c)])
    BY <1>1, <1>8, <1>11 DEF FlowOk, LinkOk
<1> QED  BY <1>2, <1>9, <1>13, <1>14, ThreadStep

\* The exit thread goes on after a reader, or when its wait runs out.
LEMMA RecvReaderDoneOk ==
    ASSUME SshInv, NEW c \in Channels, RecvReaderDone(c)
    PROVE  SshInv'
<1> DEFINE s == sess[c]
           exit == IF s.exit = "first" THEN AfterFirst(c) ELSE "status"
           done == IF s.done > 0 THEN s.done - 1 ELSE 0
           late == s.timedout \/ s.done = 0
           t == [s EXCEPT !.exit = exit, !.done = done, !.timedout = late]
<1>1. /\ SessOk(s, proc[c], waited[c], code[c], c \in early)
      /\ FlowOk(s, Up(c)) /\ LinkOk(s, conn[ConnOf(c)])
      /\ s \in SessType /\ s.reader \in Readers /\ s.done \in Nat /\ s.pipe \in Counters
    BY SessionFacts
<1>2. /\ s.exit \in {"first", "second"}
      /\ UNCHANGED <<supVars, conn, exec>> /\ sess' = [sess EXCEPT ![c] = t]
    BY DEF RecvReaderDone, SshInv, SessType
<1>3. exit \in {"second", "status"} /\ done \in Nat /\ late \in BOOLEAN
    BY <1>1 DEF AfterFirst
<1>4. t \in SessType
    BY <1>1, <1>3 DEF SessType, ExitStates
<1>5. /\ t.st = s.st /\ t.kind = s.kind /\ t.exit = exit /\ t.reader = s.reader
      /\ t.done = done /\ t.timedout = late /\ t.sent = s.sent /\ t.wrote = s.wrote /\ t.pipe = s.pipe
    BY <1>1 DEF SessType
<1>6. s.kind \in {"pipe", "pty"} /\ s.st \notin {"none", "requested", "forked"}
    BY <1>1, <1>2 DEF SessOk, Blank
<1>7. \A x \in Streams : s.reader[x] = "done" => s.pipe[x] = 0
    BY <1>1 DEF SessOk, ReadersOk
<1>9. /\ s.exit = "first" => s.done = Done(s.reader)
      /\ s.exit = "second" => s.kind # "pty" /\ (s.timedout \/ Done(s.reader) = s.done + 1)
    BY <1>1 DEF SessOk, ReadersOk
<1>10. ASSUME exit = "second"
       PROVE  s.kind # "pty" /\ (late \/ Done(s.reader) = done + 1)
    <2>1. s.exit = "first" /\ s.kind = "pipe" /\ s.done = Done(s.reader)
        BY <1>9, <1>10, <1>2 DEF AfterFirst
    <2> QED  BY <1>1, <1>2, <2>1
<1>11. ASSUME exit = "status", ~late PROVE Zeros(s.pipe)
    <2>0. s.done > 0 /\ ~s.timedout
        BY <1>1, <1>11
    <2>1. CASE s.exit = "first"
        <3>1. s.kind = "pty"
            BY <1>6, <1>11, <2>1 DEF AfterFirst
        <3>2. s.pipe["stderr"] = 0 /\ s.reader["stderr"] = "none"
            BY <1>1, <3>1 DEF SessOk, ReadersOk, StreamsOf, Streams
        <3>3. s.pipe["stdout"] = 0
            BY <1>7, <1>9, <2>0, <2>1, <3>2 DEF Done, Streams
        <3> QED  BY <3>2, <3>3 DEF Zeros, Streams
    <2>2. CASE s.exit = "second"
        <3>1. Done(s.reader) > 1
            BY <1>1, <1>9, <2>0, <2>2
        <3>2. s.reader["stdout"] = "done" /\ s.reader["stderr"] = "done"
            BY <3>1 DEF Done
        <3> QED  BY <1>7, <3>2 DEF Zeros, Streams
    <2> QED  BY <1>2, <2>1, <2>2
<1> HIDE DEF exit, done, late, t
<1>12. ReadersOk(t, proc[c])
    BY <1>1, <1>2, <1>3, <1>5, <1>10, <1>11 DEF SessOk, ReadersOk
<1>13. MessagesOk(t, code[c], c \in early) /\ WaiterOk(t, proc[c], waited[c], code[c], c \in early)
    BY <1>1, <1>2, <1>3, <1>5 DEF SessOk, MessagesOk, WaiterOk
<1>14. SessOk(t, proc[c], waited[c], code[c], c \in early)
    BY <1>1, <1>4, <1>5, <1>6, <1>12, <1>13 DEF SessOk
<1>15. FlowOk(t, Up(c)) /\ LinkOk(t, conn[ConnOf(c)])
    BY <1>1, <1>2, <1>5 DEF FlowOk, LinkOk
<1> QED  BY <1>2, <1>6, <1>14, <1>15, ThreadStep

LEMMA WaitChildOk ==
    ASSUME SshInv, NEW c \in Channels, WaitChild(c)
    PROVE  SshInv'
<1> DEFINE s == sess[c]
           t == [s EXCEPT !.exit = "first"]
<1>1. /\ SessOk(s, proc[c], waited[c], code[c], c \in early)
      /\ FlowOk(s, Up(c)) /\ LinkOk(s, conn[ConnOf(c)]) /\ s \in SessType
    BY SessionFacts
<1>2. /\ s.exit = "waiting" /\ Wait(c) /\ sess' = [sess EXCEPT ![c] = t]
      /\ UNCHANGED <<setup, sup, code, early, reaper, conn, exec>>
    BY DEF WaitChild, SshInv, SessType
<1>3. /\ ProcInv' /\ (\A d \in Channels \ {c} : Bystander(d)) /\ proc'[c] = "gone"
      /\ \/ c \in early /\ waited'[c] = Lost
         \/ waited'[c] = code[c] /\ code[c] \in setup.codes
    BY <1>2, WaitOk, PidFacts DEF SshInv
<1>4. t \in SessType
    BY <1>1 DEF SessType, ExitStates
<1>5. /\ t.st = s.st /\ t.kind = s.kind /\ t.exit = "first" /\ t.reader = s.reader
      /\ t.done = s.done /\ t.timedout = s.timedout /\ t.sent = s.sent /\ t.wrote = s.wrote /\ t.pipe = s.pipe
    BY <1>1 DEF SessType
<1>6. setup \in Setups
    BY DEF SshInv, ProcInv
<1>7. WaiterOk(t, proc'[c], waited'[c], code'[c], c \in early')
    BY <1>2, <1>3, <1>5, <1>6, SetupFacts DEF WaiterOk
<1>8. ReadersOk(t, proc'[c]) /\ MessagesOk(t, code'[c], c \in early')
    BY <1>1, <1>2, <1>3, <1>5 DEF SessOk, ReadersOk, MessagesOk
<1>9. SessOk(t, proc'[c], waited'[c], code'[c], c \in early')
    BY <1>1, <1>2, <1>4, <1>5, <1>7, <1>8 DEF SessOk, Blank
<1>10. FlowOk(t, Up(c)) /\ LinkOk(t, conn[ConnOf(c)])
    BY <1>1, <1>2, <1>5 DEF FlowOk, LinkOk
<1>11. /\ sess' = [d \in Channels |-> sess'[d]] /\ sess'[c] = t
       /\ \A d \in Channels \ {c} : sess'[d] = sess[d]
    BY <1>2 DEF SshInv
<1>12. SessionOk(c)'
    <2>1. Up(c)' = Up(c) /\ conn'[ConnOf(c)'] = conn[ConnOf(c)]
        BY <1>2 DEF Up, ConnOf
    <2> QED  BY <1>9, <1>10, <1>11, <2>1 DEF SessionOk
<1>13. \A d \in Channels \ {c} : SessionOk(d)'
    BY <1>2, <1>3, <1>11, OtherSession
<1>14. ExecInv' /\ ConnInv'
    <2>1. \A d \in Channels : sess'[d].st = sess[d].st
        BY <1>5, <1>11
    <2> QED  BY <1>2, <1>6, <2>1, ExecFrame DEF SshInv, ConnInv
<1> QED  BY <1>3, <1>11, <1>12, <1>13, <1>14, Rebuilt

\* The last messages of a session.
LastMessages(kind, status) ==
    (IF kind = "pipe" THEN <<Msg("eof")>> ELSE <<>>)
      \o <<[kind |-> "exit", code |-> status], Msg("close")>>

LEMMA LastMessagesFacts ==
    ASSUME NEW kind, NEW status \in Codes, NEW msgs, msgs = LastMessages(kind, status)
    PROVE  /\ msgs \in Seq(MsgType)
           /\ \A i \in DOMAIN msgs : msgs[i].kind \notin Streams
           /\ \A i \in DOMAIN msgs : msgs[i].kind = "exit" => msgs[i].code = status
           /\ \E i \in DOMAIN msgs : msgs[i].kind = "exit"
<1> DEFINE e == [kind |-> "exit", code |-> status]
           two == <<e, Msg("close")>>
<1>1. e \in MsgType /\ e.kind = "exit" /\ e.code = status
    BY DEF MsgType
<1>2. /\ Msg("eof") \in MsgType /\ Msg("eof").kind = "eof"
      /\ Msg("close") \in MsgType /\ Msg("close").kind = "close"
    BY MsgFacts
<1>3. msgs = (IF kind = "pipe" THEN <<Msg("eof")>> ELSE <<>>) \o two
    BY DEF LastMessages
<1> HIDE DEF e
<1>4. two \in Seq(MsgType) /\ Len(two) = 2 /\ two[1] = e /\ two[2] = Msg("close")
    BY <1>1, <1>2
<1> HIDE DEF two
<1>5. CASE kind = "pipe"
    <2> DEFINE one == <<Msg("eof")>>
    <2>1. msgs = one \o two /\ one \in Seq(MsgType) /\ Len(one) = 1 /\ one[1] = Msg("eof")
        BY <1>2, <1>3, <1>5
    <2> HIDE DEF one
    <2>2. /\ msgs \in Seq(MsgType) /\ DOMAIN msgs = 1 .. 3
          /\ msgs[1] = Msg("eof") /\ msgs[2] = e /\ msgs[3] = Msg("close")
        <3>1. 1 \in DOMAIN one /\ 1 \in DOMAIN two /\ 2 \in DOMAIN two
            BY <1>4, <2>1
        <3>2. msgs \in Seq(MsgType) /\ DOMAIN msgs = 1 .. 3 /\ msgs[1] = Msg("eof")
            <4>1. /\ msgs \in Seq(MsgType) /\ DOMAIN msgs = 1 .. Len(one) + Len(two)
                  /\ msgs[1] = one[1]
                <5>1. one \in Seq(MsgType) /\ two \in Seq(MsgType) /\ 1 \in DOMAIN one
                    BY <1>4, <2>1, <3>1
                <5>2. /\ one \o two \in Seq(MsgType) /\ DOMAIN (one \o two) = 1 .. Len(one) + Len(two)
                      /\ (one \o two)[1] = one[1]
                    BY <5>1, SentMore
                <5> QED  BY <2>1, <5>2
            <4>2. Len(one) + Len(two) = 3
                BY <1>4, <2>1
            <4> QED  BY <2>1, <4>1, <4>2
        <3>3. msgs[Len(one) + 1] = e /\ msgs[Len(one) + 2] = Msg("close")
            BY <1>4, <2>1, <3>1, SentLast
        <3> QED  BY <2>1, <3>2, <3>3
    <2> QED  BY <1>1, <1>2, <2>2 DEF Streams
<1>6. CASE kind # "pipe"
    <2>1. msgs = <<>> \o two
        BY <1>3, <1>6
    <2>2. /\ msgs \in Seq(MsgType) /\ DOMAIN msgs = 1 .. 2
          /\ msgs[1] = e /\ msgs[2] = Msg("close")
        BY <1>4, <2>1
    <2> QED  BY <1>1, <1>2, <2>2 DEF Streams
<1> QED  BY <1>5, <1>6

LEMMA SendExitStatusOk ==
    ASSUME SshInv, NEW c \in Channels, SendExitStatus(c)
    PROVE  SshInv'
<1> DEFINE s == sess[c]
           u == [s EXCEPT !.exit = "sent", !.st = "end"]
           msgs == LastMessages(s.kind, ExitStatus(c))
           t == Send(c, u, msgs)
<1>1. /\ SessOk(s, proc[c], waited[c], code[c], c \in early)
      /\ FlowOk(s, Up(c)) /\ LinkOk(s, conn[ConnOf(c)])
      /\ s \in SessType /\ s.sent \in Seq(MsgType) /\ s.pipe \in Counters /\ s.wrote \in Counters
    BY SessionFacts
<1>2. /\ s.exit = "status" /\ UNCHANGED <<supVars, conn, exec>>
      /\ sess' = [sess EXCEPT ![c] = t]
    BY DEF SendExitStatus, LastMessages, SshInv, SessType
<1>3. /\ waited[c] # None /\ ExitStatus(c) \in Codes
      /\ (c \in early /\ ExitStatus(c) = 1) \/ ExitStatus(c) = code[c]
    <2>1. setup \in Setups
        BY DEF SshInv, ProcInv
    <2>2. WaiterOk(s, proc[c], waited[c], code[c], c \in early)
        BY <1>1 DEF SessOk
    <2> QED  BY <1>2, <2>1, <2>2, SetupFacts DEF WaiterOk, ExitStatus, Codes
<1>4. /\ msgs \in Seq(MsgType)
      /\ \A i \in DOMAIN msgs : msgs[i].kind \notin Streams
      /\ \A i \in DOMAIN msgs : msgs[i].kind = "exit" => msgs[i].code = ExitStatus(c)
      /\ \E i \in DOMAIN msgs : msgs[i].kind = "exit"
    BY <1>3, LastMessagesFacts
<1>5. u \in SessType
    BY <1>1 DEF SessType, ExitStates, SessStates
<1>6. /\ u.st = "end" /\ u.kind = s.kind /\ u.exit = "sent" /\ u.reader = s.reader
      /\ u.done = s.done /\ u.timedout = s.timedout /\ u.sent = s.sent /\ u.wrote = s.wrote /\ u.pipe = s.pipe
    BY <1>1 DEF SessType
<1>7. t = Send(c, u, msgs)
    OBVIOUS
<1> HIDE DEF u, msgs, t
<1>8. /\ t \in SessType /\ t.sent = IF Open(c) THEN s.sent \o msgs ELSE s.sent
      /\ t.st = "end" /\ t.kind = s.kind /\ t.exit = "sent" /\ t.pipe = s.pipe
      /\ t.wrote = s.wrote /\ t.reader = s.reader /\ t.done = s.done /\ t.timedout = s.timedout
    <2>1. msgs \in Seq(MsgType)
        BY <1>4
    <2>2. t.sent = IF Open(c) THEN u.sent \o msgs ELSE u.sent
        BY <1>5, <1>7, <2>1, SendFields
    <2>3. /\ t \in SessType
          /\ t.st = u.st /\ t.kind = u.kind /\ t.exit = u.exit /\ t.pipe = u.pipe
          /\ t.wrote = u.wrote /\ t.reader = u.reader /\ t.done = u.done /\ t.timedout = u.timedout
        BY <1>5, <1>7, <2>1, <2>2, SendFields
    <2> QED  BY <1>6, <2>2, <2>3
<1>9. (s.timedout \/ Zeros(s.pipe)) /\ s.st \notin {"none", "requested", "forked"} /\ s.kind \in {"pipe", "pty"}
    BY <1>1, <1>2 DEF SessOk, ReadersOk, Blank
<1>10. ReadersOk(t, proc[c]) /\ WaiterOk(t, proc[c], waited[c], code[c], c \in early)
    BY <1>1, <1>2, <1>8, <1>9 DEF SessOk, ReadersOk, WaiterOk
<1>11. \A i \in DOMAIN s.sent : s.sent[i].kind # "exit" /\ (s.sent[i].kind = "close" => s.kind = None)
    BY <1>1, <1>2 DEF SessOk, MessagesOk
<1>12. MessagesOk(t, code[c], c \in early) /\ FlowOk(t, Up(c))
    <2>1. CASE ~Open(c)
        BY <1>8, <1>9, <1>11, <2>1 DEF MessagesOk, FlowOk
    <2>2. CASE Open(c)
        <3>1. \A y \in Streams : Count(s.sent \o msgs, y) = Count(s.sent, y)
            BY <1>1, <1>4, CountOthers
        <3>2. \A y \in Streams : Count(t.sent, y) = Count(s.sent, y)
            BY <1>8, <2>2, <3>1
        <3>3. \A y \in Streams : Count(s.sent, y) \in Nat /\ s.pipe[y] \in Nat /\ s.wrote[y] \in Nat
            BY <1>1, PlacesFinite DEF Counters
        <3>4. t.timedout \/ \A y \in Streams : Count(t.sent, y) = t.wrote[y]
            BY <1>1, <1>2, <1>8, <1>9, <2>2, <3>2, <3>3 DEF FlowOk, Zeros, Open
        <3>5. t.sent = s.sent \o msgs
            BY <1>8, <2>2
        <3>6. \A i \in DOMAIN t.sent : \/ i \in DOMAIN s.sent /\ t.sent[i] = s.sent[i]
                                       \/ i - Len(s.sent) \in DOMAIN msgs /\ t.sent[i] = msgs[i - Len(s.sent)]
            BY <1>1, <1>4, <3>5, SentMore
        <3>7. \A i \in DOMAIN t.sent : t.sent[i].kind = "exit" =>
                 (c \in early /\ t.sent[i].code = 1) \/ t.sent[i].code = code[c]
            BY <1>3, <1>4, <1>11, <3>6
        <3>8. \E j \in DOMAIN t.sent : t.sent[j].kind = "exit"
            <4>1. PICK i \in DOMAIN msgs : msgs[i].kind = "exit"
                BY <1>4
            <4>2. Len(s.sent) + i \in DOMAIN t.sent /\ t.sent[Len(s.sent) + i] = msgs[i]
                BY <1>1, <1>4, <3>5, SentLast
            <4> QED  BY <4>1, <4>2
        <3> QED  BY <1>1, <1>8, <3>2, <3>4, <3>7, <3>8 DEF MessagesOk, FlowOk
    <2> QED  BY <2>1, <2>2
<1>13. SessOk(t, proc[c], waited[c], code[c], c \in early)
    BY <1>8, <1>9, <1>10, <1>12 DEF SessOk
<1>14. LinkOk(t, conn[ConnOf(c)])
    BY <1>1, <1>8, <1>9 DEF LinkOk
<1> QED  BY <1>2, <1>9, <1>12, <1>13, <1>14, ThreadStep

-------------------------------------------------------------------------------
(* Channel requests. *)

\* What CanOpen gives.
LEMMA CanOpenFacts ==
    ASSUME SshInv, NEW c \in Channels, CanOpen(c)
    PROVE  /\ Blank(sess[c]) /\ proc[c] = "none" /\ sess[c].st = "none"
           /\ conn[ConnOf(c)].st = "up" /\ setup.attempts = <<>> /\ Up(c)
<1>1. SessOk(sess[c], proc[c], waited[c], code[c], c \in early)
    BY SessionFacts
<1> QED  BY <1>1 DEF CanOpen, SessOk, Up

\* A session that ends before it began.
LEMMA EndedOk ==
    ASSUME SshInv, NEW c \in Channels, sess[c].st \in {"none", "requested"}, NEW t,
           t \in {[sess[c] EXCEPT !.st = "end"], [sess[c] EXCEPT !.st = "forwarding"]}
    PROVE  /\ SessOk(t, proc[c], waited[c], code[c], c \in early)
           /\ t.st # "none" /\ t \in SessType /\ t.kind = None /\ t.sent = <<>>
           /\ \A up : FlowOk(t, up)
<1> DEFINE s == sess[c]
<1>1. SessOk(s, proc[c], waited[c], code[c], c \in early) /\ s \in SessType
    BY SessionFacts
<1>2. t \in SessType
    BY <1>1 DEF SessType, SessStates
<1>3. /\ t.st \in {"end", "forwarding"} /\ t.kind = s.kind /\ t.exit = s.exit /\ t.reader = s.reader
      /\ t.done = s.done /\ t.timedout = s.timedout /\ t.sent = s.sent /\ t.wrote = s.wrote /\ t.pipe = s.pipe
    BY <1>1 DEF SessType
<1>4. Blank(s) /\ Blank(t)
    BY <1>1, <1>3 DEF SessOk, Blank
<1>5. SessOk(t, proc[c], waited[c], code[c], c \in early)
    BY <1>1, <1>2, <1>3, <1>4 DEF SessOk, ReadersOk, WaiterOk, MessagesOk
<1> QED  BY <1>2, <1>3, <1>4, <1>5, BlankFlow DEF Blank

LEMMA NothingToRunOk ==
    ASSUME SshInv, NEW c \in Channels, NothingToRun(c)
    PROVE  SshInv'
<1> DEFINE t == [sess[c] EXCEPT !.st = "end"]
<1>1. CanOpen(c) /\ UNCHANGED <<supVars, conn, exec>> /\ sess' = [sess EXCEPT ![c] = t]
    BY DEF NothingToRun, SshInv
<1>2. Blank(sess[c]) /\ sess[c].st = "none" /\ conn[ConnOf(c)].st = "up" /\ setup.attempts = <<>>
    BY <1>1, CanOpenFacts
<1>3. SessOk(t, proc[c], waited[c], code[c], c \in early) /\ FlowOk(t, Up(c))
    BY <1>2, EndedOk
<1>4. LinkOk(t, conn[ConnOf(c)])
    BY <1>2 DEF LinkOk
<1> QED  BY <1>1, <1>2, <1>3, <1>4, ThreadStep

LEMMA DirectTcpipOk ==
    ASSUME SshInv, NEW c \in Channels, channel_open_direct_tcpip(c)
    PROVE  SshInv'
<1>1. CanOpen(c) /\ UNCHANGED <<supVars, conn, exec>>
    BY DEF channel_open_direct_tcpip
<1>2. /\ Blank(sess[c]) /\ proc[c] = "none" /\ sess[c].st = "none"
      /\ conn[ConnOf(c)].st = "up" /\ setup.attempts = <<>> /\ Up(c)
    BY <1>1, CanOpenFacts
<1>3. CASE sess' = [sess EXCEPT ![c].st = "forwarding"]
    <2> DEFINE t == [sess[c] EXCEPT !.st = "forwarding"]
    <2>1. sess' = [sess EXCEPT ![c] = t]
        BY <1>3 DEF SshInv
    <2>2. SessOk(t, proc[c], waited[c], code[c], c \in early) /\ FlowOk(t, Up(c))
        BY <1>2, EndedOk
    <2>3. LinkOk(t, conn[ConnOf(c)])
        BY <1>2 DEF LinkOk
    <2> QED  BY <1>1, <1>2, <2>1, <2>2, <2>3, ThreadStep
<1>4. CASE sess' = [sess EXCEPT ![c] = Send(c, [@ EXCEPT !.st = "end"], <<Msg("close")>>)]
    <2> DEFINE u == [sess[c] EXCEPT !.st = "end"]
               msgs == <<Msg("close")>>
               t == Send(c, u, msgs)
    <2>1. sess' = [sess EXCEPT ![c] = t]
        BY <1>4 DEF SshInv
    <2>2. /\ SessOk(u, proc[c], waited[c], code[c], c \in early)
          /\ u \in SessType /\ u.st # "none" /\ u.kind = None /\ u.sent = <<>> /\ FlowOk(u, Up(c))
        BY <1>2, EndedOk
    <2>3. msgs \in Seq(MsgType)
        BY MsgFacts
    <2>4. /\ t = Send(c, u, msgs) /\ u.st = "end"
          /\ \A i \in DOMAIN msgs : msgs[i].kind = "close"
        BY <2>2, MsgFacts DEF SessType
    <2> HIDE DEF u, msgs, t
    <2>a. u \in SessType /\ t = Send(c, u, msgs) /\ u.sent \in Seq(MsgType)
        BY <2>2, <2>4
    <2>5. t.sent = IF Open(c) THEN u.sent \o msgs ELSE u.sent
        BY <2>3, <2>a, SendFields
    <2>6. /\ t \in SessType
          /\ t.st = u.st /\ t.kind = u.kind /\ t.exit = u.exit /\ t.pipe = u.pipe
          /\ t.wrote = u.wrote /\ t.reader = u.reader /\ t.done = u.done /\ t.timedout = u.timedout
        BY <2>3, <2>a, <2>5, SendFields
    <2>7. t.sent = u.sent \o msgs /\ \A x \in Streams, i \in DOMAIN msgs : msgs[i].kind # x
        BY <1>2, <2>4, <2>5 DEF Streams, Open, Closed, Blank
    <2>8. /\ \A x \in Streams : Count(t.sent, x) = Count(u.sent, x)
          /\ \A i \in DOMAIN t.sent : (i \in DOMAIN u.sent /\ t.sent[i] = u.sent[i]) \/ t.sent[i].kind = "close"
        BY <2>3, <2>4, <2>a, <2>7, CountOthers, SentMore
    <2>9. MessagesOk(t, code[c], c \in early)
        BY <2>2, <2>6, <2>8 DEF MessagesOk
    <2>10. SessOk(t, proc[c], waited[c], code[c], c \in early)
        BY <2>2, <2>4, <2>6, <2>9 DEF SessOk, ReadersOk, WaiterOk
    <2>11. FlowOk(t, Up(c)) /\ LinkOk(t, conn[ConnOf(c)])
        BY <1>2, <2>2, <2>6, <2>8 DEF FlowOk, LinkOk
    <2> QED  BY <1>1, <1>2, <2>1, <2>10, <2>11, ThreadStep
<1> QED  BY <1>3, <1>4 DEF channel_open_direct_tcpip

-------------------------------------------------------------------------------
(* Connections. *)

Touched(s) == {s, [s EXCEPT !.stdin = "closed"], [s EXCEPT !.resized = TRUE]}
ConnMoves(k) == \/ conn'[k].st = conn[k].st
                \/ conn[k].st # "none" /\ conn'[k].st = "down"

LEMMA ConnKept ==
    ASSUME ConnInv, NEW k \in Conns, NEW r, "st" \in DOMAIN r, conn' = [conn EXCEPT ![k] = r]
    PROVE  ConnInv' /\ conn'[k] = r /\ \A j \in Conns \ {k} : conn'[j] = conn[j]
BY DEF ConnInv

LEMMA CloseInputFacts ==
    ASSUME NEW k, NEW s, NEW closed, closed = CloseInput(k, s)
    PROVE  /\ closed = [d \in Channels |-> closed[d]]
           /\ \A d \in Channels : closed[d] \in {s[d], [s[d] EXCEPT !.stdin = "closed"]}
BY DEF CloseInput

\* A step that begins and ends no session.
LEMMA SessionsKept ==
    ASSUME SshInv, ProcInv', ConnInv', ExecInv', setup' = setup,
           \A d \in Channels : Bystander(d),
           sess' = [d \in Channels |-> sess'[d]],
           \A d \in Channels : sess'[d] \in Touched(sess[d]),
           \A k \in Conns : ConnMoves(k)
    PROVE  SshInv'
<1>1. ASSUME NEW d \in Channels PROVE SessionOk(d)'
    <2>1. setup \in Setups
        BY DEF SshInv, ProcInv
    <2>2. ConnOf(d) \in Conns
        BY <2>1, SetupFacts
    <2>3. ConnMoves(ConnOf(d)) /\ Bystander(d) /\ sess'[d] \in Touched(sess[d])
        BY <2>2
    <2> QED  BY <2>3, OtherSession DEF ConnMoves, Touched
<1> QED  BY <1>1 DEF SshInv

LEMMA TouchedState ==
    ASSUME SshInv, NEW d \in Channels, NEW t, t \in Touched(sess[d])
    PROVE  t.st = sess[d].st
BY SessionFacts DEF Touched, SessType

\* The same without a step of the supervisor or of the gateway.
LEMMA ClientStep ==
    ASSUME SshInv, ConnInv', UNCHANGED <<supVars, exec>>,
           sess' = [d \in Channels |-> sess'[d]],
           \A d \in Channels : sess'[d] \in Touched(sess[d]),
           \A k \in Conns : ConnMoves(k)
    PROVE  SshInv'
<1>1. ProcInv' /\ \A d \in Channels : Bystander(d)
    BY ProcQuiet DEF SshInv, supVars
<1>2. \A d \in Channels : sess'[d].st = sess[d].st
    BY TouchedState
<1>3. setup' = setup /\ setup \in Setups
    BY DEF SshInv, ProcInv, supVars
<1>4. ExecInv'
    BY <1>2, <1>3, ExecFrame DEF SshInv
<1> QED  BY <1>1, <1>3, <1>4, SessionsKept

LEMMA QuietOk ==
    ASSUME SshInv, UNCHANGED <<supVars, conn, sess, exec>>
    PROVE  SshInv'
<1>1. /\ ConnInv' /\ sess' = [d \in Channels |-> sess'[d]]
      /\ \A d \in Channels : sess'[d] \in Touched(sess[d])
      /\ \A k \in Conns : ConnMoves(k)
    BY DEF SshInv, ConnInv, Touched, ConnMoves
<1> QED  BY <1>1, ClientStep

\* A step of the supervisor.
LEMMA SupStepOk ==
    ASSUME SshInv, SupNext, UNCHANGED sshVars, setup' = setup
    PROVE  SshInv'
<1>1. ProcInv' /\ \A d \in Channels : Bystander(d)
    BY SupNextOk DEF SshInv
<1>2. /\ ConnInv' /\ sess' = [d \in Channels |-> sess'[d]]
      /\ \A d \in Channels : sess'[d] \in Touched(sess[d])
      /\ \A k \in Conns : ConnMoves(k)
      /\ ExecInv'
    BY DEF SshInv, ConnInv, ExecInv, Touched, ConnMoves, sshVars
<1> QED  BY <1>1, <1>2, SessionsKept

LEMMA SetupKept ==
    ASSUME SupNext
    PROVE  setup' = setup
BY DEF SupNext, Startup, validate_sandbox_user, prepare_filesystem, GenerateCa, create,
       install_bypass_rules, build_inference_context, StartProxy, SpawnMonitor, StartSsh, SpawnEntry,
       RegisterEntry, Step, Exit, DaemonStarts, ProcessExits, wait, ReturnStatus, kill,
       ReaperStep, Sigchld, PeekZombie, CheckZombie, Reap, RetryTick

\* A new connection: no channel of it has begun.
LEMMA HandleConnectionOk ==
    ASSUME SshInv, NEW k \in Conns, handle_connection(k), UNCHANGED <<supVars, sess>>, ExecInv'
    PROVE  SshInv'
<1>1. /\ conn[k].st = "none"
      /\ \/ conn' = [conn EXCEPT ![k].st = "up"]
         \/ conn' = [conn EXCEPT ![k].st = "refused"]
    BY DEF handle_connection
<1>2. PICK r : conn' = [conn EXCEPT ![k] = r] /\ "st" \in DOMAIN r
    BY <1>1 DEF SshInv, ConnInv
<1>3. ConnInv' /\ \A j \in Conns \ {k} : conn'[j] = conn[j]
    BY <1>2, ConnKept DEF SshInv
<1>4. ProcInv' /\ (\A d \in Channels : Bystander(d)) /\ setup \in Setups
    BY ProcQuiet DEF SshInv, ProcInv, supVars
<1>5. ASSUME NEW d \in Channels PROVE SessionOk(d)'
    <2>1. ConnOf(d) \in Conns /\ ConnOf(d)' = ConnOf(d)
        BY <1>4, SetupFacts DEF ConnOf, supVars
    <2>2. CASE ConnOf(d) # k
        BY <1>3, <1>4, <2>1, <2>2, OtherSession DEF supVars
    <2>3. CASE ConnOf(d) = k
        <3>1. SessOk(sess[d], proc[d], waited[d], code[d], d \in early) /\ sess[d].st = "none"
            BY <1>1, <2>3, SessionFacts DEF LinkOk
        <3>2. FlowOk(sess[d], Up(d)')
            BY <3>1, BlankFlow DEF SessOk
        <3>3. LinkOk(sess[d], conn'[ConnOf(d)'])
            BY <3>1 DEF LinkOk
        <3> QED  BY <3>1, <3>2, <3>3 DEF SessionOk, supVars
    <2> QED  BY <2>2, <2>3
<1> QED  BY <1>3, <1>4, <1>5 DEF SshInv

LEMMA ConnectOk ==
    ASSUME SshInv, NEW k \in Conns, Connect(k)
    PROVE  SshInv'
<1>1. handle_connection(k) /\ UNCHANGED <<supVars, sess, exec>>
    BY DEF Connect
<1>2. ExecInv'
    BY <1>1, ExecFrame DEF SshInv, ProcInv, supVars
<1> QED  BY <1>1, <1>2, HandleConnectionOk

\* The end of a connection.
LEMMA DisconnectOk ==
    ASSUME SshInv, NEW k \in Conns, Disconnect(k), conn[k].st # "none"
    PROVE  /\ ConnInv' /\ sess' = [d \in Channels |-> sess'[d]]
           /\ \A d \in Channels : sess'[d] \in Touched(sess[d])
           /\ \A j \in Conns : ConnMoves(j)
<1> DEFINE r == [conn[k] EXCEPT !.st = "down", !.input = None, !.master = None]
<1>1. conn' = [conn EXCEPT ![k] = r] /\ sess' = CloseInput(k, sess)
    BY DEF Disconnect
<1>2. "st" \in DOMAIN r /\ r.st = "down"
    BY DEF SshInv, ConnInv
<1>3. /\ sess' = [d \in Channels |-> sess'[d]]
      /\ \A d \in Channels : sess'[d] \in Touched(sess[d])
    BY <1>1, CloseInputFacts DEF Touched
<1> HIDE DEF r
<1>4. ConnInv' /\ conn'[k] = r /\ \A j \in Conns \ {k} : conn'[j] = conn[j]
    BY <1>1, <1>2, ConnKept DEF SshInv
<1> QED  BY <1>2, <1>3, <1>4 DEF ConnMoves

LEMMA ConnectionLostOk ==
    ASSUME SshInv, NEW k \in Conns, ConnectionLost(k)
    PROVE  SshInv'
<1>1. conn[k].st # "none" /\ Disconnect(k) /\ UNCHANGED <<supVars, exec>>
    BY DEF ConnectionLost
<1> QED  BY <1>1, DisconnectOk, ClientStep

LEMMA ClientOf ==
    ASSUME SshInv, NEW c \in Channels
    PROVE  ConnOf(c) \in Conns /\ setup \in Setups
BY SetupFacts DEF SshInv, ProcInv

LEMMA PtyRequestOk ==
    ASSUME SshInv, NEW c \in Channels, pty_request(c)
    PROVE  SshInv'
<1> DEFINE k == ConnOf(c)
           r == [conn[k] EXCEPT !.pty = TRUE]
<1>1. conn' = [conn EXCEPT ![k] = r] /\ UNCHANGED <<supVars, sess, exec>>
    BY ClientOf DEF pty_request, SshInv, ConnInv
<1>2. "st" \in DOMAIN r /\ r.st = conn[k].st /\ k \in Conns
    BY ClientOf DEF SshInv, ConnInv
<1> HIDE DEF r, k
<1>3. ConnInv' /\ \A j \in Conns : ConnMoves(j)
    BY <1>1, <1>2, ConnKept DEF SshInv, ConnMoves
<1>4. sess' = [d \in Channels |-> sess'[d]] /\ \A d \in Channels : sess'[d] \in Touched(sess[d])
    BY <1>1 DEF SshInv, Touched
<1> QED  BY <1>1, <1>3, <1>4, ClientStep

LEMMA WindowChangeOk ==
    ASSUME SshInv, NEW c \in Channels, window_change_request(c)
    PROVE  SshInv'
<1> DEFINE t == conn[ConnOf(c)].master
<1>1. sess' = [sess EXCEPT ![t].resized = TRUE] /\ UNCHANGED <<supVars, conn, exec>>
    BY DEF window_change_request
<1>2. sess' = [d \in Channels |-> sess'[d]] /\ \A d \in Channels : sess'[d] \in Touched(sess[d])
    BY <1>1 DEF SshInv, Touched
<1>3. ConnInv' /\ \A j \in Conns : ConnMoves(j)
    BY <1>1 DEF SshInv, ConnInv, ConnMoves
<1> QED  BY <1>1, <1>2, <1>3, ClientStep

\* The sender of the input is dropped, with or without its connection.
LEMMA InputDropped ==
    ASSUME SshInv, NEW k \in Conns, conn' = [conn EXCEPT ![k].input = None],
           sess' = CloseInput(k, sess)
    PROVE  /\ ConnInv' /\ sess' = [d \in Channels |-> sess'[d]]
           /\ \A d \in Channels : sess'[d] \in Touched(sess[d])
           /\ \A j \in Conns : ConnMoves(j)
<1> DEFINE r == [conn[k] EXCEPT !.input = None]
<1>1. conn' = [conn EXCEPT ![k] = r]
    BY DEF SshInv, ConnInv
<1>2. "st" \in DOMAIN r /\ r.st = conn[k].st
    BY DEF SshInv, ConnInv
<1>3. /\ sess' = [d \in Channels |-> sess'[d]]
      /\ \A d \in Channels : sess'[d] \in Touched(sess[d])
    BY CloseInputFacts DEF Touched
<1> HIDE DEF r
<1>4. ConnInv' /\ \A j \in Conns : ConnMoves(j)
    BY <1>1, <1>2, ConnKept DEF SshInv, ConnMoves
<1> QED  BY <1>3, <1>4

LEMMA ChannelEofOk ==
    ASSUME SshInv, NEW c \in Channels, channel_eof(c)
    PROVE  SshInv'
<1>1. /\ conn' = [conn EXCEPT ![ConnOf(c)].input = None]
      /\ sess' = CloseInput(ConnOf(c), sess) /\ UNCHANGED <<supVars, exec>>
    BY DEF channel_eof
<1> QED  BY <1>1, ClientOf, InputDropped, ClientStep

-------------------------------------------------------------------------------
(* The start of a command. *)

\* start_shell runs for a channel that has done nothing yet.
LEMMA StartFacts ==
    ASSUME SshInv, NEW c \in Channels, start_shell(c)
    PROVE  /\ sess[c].st \in {"none", "requested"} /\ Blank(sess[c]) /\ proc[c] = "none"
           /\ sess[c].st = "none" => setup.attempts = <<>>
           /\ conn[ConnOf(c)].st \in {"up", "down"} /\ waited[c] = None
<1>1. /\ SessOk(sess[c], proc[c], waited[c], code[c], c \in early)
      /\ LinkOk(sess[c], conn[ConnOf(c)])
    BY SessionFacts
<1>2. \/ CanOpen(c)
      \/ sess[c].st = "requested"
    BY DEF start_shell
<1>3. CASE CanOpen(c)
    BY <1>1, <1>3, CanOpenFacts DEF SessOk, WaiterOk
<1>4. CASE sess[c].st = "requested"
    BY <1>1, <1>4 DEF SessOk, LinkOk, WaiterOk
<1> QED  BY <1>2, <1>3, <1>4

LEMMA ForkOk ==
    ASSUME SshInv, NEW c \in Channels, start_shell(c), Fork(c)
    PROVE  SshInv'
<1> DEFINE s == sess[c]
           k == ConnOf(c)
           kind == IF conn[k].pty THEN "pty" ELSE "pipe"
           t == [s EXCEPT !.st = "forked", !.kind = kind]
           r == [conn[k] EXCEPT !.pty = FALSE]
<1>1. /\ s.st \in {"none", "requested"} /\ Blank(s) /\ proc[c] = "none"
      /\ s.st = "none" => setup.attempts = <<>>
      /\ conn[k].st \in {"up", "down"} /\ waited[c] = None
    BY StartFacts
<1>2. /\ SessOk(s, proc[c], waited[c], code[c], c \in early) /\ s \in SessType
      /\ k \in Conns /\ setup \in Setups
    BY SessionFacts, ClientOf
<1>3. /\ sess' = [sess EXCEPT ![c] = t] /\ conn' = [conn EXCEPT ![k] = r]
      /\ proc' = [proc EXCEPT ![c] = "run"]
      /\ UNCHANGED <<setup, sup, code, managed, waited, early, reaper, exec>>
    BY <1>2 DEF Fork, SshInv, ConnInv
<1>4. "st" \in DOMAIN r /\ r.st = conn[k].st
    BY <1>2 DEF SshInv, ConnInv
<1>5. kind \in {"pipe", "pty"}
    OBVIOUS
<1> HIDE DEF kind
<1>6. t \in SessType
    BY <1>2, <1>5 DEF SessType, SessStates, Kinds
<1>7. /\ t.st = "forked" /\ t.kind = kind /\ t.exit = s.exit /\ t.reader = s.reader
      /\ t.done = s.done /\ t.timedout = s.timedout /\ t.sent = s.sent /\ t.wrote = s.wrote /\ t.pipe = s.pipe
    BY <1>2 DEF SessType
<1> HIDE DEF t, r
<1>8. /\ proc' \in [Pids -> ProcStates] /\ proc'[c] = "run"
      /\ \A p \in Pids \ {c} : proc'[p] = proc[p]
    BY <1>3, PidFacts DEF SshInv, ProcInv, ProcStates
<1>9. ProcInv'
    <2>1. \A d \in Channels : ProcOk(d)'
        BY <1>3, <1>8, PidFacts DEF SshInv, ProcInv, ProcOk, Alive
    <2>2. ReaperOk'
        BY <1>1, <1>3, <1>8, PidFacts DEF SshInv, ProcInv, ReaperOk
    <2> QED  BY <1>3, <1>8, <2>1, <2>2 DEF SshInv, ProcInv
<1>10. \A d \in Channels \ {c} : Bystander(d)
    BY <1>3, <1>8, PidFacts DEF Bystander
<1>11. ConnInv' /\ \A j \in Conns : conn'[j].st = conn[j].st
    BY <1>2, <1>3, <1>4, ConnKept DEF SshInv
<1>12. /\ sess' = [d \in Channels |-> sess'[d]] /\ sess'[c] = t
       /\ \A d \in Channels \ {c} : sess'[d] = sess[d]
    BY <1>3 DEF SshInv
<1>13. \A d \in Channels \ {c} : SessionOk(d)'
    BY <1>2, <1>3, <1>10, <1>11, <1>12, SetupFacts, OtherSession
<1>14. SessionOk(c)'
    <2>1. ReadersOk(t, "run")
        BY <1>1, <1>2, <1>7 DEF SessOk, ReadersOk, Blank, Zeros
    <2>2. WaiterOk(t, "run", waited[c], code[c], c \in early) /\ MessagesOk(t, code[c], c \in early)
        BY <1>1, <1>7 DEF Blank, WaiterOk, MessagesOk
    <2>3. SessOk(t, "run", waited[c], code[c], c \in early)
        BY <1>1, <1>5, <1>6, <1>7, <2>1, <2>2 DEF SessOk, Blank
    <2>4. FlowOk(t, Up(c)')
        BY <1>1, <1>7, CountEmpty DEF FlowOk, Blank, Zeros
    <2>5. LinkOk(t, conn'[ConnOf(c)'])
        BY <1>1, <1>2, <1>3, <1>11 DEF LinkOk, ConnOf
    <2> QED  BY <1>3, <1>8, <1>12, <2>3, <2>4, <2>5 DEF SessionOk
<1>15. ExecInv'
    BY <1>1, <1>2, <1>3, <1>12, ExecFrame DEF SshInv
<1> QED  BY <1>9, <1>11, <1>12, <1>13, <1>14, <1>15, Rebuilt

LEMMA SpawnFailsOk ==
    ASSUME SshInv, NEW c \in Channels, start_shell(c), SpawnFails(c)
    PROVE  SshInv'
<1> DEFINE k == ConnOf(c)
           u == CloseInput(k, sess)
           r == [conn[k] EXCEPT !.st = "down", !.input = None, !.pty = FALSE, !.master = None]
           t == [sess[c] EXCEPT !.st = "end"]
<1>1. /\ sess[c].st \in {"none", "requested"} /\ Blank(sess[c]) /\ proc[c] = "none"
      /\ sess[c].st = "none" => setup.attempts = <<>>
      /\ conn[k].st \in {"up", "down"}
    BY StartFacts
<1>2. k \in Conns /\ setup \in Setups
    BY ClientOf
<1>3. /\ sess' = [u EXCEPT ![c].st = "end"] /\ conn' = [conn EXCEPT ![k] = r]
      /\ UNCHANGED <<supVars, exec>>
    BY DEF SpawnFails
<1>4. "st" \in DOMAIN r /\ r.st = "down"
    BY <1>2 DEF SshInv, ConnInv
<1>5. /\ u = [d \in Channels |-> u[d]]
      /\ \A d \in Channels : u[d] \in {sess[d], [sess[d] EXCEPT !.stdin = "closed"]}
    BY CloseInputFacts
<1> HIDE DEF u, r
<1>6. /\ sess' = [d \in Channels |-> sess'[d]] /\ sess'[c] = [u[c] EXCEPT !.st = "end"]
      /\ \A d \in Channels \ {c} : sess'[d] = u[d]
    BY <1>3, <1>5
<1>7. SessOk(t, proc[c], waited[c], code[c], c \in early) /\ t \in SessType
    BY <1>1, EndedOk
<1>8. sess'[c] \in {t, [t EXCEPT !.stdin = "closed"]} /\ t.st = "end"
    <2>1. sess[c] \in SessType
        BY SessionFacts
    <2>2. CASE u[c] = sess[c]
        BY <1>6, <2>1, <2>2 DEF SessType
    <2>3. CASE u[c] = [sess[c] EXCEPT !.stdin = "closed"]
        BY <1>6, <2>1, <2>3 DEF SessType
    <2> QED  BY <1>5, <2>2, <2>3
<1> HIDE DEF t
<1>9. SessOk(sess'[c], proc[c], waited[c], code[c], c \in early) /\ sess'[c].st = "end"
    BY <1>7, <1>8, InputOk
<1>10. ProcInv' /\ \A d \in Channels : Bystander(d)
    BY <1>3, ProcQuiet DEF SshInv, supVars
<1>11. ConnInv' /\ conn'[k] = r /\ \A j \in Conns : ConnMoves(j)
    BY <1>1, <1>2, <1>3, <1>4, ConnKept DEF SshInv, ConnMoves
<1>12. ASSUME NEW d \in Channels \ {c}
       PROVE  SessionOk(d)' /\ sess'[d].st = sess[d].st
    <2>1. ConnOf(d) \in Conns /\ setup' = setup
        BY <1>2, <1>3, SetupFacts DEF supVars
    <2>2. ConnMoves(ConnOf(d)) /\ Bystander(d) /\ sess'[d] \in {sess[d], [sess[d] EXCEPT !.stdin = "closed"]}
        BY <1>5, <1>6, <1>10, <1>11, <2>1
    <2> QED  BY <2>1, <2>2, OtherSession DEF ConnMoves
<1>13. SessionOk(c)'
    <2>1. ConnOf(c)' = k
        BY <1>3 DEF ConnOf, supVars
    <2>2. ~Up(c)'
        BY <1>4, <1>11, <2>1 DEF Up
    <2>3. FlowOk(sess'[c], Up(c)')
        BY <2>2 DEF FlowOk
    <2>4. LinkOk(sess'[c], conn'[ConnOf(c)'])
        BY <1>4, <1>11, <2>1 DEF LinkOk
    <2> QED  BY <1>3, <1>9, <2>3, <2>4 DEF SessionOk, supVars
<1>14. ExecInv'
    <2>1. \A d \in Channels : sess'[d].st # "none" => sess[d].st # "none" \/ setup.attempts = <<>>
        BY <1>1, <1>12
    <2>2. setup' = setup /\ exec' = exec
        BY <1>3 DEF supVars
    <2> QED  BY <1>2, <2>1, <2>2, ExecFrame DEF SshInv
<1> QED  BY <1>6, <1>10, <1>11, <1>12, <1>13, <1>14, Rebuilt

LEMMA ThreadsOk ==
    ASSUME SshInv, NEW c \in Channels, Threads(c)
    PROVE  SshInv'
<1> DEFINE s == sess[c]
           k == ConnOf(c)
           rs == [x \in Streams |-> IF x \in StreamsOf(s.kind) THEN "reading" ELSE "none"]
           in == IF Up(c) THEN "open" ELSE "closed"
           t == [s EXCEPT !.st = "child", !.exit = "waiting", !.stdin = in, !.reader = rs]
           v == [sess EXCEPT ![c] = t]
<1>1. /\ SessOk(s, proc[c], waited[c], code[c], c \in early) /\ s \in SessType
      /\ FlowOk(s, Up(c)) /\ LinkOk(s, conn[k]) /\ k \in Conns /\ setup \in Setups
    BY SessionFacts, ClientOf
<1>2. /\ s.st = "forked" /\ managed' = managed \cup {c} /\ sess' = CloseInput(k, v)
      /\ UNCHANGED <<setup, sup, proc, code, waited, early, reaper, exec>>
    BY DEF Threads, register_managed_child
<1>3. ConnInv' /\ \A j \in Conns : conn'[j].st = conn[j].st
    <2> DEFINE a == IF Up(c) THEN c ELSE None
               b == IF Up(c) /\ s.kind = "pty" THEN c ELSE conn[k].master
               r == [conn[k] EXCEPT !.input = a, !.master = b]
    <2>1. conn' = [conn EXCEPT ![k].input = a, ![k].master = b]
        BY DEF Threads
    <2> HIDE DEF a, b
    <2>2. conn' = [conn EXCEPT ![k] = r]
        BY <1>1, <2>1 DEF SshInv, ConnInv
    <2>3. "st" \in DOMAIN r /\ r.st = conn[k].st
        BY <1>1 DEF SshInv, ConnInv
    <2> HIDE DEF r
    <2> QED  BY <1>1, <2>2, <2>3, ConnKept DEF SshInv
<1>4. /\ rs \in Readers /\ Done(rs) = 0
      /\ \A x \in Streams : /\ rs[x] # "done"
                            /\ x \in StreamsOf(s.kind) => rs[x] = "reading"
                            /\ x \notin StreamsOf(s.kind) => rs[x] = "none"
    BY DEF Readers, ReaderStates, Done, Streams
<1>5. in \in {"none", "open", "closed"}
    OBVIOUS
<1> HIDE DEF rs, in
<1>6. t \in SessType
    BY <1>1, <1>4, <1>5 DEF SessType, SessStates, ExitStates
<1>7. /\ t.st = "child" /\ t.kind = s.kind /\ t.exit = "waiting" /\ t.reader = rs
      /\ t.done = s.done /\ t.timedout = s.timedout /\ t.sent = s.sent /\ t.wrote = s.wrote /\ t.pipe = s.pipe
    BY <1>1 DEF SessType
<1>8. v = [d \in Channels |-> v[d]] /\ v[c] = t /\ \A d \in Channels \ {c} : v[d] = sess[d]
    BY DEF SshInv
<1> HIDE DEF t, v
<1>9. /\ s.exit = "none" /\ s.kind \in {"pipe", "pty"} /\ s.done = 0
      /\ \A x \in Streams : s.reader[x] = "none"
    <2>1. /\ s.exit = "none" /\ s.kind \in {"pipe", "pty"}
          /\ \A x \in Streams : s.reader[x] = "none"
          /\ s.done = Done(s.reader)
        BY <1>1, <1>2 DEF SessOk, ReadersOk
    <2> QED  BY <2>1 DEF Done, Streams
<1>10. SessOk(t, proc[c], waited[c], code[c], c \in early)
    <2>1. StreamsOf(t.kind) \subseteq Streams
        BY DEF StreamsOf, Streams
    <2>2. ReadersOk(t, proc[c])
        BY <1>1, <1>4, <1>7, <1>9, <2>1 DEF SessOk, ReadersOk
    <2>3. WaiterOk(t, proc[c], waited[c], code[c], c \in early) /\ MessagesOk(t, code[c], c \in early)
        BY <1>1, <1>7, <1>9 DEF SessOk, WaiterOk, MessagesOk
    <2> QED  BY <1>6, <1>7, <1>9, <2>2, <2>3 DEF SessOk
<1>11. FlowOk(t, Up(c)) /\ LinkOk(t, conn[k])
    BY <1>1, <1>2, <1>7, <1>9 DEF FlowOk, LinkOk
<1>12. /\ sess' = [d \in Channels |-> sess'[d]]
       /\ \A d \in Channels : sess'[d] \in {v[d], [v[d] EXCEPT !.stdin = "closed"]}
    BY <1>2, CloseInputFacts
<1>13. ProcInv' /\ \A d \in Channels : Bystander(d)
    <2>1. \A d \in Channels : ProcOk(d)'
        BY <1>2 DEF SshInv, ProcInv, ProcOk, Alive
    <2>2. ReaperOk' /\ \A d \in Channels : Bystander(d)
        BY <1>2 DEF SshInv, ProcInv, ReaperOk, Bystander
    <2> QED  BY <1>2, <2>1, <2>2 DEF SshInv, ProcInv
<1>14. ASSUME NEW d \in Channels \ {c}
       PROVE  SessionOk(d)' /\ sess'[d].st = sess[d].st
    <2>1. ConnOf(d) \in Conns
        BY <1>1, SetupFacts
    <2>2. sess'[d] \in {sess[d], [sess[d] EXCEPT !.stdin = "closed"]}
        BY <1>8, <1>12
    <2> QED  BY <1>2, <1>3, <1>13, <2>1, <2>2, OtherSession
<1>15. SessionOk(c)'
    <2>1. sess'[c] \in {t, [t EXCEPT !.stdin = "closed"]}
        BY <1>8, <1>12
    <2>2. /\ SessOk(sess'[c], proc[c], waited[c], code[c], c \in early)
          /\ FlowOk(sess'[c], Up(c)) /\ sess'[c].st = "child"
        BY <1>7, <1>10, <1>11, <2>1, InputOk
    <2>3. ConnOf(c)' = k /\ Up(c)' = Up(c) /\ conn'[k].st = conn[k].st
        BY <1>1, <1>2, <1>3 DEF ConnOf, Up
    <2>4. LinkOk(sess'[c], conn'[ConnOf(c)'])
        BY <1>7, <1>11, <2>2, <2>3 DEF LinkOk
    <2> QED  BY <1>2, <2>2, <2>3, <2>4 DEF SessionOk
<1>16. ExecInv'
    BY <1>1, <1>2, <1>14, ExecFrame DEF SshInv
<1> QED  BY <1>3, <1>12, <1>13, <1>14, <1>15, <1>16, Rebuilt

-------------------------------------------------------------------------------
(* The exec request. *)

\* The states in which the channel of the attempt may be in use.
Using == {"stdin", "wait", "done"}

LEMMA ExecFacts ==
    ASSUME SshInv, exec.st # "idle"
    PROVE  /\ Attempt \in Channels /\ ConnOf(Attempt) \in Conns /\ setup \in Setups
           /\ exec.attempt \in DOMAIN setup.attempts
           /\ exec.st \notin Using => \A i \in DOMAIN setup.attempts : sess[setup.attempts[i]].st = "none"
<1>1. setup \in Setups /\ exec.attempt \in DOMAIN setup.attempts
    BY DEF SshInv, ProcInv, ExecInv
<1> QED  BY <1>1, SetupFacts DEF SshInv, ExecInv, Attempt, Using

\* The request goes on without a new attempt ...
LEMMA ExecGoesOn ==
    ASSUME SshInv, setup' = setup, \A d \in Channels : sess'[d].st = sess[d].st,
           exec.st # "idle" \/ setup.attempts # <<>>,
           NEW st, st # "idle", exec.st \in Using => st \in Using,
           NEW cd, exec' = [exec EXCEPT !.st = st, !.code = cd] \/ exec' = [exec EXCEPT !.st = st]
    PROVE  ExecInv'
<1>1. /\ exec = [st |-> exec.st, attempt |-> exec.attempt, code |-> exec.code]
      /\ exec.attempt \in Nat \ {0} /\ (exec.st = "idle" => exec.attempt = 1)
      /\ setup \in Setups
    BY DEF SshInv, ExecInv, ProcInv
<1>2. /\ exec' = [st |-> exec'.st, attempt |-> exec'.attempt, code |-> exec'.code]
      /\ exec'.st = st /\ exec'.attempt = exec.attempt
    BY <1>1
<1>3. exec.attempt \in DOMAIN setup.attempts
    <2>1. CASE exec.st # "idle"
        BY <2>1 DEF SshInv, ExecInv
    <2>2. CASE exec.st = "idle"
        BY <1>1, <2>2, SetupFacts
    <2> QED  BY <2>1, <2>2
<1>4. \A i \in DOMAIN setup.attempts : sess'[setup.attempts[i]].st = sess[setup.attempts[i]].st
    BY <1>1, SetupFacts
<1> QED  BY <1>1, <1>2, <1>3, <1>4 DEF SshInv, ExecInv, Using

\* ... or with one, which no error of a channel in use allows.
LEMMA AttemptFailsOk ==
    ASSUME SshInv, setup' = setup, \A d \in Channels : sess'[d].st = sess[d].st,
           exec.st # "idle", NEW e, AttemptFails(e), e = "transport" => exec.st \notin Using
    PROVE  ExecInv'
<1>1. CASE Finish(Lost)
    <2>1. "done" # "idle" /\ "done" \in Using
        BY DEF Using
    <2> QED  BY <1>1, <2>1, ExecGoesOn DEF Finish
<1>2. CASE /\ is_retryable_ssh_error(e) /\ exec.attempt < Len(setup.attempts)
           /\ exec' = [exec EXCEPT !.st = "attempt", !.attempt = @ + 1]
    <2>1. exec.st \notin Using
        BY <1>2 DEF is_retryable_ssh_error
    <2>2. /\ exec = [st |-> exec.st, attempt |-> exec.attempt, code |-> exec.code]
          /\ exec.attempt \in Nat \ {0}
        BY DEF SshInv, ExecInv
    <2>3. /\ exec' = [st |-> exec'.st, attempt |-> exec'.attempt, code |-> exec'.code]
          /\ exec'.st = "attempt" /\ exec'.attempt = exec.attempt + 1
        BY <1>2, <2>2
    <2>4. /\ setup \in Setups
          /\ \A i \in DOMAIN setup.attempts : sess[setup.attempts[i]].st = "none"
        BY <2>1, ExecFacts
    <2>5. exec.attempt + 1 \in DOMAIN setup.attempts
        BY <1>2, <2>2, <2>4, SetupFacts
    <2>6. \A i \in DOMAIN setup.attempts : sess'[setup.attempts[i]].st = "none"
        BY <2>4, SetupFacts
    <2> QED  BY <2>2, <2>3, <2>5, <2>6 DEF ExecInv
<1> QED  BY <1>1, <1>2 DEF AttemptFails

\* A step of the gateway that leaves the sandbox alone, up to connections.
LEMMA GatewayStep ==
    ASSUME SshInv, ConnInv', ExecInv', UNCHANGED supVars,
           sess' = [d \in Channels |-> sess'[d]],
           \A d \in Channels : sess'[d] \in Touched(sess[d]),
           \A k \in Conns : ConnMoves(k)
    PROVE  SshInv'
<1>1. ProcInv' /\ (\A d \in Channels : Bystander(d)) /\ setup' = setup
    BY ProcQuiet DEF SshInv, supVars
<1> QED  BY <1>1, SessionsKept

LEMMA SandboxKept ==
    ASSUME SshInv, UNCHANGED <<conn, sess>>
    PROVE  /\ ConnInv' /\ sess' = [d \in Channels |-> sess'[d]]
           /\ \A d \in Channels : sess'[d] \in Touched(sess[d]) /\ sess'[d].st = sess[d].st
           /\ \A k \in Conns : ConnMoves(k)
BY DEF SshInv, ConnInv, Touched, ConnMoves

LEMMA ExecSandboxOk ==
    ASSUME SshInv, exec_sandbox
    PROVE  SshInv'
<1>1. UNCHANGED <<supVars, conn, sess>> /\ exec.st = "idle" /\ setup.attempts # <<>> /\ setup' = setup
    BY DEF exec_sandbox, supVars
<1>2. CASE exec' = [exec EXCEPT !.st = "attempt"]
    <2>1. ExecInv'
        BY <1>1, <1>2, SandboxKept, ExecGoesOn DEF Using
    <2> QED  BY <1>1, <2>1, SandboxKept, GatewayStep
<1>3. CASE Finish(Lost)
    <2>1. "done" # "idle" /\ "done" \in Using
        BY DEF Using
    <2>2. ExecInv'
        BY <1>1, <1>3, <2>1, SandboxKept, ExecGoesOn DEF Finish
    <2> QED  BY <1>1, <2>2, SandboxKept, GatewayStep
<1> QED  BY <1>2, <1>3 DEF exec_sandbox

LEMMA ProxyOk ==
    ASSUME SshInv, start_single_use_ssh_proxy
    PROVE  SshInv'
<1>1. UNCHANGED <<supVars, sess>> /\ exec.st = "attempt" /\ setup' = setup
    BY DEF start_single_use_ssh_proxy, supVars
<1>2. ConnOf(Attempt) \in Conns /\ exec.st \notin Using /\ exec.st # "idle"
    BY <1>1, ExecFacts DEF Using
<1>3. \A d \in Channels : sess'[d].st = sess[d].st
    BY <1>1
<1>4. ASSUME AttemptFails("transport") PROVE ExecInv'
    BY <1>1, <1>2, <1>3, <1>4, AttemptFailsOk
<1>5. ASSUME exec' = [exec EXCEPT !.st = "open"] PROVE ExecInv'
    <2>1. "open" # "idle"
        OBVIOUS
    <2> QED  BY <1>1, <1>2, <1>3, <1>5, <2>1, ExecGoesOn
<1>6. CASE handle_connection(ConnOf(Attempt))
           /\ (exec' = [exec EXCEPT !.st = "open"] \/ AttemptFails("transport"))
    BY <1>1, <1>2, <1>4, <1>5, <1>6, HandleConnectionOk
<1>7. CASE AttemptFails("transport") /\ UNCHANGED conn
    BY <1>1, <1>4, <1>7, SandboxKept, GatewayStep
<1> QED  BY <1>6, <1>7 DEF start_single_use_ssh_proxy

LEMMA RunExecOk ==
    ASSUME SshInv, run_exec_with_russh
    PROVE  SshInv'
<1>1. UNCHANGED supVars /\ setup' = setup /\ exec.st \in {"open", "stdin"} /\ exec.st # "idle"
    BY DEF run_exec_with_russh, supVars
<1>2. /\ Attempt \in Channels /\ ConnOf(Attempt) \in Conns /\ setup \in Setups
      /\ exec.attempt \in DOMAIN setup.attempts
      /\ exec.st \notin Using => \A i \in DOMAIN setup.attempts : sess[setup.attempts[i]].st = "none"
    BY <1>1, ExecFacts
<1>3. CASE /\ exec.st = "open" /\ Up(Attempt)
           /\ sess' = [sess EXCEPT ![Attempt].st = "requested"]
           /\ exec' = [exec EXCEPT !.st = "stdin"]
           /\ UNCHANGED conn
    <2>3. PICK a \in Channels : a = Attempt
        BY <1>2
    <2> DEFINE s == sess[a]
               t == [s EXCEPT !.st = "requested"]
    <2>1. /\ SessOk(s, proc[a], waited[a], code[a], a \in early) /\ s \in SessType
          /\ s.st = "none"
        BY <1>2, <1>3, <2>3, SessionFacts DEF Attempt, Using
    <2>2. sess' = [sess EXCEPT ![a] = t]
        BY <1>3, <2>3 DEF SshInv
    <2>4. t \in SessType
        BY <2>1 DEF SessType, SessStates
    <2>5. /\ t.st = "requested" /\ t.kind = s.kind /\ t.exit = s.exit /\ t.reader = s.reader
          /\ t.done = s.done /\ t.timedout = s.timedout /\ t.sent = s.sent /\ t.wrote = s.wrote /\ t.pipe = s.pipe
        BY <2>1 DEF SessType
    <2> HIDE DEF t
    <2>6. Blank(s) /\ Blank(t) /\ proc[a] = "none"
        BY <2>1, <2>5 DEF SessOk, Blank
    <2>7. SessOk(t, proc[a], waited[a], code[a], a \in early)
        BY <2>1, <2>4, <2>5, <2>6 DEF SessOk, ReadersOk, WaiterOk, MessagesOk
    <2>8. /\ sess' = [d \in Channels |-> sess'[d]] /\ sess'[a] = t
          /\ \A d \in Channels \ {a} : sess'[d] = sess[d]
        BY <2>2, <2>3 DEF SshInv
    <2>9. ProcInv' /\ \A d \in Channels : Bystander(d)
        BY <1>1, ProcQuiet DEF SshInv, supVars
    <2>10. \A d \in Channels \ {a} : SessionOk(d)'
        BY <1>1, <1>3, <2>8, <2>9, OtherSession
    <2>11. SessionOk(a)'
        <3>1. FlowOk(t, Up(a)')
            BY <2>6, BlankFlow
        <3>2. conn'[ConnOf(a)'].st = "up"
            BY <1>1, <1>3, <2>3 DEF ConnOf, Up
        <3>3. LinkOk(t, conn'[ConnOf(a)'])
            BY <3>2 DEF LinkOk
        <3> QED  BY <1>1, <2>7, <2>8, <3>1, <3>3 DEF SessionOk, supVars
    <2>12. ExecInv'
        <3>1. /\ exec = [st |-> exec.st, attempt |-> exec.attempt, code |-> exec.code]
              /\ exec.attempt \in Nat \ {0}
            BY DEF SshInv, ExecInv
        <3>2. /\ exec' = [st |-> exec'.st, attempt |-> exec'.attempt, code |-> exec'.code]
              /\ exec'.st = "stdin" /\ exec'.attempt = exec.attempt
            BY <1>3, <3>1
        <3>3. \A i \in DOMAIN setup.attempts : sess'[setup.attempts[i]].st # "none" => i = exec.attempt
            <4>1. \A i \in DOMAIN setup.attempts : setup.attempts[i] \in Channels /\ (setup.attempts[i] = a => i = exec.attempt)
                BY <1>2, <2>3, SetupFacts DEF Attempt
            <4>2. \A i \in DOMAIN setup.attempts : sess[setup.attempts[i]].st = "none"
                BY <1>2, <1>3 DEF Using
            <4> QED  BY <2>8, <4>1, <4>2
        <3> QED  BY <1>1, <1>2, <3>1, <3>2, <3>3 DEF ExecInv
    <2>13. ConnInv'
        BY <1>3 DEF SshInv, ConnInv
    <2> QED  BY <2>3, <2>8, <2>9, <2>10, <2>11, <2>12, <2>13, Rebuilt
<1>4. CASE /\ exec.st = "stdin"
           /\ exec' = [exec EXCEPT !.st = "wait"]
           /\ conn' = [conn EXCEPT ![ConnOf(Attempt)].input = None]
           /\ sess' = CloseInput(ConnOf(Attempt), sess)
    <2>1. /\ ConnInv' /\ sess' = [d \in Channels |-> sess'[d]]
          /\ \A d \in Channels : sess'[d] \in Touched(sess[d])
          /\ \A j \in Conns : ConnMoves(j)
        BY <1>2, <1>4, InputDropped
    <2>2. \A d \in Channels : sess'[d].st = sess[d].st
        BY <2>1, TouchedState
    <2>3. "wait" # "idle" /\ "wait" \in Using
        BY DEF Using
    <2>4. ExecInv'
        BY <1>1, <1>4, <2>2, <2>3, ExecGoesOn
    <2> QED  BY <1>1, <2>1, <2>4, GatewayStep
<1>5. CASE /\ \E e \in ErrorsOf(exec.st) : AttemptFails(e)
           /\ UNCHANGED <<conn, sess>>
    <2>1. PICK e \in ErrorsOf(exec.st) : AttemptFails(e)
        BY <1>5
    <2>2. e = "transport" => exec.st \notin Using
        BY <1>1, <2>1 DEF ErrorsOf, Using
    <2>3. ExecInv'
        BY <1>1, <1>5, <2>1, <2>2, SandboxKept, AttemptFailsOk
    <2> QED  BY <1>1, <1>5, <2>3, SandboxKept, GatewayStep
<1> QED  BY <1>3, <1>4, <1>5 DEF run_exec_with_russh

LEMMA ExecEndsOk ==
    ASSUME SshInv, ExecResult \/ ExecTimeout \/ ExecDisconnects
    PROVE  SshInv'
<1>1. UNCHANGED supVars /\ setup' = setup /\ exec.st # "idle"
    BY DEF ExecResult, ExecTimeout, ExecDisconnects, supVars
<1>2. Attempt \in Channels /\ ConnOf(Attempt) \in Conns
    BY <1>1, ExecFacts
<1>3. \/ Up(Attempt) /\ Disconnect(ConnOf(Attempt))
      \/ UNCHANGED <<conn, sess>>
    BY DEF ExecResult, ExecTimeout, ExecDisconnects
<1>4. /\ ConnInv' /\ sess' = [d \in Channels |-> sess'[d]]
      /\ \A d \in Channels : sess'[d] \in Touched(sess[d])
      /\ \A k \in Conns : ConnMoves(k)
    <2>1. CASE Up(Attempt) /\ Disconnect(ConnOf(Attempt))
        BY <1>2, <2>1, DisconnectOk DEF Up
    <2>2. CASE UNCHANGED <<conn, sess>>
        BY <2>2, SandboxKept
    <2> QED  BY <1>3, <2>1, <2>2
<1>5. \A d \in Channels : sess'[d].st = sess[d].st
    BY <1>4, TouchedState
<1>6. ExecInv'
    <2>1. CASE exec' = exec
        BY <1>1, <1>2, <1>5, <2>1, ExecFacts, ExecFrame DEF SshInv
    <2>2. CASE \E c : Finish(c)
        <3>1. PICK c : exec' = [exec EXCEPT !.st = "done", !.code = c]
            BY <2>2 DEF Finish
        <3>2. "done" # "idle" /\ "done" \in Using
            BY DEF Using
        <3> QED  BY <1>1, <1>5, <3>1, <3>2, ExecGoesOn
    <2> QED  BY <2>1, <2>2 DEF ExecResult, ExecTimeout, ExecDisconnects
<1> QED  BY <1>1, <1>4, <1>6, GatewayStep

LEMMA SshInitOk ==
    ASSUME SupInit, SshInit
    PROVE  SshInv
<1>1. setup \in Setups /\ sup = setup.init
    BY DEF SupInit
<1>2. DOMAIN sup = DOMAIN Booted /\ sup.pid \in {None, Entry}
    BY <1>1, SetupAssumption
<1>3. /\ proc = [p \in Pids |-> IF p = sup.pid THEN "run" ELSE "none"]
      /\ code = [p \in Pids |-> None] /\ waited = [p \in Pids |-> None]
      /\ reaper = [st |-> "idle", pid |-> None, signal |-> FALSE]
    BY DEF SupInit
<1>4. \A c \in Channels : c \in Pids /\ c # None /\ c # Entry
    BY PidFacts, ProcessAssumption
<1>5. \A c \in Channels : proc[c] = "none" /\ waited[c] = None
    BY <1>2, <1>3, <1>4
<1>6. ProcInv
    BY <1>1, <1>2, <1>3, <1>5 DEF ProcInv, ProcStates, ProcOk, ReaperOk
<1>7. ConnInv /\ sess = [c \in Channels |-> sess[c]] /\ \A c \in Channels : sess[c] = NoSess
    BY DEF SshInit, ConnInv, NoConn
<1>8. NoSess \in SessType /\ Blank(NoSess) /\ NoSess.st = "none"
      /\ \A x \in Streams : NoSess.reader[x] = "none"
    <2>1. [s \in Streams |-> 0] \in Counters /\ [s \in Streams |-> "none"] \in Readers
        BY DEF Counters, Readers, ReaderStates
    <2>2. <<>> \in Seq(MsgType)
        OBVIOUS
    <2> QED  BY <2>1, <2>2 DEF NoSess, SessType, Blank, Zeros, SessStates, Kinds, ExitStates
<1>9. ASSUME NEW c \in Channels PROVE SessionOk(c)
    <2>1. ReadersOk(NoSess, "none") /\ WaiterOk(NoSess, "none", None, code[c], c \in early)
          /\ MessagesOk(NoSess, code[c], c \in early)
        BY <1>8 DEF ReadersOk, WaiterOk, MessagesOk, Blank, Zeros, Done, Streams
    <2>2. SessOk(sess[c], proc[c], waited[c], code[c], c \in early)
        BY <1>5, <1>7, <1>8, <2>1 DEF SessOk, Blank
    <2> QED  BY <1>7, <1>8, <2>2, BlankFlow DEF SessionOk, LinkOk
<1>10. ExecInv
    <2>1. \A i \in DOMAIN setup.attempts : sess[setup.attempts[i]].st = "none"
        BY <1>1, <1>7, <1>8, SetupFacts
    <2> QED  BY <2>1 DEF SshInit, NoExec, ExecInv
<1> QED  BY <1>6, <1>7, <1>9, <1>10 DEF SshInv

LEMMA SshNextOk ==
    ASSUME SshInv, SshNext
    PROVE  SshInv'
<1>1. CASE SupNext /\ UNCHANGED sshVars
    BY <1>1, SupStepOk, SetupKept
<1>2. ASSUME NEW c \in Channels, Session(c) PROVE SshInv'
    BY <1>2, ThreadsOk, WaitChildOk, RecvReaderDoneOk, SendExitStatusOk, ReaderForwardsOk, ReaderEndsOk
       DEF Session
<1>3. ASSUME NEW c \in Channels, Client(c) PROVE SshInv'
    <2>1. ASSUME start_shell(c) PROVE SshInv'
        <3>1. Fork(c) \/ SpawnFails(c)
            BY <2>1 DEF start_shell
        <3> QED  BY <2>1, <3>1, ForkOk, SpawnFailsOk
    <2> QED  BY <1>3, <2>1, PtyRequestOk, WindowChangeOk, DirectTcpipOk, NothingToRunOk, ChannelEofOk, WritesOk
           DEF Client
<1>4. ASSUME NEW k \in Conns, Loss(k) PROVE SshInv'
    BY <1>4, ConnectOk, ConnectionLostOk DEF Loss
<1>5. CASE GatewayExec
    BY <1>5, ExecSandboxOk, ProxyOk, RunExecOk, ExecEndsOk DEF GatewayExec
<1>6. CASE Tick \/ NonceReaper
    BY <1>6, QuietOk DEF Tick, NonceReaper
<1> QED  BY <1>1, <1>2, <1>3, <1>4, <1>5, <1>6 DEF SshNext

\* The reports do not touch the sandbox.
LEMMA ReportsApart ==
    ASSUME Denials \/ Pushing \/ Publishing \/ Watching
    PROVE  UNCHANGED allVars
<1>1. CASE Denials
    BY <1>1 DEF Denials, emit_denial, parse_kmsg_line, Denied, ingest, drain, flush_proposals_to_gateway,
                UNCHANGED_but_den
<1>2. CASE Pushing
    BY <1>2 DEF Pushing, on_event, PushConnect, drain_during_backoff, run_push_loop, StreamBreaks,
                UNCHANGED_but_push
<1>3. CASE Publishing
    BY <1>3 DEF Publishing, push_sandbox_logs, GatewayLogs, map_kube_event_to_platform, RemoveSandbox,
                PublishSend, PublishTail
<1>4. CASE Watching
    BY <1>4 DEF Watching, WatchValidate, WatchSubscribe, WatchReplay, WatchFollow, Unwatched
<1> QED  BY <1>1, <1>2, <1>3, <1>4

LEMMA SshInvAlways == Spec => []SshInv
<1>1. Init => SshInv
    BY SshInitOk DEF Init
<1>2. SshInv /\ [Next]_vars => SshInv'
    <2> SUFFICES ASSUME SshInv, [Next]_vars PROVE SshInv'
        OBVIOUS
    <2>1. CASE SshNext
        BY <2>1, SshNextOk
    <2>2. CASE UNCHANGED allVars
        <3>1. UNCHANGED <<supVars, conn, sess, exec>>
            BY <2>2 DEF allVars, sshVars
        <3> QED  BY <3>1, QuietOk
    <2> QED  BY <2>1, <2>2, ReportsApart DEF Next, vars
<1> QED  BY <1>1, <1>2, PTL DEF Spec

\* What a client learns of its command is the truth, for any number of channels
\* and connections, any output, and any order in which the child, its readers,
\* the exit thread, its waits, the waiter, the reaper and the loss of the connection
\* come (ssh.rs: spawn_pipe_exec, start_shell; lib.rs: the zombie reaper): a client
\* that saw the channel close has an exit status, and all the output unless a wait
\* for the readers ran out; the status is the child's own, or 1 for a child that
\* exited before it was registered.
THEOREM CommandsReported == Spec => []SessionFaithful
<1>1. SshInv => SessionFaithful
    <2> SUFFICES ASSUME SshInv, NEW c \in Channels, Closed(c), sess[c].kind # None
                 PROVE  /\ ~sess[c].timedout => AllReceived(c)
                        /\ \E i \in DOMAIN sess[c].sent : sess[c].sent[i].kind = "exit"
                        /\ \A i \in DOMAIN sess[c].sent :
                              sess[c].sent[i].kind = "exit" =>
                                 sess[c].sent[i].code \in {code[c]} \cup {1 : d \in early \cap {c}}
        BY DEF SessionFaithful, Over
    <2>1. MessagesOk(sess[c], code[c], c \in early)
        BY SessionFacts DEF SessOk
    <2>2. \A s \in Streams : Count(sess[c].sent, s) = Received(c, s)
        BY DEF Count, Places, Received
    <2> QED  BY <2>1, <2>2 DEF MessagesOk, Closed, AllReceived
<1> QED  BY <1>1, SshInvAlways, PTL

-------------------------------------------------------------------------------
(* Denials: what the gateway has counted, what is being sent, what is summed up
   and what is queued is never more than what was denied. *)

Stages == {None, "connect", "ssrf", "bypass"}
Events == [key : Keys, stage : Stages]
Summary == [count : Nat, stage : Stages]
Sums == [Keys -> Summary]
Totals == [Keys -> Nat]

At(q, k) == {i \in DOMAIN q : q[i].key = k}
Queued(q, k) == Cardinality(At(q, k))
Hits(ch) == IF ch = None THEN 0 ELSE ch.hits
Flushing(fl, k) == IF fl = None THEN 0 ELSE fl[k].count

ChunkOk(ch) == ch # None => "hits" \in DOMAIN ch /\ ch.hits \in Nat

DenInv ==
    /\ den \in [queue : Seq(Events), sum : Sums, flush : {None} \cup Sums, total : Totals]
    /\ chunk = [k \in Keys |-> chunk[k]]
    /\ \A k \in Keys :
          /\ ChunkOk(chunk[k])
          /\ Hits(chunk[k]) + Flushing(den.flush, k) + den.sum[k].count + Queued(den.queue, k)
                <= den.total[k]

LEMMA AtFinite ==
    ASSUME NEW q \in Seq(Events), NEW k
    PROVE  IsFiniteSet(At(q, k)) /\ Queued(q, k) \in Nat
<1>1. DOMAIN q = 1 .. Len(q) /\ Len(q) \in Nat
    OBVIOUS
<1>2. IsFiniteSet(1 .. Len(q))
    BY <1>1, FS_Interval
<1>3. At(q, k) \subseteq 1 .. Len(q)
    BY <1>1 DEF At
<1>4. IsFiniteSet(At(q, k))
    BY <1>2, <1>3, FS_Subset
<1> QED  BY <1>4, FS_CardinalityType DEF Queued

LEMMA QueuedAppend ==
    ASSUME NEW q \in Seq(Events), NEW e \in Events, NEW k
    PROVE  /\ Append(q, e) \in Seq(Events)
           /\ Queued(Append(q, e), k) = IF e.key = k THEN Queued(q, k) + 1 ELSE Queued(q, k)
<1> DEFINE n == Len(q) + 1
<1>1. /\ Append(q, e) \in Seq(Events) /\ DOMAIN Append(q, e) = DOMAIN q \cup {n} /\ n \notin DOMAIN q
      /\ Append(q, e)[n] = e /\ \A i \in DOMAIN q : Append(q, e)[i] = q[i]
    OBVIOUS
<1>2. IsFiniteSet(At(q, k))
    BY AtFinite
<1>3. CASE e.key = k
    <2>1. At(Append(q, e), k) = At(q, k) \cup {n} /\ n \notin At(q, k)
        BY <1>1, <1>3 DEF At
    <2> QED  BY <1>1, <1>2, <1>3, <2>1, FS_AddElement DEF Queued
<1>4. CASE e.key # k
    <2>1. At(Append(q, e), k) = At(q, k)
        BY <1>1, <1>4 DEF At
    <2> QED  BY <1>1, <1>4, <2>1 DEF Queued
<1> QED  BY <1>3, <1>4

LEMMA QueuedTail ==
    ASSUME NEW q \in Seq(Events), q # <<>>, NEW k
    PROVE  /\ Tail(q) \in Seq(Events) /\ Head(q) \in Events
           /\ Queued(Tail(q), k) <= Queued(q, k) - (IF Head(q).key = k THEN 1 ELSE 0)
<1> DEFINE S == At(Tail(q), k)
           T == At(q, k) \ {1}
           f == [i \in S |-> i + 1]
<1>1. /\ Tail(q) \in Seq(Events) /\ Head(q) \in Events /\ Head(q) = q[1] /\ 1 \in DOMAIN q
      /\ DOMAIN Tail(q) = 1 .. Len(q) - 1 /\ DOMAIN q = 1 .. Len(q) /\ Len(q) \in Nat
      /\ \A i \in DOMAIN Tail(q) : Tail(q)[i] = q[i + 1]
    OBVIOUS
<1>2. \A i \in S : i \in Nat /\ i \in DOMAIN Tail(q) /\ q[i + 1].key = k
    BY <1>1 DEF At
<1>3. \A i \in S : i + 1 \in T
    BY <1>1, <1>2 DEF At
<1>4. f \in [S -> T] /\ \A i, j \in S : f[i] = f[j] => i = j
    BY <1>2, <1>3
<1>5. f \in Injection(S, T)
    BY <1>4 DEF Injection, IsInjective
<1>6. IsFiniteSet(At(q, k)) /\ Queued(q, k) \in Nat
    BY AtFinite
<1>7. IsFiniteSet(T) /\ Cardinality(T) = IF 1 \in At(q, k) THEN Queued(q, k) - 1 ELSE Queued(q, k)
    BY <1>6, FS_RemoveElement DEF Queued
<1> HIDE DEF f, S, T
<1>8. Cardinality(S) <= Cardinality(T)
    BY <1>5, <1>7, FS_Injection
<1>9. 1 \in At(q, k) <=> Head(q).key = k
    BY <1>1 DEF At
<1>10. Queued(Tail(q), k) = Cardinality(S)
    BY DEF Queued, S
<1> QED  BY <1>1, <1>6, <1>7, <1>8, <1>9, <1>10

LEMMA DenFacts ==
    ASSUME DenInv
    PROVE  /\ den = [queue |-> den.queue, sum |-> den.sum, flush |-> den.flush, total |-> den.total]
           /\ den.queue \in Seq(Events) /\ den.sum \in Sums /\ den.total \in Totals
           /\ den.flush # None => den.flush \in Sums
           /\ \A k \in Keys : /\ den.sum[k] \in Summary /\ den.sum[k].count \in Nat
                              /\ den.total[k] \in Nat /\ Queued(den.queue, k) \in Nat
                              /\ Flushing(den.flush, k) \in Nat /\ Hits(chunk[k]) \in Nat
<1>1. /\ den = [queue |-> den.queue, sum |-> den.sum, flush |-> den.flush, total |-> den.total]
      /\ den.queue \in Seq(Events) /\ den.sum \in Sums /\ den.total \in Totals
      /\ den.flush # None => den.flush \in Sums
    BY DEF DenInv
<1>2. \A k \in Keys : Hits(chunk[k]) \in Nat
    BY DEF DenInv, ChunkOk, Hits
<1>3. \A k \in Keys : Flushing(den.flush, k) \in Nat
    BY <1>1 DEF Flushing, Sums, Summary
<1>4. \A k \in Keys : den.sum[k] \in Summary /\ den.sum[k].count \in Nat /\ den.total[k] \in Nat
    BY <1>1 DEF Sums, Summary, Totals
<1> QED  BY <1>1, <1>2, <1>3, <1>4, AtFinite

LEMMA DeniedOk ==
    ASSUME DenInv, NEW k \in Keys, NEW stage \in Stages, Denied(k, stage)
    PROVE  DenInv'
<1> DEFINE e == [key |-> k, stage |-> stage]
           q == Append(den.queue, e)
           n == [den.total EXCEPT ![k] = den.total[k] + 1]
<1>1. /\ den = [queue |-> den.queue, sum |-> den.sum, flush |-> den.flush, total |-> den.total]
      /\ den.queue \in Seq(Events) /\ den.sum \in Sums /\ den.total \in Totals
    BY DenFacts
<1>2. e \in Events /\ e.key = k
    BY DEF Events
<1>3. /\ q \in Seq(Events)
      /\ \A j : Queued(q, j) = IF k = j THEN Queued(den.queue, j) + 1 ELSE Queued(den.queue, j)
    BY <1>1, <1>2, QueuedAppend
<1>4. n \in Totals /\ \A j \in Keys : n[j] = IF k = j THEN den.total[j] + 1 ELSE den.total[j]
    BY <1>1 DEF Totals
<1>5. /\ den' = [den EXCEPT !.queue = q, !.total = n]
      /\ chunk' = chunk
    BY <1>1 DEF Denied, UNCHANGED_but_den
<1> HIDE DEF q, n
<1>6. /\ den' \in [queue : Seq(Events), sum : Sums, flush : {None} \cup Sums, total : Totals]
      /\ den'.queue = q /\ den'.sum = den.sum /\ den'.flush = den.flush /\ den'.total = n
    BY <1>1, <1>3, <1>4, <1>5 DEF DenInv
<1> HIDE DEF e
<1>7. ASSUME NEW j \in Keys
      PROVE  Hits(chunk'[j]) + Flushing(den'.flush, j) + den'.sum[j].count + Queued(den'.queue, j) <= den'.total[j]
    <2>1. /\ den.sum[j].count \in Nat /\ den.total[j] \in Nat /\ Queued(den.queue, j) \in Nat
          /\ Flushing(den.flush, j) \in Nat /\ Hits(chunk[j]) \in Nat
          /\ Hits(chunk[j]) + Flushing(den.flush, j) + den.sum[j].count + Queued(den.queue, j) <= den.total[j]
        BY DenFacts DEF DenInv
    <2> QED  BY <1>3, <1>4, <1>5, <1>6, <2>1
<1> QED  BY <1>5, <1>6, <1>7 DEF DenInv

LEMMA IngestOk ==
    ASSUME DenInv, ingest
    PROVE  DenInv'
<1> DEFINE e == Head(den.queue)
           q == Tail(den.queue)
           s == den.sum[e.key]
           new == [count |-> s.count + 1, stage |-> IF s.count = 0 THEN e.stage ELSE s.stage]
           m == [den.sum EXCEPT ![e.key] = new]
<1>1. /\ den = [queue |-> den.queue, sum |-> den.sum, flush |-> den.flush, total |-> den.total]
      /\ den.queue \in Seq(Events) /\ den.sum \in Sums /\ den.total \in Totals
    BY DenFacts
<1>2. den.queue # <<>> /\ chunk' = chunk /\ den' = [den EXCEPT !.queue = q, !.sum = m]
    BY <1>1 DEF ingest, UNCHANGED_but_den
<1>3. /\ q \in Seq(Events) /\ e \in Events
      /\ \A j : Queued(q, j) <= Queued(den.queue, j) - (IF e.key = j THEN 1 ELSE 0)
    BY <1>1, <1>2, QueuedTail
<1>4. e.key \in Keys /\ e.stage \in Stages
    BY <1>3 DEF Events
<1> HIDE DEF e, q
<1>5. new \in Summary /\ new.count = s.count + 1
    BY <1>1, <1>4 DEF Sums, Summary
<1> HIDE DEF new
<1>6. m \in Sums /\ \A j \in Keys : m[j].count = IF e.key = j THEN den.sum[j].count + 1 ELSE den.sum[j].count
    BY <1>1, <1>4, <1>5 DEF Sums
<1> HIDE DEF m
<1>7. /\ den' \in [queue : Seq(Events), sum : Sums, flush : {None} \cup Sums, total : Totals]
      /\ den'.queue = q /\ den'.sum = m /\ den'.flush = den.flush /\ den'.total = den.total
    BY <1>1, <1>2, <1>3, <1>6 DEF DenInv
<1>8. ASSUME NEW j \in Keys
      PROVE  Hits(chunk'[j]) + Flushing(den'.flush, j) + den'.sum[j].count + Queued(den'.queue, j) <= den'.total[j]
    <2>1. /\ den.sum[j].count \in Nat /\ den.total[j] \in Nat /\ Queued(den.queue, j) \in Nat
          /\ Flushing(den.flush, j) \in Nat /\ Hits(chunk[j]) \in Nat
          /\ Hits(chunk[j]) + Flushing(den.flush, j) + den.sum[j].count + Queued(den.queue, j) <= den.total[j]
        BY DenFacts DEF DenInv
    <2>2. Queued(q, j) \in Nat
        BY <1>3, AtFinite
    <2> QED  BY <1>2, <1>3, <1>6, <1>7, <2>1, <2>2
<1> QED  BY <1>2, <1>7, <1>8 DEF DenInv

LEMMA DrainOk ==
    ASSUME DenInv, drain
    PROVE  DenInv'
<1> DEFINE m == [k \in Keys |-> NoSummary]
<1>1. /\ den = [queue |-> den.queue, sum |-> den.sum, flush |-> den.flush, total |-> den.total]
      /\ den.queue \in Seq(Events) /\ den.sum \in Sums /\ den.total \in Totals
    BY DenFacts
<1>2. den.flush = None /\ chunk' = chunk /\ den' = [den EXCEPT !.flush = den.sum, !.sum = m]
    BY DEF drain, UNCHANGED_but_den
<1>3. m \in Sums /\ \A j \in Keys : m[j].count = 0
    BY DEF Sums, Summary, Stages, NoSummary
<1> HIDE DEF m
<1>4. /\ den' \in [queue : Seq(Events), sum : Sums, flush : {None} \cup Sums, total : Totals]
      /\ den'.queue = den.queue /\ den'.sum = m /\ den'.flush = den.sum /\ den'.total = den.total
    BY <1>1, <1>2, <1>3 DEF DenInv
<1>5. ASSUME NEW j \in Keys
      PROVE  Hits(chunk'[j]) + Flushing(den'.flush, j) + den'.sum[j].count + Queued(den'.queue, j) <= den'.total[j]
    <2>1. /\ den.sum[j].count \in Nat /\ den.total[j] \in Nat /\ Queued(den.queue, j) \in Nat
          /\ Flushing(den.flush, j) \in Nat /\ Hits(chunk[j]) \in Nat
          /\ Hits(chunk[j]) + Flushing(den.flush, j) + den.sum[j].count + Queued(den.queue, j) <= den.total[j]
        BY DenFacts DEF DenInv
    <2>2. Flushing(den.flush, j) = 0 /\ Flushing(den.sum, j) \in {0, den.sum[j].count}
        BY <1>2 DEF Flushing
    <2> QED  BY <1>2, <1>3, <1>4, <2>1, <2>2
<1> QED  BY <1>2, <1>4, <1>5 DEF DenInv

\* One proposal stored.
LEMMA PutOk ==
    ASSUME NEW old, ChunkOk(old), NEW new, "hits" \in DOMAIN new, new.hits \in Nat,
           NEW ch, ch \in {old, put_draft_chunk(old, new)}
    PROVE  ChunkOk(ch) /\ Hits(ch) <= Hits(old) + new.hits /\ Hits(ch) \in Nat
BY DEF ChunkOk, Hits, put_draft_chunk

LEMMA FlushOk ==
    ASSUME DenInv, flush_proposals_to_gateway
    PROVE  DenInv'
<1>1. /\ den = [queue |-> den.queue, sum |-> den.sum, flush |-> den.flush, total |-> den.total]
      /\ den.queue \in Seq(Events) /\ den.sum \in Sums /\ den.total \in Totals
      /\ den.flush # None => den.flush \in Sums
    BY DenFacts
<1>2. den.flush # None /\ den' = [den EXCEPT !.flush = None]
    BY DEF flush_proposals_to_gateway
<1>a. PICK ips \in [Keys -> BOOLEAN] :
            \E done \in SUBSET DOMAIN generate_proposals(den.flush, ips) :
                chunk' = [k \in Keys |-> IF k \in done
                                         THEN put_draft_chunk(chunk[k], generate_proposals(den.flush, ips)[k])
                                         ELSE chunk[k]]
    BY DEF flush_proposals_to_gateway
<1> DEFINE P == generate_proposals(den.flush, ips)
<1>3. PICK done \in SUBSET DOMAIN P :
            chunk' = [k \in Keys |-> IF k \in done THEN put_draft_chunk(chunk[k], P[k]) ELSE chunk[k]]
    BY <1>a
<1>4. \A k \in done : k \in Keys /\ "hits" \in DOMAIN P[k] /\ P[k].hits = den.flush[k].count
    BY <1>3 DEF generate_proposals
<1>5. /\ den' \in [queue : Seq(Events), sum : Sums, flush : {None} \cup Sums, total : Totals]
      /\ den'.queue = den.queue /\ den'.sum = den.sum /\ den'.flush = None /\ den'.total = den.total
    BY <1>1, <1>2 DEF DenInv
<1>6. chunk' = [k \in Keys |-> chunk'[k]]
    BY <1>3
<1>7. ASSUME NEW j \in Keys
      PROVE  /\ ChunkOk(chunk'[j])
             /\ Hits(chunk'[j]) + Flushing(den'.flush, j) + den'.sum[j].count + Queued(den'.queue, j) <= den'.total[j]
    <2>1. /\ den.sum[j].count \in Nat /\ den.total[j] \in Nat /\ Queued(den.queue, j) \in Nat
          /\ Flushing(den.flush, j) \in Nat /\ Hits(chunk[j]) \in Nat
          /\ Hits(chunk[j]) + Flushing(den.flush, j) + den.sum[j].count + Queued(den.queue, j) <= den.total[j]
          /\ ChunkOk(chunk[j])
        BY DenFacts DEF DenInv
    <2>2. Flushing(den.flush, j) = den.flush[j].count /\ Flushing(den'.flush, j) = 0
        BY <1>2, <1>5 DEF Flushing
    <2>3. ChunkOk(chunk'[j]) /\ Hits(chunk'[j]) <= Hits(chunk[j]) + den.flush[j].count /\ Hits(chunk'[j]) \in Nat
        <3>1. CASE j \in done
            <4>1. chunk'[j] = put_draft_chunk(chunk[j], P[j])
                BY <1>3, <3>1
            <4>2. "hits" \in DOMAIN P[j] /\ P[j].hits \in Nat /\ P[j].hits = den.flush[j].count
                BY <1>4, <2>1, <2>2, <3>1
            <4> HIDE DEF P
            <4> QED  BY <2>1, <4>1, <4>2, PutOk
        <3>2. CASE j \notin done
            BY <1>3, <2>1, <2>2, <3>2
        <3> QED  BY <3>1, <3>2
    <2> QED  BY <1>5, <2>1, <2>2, <2>3
<1> QED  BY <1>5, <1>6, <1>7 DEF DenInv

LEMMA DenInitOk ==
    ASSUME RepInit
    PROVE  DenInv
<1>1. /\ den = [queue |-> <<>>, sum |-> [k \in Keys |-> NoSummary], flush |-> None,
                total |-> [k \in Keys |-> 0]]
      /\ chunk = [k \in Keys |-> None]
    BY DEF RepInit
<1>2. [k \in Keys |-> NoSummary] \in Sums /\ [k \in Keys |-> 0] \in Totals /\ <<>> \in Seq(Events)
    BY DEF Sums, Summary, Stages, NoSummary, Totals
<1>3. den \in [queue : Seq(Events), sum : Sums, flush : {None} \cup Sums, total : Totals]
    BY <1>1, <1>2
<1>4. \A k : At(<<>>, k) = {}
    BY DEF At
<1>5. \A k : Queued(<<>>, k) = 0
    BY <1>4, FS_EmptySet DEF Queued
<1>6. \A k \in Keys : den.sum[k].count = 0
    BY <1>1 DEF NoSummary
<1> QED  BY <1>1, <1>3, <1>5, <1>6 DEF DenInv, ChunkOk, Hits, Flushing

LEMMA DenNextOk ==
    ASSUME DenInv, [Next]_vars
    PROVE  DenInv'
<1>1. CASE UNCHANGED <<den, chunk>>
    BY <1>1 DEF DenInv
<1>2. CASE Denials
    <2>1. ASSUME NEW k \in Keys, emit_denial(k) \/ parse_kmsg_line(k) PROVE DenInv'
        <3>1. \E stage \in Stages : Denied(k, stage)
            BY <2>1 DEF emit_denial, parse_kmsg_line, Stages
        <3> QED  BY <3>1, DeniedOk
    <2> QED  BY <1>2, <2>1, IngestOk, DrainOk, FlushOk DEF Denials
<1>3. CASE Pushing
    <2>1. UNCHANGED <<den, chunk>>
        BY <1>3 DEF Pushing, on_event, PushConnect, drain_during_backoff, run_push_loop, StreamBreaks,
                    UNCHANGED_but_push
    <2> QED  BY <2>1, <1>1
<1>4. CASE Publishing
    <2>1. UNCHANGED <<den, chunk>>
        BY <1>4 DEF Publishing, push_sandbox_logs, GatewayLogs, map_kube_event_to_platform, RemoveSandbox,
                    PublishSend, PublishTail
    <2> QED  BY <2>1, <1>1
<1>5. CASE Watching
    <2>1. UNCHANGED <<den, chunk>>
        BY <1>5 DEF Watching, WatchValidate, WatchSubscribe, WatchReplay, WatchFollow, Unwatched
    <2> QED  BY <2>1, <1>1
<1>6. CASE (SshNext /\ UNCHANGED repVars) \/ UNCHANGED vars
    BY <1>1, <1>6 DEF repVars, vars
<1> QED  BY <1>2, <1>3, <1>4, <1>5, <1>6 DEF Next

-------------------------------------------------------------------------------
(* Log lines.  A line is in at most one place on its way from the tracing layer
   to the tail of the bus, and there once. *)

Line == {"sandbox", "gateway", "event"} \X Nat
Batch == Seq(Line)
Wires == Seq(Batch)

PushType == [st : {"off", "connect", "up", "backoff"}, emitted : Nat, chan : Batch, batch : Batch, id : Nat]
RpcType == [st : {"none", "open", "broken"}, wire : Wires, valid : BOOLEAN]
PubType == [todo : Batch, sent : BOOLEAN, n : Nat]
RpcTable == [RpcIds -> RpcType]
PubTable == [Publishers -> PubType]
TailTable == [Buses -> Batch]

Inj(s) == \A i, j \in DOMAIN s : s[i] = s[j] => i = j
WireLines(w) == UNION {ToSet(w[j]) : j \in DOMAIN w}
WireInj(w) == /\ \A i \in DOMAIN w : Inj(w[i])
              /\ \A i, j \in DOMAIN w : i # j => ToSet(w[i]) \cap ToSet(w[j]) = {}

\* The places on the way, and the lines in each.
LogPubs == RpcIds \cup {0}
InChan == <<"chan", 0>>
InBatch == <<"batch", 0>>
InTail == <<"tail", 0>>
OnWire(i) == <<"wire", i>>
ToDo(p) == <<"todo", p>>
Spots == ({"chan", "batch", "tail"} \X {0}) \cup ({"wire"} \X RpcIds) \cup ({"todo"} \X LogPubs)
Lines(pu, rp, pb, tl) ==
    [a \in Spots |-> IF a[1] = "chan" THEN ToSet(pu.chan)
                     ELSE IF a[1] = "batch" THEN ToSet(pu.batch)
                     ELSE IF a[1] = "tail" THEN ToSet(tl["log"])
                     ELSE IF a[1] = "wire" THEN WireLines(rp[a[2]].wire)
                     ELSE ToSet(pb[a[2]].todo)]

Disjoint(H) == \A a, b \in Spots : a # b => H[a] \cap H[b] = {}

\* The lines there have been: those of a sandbox up to the last one emitted, and
\* those of the gateway.
OldLines(emitted, n) == {l \in Line : /\ l[1] = "sandbox" => l[2] <= emitted
                                      /\ l[1] = "gateway" => l[2] < n}

LinesOk(pu, rp, pb, tl) ==
    /\ pu \in PushType /\ rp \in RpcTable /\ pb \in PubTable /\ tl \in TailTable
    /\ Inj(pu.chan) /\ Inj(pu.batch) /\ Inj(tl["log"])
    /\ \A i \in RpcIds : WireInj(rp[i].wire)
    /\ \A p \in LogPubs : Inj(pb[p].todo)
    /\ Disjoint(Lines(pu, rp, pb, tl))
    /\ \A a \in Spots : Lines(pu, rp, pb, tl)[a] \subseteq OldLines(pu.emitted, pb[0].n)

RepType ==
    /\ push \in PushType /\ rpc \in RpcTable /\ pub \in PubTable /\ tail \in TailTable
    /\ push.st = "up" => push.id \in RpcIds
    /\ \A p \in Publishers : pub[p].sent => pub[p].todo # <<>>

LineInv == RepType /\ LinesOk(push, rpc, pub, tail)

\* Batches of lines: their elements and that none occurs twice.
LEMMA EmptyLine ==
    <<>> \in Batch /\ ToSet(<<>>) = {} /\ Inj(<<>>)
BY DEF Batch, ToSet, Inj

LEMMA OneLine ==
    ASSUME NEW l \in Line
    PROVE  <<l>> \in Batch /\ ToSet(<<l>>) = {l} /\ Inj(<<l>>) /\ <<l>> # <<>>
BY DEF Batch, ToSet, Inj

LEMMA AppendLine ==
    ASSUME NEW s \in Batch, NEW l \in Line
    PROVE  /\ Append(s, l) \in Batch
           /\ ToSet(Append(s, l)) = ToSet(s) \cup {l}
           /\ Inj(s) /\ l \notin ToSet(s) => Inj(Append(s, l))
<1> DEFINE t == Append(s, l)
<1>1. /\ t \in Batch /\ Len(s) \in Nat /\ DOMAIN s = 1 .. Len(s) /\ DOMAIN t = 1 .. (Len(s) + 1)
      /\ t[Len(s) + 1] = l /\ \A i \in 1 .. Len(s) : t[i] = s[i]
    BY DEF Batch
<1> HIDE DEF t
<1>2. ToSet(t) = ToSet(s) \cup {l}
    <2>1. \A x \in ToSet(t) : x \in ToSet(s) \cup {l}
        BY <1>1 DEF ToSet
    <2>2. \A x \in ToSet(s) : x \in ToSet(t)
        BY <1>1 DEF ToSet
    <2>3. l \in ToSet(t)
        BY <1>1 DEF ToSet
    <2> QED  BY <2>1, <2>2, <2>3
<1>3. ASSUME Inj(s), l \notin ToSet(s) PROVE Inj(t)
    <2>1. \A i \in 1 .. Len(s) : s[i] # l
        BY <1>1, <1>3 DEF ToSet
    <2> QED  BY <1>1, <1>3, <2>1 DEF Inj
<1> QED  BY <1>1, <1>2, <1>3 DEF t

LEMMA TailLine ==
    ASSUME NEW s \in Batch, s # <<>>
    PROVE  /\ Tail(s) \in Batch /\ Head(s) \in Line /\ Head(s) \in ToSet(s)
           /\ ToSet(s) = ToSet(Tail(s)) \cup {Head(s)}
           /\ Inj(s) => Inj(Tail(s)) /\ Head(s) \notin ToSet(Tail(s))
<1> DEFINE t == Tail(s)
           h == Head(s)
<1>1. /\ t \in Batch /\ h \in Line /\ Len(s) \in Nat /\ Len(s) > 0 /\ DOMAIN s = 1 .. Len(s)
      /\ DOMAIN t = 1 .. (Len(s) - 1) /\ h = s[1] /\ \A i \in 1 .. (Len(s) - 1) : t[i] = s[i + 1]
    BY DEF Batch
<1> HIDE DEF t, h
<1>2. h \in ToSet(s)
    BY <1>1 DEF ToSet
<1>3. ToSet(s) = ToSet(t) \cup {h}
    <2>1. ASSUME NEW i \in 1 .. Len(s) PROVE s[i] \in ToSet(t) \cup {h}
        <3>1. CASE i = 1
            BY <1>1, <3>1
        <3>2. CASE i # 1
            <4>1. i - 1 \in 1 .. (Len(s) - 1) /\ t[i - 1] = s[i]
                BY <1>1, <3>2
            <4> QED  BY <1>1, <4>1 DEF ToSet
        <3> QED  BY <3>1, <3>2
    <2>2. \A i \in 1 .. (Len(s) - 1) : t[i] \in ToSet(s)
        BY <1>1 DEF ToSet
    <2> QED  BY <1>1, <1>2, <2>1, <2>2 DEF ToSet
<1>4. ASSUME Inj(s) PROVE Inj(t) /\ h \notin ToSet(t)
    <2>1. \A i \in DOMAIN t : i + 1 \in DOMAIN s /\ t[i] = s[i + 1] /\ i \in Nat
        BY <1>1
    <2>2. Inj(t)
        <3> SUFFICES ASSUME NEW i \in DOMAIN t, NEW j \in DOMAIN t, t[i] = t[j]
                     PROVE  i = j
            BY DEF Inj
        <3>1. i + 1 = j + 1
            BY <1>4, <2>1 DEF Inj
        <3> QED  BY <2>1, <3>1
    <2>3. \A i \in DOMAIN t : t[i] # h
        <3> SUFFICES ASSUME NEW i \in DOMAIN t, t[i] = h
                     PROVE  FALSE
            OBVIOUS
        <3>1. 1 \in DOMAIN s /\ s[i + 1] = s[1]
            BY <1>1, <2>1
        <3>2. i + 1 = 1
            BY <1>4, <2>1, <3>1 DEF Inj
        <3>3. i > 0 /\ i \in Nat
            BY <1>1
        <3> QED  BY <3>2, <3>3
    <2> QED  BY <2>2, <2>3 DEF ToSet
<1> QED  BY <1>1, <1>2, <1>3, <1>4 DEF t, h

LEMMA PrefixLine ==
    ASSUME NEW s \in Batch, NEW n \in 0 .. Len(s)
    PROVE  /\ SubSeq(s, 1, n) \in Batch
           /\ ToSet(SubSeq(s, 1, n)) \subseteq ToSet(s)
           /\ Inj(s) => Inj(SubSeq(s, 1, n))
<1> DEFINE t == SubSeq(s, 1, n)
<1>1. /\ Len(s) \in Nat /\ DOMAIN s = 1 .. Len(s) /\ t \in Batch /\ DOMAIN t = 1 .. n
      /\ \A i \in 1 .. n : i \in 1 .. Len(s) /\ t[i] = s[i]
    BY DEF Batch
<1> HIDE DEF t
<1> QED  BY <1>1 DEF t, ToSet, Inj

\* The batches on a stream.
LEMMA EmptyWire ==
    <<>> \in Wires /\ WireLines(<<>>) = {} /\ WireInj(<<>>)
BY DEF Wires, WireLines, WireInj

LEMMA WireAppend ==
    ASSUME NEW w \in Wires, NEW s \in Batch
    PROVE  /\ Append(w, s) \in Wires
           /\ WireLines(Append(w, s)) = WireLines(w) \cup ToSet(s)
           /\ WireInj(w) /\ Inj(s) /\ ToSet(s) \cap WireLines(w) = {} => WireInj(Append(w, s))
<1> DEFINE t == Append(w, s)
<1>1. /\ t \in Wires /\ Len(w) \in Nat /\ DOMAIN w = 1 .. Len(w) /\ DOMAIN t = 1 .. (Len(w) + 1)
      /\ t[Len(w) + 1] = s /\ \A i \in 1 .. Len(w) : t[i] = w[i]
    BY DEF Wires
<1> HIDE DEF t
<1>2. WireLines(t) = WireLines(w) \cup ToSet(s)
    <2>1. ASSUME NEW i \in DOMAIN t PROVE ToSet(t[i]) \subseteq WireLines(w) \cup ToSet(s)
        <3>1. i = Len(w) + 1 \/ i \in 1 .. Len(w)
            BY <1>1
        <3> QED  BY <1>1, <3>1 DEF WireLines
    <2>2. \A i \in DOMAIN w : ToSet(w[i]) \subseteq WireLines(t)
        BY <1>1 DEF WireLines
    <2>3. ToSet(s) \subseteq WireLines(t)
        BY <1>1 DEF WireLines
    <2>4. \A i \in DOMAIN t : ToSet(t[i]) \subseteq WireLines(w) \cup ToSet(s)
        BY <2>1
    <2>5. WireLines(w) \subseteq WireLines(t)
        BY <2>2 DEF WireLines
    <2>6. WireLines(t) \subseteq WireLines(w) \cup ToSet(s)
        BY <2>4 DEF WireLines
    <2> QED  BY <2>3, <2>5, <2>6
<1>3. ASSUME WireInj(w), Inj(s), ToSet(s) \cap WireLines(w) = {} PROVE WireInj(t)
    <2>1. \A i \in 1 .. Len(w) : ToSet(s) \cap ToSet(w[i]) = {}
        BY <1>1, <1>3 DEF WireLines
    <2> QED  BY <1>1, <1>3, <2>1 DEF WireInj
<1> QED  BY <1>1, <1>2, <1>3 DEF t

LEMMA WireTail ==
    ASSUME NEW w \in Wires, w # <<>>
    PROVE  /\ Tail(w) \in Wires /\ Head(w) \in Batch
           /\ WireLines(Tail(w)) \subseteq WireLines(w) /\ ToSet(Head(w)) \subseteq WireLines(w)
           /\ WireInj(w) => /\ WireInj(Tail(w)) /\ Inj(Head(w))
                            /\ ToSet(Head(w)) \cap WireLines(Tail(w)) = {}
<1> DEFINE t == Tail(w)
           h == Head(w)
<1>1. /\ t \in Wires /\ h \in Batch /\ Len(w) \in Nat /\ Len(w) > 0 /\ DOMAIN w = 1 .. Len(w)
      /\ DOMAIN t = 1 .. (Len(w) - 1) /\ h = w[1] /\ \A i \in 1 .. (Len(w) - 1) : t[i] = w[i + 1]
    BY DEF Wires
<1> HIDE DEF t, h
<1>2. WireLines(t) \subseteq WireLines(w) /\ ToSet(h) \subseteq WireLines(w)
    <2>1. \A i \in DOMAIN t : i + 1 \in DOMAIN w /\ t[i] = w[i + 1]
        BY <1>1
    <2>2. 1 \in DOMAIN w
        BY <1>1
    <2> QED  BY <1>1, <2>1, <2>2 DEF WireLines
<1>3. ASSUME WireInj(w) PROVE WireInj(t) /\ Inj(h) /\ ToSet(h) \cap WireLines(t) = {}
    <2>a. \A i \in DOMAIN t : i + 1 \in DOMAIN w /\ t[i] = w[i + 1] /\ i \in Nat
        BY <1>1
    <2>b. 1 \in DOMAIN w
        BY <1>1
    <2>c. \A i, j \in DOMAIN t : i # j => i + 1 # j + 1
        BY <2>a
    <2>1. WireInj(t) /\ Inj(h)
        BY <1>1, <1>3, <2>a, <2>b, <2>c DEF WireInj
    <2>2. ASSUME NEW i \in DOMAIN t PROVE ToSet(h) \cap ToSet(t[i]) = {}
        <3>1. i + 1 \in DOMAIN w /\ 1 \in DOMAIN w /\ i + 1 # 1 /\ t[i] = w[i + 1] /\ h = w[1]
            BY <1>1
        <3> QED  BY <1>3, <3>1 DEF WireInj
    <2>3. \A i \in DOMAIN t : ToSet(h) \cap ToSet(t[i]) = {}
        BY <2>2
    <2> QED  BY <2>1, <2>3 DEF WireLines
<1> QED  BY <1>1, <1>2, <1>3 DEF t, h

LEMMA WirePrefix ==
    ASSUME NEW w \in Wires, NEW n \in 0 .. Len(w)
    PROVE  /\ SubSeq(w, 1, n) \in Wires
           /\ WireLines(SubSeq(w, 1, n)) \subseteq WireLines(w)
           /\ WireInj(w) => WireInj(SubSeq(w, 1, n))
<1> DEFINE t == SubSeq(w, 1, n)
<1>1. /\ Len(w) \in Nat /\ DOMAIN w = 1 .. Len(w) /\ t \in Wires /\ DOMAIN t = 1 .. n
      /\ \A i \in 1 .. n : i \in 1 .. Len(w) /\ t[i] = w[i]
    BY DEF Wires
<1> HIDE DEF t
<1> QED  BY <1>1 DEF t, WireLines, WireInj

\* Places and what happens to disjoint sets of lines: they lose some, one gets new
\* ones, or some move from one place to another.
LEMMA SpotsFacts ==
    /\ InChan \in Spots /\ InBatch \in Spots /\ InTail \in Spots
    /\ \A i \in RpcIds : OnWire(i) \in Spots
    /\ \A p \in LogPubs : ToDo(p) \in Spots
    /\ \A a \in Spots : \/ a \in {InChan, InBatch, InTail}
                        \/ \E i \in RpcIds : a = OnWire(i)
                        \/ \E p \in LogPubs : a = ToDo(p)
    /\ InChan # InBatch /\ InChan # InTail /\ InBatch # InTail
    /\ \A i \in RpcIds : OnWire(i) \notin {InChan, InBatch, InTail}
    /\ \A p \in LogPubs : ToDo(p) \notin {InChan, InBatch, InTail}
    /\ \A i, p : OnWire(i) # ToDo(p)
    /\ \A i, j : i # j => OnWire(i) # OnWire(j) /\ ToDo(i) # ToDo(j)
BY DEF Spots, InChan, InBatch, InTail, OnWire, ToDo, LogPubs

LEMMA LinesFacts ==
    ASSUME NEW pu, NEW rp, NEW pb, NEW tl
    PROVE  /\ Lines(pu, rp, pb, tl)[InChan] = ToSet(pu.chan)
           /\ Lines(pu, rp, pb, tl)[InBatch] = ToSet(pu.batch)
           /\ Lines(pu, rp, pb, tl)[InTail] = ToSet(tl["log"])
           /\ \A i \in RpcIds : Lines(pu, rp, pb, tl)[OnWire(i)] = WireLines(rp[i].wire)
           /\ \A p \in LogPubs : Lines(pu, rp, pb, tl)[ToDo(p)] = ToSet(pb[p].todo)
BY SpotsFacts DEF Lines, InChan, InBatch, InTail, OnWire, ToDo

LEMMA Kept ==
    ASSUME NEW H, NEW G, Disjoint(H), \A a \in Spots : G[a] \subseteq H[a]
    PROVE  Disjoint(G)
BY DEF Disjoint

LEMMA Added ==
    ASSUME NEW H, NEW G, Disjoint(H), NEW b \in Spots, NEW Y,
           \A a \in Spots : Y \cap H[a] = {},
           G[b] \subseteq H[b] \cup Y,
           \A a \in Spots : a # b => G[a] \subseteq H[a]
    PROVE  Disjoint(G)
BY DEF Disjoint

LEMMA Moved ==
    ASSUME NEW H, NEW G, Disjoint(H), NEW a \in Spots, NEW b \in Spots, a # b, NEW Y,
           Y \subseteq H[a], G[a] \subseteq H[a] \ Y, G[b] \subseteq H[b] \cup Y,
           \A c \in Spots : c \notin {a, b} => G[c] \subseteq H[c]
    PROVE  Disjoint(G)
<1> SUFFICES ASSUME NEW c \in Spots, NEW d \in Spots, c # d
             PROVE  G[c] \cap G[d] = {}
    BY DEF Disjoint
<1>1. H[c] \cap H[d] = {} /\ H[a] \cap H[b] = {}
    BY DEF Disjoint
<1>2. \A e \in Spots : e # a => H[a] \cap H[e] = {}
    BY DEF Disjoint
<1>3. \A e \in Spots : e # a => G[e] \cap G[a] = {}
    BY <1>2
<1>4. CASE c = b
    <2>1. CASE d = a
        BY <1>3, <1>4, <2>1
    <2>2. CASE d # a
        BY <1>1, <1>2, <1>4, <2>2
    <2> QED  BY <2>1, <2>2
<1>5. CASE d = b
    <2>1. CASE c = a
        BY <1>3, <1>5, <2>1
    <2>2. CASE c # a
        BY <1>1, <1>2, <1>5, <2>2
    <2> QED  BY <2>1, <2>2
<1>6. CASE c # b /\ d # b
    BY <1>1, <1>3, <1>6
<1> QED  BY <1>4, <1>5, <1>6

\* The fields of the parts of a state in which LinesOk holds.
LEMMA LineFacts ==
    ASSUME NEW pu, NEW rp, NEW pb, NEW tl, LinesOk(pu, rp, pb, tl)
    PROVE  /\ pu.emitted \in Nat /\ pu.chan \in Batch /\ pu.batch \in Batch /\ tl["log"] \in Batch
           /\ \A i \in RpcIds : rp[i] \in RpcType /\ rp[i].wire \in Wires
           /\ \A p \in Publishers : pb[p] \in PubType /\ pb[p].todo \in Batch /\ pb[p].n \in Nat
           /\ 0 \in Publishers /\ LogPubs \subseteq Publishers
BY DEF LinesOk, PushType, RpcTable, RpcType, PubTable, PubType, TailTable, Buses, LogPubs, Publishers

\* Lines are dropped, or none is touched.
LEMMA DropOk ==
    ASSUME NEW pu, NEW rp, NEW pb, NEW tl, LinesOk(pu, rp, pb, tl),
           NEW pu2 \in PushType, NEW rp2 \in RpcTable, NEW pb2 \in PubTable, NEW tl2 \in TailTable,
           pu2.emitted = pu.emitted, pb2[0].n = pb[0].n,
           Inj(pu2.chan), ToSet(pu2.chan) \subseteq ToSet(pu.chan),
           Inj(pu2.batch), ToSet(pu2.batch) \subseteq ToSet(pu.batch),
           Inj(tl2["log"]), ToSet(tl2["log"]) \subseteq ToSet(tl["log"]),
           \A i \in RpcIds : WireInj(rp2[i].wire) /\ WireLines(rp2[i].wire) \subseteq WireLines(rp[i].wire),
           \A p \in LogPubs : Inj(pb2[p].todo) /\ ToSet(pb2[p].todo) \subseteq ToSet(pb[p].todo)
    PROVE  LinesOk(pu2, rp2, pb2, tl2)
<1> DEFINE H == Lines(pu, rp, pb, tl)
           G == Lines(pu2, rp2, pb2, tl2)
<1>a. /\ H[InChan] = ToSet(pu.chan) /\ H[InBatch] = ToSet(pu.batch) /\ H[InTail] = ToSet(tl["log"])
      /\ \A i \in RpcIds : H[OnWire(i)] = WireLines(rp[i].wire)
      /\ \A p \in LogPubs : H[ToDo(p)] = ToSet(pb[p].todo)
    BY LinesFacts
<1>b. /\ G[InChan] = ToSet(pu2.chan) /\ G[InBatch] = ToSet(pu2.batch) /\ G[InTail] = ToSet(tl2["log"])
      /\ \A i \in RpcIds : G[OnWire(i)] = WireLines(rp2[i].wire)
      /\ \A p \in LogPubs : G[ToDo(p)] = ToSet(pb2[p].todo)
    BY LinesFacts
<1>1. ASSUME NEW a \in Spots PROVE G[a] \subseteq H[a]
    <2> HIDE DEF H, G
    <2>1. CASE a \in {InChan, InBatch, InTail}
        BY <1>a, <1>b, <2>1
    <2>2. CASE \E i \in RpcIds : a = OnWire(i)
        BY <1>a, <1>b, <2>2
    <2>3. CASE \E p \in LogPubs : a = ToDo(p)
        BY <1>a, <1>b, <2>3
    <2> QED  BY <2>1, <2>2, <2>3, SpotsFacts
<1>2. Disjoint(H) /\ \A a \in Spots : H[a] \subseteq OldLines(pu.emitted, pb[0].n)
    BY DEF LinesOk
<1> HIDE DEF H, G
<1>3. Disjoint(G)
    BY <1>1, <1>2, Kept
<1>4. \A a \in Spots : G[a] \subseteq OldLines(pu2.emitted, pb2[0].n)
    BY <1>1, <1>2
<1> QED  BY <1>3, <1>4 DEF LinesOk, G

\* A line is emitted.
LEMMA EmitOk ==
    ASSUME NEW pu, NEW rp, NEW pb, NEW tl, LinesOk(pu, rp, pb, tl),
           NEW pu2 \in PushType, pu2.emitted = pu.emitted + 1, pu2.batch = pu.batch,
           pu2.chan \in {pu.chan, Append(pu.chan, <<"sandbox", pu.emitted + 1>>)}
    PROVE  LinesOk(pu2, rp, pb, tl)
<1> DEFINE H == Lines(pu, rp, pb, tl)
           G == Lines(pu2, rp, pb, tl)
           l == <<"sandbox", pu.emitted + 1>>
<1>1. /\ pu.emitted \in Nat /\ pu.chan \in Batch /\ pb[0].n \in Nat
    BY LineFacts
<1>2. /\ Disjoint(H) /\ \A a \in Spots : H[a] \subseteq OldLines(pu.emitted, pb[0].n)
      /\ Inj(pu.chan)
    BY DEF LinesOk
<1>3. l \in Line /\ l \notin OldLines(pu.emitted, pb[0].n) /\ l \in OldLines(pu2.emitted, pb[0].n)
    BY <1>1 DEF Line, OldLines
<1>4. OldLines(pu.emitted, pb[0].n) \subseteq OldLines(pu2.emitted, pb[0].n)
    BY <1>1 DEF Line, OldLines
<1>5. /\ H[InChan] = ToSet(pu.chan) /\ G[InChan] = ToSet(pu2.chan) /\ InChan \in Spots
      /\ \A a \in Spots : a # InChan => G[a] = H[a]
    BY SpotsFacts, LinesFacts
<1> HIDE DEF H, G, l
<1>6. \A a \in Spots : {l} \cap H[a] = {}
    BY <1>2, <1>3
<1>7. ToSet(pu2.chan) \subseteq ToSet(pu.chan) \cup {l} /\ Inj(pu2.chan)
    <2>1. l \notin ToSet(pu.chan)
        BY <1>5, <1>6
    <2>2. pu2.chan \in {pu.chan, Append(pu.chan, l)}
        BY DEF l
    <2> QED  BY <1>1, <1>2, <1>3, <2>1, <2>2, AppendLine
<1>8. Disjoint(G)
    <2>1. G[InChan] \subseteq H[InChan] \cup {l} /\ \A a \in Spots : a # InChan => G[a] \subseteq H[a]
        BY <1>5, <1>7
    <2> DEFINE Y == {l}
    <2>2. /\ Disjoint(H) /\ InChan \in Spots /\ G[InChan] \subseteq H[InChan] \cup Y
          /\ \A a \in Spots : Y \cap H[a] = {}
        BY <1>2, <1>5, <1>6, <2>1
    <2> HIDE DEF Y
    <2> QED  BY <2>1, <2>2, Added
<1>9. \A a \in Spots : G[a] \subseteq OldLines(pu2.emitted, pb[0].n)
    BY <1>2, <1>3, <1>4, <1>5, <1>7
<1> QED  BY <1>7, <1>8, <1>9 DEF LinesOk, G

\* A line is taken from the channel.
LEMMA TakeOk ==
    ASSUME NEW pu, NEW rp, NEW pb, NEW tl, LinesOk(pu, rp, pb, tl), pu.chan # <<>>,
           NEW pu2 \in PushType, pu2.emitted = pu.emitted, pu2.chan = Tail(pu.chan),
           pu2.batch \in {pu.batch, Append(pu.batch, Head(pu.chan))}
    PROVE  LinesOk(pu2, rp, pb, tl)
<1> DEFINE H == Lines(pu, rp, pb, tl)
           G == Lines(pu2, rp, pb, tl)
           l == Head(pu.chan)
<1>1. pu.chan \in Batch /\ pu.batch \in Batch
    BY LineFacts
<1>2. /\ Disjoint(H) /\ \A a \in Spots : H[a] \subseteq OldLines(pu.emitted, pb[0].n)
      /\ Inj(pu.chan) /\ Inj(pu.batch)
    BY DEF LinesOk
<1>3. /\ l \in Line /\ l \in ToSet(pu.chan) /\ Inj(pu2.chan) /\ l \notin ToSet(pu2.chan)
      /\ ToSet(pu2.chan) \subseteq ToSet(pu.chan)
    BY <1>1, <1>2, TailLine
<1>5. /\ H[InChan] = ToSet(pu.chan) /\ G[InChan] = ToSet(pu2.chan) /\ InChan \in Spots
      /\ H[InBatch] = ToSet(pu.batch) /\ G[InBatch] = ToSet(pu2.batch) /\ InBatch \in Spots
      /\ InChan # InBatch
      /\ \A a \in Spots : a \notin {InChan, InBatch} => G[a] = H[a]
    BY SpotsFacts, LinesFacts
<1>6. pu2.batch \in {pu.batch, Append(pu.batch, l)}
    OBVIOUS
<1> HIDE DEF H, G, l
<1>7. ToSet(pu2.batch) \subseteq ToSet(pu.batch) \cup {l} /\ Inj(pu2.batch)
    <2>1. l \notin ToSet(pu.batch)
        BY <1>2, <1>3, <1>5 DEF Disjoint
    <2> QED  BY <1>1, <1>2, <1>3, <1>6, <2>1, AppendLine
<1>8. Disjoint(G)
    <2>1. {l} \subseteq H[InChan] /\ G[InChan] \subseteq H[InChan] \ {l} /\ G[InBatch] \subseteq H[InBatch] \cup {l}
        BY <1>3, <1>5, <1>7
    <2>2. \A c \in Spots : c \notin {InChan, InBatch} => G[c] \subseteq H[c]
        BY <1>5
    <2> QED  BY <1>2, <1>5, <2>1, <2>2, Moved
<1>9. \A a \in Spots : G[a] \subseteq OldLines(pu2.emitted, pb[0].n)
    BY <1>2, <1>3, <1>5, <1>7
<1> QED  BY <1>3, <1>7, <1>8, <1>9 DEF LinesOk, G

\* The batch is handed to a stream.
LEMMA HandOk ==
    ASSUME NEW pu, NEW rp, NEW pb, NEW tl, LinesOk(pu, rp, pb, tl), NEW i \in RpcIds,
           NEW pu2 \in PushType, pu2.emitted = pu.emitted, pu2.chan = pu.chan, pu2.batch = <<>>,
           NEW rp2 \in RpcTable, \A j \in RpcIds : j # i => rp2[j] = rp[j],
           WireInj(rp2[i].wire), WireLines(rp2[i].wire) \subseteq WireLines(rp[i].wire) \cup ToSet(pu.batch)
    PROVE  LinesOk(pu2, rp2, pb, tl)
<1> DEFINE H == Lines(pu, rp, pb, tl)
           G == Lines(pu2, rp2, pb, tl)
           Y == ToSet(pu.batch)
<1>2. /\ Disjoint(H) /\ \A a \in Spots : H[a] \subseteq OldLines(pu.emitted, pb[0].n)
    BY DEF LinesOk
<1>5. /\ H[InBatch] = Y /\ G[InBatch] = {} /\ InBatch \in Spots
      /\ H[OnWire(i)] = WireLines(rp[i].wire) /\ G[OnWire(i)] = WireLines(rp2[i].wire) /\ OnWire(i) \in Spots
      /\ OnWire(i) # InBatch
      /\ \A a \in Spots : a \notin {OnWire(i), InBatch} => G[a] = H[a]
    BY SpotsFacts, LinesFacts, EmptyLine
<1> HIDE DEF H, G, Y
<1>7. G[OnWire(i)] \subseteq H[OnWire(i)] \cup Y
    BY <1>5 DEF Y
<1>8. Disjoint(G)
    <2>1. Y \subseteq H[InBatch] /\ G[InBatch] \subseteq H[InBatch] \ Y
        BY <1>5
    <2>2. \A c \in Spots : c \notin {InBatch, OnWire(i)} => G[c] \subseteq H[c]
        BY <1>5
    <2> QED  BY <1>2, <1>5, <1>7, <2>1, <2>2, Moved
<1>9. \A a \in Spots : G[a] \subseteq OldLines(pu2.emitted, pb[0].n)
    BY <1>2, <1>5, <1>7
<1> QED  BY <1>8, <1>9, EmptyLine DEF LinesOk, G

\* The gateway takes a batch from a stream.
LEMMA AcceptOk ==
    ASSUME NEW pu, NEW rp, NEW pb, NEW tl, LinesOk(pu, rp, pb, tl), NEW i \in RpcIds,
           rp[i].wire # <<>>, pb[i].todo = <<>>,
           NEW rp2 \in RpcTable, \A j \in RpcIds : j # i => rp2[j] = rp[j], rp2[i].wire = Tail(rp[i].wire),
           NEW pb2 \in PubTable, \A p \in LogPubs : p # i => pb2[p] = pb[p],
           NEW n \in 0 .. Len(Head(rp[i].wire)), pb2[i].todo = SubSeq(Head(rp[i].wire), 1, n)
    PROVE  LinesOk(pu, rp2, pb2, tl)
<1> DEFINE H == Lines(pu, rp, pb, tl)
           G == Lines(pu, rp2, pb2, tl)
           Y == ToSet(Head(rp[i].wire))
<1>1. rp[i].wire \in Wires /\ i \in LogPubs /\ 0 \in LogPubs /\ i # 0
    BY LineFacts, PublisherAssumption DEF LogPubs
<1>2. /\ Disjoint(H) /\ \A a \in Spots : H[a] \subseteq OldLines(pu.emitted, pb[0].n)
      /\ WireInj(rp[i].wire)
    BY DEF LinesOk
<1>3. /\ Head(rp[i].wire) \in Batch /\ Inj(Head(rp[i].wire)) /\ Y \subseteq WireLines(rp[i].wire)
      /\ WireInj(rp2[i].wire) /\ WireLines(rp2[i].wire) \subseteq WireLines(rp[i].wire) \ Y
    <2>1. /\ Head(rp[i].wire) \in Batch /\ Inj(Head(rp[i].wire)) /\ Y \subseteq WireLines(rp[i].wire)
          /\ WireInj(Tail(rp[i].wire)) /\ WireLines(Tail(rp[i].wire)) \subseteq WireLines(rp[i].wire)
          /\ Y \cap WireLines(Tail(rp[i].wire)) = {}
        BY <1>1, <1>2, WireTail
    <2> QED  BY <2>1
<1>4. Inj(pb2[i].todo) /\ ToSet(pb2[i].todo) \subseteq Y
    BY <1>3, PrefixLine
<1>5. /\ H[OnWire(i)] = WireLines(rp[i].wire) /\ G[OnWire(i)] = WireLines(rp2[i].wire) /\ OnWire(i) \in Spots
      /\ G[ToDo(i)] = ToSet(pb2[i].todo) /\ ToDo(i) \in Spots
      /\ OnWire(i) # ToDo(i)
    <2>1. OnWire(i) \in Spots /\ ToDo(i) \in Spots /\ OnWire(i) # ToDo(i)
        BY <1>1, SpotsFacts
    <2>2. H[OnWire(i)] = WireLines(rp[i].wire) /\ G[OnWire(i)] = WireLines(rp2[i].wire)
        BY LinesFacts
    <2>3. \A p \in LogPubs : G[ToDo(p)] = ToSet(pb2[p].todo)
        BY LinesFacts
    <2> QED  BY <1>1, <2>1, <2>2, <2>3
<1>6. ASSUME NEW a \in Spots, a \notin {OnWire(i), ToDo(i)} PROVE G[a] = H[a]
    <2>1. CASE a \in {InChan, InBatch, InTail}
        BY <2>1, LinesFacts
    <2>2. CASE \E j \in RpcIds : a = OnWire(j)
        BY <1>6, <2>2, LinesFacts
    <2>3. CASE \E p \in LogPubs : a = ToDo(p)
        BY <1>6, <2>3, LinesFacts
    <2> QED  BY <2>1, <2>2, <2>3, SpotsFacts
<1> HIDE DEF H, G, Y
<1>8. Disjoint(G)
    <2>1. Y \subseteq H[OnWire(i)] /\ G[OnWire(i)] \subseteq H[OnWire(i)] \ Y /\ G[ToDo(i)] \subseteq H[ToDo(i)] \cup Y
        BY <1>3, <1>4, <1>5
    <2>2. \A c \in Spots : c \notin {OnWire(i), ToDo(i)} => G[c] \subseteq H[c]
        BY <1>6
    <2> QED  BY <1>2, <1>5, <2>1, <2>2, Moved
<1>9. \A a \in Spots : G[a] \subseteq OldLines(pu.emitted, pb2[0].n)
    <2>1. \A a \in Spots : G[a] \subseteq H[a] \/ G[a] \subseteq H[OnWire(i)]
        BY <1>3, <1>4, <1>5, <1>6
    <2>2. pb2[0].n = pb[0].n
        BY <1>1
    <2> QED  BY <1>2, <1>5, <2>1, <2>2
<1>10. \A j \in RpcIds : WireInj(rp2[j].wire)
    BY <1>3 DEF LinesOk
<1>11. \A p \in LogPubs : Inj(pb2[p].todo)
    BY <1>4 DEF LinesOk
<1> QED  BY <1>8, <1>9, <1>10, <1>11 DEF LinesOk, G

\* The gateway logs a line of its own.
LEMMA OwnLineOk ==
    ASSUME NEW pu, NEW rp, NEW pb, NEW tl, LinesOk(pu, rp, pb, tl),
           NEW pb2 \in PubTable, \A p \in LogPubs : p # 0 => pb2[p] = pb[p],
           pb2[0].n = pb[0].n + 1, pb2[0].todo = <<<<"gateway", pb[0].n>>>>, pb[0].todo = <<>>
    PROVE  LinesOk(pu, rp, pb2, tl)
<1> DEFINE H == Lines(pu, rp, pb, tl)
           G == Lines(pu, rp, pb2, tl)
           l == <<"gateway", pb[0].n>>
           Y == {l}
<1>1. pu.emitted \in Nat /\ pb[0].n \in Nat /\ 0 \in LogPubs
    BY LineFacts DEF LogPubs
<1>2. /\ Disjoint(H) /\ \A a \in Spots : H[a] \subseteq OldLines(pu.emitted, pb[0].n)
    BY DEF LinesOk
<1>3. /\ l \in Line /\ l \notin OldLines(pu.emitted, pb[0].n) /\ l \in OldLines(pu.emitted, pb2[0].n)
      /\ OldLines(pu.emitted, pb[0].n) \subseteq OldLines(pu.emitted, pb2[0].n)
    BY <1>1 DEF Line, OldLines
<1>4. pb2[0].todo = <<l>>
    OBVIOUS
<1> HIDE DEF l
<1>5. Inj(pb2[0].todo) /\ ToSet(pb2[0].todo) = Y
    BY <1>3, <1>4, OneLine
<1>6. G[ToDo(0)] = ToSet(pb2[0].todo) /\ ToDo(0) \in Spots
    BY <1>1, SpotsFacts, LinesFacts
<1>7. ASSUME NEW a \in Spots, a # ToDo(0) PROVE G[a] = H[a]
    <2>1. CASE a \in {InChan, InBatch, InTail}
        BY <2>1, LinesFacts
    <2>2. CASE \E j \in RpcIds : a = OnWire(j)
        BY <2>2, LinesFacts
    <2>3. CASE \E p \in LogPubs : a = ToDo(p)
        BY <1>7, <2>3, LinesFacts
    <2> QED  BY <2>1, <2>2, <2>3, SpotsFacts
<1>a. \A a \in Spots : Y \cap H[a] = {}
    BY <1>2, <1>3
<1>b. Y \subseteq OldLines(pu.emitted, pb2[0].n)
    BY <1>3
<1> HIDE DEF H, G, Y
<1>8. Disjoint(G)
    <2>1. G[ToDo(0)] \subseteq H[ToDo(0)] \cup Y /\ \A a \in Spots : a # ToDo(0) => G[a] \subseteq H[a]
        BY <1>5, <1>6, <1>7
    <2>2. Disjoint(H) /\ ToDo(0) \in Spots
        BY <1>2, <1>6
    <2> DEFINE b == ToDo(0)
    <2>3. b \in Spots /\ G[b] \subseteq H[b] \cup Y /\ \A a \in Spots : a # b => G[a] \subseteq H[a]
        BY <2>1, <2>2
    <2> HIDE DEF b
    <2> SUFFICES ASSUME NEW c \in Spots, NEW d \in Spots, c # d
                 PROVE  G[c] \cap G[d] = {}
        BY DEF Disjoint
    <2>4. H[c] \cap H[d] = {} /\ Y \cap H[c] = {} /\ Y \cap H[d] = {}
        BY <1>a, <2>2 DEF Disjoint
    <2> QED  BY <2>3, <2>4
<1>9. \A a \in Spots : G[a] \subseteq OldLines(pu.emitted, pb2[0].n)
    BY <1>2, <1>3, <1>5, <1>6, <1>7, <1>b
<1>11. \A p \in LogPubs : Inj(pb2[p].todo)
    BY <1>5 DEF LinesOk
<1> QED  BY <1>8, <1>9, <1>11 DEF LinesOk, G

\* A line reaches the tail.
LEMMA ReachTailOk ==
    ASSUME NEW pu, NEW rp, NEW pb, NEW tl, LinesOk(pu, rp, pb, tl), NEW q \in LogPubs, pb[q].todo # <<>>,
           NEW pb2 \in PubTable, \A p \in LogPubs : p # q => pb2[p] = pb[p],
           pb2[q].todo = Tail(pb[q].todo), pb2[q].n = pb[q].n,
           NEW tl2 \in TailTable, Inj(tl2["log"]),
           ToSet(tl2["log"]) \subseteq ToSet(tl["log"]) \cup {Head(pb[q].todo)}
    PROVE  LinesOk(pu, rp, pb2, tl2)
<1> DEFINE H == Lines(pu, rp, pb, tl)
           G == Lines(pu, rp, pb2, tl2)
           Y == {Head(pb[q].todo)}
<1>1. pb[q].todo \in Batch /\ 0 \in LogPubs
    BY LineFacts DEF LogPubs
<1>2. /\ Disjoint(H) /\ \A a \in Spots : H[a] \subseteq OldLines(pu.emitted, pb[0].n)
      /\ Inj(pb[q].todo)
    BY DEF LinesOk
<1>3. Y \subseteq ToSet(pb[q].todo) /\ ToSet(pb2[q].todo) \subseteq ToSet(pb[q].todo) \ Y /\ Inj(pb2[q].todo)
    BY <1>1, <1>2, TailLine
<1>5. /\ H[ToDo(q)] = ToSet(pb[q].todo) /\ G[ToDo(q)] = ToSet(pb2[q].todo) /\ ToDo(q) \in Spots
      /\ H[InTail] = ToSet(tl["log"]) /\ G[InTail] = ToSet(tl2["log"]) /\ InTail \in Spots
      /\ ToDo(q) # InTail
    BY SpotsFacts, LinesFacts
<1>6. ASSUME NEW a \in Spots, a \notin {ToDo(q), InTail} PROVE G[a] = H[a]
    <2>1. CASE a \in {InChan, InBatch, InTail}
        BY <1>6, <2>1, LinesFacts
    <2>2. CASE \E j \in RpcIds : a = OnWire(j)
        BY <2>2, LinesFacts
    <2>3. CASE \E p \in LogPubs : a = ToDo(p)
        BY <1>6, <2>3, LinesFacts
    <2> QED  BY <2>1, <2>2, <2>3, SpotsFacts
<1>7. ToSet(tl2["log"]) \subseteq ToSet(tl["log"]) \cup Y
    OBVIOUS
<1> HIDE DEF H, G, Y
<1>8. Disjoint(G)
    <2>1. Y \subseteq H[ToDo(q)] /\ G[ToDo(q)] \subseteq H[ToDo(q)] \ Y /\ G[InTail] \subseteq H[InTail] \cup Y
        BY <1>3, <1>5, <1>7
    <2>2. \A c \in Spots : c \notin {ToDo(q), InTail} => G[c] \subseteq H[c]
        BY <1>6
    <2> QED  BY <1>2, <1>5, <2>1, <2>2, Moved
<1>9. \A a \in Spots : G[a] \subseteq OldLines(pu.emitted, pb2[0].n)
    <2>1. \A a \in Spots : G[a] \subseteq H[a] \/ G[a] \subseteq H[InTail] \cup H[ToDo(q)]
        BY <1>3, <1>5, <1>6, <1>7
    <2>2. pb2[0].n = pb[0].n
        BY <1>1
    <2> QED  BY <1>2, <1>5, <2>1, <2>2
<1>11. \A p \in LogPubs : Inj(pb2[p].todo)
    BY <1>3 DEF LinesOk
<1> QED  BY <1>8, <1>9, <1>11 DEF LinesOk, G

LEMMA WireOne ==
    ASSUME NEW s \in Batch
    PROVE  /\ <<s>> \in Wires /\ WireLines(<<s>>) = ToSet(s)
           /\ Inj(s) => WireInj(<<s>>)
<1> DEFINE t == <<s>>
<1>1. t \in Wires /\ DOMAIN t = {1} /\ t[1] = s
    BY DEF Wires
<1> HIDE DEF t
<1>2. WireLines(t) = ToSet(s) /\ (Inj(s) => WireInj(t))
    BY <1>1 DEF WireLines, WireInj
<1> QED  BY <1>1, <1>2 DEF t

\* Records with some fields replaced.
LEMMA RpcSet ==
    ASSUME NEW r \in RpcType, NEW w \in Wires
    PROVE  /\ [r EXCEPT !.wire = w] \in RpcType /\ [r EXCEPT !.wire = w].wire = w
           /\ [r EXCEPT !.st = "broken", !.wire = w] \in RpcType
           /\ [r EXCEPT !.st = "broken", !.wire = w].wire = w
           /\ [r EXCEPT !.wire = w, !.valid = TRUE] \in RpcType
           /\ [r EXCEPT !.wire = w, !.valid = TRUE].wire = w
<1> DEFINE S == {"none", "open", "broken"}
<1>1. RpcType = [st : S, wire : Wires, valid : BOOLEAN]
    BY DEF RpcType
<1>2. "broken" \in S /\ TRUE \in BOOLEAN
    OBVIOUS
<1> HIDE DEF S
<1> QED  BY <1>1, <1>2

LEMMA PubTodo ==
    ASSUME NEW r \in PubType, NEW s \in Batch
    PROVE  /\ [r EXCEPT !.todo = s] \in PubType
           /\ [r EXCEPT !.todo = s].todo = s /\ [r EXCEPT !.todo = s].n = r.n
           /\ [r EXCEPT !.todo = s].sent = r.sent
BY DEF PubType

LEMMA PubSent ==
    ASSUME NEW r \in PubType, NEW b \in BOOLEAN
    PROVE  /\ [r EXCEPT !.sent = b] \in PubType
           /\ [r EXCEPT !.sent = b].todo = r.todo /\ [r EXCEPT !.sent = b].n = r.n
           /\ [r EXCEPT !.sent = b].sent = b
BY DEF PubType

LEMMA PubDone ==
    ASSUME NEW r \in PubType, NEW s \in Batch
    PROVE  /\ [r EXCEPT !.todo = s, !.sent = FALSE] \in PubType
           /\ [r EXCEPT !.todo = s, !.sent = FALSE].todo = s /\ [r EXCEPT !.todo = s, !.sent = FALSE].n = r.n
           /\ ~[r EXCEPT !.todo = s, !.sent = FALSE].sent
BY DEF PubType

LEMMA RepFacts ==
    ASSUME RepType
    PROVE  /\ push = [st |-> push.st, emitted |-> push.emitted, chan |-> push.chan, batch |-> push.batch,
                      id |-> push.id]
           /\ push.emitted \in Nat /\ push.chan \in Batch /\ push.batch \in Batch /\ push.id \in Nat
           /\ push.st \in {"off", "connect", "up", "backoff"}
           /\ \A i \in RpcIds : /\ rpc[i] = [st |-> rpc[i].st, wire |-> rpc[i].wire, valid |-> rpc[i].valid]
                                /\ rpc[i].st \in {"none", "open", "broken"} /\ rpc[i].wire \in Wires
                                /\ rpc[i].valid \in BOOLEAN
           /\ \A p \in Publishers : /\ pub[p] = [todo |-> pub[p].todo, sent |-> pub[p].sent, n |-> pub[p].n]
                                    /\ pub[p].todo \in Batch /\ pub[p].sent \in BOOLEAN /\ pub[p].n \in Nat
           /\ \A b \in Buses : tail[b] \in Batch
           /\ "log" \in Buses /\ "event" \in Buses
           /\ LogPubs \subseteq Publishers /\ 0 \in LogPubs /\ None \in Publishers /\ None \notin LogPubs
           /\ RpcIds \subseteq LogPubs
<1>1. /\ push = [st |-> push.st, emitted |-> push.emitted, chan |-> push.chan, batch |-> push.batch,
                 id |-> push.id]
      /\ push.emitted \in Nat /\ push.chan \in Batch /\ push.batch \in Batch /\ push.id \in Nat
      /\ push.st \in {"off", "connect", "up", "backoff"}
    BY DEF RepType, PushType
<1>2. ASSUME NEW i \in RpcIds
      PROVE  /\ rpc[i] = [st |-> rpc[i].st, wire |-> rpc[i].wire, valid |-> rpc[i].valid]
             /\ rpc[i].st \in {"none", "open", "broken"} /\ rpc[i].wire \in Wires /\ rpc[i].valid \in BOOLEAN
    <2>1. rpc[i] \in RpcType
        BY DEF RepType, RpcTable
    <2> QED  BY <2>1 DEF RpcType
<1>3. ASSUME NEW p \in Publishers
      PROVE  /\ pub[p] = [todo |-> pub[p].todo, sent |-> pub[p].sent, n |-> pub[p].n]
             /\ pub[p].todo \in Batch /\ pub[p].sent \in BOOLEAN /\ pub[p].n \in Nat
    <2>1. pub[p] \in PubType
        BY DEF RepType, PubTable
    <2> QED  BY <2>1 DEF PubType
<1>4. \A b \in Buses : tail[b] \in Batch
    BY DEF RepType, TailTable
<1>5. /\ "log" \in Buses /\ "event" \in Buses
      /\ LogPubs \subseteq Publishers /\ 0 \in LogPubs /\ None \in Publishers /\ None \notin LogPubs
      /\ RpcIds \subseteq LogPubs
    <2>1. None \notin RpcIds /\ 0 \in Nat
        BY PublisherAssumption
    <2>2. None # 0
        BY <2>1, PublisherAssumption
    <2>3. "log" \in Buses /\ "event" \in Buses
        BY DEF Buses
    <2> QED  BY <2>1, <2>2, <2>3 DEF LogPubs, Publishers
<1> QED  BY <1>1, <1>2, <1>3, <1>4, <1>5

\* Only one of the parts changes, and no line is added.
LEMMA DropPushOk ==
    ASSUME NEW pu, NEW rp, NEW pb, NEW tl, LinesOk(pu, rp, pb, tl),
           NEW pu2 \in PushType, pu2.emitted = pu.emitted, pu2.chan = pu.chan, pu2.batch \in {pu.batch, <<>>}
    PROVE  LinesOk(pu2, rp, pb, tl)
<1>1. /\ rp \in RpcTable /\ pb \in PubTable /\ tl \in TailTable
      /\ Inj(pu.chan) /\ Inj(pu.batch) /\ Inj(tl["log"])
      /\ \A i \in RpcIds : WireInj(rp[i].wire)
      /\ \A p \in LogPubs : Inj(pb[p].todo)
    BY DEF LinesOk
<1>2. Inj(pu2.batch) /\ ToSet(pu2.batch) \subseteq ToSet(pu.batch)
    BY <1>1, EmptyLine
<1> QED  BY <1>1, <1>2, DropOk

LEMMA DropRpcOk ==
    ASSUME NEW pu, NEW rp, NEW pb, NEW tl, LinesOk(pu, rp, pb, tl), NEW i \in RpcIds,
           NEW rp2 \in RpcTable, \A j \in RpcIds : j # i => rp2[j] = rp[j],
           WireInj(rp2[i].wire), WireLines(rp2[i].wire) \subseteq WireLines(rp[i].wire)
    PROVE  LinesOk(pu, rp2, pb, tl)
<1>1. /\ pu \in PushType /\ pb \in PubTable /\ tl \in TailTable
      /\ Inj(pu.chan) /\ Inj(pu.batch) /\ Inj(tl["log"])
      /\ \A j \in RpcIds : WireInj(rp[j].wire)
      /\ \A p \in LogPubs : Inj(pb[p].todo)
    BY DEF LinesOk
<1>2. \A j \in RpcIds : WireInj(rp2[j].wire) /\ WireLines(rp2[j].wire) \subseteq WireLines(rp[j].wire)
    BY <1>1
<1> QED  BY <1>1, <1>2, DropOk

LEMMA DropPubOk ==
    ASSUME NEW pu, NEW rp, NEW pb, NEW tl, LinesOk(pu, rp, pb, tl),
           NEW pb2 \in PubTable, \A p \in LogPubs : pb2[p].todo = pb[p].todo /\ pb2[p].n = pb[p].n,
           NEW tl2 \in TailTable, tl2["log"] \in {tl["log"], <<>>}
    PROVE  LinesOk(pu, rp, pb2, tl2)
<1>1. /\ pu \in PushType /\ rp \in RpcTable
      /\ Inj(pu.chan) /\ Inj(pu.batch) /\ Inj(tl["log"])
      /\ \A j \in RpcIds : WireInj(rp[j].wire)
      /\ \A p \in LogPubs : Inj(pb[p].todo)
    BY DEF LinesOk
<1>2. Inj(tl2["log"]) /\ ToSet(tl2["log"]) \subseteq ToSet(tl["log"])
    BY <1>1, EmptyLine
<1>3. \A p \in LogPubs : Inj(pb2[p].todo) /\ ToSet(pb2[p].todo) \subseteq ToSet(pb[p].todo)
    BY <1>1
<1>4. pb2[0].n = pb[0].n
    BY DEF LogPubs
<1> QED  BY <1>1, <1>2, <1>3, <1>4, DropOk

\* The parts of the type that the push loop leaves alone.
LEMMA PushFrame ==
    ASSUME LineInv, UNCHANGED_but_push, push' \in PushType, rpc' \in RpcTable,
           push'.st = "up" => push'.id \in RpcIds,
           LinesOk(push', rpc', pub, tail)
    PROVE  LineInv'
<1>1. pub' = pub /\ tail' = tail
    BY DEF UNCHANGED_but_push
<1>2. RepType'
    BY <1>1 DEF LineInv, RepType
<1> QED  BY <1>1, <1>2 DEF LineInv

\* Nothing but the state of the push loop changes.
LEMMA PushStateOk ==
    ASSUME LineInv, NEW st \in {"connect", "up", "backoff"}, push' = [push EXCEPT !.st = st],
           st = "up" => push.id \in RpcIds, UNCHANGED rpc, UNCHANGED_but_push
    PROVE  LineInv'
<1>1. RepType /\ LinesOk(push, rpc, pub, tail)
    BY DEF LineInv
<1>2. /\ push' \in PushType /\ push'.emitted = push.emitted /\ push'.chan = push.chan /\ push'.batch = push.batch
      /\ push'.id = push.id /\ push'.st = st
    BY <1>1, RepFacts DEF PushType
<1>3. LinesOk(push', rpc, pub, tail)
    BY <1>1, <1>2, DropPushOk
<1> QED  BY <1>1, <1>2, <1>3, PushFrame DEF RepType

LEMMA OnEventOk ==
    ASSUME LineInv, on_event
    PROVE  LineInv'
<1> DEFINE l == <<"sandbox", push.emitted + 1>>
           c == IF Len(push.chan) < ChanCap THEN Append(push.chan, l) ELSE push.chan
<1>1. RepType /\ LinesOk(push, rpc, pub, tail)
    BY DEF LineInv
<1>2. push.emitted \in Nat /\ push.chan \in Batch
    BY <1>1, RepFacts
<1>3. push' = [push EXCEPT !.emitted = @ + 1, !.chan = c] /\ rpc' = rpc /\ UNCHANGED_but_push
    BY DEF on_event
<1>4. l \in Line
    BY <1>2 DEF Line
<1>5. c \in Batch
    BY <1>2, <1>4, AppendLine
<1>6. c \in {push.chan, Append(push.chan, <<"sandbox", push.emitted + 1>>)}
    OBVIOUS
<1> HIDE DEF c, l
<1>7. /\ push' \in PushType /\ push'.emitted = push.emitted + 1 /\ push'.chan = c /\ push'.batch = push.batch
      /\ push'.id = push.id /\ push'.st = push.st
    <2>1. push.emitted + 1 \in Nat
        BY <1>2
    <2> QED  BY <1>1, <1>3, <1>5, <2>1, RepFacts DEF PushType
<1>8. LinesOk(push', rpc, pub, tail)
    BY <1>1, <1>6, <1>7, EmitOk
<1> QED  BY <1>1, <1>3, <1>7, <1>8, PushFrame DEF RepType

LEMMA PushConnectOk ==
    ASSUME LineInv, PushConnect
    PROVE  LineInv'
<1>1. RepType /\ LinesOk(push, rpc, pub, tail) /\ Inj(push.batch) /\ UNCHANGED_but_push
    BY DEF LineInv, LinesOk, PushConnect
<1>2. CASE push' = [push EXCEPT !.st = "backoff"] /\ UNCHANGED rpc
    BY <1>1, <1>2, PushStateOk
<1>3. CASE /\ push.id + 1 \in RpcIds
           /\ push' = [push EXCEPT !.st = "up", !.id = @ + 1, !.batch = <<>>]
           /\ rpc' = [rpc EXCEPT ![push.id + 1] =
                        [st |-> "open", valid |-> FALSE,
                         wire |-> IF push.batch = <<>> THEN <<>> ELSE <<push.batch>>]]
    <2> DEFINE i == push.id + 1
               w == IF push.batch = <<>> THEN <<>> ELSE <<push.batch>>
    <2>1. w \in Wires /\ WireInj(w) /\ WireLines(w) \subseteq ToSet(push.batch)
        <3>1. push.batch \in Batch
            BY <1>1, RepFacts
        <3> QED  BY <1>1, <3>1, EmptyWire, WireOne
    <2>2. i \in RpcIds /\ i \in Nat /\ <<>> \in Batch
        BY <1>3, PublisherAssumption, EmptyLine
    <2>3. /\ push' = [push EXCEPT !.st = "up", !.id = i, !.batch = <<>>]
          /\ rpc' = [rpc EXCEPT ![i] = [st |-> "open", valid |-> FALSE, wire |-> w]]
        BY <1>1, <1>3, RepFacts
    <2> HIDE DEF i, w
    <2>4. /\ push' \in PushType /\ push'.emitted = push.emitted /\ push'.chan = push.chan /\ push'.batch = <<>>
          /\ push'.id = i
        BY <1>1, <2>2, <2>3, RepFacts DEF PushType
    <2>5. rpc \in RpcTable /\ [st |-> "open", valid |-> FALSE, wire |-> w] \in RpcType
        BY <1>1, <2>1 DEF RepType, RpcType
    <2>6. rpc' \in RpcTable /\ rpc'[i].wire = w /\ \A j \in RpcIds : j # i => rpc'[j] = rpc[j]
        BY <2>2, <2>3, <2>5 DEF RpcTable
    <2>7. WireInj(rpc'[i].wire) /\ WireLines(rpc'[i].wire) \subseteq WireLines(rpc[i].wire) \cup ToSet(push.batch)
        BY <2>1, <2>6
    <2>8. LinesOk(push', rpc', pub, tail)
        BY <1>1, <2>2, <2>4, <2>6, <2>7, HandOk
    <2> QED  BY <1>1, <2>2, <2>4, <2>6, <2>8, PushFrame
<1> QED  BY <1>2, <1>3 DEF PushConnect

LEMMA DrainBackoffOk ==
    ASSUME LineInv, drain_during_backoff
    PROVE  LineInv'
<1>1. RepType /\ LinesOk(push, rpc, pub, tail) /\ UNCHANGED_but_push /\ rpc' = rpc /\ push.st = "backoff"
    BY DEF LineInv, drain_during_backoff
<1>2. CASE push' = [push EXCEPT !.st = "connect"]
    BY <1>1, <1>2, PushStateOk
<1>3. CASE /\ push.chan # <<>>
           /\ push' = [push EXCEPT !.chan = Tail(@),
                         !.batch = IF Len(@) < MaxBuffered THEN Append(@, Head(push.chan)) ELSE @]
    <2> DEFINE c == Tail(push.chan)
               l == Head(push.chan)
               b == IF Len(push.batch) < MaxBuffered THEN Append(push.batch, l) ELSE push.batch
    <2>1. push.chan \in Batch /\ push.batch \in Batch
        BY <1>1, RepFacts
    <2>2. c \in Batch /\ l \in Line
        BY <1>3, <2>1, TailLine
    <2>3. b \in Batch
        BY <2>1, <2>2, AppendLine
    <2>4. push' = [push EXCEPT !.chan = c, !.batch = b]
        BY <1>1, <1>3, RepFacts
    <2>5. b \in {push.batch, Append(push.batch, Head(push.chan))} /\ c = Tail(push.chan)
        OBVIOUS
    <2> HIDE DEF c, l, b
    <2>6. /\ push' \in PushType /\ push'.emitted = push.emitted /\ push'.chan = c /\ push'.batch = b
          /\ push'.st = push.st
        BY <1>1, <2>2, <2>3, <2>4, RepFacts DEF PushType
    <2>7. LinesOk(push', rpc, pub, tail)
        BY <1>1, <1>3, <2>5, <2>6, TakeOk
    <2> QED  BY <1>1, <2>6, <2>7, PushFrame DEF RepType
<1> QED  BY <1>2, <1>3 DEF drain_during_backoff

LEMMA SendBatchOk ==
    ASSUME LineInv, NEW p, LinesOk(p, rpc, pub, tail), p.id \in RpcIds, SendBatch(p), UNCHANGED_but_push
    PROVE  LineInv'
<1>1. RepType /\ p \in PushType /\ rpc \in RpcTable /\ p.batch \in Batch /\ Inj(p.batch)
    BY LineFacts DEF LineInv, LinesOk
<1>2. CASE /\ rpc[p.id].st = "open"
           /\ rpc' = [rpc EXCEPT ![p.id].wire = Append(@, p.batch)]
           /\ push' = [p EXCEPT !.batch = <<>>]
    <2> DEFINE i == p.id
               w == Append(rpc[i].wire, p.batch)
    <2>1. rpc[i].wire \in Wires /\ WireInj(rpc[i].wire)
        BY <1>1, RepFacts DEF LinesOk
    <2>2. ToSet(p.batch) \cap WireLines(rpc[i].wire) = {}
        <3> DEFINE H == Lines(p, rpc, pub, tail)
        <3>1. H[InBatch] = ToSet(p.batch) /\ H[OnWire(i)] = WireLines(rpc[i].wire)
            BY LinesFacts
        <3>2. InBatch \in Spots /\ OnWire(i) \in Spots /\ InBatch # OnWire(i)
            BY SpotsFacts
        <3>3. Disjoint(H)
            BY DEF LinesOk
        <3> HIDE DEF H
        <3>4. H[InBatch] \cap H[OnWire(i)] = {}
            BY <3>2, <3>3 DEF Disjoint
        <3> QED  BY <3>1, <3>4
    <2>3. w \in Wires /\ WireInj(w) /\ WireLines(w) = WireLines(rpc[i].wire) \cup ToSet(p.batch)
        BY <1>1, <2>1, <2>2, WireAppend
    <2>4. rpc' = [rpc EXCEPT ![i].wire = w]
        BY <1>2
    <2> HIDE DEF w
    <2>5. /\ rpc' \in RpcTable /\ rpc'[i].wire = w /\ \A j \in RpcIds : j # i => rpc'[j] = rpc[j]
        <3>1. [rpc[i] EXCEPT !.wire = w] \in RpcType /\ [rpc[i] EXCEPT !.wire = w].wire = w
            <4>1. rpc[i] \in RpcType
                BY <1>1 DEF RpcTable
            <4> QED  BY <2>3, <4>1, RpcSet
        <3>2. rpc' = [rpc EXCEPT ![i] = [rpc[i] EXCEPT !.wire = w]]
            BY <2>4
        <3> QED  BY <1>1, <3>1, <3>2 DEF RpcTable
    <2>6. /\ push' \in PushType /\ push'.emitted = p.emitted /\ push'.chan = p.chan /\ push'.batch = <<>>
          /\ push'.id = p.id
        BY <1>1, <1>2, EmptyLine DEF PushType
    <2>7. LinesOk(push', rpc', pub, tail)
        BY <2>3, <2>5, <2>6, HandOk
    <2> QED  BY <1>1, <2>5, <2>6, <2>7, PushFrame
<1>3. CASE push' = [p EXCEPT !.batch = <<>>, !.st = "connect"] /\ UNCHANGED rpc
    <2>1. /\ push' \in PushType /\ push'.emitted = p.emitted /\ push'.chan = p.chan /\ push'.batch = <<>>
          /\ push'.id = p.id
        BY <1>1, <1>3, EmptyLine DEF PushType
    <2>2. LinesOk(push', rpc, pub, tail)
        BY <2>1, DropPushOk
    <2> QED  BY <1>1, <1>3, <2>1, <2>2, PushFrame
<1> QED  BY <1>2, <1>3 DEF SendBatch

LEMMA PushLoopOk ==
    ASSUME LineInv, run_push_loop
    PROVE  LineInv'
<1>1. RepType /\ LinesOk(push, rpc, pub, tail) /\ UNCHANGED_but_push /\ push.st = "up" /\ push.id \in RpcIds
    BY DEF LineInv, RepType, run_push_loop
<1>2. CASE push' = [push EXCEPT !.st = "connect"] /\ UNCHANGED rpc
    BY <1>1, <1>2, PushStateOk
<1>3. CASE SendBatch(push)
    BY <1>1, <1>3, SendBatchOk
<1>4. CASE /\ push.chan # <<>>
           /\ LET p == [push EXCEPT !.chan = Tail(@), !.batch = Append(@, Head(push.chan))]
              IN IF Len(p.batch) >= PushBatch THEN SendBatch(p) ELSE push' = p /\ UNCHANGED rpc
    <2> DEFINE c == Tail(push.chan)
               b == Append(push.batch, Head(push.chan))
               p0 == [push EXCEPT !.chan = c, !.batch = b]
    <2>1. push.chan \in Batch /\ push.batch \in Batch
        BY <1>1, RepFacts
    <2>2. c \in Batch /\ b \in Batch
        BY <1>4, <2>1, TailLine, AppendLine
    <2>3. SendBatch(p0) \/ (push' = p0 /\ UNCHANGED rpc)
        BY <1>4
    <2>4. b = Append(push.batch, Head(push.chan)) /\ c = Tail(push.chan)
        OBVIOUS
    <2> HIDE DEF c, b
    <2>5. /\ p0 \in PushType /\ p0.emitted = push.emitted /\ p0.chan = c /\ p0.batch = b /\ p0.id = push.id
        BY <1>1, <2>2, RepFacts DEF PushType
    <2> HIDE DEF p0
    <2>6. LinesOk(p0, rpc, pub, tail)
        BY <1>1, <1>4, <2>4, <2>5, TakeOk
    <2>7. CASE SendBatch(p0)
        BY <1>1, <2>5, <2>6, <2>7, SendBatchOk
    <2>8. CASE push' = p0 /\ UNCHANGED rpc
        BY <1>1, <2>5, <2>6, <2>8, PushFrame DEF RepType
    <2> QED  BY <2>3, <2>7, <2>8
<1> QED  BY <1>2, <1>3, <1>4 DEF run_push_loop

LEMMA StreamBreaksOk ==
    ASSUME LineInv, NEW i \in RpcIds, StreamBreaks(i)
    PROVE  LineInv'
<1>1. RepType /\ LinesOk(push, rpc, pub, tail) /\ UNCHANGED_but_push /\ push' = push /\ rpc \in RpcTable
    BY DEF LineInv, RepType, StreamBreaks
<1>2. PICK n \in 0 .. Len(rpc[i].wire) :
            rpc' = [rpc EXCEPT ![i].st = "broken", ![i].wire = SubSeq(@, 1, n)]
    BY DEF StreamBreaks
<1> DEFINE w == SubSeq(rpc[i].wire, 1, n)
           r == [rpc[i] EXCEPT !.st = "broken", !.wire = w]
<1>3. rpc[i].wire \in Wires /\ WireInj(rpc[i].wire)
    BY <1>1, RepFacts DEF LinesOk
<1>4. w \in Wires /\ WireInj(w) /\ WireLines(w) \subseteq WireLines(rpc[i].wire)
    BY <1>3, WirePrefix
<1>5. rpc' = [rpc EXCEPT ![i] = r]
    BY <1>1, <1>2 DEF RpcTable
<1> HIDE DEF w
<1>6. r \in RpcType /\ r.wire = w
    <2>1. rpc[i] \in RpcType
        BY <1>1 DEF RpcTable
    <2> QED  BY <1>4, <2>1, RpcSet
<1> HIDE DEF r
<1>7. rpc' \in RpcTable /\ rpc'[i].wire = w /\ \A j \in RpcIds : j # i => rpc'[j] = rpc[j]
    BY <1>1, <1>5, <1>6 DEF RpcTable
<1>8. LinesOk(push, rpc', pub, tail)
    BY <1>1, <1>4, <1>7, DropRpcOk
<1> QED  BY <1>1, <1>7, <1>8, PushFrame DEF RepType

LEMMA PubFrame ==
    ASSUME LineInv, UNCHANGED push, rpc' \in RpcTable, pub' \in PubTable, tail' \in TailTable,
           \A p \in Publishers : pub'[p].sent => pub'[p].todo # <<>>,
           LinesOk(push, rpc', pub', tail')
    PROVE  LineInv'
<1>1. RepType'
    BY DEF LineInv, RepType
<1> QED  BY <1>1 DEF LineInv

LEMMA PushSandboxLogsOk ==
    ASSUME LineInv, NEW i \in RpcIds, push_sandbox_logs(i)
    PROVE  LineInv'
<1>1. /\ RepType /\ LinesOk(push, rpc, pub, tail) /\ push' = push /\ tail' = tail
      /\ rpc \in RpcTable /\ pub \in PubTable /\ tail \in TailTable
      /\ rpc[i].wire # <<>> /\ pub[i].todo = <<>>
    BY DEF LineInv, RepType, push_sandbox_logs
<1>2. rpc[i] \in RpcType /\ rpc[i].wire \in Wires /\ i \in Publishers /\ pub[i] \in PubType
    BY <1>1, RepFacts DEF RpcTable, PubTable
<1>3. CASE rpc' = [rpc EXCEPT ![i] = [@ EXCEPT !.st = "broken", !.wire = <<>>]] /\ UNCHANGED pub
    <2> DEFINE r == [rpc[i] EXCEPT !.st = "broken", !.wire = <<>>]
    <2>1. r \in RpcType /\ r.wire = <<>>
        BY <1>2, EmptyWire, RpcSet
    <2>2. rpc' = [rpc EXCEPT ![i] = r]
        BY <1>3
    <2> HIDE DEF r
    <2>3. rpc' \in RpcTable /\ rpc'[i].wire = <<>> /\ \A j \in RpcIds : j # i => rpc'[j] = rpc[j]
        BY <1>1, <2>1, <2>2 DEF RpcTable
    <2>4. WireInj(rpc'[i].wire) /\ WireLines(rpc'[i].wire) \subseteq WireLines(rpc[i].wire)
        BY <2>3, EmptyWire
    <2>5. LinesOk(push, rpc', pub, tail)
        BY <1>1, <2>3, <2>4, DropRpcOk
    <2>6. pub' = pub /\ \A p \in Publishers : pub[p].sent => pub[p].todo # <<>>
        BY <1>1, <1>3 DEF RepType
    <2> QED  BY <1>1, <2>3, <2>5, <2>6, PubFrame
<1>4. CASE /\ rpc' = [rpc EXCEPT ![i].wire = Tail(@), ![i].valid = TRUE]
           /\ pub' = [pub EXCEPT ![i].todo =
                        LET lines == Head(rpc[i].wire)
                        IN SubSeq(lines, 1, IF Len(lines) < LineCap THEN Len(lines) ELSE LineCap)]
    <2> DEFINE w == Tail(rpc[i].wire)
               h == Head(rpc[i].wire)
               n == IF Len(h) < LineCap THEN Len(h) ELSE LineCap
               s == SubSeq(h, 1, n)
               r == [rpc[i] EXCEPT !.wire = w, !.valid = TRUE]
               q == [pub[i] EXCEPT !.todo = s]
    <2>1. w \in Wires /\ h \in Batch
        BY <1>1, <1>2, WireTail
    <2>2. n \in 0 .. Len(h)
        <3>1. Len(h) \in Nat
            BY <2>1 DEF Batch
        <3> HIDE DEF h
        <3> QED  BY <3>1, CapAssumption
    <2>3. rpc' = [rpc EXCEPT ![i] = r] /\ pub' = [pub EXCEPT ![i] = q]
        BY <1>1, <1>4 DEF RpcTable, PubTable
    <2>4. s \in Batch
        <3> HIDE DEF n, h
        <3> QED  BY <2>1, <2>2, PrefixLine
    <2>5. w = Tail(rpc[i].wire) /\ s = SubSeq(Head(rpc[i].wire), 1, n) /\ n \in 0 .. Len(Head(rpc[i].wire))
        BY <2>2
    <2> HIDE DEF w, h, n, s
    <2>6. r \in RpcType /\ r.wire = w
        BY <1>2, <2>1, RpcSet
    <2>7. q \in PubType /\ q.todo = s /\ q.sent = pub[i].sent
        BY <1>2, <2>4, PubTodo
    <2> HIDE DEF r, q
    <2>8. /\ rpc' \in RpcTable /\ rpc'[i].wire = w /\ \A j \in RpcIds : j # i => rpc'[j] = rpc[j]
        BY <1>1, <2>3, <2>6 DEF RpcTable
    <2>9. /\ pub' \in PubTable /\ pub'[i].todo = s /\ pub'[i].sent = pub[i].sent
          /\ \A p \in Publishers : p # i => pub'[p] = pub[p]
        BY <1>1, <1>2, <2>3, <2>7 DEF PubTable
    <2>10. \A p \in LogPubs : p # i => pub'[p] = pub[p]
        BY <1>1, <2>9, RepFacts
    <2>11. LinesOk(push, rpc', pub', tail)
        BY <1>1, <2>5, <2>8, <2>9, <2>10, AcceptOk
    <2>12. \A p \in Publishers : pub'[p].sent => pub'[p].todo # <<>>
        BY <1>1, <2>9 DEF RepType
    <2> QED  BY <1>1, <2>8, <2>9, <2>11, <2>12, PubFrame
<1> QED  BY <1>3, <1>4 DEF push_sandbox_logs

LEMMA GatewayLogsOk ==
    ASSUME LineInv, GatewayLogs
    PROVE  LineInv'
<1>1. /\ RepType /\ LinesOk(push, rpc, pub, tail) /\ push' = push /\ tail' = tail /\ rpc' = rpc
      /\ rpc \in RpcTable /\ pub \in PubTable /\ tail \in TailTable
      /\ pub[0].todo = <<>> /\ 0 \in Publishers
    BY RepFacts DEF LineInv, RepType, GatewayLogs
<1> DEFINE l == <<"gateway", pub[0].n>>
           s == <<l>>
           m == pub[0].n + 1
           q == [pub[0] EXCEPT !.todo = s, !.n = m]
<1>2. pub[0] \in PubType /\ pub[0].n \in Nat
    BY <1>1, RepFacts DEF PubTable
<1>3. l \in Line
    BY <1>2 DEF Line
<1>4. s = <<<<"gateway", pub[0].n>>>>
    OBVIOUS
<1>5. pub' = [pub EXCEPT ![0] = q]
    BY DEF GatewayLogs
<1> HIDE DEF l
<1>6. s \in Batch
    BY <1>3, OneLine
<1> HIDE DEF s
<1>7. q \in PubType /\ q.todo = s /\ q.n = pub[0].n + 1 /\ q.sent = pub[0].sent
    <2>1. PICK r : r = pub[0]
        OBVIOUS
    <2>2. PICK z : z = s
        OBVIOUS
    <2>3. PICK k : k = pub[0].n + 1
        OBVIOUS
    <2>4. q = [r EXCEPT !.todo = z, !.n = k]
        BY <2>1, <2>2, <2>3
    <2>5. r \in PubType /\ z \in Batch /\ k \in Nat
        BY <1>2, <1>6, <2>1, <2>2, <2>3
    <2>6. /\ [r EXCEPT !.todo = z, !.n = k] \in PubType
          /\ [r EXCEPT !.todo = z, !.n = k].todo = z /\ [r EXCEPT !.todo = z, !.n = k].n = k
          /\ [r EXCEPT !.todo = z, !.n = k].sent = r.sent
        BY <2>5 DEF PubType
    <2> HIDE DEF q
    <2> QED  BY <2>1, <2>2, <2>3, <2>4, <2>6
<1> HIDE DEF q
<1>8. /\ pub' \in PubTable /\ pub'[0] = q /\ \A p \in Publishers : p # 0 => pub'[p] = pub[p]
    BY <1>1, <1>5, <1>7 DEF PubTable
<1>9. \A p \in LogPubs : p # 0 => pub'[p] = pub[p]
    BY <1>1, <1>8, RepFacts
<1>10. LinesOk(push, rpc, pub', tail)
    BY <1>1, <1>4, <1>7, <1>8, <1>9, OwnLineOk
<1>11. \A p \in Publishers : pub'[p].sent => pub'[p].todo # <<>>
    BY <1>1, <1>7, <1>8 DEF RepType
<1> QED  BY <1>1, <1>8, <1>10, <1>11, PubFrame

\* Only a field of a publisher that no line of the log depends on changes.
LEMMA OtherPubOk ==
    ASSUME LineInv, UNCHANGED <<push, rpc, tail>>, NEW p \in Publishers, NEW q \in PubType,
           pub' = [pub EXCEPT ![p] = q], q.sent => q.todo # <<>>,
           p \in LogPubs => q.todo = pub[p].todo /\ q.n = pub[p].n
    PROVE  LineInv'
<1>1. /\ RepType /\ LinesOk(push, rpc, pub, tail)
      /\ rpc \in RpcTable /\ pub \in PubTable /\ tail \in TailTable
    BY DEF LineInv, RepType
<1>2. pub' \in PubTable /\ pub'[p] = q /\ \A x \in Publishers : x # p => pub'[x] = pub[x]
    BY <1>1 DEF PubTable
<1>3. \A x \in LogPubs : pub'[x].todo = pub[x].todo /\ pub'[x].n = pub[x].n
    <2> TAKE x \in LogPubs
    <2>1. x \in Publishers
        BY <1>1, RepFacts
    <2> QED  BY <1>2, <2>1
<1>4. LinesOk(push, rpc, pub', tail)
    BY <1>1, <1>2, <1>3, DropPubOk
<1>5. \A x \in Publishers : pub'[x].sent => pub'[x].todo # <<>>
    BY <1>1, <1>2 DEF RepType
<1> QED  BY <1>1, <1>2, <1>4, <1>5, PubFrame

LEMMA KubeEventOk ==
    ASSUME LineInv, map_kube_event_to_platform
    PROVE  LineInv'
<1>1. RepType /\ UNCHANGED <<push, rpc, tail>> /\ pub \in PubTable /\ pub[None].todo = <<>>
    BY DEF LineInv, RepType, map_kube_event_to_platform
<1> DEFINE l == <<"event", pub[None].n>>
           s == <<l>>
           m == pub[None].n + 1
           q == [pub[None] EXCEPT !.todo = s, !.n = m]
<1>2. None \in Publishers /\ None \notin LogPubs /\ pub[None] \in PubType /\ pub[None].n \in Nat
    BY <1>1, RepFacts DEF PubTable
<1>3. l \in Line
    BY <1>2 DEF Line
<1>4. pub' = [pub EXCEPT ![None] = q]
    BY DEF map_kube_event_to_platform
<1> HIDE DEF l
<1>5. s \in Batch
    BY <1>3, OneLine
<1> HIDE DEF s
<1>6. q \in PubType /\ q.sent = pub[None].sent
    <2>1. PICK r : r = pub[None]
        OBVIOUS
    <2>2. PICK z : z = s
        OBVIOUS
    <2>3. PICK k : k = pub[None].n + 1
        OBVIOUS
    <2>4. q = [r EXCEPT !.todo = z, !.n = k]
        BY <2>1, <2>2, <2>3
    <2>5. r \in PubType /\ z \in Batch /\ k \in Nat
        BY <1>2, <1>5, <2>1, <2>2, <2>3
    <2>6. /\ [r EXCEPT !.todo = z, !.n = k] \in PubType
          /\ [r EXCEPT !.todo = z, !.n = k].todo = z /\ [r EXCEPT !.todo = z, !.n = k].n = k
          /\ [r EXCEPT !.todo = z, !.n = k].sent = r.sent
        BY <2>5 DEF PubType
    <2> HIDE DEF q
    <2> QED  BY <2>1, <2>2, <2>3, <2>4, <2>6
<1>7. ~pub[None].sent
    BY <1>1, <1>2 DEF RepType
<1> HIDE DEF q
<1> QED  BY <1>1, <1>2, <1>4, <1>6, <1>7, OtherPubOk

LEMMA PublishSendOk ==
    ASSUME LineInv, NEW p \in Publishers, PublishSend(p)
    PROVE  LineInv'
<1>1. RepType /\ UNCHANGED <<push, rpc, tail>> /\ pub \in PubTable /\ pub[p].todo # <<>>
    BY DEF LineInv, RepType, PublishSend
<1> DEFINE q == [pub[p] EXCEPT !.sent = TRUE]
<1>2. pub[p] \in PubType
    BY <1>1 DEF PubTable
<1>3. pub' = [pub EXCEPT ![p] = q]
    BY <1>1 DEF PublishSend
<1>4. q \in PubType /\ q.todo = pub[p].todo /\ q.n = pub[p].n
    BY <1>2, PubSent
<1> HIDE DEF q
<1> QED  BY <1>1, <1>3, <1>4, OtherPubOk

LEMMA PublishTailOk ==
    ASSUME LineInv, NEW p \in Publishers, PublishTail(p)
    PROVE  LineInv'
<1>1. /\ RepType /\ LinesOk(push, rpc, pub, tail) /\ push' = push /\ rpc' = rpc
      /\ rpc \in RpcTable /\ pub \in PubTable /\ tail \in TailTable
      /\ pub[p].sent /\ pub[p].todo # <<>> /\ Inj(tail["log"])
    BY DEF LineInv, RepType, PublishTail, LinesOk
<1>2. pub[p] \in PubType /\ pub[p].todo \in Batch /\ BusOf(p) \in Buses
    BY <1>1, RepFacts DEF PubTable, BusOf
<1> DEFINE h == Head(pub[p].todo)
           u == Tail(pub[p].todo)
           q == [pub[p] EXCEPT !.todo = u, !.sent = FALSE]
           b == BusOf(p)
           a == Append(tail[b], h)
           t == IF Len(a) > TailCap THEN Tail(a) ELSE a
<1>3. h \in Line /\ u \in Batch /\ h \in ToSet(pub[p].todo)
    BY <1>1, <1>2, TailLine
<1>4. pub' = [pub EXCEPT ![p] = q] /\ tail' = [tail EXCEPT ![b] = t]
    BY DEF PublishTail
<1>a. u = Tail(pub[p].todo) /\ h = Head(pub[p].todo)
    OBVIOUS
<1> HIDE DEF h, u, b
<1>5. a \in Batch /\ ToSet(a) = ToSet(tail[b]) \cup {h} /\ (Inj(tail[b]) /\ h \notin ToSet(tail[b]) => Inj(a)) /\ a # <<>>
    <2>1. tail[b] \in Batch
        BY <1>1, <1>2, RepFacts DEF b
    <2>2. a # <<>>
        BY <2>1 DEF Batch
    <2> QED  BY <1>3, <2>1, <2>2, AppendLine
<1> HIDE DEF a
<1>6. t \in Batch /\ ToSet(t) \subseteq ToSet(a) /\ (Inj(a) => Inj(t))
    BY <1>5, TailLine
<1> HIDE DEF t
<1>7. q \in PubType /\ q.todo = u /\ q.n = pub[p].n /\ ~q.sent
    BY <1>2, <1>3, PubDone
<1> HIDE DEF q
<1>8. /\ pub' \in PubTable /\ pub'[p] = q /\ \A x \in Publishers : x # p => pub'[x] = pub[x]
    BY <1>1, <1>4, <1>7 DEF PubTable
<1>9. /\ tail' \in TailTable /\ tail'[b] = t /\ \A x \in Buses : x # b => tail'[x] = tail[x]
    BY <1>1, <1>2, <1>4, <1>6 DEF TailTable, b
<1>10. \A x \in Publishers : pub'[x].sent => pub'[x].todo # <<>>
    BY <1>1, <1>7, <1>8 DEF RepType
<1>11. CASE p \in LogPubs
    <2>1. b = "log"
        BY <1>1, <1>11, RepFacts DEF BusOf, b
    <2>2. h \notin ToSet(tail["log"])
        <3> DEFINE H == Lines(push, rpc, pub, tail)
        <3>1. H[InTail] = ToSet(tail["log"]) /\ H[ToDo(p)] = ToSet(pub[p].todo)
            BY <1>11, LinesFacts
        <3>2. InTail \in Spots /\ ToDo(p) \in Spots /\ InTail # ToDo(p)
            BY <1>11, SpotsFacts
        <3>3. Disjoint(H)
            BY <1>1 DEF LinesOk
        <3> HIDE DEF H
        <3>4. H[InTail] \cap H[ToDo(p)] = {}
            BY <3>2, <3>3 DEF Disjoint
        <3> QED  BY <1>3, <3>1, <3>4
    <2>3. Inj(tail'["log"]) /\ ToSet(tail'["log"]) \subseteq ToSet(tail["log"]) \cup {Head(pub[p].todo)}
        BY <1>1, <1>5, <1>6, <1>9, <1>a, <2>1, <2>2
    <2>4. \A x \in LogPubs : x # p => pub'[x] = pub[x]
        BY <1>1, <1>8, RepFacts
    <2>5. LinesOk(push, rpc, pub', tail')
        BY <1>1, <1>7, <1>8, <1>9, <1>11, <1>a, <2>3, <2>4, ReachTailOk
    <2> QED  BY <1>1, <1>8, <1>9, <1>10, <2>5, PubFrame
<1>12. CASE p \notin LogPubs
    <2>1. b # "log" /\ "log" \in Buses
        BY <1>1, <1>12, RepFacts DEF BusOf, b, Publishers, LogPubs
    <2>2. tail'["log"] = tail["log"]
        BY <1>9, <2>1
    <2>3. \A x \in LogPubs : pub'[x].todo = pub[x].todo /\ pub'[x].n = pub[x].n
        BY <1>1, <1>8, <1>12, RepFacts
    <2>4. LinesOk(push, rpc, pub', tail')
        BY <1>1, <1>8, <1>9, <2>2, <2>3, DropPubOk
    <2> QED  BY <1>1, <1>8, <1>9, <1>10, <2>4, PubFrame
<1> QED  BY <1>11, <1>12

LEMMA RemoveSandboxOk ==
    ASSUME LineInv, RemoveSandbox
    PROVE  LineInv'
<1>1. /\ RepType /\ LinesOk(push, rpc, pub, tail) /\ push' = push /\ rpc' = rpc /\ pub' = pub
      /\ tail' = [b \in Buses |-> <<>>]
      /\ rpc \in RpcTable /\ pub \in PubTable
      /\ \A x \in Publishers : pub[x].sent => pub[x].todo # <<>>
    BY DEF LineInv, RepType, RemoveSandbox
<1>2. tail' \in TailTable /\ tail'["log"] = <<>>
    BY <1>1, EmptyLine DEF TailTable, Buses
<1>3. LinesOk(push, rpc, pub, tail')
    BY <1>1, <1>2, DropPubOk
<1> QED  BY <1>1, <1>2, <1>3, PubFrame

LEMMA LineInitOk ==
    ASSUME RepInit
    PROVE  LineInv
<1>1. /\ push = [st |-> IF setup.grpc THEN "connect" ELSE "off", emitted |-> 0, chan |-> <<>>, batch |-> <<>>, id |-> 0]
      /\ rpc = [i \in RpcIds |-> [st |-> "none", wire |-> <<>>, valid |-> FALSE]]
      /\ pub = [p \in Publishers |-> [todo |-> <<>>, sent |-> FALSE, n |-> 0]]
      /\ tail = [b \in Buses |-> <<>>]
    BY DEF RepInit
<1> DEFINE r == [st |-> "none", wire |-> <<>>, valid |-> FALSE]
           q == [todo |-> <<>>, sent |-> FALSE, n |-> 0]
<1>2. r \in RpcType /\ r.wire = <<>>
    BY EmptyWire DEF RpcType
<1>3. q \in PubType /\ q.todo = <<>> /\ ~q.sent
    BY EmptyLine DEF PubType
<1>4. push \in PushType /\ push.chan = <<>> /\ push.batch = <<>> /\ push.st # "up"
    <2>1. <<>> \in Batch
        BY EmptyLine
    <2> QED  BY <1>1, <2>1 DEF PushType
<1>5. rpc = [i \in RpcIds |-> r] /\ pub = [p \in Publishers |-> q]
    BY <1>1
<1> HIDE DEF r, q
<1>6. /\ rpc \in RpcTable /\ \A i \in RpcIds : rpc[i].wire = <<>>
      /\ pub \in PubTable /\ \A p \in Publishers : pub[p].todo = <<>> /\ ~pub[p].sent
    BY <1>2, <1>3, <1>5 DEF RpcTable, PubTable
<1>7. tail \in TailTable /\ tail["log"] = <<>>
    BY <1>1, EmptyLine DEF TailTable, Buses
<1>8. RepType
    BY <1>4, <1>6, <1>7 DEF RepType
<1>9. \A p \in LogPubs : pub[p].todo = <<>>
    BY <1>6, <1>8, RepFacts
<1> DEFINE H == Lines(push, rpc, pub, tail)
<1>10. /\ H[InChan] = {} /\ H[InBatch] = {} /\ H[InTail] = {}
       /\ \A i \in RpcIds : H[OnWire(i)] = {}
       /\ \A p \in LogPubs : H[ToDo(p)] = {}
    <2>1. ToSet(<<>>) = {} /\ WireLines(<<>>) = {}
        BY EmptyLine, EmptyWire
    <2>2. /\ H[InChan] = ToSet(push.chan) /\ H[InBatch] = ToSet(push.batch) /\ H[InTail] = ToSet(tail["log"])
          /\ \A i \in RpcIds : H[OnWire(i)] = WireLines(rpc[i].wire)
          /\ \A p \in LogPubs : H[ToDo(p)] = ToSet(pub[p].todo)
        BY LinesFacts
    <2> HIDE DEF H
    <2> QED  BY <1>4, <1>6, <1>7, <1>9, <2>1, <2>2
<1> HIDE DEF H
<1>11. \A a \in Spots : H[a] = {}
    BY <1>10, SpotsFacts
<1>12. Disjoint(H) /\ \A a \in Spots : H[a] \subseteq OldLines(push.emitted, pub[0].n)
    BY <1>11 DEF Disjoint
<1>13. Inj(<<>>) /\ WireInj(<<>>)
    BY EmptyLine, EmptyWire
<1> QED  BY <1>4, <1>6, <1>7, <1>8, <1>9, <1>12, <1>13 DEF LineInv, LinesOk, H

LEMMA LineNextOk ==
    ASSUME LineInv, [Next]_vars
    PROVE  LineInv'
<1>1. CASE UNCHANGED <<push, rpc, pub, tail>>
    BY <1>1 DEF LineInv, RepType
<1>2. CASE Denials
    <2>1. UNCHANGED <<push, rpc, pub, tail>>
        BY <1>2 DEF Denials, emit_denial, parse_kmsg_line, Denied, ingest, drain, flush_proposals_to_gateway,
                    UNCHANGED_but_den
    <2> QED  BY <2>1, <1>1
<1>3. CASE Pushing
    BY <1>3, OnEventOk, PushConnectOk, DrainBackoffOk, PushLoopOk, StreamBreaksOk DEF Pushing
<1>4. CASE Publishing
    BY <1>4, PushSandboxLogsOk, GatewayLogsOk, KubeEventOk, PublishSendOk, PublishTailOk, RemoveSandboxOk
       DEF Publishing
<1>5. CASE Watching
    <2>1. UNCHANGED <<push, rpc, pub, tail>>
        BY <1>5 DEF Watching, WatchValidate, WatchSubscribe, WatchReplay, WatchFollow, Unwatched
    <2> QED  BY <2>1, <1>1
<1>6. CASE (SshNext /\ UNCHANGED repVars) \/ UNCHANGED vars
    BY <1>1, <1>6 DEF repVars, vars
<1> QED  BY <1>2, <1>3, <1>4, <1>5, <1>6 DEF Next

LEMMA RepInvAlways == Spec => [](DenInv /\ LineInv)
<1>1. Init => DenInv /\ LineInv
    BY DenInitOk, LineInitOk DEF Init
<1>2. DenInv /\ LineInv /\ [Next]_vars => DenInv' /\ LineInv'
    BY DenNextOk, LineNextOk
<1> QED  BY <1>1, <1>2, PTL DEF Spec

\* Whatever fails half way (mechanistic_mapper.rs and grpc.rs: a submission that
\* stores a part of a batch of denials; log_push.rs: a stream that breaks with
\* batches in flight; grpc.rs: an exec request that is tried again), a denial is
\* counted, a log line published and a command started at most once, for any
\* capacities, retries and number of streams.
THEOREM ReportedOnce == Spec => []AtMostOnce
<1>1. SshInv /\ DenInv /\ LineInv => AtMostOnce
    <2> SUFFICES ASSUME SshInv, DenInv, LineInv
                 PROVE  AtMostOnce
        OBVIOUS
    <2>1. ASSUME NEW k \in Keys, chunk[k] # None
          PROVE  chunk[k].hits <= den.total[k]
        <3>1. /\ den.sum[k].count \in Nat /\ den.total[k] \in Nat /\ Queued(den.queue, k) \in Nat
              /\ Flushing(den.flush, k) \in Nat /\ Hits(chunk[k]) \in Nat
              /\ Hits(chunk[k]) + Flushing(den.flush, k) + den.sum[k].count + Queued(den.queue, k) <= den.total[k]
            BY DenFacts DEF DenInv
        <3>2. Hits(chunk[k]) = chunk[k].hits
            BY <2>1 DEF Hits
        <3> QED  BY <3>1, <3>2
    <2>2. \A i, j \in DOMAIN tail["log"] : i # j => tail["log"][i] # tail["log"][j]
        BY DEF LineInv, LinesOk, Inj
    <2>3. Cardinality({i \in DOMAIN setup.attempts : proc[setup.attempts[i]] # "none"}) <= 1
        <3> DEFINE T == {i \in DOMAIN setup.attempts : proc[setup.attempts[i]] # "none"}
        <3>1. ASSUME NEW i \in T PROVE i = exec.attempt
            <4>1. setup.attempts[i] \in Channels
                BY SetupFacts DEF SshInv, ProcInv
            <4>2. SessOk(sess[setup.attempts[i]], proc[setup.attempts[i]], waited[setup.attempts[i]],
                         code[setup.attempts[i]], setup.attempts[i] \in early)
                BY <4>1 DEF SshInv, SessionOk
            <4>3. sess[setup.attempts[i]].st # "none"
                BY <4>2 DEF SessOk
            <4> QED  BY <4>3 DEF SshInv, ExecInv
        <3> HIDE DEF T
        <3>2. T \subseteq {exec.attempt}
            BY <3>1
        <3>3. IsFiniteSet({exec.attempt}) /\ Cardinality({exec.attempt}) = 1
            BY FS_Singleton
        <3>4. Cardinality(T) <= 1
            BY <3>2, <3>3, FS_Subset
        <3> QED  BY <3>4 DEF T
    <2> QED  BY <2>1, <2>2, <2>3 DEF AtMostOnce
<1> QED  BY <1>1, SshInvAlways, RepInvAlways, PTL

-------------------------------------------------------------------------------
(* A watch stream that follows: what is half published and what is in the tails
   has been shown, is queued, or was half published when it subscribed. *)

WatchStates == {"none", "valid", "subscribed", "live", "closed", "ended"}
LineSets == SUBSET Line
WatchType == [st : WatchStates, q : TailTable, seen : LineSets, skip : LineSets, lag : BOOLEAN]
Shown(w, b) == w.seen \cup ToSet(w.q[b]) \cup w.skip
HalfOk(w, pb) == \A p \in Publishers : pb[p].sent => Head(pb[p].todo) \in Shown(w, BusOf(p))
TailOk(w, tl) == \A b \in Buses : ToSet(tl[b]) \subseteq Shown(w, b)

WatchInv ==
    /\ watch \in WatchType
    /\ watch.st \in {"none", "valid", "subscribed"} => watch.seen = {}
    /\ Subscribed /\ ~watch.lag => HalfOk(watch, pub)
    /\ watch.st = "live" /\ ~watch.lag => TailOk(watch, tail)

LEMMA WatchFacts ==
    ASSUME watch \in WatchType
    PROVE  /\ watch = [st |-> watch.st, q |-> watch.q, seen |-> watch.seen, skip |-> watch.skip, lag |-> watch.lag]
           /\ watch.st \in WatchStates /\ watch.q \in TailTable /\ watch.seen \in LineSets
           /\ watch.skip \in LineSets /\ watch.lag \in BOOLEAN
           /\ \A b \in Buses : watch.q[b] \in Batch
<1>1. /\ watch = [st |-> watch.st, q |-> watch.q, seen |-> watch.seen, skip |-> watch.skip, lag |-> watch.lag]
      /\ watch.st \in WatchStates /\ watch.q \in TailTable /\ watch.seen \in LineSets
      /\ watch.skip \in LineSets /\ watch.lag \in BOOLEAN
    BY DEF WatchType
<1> QED  BY <1>1 DEF TailTable

LEMMA BusOfOk == \A p \in Publishers : BusOf(p) \in Buses
BY DEF BusOf, Buses

\* The stream is not touched, and no line becomes half published or reaches a tail.
LEMMA UnwatchedOk ==
    ASSUME WatchInv, UNCHANGED watch,
           \A p \in Publishers : pub'[p].sent => pub[p].sent /\ Head(pub'[p].todo) = Head(pub[p].todo),
           \A b \in Buses : ToSet(tail'[b]) \subseteq ToSet(tail[b])
    PROVE  WatchInv'
<1>1. watch' = watch /\ Subscribed' = Subscribed
    BY DEF Subscribed
<1>2. HalfOk(watch, pub) => HalfOk(watch, pub')
    BY DEF HalfOk
<1>3. TailOk(watch, tail) => TailOk(watch, tail')
    BY DEF TailOk
<1> QED  BY <1>1, <1>2, <1>3 DEF WatchInv

\* A stream that does not follow.
LEMMA NotFollowingOk ==
    ASSUME WatchInv, NEW st \in {"valid", "ended", "closed"}, watch' = [watch EXCEPT !.st = st],
           st = "valid" => watch.st = "none"
    PROVE  WatchInv'
<1>1. watch \in WatchType
    BY DEF WatchInv
<1>2. /\ watch' \in WatchType /\ watch'.st = st /\ watch'.seen = watch.seen
    <2>1. st \in WatchStates
        BY DEF WatchStates
    <2> QED  BY <1>1, <2>1, WatchFacts DEF WatchType
<1>3. ~Subscribed' /\ watch'.st # "live"
    BY <1>2 DEF Subscribed
<1>4. watch'.st \in {"none", "valid", "subscribed"} => watch'.seen = {}
    BY <1>2 DEF WatchInv
<1> QED  BY <1>2, <1>3, <1>4 DEF WatchInv

LEMMA PublishSendWatch ==
    ASSUME RepType, WatchInv, NEW p \in Publishers, PublishSend(p)
    PROVE  WatchInv'
<1>1. /\ watch \in WatchType /\ tail' = tail /\ pub \in PubTable /\ pub[p].todo # <<>> /\ ~pub[p].sent
      /\ pub' = [pub EXCEPT ![p].sent = TRUE]
    BY DEF WatchInv, RepType, PublishSend
<1>2. \A x \in Publishers : pub'[x].todo = pub[x].todo /\ (x # p => pub'[x].sent = pub[x].sent)
    BY <1>1 DEF PubTable, PubType
<1> DEFINE b == BusOf(p)
           h == Head(pub[p].todo)
           q == Append(watch.q[b], h)
           t == IF Len(q) > RecvCap THEN Tail(q) ELSE q
           m == [watch.q EXCEPT ![b] = t]
           lag == watch.lag \/ Len(q) > RecvCap
<1>3. CASE ~Subscribed
    <2>1. watch' = watch
        BY <1>3 DEF PublishSend
    <2> QED  BY <1>1, <1>3, <2>1 DEF WatchInv, Subscribed
<1>4. CASE Subscribed
    <2>1. watch' = [watch EXCEPT !.q = m, !.lag = lag]
        BY <1>1, <1>4, WatchFacts DEF PublishSend
    <2>2. b \in Buses /\ h \in Line /\ watch.q[b] \in Batch
        BY <1>1, BusOfOk, RepFacts, TailLine, WatchFacts
    <2>a. h = Head(pub[p].todo)
        OBVIOUS
    <2> HIDE DEF h, b
    <2>3. q \in Batch /\ ToSet(q) = ToSet(watch.q[b]) \cup {h} /\ q # <<>>
        <3>1. q # <<>>
            BY <2>2 DEF Batch
        <3> QED  BY <2>2, <3>1, AppendLine
    <2> HIDE DEF q
    <2>4. t \in Batch /\ (~lag => t = q) /\ lag \in BOOLEAN /\ (~lag => ~watch.lag)
        <3>1. Tail(q) \in Batch
            BY <2>3, TailLine
        <3>2. watch.lag \in BOOLEAN
            BY <1>1, WatchFacts
        <3> QED  BY <2>3, <3>1, <3>2
    <2> HIDE DEF t, lag
    <2>5. m \in TailTable /\ m[b] = t /\ \A x \in Buses : x # b => m[x] = watch.q[x]
        BY <1>1, <2>2, <2>4, WatchFacts DEF TailTable
    <2> HIDE DEF m
    <2>6. /\ watch' \in WatchType /\ watch'.st = watch.st /\ watch'.q = m /\ watch'.seen = watch.seen
          /\ watch'.skip = watch.skip /\ watch'.lag = lag
        BY <1>1, <2>1, <2>4, <2>5, WatchFacts DEF WatchType
    <2>7. ASSUME ~lag, NEW x \in Buses PROVE Shown(watch, x) \subseteq Shown(watch', x)
        <3>1. ToSet(watch.q[x]) \subseteq ToSet(m[x])
            BY <2>3, <2>4, <2>5, <2>7
        <3> QED  BY <2>6, <3>1 DEF Shown
    <2>8. ~lag => h \in Shown(watch', b)
        <3>1. ~lag => h \in ToSet(m[b])
            BY <2>3, <2>4, <2>5
        <3> QED  BY <2>6, <3>1 DEF Shown
    <2>9. ASSUME ~lag PROVE HalfOk(watch', pub')
        <3> SUFFICES ASSUME NEW x \in Publishers, pub'[x].sent
                     PROVE  Head(pub'[x].todo) \in Shown(watch', BusOf(x))
            BY DEF HalfOk
        <3>1. CASE x = p
            BY <1>2, <2>8, <2>9, <2>a, <3>1 DEF b
        <3>2. CASE x # p
            <4>1. pub[x].sent /\ Head(pub'[x].todo) = Head(pub[x].todo)
                BY <1>2, <3>2
            <4>2. HalfOk(watch, pub)
                BY <1>4, <2>4, <2>9 DEF WatchInv
            <4>3. Head(pub[x].todo) \in Shown(watch, BusOf(x)) /\ BusOf(x) \in Buses
                BY <4>1, <4>2, BusOfOk DEF HalfOk
            <4> QED  BY <2>7, <2>9, <4>1, <4>3
        <3> QED  BY <3>1, <3>2
    <2>10. ASSUME ~lag, watch.st = "live" PROVE TailOk(watch', tail')
        <3>1. TailOk(watch, tail)
            BY <2>4, <2>10 DEF WatchInv
        <3> QED  BY <1>1, <2>7, <2>10, <3>1 DEF TailOk
    <2>11. Subscribed' = Subscribed
        BY <2>6 DEF Subscribed
    <2> QED  BY <2>6, <2>9, <2>10, <2>11 DEF WatchInv
<1> QED  BY <1>3, <1>4

LEMMA PublishTailWatch ==
    ASSUME RepType, WatchInv, NEW p \in Publishers, PublishTail(p)
    PROVE  WatchInv'
<1>1. /\ watch \in WatchType /\ watch' = watch /\ pub \in PubTable /\ tail \in TailTable
      /\ pub[p].sent /\ pub[p].todo # <<>>
    BY DEF WatchInv, RepType, PublishTail
<1> DEFINE h == Head(pub[p].todo)
           b == BusOf(p)
           a == Append(tail[b], h)
           t == IF Len(a) > TailCap THEN Tail(a) ELSE a
<1>2. /\ pub' = [pub EXCEPT ![p] = [pub[p] EXCEPT !.todo = Tail(@), !.sent = FALSE]]
      /\ tail' = [tail EXCEPT ![b] = t]
    BY DEF PublishTail
<1>3. ~pub'[p].sent /\ \A x \in Publishers : x # p => pub'[x] = pub[x]
    BY <1>1, <1>2 DEF PubTable, PubType
<1>4. b \in Buses /\ h \in Line /\ tail[b] \in Batch
    BY <1>1, BusOfOk, RepFacts, TailLine
<1>a. h = Head(pub[p].todo)
    OBVIOUS
<1> HIDE DEF h, b
<1>5. a \in Batch /\ ToSet(a) = ToSet(tail[b]) \cup {h} /\ a # <<>>
    <2>1. a # <<>>
        BY <1>4 DEF Batch
    <2> QED  BY <1>4, <2>1, AppendLine
<1> HIDE DEF a
<1>6. ToSet(t) \subseteq ToSet(a)
    BY <1>5, TailLine
<1> HIDE DEF t
<1>7. tail'[b] = t /\ \A x \in Buses : x # b => tail'[x] = tail[x]
    BY <1>1, <1>2, <1>4 DEF TailTable
<1>8. HalfOk(watch, pub) => HalfOk(watch, pub')
    BY <1>3 DEF HalfOk
<1>9. ASSUME HalfOk(watch, pub), TailOk(watch, tail) PROVE TailOk(watch, tail')
    <2>1. h \in Shown(watch, b)
        BY <1>1, <1>9, <1>a DEF HalfOk, b
    <2> QED  BY <1>4, <1>5, <1>6, <1>7, <1>9, <2>1 DEF TailOk
<1>10. Subscribed' = Subscribed /\ (watch.st = "live" => Subscribed)
    BY <1>1 DEF Subscribed
<1> QED  BY <1>1, <1>8, <1>9, <1>10 DEF WatchInv

LEMMA SubscribeOk ==
    ASSUME RepType, WatchInv, WatchSubscribe
    PROVE  WatchInv'
<1> DEFINE S == {Head(pub[p].todo) : p \in {x \in Publishers : pub[x].sent}}
<1>1. /\ watch \in WatchType /\ watch.st = "valid" /\ pub' = pub
      /\ watch' = [watch EXCEPT !.st = "subscribed", !.skip = S]
    BY DEF WatchInv, WatchSubscribe, Unwatched
<1>2. S \in LineSets
    <2>1. ASSUME NEW p \in Publishers, pub[p].sent PROVE Head(pub[p].todo) \in Line
        <3>1. pub[p].todo \in Batch /\ pub[p].todo # <<>>
            BY <2>1, RepFacts DEF RepType
        <3> QED  BY <3>1, TailLine
    <2> QED  BY <2>1 DEF LineSets
<1>3. \A p \in Publishers : pub[p].sent => Head(pub[p].todo) \in S
    OBVIOUS
<1> HIDE DEF S
<1>4. /\ watch' \in WatchType /\ watch'.st = "subscribed" /\ watch'.seen = watch.seen /\ watch'.skip = S
    <2>1. "subscribed" \in WatchStates
        BY DEF WatchStates
    <2> QED  BY <1>1, <1>2, <2>1, WatchFacts DEF WatchType
<1>5. HalfOk(watch', pub')
    BY <1>1, <1>3, <1>4 DEF HalfOk, Shown
<1>6. watch.seen = {}
    BY <1>1 DEF WatchInv
<1> QED  BY <1>4, <1>5, <1>6 DEF WatchInv

LEMMA ReplayOk ==
    ASSUME RepType, WatchInv, WatchReplay
    PROVE  WatchInv'
<1>1. /\ watch \in WatchType /\ watch.st = "subscribed" /\ pub' = pub /\ tail' = tail
    BY DEF WatchInv, WatchReplay, Unwatched
<1>2. CASE watch' = [watch EXCEPT !.st = "ended"]
    BY <1>2, NotFollowingOk
<1>3. CASE watch' = [watch EXCEPT !.st = "live", !.seen = Replay]
    <2>1. Replay \in LineSets
        <3>1. tail["log"] \in Batch /\ tail["event"] \in Batch
            BY RepFacts
        <3>2. \A s \in Batch : ToSet(s) \subseteq Line
            BY DEF Batch, ToSet
        <3> QED  BY <3>1, <3>2 DEF Replay, LineSets
    <2>2. /\ watch' \in WatchType /\ watch'.st = "live" /\ watch'.seen = Replay /\ watch'.q = watch.q
          /\ watch'.skip = watch.skip /\ watch'.lag = watch.lag
        <3>1. "live" \in WatchStates
            BY DEF WatchStates
        <3> QED  BY <1>1, <1>3, <2>1, <3>1, WatchFacts DEF WatchType
    <2>3. TailOk(watch', tail')
        <3>1. \A b \in Buses : ToSet(tail[b]) \subseteq Replay
            BY DEF Buses, Replay
        <3> QED  BY <1>1, <2>2, <3>1 DEF TailOk, Shown
    <2>4. watch.seen = {}
        BY <1>1 DEF WatchInv
    <2>5. HalfOk(watch, pub) => HalfOk(watch', pub')
        BY <1>1, <2>2, <2>4 DEF HalfOk, Shown
    <2>6. Subscribed
        BY <1>1 DEF Subscribed
    <2> QED  BY <2>2, <2>3, <2>5, <2>6 DEF WatchInv
<1> QED  BY <1>2, <1>3 DEF WatchReplay

LEMMA FollowOk ==
    ASSUME RepType, WatchInv, NEW b \in Buses, WatchFollow(b)
    PROVE  WatchInv'
<1>1. /\ watch \in WatchType /\ watch.st \in {"live", "closed"} /\ pub' = pub /\ tail' = tail
    BY DEF WatchInv, WatchFollow, Unwatched
<1>2. CASE watch' = [watch EXCEPT !.st = "ended"]
    BY <1>2, NotFollowingOk
<1>3. CASE /\ watch.q[b] # <<>>
           /\ watch' = [watch EXCEPT !.q[b] = Tail(@), !.seen = @ \cup {Head(watch.q[b])}]
    <2> DEFINE t == Tail(watch.q[b])
               h == Head(watch.q[b])
               m == [watch.q EXCEPT ![b] = t]
               seen == watch.seen \cup {h}
    <2>1. watch.q \in TailTable /\ watch.q[b] \in Batch /\ watch.seen \in LineSets
        BY <1>1, WatchFacts
    <2>2. t \in Batch /\ h \in Line /\ ToSet(watch.q[b]) = ToSet(t) \cup {h}
        BY <1>3, <2>1, TailLine
    <2>3. watch' = [watch EXCEPT !.q = m, !.seen = seen]
        BY <1>1, <1>3, WatchFacts
    <2> HIDE DEF t, h
    <2>4. m \in TailTable /\ m[b] = t /\ \A x \in Buses : x # b => m[x] = watch.q[x]
        BY <2>1, <2>2 DEF TailTable
    <2>5. seen \in LineSets
        BY <2>1, <2>2 DEF LineSets
    <2>6. seen = watch.seen \cup {h}
        OBVIOUS
    <2> HIDE DEF m, seen
    <2>7. /\ watch' \in WatchType /\ watch'.st = watch.st /\ watch'.seen = seen /\ watch'.q = m
          /\ watch'.skip = watch.skip /\ watch'.lag = watch.lag
        BY <1>1, <2>3, <2>4, <2>5, WatchFacts DEF WatchType
    <2>8. \A x \in Buses : Shown(watch, x) \subseteq Shown(watch', x)
        BY <2>2, <2>4, <2>6, <2>7 DEF Shown
    <2>9. HalfOk(watch, pub) => HalfOk(watch', pub')
        BY <1>1, <2>8, BusOfOk DEF HalfOk
    <2>10. TailOk(watch, tail) => TailOk(watch', tail')
        BY <1>1, <2>8 DEF TailOk
    <2>11. Subscribed' = Subscribed
        BY <2>7 DEF Subscribed
    <2> QED  BY <1>1, <2>7, <2>9, <2>10, <2>11 DEF WatchInv
<1> QED  BY <1>2, <1>3 DEF WatchFollow

LEMMA RemoveWatch ==
    ASSUME WatchInv, RemoveSandbox
    PROVE  WatchInv'
<1>1. /\ watch \in WatchType /\ tail' = [b \in Buses |-> <<>>] /\ pub' = pub
      /\ watch' = [watch EXCEPT !.st = IF Subscribed THEN "closed" ELSE @]
    BY DEF WatchInv, RemoveSandbox
<1>2. CASE Subscribed
    <2>1. watch' = [watch EXCEPT !.st = "closed"]
        BY <1>1, <1>2
    <2> QED  BY <2>1, NotFollowingOk
<1>3. CASE ~Subscribed
    <2>1. watch' = watch
        BY <1>1, <1>3, WatchFacts
    <2> QED  BY <1>3, <2>1 DEF WatchInv, Subscribed
<1> QED  BY <1>2, <1>3

\* A publisher that has nothing left takes new lines.
LEMMA TakesWatch ==
    ASSUME RepType, WatchInv, UNCHANGED <<tail, watch>>, NEW p \in Publishers, pub[p].todo = <<>>,
           pub'[p].sent = pub[p].sent, \A x \in Publishers : x # p => pub'[x] = pub[x]
    PROVE  WatchInv'
<1>1. ~pub[p].sent
    BY DEF RepType
<1> QED  BY <1>1, UnwatchedOk

LEMMA PublishingWatch ==
    ASSUME RepType, WatchInv, Publishing
    PROVE  WatchInv'
<1>1. pub \in PubTable
    BY DEF RepType
<1>2. ASSUME NEW i \in RpcIds, push_sandbox_logs(i) PROVE WatchInv'
    <2>1. i \in Publishers /\ pub[i].todo = <<>> /\ UNCHANGED <<tail, watch>>
        BY <1>2 DEF push_sandbox_logs, Publishers
    <2>2. pub'[i].sent = pub[i].sent /\ \A x \in Publishers : x # i => pub'[x] = pub[x]
        BY <1>1, <1>2, <2>1 DEF push_sandbox_logs, PubTable, PubType
    <2> QED  BY <2>1, <2>2, TakesWatch
<1>3. CASE GatewayLogs
    <2>1. 0 \in Publishers /\ pub[0].todo = <<>> /\ UNCHANGED <<tail, watch>>
        BY <1>3 DEF GatewayLogs, Publishers
    <2>2. pub'[0].sent = pub[0].sent /\ \A x \in Publishers : x # 0 => pub'[x] = pub[x]
        BY <1>1, <1>3, <2>1 DEF GatewayLogs, PubTable, PubType
    <2> QED  BY <2>1, <2>2, TakesWatch
<1>4. CASE map_kube_event_to_platform
    <2>1. None \in Publishers /\ pub[None].todo = <<>> /\ UNCHANGED <<tail, watch>>
        BY <1>4 DEF map_kube_event_to_platform, Publishers
    <2>2. pub'[None].sent = pub[None].sent /\ \A x \in Publishers : x # None => pub'[x] = pub[x]
        BY <1>1, <1>4, <2>1 DEF map_kube_event_to_platform, PubTable, PubType
    <2> QED  BY <2>1, <2>2, TakesWatch
<1> QED  BY <1>2, <1>3, <1>4, RemoveWatch, PublishSendWatch, PublishTailWatch DEF Publishing

LEMMA WatchingOk ==
    ASSUME RepType, WatchInv, Watching
    PROVE  WatchInv'
<1>1. CASE WatchValidate
    BY <1>1, NotFollowingOk DEF WatchValidate
<1> QED  BY <1>1, SubscribeOk, ReplayOk, FollowOk DEF Watching

LEMMA WatchInitOk ==
    ASSUME RepInit
    PROVE  WatchInv
<1> DEFINE m == [b \in Buses |-> <<>>]
<1>1. watch = [st |-> "none", q |-> m, seen |-> {}, skip |-> {}, lag |-> FALSE]
    BY DEF RepInit
<1>2. m \in TailTable /\ {} \in LineSets /\ "none" \in WatchStates
    BY EmptyLine DEF TailTable, LineSets, WatchStates
<1> HIDE DEF m
<1>3. watch \in WatchType /\ watch.st = "none" /\ watch.seen = {}
    BY <1>1, <1>2 DEF WatchType
<1> QED  BY <1>3 DEF WatchInv, Subscribed

LEMMA WatchNextOk ==
    ASSUME RepType, WatchInv, [Next]_vars
    PROVE  WatchInv'
<1>1. CASE UNCHANGED <<pub, tail, watch>>
    BY <1>1, UnwatchedOk
<1>2. CASE Denials
    <2>1. UNCHANGED <<pub, tail, watch>>
        BY <1>2 DEF Denials, emit_denial, parse_kmsg_line, Denied, ingest, drain, flush_proposals_to_gateway,
                    UNCHANGED_but_den
    <2> QED  BY <2>1, <1>1
<1>3. CASE Pushing
    <2>1. UNCHANGED <<pub, tail, watch>>
        BY <1>3 DEF Pushing, on_event, PushConnect, drain_during_backoff, run_push_loop, StreamBreaks,
                    UNCHANGED_but_push
    <2> QED  BY <2>1, <1>1
<1>4. CASE (SshNext /\ UNCHANGED repVars) \/ UNCHANGED vars
    BY <1>1, <1>4 DEF repVars, vars
<1> QED  BY <1>2, <1>3, <1>4, PublishingWatch, WatchingOk DEF Next

\* A watch stream that follows a sandbox (watch_sandbox subscribes to the buses,
\* then reads the record, then replays the tails) and has not lagged has shown or
\* will show every line and event of the tails, but for lines that were half
\* published when it subscribed: for any number of publishers and any capacities.
THEOREM StreamShowsTails == Spec => []LinesReachStream
<1>1. Init => WatchInv
    BY WatchInitOk DEF Init
<1>2. LineInv => RepType
    BY DEF LineInv
<1>3. RepType /\ WatchInv /\ [Next]_vars => WatchInv'
    BY WatchNextOk
<1>4. WatchInv => LinesReachStream
    BY DEF WatchInv, LinesReachStream, TailOk, Shown
<1> QED  BY <1>1, <1>2, <1>3, <1>4, RepInvAlways, PTL DEF Spec


===============================================================================
