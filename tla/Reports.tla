------------------------------ MODULE Reports -------------------------------
(***************************************************************************)
(* What a running sandbox reports to the gateway: summaries of denied      *)
(* connections, turned into rule proposals, and its log lines, which the   *)
(* gateway publishes on a bus with a tail next to its own lines and to     *)
(* Kubernetes events, and which watch streams follow.  Delivery is best    *)
(* effort: everything may be lost, nothing may be reported twice.          *)
(***************************************************************************)
EXTENDS SshServer

CONSTANTS Keys,         \* (host, port, binary) of a denial
          Private,      \* keys whose host resolves to an internal address
          WellKnown,    \* keys whose port is a well-known one
          Repeated,     \* denials of a batch that raise the confidence (3; the step at 10 is left out)
          ChanCap,      \* lines between the tracing layer and the push loop (1024)
          PushBatch,    \* lines that are sent at once (50)
          PushSlots,    \* batches handed to a stream and not sent (32)
          MaxBuffered,  \* lines kept while reconnecting (200)
          LineCap,      \* lines of a batch the gateway takes (100)
          TailCap,      \* lines in a tail (2000, 50 for events)
          RecvCap,      \* lines a receiver may be behind (1024)
          RpcIds        \* bound: push streams of a behaviour, 1 .. n

\* An exec request makes each of its attempts on a channel of its own; the exit
\* code of a process is neither of the two marks of its waiter.
ASSUME SetupAssumption ==
    \A s \in Setups :
        /\ DOMAIN s.init = DOMAIN Booted /\ s.init.pid \in {None, Entry}
        /\ s.conn \in [Channels -> Conns]
        /\ s.attempts \in Seq(Channels)
        /\ \A i, j \in DOMAIN s.attempts : s.attempts[i] = s.attempts[j] => i = j
        /\ s.codes \cap {None, Lost} = {}

ASSUME PublisherAssumption == RpcIds \subseteq Nat \ {0} /\ None \notin Nat
ASSUME CapAssumption == LineCap \in Nat

VARIABLES den,      \* denial channel, summaries, the batch being flushed
          chunk,    \* the gateway's draft chunks: hit_count and what was proposed first
          push,     \* the push loop: st, batch and its stream
          rpc,      \* the push_sandbox_logs streams, both ends
          pub,      \* lines a publisher still has to publish
          tail,     \* tails of the two buses
          watch,    \* one watch_sandbox stream
          record    \* the sandbox record and its index entry

repVars == <<den, chunk, push, rpc, pub, tail, watch, record>>
vars == <<allVars, repVars>>

Buses == {"log", "event"}
Publishers == RpcIds \cup {0, None}     \* the streams, the gateway's own lines (0), the tailer
BusOf(p) == IF p = None THEN "event" ELSE "log"

NoSummary == [count |-> 0, stage |-> None]
RepInit ==
    /\ den = [queue |-> <<>>, sum |-> [k \in Keys |-> NoSummary], flush |-> None,
              total |-> [k \in Keys |-> 0]]
    /\ chunk = [k \in Keys |-> None]
    /\ push = [st |-> IF setup.grpc THEN "connect" ELSE "off", emitted |-> 0, chan |-> <<>>, batch |-> <<>>, id |-> 0]
    /\ rpc = [i \in RpcIds |-> [st |-> "none", wire |-> <<>>, valid |-> FALSE]]
    /\ pub = [p \in Publishers |-> [todo |-> <<>>, sent |-> FALSE, n |-> 0]]
    /\ tail = [b \in Buses |-> <<>>]
    /\ watch = [st |-> "none", q |-> [b \in Buses |-> <<>>], seen |-> {}, skip |-> {}, lag |-> FALSE]
    /\ record = [row |-> TRUE, index |-> FALSE]

UNCHANGED_but_den == UNCHANGED <<allVars, chunk, push, rpc, pub, tail, watch, record>>

-----------------------------------------------------------------------------
(* Denials: the aggregator task. *)

Denied(k, stage) ==
    /\ sup.phase = "running" /\ setup.grpc
    /\ den.total[k] < setup.denials[k]
    /\ den' = [den EXCEPT !.queue = Append(@, [key |-> k, stage |-> stage]), !.total[k] = @ + 1]
    /\ UNCHANGED_but_den

\* The proxy denies a connection: by policy, or because of the address.
emit_denial(k) == sup.proxy /\ \E stage \in {"connect", "ssrf"} : Denied(k, stage)

\* The monitor finds a connection around the proxy in the kernel log, which only a
\* LOG rule of the family puts there; the binary of the key may be unknown.
parse_kmsg_line(k) == sup.monitor /\ (net.v4 \cup net.v6) \cap LogRules # {} /\ Denied(k, "bypass")

\* Events merge by key; the stage of a summary is that of its first event.
ingest ==
    /\ Alive /\ den.queue # <<>> /\ den.flush = None
    /\ LET e == Head(den.queue)
           s == den.sum[e.key]
       IN den' = [den EXCEPT !.queue = Tail(@),
                    !.sum[e.key] = [count |-> s.count + 1,
                                    stage |-> IF s.count = 0 THEN e.stage ELSE s.stage]]
    /\ UNCHANGED_but_den

\* The summaries are taken out before they are sent, and the loop waits for the
\* outcome; the client fetches a connection first.
Mutant_KeepUntilSent ==
    /\ Alive /\ den.flush = None
    /\ \E k \in Keys : den.sum[k].count > 0
    /\ den' = [den EXCEPT !.flush = den.sum]
    /\ UNCHANGED_but_den
drain ==
    /\ Alive /\ den.flush = None
    /\ \E k \in Keys : den.sum[k].count > 0
    /\ den' = [den EXCEPT !.flush = den.sum, !.sum = [k \in Keys |-> NoSummary]]
    /\ UNCHANGED_but_den

\* In hundredths.
compute_confidence(count, known, ssrf) ==
    50 + (IF count >= Repeated THEN 10 ELSE 0) + (IF known THEN 15 ELSE 0) - (IF ssrf THEN 20 ELSE 0)

\* All addresses of the host, if one of them is internal and the lookup succeeds.
is_internal_ip(k) == k \in Private
resolve_allowed_ips_if_private(k) == {FALSE} \cup {ips \in {TRUE} : is_internal_ip(k)}

\* One proposal per key.
generate_proposals(sum, ips) ==
    [k \in {x \in Keys : sum[x].count > 0} |->
        [hits |-> sum[k].count, ips |-> ips[k],
         confidence |-> compute_confidence(sum[k].count, k \in WellKnown, sum[k].stage = "ssrf")]]

\* The first proposal of a key is stored, a later one only adds its hits.
put_draft_chunk(old, new) == IF old = None THEN new ELSE [old EXCEPT !.hits = @ + new.hits]

\* The gateway upserts the proposals one by one and may stop at any of them; the
\* supervisor drops the batch whatever the answer is, or when there is none.
flush_proposals_to_gateway ==
    /\ Alive /\ den.flush # None
    /\ \E ips \in [Keys -> BOOLEAN] :
          LET proposals == generate_proposals(den.flush, ips) IN
          /\ \A k \in Keys : ips[k] \in resolve_allowed_ips_if_private(k)
          /\ \E done \in SUBSET DOMAIN proposals :
                /\ ~record.row => done = {}
                /\ chunk' = [k \in Keys |-> IF k \in done THEN put_draft_chunk(chunk[k], proposals[k])
                                                           ELSE chunk[k]]
    /\ den' = [den EXCEPT !.flush = None]
    /\ UNCHANGED <<allVars, push, rpc, pub, tail, watch, record>>

-----------------------------------------------------------------------------
(* Log lines: the tracing layer and the push loop. *)

UNCHANGED_but_push == UNCHANGED <<allVars, den, chunk, pub, tail, watch, record>>

\* The tracing layer never waits: a line for a full channel is dropped.
on_event ==
    /\ Alive /\ setup.grpc /\ push.emitted < setup.lines
    /\ push' = [push EXCEPT !.emitted = @ + 1,
                  !.chan = IF Len(@) < ChanCap THEN Append(@, <<"sandbox", push.emitted + 1>>) ELSE @]
    /\ UNCHANGED rpc
    /\ UNCHANGED_but_push

\* A new stream takes the lines kept while there was none.
PushConnect ==
    /\ Alive /\ push.st = "connect"
    /\ \/ /\ push.id + 1 \in RpcIds
          /\ push' = [push EXCEPT !.st = "up", !.id = @ + 1, !.batch = <<>>]
          /\ rpc' = [rpc EXCEPT ![push.id + 1] =
                       [st |-> "open", valid |-> FALSE,
                        wire |-> IF push.batch = <<>> THEN <<>> ELSE <<push.batch>>]]
       \/ /\ push' = [push EXCEPT !.st = "backoff"]
          /\ UNCHANGED rpc
    /\ UNCHANGED_but_push

drain_during_backoff ==
    /\ Alive /\ push.st = "backoff"
    /\ \/ /\ push.chan # <<>>
          /\ push' = [push EXCEPT !.chan = Tail(@),
                        !.batch = IF Len(@) < MaxBuffered THEN Append(@, Head(push.chan)) ELSE @]
       \/ push' = [push EXCEPT !.st = "connect"]
    /\ UNCHANGED rpc
    /\ UNCHANGED_but_push

\* The lines are moved out of the batch before they are handed to the stream: a
\* stream that is gone loses them.
SendBatch(p) ==
    IF rpc[p.id].st = "open"
    THEN /\ Len(rpc[p.id].wire) < PushSlots
         /\ rpc' = [rpc EXCEPT ![p.id].wire = Append(@, p.batch)]
         /\ push' = [p EXCEPT !.batch = <<>>]
    ELSE push' = [p EXCEPT !.batch = <<>>, !.st = "connect"] /\ UNCHANGED rpc

run_push_loop ==
    /\ Alive /\ push.st = "up"
    /\ \/ /\ push.chan # <<>>
          /\ LET p == [push EXCEPT !.chan = Tail(@), !.batch = Append(@, Head(push.chan))]
             IN IF Len(p.batch) >= PushBatch THEN SendBatch(p) ELSE push' = p /\ UNCHANGED rpc
       \/ push.batch # <<>> /\ SendBatch(push)
       \/ /\ rpc[push.id].st # "open"
          /\ push' = [push EXCEPT !.st = "connect"]
          /\ UNCHANGED rpc
    /\ UNCHANGED_but_push

\* A stream breaks: what the gateway has received it may still read.
StreamBreaks(i) ==
    /\ rpc[i].st = "open"
    /\ \E n \in 0 .. Len(rpc[i].wire) :
          rpc' = [rpc EXCEPT ![i].st = "broken", ![i].wire = SubSeq(@, 1, n)]
    /\ UNCHANGED push
    /\ UNCHANGED_but_push

-----------------------------------------------------------------------------
(* The gateway: push_sandbox_logs and the buses. *)

\* The record is looked up for the first batch of a stream only; of each batch a
\* fixed number of lines is taken.
push_sandbox_logs(i) ==
    /\ rpc[i].wire # <<>> /\ pub[i].todo = <<>>
    /\ IF rpc[i].valid \/ record.row
       THEN /\ rpc' = [rpc EXCEPT ![i].wire = Tail(@), ![i].valid = TRUE]
            /\ pub' = [pub EXCEPT ![i].todo =
                         LET lines == Head(rpc[i].wire)
                         IN SubSeq(lines, 1, IF Len(lines) < LineCap THEN Len(lines) ELSE LineCap)]
       ELSE /\ rpc' = [rpc EXCEPT ![i] = [@ EXCEPT !.st = "broken", !.wire = <<>>]]
            /\ UNCHANGED pub
    /\ UNCHANGED <<allVars, den, chunk, push, tail, watch, record>>

\* A log statement of the gateway that names the sandbox.
GatewayLogs ==
    /\ pub[0].n < setup.gateway /\ pub[0].todo = <<>>
    /\ pub' = [pub EXCEPT ![0] = [pub[0] EXCEPT !.todo = <<<<"gateway", pub[0].n>>>>, !.n = @ + 1]]
    /\ UNCHANGED <<allVars, den, chunk, push, rpc, tail, watch, record>>

\* A Kubernetes event finds its sandbox by the name in the index.
map_kube_event_to_platform ==
    /\ pub[None].n < setup.events /\ record.index /\ pub[None].todo = <<>>
    /\ pub' = [pub EXCEPT ![None] = [pub[None] EXCEPT !.todo = <<<<"event", pub[None].n>>>>, !.n = @ + 1]]
    /\ UNCHANGED <<allVars, den, chunk, push, rpc, tail, watch, record>>

\* publish: the line goes to the receivers there are, then, under the lock, to
\* the tail.  A receiver that is too far behind loses its oldest line.
Subscribed == watch.st \in {"subscribed", "live"}
PublishSend(p) ==
    /\ pub[p].todo # <<>> /\ ~pub[p].sent
    /\ pub' = [pub EXCEPT ![p].sent = TRUE]
    /\ watch' = IF ~Subscribed THEN watch ELSE
                LET q == Append(watch.q[BusOf(p)], Head(pub[p].todo))
                IN [watch EXCEPT !.q[BusOf(p)] = IF Len(q) > RecvCap THEN Tail(q) ELSE q,
                                 !.lag = @ \/ Len(q) > RecvCap]
    /\ UNCHANGED <<allVars, den, chunk, push, rpc, tail, record>>

PublishTail(p) ==
    /\ pub[p].sent
    /\ tail' = [tail EXCEPT ![BusOf(p)] =
                  LET t == Append(@, Head(pub[p].todo)) IN IF Len(t) > TailCap THEN Tail(t) ELSE t]
    /\ pub' = [pub EXCEPT ![p] = [pub[p] EXCEPT !.todo = Tail(@), !.sent = FALSE]]
    /\ UNCHANGED <<allVars, den, chunk, push, rpc, watch, record>>

\* The sandbox is deleted: its row, index entry, senders and tails go, and its
\* receivers are closed.
RemoveSandbox ==
    /\ setup.deletes /\ record.row
    /\ record' = [row |-> FALSE, index |-> FALSE]
    /\ tail' = [b \in Buses |-> <<>>]
    /\ watch' = [watch EXCEPT !.st = IF Subscribed THEN "closed" ELSE @]
    /\ UNCHANGED <<allVars, den, chunk, push, rpc, pub>>

-----------------------------------------------------------------------------
(* watch_sandbox with logs and events: validate, subscribe, read the record
   and fill the index, replay the tails, then follow. *)

Unwatched == UNCHANGED <<allVars, den, chunk, push, rpc, pub, tail>>

WatchValidate ==
    /\ setup.watch /\ watch.st = "none"
    /\ watch' = [watch EXCEPT !.st = IF record.row THEN "valid" ELSE "ended"]
    /\ UNCHANGED record /\ Unwatched

\* History: a line that was sent before and is not in the tail yet is the one
\* line this stream may miss.
WatchSubscribe ==
    /\ watch.st = "valid"
    /\ watch' = [watch EXCEPT !.st = "subscribed",
                   !.skip = {Head(pub[p].todo) : p \in {x \in Publishers : pub[x].sent}}]
    /\ UNCHANGED record /\ Unwatched

update_from_sandbox == [record EXCEPT !.index = TRUE]

Replay == ToSet(tail["log"]) \cup ToSet(tail["event"])
Mutant_NoReplay ==
    /\ watch.st = "subscribed"
    /\ watch' = [watch EXCEPT !.st = "live"]
    /\ record' = update_from_sandbox /\ Unwatched
WatchReplay ==
    /\ watch.st = "subscribed"
    /\ IF record.row THEN /\ watch' = [watch EXCEPT !.st = "live", !.seen = Replay]
                          /\ record' = update_from_sandbox
                     ELSE watch' = [watch EXCEPT !.st = "ended"] /\ UNCHANGED record
    /\ Unwatched

\* A receiver that lagged ends the stream with an error, a closed one after the
\* lines it still has.
WatchFollow(b) ==
    /\ watch.st \in {"live", "closed"}
    /\ IF watch.lag THEN watch' = [watch EXCEPT !.st = "ended"]
       ELSE \/ /\ watch.q[b] # <<>>
               /\ watch' = [watch EXCEPT !.q[b] = Tail(@), !.seen = @ \cup {Head(watch.q[b])}]
            \/ /\ watch.q[b] = <<>> /\ watch.st = "closed"
               /\ watch' = [watch EXCEPT !.st = "ended"]
    /\ UNCHANGED record /\ Unwatched

-----------------------------------------------------------------------------
Denials == \/ \E k \in Keys : emit_denial(k) \/ parse_kmsg_line(k)
           \/ ingest \/ drain \/ flush_proposals_to_gateway
Pushing == \/ on_event \/ PushConnect \/ drain_during_backoff \/ run_push_loop
           \/ \E i \in RpcIds : StreamBreaks(i)
Publishing == \/ \E i \in RpcIds : push_sandbox_logs(i)
              \/ GatewayLogs \/ map_kube_event_to_platform \/ RemoveSandbox
              \/ \E p \in Publishers : PublishSend(p) \/ PublishTail(p)
Watching == WatchValidate \/ WatchSubscribe \/ WatchReplay \/ (\E b \in Buses : WatchFollow(b))

Init == SupInit /\ SshInit /\ RepInit
Next == (SshNext /\ UNCHANGED repVars) \/ Denials \/ Pushing \/ Publishing \/ Watching

Spec == Init /\ [][Next]_vars
FairSpec == Spec /\ SshFairness

-----------------------------------------------------------------------------
\* Nothing that may fail half way is done twice: a denial is counted at most once
\* although a submission may fail after the gateway stored a part of it, a log
\* line is published at most once over any number of broken streams, and the
\* command of one exec request is started at most once over its attempts.
AtMostOnce ==
    /\ \A k \in Keys : chunk[k] # None => chunk[k].hits <= den.total[k]
    /\ \A i, j \in DOMAIN tail["log"] : i # j => tail["log"][i] # tail["log"][j]
    /\ Cardinality({i \in DOMAIN setup.attempts : proc[setup.attempts[i]] # "none"}) <= 1

\* A stream that follows a sandbox shows every line and event in the tails: the
\* ones before its subscription by the replay, the later ones live, except the
\* one line whose publication was half done when it subscribed (grpc.rs:
\* "Subscribe to all buses BEFORE reading the snapshot"). A receiver that lagged
\* is not silent about it: the stream ends.
LinesReachStream ==
    watch.st = "live" /\ ~watch.lag =>
       \A b \in Buses : ToSet(tail[b]) \subseteq watch.seen \cup ToSet(watch.q[b]) \cup watch.skip
=============================================================================
