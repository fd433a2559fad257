--------------------------- MODULE SandboxLifecycle ---------------------------
(***************************************************************************)
(* The life of the sandboxes of ONE name, between the gateway's store, its *)
(* watch bus and the Sandbox custom resource in Kubernetes                 *)
(* (crates/clustershell-server/src: create_sandbox, delete_sandbox and     *)
(* watch_sandbox of grpc.rs, the watcher and the store reconciler of       *)
(* sandbox/mod.rs, sandbox_watch.rs).                                      *)
(*                                                                         *)
(* Every create gets a fresh id; rows are keyed by id and UNIQUE by name,  *)
(* the custom resource is addressed by name and labelled with the id; its  *)
(* contents and its status are those of module SandboxSpec.                *)
(* Store calls and Kubernetes calls are the steps of a handler; a whole    *)
(* message read at one step is written back at a later one.                *)
(***************************************************************************)
EXTENDS SandboxSpec

CONSTANTS MaxCreates,   \* bound: ids that create_sandbox draws
          MaxHandlers,  \* bound: handler futures in flight at once
          NoRow, NoCR,
          StreamCap,    \* capacity of the watch bus channel, 128 in the code
          KubeErrors,   \* whether calls to Kubernetes may fail or time out
          WatchGaps,    \* whether the watch may restart and skip events
          SweepPage,    \* rows that a sweep lists, 500 in the code
          MaxOlder,     \* bound: older rows of other names
          MaxInputs     \* bound: requests, status changes of the custom resource,
                        \* errors, drops and restarts, taken together

ASSUME LifecycleAssumption ==
    /\ MaxCreates \in Nat /\ MaxHandlers \in Nat
    /\ StreamCap \in Nat \ {0}
    /\ KubeErrors \in BOOLEAN /\ WatchGaps \in BOOLEAN
    /\ SweepPage \in Nat \ {0} /\ MaxOlder \in Nat
    /\ MaxInputs \in Nat

\* Uuids, numbered in the order they are drawn, and handlers, of which the first
\* that is idle takes a request: neither is ever compared with another.
Ids      == 1 .. MaxCreates
NoId     == 0
Handlers == 1 .. MaxHandlers

\* A stored Sandbox message is its phase and whether spec is populated.
Messages == [phase : Phases, spec : BOOLEAN]

ASSUME NoRowAssumption == NoRow \notin Messages

\* The status objects of the resource.
Conds == DOMAIN StatusObject

VARIABLES
    row,      \* the stored message of each id
    cr,       \* the custom resource of the name
    events,   \* watch events that the watcher has not taken
    watcher,  \* the watcher task: idle, or between its read and its write
    sweep,    \* the reconciler task
    op,       \* the handlers
    stream,   \* one WatchSandbox stream that follows the status
    gone,     \* history: ids whose row was deleted, and whether a create did
    drawn,    \* ids drawn so far
    inputs,
    older     \* rows of other names that were created before the one of this name

vars == <<row, cr, events, watcher, sweep, op, stream, gone, drawn,
          inputs, older>>

Idle     == [pc |-> "idle", id |-> NoId, seen |-> NoRow]
NoEvent  == [kind |-> "none", id |-> NoId, cond |-> "none", deleting |-> FALSE]
NoStream == [pc |-> "off", id |-> NoId, pending |-> 0, closed |-> FALSE,
             sent |-> NoRow, stop |-> FALSE]
Ended    == [NoStream EXCEPT !.pc = "ended"]

Init ==
    /\ row = [i \in Ids |-> NoRow]
    /\ cr = NoCR
    /\ events = <<>>
    /\ watcher = [pc |-> "idle", ev |-> NoEvent, seen |-> NoRow]
    /\ sweep = [pc |-> "idle", id |-> NoId]
    /\ op = [h \in Handlers |-> Idle]
    /\ stream = NoStream
    /\ gone = {} /\ drawn = 0 /\ inputs = 0 /\ older = 0

-------------------------------------------------------------------------------
(* The store and the watch bus. *)

\* INSERT ... ON CONFLICT (id) DO UPDATE fails when another id has the name.
PutFails(i) == \E j \in Ids \ {i} : row[j] # NoRow
Put(i, r)   == row' = [row EXCEPT ![i] = r] /\ UNCHANGED gone
Delete(i, how) == row' = [row EXCEPT ![i] = NoRow] /\ gone' = gone \cup {<<i, how>>}

Listens(i) == stream.pc \in {"snapshot", "open"} /\ stream.id = i /\ ~stream.closed

\* A full channel drops its oldest message, which the receiver learns of.
Mutant_NotifyNobody(i) == stream
notify(i) ==
    IF Listens(i) THEN [stream EXCEPT !.pending = IF @ > StreamCap THEN @ ELSE @ + 1]
    ELSE stream

\* Dropping the sender closes the receivers, after what they still hold.
bus_remove(s, i) == IF s.id = i /\ s.pc \in {"snapshot", "open"}
                    THEN [s EXCEPT !.closed = TRUE] ELSE s

More == inputs < MaxInputs /\ inputs' = inputs + 1
Input == More /\ UNCHANGED older

-------------------------------------------------------------------------------
(* Handlers. *)

At(h, label) == op[h].pc = label /\ UNCHANGED drawn
Goto(h, label) == op' = [op EXCEPT ![h].pc = label]
Return(h) == op' = [op EXCEPT ![h] = Idle]

Start(h, label, i, seen) ==
    /\ op[h].pc = "idle" /\ \A g \in 1 .. h - 1 : op[g].pc # "idle"
    /\ Input
    /\ op' = [op EXCEPT ![h] = [pc |-> label, id |-> i, seen |-> seen]]
    /\ UNCHANGED <<row, gone, cr, events, watcher, sweep, stream>>

\* create_sandbox: a request that validates gets a fresh id.
CreateSandbox(h, i) ==
    /\ i = drawn + 1 /\ i <= Len(AcceptedSpecs)
    /\ drawn' = i
    /\ Start(h, "create_put", i, NoRow)

\* The row comes before the custom resource.
CreatePut(h) ==
    LET i == op[h].id IN
    /\ At(h, "create_put")
    /\ IF PutFails(i) THEN Return(h) /\ UNCHANGED <<row, gone>>
       ELSE /\ Put(i, [phase |-> "Provisioning", spec |-> TRUE])
            /\ Goto(h, "create_kube")
    /\ UNCHANGED <<cr, events, watcher, sweep, stream, inputs, older>>

Created(i) ==
    /\ cr = NoCR
    /\ cr' = [id |-> i, cond |-> "none", deleting |-> FALSE,
              spec |-> ResourceSpecs[i]]
    /\ events' = Append(events, [kind |-> "Applied", id |-> i, cond |-> "none",
                                 deleting |-> FALSE])

CreateKube(h) ==
    LET i == op[h].id IN
    /\ At(h, "create_kube")
    /\ \/ Created(i) /\ stream' = notify(i) /\ Return(h) /\ UNCHANGED <<inputs, older>>
       \/ cr # NoCR /\ Goto(h, "create_undo") /\ UNCHANGED <<cr, events, stream, inputs, older>>
       \/ /\ KubeErrors /\ Input
          /\ Created(i) \/ UNCHANGED <<cr, events>>   \* a timeout may have effect
          /\ Goto(h, "create_undo")
          /\ UNCHANGED stream
    /\ UNCHANGED <<row, gone, watcher, sweep>>

\* Clean up the row just written.
CreateUndo(h) ==
    LET i == op[h].id IN
    /\ At(h, "create_undo")
    /\ Delete(i, "undone")
    /\ Return(h)
    /\ UNCHANGED <<cr, events, watcher, sweep, stream, inputs, older>>

\* delete_sandbox: get_message_by_name.
DeleteSandbox(h, i) ==
    /\ row[i] # NoRow
    /\ Start(h, "delete_put", i, row[i])
    /\ UNCHANGED drawn

\* put_message of the message that was read, with phase Deleting.  The sessions
\* and the settings of the sandbox go next: SshTunnel has the sessions.
DeletePut(h) ==
    LET i == op[h].id IN
    /\ At(h, "delete_put")
    /\ IF PutFails(i) THEN Return(h) /\ UNCHANGED <<row, gone, stream>>
       ELSE /\ Put(i, [op[h].seen EXCEPT !.phase = "Deleting"])
            /\ stream' = notify(i)
            /\ Goto(h, "delete_kube")
    /\ UNCHANGED <<cr, events, watcher, sweep, inputs, older>>

Terminate ==
    /\ cr' = [cr EXCEPT !.deleting = TRUE]
    /\ events' = Append(events, [kind |-> "Applied", id |-> cr.id, cond |-> cr.cond,
                                 deleting |-> TRUE])

DeleteTakesEffect == cr # NoCR /\ ~cr.deleting /\ Terminate

\* The resource is deleted by name.  404: the row goes as well; an error leaves
\* the row Deleting.
DeleteKube(h) ==
    LET i == op[h].id IN
    /\ At(h, "delete_kube")
    /\ \/ /\ cr # NoCR
          /\ IF cr.deleting THEN UNCHANGED <<cr, events>> ELSE Terminate
          /\ stream' = bus_remove(stream, i)
          /\ Return(h)
          /\ UNCHANGED <<inputs, older>>
       \/ /\ cr = NoCR
          /\ Goto(h, "delete_row")
          /\ UNCHANGED <<cr, events, stream, inputs, older>>
       \/ /\ KubeErrors /\ Input
          /\ DeleteTakesEffect \/ UNCHANGED <<cr, events>>   \* a timeout may have effect
          /\ Return(h)
          /\ UNCHANGED stream
    /\ UNCHANGED <<row, gone, watcher, sweep>>

DeleteRow(h) ==
    LET i == op[h].id IN
    /\ At(h, "delete_row")
    /\ Delete(i, "removed")
    /\ stream' = bus_remove(stream, i)
    /\ Return(h)
    /\ UNCHANGED <<cr, events, watcher, sweep, inputs, older>>

\* report_policy_status: reads the message and writes it back with another
\* current_policy_version.
UpdateMessage(h, i) ==
    /\ row[i] # NoRow
    /\ Start(h, "update_put", i, row[i])
    /\ UNCHANGED drawn

UpdatePut(h) ==
    LET i == op[h].id IN
    /\ At(h, "update_put")
    /\ IF PutFails(i) THEN UNCHANGED <<row, gone>> ELSE Put(i, op[h].seen)
    /\ stream' = notify(i)
    /\ Return(h)
    /\ UNCHANGED <<cr, events, watcher, sweep, inputs, older>>

\* A handler is dropped at an await; the call to Kubernetes that it awaited may
\* still take effect.
Drop(h) ==
    /\ op[h].pc # "idle"
    /\ Input
    /\ Return(h)
    /\ \/ UNCHANGED <<cr, events>>
       \/ op[h].pc = "create_kube" /\ Created(op[h].id)
       \/ op[h].pc = "delete_kube" /\ DeleteTakesEffect
    /\ UNCHANGED <<row, gone, watcher, sweep, stream, drawn>>

-------------------------------------------------------------------------------
(* The watcher task. *)

\* Without a row, a minimal placeholder.
Mutant_AlwaysPlaceholder(seen) == [phase |-> "Unknown", spec |-> FALSE]
Existing(seen) == IF seen = NoRow THEN [phase |-> "Unknown", spec |-> FALSE] ELSE seen

\* handle_applied reads the row ...
AppliedRead ==
    /\ watcher.pc = "idle" /\ events # <<>> /\ Head(events).kind = "Applied"
    /\ events' = Tail(events)
    /\ watcher' = [pc |-> "write", ev |-> Head(events), seen |-> row[Head(events).id]]
    /\ UNCHANGED <<row, gone, cr, sweep, op, stream, drawn, inputs, older>>

\* ... and writes it with the phase of the resource.
AppliedWrite ==
    LET e == watcher.ev
    IN  /\ watcher.pc = "write"
        /\ IF PutFails(e.id) THEN UNCHANGED <<row, gone, stream>>
           ELSE /\ Put(e.id, [Existing(watcher.seen) EXCEPT !.phase = derive_phase(e.cond, e.deleting)])
                /\ stream' = notify(e.id)
        /\ watcher' = [pc |-> "idle", ev |-> NoEvent, seen |-> NoRow]
        /\ UNCHANGED <<cr, events, sweep, op, drawn, inputs, older>>

HandleDeleted ==
    /\ watcher.pc = "idle" /\ events # <<>> /\ Head(events).kind = "Deleted"
    /\ events' = Tail(events)
    /\ Delete(Head(events).id, "removed")
    /\ stream' = bus_remove(notify(Head(events).id), Head(events).id)
    /\ UNCHANGED <<cr, watcher, sweep, op, drawn, inputs, older>>

\* What a new watch lists.
Relist == IF cr = NoCR THEN <<>>
          ELSE <<[kind |-> "Applied", id |-> cr.id, cond |-> cr.cond,
                  deleting |-> cr.deleting]>>

\* Event::Restarted: only the objects that exist are applied.
WatchRestarted ==
    /\ WatchGaps /\ Input
    /\ watcher.pc = "idle"
    /\ events' = Relist
    /\ UNCHANGED <<row, gone, cr, watcher, sweep, op, stream, drawn>>

\* The gateway process is started again: only the store survives.
GatewayRestart ==
    /\ WatchGaps /\ Input
    /\ events' = Relist
    /\ watcher' = [pc |-> "idle", ev |-> NoEvent, seen |-> NoRow]
    /\ sweep' = [pc |-> "idle", id |-> NoId]
    /\ op' = [h \in Handlers |-> Idle]
    /\ stream' = NoStream
    /\ UNCHANGED <<row, gone, cr, drawn>>

-------------------------------------------------------------------------------
(* reconcile_orphaned_sandboxes. *)

\* A sweep lists the oldest rows, of whatever phase, and takes from this page a
\* record that is still Provisioning after the grace period of 300 s, which no
\* create call outlives (its timeout is 30 s).
SweepList(i) ==
    /\ sweep.pc = "idle" /\ older < SweepPage
    /\ row[i] # NoRow /\ row[i].phase = "Provisioning"
    /\ \A h \in Handlers : op[h].id = i => op[h].pc \notin {"create_kube", "create_undo"}
    /\ sweep' = [pc |-> "check", id |-> i]
    /\ UNCHANGED <<row, gone, cr, events, watcher, op, stream, drawn, inputs, older>>

\* Any error of the call but 404 skips the record until the next sweep.
SweepCheck ==
    /\ sweep.pc = "check"
    /\ sweep' = IF cr = NoCR THEN [sweep EXCEPT !.pc = "remove"]
                ELSE [pc |-> "idle", id |-> NoId]
    /\ UNCHANGED <<row, gone, cr, events, watcher, op, stream, drawn, inputs, older>>

Mutant_SweepKeepsRow ==
    /\ sweep.pc = "remove"
    /\ stream' = bus_remove(notify(sweep.id), sweep.id)
    /\ sweep' = [pc |-> "idle", id |-> NoId]
    /\ UNCHANGED <<row, gone, cr, events, watcher, op, drawn, inputs, older>>
SweepRemove ==
    /\ sweep.pc = "remove"
    /\ Delete(sweep.id, "removed")
    /\ stream' = bus_remove(notify(sweep.id), sweep.id)
    /\ sweep' = [pc |-> "idle", id |-> NoId]
    /\ UNCHANGED <<cr, events, watcher, op, drawn, inputs, older>>

-------------------------------------------------------------------------------
(* Kubernetes: the sandbox controller and the garbage collector. *)

StatusChanges(c) ==
    /\ cr # NoCR /\ ~cr.deleting /\ cr.cond # c
    /\ Input
    /\ cr' = [cr EXCEPT !.cond = c]
    /\ events' = Append(events, [kind |-> "Applied", id |-> cr.id, cond |-> c,
                                 deleting |-> FALSE])
    /\ UNCHANGED <<row, gone, watcher, sweep, op, stream, drawn>>

Finalized ==
    /\ cr # NoCR /\ cr.deleting
    /\ cr' = NoCR
    /\ events' = Append(events, [kind |-> "Deleted", id |-> cr.id, cond |-> cr.cond,
                                 deleting |-> TRUE])
    /\ UNCHANGED <<row, gone, watcher, sweep, op, stream, drawn, inputs, older>>

\* Sandboxes of other names are created and deleted, and this name may be created
\* again after them.
OthersChange(n) ==
    /\ More
    /\ older # n /\ older' = n
    /\ UNCHANGED <<row, gone, cr, events, watcher, sweep, op, stream, drawn>>

-------------------------------------------------------------------------------
(* watch_sandbox: subscribe first, then the snapshot, then the loop. *)

StreamKeeps == UNCHANGED <<row, gone, cr, events, watcher, sweep, op, drawn, inputs, older>>

\* The row exists: subscribe.
WatchSandbox(i, stop) ==
    /\ stream.pc = "off"
    /\ row[i] # NoRow
    /\ stream' = [NoStream EXCEPT !.pc = "snapshot", !.id = i, !.stop = stop]
    /\ StreamKeeps

\* Send the row as it is now; end when it is gone, or Ready and that was awaited.
SendRow(s) ==
    LET r == row[s.id] IN
    stream' = IF r = NoRow \/ (s.stop /\ r.phase = "Ready") THEN Ended
              ELSE [s EXCEPT !.sent = r, !.pc = "open"]

StreamSnapshot == stream.pc = "snapshot" /\ SendRow(stream) /\ StreamKeeps

StreamNotified ==
    /\ stream.pc = "open" /\ stream.pending \in 1 .. StreamCap
    /\ SendRow([stream EXCEPT !.pending = @ - 1])
    /\ StreamKeeps

\* Lagged or closed: an error ends the stream.
StreamBroken ==
    /\ stream.pc = "open"
    /\ stream.pending > StreamCap \/ (stream.closed /\ stream.pending = 0)
    /\ stream' = Ended
    /\ StreamKeeps

-------------------------------------------------------------------------------
Request(h) == \E i \in Ids : \/ CreateSandbox(h, i)
                             \/ DeleteSandbox(h, i)
                             \/ UpdateMessage(h, i)

Step(h) == \/ CreatePut(h) \/ CreateKube(h) \/ CreateUndo(h)
           \/ DeletePut(h) \/ DeleteKube(h) \/ DeleteRow(h) \/ UpdatePut(h)

Watcher == AppliedRead \/ AppliedWrite \/ HandleDeleted
Reconciler == (\E i \in Ids : SweepList(i)) \/ SweepCheck \/ SweepRemove
Stream == StreamSnapshot \/ StreamNotified \/ StreamBroken

Next ==
    \/ \E h \in Handlers : Request(h) \/ Step(h) \/ Drop(h)
    \/ Watcher \/ WatchRestarted \/ GatewayRestart
    \/ Reconciler
    \/ (\E n \in 0 .. MaxOlder : OthersChange(n))
    \/ (\E c \in Conds \ {"none"} : StatusChanges(c)) \/ Finalized
    \/ (\E i \in Ids, stop \in BOOLEAN : WatchSandbox(i, stop)) \/ Stream

Spec == Init /\ [][Next]_vars

\* Tasks run when they can, the watch delivers, the reconciler sweeps for ever
\* and Kubernetes finishes deletions.
FairSpec ==
    /\ Spec
    /\ \A h \in Handlers : WF_vars(Step(h))
    /\ WF_vars(Watcher) /\ WF_vars(Finalized) /\ WF_vars(Stream)
    /\ WF_vars(Reconciler)

-------------------------------------------------------------------------------
(* Properties. *)

\* What writing the row before the resource guarantees: the watcher's placeholder
\* never comes before the row of create_sandbox, so a row without a spec is one
\* whose first row was removed.
PlaceholderOnlyAfterRemoval ==
    \A i \in Ids : row[i] # NoRow /\ ~row[i].spec => \E how \in {"removed", "undone"} : <<i, how>> \in gone

Orphan(i) == row[i] # NoRow /\ cr = NoCR

\* The comment of reconcile_orphaned_sandboxes: a sweep lists all sandboxes that are
\* still Provisioning and removes any that have been orphaned.  TLC refutes this:
\* it lists one page of the oldest rows.
AllOrphansCleaned ==
    \A i \in Ids : []<>~(Orphan(i) /\ row[i].phase = "Provisioning")

\* What its page leaves of that: the sweeps remove a record that stays Provisioning
\* without a resource of its name, whatever left it behind (a create that was
\* dropped or timed out, a write that raced with a deletion, a restart), if it is
\* from some time on among the SweepPage oldest rows.
ProvisioningOrphansCleaned == <>[](older < SweepPage) => AllOrphansCleaned

\* The comment of handle_applied: create_sandbox creates the resource before it
\* writes to the store.  TLC refutes this: the row comes first.
ResourceFirst == \A h \in Handlers : op[h].pc = "create_kube" => row[op[h].id] = NoRow

\* The comment of create_sandbox: the watcher always finds the record with its spec
\* populated, because the row is written first.  TLC refutes this: a create that
\* timed out with effect is undone in the store only.
WatcherFindsSpec == watcher.pc = "write" => watcher.seen # NoRow /\ watcher.seen.spec

\* A WatchSandbox stream that stays open has sent the record as it is stored: no
\* write between the subscription and the snapshot, and none after, is missed.
\* The exception is a create that fails, which removes its row silently.
StreamCatchesUp ==
    []<>(stream.pc = "open" => \/ stream.sent = row[stream.id]
                               \/ <<stream.id, "undone">> \in gone)

\* Whatever the template and the spec of the request set, and whichever create
\* owns the name by now, the pod of the resource runs the supervisor as root
\* with the id the resource is labelled with, and has a volume for every mount.
PodRunsItsSandbox ==
    cr # NoCR =>
        LET pod == cr.spec.podTemplate
        IN /\ pod.env["SANDBOX_ID"] = <<"gateway", cr.id>>
           /\ pod.env["SANDBOX_COMMAND"][1] = "gateway"
           /\ pod.command = "supervisor" /\ pod.runAsUser = "root"
           /\ "supervisor" \in pod.mounts /\ pod.mounts \subseteq pod.volumes
           /\ "client-tls" \in pod.mounts => pod.env["TLS_KEY"][1] = "gateway"

===============================================================================
