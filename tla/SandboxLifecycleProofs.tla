------------------------ MODULE SandboxLifecycleProofs ------------------------
(***************************************************************************)
(* Proofs about SandboxLifecycle, for any number of creates, handlers and  *)
(* events in flight, any requests and any configuration.                   *)
(*                                                                         *)
(* An id is KNOWN once its row is stored or was removed.  create_sandbox   *)
(* writes the row before it calls Kubernetes, so the resource, and with it *)
(* every event about the resource that is still under way, has an id that  *)
(* is known: the watcher finds a row or one that was removed.  A message   *)
(* that a task holds between its read and its write is complete, or the    *)
(* row of its id was removed before.                                       *)
(***************************************************************************)
EXTENDS SandboxLifecycle, TLAPS

Gone(g, i) == <<i, "removed">> \in g \/ <<i, "undone">> \in g
Known(r, g, i) == r[i] # NoRow \/ Gone(g, i)

\* A message of i that is written by somebody.
Sound(g, i, m) == m \in Messages /\ (~m.spec => Gone(g, i))

RowsOk(r, g) ==
    /\ r \in [Ids -> Messages \cup {NoRow}]
    /\ \A i \in Ids : r[i] # NoRow => Sound(g, i, r[i])

\* The resource is of a create that was accepted, and is what it asked for.
CrOk(r, g, c) ==
    c # NoCR =>
        /\ c = [id |-> c.id, cond |-> c.cond, deleting |-> c.deleting, spec |-> c.spec]
        /\ c.id \in Ids /\ c.cond \in Conds /\ c.deleting \in BOOLEAN
        /\ Known(r, g, c.id)
        /\ c.id <= Len(AcceptedSpecs) /\ c.spec = ResourceSpecs[c.id]

Events == [kind : {"Applied", "Deleted"}, id : Ids, cond : Conds, deleting : BOOLEAN]

EventsOk(r, g, es) ==
    /\ es \in Seq(Events)
    /\ \A k \in 1 .. Len(es) : Known(r, g, es[k].id)

WatcherOk(r, g, w) ==
    w.pc = "write" => /\ w.ev \in Events
                      /\ Known(r, g, w.ev.id)
                      /\ w.seen = NoRow => Gone(g, w.ev.id)
                      /\ w.seen # NoRow => Sound(g, w.ev.id, w.seen)

SweepOk(s) ==
    /\ s \in [pc : {"idle", "check", "remove"}, id : Ids \cup {NoId}]
    /\ s.pc # "idle" => s.id \in Ids

Labels == {"idle", "create_put", "create_kube", "create_undo", "delete_put",
           "delete_kube", "delete_row", "update_put"}

HandlerOk(r, g, o) ==
    /\ o = [pc |-> o.pc, id |-> o.id, seen |-> o.seen]
    /\ o.pc \in Labels
    /\ o.pc # "idle" => o.id \in Ids
    /\ o.pc \in {"create_put", "create_kube"} => o.id <= Len(AcceptedSpecs)
    /\ o.pc = "create_kube" => Known(r, g, o.id)
    /\ o.pc \in {"delete_put", "update_put"} => Sound(g, o.id, o.seen)

OpOk(r, g, o) ==
    /\ o = [h \in Handlers |-> o[h]]
    /\ \A h \in Handlers : HandlerOk(r, g, o[h])

\* The inductive invariant.
IInv ==
    /\ RowsOk(row, gone)
    /\ CrOk(row, gone, cr)
    /\ EventsOk(row, gone, events)
    /\ WatcherOk(row, gone, watcher)
    /\ SweepOk(sweep)
    /\ OpOk(row, gone, op)

-------------------------------------------------------------------------------
(* Helpers. *)

LEMMA NoneIsACond == "none" \in Conds
BY Zenon DEF Conds, StatusObject

LEMMA PhaseType ==
    ASSUME NEW cond, NEW deleting
    PROVE  derive_phase(cond, deleting) \in Phases
BY DEF derive_phase, Phases

\* A phase replaced leaves a message a message, complete or not.
LEMMA PhaseReplaced ==
    ASSUME NEW g, NEW i, NEW m, Sound(g, i, m), NEW p \in Phases
    PROVE  Sound(g, i, [m EXCEPT !.phase = p])
BY DEF Sound, Messages

\* Whatever is written or removed, what was removed stays on record and what was
\* known stays known.
Grows(r, g, r2, g2) ==
    /\ g \subseteq g2
    /\ \A i \in Ids : Known(r, g, i) => Known(r2, g2, i)

LEMMA SoundGrows ==
    ASSUME NEW g, NEW g2, g \subseteq g2, NEW i, NEW m, Sound(g, i, m)
    PROVE  Sound(g2, i, m)
BY DEF Sound, Gone

LEMMA HandlerGrows ==
    ASSUME NEW r, NEW g, NEW r2, NEW g2, Grows(r, g, r2, g2), NEW o, HandlerOk(r, g, o)
    PROVE  HandlerOk(r2, g2, o)
BY SoundGrows DEF Grows, HandlerOk, Labels

LEMMA OthersGrow ==
    ASSUME NEW r, NEW g, NEW r2, NEW g2, Grows(r, g, r2, g2)
    PROVE  /\ \A c : CrOk(r, g, c) => CrOk(r2, g2, c)
           /\ \A es : EventsOk(r, g, es) => EventsOk(r2, g2, es)
           /\ \A w : WatcherOk(r, g, w) => WatcherOk(r2, g2, w)
           /\ \A o : OpOk(r, g, o) => OpOk(r2, g2, o)
<1>1. ASSUME NEW c, CrOk(r, g, c)
      PROVE  CrOk(r2, g2, c)
    BY <1>1 DEF CrOk, Grows
<1>2. ASSUME NEW es, EventsOk(r, g, es)
      PROVE  EventsOk(r2, g2, es)
    <2> SUFFICES ASSUME NEW k \in 1 .. Len(es)
                 PROVE  Known(r2, g2, es[k].id)
        BY <1>2 DEF EventsOk
    <2>1. es[k] \in Events
        BY <1>2 DEF EventsOk
    <2>2. es[k].id \in Ids
        BY <2>1 DEF Events
    <2> QED  BY <1>2, <2>2 DEF EventsOk, Grows
<1>3. ASSUME NEW w, WatcherOk(r, g, w)
      PROVE  WatcherOk(r2, g2, w)
    <2> SUFFICES ASSUME w.pc = "write"
                 PROVE  /\ w.ev \in Events
                        /\ Known(r2, g2, w.ev.id)
                        /\ w.seen = NoRow => Gone(g2, w.ev.id)
                        /\ w.seen # NoRow => Sound(g2, w.ev.id, w.seen)
        BY DEF WatcherOk
    <2>1. w.ev \in Events /\ w.ev.id \in Ids
        BY <1>3 DEF WatcherOk, Events
    <2>2. Known(r2, g2, w.ev.id)
        BY <1>3, <2>1 DEF WatcherOk, Grows
    <2>3. w.seen = NoRow => Gone(g2, w.ev.id)
        BY <1>3 DEF WatcherOk, Grows, Gone
    <2>4. w.seen # NoRow => Sound(g2, w.ev.id, w.seen)
        BY <1>3, SoundGrows DEF WatcherOk, Grows
    <2> QED  BY <2>1, <2>2, <2>3, <2>4
<1>4. ASSUME NEW o, OpOk(r, g, o)
      PROVE  OpOk(r2, g2, o)
    BY <1>4, HandlerGrows DEF OpOk
<1> QED  BY <1>1, <1>2, <1>3, <1>4

\* INSERT ... ON CONFLICT of a message.
LEMMA PutGood ==
    ASSUME NEW r, NEW g, RowsOk(r, g), NEW i \in Ids, NEW m, Sound(g, i, m)
    PROVE  /\ RowsOk([r EXCEPT ![i] = m], g)
           /\ Grows(r, g, [r EXCEPT ![i] = m], g)
           /\ Known([r EXCEPT ![i] = m], g, i)
<1>1. m \in Messages /\ m # NoRow
    BY NoRowAssumption DEF Sound
<1> QED  BY <1>1 DEF RowsOk, Grows, Known

LEMMA DeleteGood ==
    ASSUME NEW r, NEW g, RowsOk(r, g), NEW i \in Ids, NEW how \in {"removed", "undone"}
    PROVE  /\ RowsOk([r EXCEPT ![i] = NoRow], g \cup {<<i, how>>})
           /\ Grows(r, g, [r EXCEPT ![i] = NoRow], g \cup {<<i, how>>})
<1> DEFINE r2 == [r EXCEPT ![i] = NoRow]
           g2 == g \cup {<<i, how>>}
<1>1. g \subseteq g2 /\ Gone(g2, i) /\ \A j \in Ids : Gone(g, j) => Gone(g2, j)
    BY DEF Gone
<1>2. /\ r2 \in [Ids -> Messages \cup {NoRow}] /\ r2[i] = NoRow
      /\ \A j \in Ids \ {i} : r2[j] = r[j]
    BY DEF RowsOk
<1> HIDE DEF r2, g2
<1>3. RowsOk(r2, g2)
    BY <1>1, <1>2, SoundGrows DEF RowsOk
<1>4. Grows(r, g, r2, g2)
    BY <1>1, <1>2 DEF Grows, Known
<1> QED  BY <1>3, <1>4 DEF r2, g2

\* A handler that moves on, or a request that starts.
LEMMA OpStep ==
    ASSUME NEW r, NEW g, NEW o, OpOk(r, g, o), NEW h \in Handlers,
           NEW new, HandlerOk(r, g, new), NEW o2, o2 = [o EXCEPT ![h] = new]
    PROVE  OpOk(r, g, o2)
BY DEF OpOk

LEMMA IdleOk ==
    ASSUME NEW r, NEW g
    PROVE  HandlerOk(r, g, Idle)
BY DEF HandlerOk, Idle, Labels

LEMMA AppendOk ==
    ASSUME NEW r, NEW g, NEW es, EventsOk(r, g, es), NEW e \in Events, Known(r, g, e.id)
    PROVE  EventsOk(r, g, Append(es, e))
BY DEF EventsOk

LEMMA TailOk ==
    ASSUME NEW r, NEW g, NEW es, EventsOk(r, g, es), es # <<>>
    PROVE  /\ EventsOk(r, g, Tail(es))
           /\ Head(es) \in Events /\ Known(r, g, Head(es).id)
<1>1. es \in Seq(Events) /\ Len(es) \in Nat \ {0} /\ Head(es) = es[1]
    BY DEF EventsOk
<1>2. Tail(es) \in Seq(Events) /\ Len(Tail(es)) = Len(es) - 1
    BY <1>1
<1>3. \A k \in 1 .. Len(Tail(es)) : Tail(es)[k] = es[k + 1] /\ k + 1 \in 1 .. Len(es)
    BY <1>1, <1>2
<1>4. EventsOk(r, g, Tail(es))
    BY <1>2, <1>3 DEF EventsOk
<1>5. 1 \in 1 .. Len(es) /\ es[1] \in Events
    BY <1>1
<1> QED  BY <1>1, <1>4, <1>5 DEF EventsOk

-------------------------------------------------------------------------------
(* The invariant holds initially and is kept by every action. *)

LEMMA InitIInv == Init => IInv
<1> SUFFICES ASSUME Init PROVE IInv
    OBVIOUS
<1> USE DEF Init
<1>1. RowsOk(row, gone)
    BY DEF RowsOk
<1>2. CrOk(row, gone, cr)
    BY DEF CrOk
<1>3. EventsOk(row, gone, events)
    BY DEF EventsOk
<1>4. WatcherOk(row, gone, watcher)
    BY DEF WatcherOk
<1>5. SweepOk(sweep)
    BY DEF SweepOk
<1>6. OpOk(row, gone, op)
    BY IdleOk DEF OpOk
<1> QED  BY <1>1, <1>2, <1>3, <1>4, <1>5, <1>6 DEF IInv

\* The handlers, the resource and its events change; the store does not.
LEMMA QuietStep ==
    ASSUME IInv, UNCHANGED <<row, gone, watcher, sweep>>,
           CrOk(row, gone, cr'), EventsOk(row, gone, events'), OpOk(row, gone, op')
    PROVE  IInv'
BY DEF IInv

\* The store changes; the resource and its events do not.
LEMMA StoreStep ==
    ASSUME IInv, RowsOk(row', gone'), Grows(row, gone, row', gone'),
           UNCHANGED <<cr, events>>, WatcherOk(row', gone', watcher'), SweepOk(sweep'),
           OpOk(row', gone', op')
    PROVE  IInv'
<1>1. CrOk(row', gone', cr) /\ EventsOk(row', gone', events)
    BY OthersGrow DEF IInv
<1> QED  BY <1>1 DEF IInv

LEMMA StartOk ==
    ASSUME IInv, NEW h \in Handlers, NEW label, NEW i, NEW seen, Start(h, label, i, seen),
           HandlerOk(row, gone, [pc |-> label, id |-> i, seen |-> seen])
    PROVE  IInv'
<1>1. OpOk(row, gone, op')
    BY OpStep DEF Start, IInv
<1> QED  BY <1>1, QuietStep DEF Start, IInv

LEMMA RequestOk ==
    ASSUME IInv, NEW h \in Handlers, Request(h)
    PROVE  IInv'
<1> PICK i \in Ids : CreateSandbox(h, i) \/ DeleteSandbox(h, i) \/ UpdateMessage(h, i)
    BY DEF Request
<1>1. CASE CreateSandbox(h, i)
    <2>1. Start(h, "create_put", i, NoRow) /\ i <= Len(AcceptedSpecs)
        BY <1>1 DEF CreateSandbox
    <2>2. HandlerOk(row, gone, [pc |-> "create_put", id |-> i, seen |-> NoRow])
        BY <2>1 DEF HandlerOk, Labels
    <2> QED  BY <2>1, <2>2, StartOk
<1>2. CASE DeleteSandbox(h, i)
    <2>1. Start(h, "delete_put", i, row[i]) /\ Sound(gone, i, row[i])
        BY <1>2 DEF DeleteSandbox, IInv, RowsOk
    <2>2. HandlerOk(row, gone, [pc |-> "delete_put", id |-> i, seen |-> row[i]])
        BY <2>1 DEF HandlerOk, Labels
    <2> QED  BY <2>1, <2>2, StartOk
<1>3. CASE UpdateMessage(h, i)
    <2>1. Start(h, "update_put", i, row[i]) /\ Sound(gone, i, row[i])
        BY <1>3 DEF UpdateMessage, IInv, RowsOk
    <2>2. HandlerOk(row, gone, [pc |-> "update_put", id |-> i, seen |-> row[i]])
        BY <2>1 DEF HandlerOk, Labels
    <2> QED  BY <2>1, <2>2, StartOk
<1> QED  BY <1>1, <1>2, <1>3

\* A handler returns.
LEMMA ReturnOk ==
    ASSUME NEW r, NEW g, OpOk(r, g, op), NEW h \in Handlers, Return(h)
    PROVE  OpOk(r, g, op')
BY IdleOk, OpStep DEF Return

\* A handler goes on to a step that needs nothing but its id.
LEMMA GotoOk ==
    ASSUME NEW r, NEW g, OpOk(r, g, op), NEW h \in Handlers, op[h].pc # "idle",
           NEW label \in {"create_undo", "delete_kube", "delete_row"}, Goto(h, label)
    PROVE  OpOk(r, g, op')
<1> DEFINE new == [op[h] EXCEPT !.pc = label]
<1>1. op' = [op EXCEPT ![h] = new]
    BY DEF Goto, OpOk
<1>2. new = [pc |-> label, id |-> op[h].id, seen |-> op[h].seen] /\ op[h].id \in Ids
    BY DEF OpOk, HandlerOk
<1>3. HandlerOk(r, g, new)
    BY <1>2 DEF HandlerOk, Labels
<1> QED  BY <1>1, <1>3, OpStep

LEMMA CreatePutOk ==
    ASSUME IInv, NEW h \in Handlers, CreatePut(h)
    PROVE  IInv'
<1> DEFINE i == op[h].id
           m == [phase |-> "Provisioning", spec |-> TRUE]
<1>1. /\ op[h].pc = "create_put" /\ UNCHANGED <<cr, events, watcher, sweep>>
      /\ \/ Return(h) /\ UNCHANGED <<row, gone>>
         \/ row' = [row EXCEPT ![i] = m] /\ gone' = gone /\ Goto(h, "create_kube")
    BY DEF CreatePut, At, Put
<1>2. i \in Ids /\ i <= Len(AcceptedSpecs) /\ HandlerOk(row, gone, op[h])
    BY <1>1 DEF IInv, OpOk, HandlerOk
<1>3. CASE Return(h) /\ UNCHANGED <<row, gone>>
    BY <1>1, <1>3, ReturnOk, QuietStep DEF IInv
<1>4. CASE row' = [row EXCEPT ![i] = m] /\ gone' = gone /\ Goto(h, "create_kube")
    <2>1. Sound(gone, i, m)
        BY DEF Sound, Messages, Phases
    <2>2. RowsOk(row', gone') /\ Grows(row, gone, row', gone') /\ Known(row', gone', i)
        BY <1>2, <1>4, <2>1, PutGood DEF IInv
    <2>3. OpOk(row', gone', op) /\ WatcherOk(row', gone', watcher')
        BY <1>1, <2>2, OthersGrow DEF IInv
    <2> DEFINE new == [op[h] EXCEPT !.pc = "create_kube"]
    <2>4. op' = [op EXCEPT ![h] = new]
        BY <1>4 DEF Goto, IInv, OpOk
    <2>5. new = [pc |-> "create_kube", id |-> i, seen |-> op[h].seen]
        BY <1>2 DEF HandlerOk
    <2>6. HandlerOk(row', gone', new)
        BY <1>2, <2>2, <2>5 DEF HandlerOk, Labels
    <2>7. OpOk(row', gone', op')
        BY <2>3, <2>4, <2>6, OpStep
    <2> QED  BY <1>1, <2>2, <2>3, <2>7, StoreStep DEF IInv
<1> QED  BY <1>1, <1>3, <1>4

\* A call to Kubernetes that creates the resource.
LEMMA CreatedOk ==
    ASSUME IInv, NEW i \in Ids, i <= Len(AcceptedSpecs), Known(row, gone, i), Created(i)
    PROVE  CrOk(row, gone, cr') /\ EventsOk(row, gone, events')
<1>1. CrOk(row, gone, cr')
    BY NoneIsACond DEF Created, CrOk
<1> DEFINE e == [kind |-> "Applied", id |-> i, cond |-> "none", deleting |-> FALSE]
<1>2. e \in Events
    BY NoneIsACond DEF Events
<1>3. events' = Append(events, e)
    BY DEF Created
<1> QED  BY <1>1, <1>2, <1>3, AppendOk DEF IInv

LEMMA CreateKubeOk ==
    ASSUME IInv, NEW h \in Handlers, CreateKube(h)
    PROVE  IInv'
<1> DEFINE i == op[h].id
<1>1. /\ op[h].pc = "create_kube" /\ UNCHANGED <<row, gone, watcher, sweep>>
      /\ Created(i) \/ UNCHANGED <<cr, events>>
      /\ Return(h) \/ Goto(h, "create_undo")
    BY DEF CreateKube, At
<1>2. i \in Ids /\ i <= Len(AcceptedSpecs) /\ Known(row, gone, i)
    BY <1>1 DEF IInv, OpOk, HandlerOk
<1>3. CrOk(row, gone, cr') /\ EventsOk(row, gone, events')
    BY <1>1, <1>2, CreatedOk DEF IInv
<1>4. OpOk(row, gone, op')
    BY <1>1, ReturnOk, GotoOk DEF IInv
<1> QED  BY <1>1, <1>3, <1>4, QuietStep


\* A removal, by whichever task.
LEMMA DeleteOk ==
    ASSUME IInv, NEW i \in Ids, NEW how \in {"removed", "undone"}, Delete(i, how),
           UNCHANGED cr, EventsOk(row, gone, events'), UNCHANGED watcher, SweepOk(sweep'),
           OpOk(row, gone, op')
    PROVE  IInv'
<1>1. RowsOk(row', gone') /\ Grows(row, gone, row', gone')
    BY DeleteGood DEF Delete, IInv
<1>2. /\ CrOk(row', gone', cr) /\ WatcherOk(row', gone', watcher)
      /\ EventsOk(row', gone', events') /\ OpOk(row', gone', op')
    BY <1>1, OthersGrow DEF IInv
<1> QED  BY <1>1, <1>2 DEF IInv

LEMMA HandlerDeletesOk ==
    ASSUME IInv, NEW h \in Handlers, CreateUndo(h) \/ DeleteRow(h)
    PROVE  IInv'
<1> DEFINE i == op[h].id
<1>1. /\ op[h].pc \in {"create_undo", "delete_row"}
      /\ UNCHANGED <<cr, events, watcher, sweep>> /\ Return(h)
      /\ Delete(i, "removed") \/ Delete(i, "undone")
    BY DEF CreateUndo, DeleteRow, At
<1>2. i \in Ids
    BY <1>1 DEF IInv, OpOk, HandlerOk
<1>3. OpOk(row, gone, op') /\ EventsOk(row, gone, events') /\ SweepOk(sweep')
    BY <1>1, ReturnOk DEF IInv
<1> QED  BY <1>1, <1>2, <1>3, DeleteOk

LEMMA DeletePutOk ==
    ASSUME IInv, NEW h \in Handlers, DeletePut(h)
    PROVE  IInv'
<1> DEFINE i == op[h].id
           m == [op[h].seen EXCEPT !.phase = "Deleting"]
<1>1. /\ op[h].pc = "delete_put" /\ UNCHANGED <<cr, events, watcher, sweep>>
      /\ \/ Return(h) /\ UNCHANGED <<row, gone>>
         \/ row' = [row EXCEPT ![i] = m] /\ gone' = gone /\ Goto(h, "delete_kube")
    BY DEF DeletePut, At, Put
<1>2. i \in Ids /\ Sound(gone, i, op[h].seen)
    BY <1>1 DEF IInv, OpOk, HandlerOk
<1>3. CASE Return(h) /\ UNCHANGED <<row, gone>>
    BY <1>1, <1>3, ReturnOk, QuietStep DEF IInv
<1>4. CASE row' = [row EXCEPT ![i] = m] /\ gone' = gone /\ Goto(h, "delete_kube")
    <2>1. Sound(gone, i, m)
        BY <1>2, PhaseReplaced DEF Phases
    <2>2. RowsOk(row', gone') /\ Grows(row, gone, row', gone')
        BY <1>2, <1>4, <2>1, PutGood DEF IInv
    <2>3. OpOk(row', gone', op) /\ WatcherOk(row', gone', watcher')
        BY <1>1, <2>2, OthersGrow DEF IInv
    <2>4. OpOk(row', gone', op')
        BY <1>1, <1>4, <2>3, GotoOk
    <2> QED  BY <1>1, <2>2, <2>3, <2>4, StoreStep DEF IInv
<1> QED  BY <1>1, <1>3, <1>4

LEMMA UpdatePutOk ==
    ASSUME IInv, NEW h \in Handlers, UpdatePut(h)
    PROVE  IInv'
<1> DEFINE i == op[h].id
<1>1. /\ op[h].pc = "update_put" /\ UNCHANGED <<cr, events, watcher, sweep>>
      /\ Return(h)
      /\ UNCHANGED <<row, gone>> \/ (row' = [row EXCEPT ![i] = op[h].seen] /\ gone' = gone)
    BY DEF UpdatePut, At, Put
<1>2. i \in Ids /\ Sound(gone, i, op[h].seen)
    BY <1>1 DEF IInv, OpOk, HandlerOk
<1>3. CASE UNCHANGED <<row, gone>>
    BY <1>1, <1>3, ReturnOk, QuietStep DEF IInv
<1>4. CASE row' = [row EXCEPT ![i] = op[h].seen] /\ gone' = gone
    <2>1. RowsOk(row', gone') /\ Grows(row, gone, row', gone')
        BY <1>2, <1>4, PutGood DEF IInv
    <2>2. OpOk(row', gone', op) /\ WatcherOk(row', gone', watcher')
        BY <1>1, <2>1, OthersGrow DEF IInv
    <2>3. OpOk(row', gone', op')
        BY <1>1, <2>2, ReturnOk
    <2> QED  BY <1>1, <2>1, <2>2, <2>3, StoreStep DEF IInv
<1> QED  BY <1>1, <1>3, <1>4

\* Kubernetes marks the resource, changes its status or lets it go.
LEMMA ResourceChanged ==
    ASSUME IInv, cr # NoCR, NEW c \in Conds, NEW d \in BOOLEAN, NEW kind \in {"Applied", "Deleted"}
    PROVE  /\ CrOk(row, gone, [cr EXCEPT !.cond = c])
           /\ CrOk(row, gone, [cr EXCEPT !.deleting = d])
           /\ EventsOk(row, gone, Append(events, [kind |-> kind, id |-> cr.id, cond |-> c,
                                                  deleting |-> d]))
<1>1. /\ cr = [id |-> cr.id, cond |-> cr.cond, deleting |-> cr.deleting, spec |-> cr.spec]
      /\ cr.id \in Ids /\ cr.cond \in Conds /\ cr.deleting \in BOOLEAN
      /\ Known(row, gone, cr.id)
      /\ cr.id <= Len(AcceptedSpecs) /\ cr.spec = ResourceSpecs[cr.id]
    BY DEF IInv, CrOk
<1>2. [cr EXCEPT !.cond = c] = [id |-> cr.id, cond |-> c, deleting |-> cr.deleting, spec |-> cr.spec]
    BY <1>1
<1>3. [cr EXCEPT !.deleting = d] = [id |-> cr.id, cond |-> cr.cond, deleting |-> d, spec |-> cr.spec]
    BY <1>1
<1>4. CrOk(row, gone, [cr EXCEPT !.cond = c]) /\ CrOk(row, gone, [cr EXCEPT !.deleting = d])
    BY <1>1, <1>2, <1>3 DEF CrOk
<1> DEFINE e == [kind |-> kind, id |-> cr.id, cond |-> c, deleting |-> d]
<1>5. e \in Events /\ Known(row, gone, e.id)
    BY <1>1 DEF Events
<1> QED  BY <1>4, <1>5, AppendOk DEF IInv

LEMMA TerminateOk ==
    ASSUME IInv, cr # NoCR, Terminate
    PROVE  CrOk(row, gone, cr') /\ EventsOk(row, gone, events')
<1>1. cr.cond \in Conds
    BY DEF IInv, CrOk
<1> QED  BY <1>1, ResourceChanged DEF Terminate

LEMMA DeleteKubeOk ==
    ASSUME IInv, NEW h \in Handlers, DeleteKube(h)
    PROVE  IInv'
<1>1. /\ op[h].pc = "delete_kube" /\ UNCHANGED <<row, gone, watcher, sweep>>
      /\ (cr # NoCR /\ Terminate) \/ UNCHANGED <<cr, events>>
      /\ Return(h) \/ Goto(h, "delete_row")
    BY DEF DeleteKube, At, DeleteTakesEffect
<1>2. CrOk(row, gone, cr') /\ EventsOk(row, gone, events')
    BY <1>1, TerminateOk DEF IInv
<1>3. OpOk(row, gone, op')
    BY <1>1, ReturnOk, GotoOk DEF IInv
<1> QED  BY <1>1, <1>2, <1>3, QuietStep

LEMMA DropOk ==
    ASSUME IInv, NEW h \in Handlers, Drop(h)
    PROVE  IInv'
<1>1. /\ UNCHANGED <<row, gone, watcher, sweep>> /\ Return(h)
      /\ \/ UNCHANGED <<cr, events>>
         \/ op[h].pc = "create_kube" /\ Created(op[h].id)
         \/ cr # NoCR /\ Terminate
    BY DEF Drop, DeleteTakesEffect
<1>2. op[h].pc = "create_kube" => /\ op[h].id \in Ids /\ op[h].id <= Len(AcceptedSpecs)
                                  /\ Known(row, gone, op[h].id)
    BY DEF IInv, OpOk, HandlerOk
<1>3. CrOk(row, gone, cr') /\ EventsOk(row, gone, events')
    BY <1>1, <1>2, CreatedOk, TerminateOk DEF IInv
<1>4. OpOk(row, gone, op')
    BY <1>1, ReturnOk DEF IInv
<1> QED  BY <1>1, <1>3, <1>4, QuietStep

LEMMA AppliedReadOk ==
    ASSUME IInv, AppliedRead
    PROVE  IInv'
<1> DEFINE e == Head(events)
<1>1. /\ events # <<>> /\ events' = Tail(events)
      /\ watcher' = [pc |-> "write", ev |-> e, seen |-> row[e.id]]
      /\ UNCHANGED <<row, gone, cr, sweep, op>>
    BY DEF AppliedRead
<1>2. EventsOk(row, gone, events') /\ e \in Events /\ Known(row, gone, e.id)
    BY <1>1, TailOk DEF IInv
<1>3. e.id \in Ids
    BY <1>2 DEF Events
<1>4. row[e.id] = NoRow => Gone(gone, e.id)
    BY <1>2 DEF Known
<1>5. row[e.id] # NoRow => Sound(gone, e.id, row[e.id])
    BY <1>3 DEF IInv, RowsOk
<1> HIDE DEF e
<1>6. WatcherOk(row, gone, watcher')
    BY <1>1, <1>2, <1>4, <1>5 DEF WatcherOk
<1> QED  BY <1>1, <1>2, <1>6 DEF IInv

LEMMA AppliedWriteOk ==
    ASSUME IInv, AppliedWrite
    PROVE  IInv'
<1> DEFINE e == watcher.ev
           p == derive_phase(e.cond, e.deleting)
           m == [Existing(watcher.seen) EXCEPT !.phase = p]
<1>1. /\ watcher.pc = "write" /\ UNCHANGED <<cr, events, sweep, op>>
      /\ watcher' = [pc |-> "idle", ev |-> NoEvent, seen |-> NoRow]
      /\ UNCHANGED <<row, gone>> \/ (row' = [row EXCEPT ![e.id] = m] /\ gone' = gone)
    BY DEF AppliedWrite, Put
<1>2. WatcherOk(row', gone', watcher')
    BY <1>1 DEF WatcherOk
<1>3. /\ e \in Events
      /\ watcher.seen = NoRow => Gone(gone, e.id)
      /\ watcher.seen # NoRow => Sound(gone, e.id, watcher.seen)
    BY <1>1 DEF IInv, WatcherOk
<1>4. e.id \in Ids
    BY <1>3 DEF Events
<1>5. Sound(gone, e.id, Existing(watcher.seen))
    BY <1>3 DEF Existing, Sound, Messages, Phases
<1>6. Sound(gone, e.id, m)
    BY <1>5, PhaseReplaced, PhaseType
<1> HIDE DEF m, e
<1>7. RowsOk(row', gone') /\ Grows(row, gone, row', gone')
    <2>1. CASE UNCHANGED <<row, gone>>
        BY <2>1 DEF IInv, Grows
    <2>2. CASE row' = [row EXCEPT ![e.id] = m] /\ gone' = gone
        BY <2>2, <1>4, <1>6, PutGood DEF IInv
    <2> QED  BY <1>1, <2>1, <2>2
<1>8. OpOk(row', gone', op')
    BY <1>1, <1>7, OthersGrow DEF IInv
<1> QED  BY <1>1, <1>2, <1>7, <1>8, StoreStep DEF IInv

LEMMA HandleDeletedOk ==
    ASSUME IInv, HandleDeleted
    PROVE  IInv'
<1>1. /\ events # <<>> /\ events' = Tail(events) /\ Delete(Head(events).id, "removed")
      /\ UNCHANGED <<cr, watcher, sweep, op>>
    BY DEF HandleDeleted
<1>2. EventsOk(row, gone, events') /\ Head(events) \in Events
    BY <1>1, TailOk DEF IInv
<1>3. Head(events).id \in Ids
    BY <1>2 DEF Events
<1>4. OpOk(row, gone, op') /\ SweepOk(sweep')
    BY <1>1 DEF IInv
<1> QED  BY <1>1, <1>2, <1>3, <1>4, DeleteOk

\* What a new watch lists is the resource, if there is one.
LEMMA RelistOk ==
    ASSUME IInv
    PROVE  EventsOk(row, gone, Relist)
<1>1. CASE cr = NoCR
    BY <1>1 DEF Relist, EventsOk
<1>2. CASE cr # NoCR
    <2> DEFINE e == [kind |-> "Applied", id |-> cr.id, cond |-> cr.cond, deleting |-> cr.deleting]
    <2>1. e \in Events /\ Known(row, gone, e.id)
        BY <1>2 DEF IInv, CrOk, Events
    <2>2. Relist = <<e>>
        BY <1>2 DEF Relist
    <2> HIDE DEF e
    <2> QED  BY <2>1, <2>2 DEF EventsOk
<1> QED  BY <1>1, <1>2

LEMMA RestartsOk ==
    ASSUME IInv, WatchRestarted \/ GatewayRestart
    PROVE  IInv'
<1>1. EventsOk(row, gone, Relist)
    BY RelistOk
<1>2. CASE WatchRestarted
    BY <1>1, <1>2 DEF WatchRestarted, IInv
<1>3. CASE GatewayRestart
    <2>1. /\ UNCHANGED <<row, gone, cr>> /\ events' = Relist
          /\ watcher' = [pc |-> "idle", ev |-> NoEvent, seen |-> NoRow]
          /\ sweep' = [pc |-> "idle", id |-> NoId]
          /\ op' = [h \in Handlers |-> Idle]
        BY <1>3 DEF GatewayRestart
    <2>2. OpOk(row, gone, op')
        BY <2>1, IdleOk DEF OpOk
    <2>3. WatcherOk(row, gone, watcher') /\ SweepOk(sweep')
        BY <2>1 DEF WatcherOk, SweepOk
    <2> QED  BY <1>1, <2>1, <2>2, <2>3 DEF IInv
<1> QED  BY <1>2, <1>3

LEMMA ReconcilerOk ==
    ASSUME IInv, Reconciler
    PROVE  IInv'
<1>1. CASE \E i \in Ids : SweepList(i)
    <2>1. SweepOk(sweep') /\ UNCHANGED <<row, gone, cr, events, watcher, op>>
        BY <1>1 DEF SweepList, SweepOk
    <2> QED  BY <2>1 DEF IInv
<1>2. CASE SweepCheck
    <2>1. SweepOk(sweep') /\ UNCHANGED <<row, gone, cr, events, watcher, op>>
        BY <1>2 DEF SweepCheck, IInv, SweepOk
    <2> QED  BY <2>1 DEF IInv
<1>3. CASE SweepRemove
    <2>1. /\ Delete(sweep.id, "removed") /\ UNCHANGED <<cr, events, watcher, op>>
          /\ SweepOk(sweep')
        BY <1>3 DEF SweepRemove, SweepOk
    <2>2. EventsOk(row, gone, events') /\ OpOk(row, gone, op')
        BY <2>1 DEF IInv
    <2>3. sweep.id \in Ids
        BY <1>3 DEF SweepRemove, IInv, SweepOk
    <2> QED  BY <2>1, <2>2, <2>3, DeleteOk
<1> QED  BY <1>1, <1>2, <1>3 DEF Reconciler

LEMMA KubernetesOk ==
    ASSUME IInv, (\E c \in Conds : StatusChanges(c)) \/ Finalized
    PROVE  IInv'
<1>1. CASE \E c \in Conds : StatusChanges(c)
    <2> PICK c \in Conds : StatusChanges(c)
        BY <1>1
    <2>1. CrOk(row, gone, cr') /\ EventsOk(row, gone, events')
        BY ResourceChanged DEF StatusChanges
    <2> QED  BY <2>1, QuietStep DEF StatusChanges, IInv
<1>2. CASE Finalized
    <2>1. cr # NoCR /\ cr.cond \in Conds
        BY <1>2 DEF Finalized, IInv, CrOk
    <2>2. EventsOk(row, gone, events') /\ CrOk(row, gone, cr')
        BY <1>2, <2>1, ResourceChanged DEF Finalized, CrOk
    <2> QED  BY <1>2, <2>2, QuietStep DEF Finalized, IInv
<1> QED  BY <1>1, <1>2

LEMMA NextIInv == IInv /\ [Next]_vars => IInv'
<1> SUFFICES ASSUME IInv, [Next]_vars PROVE IInv'
    OBVIOUS
<1>1. CASE \E h \in Handlers : Request(h) \/ Step(h) \/ Drop(h)
    BY <1>1, RequestOk, CreatePutOk, CreateKubeOk, HandlerDeletesOk, DeletePutOk, DeleteKubeOk,
       UpdatePutOk, DropOk DEF Step
<1>2. CASE Watcher \/ WatchRestarted \/ GatewayRestart \/ Reconciler
    BY <1>2, AppliedReadOk, AppliedWriteOk, HandleDeletedOk, RestartsOk, ReconcilerOk DEF Watcher
<1>3. CASE (\E c \in Conds \ {"none"} : StatusChanges(c)) \/ Finalized
    BY <1>3, KubernetesOk
<1>4. CASE \/ (\E i \in Ids, stop \in BOOLEAN : WatchSandbox(i, stop)) \/ Stream
         \/ (\E n \in 0 .. MaxOlder : OthersChange(n)) \/ UNCHANGED vars
    <2>1. UNCHANGED <<row, gone, cr, events, watcher, sweep, op>>
        BY <1>4 DEF WatchSandbox, Stream, StreamSnapshot, StreamNotified, StreamBroken,
                    StreamKeeps, OthersChange, vars
    <2> QED  BY <2>1 DEF IInv
<1> QED  BY <1>1, <1>2, <1>3, <1>4 DEF Next


LEMMA Invariance == Spec => []IInv
BY InitIInv, NextIInv, PTL DEF Spec

-------------------------------------------------------------------------------
(* What it implies. *)

\* In every interleaving of creates, deletes, status reports, dropped handlers,
\* failed and late calls to Kubernetes, watch restarts, gateway restarts and
\* sweeps, for any number of them: a record without its spec is one whose
\* create_sandbox row was removed before; the watcher's placeholder never
\* comes first.
THEOREM PlaceholdersFollowRemoval == Spec => []PlaceholderOnlyAfterRemoval
<1>1. IInv => PlaceholderOnlyAfterRemoval
    BY DEF IInv, RowsOk, Sound, Gone, PlaceholderOnlyAfterRemoval
<1> QED  BY <1>1, Invariance, PTL

\* The variables the gateway requires are what it sets, whatever the request has.
LEMMA RequiredEnvWins ==
    ASSUME NEW s, NEW id, NEW k \in DOMAIN required_env(id)
    PROVE  build_env_list(s, id)[k] = required_env(id)[k]
BY DEF build_env_list, Upsert

LEMMA RequiredEnv ==
    ASSUME NEW id
    PROVE  /\ {"SANDBOX_ID", "SANDBOX_COMMAND"} \subseteq DOMAIN required_env(id)
           /\ ClientTlsSecret # Unset => "TLS_KEY" \in DOMAIN required_env(id)
           /\ required_env(id)["SANDBOX_ID"] = <<"gateway", id>>
           /\ \A k \in DOMAIN required_env(id) : required_env(id)[k][1] = "gateway"
BY DEF required_env, Gateway

LEMMA PodOf ==
    ASSUME NEW s, NEW id, NEW pod, pod = sandbox_to_k8s_spec(s, id).podTemplate
    PROVE  /\ pod.env["SANDBOX_ID"] = <<"gateway", id>>
           /\ pod.env["SANDBOX_COMMAND"][1] = "gateway"
           /\ pod.command = "supervisor" /\ pod.runAsUser = "root"
           /\ "supervisor" \in pod.mounts /\ pod.mounts \subseteq pod.volumes
           /\ "client-tls" \in pod.mounts => pod.env["TLS_KEY"][1] = "gateway"
<1> DEFINE tls == IF ClientTlsSecret = Unset THEN {} ELSE {"client-tls"}
<1>1. /\ pod.env = build_env_list(s, id)
      /\ pod.command = "supervisor" /\ pod.runAsUser = "root"
      /\ pod.mounts = tls \cup {"supervisor"} /\ pod.volumes = tls \cup {"supervisor"}
    BY DEF sandbox_to_k8s_spec, sandbox_template_to_k8s, apply_supervisor_sideload
<1>2. "client-tls" \in pod.mounts => ClientTlsSecret # Unset
    BY <1>1
<1> QED  BY <1>1, <1>2, RequiredEnvWins, RequiredEnv

\* For every template and spec a request may carry and every configuration of
\* the gateway: the pod of the resource that owns the name runs the supervisor
\* as root, under the id the resource is labelled with.
THEOREM PodsRunTheirSandbox == Spec => []PodRunsItsSandbox
<1>1. ASSUME IInv, cr # NoCR
      PROVE  PodRunsItsSandbox
    <2>1. /\ cr.id \in Nat /\ cr.id >= 1 /\ cr.id <= Len(AcceptedSpecs)
          /\ cr.spec = ResourceSpecs[cr.id]
        BY <1>1, LifecycleAssumption DEF IInv, CrOk, Ids
    <2>2. cr.spec = sandbox_to_k8s_spec(SpecOf(cr.id), cr.id)
        BY <2>1 DEF ResourceSpecs
    <2> QED  BY <2>2, PodOf DEF PodRunsItsSandbox
<1>2. IInv => PodRunsItsSandbox
    BY <1>1 DEF PodRunsItsSandbox
<1> QED  BY <1>2, Invariance, PTL

===============================================================================
