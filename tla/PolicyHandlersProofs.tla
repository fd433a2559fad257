------------------------- MODULE PolicyHandlersProofs -------------------------
(***************************************************************************)
(* Proofs about PolicyHandlers, for any number of handlers, chunks,        *)
(* policies and requests.                                                  *)
(*                                                                         *)
(* None of the properties is inductive as it stands: whether a write is    *)
(* right depends on what its handler read some steps ago.  HandlerOk says  *)
(* what a handler at each label still knows about the table, although      *)
(* others have written since: versions and policies never go away (Keeps), *)
(* so what was read stays true of its version, and an insertion that finds *)
(* its version free is an insertion right after the revision it read.      *)
(***************************************************************************)
EXTENDS PolicyHandlers, TLAPS

Writes == {"set", "approve", "approve_all", "reject", "undo"}

\* The revisions are numbered without a gap.
Contiguous(t) == \E n \in Nat : DOMAIN t = 1 .. n

\* Nothing that t holds is lost or rewritten in u.
Keeps(t, u) ==
    /\ DOMAIN t \subseteq DOMAIN u
    /\ \A v \in DOMAIN t : u[v].policy = t[v].policy

PolicyAt(t, n) == IF n = 0 THEN DefaultPolicy ELSE t[n].policy

\* A handler about to insert knows the policy of the revision it read.
PutOk(t, l) ==
    /\ l.base <= get_latest_policy(t)
    /\ l.new \in Policy
    /\ l.new = NewPolicy(l, PolicyAt(t, l.base))
    /\ l.op = "set" /\ l.base > 0 => PolicyAt(t, l.base) # l.policy
    /\ Removes(l.op) => l.base > 0

\* The revision a handler has inserted.
Persisted(t, l) ==
    /\ l.base + 1 \in DOMAIN t
    /\ Merges(l.op) => l.rule \subseteq t[l.base + 1].policy.net
    /\ Removes(l.op) => l.chunk \notin t[l.base + 1].policy.net

\* What the operation at each label is, and what it carries.
RequestOk(label, l) ==
    /\ label \in {"set_global", "set_backfill"} => l.op = "set" /\ l.policy \in Policy
    /\ label \in {"latest", "put", "supersede"} => l.op \in Writes
    /\ label \in {"latest", "put"} /\ l.op = "set" => l.policy \in Policy
    /\ label = "read_chunk" => l.op \in {"approve", "reject", "undo"}
    /\ label = "reject_global" => l.op = "reject"
    /\ label = "mark" => l.op \in Writes \ {"set"}
    /\ label \in {"read_chunk", "reject_global", "latest", "put", "supersede", "mark"}
          /\ l.op # "set" => l.chunk \in Chunks
    /\ label = "list" => l.op = "approve_all"
    /\ label = "cfg_put" => l.policy \in Policy

HandlerOk(t, label, l) ==
    /\ RequestOk(label, l)
    /\ label = "latest" /\ l.attempt > 1 => l.base < get_latest_policy(t)
    /\ label = "reject_global" => l.attempt = 1
    /\ label = "put" => PutOk(t, l)
    /\ label = "supersede" => Persisted(t, l)
    /\ label = "mark" /\ l.op # "reject" => Persisted(t, l)
    /\ label = "cfg_loaded" => 1 \in DOMAIN t
    /\ label \in {"rep_supersede", "rep_read", "rep_write"} => l.version \in DOMAIN t

\* The inductive invariant.
IInv ==
    /\ TypeOK
    /\ Contiguous(table)
    /\ \A h \in Handlers : HandlerOk(table, pc[h], loc[h])
    /\ LatestNotSuperseded

-------------------------------------------------------------------------------
(* The operations of the store. *)

LEMMA LatestOfContiguous ==
    ASSUME NEW t, NEW n \in Nat, DOMAIN t = 1 .. n
    PROVE  get_latest_policy(t) = n
<1>1. CASE n = 0
    BY <1>1 DEF get_latest_policy
<1>2. CASE n > 0
    <2>1. n \in DOMAIN t /\ \A w \in DOMAIN t : w <= n
        BY <1>2
    <2>2. \A v \in DOMAIN t : (\A w \in DOMAIN t : w <= v) => v = n
        BY <2>1
    <2> QED  BY <2>1, <2>2, <1>2 DEF get_latest_policy
<1> QED  BY <1>1, <1>2

LEMMA LatestFacts ==
    ASSUME NEW t, Contiguous(t)
    PROVE  /\ get_latest_policy(t) \in Nat
           /\ DOMAIN t = 1 .. get_latest_policy(t)
BY LatestOfContiguous DEF Contiguous

\* An insertion at a free version next to one that exists (or at 1) is an
\* insertion at the end.
LEMMA PutAtEnd ==
    ASSUME NEW t, Contiguous(t), IsTable(t, Policy), NEW p \in Policy,
           NEW b \in Nat, b <= get_latest_policy(t), ~VersionTaken(t, b + 1),
           NEW u, u = put_policy_revision(t, b + 1, p)
    PROVE  /\ b = get_latest_policy(t)
           /\ DOMAIN u = 1 .. b + 1
           /\ get_latest_policy(u) = b + 1
           /\ Contiguous(u) /\ IsTable(u, Policy) /\ Keeps(t, u)
           /\ u[b + 1].policy = p /\ u[b + 1].status = "pending"
<1>1. b = get_latest_policy(t) /\ DOMAIN t = 1 .. b
    BY LatestFacts DEF VersionTaken
<1>2. DOMAIN u = 1 .. b + 1
    BY <1>1 DEF put_policy_revision
<1>3. get_latest_policy(u) = b + 1 /\ Contiguous(u)
    BY <1>2, LatestOfContiguous DEF Contiguous
<1>4. /\ u[b + 1] = [policy |-> p, status |-> "pending"]
      /\ \A v \in DOMAIN t : u[v] = t[v]
    BY <1>1 DEF put_policy_revision
<1>5. IsTable(u, Policy)
    BY <1>1, <1>2, <1>4 DEF IsTable, RevisionStatus
<1> QED  BY <1>1, <1>2, <1>3, <1>4, <1>5 DEF Keeps

LEMMA StatusUpdate ==
    ASSUME NEW t, Contiguous(t), IsTable(t, Policy), NEW v, NEW s \in {"loaded", "failed"},
           NEW u, u = update_policy_status(t, v, s)
    PROVE  /\ DOMAIN u = DOMAIN t /\ get_latest_policy(u) = get_latest_policy(t)
           /\ Contiguous(u) /\ IsTable(u, Policy) /\ Keeps(t, u)
           /\ \A w \in DOMAIN t : u[w].status # t[w].status => u[w].status = s
<1>1. DOMAIN u = DOMAIN t
    BY DEF update_policy_status
<1>2. get_latest_policy(u) = get_latest_policy(t) /\ Contiguous(u)
    BY <1>1 DEF Contiguous, get_latest_policy
<1>3. \A w \in DOMAIN t : /\ u[w] \in [policy : Policy, status : RevisionStatus]
                          /\ u[w].policy = t[w].policy
                          /\ u[w].status # t[w].status => u[w].status = s
    BY DEF update_policy_status, IsTable, RevisionStatus
<1> QED  BY <1>1, <1>2, <1>3 DEF IsTable, Keeps

LEMMA SupersedeUpdate ==
    ASSUME NEW t, Contiguous(t), IsTable(t, Policy), NEW v \in DOMAIN t,
           NEW u \in {supersede_older_policies(t, v), t}
    PROVE  /\ DOMAIN u = DOMAIN t /\ get_latest_policy(u) = get_latest_policy(t)
           /\ Contiguous(u) /\ IsTable(u, Policy) /\ Keeps(t, u)
           /\ DOMAIN t # {} =>
                 u[get_latest_policy(t)].status = t[get_latest_policy(t)].status
<1>1. CASE u = t
    BY <1>1 DEF Keeps
<1>2. CASE u = supersede_older_policies(t, v)
    <2>1. DOMAIN u = DOMAIN t
        BY <1>2 DEF supersede_older_policies
    <2>2. get_latest_policy(u) = get_latest_policy(t) /\ Contiguous(u)
        BY <2>1 DEF Contiguous, get_latest_policy
    <2>3. \A w \in DOMAIN t : /\ u[w] \in [policy : Policy, status : RevisionStatus]
                              /\ u[w].policy = t[w].policy
                              /\ ~(w < v) => u[w] = t[w]
        BY <1>2 DEF supersede_older_policies, IsTable, RevisionStatus
    <2>4. DOMAIN t # {} => /\ get_latest_policy(t) \in DOMAIN t
                           /\ ~(get_latest_policy(t) < v)
        BY LatestFacts
    <2> QED  BY <2>1, <2>2, <2>3, <2>4 DEF IsTable, Keeps
<1> QED  BY <1>1, <1>2

\* What a handler knows survives the writes of the others.
LEMMA HandlerOkStable ==
    ASSUME NEW t, NEW u, Contiguous(t), Contiguous(u), Keeps(t, u),
           NEW label \in Labels, NEW l \in Local, HandlerOk(t, label, l)
    PROVE  HandlerOk(u, label, l)
<1>1. /\ get_latest_policy(t) \in Nat /\ DOMAIN t = 1 .. get_latest_policy(t)
      /\ get_latest_policy(u) \in Nat /\ DOMAIN u = 1 .. get_latest_policy(u)
      /\ get_latest_policy(t) <= get_latest_policy(u)
    <2>1. get_latest_policy(t) \in Nat /\ DOMAIN t = 1 .. get_latest_policy(t)
        BY LatestFacts
    <2>2. get_latest_policy(u) \in Nat /\ DOMAIN u = 1 .. get_latest_policy(u)
        BY LatestFacts
    <2> QED  BY <2>1, <2>2 DEF Keeps
<1>2. l.base \in Nat /\ l.attempt \in Nat
    BY DEF Local
<1>3. PutOk(t, l) => PutOk(u, l)
    BY <1>1, <1>2 DEF PutOk, PolicyAt, Keeps
<1>4. Persisted(t, l) => Persisted(u, l)
    BY DEF Persisted, Keeps
<1> QED  BY <1>1, <1>2, <1>3, <1>4 DEF HandlerOk, Keeps

-------------------------------------------------------------------------------
(* Every action keeps the inductive invariant. *)

LEMMA NoLocalOk ==
    /\ NoLocal \in Local
    /\ \A t : HandlerOk(t, "idle", NoLocal)
<1>1. NoLocal \in Local
    BY ConstantsAssumption DEF NoLocal, Local, NoRecord, SandboxRecord, Ops
<1>2. \A t : HandlerOk(t, "idle", NoLocal)
    BY DEF HandlerOk, RequestOk
<1> QED  BY <1>1, <1>2

\* A step of handler h: the others keep what they know.
LEMMA HandlerStep ==
    ASSUME IInv, NEW h \in Handlers, NEW label \in Labels, NEW l \in Local,
           Goto(h, label, l), Contiguous(table'), Keeps(table, table'),
           HandlerOk(table', label, l)
    PROVE  /\ pc' \in [Handlers -> Labels]
           /\ loc' \in [Handlers -> Local]
           /\ \A g \in Handlers : HandlerOk(table', pc'[g], loc'[g])
<1>1. pc \in [Handlers -> Labels] /\ loc \in [Handlers -> Local]
    BY DEF IInv, TypeOK
<1>2. pc' \in [Handlers -> Labels] /\ loc' \in [Handlers -> Local]
    BY <1>1 DEF Goto
<1>3. ASSUME NEW g \in Handlers
      PROVE  HandlerOk(table', pc'[g], loc'[g])
    <2>1. CASE g = h
        BY <2>1, <1>1 DEF Goto
    <2>2. CASE g # h
        <3>1. pc'[g] = pc[g] /\ loc'[g] = loc[g]
            BY <2>2, <1>1 DEF Goto
        <3>2. HandlerOk(table, pc[g], loc[g]) /\ Contiguous(table)
            BY DEF IInv
        <3>3. pc[g] \in Labels /\ loc[g] \in Local
            BY <1>1
        <3> QED  BY <3>1, <3>2, <3>3, HandlerOkStable
    <2> QED  BY <2>1, <2>2
<1> QED  BY <1>2, <1>3

LEMMA KeepsRefl == \A t : Keeps(t, t)
BY DEF Keeps

\* A handler returns.
LEMMA ReturnStep ==
    ASSUME IInv, NEW h \in Handlers, Return(h), Contiguous(table'),
           Keeps(table, table')
    PROVE  /\ pc' \in [Handlers -> Labels]
           /\ loc' \in [Handlers -> Local]
           /\ \A g \in Handlers : HandlerOk(table', pc'[g], loc'[g])
<1>1. Goto(h, "idle", NoLocal) /\ "idle" \in Labels
    BY DEF Return, Labels
<1> QED  BY <1>1, HandlerStep, NoLocalOk

\* A step of handler h that leaves the store alone.
LEMMA QuietStep ==
    ASSUME IInv, NEW h \in Handlers, NEW label \in Labels, NEW l \in Local,
           Goto(h, label, l), HandlerOk(table, label, l), UNCHANGED store,
           issued' \in Nat
    PROVE  IInv'
<1>1. table' = table
    BY DEF store
<1>2. Contiguous(table') /\ Keeps(table, table') /\ HandlerOk(table', label, l)
    BY <1>1, KeepsRefl DEF IInv
<1>3. /\ pc' \in [Handlers -> Labels]
      /\ loc' \in [Handlers -> Local]
      /\ \A g \in Handlers : HandlerOk(table', pc'[g], loc'[g])
    BY <1>2, HandlerStep
<1> QED  BY <1>1, <1>2, <1>3 DEF IInv, TypeOK, LatestNotSuperseded, store

LEMMA QuietReturn ==
    ASSUME IInv, NEW h \in Handlers, Return(h), UNCHANGED store, issued' \in Nat
    PROVE  IInv'
<1>1. Goto(h, "idle", NoLocal) /\ "idle" \in Labels
    BY DEF Return, Labels
<1> QED  BY <1>1, QuietStep, NoLocalOk

\* A request that only reads before its first await.
LEMMA StartsKeepIInv ==
    ASSUME IInv, NEW h \in Handlers,
           \/ \E p \in Submitted : UpdateConfig(h, p)
           \/ \E c \in Chunks : \/ ApproveDraftChunk(h, c)
                                \/ RejectDraftChunk(h, c)
                                \/ UndoDraftChunk(h, c)
           \/ ApproveAllDraftChunks(h)
           \/ GetSandboxConfig(h)
    PROVE  IInv'
<1> USE NoLocalOk, ConstantsAssumption
<1>0. issued \in Nat /\ rec \in SandboxRecord
    BY DEF IInv, TypeOK
<1>1. ASSUME NEW p \in Submitted, UpdateConfig(h, p)
      PROVE  IInv'
    <2> DEFINE q == ensure_sandbox_process_identity(p)
               l == [NoLocal EXCEPT !.op = "set", !.seen = rec, !.policy = q]
    <2>0. q \in Policy
        BY DEF ensure_sandbox_process_identity, Policy
    <2> HIDE DEF q
    <2>1. l \in Local /\ l.op = "set" /\ l.policy = q
        BY <1>0, <2>0 DEF Local, Ops, NoLocal
    <2>2. HandlerOk(table, "set_global", l)
        BY <2>0, <2>1 DEF HandlerOk, RequestOk
    <2>3. Goto(h, "set_global", l) /\ UNCHANGED store
        BY <1>1, Zenon DEF UpdateConfig, Start, q
    <2>4. issued' = issued + 1
        BY <1>1, Zenon DEF UpdateConfig, Start
    <2>5. issued' \in Nat
        BY <1>0, <2>4
    <2> HIDE DEF l
    <2> QED  BY <2>1, <2>2, <2>3, <2>5, QuietStep DEF Labels
<1>2. ASSUME NEW c \in Chunks, NEW op \in {"approve", "reject", "undo"},
             Start(h, "read_chunk", [NoLocal EXCEPT !.op = op, !.chunk = c]),
             UNCHANGED store
      PROVE  IInv'
    <2> DEFINE l == [NoLocal EXCEPT !.op = op, !.chunk = c]
    <2>1. l \in Local /\ l.op = op /\ l.chunk = c
        BY DEF Local, Ops, NoLocal
    <2>2. HandlerOk(table, "read_chunk", l)
        BY <2>1 DEF HandlerOk, RequestOk
    <2>3. Goto(h, "read_chunk", l) /\ UNCHANGED store /\ issued' \in Nat
        BY <1>2, <1>0 DEF Start
    <2> HIDE DEF l
    <2> QED  BY <2>1, <2>2, <2>3, QuietStep DEF Labels
<1>3. ASSUME NEW c \in Chunks, \/ ApproveDraftChunk(h, c)
                               \/ RejectDraftChunk(h, c)
                               \/ UndoDraftChunk(h, c)
      PROVE  IInv'
    BY <1>3, <1>2 DEF ApproveDraftChunk, RejectDraftChunk, UndoDraftChunk
<1>4. CASE ApproveAllDraftChunks(h)
    <2> DEFINE l == [NoLocal EXCEPT !.op = "approve_all"]
    <2>1. l \in Local /\ l.op = "approve_all"
        BY DEF Local, Ops, NoLocal
    <2>2. HandlerOk(table, "list", l)
        BY <2>1 DEF HandlerOk, RequestOk
    <2>3. Goto(h, "list", l) /\ UNCHANGED store /\ issued' \in Nat
        BY <1>4, <1>0 DEF ApproveAllDraftChunks, Start
    <2> HIDE DEF l
    <2> QED  BY <2>1, <2>2, <2>3, QuietStep DEF Labels
<1>5. CASE GetSandboxConfig(h)
    <2> DEFINE l == [NoLocal EXCEPT !.op = "config", !.policy = rec.policy]
    <2>1. l \in Local
        BY <1>0 DEF Local, Ops, NoLocal, SandboxRecord
    <2>2. HandlerOk(table, "cfg_latest", l)
        BY DEF HandlerOk, RequestOk
    <2>3. Goto(h, "cfg_latest", l) /\ UNCHANGED store /\ issued' \in Nat
        BY <1>5, <1>0 DEF GetSandboxConfig, Start
    <2> HIDE DEF l
    <2> QED  BY <2>1, <2>2, <2>3, QuietStep DEF Labels
<1> QED  BY <1>1, <1>3, <1>4, <1>5

\* A step that changes the table only in ways that keep it.
LEMMA TableStep ==
    ASSUME IInv, NEW h \in Handlers, NEW label \in Labels, NEW l \in Local,
           Goto(h, label, l), HandlerOk(table', label, l),
           Contiguous(table'), IsTable(table', Policy), Keeps(table, table'),
           LatestNotSuperseded', served' \in BOOLEAN,
           UNCHANGED <<rec, draft, global>>, issued' \in Nat
    PROVE  IInv'
<1>1. /\ pc' \in [Handlers -> Labels]
      /\ loc' \in [Handlers -> Local]
      /\ \A g \in Handlers : HandlerOk(table', pc'[g], loc'[g])
    BY HandlerStep
<1> QED  BY <1>1 DEF IInv, TypeOK

LEMMA TableReturn ==
    ASSUME IInv, NEW h \in Handlers, Return(h),
           Contiguous(table'), IsTable(table', Policy), Keeps(table, table'),
           LatestNotSuperseded', served' \in BOOLEAN,
           UNCHANGED <<rec, draft, global>>, issued' \in Nat
    PROVE  IInv'
<1>1. Goto(h, "idle", NoLocal) /\ "idle" \in Labels
    BY DEF Return, Labels
<1> QED  BY <1>1, TableStep, NoLocalOk

\* A step that changes the Sandbox message or the draft rows.
LEMMA RecordStep ==
    ASSUME IInv, NEW h \in Handlers, NEW label \in Labels, NEW l \in Local,
           Goto(h, label, l), HandlerOk(table, label, l),
           rec' \in SandboxRecord, draft' \in [Chunks -> DraftRow],
           UNCHANGED <<table, global, served, issued>>
    PROVE  IInv'
<1>1. Contiguous(table') /\ Keeps(table, table') /\ HandlerOk(table', label, l)
    BY KeepsRefl DEF IInv
<1>2. /\ pc' \in [Handlers -> Labels]
      /\ loc' \in [Handlers -> Local]
      /\ \A g \in Handlers : HandlerOk(table', pc'[g], loc'[g])
    BY <1>1, HandlerStep
<1> QED  BY <1>1, <1>2 DEF IInv, TypeOK, LatestNotSuperseded

\* What IInv says of the handler that takes a step.
LEMMA HandlerFacts ==
    ASSUME IInv, NEW h \in Handlers
    PROVE  /\ loc[h] \in Local /\ pc[h] \in Labels
           /\ HandlerOk(table, pc[h], loc[h])
           /\ issued \in Nat /\ rec \in SandboxRecord
           /\ draft \in [Chunks -> DraftRow] /\ served \in BOOLEAN
           /\ Contiguous(table) /\ IsTable(table, Policy)
           /\ get_latest_policy(table) \in Nat
           /\ DOMAIN table = 1 .. get_latest_policy(table)
<1>1. Contiguous(table)
    BY DEF IInv
<1> QED  BY <1>1, LatestFacts DEF IInv, TypeOK

LEMMA SetCheckGlobalKeepsIInv ==
    ASSUME IInv, NEW h \in Handlers, SetCheckGlobal(h)
    PROVE  IInv'
<1> DEFINE l == loc[h]
           m == [l EXCEPT !.attempt = 1]
<1>1. /\ l \in Local /\ HandlerOk(table, "set_global", l) /\ issued' \in Nat
      /\ get_latest_policy(table) \in Nat /\ UNCHANGED store
    BY HandlerFacts DEF SetCheckGlobal, At
<1>2. l.op = "set" /\ l.policy \in Policy
    BY <1>1 DEF HandlerOk, RequestOk
<1>3. CASE Return(h)
    BY <1>1, <1>3, QuietReturn
<1>4. CASE Goto(h, "set_backfill", l)
    <2>1. HandlerOk(table, "set_backfill", l)
        BY <1>2 DEF HandlerOk, RequestOk
    <2> QED  BY <1>1, <1>4, <2>1, QuietStep DEF Labels
<1>5. CASE Goto(h, "latest", m)
    <2>1. m \in Local /\ m.op = "set" /\ m.policy \in Policy /\ m.attempt = 1
        BY <1>1, <1>2 DEF Local
    <2> HIDE DEF m
    <2>2. HandlerOk(table, "latest", m)
        BY <1>1, <2>1 DEF HandlerOk, RequestOk, Writes
    <2> QED  BY <1>1, <1>5, <2>1, <2>2, QuietStep DEF Labels
<1> QED  BY <1>3, <1>4, <1>5 DEF SetCheckGlobal

LEMMA SetBackfillKeepsIInv ==
    ASSUME IInv, NEW h \in Handlers, SetBackfill(h)
    PROVE  IInv'
<1> DEFINE l == loc[h]
           m == [l EXCEPT !.attempt = 1]
<1>1. /\ l \in Local /\ HandlerOk(table, "set_backfill", l)
      /\ get_latest_policy(table) \in Nat /\ draft \in [Chunks -> DraftRow]
    BY HandlerFacts DEF SetBackfill, At
<1>2. l.op = "set" /\ l.policy \in Policy
    BY <1>1 DEF HandlerOk, RequestOk
<1>3. m \in Local /\ m.op = "set" /\ m.policy \in Policy /\ m.attempt = 1
    BY <1>1, <1>2 DEF Local
<1>4. rec' \in SandboxRecord
    BY <1>1, <1>2 DEF SetBackfill, Local, SandboxRecord
<1>5. /\ Goto(h, "latest", m) /\ UNCHANGED <<table, global, served, issued>>
      /\ draft' = draft
    BY DEF SetBackfill, At
<1> HIDE DEF m
<1>6. HandlerOk(table, "latest", m)
    BY <1>1, <1>3 DEF HandlerOk, RequestOk, Writes
<1> QED  BY <1>1, <1>3, <1>4, <1>5, <1>6, RecordStep DEF Labels

\* The policy a handler computes is a policy.
LEMMA NewPolicyType ==
    ASSUME NEW l \in Local, NEW current \in Policy, l.op \in Writes,
           l.op = "set" => l.policy \in Policy
    PROVE  /\ NewPolicy(l, current) \in Policy
           /\ Merges(l.op) => l.rule \subseteq NewPolicy(l, current).net
           /\ Removes(l.op) => l.chunk \notin NewPolicy(l, current).net
<1>1. MergeRule(current, l.rule) \in Policy /\ l.rule \subseteq MergeRule(current, l.rule).net
    BY DEF MergeRule, Policy, Local
<1>2. RemoveChunk(current, l.chunk) \in Policy /\ l.chunk \notin RemoveChunk(current, l.chunk).net
    BY DEF RemoveChunk, Policy
<1> QED  BY <1>1, <1>2 DEF NewPolicy, Merges, Removes, Writes

LEMMA DefaultPolicyType == DefaultPolicy \in Policy
BY ConstantsAssumption DEF DefaultPolicy, Policy

LEMMA ReadLatestKeepsIInv ==
    ASSUME IInv, NEW h \in Handlers, ReadLatest(h)
    PROVE  IInv'
<1> DEFINE l == loc[h]
           n == get_latest_policy(table)
           new == NewPolicy(l, PolicyAt(table, n))
           m == [l EXCEPT !.base = n, !.new = new]
<1>1. /\ l \in Local /\ HandlerOk(table, "latest", l) /\ issued' \in Nat
      /\ n \in Nat /\ DOMAIN table = 1 .. n /\ IsTable(table, Policy)
      /\ UNCHANGED store
    BY HandlerFacts DEF ReadLatest, At
<1>2. /\ l.op \in Writes
      /\ l.op = "set" => l.policy \in Policy
      /\ l.op # "set" => l.chunk \in Chunks
    BY <1>1 DEF HandlerOk, RequestOk
<1>3. CASE Return(h)
    BY <1>1, <1>3, QuietReturn
<1>4. ASSUME Goto(h, "put", m), l.op = "set" /\ n > 0 => PolicyAt(table, n) # l.policy,
             Removes(l.op) => n > 0
      PROVE  IInv'
    <2>1. PolicyAt(table, n) \in Policy
        BY <1>1, DefaultPolicyType DEF PolicyAt, IsTable
    <2>2. new \in Policy
        BY <1>1, <1>2, <2>1, NewPolicyType
    <2> HIDE DEF new
    <2>3. /\ m \in Local /\ m.base = n /\ m.new = new /\ m.op = l.op
          /\ m.policy = l.policy /\ m.attempt = l.attempt
          /\ m.chunk = l.chunk /\ m.rule = l.rule
        BY <1>1, <2>2 DEF Local
    <2> HIDE DEF m
    <2>4. NewPolicy(m, PolicyAt(table, n)) = new
        BY <2>3 DEF NewPolicy, new
    <2>5. PutOk(table, m)
        BY <1>1, <1>2, <2>2, <2>3, <2>4, <1>4 DEF PutOk
    <2>6. HandlerOk(table, "put", m)
        BY <1>2, <2>3, <2>5 DEF HandlerOk, RequestOk
    <2> QED  BY <1>1, <1>4, <2>3, <2>6, QuietStep DEF Labels
<1>5. \/ Return(h)
      \/ /\ Goto(h, "put", m)
         /\ l.op = "set" /\ n > 0 => PolicyAt(table, n) # l.policy
         /\ Removes(l.op) => n > 0
    <2>1. n > 0 \/ n = 0
        BY <1>1
    <2> QED  BY <2>1 DEF ReadLatest, PolicyAt
<1> QED  BY <1>3, <1>4, <1>5

LEMMA PutRevisionKeepsIInv ==
    ASSUME IInv, NEW h \in Handlers, PutRevision(h)
    PROVE  IInv'
<1> DEFINE l == loc[h]
<1>1. /\ l \in Local /\ HandlerOk(table, "put", l) /\ issued' \in Nat
      /\ Contiguous(table) /\ IsTable(table, Policy)
      /\ served' \in BOOLEAN /\ UNCHANGED <<rec, draft, global>>
    BY HandlerFacts DEF PutRevision, At
<1>2. PutOk(table, l) /\ l.base \in Nat /\ l.op \in Writes
    BY <1>1 DEF HandlerOk, RequestOk, Local
<1>3. /\ ~VersionTaken(table, l.base + 1)
      /\ table' = put_policy_revision(table, l.base + 1, l.new)
      /\ Goto(h, "supersede", l)
    BY DEF PutRevision, NextVersion
<1>4. l.base <= get_latest_policy(table) /\ l.new \in Policy
    BY <1>2 DEF PutOk
<1> HIDE DEF l
<1>5. /\ DOMAIN table' = 1 .. l.base + 1
      /\ get_latest_policy(table') = l.base + 1
      /\ Contiguous(table') /\ IsTable(table', Policy) /\ Keeps(table, table')
      /\ table'[l.base + 1].policy = l.new /\ table'[l.base + 1].status = "pending"
    BY <1>1, <1>2, <1>3, <1>4, PutAtEnd
<1>6. LatestNotSuperseded'
    BY <1>5 DEF LatestNotSuperseded
<1>7. Persisted(table', l)
    <2>1. l.new = NewPolicy(l, PolicyAt(table, l.base))
        BY <1>2 DEF PutOk
    <2>2. PolicyAt(table, l.base) \in Policy
        <3>1. get_latest_policy(table) \in Nat /\ DOMAIN table = 1 .. get_latest_policy(table)
            BY <1>1, LatestFacts
        <3> QED  BY <1>1, <1>2, <1>4, <3>1, DefaultPolicyType DEF PolicyAt, IsTable
    <2>3. l.op = "set" => l.policy \in Policy
        BY <1>1 DEF HandlerOk, RequestOk
    <2>4. /\ Merges(l.op) => l.rule \subseteq l.new.net
          /\ Removes(l.op) => l.chunk \notin l.new.net
        BY <1>1, <1>2, <2>1, <2>2, <2>3, NewPolicyType
    <2>5. l.base + 1 \in DOMAIN table'
        BY <1>2, <1>5
    <2> QED  BY <1>5, <2>4, <2>5 DEF Persisted
<1>8. HandlerOk(table', "supersede", l)
    BY <1>1, <1>7 DEF HandlerOk, RequestOk
<1> QED  BY <1>1, <1>3, <1>5, <1>6, <1>8, TableStep DEF Labels

\* The version that a losing attempt wanted exists, so the next attempt reads a
\* later revision.
LEMMA PutConflictKeepsIInv ==
    ASSUME IInv, NEW h \in Handlers, PutConflict(h)
    PROVE  IInv'
<1> DEFINE l == loc[h]
           m == [l EXCEPT !.attempt = @ + 1]
<1>1. /\ l \in Local /\ HandlerOk(table, "put", l) /\ issued' \in Nat
      /\ get_latest_policy(table) \in Nat
      /\ DOMAIN table = 1 .. get_latest_policy(table) /\ UNCHANGED store
    BY HandlerFacts DEF PutConflict, At
<1>2. CASE Return(h)
    BY <1>1, <1>2, QuietReturn
<1>3. CASE Goto(h, "latest", m)
    <2>1. l.base + 1 <= get_latest_policy(table)
        BY <1>1 DEF PutConflict, VersionTaken, NextVersion, HandlerOk, PutOk, Local
    <2>2. /\ m \in Local /\ m.op = l.op /\ m.policy = l.policy
          /\ m.chunk = l.chunk /\ m.base = l.base
        BY <1>1 DEF Local
    <2>3. m.base < get_latest_policy(table)
        BY <1>1, <2>1, <2>2 DEF Local
    <2> HIDE DEF m
    <2>4. HandlerOk(table, "latest", m)
        BY <1>1, <2>2, <2>3 DEF HandlerOk, RequestOk
    <2> QED  BY <1>1, <1>3, <2>2, <2>4, QuietStep DEF Labels
<1> QED  BY <1>2, <1>3 DEF PutConflict, RetryFrom

LEMMA SupersedeKeepsIInv ==
    ASSUME IInv, NEW h \in Handlers, Supersede(h)
    PROVE  IInv'
<1> DEFINE l == loc[h]
<1>1. /\ l \in Local /\ HandlerOk(table, "supersede", l) /\ issued' \in Nat
      /\ Contiguous(table) /\ IsTable(table, Policy)
      /\ served' \in BOOLEAN /\ UNCHANGED <<rec, draft, global>>
    BY HandlerFacts DEF Supersede, At
<1>2. Persisted(table, l) /\ l.op \in Writes /\ (l.op # "set" => l.chunk \in Chunks)
    BY <1>1 DEF HandlerOk, RequestOk
<1>3. /\ l.base + 1 \in DOMAIN table
      /\ table' \in {supersede_older_policies(table, l.base + 1), table}
    BY <1>2 DEF Supersede, NextVersion, Persisted
<1>4. /\ DOMAIN table' = DOMAIN table
      /\ get_latest_policy(table') = get_latest_policy(table)
      /\ Contiguous(table') /\ IsTable(table', Policy) /\ Keeps(table, table')
      /\ DOMAIN table # {} =>
            table'[get_latest_policy(table)].status = table[get_latest_policy(table)].status
    BY <1>1, <1>3, SupersedeUpdate
<1>5. LatestNotSuperseded'
    BY <1>4 DEF LatestNotSuperseded, IInv
<1>6. CASE Return(h)
    BY <1>1, <1>4, <1>5, <1>6, TableReturn
<1>7. CASE l.op # "set" /\ Goto(h, "mark", l)
    <2>1. Persisted(table', l)
        BY <1>2, <1>4 DEF Persisted, Keeps
    <2>2. HandlerOk(table', "mark", l)
        BY <1>2, <1>7, <2>1 DEF HandlerOk, RequestOk
    <2> HIDE DEF l
    <2> QED  BY <1>1, <1>4, <1>5, <1>7, <2>2, TableStep DEF Labels
<1> QED  BY <1>6, <1>7 DEF Supersede

LEMMA ReadChunkKeepsIInv ==
    ASSUME IInv, NEW h \in Handlers, ReadChunk(h)
    PROVE  IInv'
<1> DEFINE l == loc[h]
           row == draft[l.chunk]
           m == [l EXCEPT !.gen = row.gen, !.rule = row.rule, !.attempt = 1]
<1>1. /\ l \in Local /\ HandlerOk(table, "read_chunk", l) /\ issued' \in Nat
      /\ get_latest_policy(table) \in Nat /\ draft \in [Chunks -> DraftRow]
      /\ UNCHANGED store
    BY HandlerFacts DEF ReadChunk, At
<1>2. l.op \in {"approve", "reject", "undo"} /\ l.chunk \in Chunks
    BY <1>1 DEF HandlerOk, RequestOk
<1>3. row.gen \in Nat /\ row.rule \in SUBSET Chunks
    BY <1>1, <1>2 DEF DraftRow
<1>4. m \in Local /\ m.op = l.op /\ m.chunk = l.chunk /\ m.attempt = 1
    BY <1>1, <1>3 DEF Local
<1>5. \/ Return(h)
      \/ l.op # "reject" /\ Goto(h, "latest", m)
      \/ l.op = "reject" /\ Goto(h, "reject_global", m)
      \/ l.op = "reject" /\ Goto(h, "mark", m)
    BY DEF ReadChunk
<1> HIDE DEF m
<1>6. CASE Return(h)
    BY <1>1, <1>6, QuietReturn
<1>7. CASE l.op # "reject" /\ Goto(h, "latest", m)
    <2>1. HandlerOk(table, "latest", m)
        BY <1>1, <1>2, <1>4 DEF HandlerOk, RequestOk, Writes
    <2> QED  BY <1>1, <1>4, <1>7, <2>1, QuietStep DEF Labels
<1>8. CASE l.op = "reject" /\ Goto(h, "reject_global", m)
    <2>1. HandlerOk(table, "reject_global", m)
        BY <1>1, <1>2, <1>4, <1>8 DEF HandlerOk, RequestOk
    <2> QED  BY <1>1, <1>4, <1>8, <2>1, QuietStep DEF Labels
<1>9. CASE l.op = "reject" /\ Goto(h, "mark", m)
    <2>1. HandlerOk(table, "mark", m)
        BY <1>2, <1>4, <1>9 DEF HandlerOk, RequestOk, Writes
    <2> QED  BY <1>1, <1>4, <1>9, <2>1, QuietStep DEF Labels
<1> QED  BY <1>5, <1>6, <1>7, <1>8, <1>9

LEMMA RejectCheckGlobalKeepsIInv ==
    ASSUME IInv, NEW h \in Handlers, RejectCheckGlobal(h)
    PROVE  IInv'
<1>1. /\ loc[h] \in Local /\ HandlerOk(table, "reject_global", loc[h])
      /\ issued' \in Nat /\ UNCHANGED store
    BY HandlerFacts DEF RejectCheckGlobal, At
<1>2. HandlerOk(table, "latest", loc[h])
    BY <1>1 DEF HandlerOk, RequestOk, Writes
<1>3. CASE Return(h)
    BY <1>1, <1>3, QuietReturn
<1>4. CASE Goto(h, "latest", loc[h])
    BY <1>1, <1>2, <1>4, QuietStep DEF Labels
<1> QED  BY <1>3, <1>4 DEF RejectCheckGlobal

\* approve_all goes on with a chunk it listed, or returns.
LEMMA NextChunkStep ==
    ASSUME IInv, NEW h \in Handlers, NEW l \in Local,
           l.op \in Writes \ {"set"}, NextChunk(h, l),
           draft' \in [Chunks -> DraftRow],
           UNCHANGED <<table, rec, global, served, issued>>
    PROVE  IInv'
<1>1. /\ rec' \in SandboxRecord /\ get_latest_policy(table) \in Nat
    BY HandlerFacts
<1>2. CASE Return(h)
    <2>1. Goto(h, "idle", NoLocal) /\ "idle" \in Labels
        BY <1>2 DEF Return, Labels
    <2> QED  BY <1>1, <2>1, RecordStep, NoLocalOk
<1>3. ASSUME NEW s \in l.todo,
             Goto(h, "latest", [l EXCEPT !.chunk = s.chunk, !.gen = s.gen,
                                         !.rule = s.rule, !.attempt = 1,
                                         !.todo = @ \ {s}])
      PROVE  IInv'
    <2> DEFINE m == [l EXCEPT !.chunk = s.chunk, !.gen = s.gen, !.rule = s.rule,
                              !.attempt = 1, !.todo = @ \ {s}]
    <2>1. s.chunk \in Chunks /\ s.gen \in Nat /\ s.rule \in SUBSET Chunks
        BY DEF Local, Snapshot
    <2>2. m \in Local /\ m.op = l.op /\ m.chunk \in Chunks /\ m.attempt = 1
        BY <2>1 DEF Local
    <2>3. Goto(h, "latest", m)
        BY <1>3
    <2> HIDE DEF m
    <2>4. HandlerOk(table, "latest", m)
        BY <1>1, <2>2 DEF HandlerOk, RequestOk, Writes
    <2> QED  BY <1>1, <2>2, <2>3, <2>4, RecordStep DEF Labels
<1> QED  BY <1>2, <1>3 DEF NextChunk

LEMMA MarkChunkKeepsIInv ==
    ASSUME IInv, NEW h \in Handlers, MarkChunk(h)
    PROVE  IInv'
<1> DEFINE l == loc[h]
<1>1. /\ l \in Local /\ HandlerOk(table, "mark", l)
      /\ draft \in [Chunks -> DraftRow]
      /\ UNCHANGED <<table, rec, global, served, issued>> /\ NextChunk(h, l)
    BY HandlerFacts DEF MarkChunk, At
<1>2. l.op \in Writes \ {"set"} /\ l.chunk \in Chunks
    BY <1>1 DEF HandlerOk, RequestOk
<1>3. MarkedStatus(l.op) \in DraftStatus
    BY <1>2 DEF MarkedStatus, Merges, DraftStatus
<1>4. draft' \in [Chunks -> DraftRow]
    BY <1>1, <1>2, <1>3 DEF MarkChunk, update_draft_chunk_status, DraftRow
<1> HIDE DEF l
<1> QED  BY <1>1, <1>2, <1>4, NextChunkStep

LEMMA ListPendingKeepsIInv ==
    ASSUME IInv, NEW h \in Handlers, ListPending(h)
    PROVE  IInv'
<1>1. /\ loc[h] \in Local /\ HandlerOk(table, "list", loc[h])
      /\ draft \in [Chunks -> DraftRow] /\ draft' = draft
      /\ UNCHANGED <<table, rec, global, served, issued>>
    BY HandlerFacts DEF ListPending, At, store
<1>2. loc[h].op = "approve_all"
    BY <1>1 DEF HandlerOk, RequestOk
<1>3. PICK chosen \in SUBSET Chunks :
          NextChunk(h, [loc[h] EXCEPT !.todo =
              {[chunk |-> c, gen |-> draft[c].gen, rule |-> draft[c].rule] : c \in chosen}])
    <2>1. PICK include \in BOOLEAN :
             NextChunk(h, [loc[h] EXCEPT !.todo =
                 {[chunk |-> c, gen |-> draft[c].gen, rule |-> draft[c].rule] :
                     c \in {c \in Chunks : /\ draft[c].status = "pending"
                                           /\ include \/ c \notin Flagged}}])
        BY Zenon DEF ListPending
    <2> QED  BY <2>1
<1> DEFINE todo == {[chunk |-> c, gen |-> draft[c].gen, rule |-> draft[c].rule] : c \in chosen}
           m == [loc[h] EXCEPT !.todo = todo]
<1>4. todo \subseteq Snapshot
    BY <1>1 DEF Snapshot, DraftRow
<1> HIDE DEF todo
<1>5. m \in Local /\ m.op = "approve_all"
    BY <1>1, <1>2, <1>4 DEF Local
<1>6. NextChunk(h, m)
    BY <1>3 DEF todo
<1> HIDE DEF m
<1> QED  BY <1>1, <1>5, <1>6, NextChunkStep DEF Writes

LEMMA ConfigReadLatestKeepsIInv ==
    ASSUME IInv, NEW h \in Handlers, ConfigReadLatest(h)
    PROVE  IInv'
<1> DEFINE l == loc[h]
<1>1. /\ l \in Local /\ issued' \in Nat /\ served \in BOOLEAN
      /\ (served \/ DOMAIN table # {} \/ global) \in BOOLEAN
      /\ Contiguous(table) /\ IsTable(table, Policy)
      /\ table' = table /\ UNCHANGED <<rec, draft, global>>
    BY HandlerFacts DEF ConfigReadLatest, At
<1>2. Keeps(table, table') /\ LatestNotSuperseded'
    BY <1>1, KeepsRefl DEF LatestNotSuperseded, IInv
<1>3. CASE Return(h) /\ served' = (served \/ DOMAIN table # {} \/ global)
    BY <1>1, <1>2, <1>3, TableReturn
<1>4. CASE l.policy # NoPolicy /\ Goto(h, "cfg_put", l) /\ UNCHANGED served
    <2>1. HandlerOk(table', "cfg_put", l)
        BY <1>1, <1>4 DEF HandlerOk, RequestOk, Local
    <2> QED  BY <1>1, <1>2, <1>4, <2>1, TableStep DEF Labels
<1> QED  BY <1>3, <1>4 DEF ConfigReadLatest

LEMMA ConfigBackfillKeepsIInv ==
    ASSUME IInv, NEW h \in Handlers, ConfigBackfill(h)
    PROVE  IInv'
<1> DEFINE l == loc[h]
<1>1. /\ l \in Local /\ HandlerOk(table, "cfg_put", l)
      /\ issued' \in Nat /\ served \in BOOLEAN
      /\ Contiguous(table) /\ IsTable(table, Policy)
      /\ get_latest_policy(table) \in Nat /\ UNCHANGED <<rec, draft, global>>
    BY HandlerFacts DEF ConfigBackfill, At
<1>2. CASE Return(h) /\ served' = TRUE /\ UNCHANGED table
    <2>1. Keeps(table, table') /\ LatestNotSuperseded'
        BY <1>2, KeepsRefl DEF LatestNotSuperseded, IInv
    <2> QED  BY <1>1, <1>2, <2>1, TableReturn
<1>3. CASE /\ ~VersionTaken(table, 1)
           /\ table' = put_policy_revision(table, 1, l.policy)
           /\ Goto(h, "cfg_loaded", l) /\ UNCHANGED served
    <2>1. l.policy \in Policy /\ 0 <= get_latest_policy(table) /\ 0 \in Nat
        BY <1>1 DEF HandlerOk, RequestOk
    <2>2. /\ DOMAIN table' = 1 .. 0 + 1 /\ get_latest_policy(table') = 0 + 1
          /\ Contiguous(table') /\ IsTable(table', Policy) /\ Keeps(table, table')
          /\ table'[0 + 1].status = "pending"
        <3>1. 0 + 1 = 1
            OBVIOUS
        <3> QED  BY <1>1, <1>3, <2>1, <3>1, PutAtEnd
    <2>3. LatestNotSuperseded'
        BY <2>2 DEF LatestNotSuperseded
    <2>4. HandlerOk(table', "cfg_loaded", l)
        BY <2>2 DEF HandlerOk, RequestOk
    <2> QED  BY <1>1, <1>3, <2>2, <2>3, <2>4, TableStep DEF Labels
<1> QED  BY <1>2, <1>3 DEF ConfigBackfill

\* A status that is reported, for a revision that may no longer be the latest.
LEMMA ReportedStatus ==
    ASSUME IInv, NEW v, NEW s \in {"loaded", "failed"},
           table' = update_policy_status(table, v, s)
    PROVE  /\ DOMAIN table' = DOMAIN table
           /\ Contiguous(table') /\ IsTable(table', Policy) /\ Keeps(table, table')
           /\ LatestNotSuperseded'
<1>1. /\ Contiguous(table) /\ IsTable(table, Policy)
      /\ get_latest_policy(table) \in Nat
      /\ DOMAIN table = 1 .. get_latest_policy(table)
    BY LatestFacts DEF IInv, TypeOK
<1>2. /\ DOMAIN table' = DOMAIN table
      /\ get_latest_policy(table') = get_latest_policy(table)
      /\ Contiguous(table') /\ IsTable(table', Policy) /\ Keeps(table, table')
      /\ \A w \in DOMAIN table : table'[w].status # table[w].status => table'[w].status = s
    BY <1>1, StatusUpdate
<1>3. DOMAIN table # {} => get_latest_policy(table) \in DOMAIN table
    BY <1>1
<1>4. LatestNotSuperseded'
    BY <1>2, <1>3 DEF LatestNotSuperseded, IInv
<1> QED  BY <1>2, <1>4

LEMMA ConfigMarkLoadedKeepsIInv ==
    ASSUME IInv, NEW h \in Handlers, ConfigMarkLoaded(h)
    PROVE  IInv'
<1>1. /\ issued' \in Nat /\ served' \in BOOLEAN /\ Return(h)
      /\ Contiguous(table) /\ IsTable(table, Policy) /\ UNCHANGED <<rec, draft, global>>
    BY HandlerFacts DEF ConfigMarkLoaded, At
<1>2. CASE table' = update_policy_status(table, 1, "loaded")
    BY <1>1, <1>2, ReportedStatus, TableReturn
<1>3. CASE table' = table
    <2>1. Keeps(table, table') /\ LatestNotSuperseded'
        BY <1>3, KeepsRefl DEF LatestNotSuperseded, IInv
    <2> QED  BY <1>1, <1>3, <2>1, TableReturn
<1> QED  BY <1>2, <1>3 DEF ConfigMarkLoaded

LEMMA ReportPolicyStatusKeepsIInv ==
    ASSUME IInv, NEW h \in Handlers, NEW v \in DOMAIN table,
           NEW s \in {"loaded", "failed"}, ReportPolicyStatus(h, v, s)
    PROVE  IInv'
<1> DEFINE m == [NoLocal EXCEPT !.op = "report", !.version = v]
<1>1. issued \in Nat /\ served \in BOOLEAN /\ v \in Nat
    BY HandlerFacts
<1>2. /\ table' = update_policy_status(table, v, s)
      /\ issued' = issued + 1
      /\ served' = served /\ UNCHANGED <<rec, draft, global>>
    BY Zenon DEF ReportPolicyStatus, Start
<1>3. \/ Goto(h, "rep_supersede", m)
      \/ Return(h)
    BY Zenon DEF ReportPolicyStatus, Start, Return
<1>4. issued' \in Nat /\ served' \in BOOLEAN
    BY <1>1, <1>2
<1>5. /\ DOMAIN table' = DOMAIN table
      /\ Contiguous(table') /\ IsTable(table', Policy) /\ Keeps(table, table')
      /\ LatestNotSuperseded'
    BY <1>2, ReportedStatus
<1>6. m \in Local /\ m.version = v
    BY <1>1, NoLocalOk DEF Local, Ops, NoLocal
<1> HIDE DEF m
<1>7. CASE Return(h)
    BY <1>2, <1>4, <1>5, <1>7, TableReturn
<1>8. CASE Goto(h, "rep_supersede", m)
    <2>1. HandlerOk(table', "rep_supersede", m)
        BY <1>5, <1>6 DEF HandlerOk, RequestOk
    <2> QED  BY <1>2, <1>4, <1>5, <1>6, <1>8, <2>1, TableStep DEF Labels
<1> QED  BY <1>3, <1>7, <1>8

LEMMA ReportSupersedeKeepsIInv ==
    ASSUME IInv, NEW h \in Handlers, ReportSupersede(h)
    PROVE  IInv'
<1> DEFINE l == loc[h]
<1>1. /\ l \in Local /\ HandlerOk(table, "rep_supersede", l) /\ issued' \in Nat
      /\ Contiguous(table) /\ IsTable(table, Policy)
      /\ served' \in BOOLEAN /\ UNCHANGED <<rec, draft, global>>
      /\ Goto(h, "rep_read", l)
    BY HandlerFacts DEF ReportSupersede, At
<1>2. /\ l.version \in DOMAIN table
      /\ table' \in {supersede_older_policies(table, l.version), table}
    BY <1>1 DEF HandlerOk, ReportSupersede
<1>3. /\ DOMAIN table' = DOMAIN table
      /\ get_latest_policy(table') = get_latest_policy(table)
      /\ Contiguous(table') /\ IsTable(table', Policy) /\ Keeps(table, table')
      /\ DOMAIN table # {} =>
            table'[get_latest_policy(table)].status = table[get_latest_policy(table)].status
    BY <1>1, <1>2, SupersedeUpdate
<1>4. LatestNotSuperseded'
    BY <1>3 DEF LatestNotSuperseded, IInv
<1>5. HandlerOk(table', "rep_read", l)
    BY <1>2, <1>3 DEF HandlerOk, RequestOk
<1> HIDE DEF l
<1> QED  BY <1>1, <1>3, <1>4, <1>5, TableStep DEF Labels

LEMMA ReportReadSandboxKeepsIInv ==
    ASSUME IInv, NEW h \in Handlers, ReportReadSandbox(h)
    PROVE  IInv'
<1> DEFINE m == [loc[h] EXCEPT !.seen = rec]
<1>1. /\ loc[h] \in Local /\ HandlerOk(table, "rep_read", loc[h])
      /\ issued' \in Nat /\ rec \in SandboxRecord /\ UNCHANGED store
      /\ Goto(h, "rep_write", m)
    BY HandlerFacts DEF ReportReadSandbox, At
<1>2. m \in Local /\ m.version = loc[h].version
    BY <1>1 DEF Local
<1> HIDE DEF m
<1>3. HandlerOk(table, "rep_write", m)
    BY <1>1, <1>2 DEF HandlerOk, RequestOk
<1> QED  BY <1>1, <1>2, <1>3, QuietStep DEF Labels

LEMMA ReportWriteSandboxKeepsIInv ==
    ASSUME IInv, NEW h \in Handlers, ReportWriteSandbox(h)
    PROVE  IInv'
<1>1. /\ loc[h] \in Local /\ draft \in [Chunks -> DraftRow] /\ draft' = draft
      /\ UNCHANGED <<table, global, served, issued>>
      /\ Goto(h, "idle", NoLocal) /\ "idle" \in Labels
    BY HandlerFacts DEF ReportWriteSandbox, At, Return, Labels
<1>2. rec' \in SandboxRecord
    BY <1>1 DEF ReportWriteSandbox, Local, SandboxRecord
<1> QED  BY <1>1, <1>2, RecordStep, NoLocalOk

\* Steps of no handler: the draft rows and the global policy change.
LEMMA OtherStepsKeepIInv ==
    ASSUME IInv, Drafts \/ GlobalPolicyChanges \/ UNCHANGED vars
    PROVE  IInv'
<1> USE ConstantsAssumption
<1>1. draft \in [Chunks -> DraftRow] /\ global \in BOOLEAN
    BY DEF IInv, TypeOK
<1>2. /\ draft' \in [Chunks -> DraftRow] /\ global' \in BOOLEAN
      /\ UNCHANGED <<table, rec, served, pc, loc, issued>>
    <2>1. ASSUME NEW c \in Chunks, SubmitPolicyAnalysis(c)
          PROVE  draft' \in [Chunks -> DraftRow]
        <3> DEFINE mid == [draft EXCEPT ![c].status = "pending"]
        <3>1. mid \in [Chunks -> DraftRow]
            BY <1>1 DEF DraftRow, DraftStatus
        <3>2. draft' = [mid EXCEPT ![c].rule = {c}]
            BY <2>1 DEF SubmitPolicyAnalysis
        <3> HIDE DEF mid
        <3> QED  BY <3>1, <3>2 DEF DraftRow
    <2>2. ASSUME NEW c \in Chunks, NEW r \in EditedRules, EditDraftChunk(c, r)
          PROVE  draft' \in [Chunks -> DraftRow]
        BY <1>1, <2>2 DEF EditDraftChunk, DraftRow, DraftStatus
    <2>3. ASSUME ClearDraftChunks
          PROVE  draft' \in [Chunks -> DraftRow]
        <3>1. \A c \in Chunks : draft[c].gen + 1 \in Nat /\ draft[c] \in DraftRow
            BY <1>1 DEF DraftRow
        <3> QED  BY <2>3, <3>1 DEF ClearDraftChunks, DraftRow, DraftStatus
    <2>4. CASE Drafts
        <3>1. draft' \in [Chunks -> DraftRow]
            BY <2>1, <2>2, <2>3, <2>4 DEF Drafts
        <3>2. UNCHANGED <<table, rec, global, served, pc, loc, issued>>
            BY <2>4, Zenon DEF Drafts, SubmitPolicyAnalysis, EditDraftChunk, ClearDraftChunks
        <3> QED  BY <1>1, <3>1, <3>2
    <2>5. CASE GlobalPolicyChanges
        BY <1>1, <2>5 DEF GlobalPolicyChanges
    <2>6. CASE UNCHANGED vars
        BY <1>1, <2>6 DEF vars
    <2> QED  BY <2>4, <2>5, <2>6
<1> QED  BY <1>2 DEF IInv, TypeOK, LatestNotSuperseded

LEMMA DropKeepsIInv ==
    ASSUME IInv, NEW h \in Handlers, Drop(h)
    PROVE  IInv'
BY HandlerFacts, QuietReturn DEF Drop

LEMMA InitIInv == Init => IInv
<1> SUFFICES ASSUME Init PROVE IInv
    OBVIOUS
<1> USE ConstantsAssumption DEF Init
<1>1. DOMAIN table = {} /\ DOMAIN table = 1 .. 0
    BY DEF EmptyTable
<1>2. Contiguous(table) /\ LatestNotSuperseded /\ IsTable(table, Policy)
    BY <1>1 DEF Contiguous, LatestNotSuperseded, IsTable
<1>3. rec \in SandboxRecord /\ draft \in [Chunks -> DraftRow]
    BY DEF SandboxRecord, DraftRow, DraftStatus
<1>4. pc \in [Handlers -> Labels] /\ loc \in [Handlers -> Local]
    BY NoLocalOk DEF Labels
<1>5. \A h \in Handlers : HandlerOk(table, pc[h], loc[h])
    BY NoLocalOk
<1> QED  BY <1>2, <1>3, <1>4, <1>5 DEF IInv, TypeOK

LEMMA NextIInv == IInv /\ [Next]_vars => IInv'
<1> SUFFICES ASSUME IInv, [Next]_vars PROVE IInv'
    OBVIOUS
<1>1. ASSUME NEW h \in Handlers, Request(h) PROVE IInv'
    BY <1>1, StartsKeepIInv, ReportPolicyStatusKeepsIInv DEF Request
<1>2. ASSUME NEW h \in Handlers, Step(h) PROVE IInv'
    BY <1>2, SetCheckGlobalKeepsIInv, SetBackfillKeepsIInv, ReadLatestKeepsIInv,
       PutRevisionKeepsIInv, PutConflictKeepsIInv, SupersedeKeepsIInv,
       ReadChunkKeepsIInv, RejectCheckGlobalKeepsIInv, MarkChunkKeepsIInv,
       ListPendingKeepsIInv, ConfigReadLatestKeepsIInv, ConfigBackfillKeepsIInv,
       ConfigMarkLoadedKeepsIInv, ReportSupersedeKeepsIInv,
       ReportReadSandboxKeepsIInv, ReportWriteSandboxKeepsIInv DEF Step
<1>3. ASSUME NEW h \in Handlers, Drop(h) PROVE IInv'
    BY <1>3, DropKeepsIInv
<1>4. CASE Drafts \/ GlobalPolicyChanges \/ UNCHANGED vars
    BY <1>4, OtherStepsKeepIInv
<1> QED  BY <1>1, <1>2, <1>3, <1>4 DEF Next

-------------------------------------------------------------------------------
(* The theorems. *)

\* The inductive invariant holds in every state of every interleaving.
THEOREM Invariance == Spec => []IInv
BY InitIInv, NextIInv, PTL DEF Spec

\* Every value the handlers carry from one await to the next, and every row they
\* write, has its type.
THEOREM TypeCorrect == Spec => []TypeOK
<1>1. IInv => TypeOK
    BY DEF IInv
<1> QED  BY <1>1, Invariance, PTL

\* put_policy_revision under the UNIQUE constraint never leaves a gap between
\* versions, for any number of racing handlers.
THEOREM Contiguity == Spec => []VersionsContiguous
<1>1. IInv => VersionsContiguous
    BY LatestFacts DEF IInv, VersionsContiguous
<1> QED  BY <1>1, Invariance, PTL

\* No supersede_older_policies call, however late, reaches the served revision.
THEOREM LatestIsLive == Spec => []LatestNotSuperseded
<1>1. IInv => LatestNotSuperseded
    BY DEF IInv
<1> QED  BY <1>1, Invariance, PTL

\* The only step that leads to an insert with a new revision or attempt.
LEMMA OnlyReadLatestLeadsToPut ==
    ASSUME IInv, [Next]_vars, NEW h \in Handlers, pc'[h] = "put", loc'[h] # loc[h]
    PROVE  ReadLatest(h)
<1>1. pc = [k \in Handlers |-> pc[k]] /\ loc = [k \in Handlers |-> loc[k]]
    BY DEF IInv, TypeOK
<1>2. ASSUME NEW k \in Handlers, NEW label, NEW l, Goto(k, label, l), k # h \/ label # "put"
      PROVE  FALSE
    BY <1>1, <1>2 DEF Goto
<1>3. ASSUME NEW k \in Handlers, Request(k) PROVE FALSE
    <2>1. ASSUME NEW label, NEW l, Start(k, label, l), label # "put" PROVE FALSE
        BY <1>2, <2>1 DEF Start
    <2>2. ASSUME NEW c \in Chunks,
                 ApproveDraftChunk(k, c) \/ RejectDraftChunk(k, c) \/ UndoDraftChunk(k, c)
          PROVE FALSE
        BY <2>1, <2>2 DEF ApproveDraftChunk, RejectDraftChunk, UndoDraftChunk
    <2>3. ASSUME NEW p \in Submitted, UpdateConfig(k, p) PROVE FALSE
        BY <2>1, <2>3 DEF UpdateConfig
    <2>4. CASE ApproveAllDraftChunks(k)
        BY <2>1, <2>4 DEF ApproveAllDraftChunks
    <2>5. CASE GetSandboxConfig(k)
        BY <2>1, <2>5 DEF GetSandboxConfig
    <2>6. ASSUME NEW v \in DOMAIN table, NEW s \in {"loaded", "failed"},
                 ReportPolicyStatus(k, v, s)
          PROVE FALSE
        <3>1. CASE s = "loaded"
            BY <2>1, <2>6, <3>1 DEF ReportPolicyStatus
        <3>2. CASE s = "failed"
            BY <2>1, <2>6, <3>2 DEF ReportPolicyStatus
        <3> QED  BY <2>6, <3>1, <3>2
    <2> QED  BY <1>3, <2>2, <2>3, <2>4, <2>5, <2>6 DEF Request
<1>4. ASSUME NEW k \in Handlers, Drop(k) PROVE FALSE
    BY <1>2, <1>4 DEF Drop, Return
<1>5. ASSUME NEW k \in Handlers, Step(k) PROVE ReadLatest(h)
    <2>1. CASE SetCheckGlobal(k) \/ SetBackfill(k)
        BY <1>2, <2>1 DEF SetCheckGlobal, SetBackfill, Return
    <2>2. CASE ReadLatest(k)
        BY <1>2, <2>2 DEF ReadLatest, Return
    <2>3. CASE PutRevision(k) \/ PutConflict(k) \/ Supersede(k)
        BY <1>2, <2>3 DEF PutRevision, PutConflict, Supersede, RetryFrom, Return
    <2>4. CASE ReadChunk(k) \/ RejectCheckGlobal(k)
        BY <1>2, <2>4 DEF ReadChunk, RejectCheckGlobal, Return
    <2>5. CASE MarkChunk(k) \/ ListPending(k)
        <3>1. ASSUME NEW l, NextChunk(k, l) PROVE FALSE
            <4>1. Return(k) \/ \E m : Goto(k, "latest", m)
                BY <3>1, Zenon DEF NextChunk
            <4> QED  BY <1>2, <4>1 DEF Return
        <3>2. MarkChunk(k) => \E l : NextChunk(k, l)
            BY Zenon DEF MarkChunk
        <3>3. ListPending(k) => \E l : NextChunk(k, l)
            BY Zenon DEF ListPending
        <3> QED  BY <2>5, <3>1, <3>2, <3>3
    <2>6. CASE ConfigReadLatest(k) \/ ConfigBackfill(k) \/ ConfigMarkLoaded(k)
        BY <1>2, <2>6 DEF ConfigReadLatest, ConfigBackfill, ConfigMarkLoaded, Return
    <2>7. CASE ReportSupersede(k) \/ ReportReadSandbox(k) \/ ReportWriteSandbox(k)
        BY <1>2, <2>7 DEF ReportSupersede, ReportReadSandbox, ReportWriteSandbox, Return
    <2> QED  BY <1>5, <2>1, <2>2, <2>3, <2>4, <2>5, <2>6, <2>7 DEF Step
<1>6. CASE Drafts \/ GlobalPolicyChanges \/ UNCHANGED vars
    BY <1>6 DEF Drafts, SubmitPolicyAnalysis, EditDraftChunk, ClearDraftChunks,
        GlobalPolicyChanges, vars
<1> QED  BY <1>3, <1>4, <1>5, <1>6 DEF Next

\* Each retry of merge_chunk_into_policy and remove_chunk_from_policy starts from
\* a newer revision than the attempt before it, for any number of handlers and any
\* history: losing MERGE_RETRY_LIMIT times takes that many other writes.
THEOREM RetriesProgress == Spec => RetryMakesProgress
<1>1. ASSUME IInv, [Next]_vars, NEW h \in Handlers, pc'[h] = "put", loc'[h] # loc[h],
             loc'[h].attempt > 1
      PROVE  loc'[h].base > loc[h].base
    <2>1. ReadLatest(h)
        BY <1>1, OnlyReadLatestLeadsToPut
    <2>2. loc[h] \in Local /\ HandlerOk(table, "latest", loc[h]) /\ loc = [k \in Handlers |-> loc[k]]
        BY <1>1, <2>1 DEF IInv, TypeOK, ReadLatest, At
    <2>3. loc'[h].base = get_latest_policy(table) /\ loc'[h].attempt = loc[h].attempt
        <3> DEFINE m == [loc[h] EXCEPT !.base = get_latest_policy(table),
                    !.new = NewPolicy(loc[h], IF get_latest_policy(table) = 0 THEN DefaultPolicy
                                              ELSE table[get_latest_policy(table)].policy)]
        <3>1. Return(h) \/ Goto(h, "put", m)
            BY <2>1 DEF ReadLatest
        <3>2. m.base = get_latest_policy(table) /\ m.attempt = loc[h].attempt
            BY <2>2 DEF Local
        <3> HIDE DEF m
        <3>3. pc = [k \in Handlers |-> pc[k]]
            BY <1>1 DEF IInv, TypeOK
        <3>4. ~Return(h)
            BY <1>1, <3>3 DEF Return, Goto
        <3>5. loc'[h] = m
            BY <2>2, <3>1, <3>4 DEF Goto
        <3> QED  BY <3>2, <3>5
    <2>4. loc[h].base < get_latest_policy(table)
        BY <1>1, <2>2, <2>3 DEF HandlerOk
    <2>5. get_latest_policy(table) \in Nat /\ loc[h].base \in Nat
        BY <1>1, <2>2, LatestFacts DEF IInv, TypeOK, Local
    <2> QED  BY <2>3, <2>4, <2>5
<1>2. IInv /\ [Next]_vars =>
        [\A h \in Handlers :
            /\ pc'[h] = "put" /\ loc'[h] # loc[h]
            /\ loc'[h].attempt > 1
            => loc'[h].base > loc[h].base]_vars
    BY <1>1
<1> QED  BY <1>2, Invariance, PTL DEF Spec, RetryMakesProgress

\* approve, approve_all, the revoke path and undo mark a chunk only after the
\* revision they inserted themselves has, or has not, its grant.
THEOREM DecisionsPersisted == Spec => []DecisionPersistedBeforeMark
<1>1. IInv => DecisionPersistedBeforeMark
    <2> SUFFICES ASSUME IInv, NEW h \in Handlers, pc[h] = "mark", loc[h].op # "reject"
                 PROVE  /\ loc[h].base + 1 \in DOMAIN table
                        /\ IF Merges(loc[h].op)
                           THEN loc[h].rule \subseteq table[loc[h].base + 1].policy.net
                           ELSE loc[h].chunk \notin table[loc[h].base + 1].policy.net
        BY DEF DecisionPersistedBeforeMark
    <2>1. Persisted(table, loc[h]) /\ loc[h].op \in Writes \ {"set"}
        BY DEF IInv, HandlerOk, RequestOk
    <2> QED  BY <2>1 DEF Persisted, Writes, Merges, Removes
<1> QED  BY <1>1, Invariance, PTL

-------------------------------------------------------------------------------
(* current_policy_version.  Two handlers write the whole Sandbox message back   *)
(* as they read it, so the version they carry has to be settled too.            *)

Settled(t, v) == v > 0 => v \in DOMAIN t /\ t[v].status # "pending"

SettledInv ==
    /\ Settled(table, rec.version)
    /\ \A h \in Handlers : /\ Settled(table, loc[h].seen.version)
                           /\ Settled(table, loc[h].version)

\* No step takes a row away or makes a settled row pending again.
Forward(t, u) ==
    \A v \in DOMAIN t : /\ v \in DOMAIN u
                        /\ t[v].status # "pending" => u[v].status # "pending"

LEMMA TableForward ==
    ASSUME IInv, [Next]_vars
    PROVE  Forward(table, table')
<1>1. IsTable(table, Policy)
    BY DEF IInv, TypeOK
<1>2. CASE UNCHANGED table
    BY <1>2 DEF Forward
<1>3. ASSUME NEW v, NEW p, ~VersionTaken(table, v), table' = put_policy_revision(table, v, p)
      PROVE  Forward(table, table')
    BY <1>3 DEF Forward, put_policy_revision, VersionTaken
<1>4. ASSUME NEW v, NEW s \in {"loaded", "failed"}, table' = update_policy_status(table, v, s)
      PROVE  Forward(table, table')
    BY <1>1, <1>4 DEF Forward, update_policy_status, IsTable
<1>5. ASSUME NEW v, table' = supersede_older_policies(table, v)
      PROVE  Forward(table, table')
    BY <1>1, <1>5 DEF Forward, supersede_older_policies, IsTable
<1>6. ASSUME NEW h \in Handlers, Request(h) PROVE Forward(table, table')
    <2>1. \/ UNCHANGED table
          \/ \E v \in DOMAIN table, s \in {"loaded", "failed"} : ReportPolicyStatus(h, v, s)
        BY <1>6 DEF Request, UpdateConfig, ApproveDraftChunk, RejectDraftChunk,
                    UndoDraftChunk, ApproveAllDraftChunks, GetSandboxConfig, store
    <2> QED  BY <2>1, <1>2, <1>4 DEF ReportPolicyStatus
<1>7. ASSUME NEW h \in Handlers, Step(h) PROVE Forward(table, table')
    <2>1. CASE PutRevision(h)
        BY <2>1, <1>3 DEF PutRevision
    <2>2. CASE ConfigBackfill(h)
        BY <2>2, <1>2, <1>3 DEF ConfigBackfill
    <2>3. CASE ConfigMarkLoaded(h)
        BY <2>3, <1>2, <1>4 DEF ConfigMarkLoaded
    <2>4. CASE Supersede(h) \/ ReportSupersede(h)
        BY <2>4, <1>2, <1>5 DEF Supersede, ReportSupersede
    <2>5. CASE \/ SetCheckGlobal(h) \/ SetBackfill(h) \/ ReadLatest(h) \/ PutConflict(h)
               \/ ReadChunk(h) \/ RejectCheckGlobal(h) \/ MarkChunk(h) \/ ListPending(h)
               \/ ConfigReadLatest(h) \/ ReportReadSandbox(h) \/ ReportWriteSandbox(h)
        <3>1. UNCHANGED table
            BY <2>5, Zenon DEF SetCheckGlobal, SetBackfill, ReadLatest, PutConflict, ReadChunk,
                    RejectCheckGlobal, MarkChunk, ListPending, ConfigReadLatest,
                    ReportReadSandbox, ReportWriteSandbox, store
        <3> QED  BY <3>1, <1>2
    <2> QED  BY <1>7, <2>1, <2>2, <2>3, <2>4, <2>5 DEF Step
<1>8. ASSUME NEW h \in Handlers, Drop(h) PROVE Forward(table, table')
    BY <1>8, <1>2 DEF Drop, store
<1>9. CASE Drafts \/ GlobalPolicyChanges \/ UNCHANGED vars
    BY <1>9, <1>2 DEF Drafts, SubmitPolicyAnalysis, EditDraftChunk, ClearDraftChunks,
                      GlobalPolicyChanges, vars
<1> QED  BY <1>6, <1>7, <1>8, <1>9 DEF Next

\* What a handler carries comes from what it carried, from the Sandbox message it
\* has just read, or from the report it has just recorded.
Carried(h) ==
    /\ loc'[h].seen.version \in {loc[h].seen.version, rec.version, 0}
    /\ \/ loc'[h].version \in {loc[h].version, 0}
       \/ loc'[h].version \in DOMAIN table /\ table'[loc'[h].version].status # "pending"

LEMMA VersionsCarried ==
    ASSUME IInv, [Next]_vars
    PROVE  \A g \in Handlers : Carried(g)
<1>0. loc \in [Handlers -> Local] /\ IsTable(table, Policy)
    BY DEF IInv, TypeOK
<1>1. ASSUME NEW h \in Handlers, NEW label, NEW l, Goto(h, label, l),
             /\ l.seen.version \in {loc[h].seen.version, rec.version, 0}
             /\ \/ l.version \in {loc[h].version, 0}
                \/ l.version \in DOMAIN table /\ table'[l.version].status # "pending"
      PROVE  \A g \in Handlers : Carried(g)
    <2> TAKE g \in Handlers
    <2>1. CASE g = h
        BY <1>0, <1>1, <2>1 DEF Goto, Carried
    <2>2. CASE g # h
        BY <1>0, <1>1, <2>2 DEF Goto, Carried
    <2> QED  BY <2>1, <2>2
<1>2. ASSUME NEW h \in Handlers, Return(h) PROVE \A g \in Handlers : Carried(g)
    <2>1. NoLocal.seen.version = 0 /\ NoLocal.version = 0 /\ Goto(h, "idle", NoLocal)
        BY <1>2 DEF NoLocal, NoRecord, Return
    <2> QED  BY <2>1, <1>1
<1>3. CASE UNCHANGED loc
    BY <1>3 DEF Carried
<1>4. ASSUME NEW h \in Handlers, Request(h) PROVE \A g \in Handlers : Carried(g)
    <2>1. ASSUME NEW p \in Submitted, UpdateConfig(h, p) PROVE \A g \in Handlers : Carried(g)
        <3> DEFINE q == ensure_sandbox_process_identity(p)
                   l == [NoLocal EXCEPT !.op = "set", !.seen = rec, !.policy = q]
        <3>1. l.seen = rec /\ l.version = 0
            BY DEF NoLocal
        <3>2. Goto(h, "set_global", l)
            BY <2>1, Zenon DEF UpdateConfig, Start
        <3> HIDE DEF l
        <3> QED  BY <3>1, <3>2, <1>1
    <2>2. ASSUME NEW op, NEW c, NEW label,
                 Goto(h, label, [NoLocal EXCEPT !.op = op, !.chunk = c])
          PROVE  \A g \in Handlers : Carried(g)
        <3> DEFINE l == [NoLocal EXCEPT !.op = op, !.chunk = c]
        <3>1. l.seen.version = 0 /\ l.version = 0
            BY DEF NoLocal, NoRecord
        <3>2. Goto(h, label, l)
            BY <2>2
        <3> HIDE DEF l
        <3> QED  BY <3>1, <3>2, <1>1
    <2>3. CASE ApproveAllDraftChunks(h)
        <3> DEFINE l == [NoLocal EXCEPT !.op = "approve_all"]
        <3>1. l.seen.version = 0 /\ l.version = 0
            BY DEF NoLocal, NoRecord
        <3>2. Goto(h, "list", l)
            BY <2>3 DEF ApproveAllDraftChunks, Start
        <3> HIDE DEF l
        <3> QED  BY <3>1, <3>2, <1>1
    <2>4. CASE GetSandboxConfig(h)
        <3> DEFINE l == [NoLocal EXCEPT !.op = "config", !.policy = rec.policy]
        <3>1. l.seen.version = 0 /\ l.version = 0
            BY DEF NoLocal, NoRecord
        <3>2. Goto(h, "cfg_latest", l)
            BY <2>4 DEF GetSandboxConfig, Start
        <3> HIDE DEF l
        <3> QED  BY <3>1, <3>2, <1>1
    <2>5. ASSUME NEW v \in DOMAIN table, NEW s \in {"loaded", "failed"},
                 ReportPolicyStatus(h, v, s)
          PROVE  \A g \in Handlers : Carried(g)
        <3> DEFINE l == [NoLocal EXCEPT !.op = "report", !.version = v]
        <3>1. l.seen.version = 0 /\ l.version = v
            BY DEF NoLocal, NoRecord
        <3>2. table' = update_policy_status(table, v, s)
              /\ (Goto(h, "rep_supersede", l) \/ Return(h))
            BY <2>5, Zenon DEF ReportPolicyStatus, Start, Return
        <3>3. table'[v].status # "pending"
            BY <1>0, <3>2 DEF update_policy_status, IsTable
        <3> HIDE DEF l
        <3> QED  BY <3>1, <3>2, <3>3, <1>1, <1>2
    <2> QED  BY <1>4, <2>1, <2>2, <2>3, <2>4, <2>5 DEF Request, ApproveDraftChunk,
                RejectDraftChunk, UndoDraftChunk, Start
<1>5. ASSUME NEW h \in Handlers, Step(h) PROVE \A g \in Handlers : Carried(g)
    <2> DEFINE l == loc[h]
               Same(m) == m.seen = l.seen /\ m.version = l.version
    <2>0. l \in Local
        BY <1>0
    <2>1. ASSUME NEW label, NEW m, Goto(h, label, m), Same(m)
          PROVE  \A g \in Handlers : Carried(g)
        BY <2>1, <1>1
    <2>2. /\ \A x : Same([l EXCEPT !.attempt = x])
          /\ \A x, y : Same([l EXCEPT !.base = x, !.new = y])
          /\ \A x, y, z : Same([l EXCEPT !.gen = x, !.rule = y, !.attempt = z])
          /\ Same(l)
        BY <2>0 DEF Local
    <2>3. ASSUME NEW m \in Local, Same(m), NextChunk(h, m)
          PROVE  \A g \in Handlers : Carried(g)
        <3>1. CASE Return(h)
            BY <3>1, <1>2
        <3>2. ASSUME NEW s \in m.todo,
                     Goto(h, "latest", [m EXCEPT !.chunk = s.chunk, !.gen = s.gen,
                                         !.rule = s.rule, !.attempt = 1,
                                         !.todo = @ \ {s}])
              PROVE  \A g \in Handlers : Carried(g)
            <4> DEFINE k == [m EXCEPT !.chunk = s.chunk, !.gen = s.gen, !.rule = s.rule,
                                      !.attempt = 1, !.todo = @ \ {s}]
            <4>1. Same(k)
                BY <2>3 DEF Local
            <4>2. Goto(h, "latest", k)
                BY <3>2
            <4> HIDE DEF k
            <4> QED  BY <4>1, <4>2, <2>1
        <3> QED  BY <2>3, <3>1, <3>2 DEF NextChunk
    <2>4. CASE ReportReadSandbox(h)
        <3> DEFINE m == [l EXCEPT !.seen = rec]
        <3>1. m.seen = rec /\ m.version = l.version /\ Goto(h, "rep_write", m)
            BY <2>0, <2>4 DEF ReportReadSandbox, Local
        <3> HIDE DEF m
        <3> QED  BY <3>1, <1>1
    <2>5. CASE MarkChunk(h)
        BY <2>0, <2>2, <2>3, <2>5 DEF MarkChunk
    <2>6. CASE ListPending(h)
        <3>1. PICK todo : NextChunk(h, [l EXCEPT !.todo = todo])
              /\ todo \subseteq Snapshot
            <4>1. draft \in [Chunks -> DraftRow]
                BY DEF IInv, TypeOK
            <4>2. PICK include \in BOOLEAN :
                     NextChunk(h, [l EXCEPT !.todo =
                         {[chunk |-> c, gen |-> draft[c].gen, rule |-> draft[c].rule] :
                             c \in {c \in Chunks : /\ draft[c].status = "pending"
                                                   /\ include \/ c \notin Flagged}}])
                BY <2>6, Zenon DEF ListPending
            <4> DEFINE todo == {[chunk |-> c, gen |-> draft[c].gen, rule |-> draft[c].rule] :
                             c \in {c \in Chunks : /\ draft[c].status = "pending"
                                                   /\ include \/ c \notin Flagged}}
            <4>3. todo \subseteq Snapshot
                BY <4>1 DEF Snapshot, DraftRow
            <4> WITNESS todo
            <4> QED  BY <4>2, <4>3
        <3> DEFINE m == [l EXCEPT !.todo = todo]
        <3>2. m \in Local /\ Same(m)
            BY <2>0, <3>1 DEF Local
        <3> HIDE DEF m
        <3>3. NextChunk(h, m)
            BY <3>1 DEF m
        <3> QED  BY <3>2, <3>3, <2>3
    <2>7. CASE \/ SetCheckGlobal(h) \/ SetBackfill(h) \/ ReadLatest(h) \/ PutRevision(h)
               \/ PutConflict(h) \/ Supersede(h) \/ ReadChunk(h) \/ RejectCheckGlobal(h)
               \/ ConfigReadLatest(h) \/ ConfigBackfill(h) \/ ConfigMarkLoaded(h)
               \/ ReportSupersede(h) \/ ReportWriteSandbox(h)
        <3>1. \/ Return(h)
              \/ \E label, m : Goto(h, label, m) /\ Same(m)
            <4> HIDE DEF Same
            <4>1. CASE SetCheckGlobal(h) \/ SetBackfill(h)
                BY <4>1, <2>2, Zenon DEF SetCheckGlobal, SetBackfill
            <4>2. CASE ReadLatest(h)
                BY <4>2, <2>2, Zenon DEF ReadLatest
            <4>3. CASE PutRevision(h) \/ PutConflict(h) \/ Supersede(h)
                BY <4>3, <2>2, Zenon DEF PutRevision, PutConflict, Supersede
            <4>4. CASE ReadChunk(h)
                <5> DEFINE row == draft[l.chunk]
                           m == [l EXCEPT !.gen = row.gen, !.rule = row.rule, !.attempt = 1]
                <5>1. \/ Return(h)
                      \/ Goto(h, "latest", m)
                      \/ Goto(h, "reject_global", m)
                      \/ Goto(h, "mark", m)
                    BY <4>4 DEF ReadChunk
                <5>2. Same(m)
                    BY <2>2
                <5> HIDE DEF m
                <5> QED  BY <5>1, <5>2
            <4>7. CASE RejectCheckGlobal(h)
                BY <4>7, <2>2, Zenon DEF RejectCheckGlobal
            <4>5. CASE ConfigReadLatest(h) \/ ConfigBackfill(h) \/ ConfigMarkLoaded(h)
                BY <4>5, <2>2, Zenon DEF ConfigReadLatest, ConfigBackfill, ConfigMarkLoaded
            <4>6. CASE ReportSupersede(h) \/ ReportWriteSandbox(h)
                BY <4>6, <2>2, Zenon DEF ReportSupersede, ReportWriteSandbox
            <4> QED  BY <2>7, <4>1, <4>2, <4>3, <4>4, <4>5, <4>6, <4>7
        <3> QED  BY <3>1, <2>1, <1>2
    <2> QED  BY <1>5, <2>4, <2>5, <2>6, <2>7 DEF Step
<1>6. ASSUME NEW h \in Handlers, Drop(h) PROVE \A g \in Handlers : Carried(g)
    BY <1>6, <1>2 DEF Drop
<1>7. CASE Drafts \/ GlobalPolicyChanges \/ UNCHANGED vars
    BY <1>7, <1>3 DEF Drafts, SubmitPolicyAnalysis, EditDraftChunk, ClearDraftChunks,
                      GlobalPolicyChanges, vars
<1> QED  BY <1>4, <1>5, <1>6, <1>7 DEF Next

LEMMA NextSettled ==
    ASSUME IInv, SettledInv, [Next]_vars
    PROVE  SettledInv'
<1>1. \A v : Settled(table, v) => Settled(table', v)
    BY TableForward DEF Settled, Forward
<1>2. ASSUME NEW g \in Handlers
      PROVE  Settled(table', loc'[g].seen.version) /\ Settled(table', loc'[g].version)
    <2>1. Carried(g)
        BY VersionsCarried
    <2>2. Settled(table', 0)
        BY DEF Settled
    <2>3. Settled(table', loc'[g].seen.version)
        BY <1>1, <2>1, <2>2 DEF Carried, SettledInv
    <2>4. CASE loc'[g].version \in {loc[g].version, 0}
        BY <1>1, <2>2, <2>3, <2>4 DEF SettledInv
    <2>5. CASE loc'[g].version \in DOMAIN table /\ table'[loc'[g].version].status # "pending"
        BY <2>3, <2>5, TableForward DEF Forward, Settled
    <2> QED  BY <2>1, <2>3, <2>4, <2>5 DEF Carried
<1>3. \/ rec'.version = rec.version
      \/ \E h \in Handlers : rec'.version \in {loc[h].seen.version, loc[h].version}
    <2>1. CASE UNCHANGED rec
        BY <2>1
    <2>2. ASSUME NEW h \in Handlers, SetBackfill(h) \/ ReportWriteSandbox(h)
          PROVE  rec'.version \in {loc[h].seen.version, loc[h].version}
        BY <2>2, HandlerFacts DEF SetBackfill, ReportWriteSandbox, Local, SandboxRecord
    <2>3. ASSUME NEW h \in Handlers, Request(h) \/ Drop(h) PROVE UNCHANGED rec
        BY <2>3 DEF Request, UpdateConfig, ApproveDraftChunk, RejectDraftChunk,
                    UndoDraftChunk, ApproveAllDraftChunks, GetSandboxConfig,
                    ReportPolicyStatus, Drop, store
    <2>4. ASSUME NEW h \in Handlers, Step(h)
          PROVE  UNCHANGED rec \/ SetBackfill(h) \/ ReportWriteSandbox(h)
        BY <2>4, Zenon DEF Step, SetCheckGlobal, ReadLatest, PutRevision, PutConflict,
                    Supersede, ReadChunk, RejectCheckGlobal, MarkChunk, ListPending,
                    ConfigReadLatest, ConfigBackfill, ConfigMarkLoaded, ReportSupersede,
                    ReportReadSandbox, store
    <2>5. CASE Drafts \/ GlobalPolicyChanges \/ UNCHANGED vars
        BY <2>5 DEF Drafts, SubmitPolicyAnalysis, EditDraftChunk, ClearDraftChunks,
                    GlobalPolicyChanges, vars
    <2> QED  BY <2>1, <2>2, <2>3, <2>4, <2>5 DEF Next
<1>4. Settled(table', rec'.version)
    BY <1>1, <1>3 DEF SettledInv
<1> QED  BY <1>2, <1>4 DEF SettledInv

\* current_policy_version never names a revision that does not exist or that the
\* sandbox has not reported on, although two handlers write back a Sandbox message
\* they read some steps before.
THEOREM VersionSettled == Spec => []CurrentVersionSettled
<1>1. Init => SettledInv
    BY DEF Init, SettledInv, Settled, NoLocal, NoRecord
<1>2. SettledInv => CurrentVersionSettled
    BY DEF SettledInv, Settled, CurrentVersionSettled
<1>3. IInv /\ SettledInv /\ [Next]_vars => SettledInv'
    BY NextSettled
<1> QED  BY <1>1, <1>2, <1>3, Invariance, PTL DEF Spec

-------------------------------------------------------------------------------
(* The static domains, of a sandbox created with a policy and with a store that *)
(* does not lose the backfill.  The only write that could leave the baseline is *)
(* an approval merged into the empty default; it needs a chunk, a chunk needs a *)
(* policy that was served, and serving one has put the baseline into the table. *)

\* What a handler relies on: the baseline it read is the one in force.
HandlerStatic(base, nonempty, label, l) ==
    /\ label # "set_backfill"
    /\ label \in {"set_global", "rep_write"} => l.seen.policy = base
    /\ label \in {"latest", "put"} /\ l.op = "set" => StaticFieldsUnchanged(base, l.policy)
    /\ label \in {"latest", "put", "supersede", "mark", "reject_global"} /\ l.op # "set"
          => nonempty
    /\ label = "put" /\ l.op # "set" => l.base > 0
    /\ label \in {"cfg_latest", "cfg_put"} => l.policy = base

NonEmpty == DOMAIN table # {}

StaticInv ==
    /\ rec.policy \in Policy
    /\ \A v \in DOMAIN table : StaticFieldsUnchanged(rec.policy, table[v].policy)
    /\ served => NonEmpty
    /\ \A c \in Chunks : draft[c].status # "absent" => served
    /\ \A h \in Handlers : HandlerStatic(rec.policy, NonEmpty, pc[h], loc[h])

LEMMA StaticStep ==
    ASSUME IInv, StaticInv, NEW h \in Handlers, NEW label, NEW l, Goto(h, label, l),
           rec'.policy = rec.policy, Keeps(table, table'),
           \A v \in DOMAIN table' : StaticFieldsUnchanged(rec.policy, table'[v].policy),
           served' => NonEmpty',
           \A c \in Chunks : draft'[c].status # "absent" => served',
           HandlerStatic(rec.policy, NonEmpty', label, l)
    PROVE  StaticInv'
<1>1. pc \in [Handlers -> Labels] /\ loc \in [Handlers -> Local]
    BY DEF IInv, TypeOK
<1>2. NonEmpty => NonEmpty'
    BY DEF NonEmpty, Keeps
<1>3. ASSUME NEW g \in Handlers
      PROVE  HandlerStatic(rec.policy, NonEmpty', pc'[g], loc'[g])
    <2>1. CASE g = h
        BY <1>1, <2>1 DEF Goto
    <2>2. CASE g # h
        <3>1. pc'[g] = pc[g] /\ loc'[g] = loc[g]
            BY <1>1, <2>2 DEF Goto
        <3>2. HandlerStatic(rec.policy, NonEmpty, pc[g], loc[g])
            BY DEF StaticInv
        <3> HIDE DEF NonEmpty
        <3> QED  BY <3>1, <3>2, <1>2 DEF HandlerStatic
    <2> QED  BY <2>1, <2>2
<1> QED  BY <1>3 DEF StaticInv

LEMMA StaticQuiet ==
    ASSUME IInv, StaticInv, NEW h \in Handlers, NEW label, NEW l, Goto(h, label, l),
           UNCHANGED store, HandlerStatic(rec.policy, NonEmpty, label, l)
    PROVE  StaticInv'
<1>1. /\ rec' = rec /\ table' = table /\ draft' = draft /\ served' = served
      /\ NonEmpty' = NonEmpty
    BY DEF store, NonEmpty
<1> QED  BY <1>1, StaticStep, KeepsRefl DEF StaticInv

LEMMA IdleStatic == \A base, n : HandlerStatic(base, n, "idle", NoLocal)
BY DEF HandlerStatic

LEMMA StaticRequests ==
    ASSUME IInv, StaticInv, NEW h \in Handlers, Request(h)
    PROVE  StaticInv'
<1>1. ASSUME NEW p \in Submitted, UpdateConfig(h, p) PROVE StaticInv'
    <2> DEFINE q == ensure_sandbox_process_identity(p)
               l == [NoLocal EXCEPT !.op = "set", !.seen = rec, !.policy = q]
    <2>1. l.seen = rec
        BY DEF NoLocal
    <2>2. Goto(h, "set_global", l) /\ UNCHANGED store
        BY <1>1, Zenon DEF UpdateConfig, Start
    <2> HIDE DEF l
    <2>3. HandlerStatic(rec.policy, NonEmpty, "set_global", l)
        BY <2>1 DEF HandlerStatic
    <2> QED  BY <2>2, <2>3, StaticQuiet
<1>2. ASSUME NEW l, NEW label \in {"read_chunk", "list"}, Goto(h, label, l), UNCHANGED store
      PROVE  StaticInv'
    BY <1>2, StaticQuiet DEF HandlerStatic
<1>3. CASE GetSandboxConfig(h)
    <2> DEFINE l == [NoLocal EXCEPT !.op = "config", !.policy = rec.policy]
    <2>1. l.policy = rec.policy
        BY DEF NoLocal
    <2>2. Goto(h, "cfg_latest", l) /\ UNCHANGED store
        BY <1>3 DEF GetSandboxConfig, Start
    <2> HIDE DEF l
    <2>3. HandlerStatic(rec.policy, NonEmpty, "cfg_latest", l)
        BY <2>1 DEF HandlerStatic
    <2> QED  BY <2>2, <2>3, StaticQuiet
<1>4. ASSUME NEW v \in DOMAIN table, NEW s \in {"loaded", "failed"}, ReportPolicyStatus(h, v, s)
      PROVE  StaticInv'
    <2> DEFINE label == IF s = "loaded" THEN "rep_supersede" ELSE "idle"
               l     == IF s = "loaded" THEN [NoLocal EXCEPT !.op = "report", !.version = v] ELSE NoLocal
    <2>1. Goto(h, label, l) /\ label \in {"rep_supersede", "idle"}
        BY <1>4, Zenon DEF ReportPolicyStatus, Start
    <2> HIDE DEF label, l
    <2>2. table' = update_policy_status(table, v, s) /\ UNCHANGED <<rec, draft, served>>
        BY <1>4, Zenon DEF ReportPolicyStatus
    <2>3. DOMAIN table' = DOMAIN table /\ Keeps(table, table')
        BY <2>2, ReportedStatus
    <2>4. HandlerStatic(rec.policy, NonEmpty', label, l)
        BY <2>1 DEF HandlerStatic
    <2> QED  BY <2>1, <2>2, <2>3, <2>4, StaticStep DEF StaticInv, Keeps, NonEmpty
<1>5. CASE ApproveAllDraftChunks(h)
    BY <1>2, <1>5 DEF ApproveAllDraftChunks, Start
<1>6. ASSUME NEW c \in Chunks,
             ApproveDraftChunk(h, c) \/ RejectDraftChunk(h, c) \/ UndoDraftChunk(h, c)
      PROVE  StaticInv'
    BY <1>2, <1>6 DEF ApproveDraftChunk, RejectDraftChunk, UndoDraftChunk, Start
<1> QED  BY <1>1, <1>3, <1>4, <1>5, <1>6 DEF Request

\* A status update, or none.
LEMMA StaticStatus ==
    ASSUME IInv, StaticInv, NEW h \in Handlers, NEW label, NEW l, Goto(h, label, l),
           DOMAIN table' = DOMAIN table, Keeps(table, table'), UNCHANGED <<rec, draft>>,
           served => served', served' => NonEmpty,
           HandlerStatic(rec.policy, NonEmpty, label, l)
    PROVE  StaticInv'
<1>1. NonEmpty' = NonEmpty
    BY DEF NonEmpty
<1>2. \A v \in DOMAIN table' : StaticFieldsUnchanged(rec.policy, table'[v].policy)
    BY DEF StaticInv, Keeps
<1>3. \A c \in Chunks : draft'[c].status # "absent" => served'
    BY DEF StaticInv
<1> QED  BY <1>1, <1>2, <1>3, StaticStep

\* A revision that keeps the static domains is inserted.
LEMMA StaticPut ==
    ASSUME IInv, StaticInv, NEW h \in Handlers, NEW label, NEW l, Goto(h, label, l),
           NEW v, NEW p, ~VersionTaken(table, v), table' = put_policy_revision(table, v, p),
           StaticFieldsUnchanged(rec.policy, p), UNCHANGED <<rec, draft, served>>,
           HandlerStatic(rec.policy, TRUE, label, l)
    PROVE  StaticInv'
<1>1. NonEmpty' /\ Keeps(table, table')
    BY DEF NonEmpty, Keeps, put_policy_revision, VersionTaken
<1>2. \A w \in DOMAIN table' : StaticFieldsUnchanged(rec.policy, table'[w].policy)
    BY DEF StaticInv, put_policy_revision
<1>3. \A c \in Chunks : draft'[c].status # "absent" => served'
    BY DEF StaticInv
<1> QED  BY <1>1, <1>2, <1>3, StaticStep

LEMMA StaticNextChunk ==
    ASSUME IInv, StaticInv, NEW h \in Handlers, NEW l \in Local, l.op # "set",
           NextChunk(h, l), l.todo # {} => NonEmpty,
           UNCHANGED <<table, rec, served>>,
           \A c \in Chunks : draft'[c].status # "absent" => served
    PROVE  StaticInv'
<1>0. /\ Keeps(table, table') /\ NonEmpty' = NonEmpty
      /\ \A v \in DOMAIN table' : StaticFieldsUnchanged(rec.policy, table'[v].policy)
      /\ served' => NonEmpty'
    BY KeepsRefl DEF NonEmpty, StaticInv
<1>1. CASE Return(h)
    BY <1>0, <1>1, StaticStep, IdleStatic DEF Return
<1>2. ASSUME NEW s \in l.todo,
             Goto(h, "latest", [l EXCEPT !.chunk = s.chunk, !.gen = s.gen,
                                         !.rule = s.rule, !.attempt = 1,
                                         !.todo = @ \ {s}])
      PROVE  StaticInv'
    <2> DEFINE m == [l EXCEPT !.chunk = s.chunk, !.gen = s.gen, !.rule = s.rule,
                              !.attempt = 1, !.todo = @ \ {s}]
    <2>1. m.op # "set" /\ NonEmpty
        BY DEF Local
    <2>2. Goto(h, "latest", m)
        BY <1>2
    <2> HIDE DEF m
    <2>3. HandlerStatic(rec.policy, NonEmpty', "latest", m)
        BY <1>0, <2>1 DEF HandlerStatic
    <2> QED  BY <1>0, <2>2, <2>3, StaticStep
<1> QED  BY <1>1, <1>2 DEF NextChunk

\* The steps of a request that writes a revision.
LEMMA StaticWriters ==
    ASSUME IInv, StaticInv, NEW h \in Handlers,
           \/ SetCheckGlobal(h) \/ SetBackfill(h) \/ ReadLatest(h) \/ PutRevision(h)
           \/ PutConflict(h) \/ Supersede(h)
    PROVE  StaticInv'
<1> DEFINE l == loc[h]
           base == rec.policy
<1>0. /\ l \in Local /\ HandlerOk(table, pc[h], l) /\ IsTable(table, Policy)
      /\ get_latest_policy(table) \in Nat /\ DOMAIN table = 1 .. get_latest_policy(table)
      /\ HandlerStatic(base, NonEmpty, pc[h], l) /\ base \in Policy
    BY HandlerFacts DEF StaticInv
<1>1. ASSUME Return(h), UNCHANGED store PROVE StaticInv'
    BY <1>1, StaticQuiet, IdleStatic DEF Return
<1>2. CASE SetCheckGlobal(h)
    <2> DEFINE m == [l EXCEPT !.attempt = 1]
    <2>1. l.op = "set" /\ l.seen.policy = base /\ UNCHANGED store
        BY <1>0, <1>2 DEF SetCheckGlobal, At, HandlerOk, RequestOk, HandlerStatic
    <2>2. base # NoPolicy
        BY <1>0, ConstantsAssumption
    <2>3. \/ Return(h)
          \/ StaticFieldsUnchanged(base, l.policy) /\ Goto(h, "latest", m)
        BY <1>2, <2>1, <2>2 DEF SetCheckGlobal
    <2>4. m.op = "set" /\ m.policy = l.policy
        BY <1>0, <2>1 DEF Local
    <2> HIDE DEF m
    <2>5. CASE StaticFieldsUnchanged(base, l.policy) /\ Goto(h, "latest", m)
        <3>1. HandlerStatic(base, NonEmpty, "latest", m)
            BY <2>4, <2>5 DEF HandlerStatic
        <3> QED  BY <2>1, <2>5, <3>1, StaticQuiet
    <2> QED  BY <2>1, <2>3, <2>5, <1>1
<1>3. CASE SetBackfill(h)
    BY <1>0, <1>3 DEF SetBackfill, At, HandlerStatic
<1>4. CASE ReadLatest(h)
    <2> DEFINE n == get_latest_policy(table)
               new == NewPolicy(l, IF n = 0 THEN DefaultPolicy ELSE table[n].policy)
               m == [l EXCEPT !.base = n, !.new = new]
    <2>1. UNCHANGED store /\ (Return(h) \/ Goto(h, "put", m))
        BY <1>4, Zenon DEF ReadLatest
    <2>2. m.op = l.op /\ m.policy = l.policy /\ m.base = n
        BY <1>0 DEF Local
    <2> HIDE DEF m
    <2>3. NonEmpty => n > 0
        BY <1>0 DEF NonEmpty
    <2>4. HandlerStatic(base, NonEmpty, "latest", l)
        BY <1>0, <1>4 DEF ReadLatest, At
    <2>5. HandlerStatic(base, NonEmpty, "put", m)
        BY <2>2, <2>3, <2>4 DEF HandlerStatic
    <2> QED  BY <2>1, <2>5, <1>1, StaticQuiet
<1>5. CASE PutRevision(h)
    <2>1. /\ PutOk(table, l) /\ HandlerStatic(base, NonEmpty, "put", l) /\ l.op \in Writes
          /\ l.base \in Nat
        BY <1>0, <1>5 DEF PutRevision, At, HandlerOk, RequestOk, Local
    <2>2. /\ ~VersionTaken(table, l.base + 1)
          /\ table' = put_policy_revision(table, l.base + 1, l.new)
          /\ Goto(h, "supersede", l) /\ UNCHANGED <<rec, draft, served>>
        BY <1>5 DEF PutRevision, NextVersion
    <2>3. StaticFieldsUnchanged(base, l.new)
        <3>1. CASE l.op = "set"
            BY <2>1, <3>1 DEF PutOk, NewPolicy, HandlerStatic
        <3>2. CASE l.op # "set"
            <4>1. l.base > 0 /\ l.base <= get_latest_policy(table)
                BY <2>1, <3>2 DEF HandlerStatic, PutOk
            <4>2. l.base \in DOMAIN table
                BY <1>0, <2>1, <4>1
            <4> DEFINE p == table[l.base].policy
            <4>3. p \in Policy /\ StaticFieldsUnchanged(base, p)
                BY <1>0, <4>2 DEF IsTable, StaticInv
            <4>4. l.new = NewPolicy(l, p)
                BY <2>1, <4>1 DEF PutOk, PolicyAt
            <4> HIDE DEF p
            <4>5. /\ NewPolicy(l, p).ident = p.ident
                  /\ NewPolicy(l, p).fs = p.fs
                BY <3>2, <4>3 DEF NewPolicy, MergeRule, RemoveChunk, Policy
            <4> QED  BY <4>3, <4>4, <4>5 DEF StaticFieldsUnchanged
        <3> QED  BY <3>1, <3>2
    <2>4. HandlerStatic(base, TRUE, "supersede", l)
        BY DEF HandlerStatic
    <2> HIDE DEF l
    <2> QED  BY <2>2, <2>3, <2>4, StaticPut
<1>6. CASE PutConflict(h)
    <2> DEFINE m == [l EXCEPT !.attempt = @ + 1]
    <2>1. UNCHANGED store /\ (Return(h) \/ Goto(h, "latest", m))
        BY <1>6, Zenon DEF PutConflict, RetryFrom
    <2>2. m.op = l.op /\ m.policy = l.policy
        BY <1>0 DEF Local
    <2> HIDE DEF m
    <2>3. HandlerStatic(base, NonEmpty, "put", l)
        BY <1>0, <1>6 DEF PutConflict, At
    <2>4. HandlerStatic(base, NonEmpty, "latest", m)
        BY <2>2, <2>3 DEF HandlerStatic
    <2> QED  BY <2>1, <2>4, <1>1, StaticQuiet
<1>7. CASE Supersede(h)
    <2>1. /\ HandlerStatic(base, NonEmpty, "supersede", l) /\ Persisted(table, l)
          /\ UNCHANGED <<rec, draft, served>>
        BY <1>0, <1>7 DEF Supersede, At, HandlerOk
    <2>2. /\ l.base + 1 \in DOMAIN table
          /\ table' \in {supersede_older_policies(table, l.base + 1), table}
        BY <1>7, <2>1 DEF Supersede, NextVersion, Persisted
    <2>3. DOMAIN table' = DOMAIN table /\ Keeps(table, table')
        BY <1>0, <2>2, SupersedeUpdate DEF IInv
    <2>4. HandlerStatic(base, NonEmpty, "mark", l)
        BY <2>1 DEF HandlerStatic
    <2>5. Return(h) \/ Goto(h, "mark", l)
        BY <1>7 DEF Supersede
    <2>6. served' => NonEmpty
        BY <2>1 DEF StaticInv
    <2> HIDE DEF l
    <2> QED  BY <2>1, <2>3, <2>4, <2>5, <2>6, StaticStatus, IdleStatic DEF Return
<1> QED  BY <1>2, <1>3, <1>4, <1>5, <1>6, <1>7

\* The steps of a request about draft chunks.
LEMMA StaticDrafts ==
    ASSUME IInv, StaticInv, NEW h \in Handlers,
           ReadChunk(h) \/ RejectCheckGlobal(h) \/ MarkChunk(h) \/ ListPending(h)
    PROVE  StaticInv'
<1> DEFINE l == loc[h]
           base == rec.policy
<1>0. /\ l \in Local /\ HandlerOk(table, pc[h], l) /\ draft \in [Chunks -> DraftRow]
      /\ HandlerStatic(base, NonEmpty, pc[h], l)
    BY HandlerFacts DEF StaticInv
<1>1. ASSUME Return(h), UNCHANGED store PROVE StaticInv'
    BY <1>1, StaticQuiet, IdleStatic DEF Return
<1>2. ASSUME NEW c \in Chunks, draft[c].status # "absent" PROVE NonEmpty
    BY <1>2 DEF StaticInv
<1>3. CASE ReadChunk(h)
    <2> DEFINE row == draft[l.chunk]
               m == [l EXCEPT !.gen = row.gen, !.rule = row.rule, !.attempt = 1]
    <2>1. l.chunk \in Chunks /\ l.op \in {"approve", "reject", "undo"} /\ UNCHANGED store
        BY <1>0, <1>3 DEF ReadChunk, At, HandlerOk, RequestOk
    <2>2. \/ Return(h)
          \/ /\ row.status \in AcceptedFrom(l.op)
             /\ \E label \in {"latest", "reject_global", "mark"} : Goto(h, label, m)
        BY <1>3 DEF ReadChunk
    <2>3. "absent" \notin AcceptedFrom(l.op)
        BY <2>1 DEF AcceptedFrom
    <2>4. m.op # "set"
        BY <1>0, <2>1 DEF Local
    <2> HIDE DEF m
    <2>5. ASSUME NEW label \in {"latest", "reject_global", "mark"}, Goto(h, label, m), NonEmpty
          PROVE  StaticInv'
        <3>1. HandlerStatic(base, NonEmpty, label, m)
            BY <2>4, <2>5 DEF HandlerStatic
        <3> QED  BY <2>1, <2>5, <3>1, StaticQuiet
    <2> QED  BY <2>1, <2>2, <2>3, <2>5, <1>1, <1>2
<1>4. CASE RejectCheckGlobal(h)
    <2>1. HandlerStatic(base, NonEmpty, "reject_global", l) /\ l.op = "reject"
        BY <1>0, <1>4 DEF RejectCheckGlobal, At, HandlerOk, RequestOk
    <2>2. HandlerStatic(base, NonEmpty, "latest", l)
        BY <2>1 DEF HandlerStatic
    <2> QED  BY <1>4, <2>2, <1>1, StaticQuiet DEF RejectCheckGlobal
<1>5. CASE MarkChunk(h)
    <2>1. HandlerStatic(base, NonEmpty, "mark", l) /\ l.op \in Writes \ {"set"} /\ l.chunk \in Chunks
        BY <1>0, <1>5 DEF MarkChunk, At, HandlerOk, RequestOk
    <2>2. NonEmpty /\ l.op # "set"
        BY <2>1 DEF HandlerStatic, Writes
    <2>3. \A c \in Chunks : draft'[c].status # "absent" => draft[c].status # "absent"
        BY <1>0, <1>5, <2>1 DEF MarkChunk, update_draft_chunk_status, DraftRow
    <2>4. \A c \in Chunks : draft'[c].status # "absent" => served
        BY <2>3 DEF StaticInv
    <2>5. NextChunk(h, l) /\ UNCHANGED <<table, rec, served>>
        BY <1>5 DEF MarkChunk
    <2> HIDE DEF l
    <2> QED  BY <1>0, <2>2, <2>4, <2>5, StaticNextChunk
<1>6. CASE ListPending(h)
    <2>1. l.op = "approve_all" /\ UNCHANGED store
        BY <1>0, <1>6 DEF ListPending, At, HandlerOk, RequestOk
    <2>2. PICK include \in BOOLEAN :
             NextChunk(h, [l EXCEPT !.todo =
                 {[chunk |-> c, gen |-> draft[c].gen, rule |-> draft[c].rule] :
                     c \in {c \in Chunks : /\ draft[c].status = "pending"
                                           /\ include \/ c \notin Flagged}}])
        BY <1>6, Zenon DEF ListPending
    <2> DEFINE chosen == {c \in Chunks : /\ draft[c].status = "pending"
                                         /\ include \/ c \notin Flagged}
               todo == {[chunk |-> c, gen |-> draft[c].gen, rule |-> draft[c].rule] : c \in chosen}
               m == [l EXCEPT !.todo = todo]
    <2>3. todo # {} => NonEmpty
        BY <1>2
    <2>4. todo \subseteq Snapshot
        BY <1>0 DEF Snapshot, DraftRow
    <2> HIDE DEF todo
    <2>5. m \in Local /\ m.op # "set" /\ m.todo = todo
        BY <1>0, <2>1, <2>4 DEF Local
    <2>6. NextChunk(h, m)
        BY <2>2 DEF todo
    <2> HIDE DEF m
    <2>7. /\ UNCHANGED <<table, rec, served>>
          /\ \A c \in Chunks : draft'[c].status # "absent" => served
        BY <2>1 DEF store, StaticInv
    <2> QED  BY <2>3, <2>5, <2>6, <2>7, StaticNextChunk
<1> QED  BY <1>3, <1>4, <1>5, <1>6

\* The supervisor's fetch and its reports.
LEMMA StaticSupervisor ==
    ASSUME IInv, StaticInv, ~StoreErrors, NEW h \in Handlers,
           \/ ConfigReadLatest(h) \/ ConfigBackfill(h) \/ ConfigMarkLoaded(h)
           \/ ReportSupersede(h) \/ ReportReadSandbox(h) \/ ReportWriteSandbox(h)
    PROVE  StaticInv'
<1> DEFINE l == loc[h]
           base == rec.policy
<1>0. /\ l \in Local /\ HandlerOk(table, pc[h], l) /\ IsTable(table, Policy) /\ Contiguous(table)
      /\ HandlerStatic(base, NonEmpty, pc[h], l) /\ base \in Policy /\ base # NoPolicy
      /\ served => NonEmpty
    BY HandlerFacts, ConstantsAssumption DEF StaticInv
<1>1. CASE ConfigReadLatest(h)
    <2>1. l.policy = base /\ UNCHANGED <<table, rec, draft>>
        BY <1>0, <1>1 DEF ConfigReadLatest, At, HandlerStatic
    <2>2. Keeps(table, table')
        BY <2>1, KeepsRefl
    <2>3. CASE Goto(h, "cfg_put", l) /\ UNCHANGED served
        <3>1. HandlerStatic(base, NonEmpty, "cfg_put", l)
            BY <2>1 DEF HandlerStatic
        <3> QED  BY <1>0, <2>1, <2>2, <2>3, <3>1, StaticStatus
    <2>4. CASE /\ Return(h) /\ NonEmpty
               /\ served' = (served \/ DOMAIN table # {} \/ global)
        <3>1. served => served'
            BY <2>4
        <3> QED  BY <2>1, <2>2, <2>4, <3>1, StaticStatus, IdleStatic DEF Return
    <2> QED  BY <1>0, <1>1, <2>1, <2>3, <2>4 DEF ConfigReadLatest, NonEmpty
<1>2. CASE ConfigBackfill(h)
    <2>1. l.policy = base /\ UNCHANGED <<rec, draft>>
        BY <1>0, <1>2 DEF ConfigBackfill, At, HandlerStatic
    <2>2. CASE VersionTaken(table, 1) /\ Return(h) /\ served' = TRUE /\ UNCHANGED table
        <3>1. NonEmpty /\ Keeps(table, table')
            BY <2>2, KeepsRefl DEF NonEmpty, VersionTaken
        <3> QED  BY <2>1, <2>2, <3>1, StaticStatus, IdleStatic DEF Return
    <2>3. CASE /\ ~VersionTaken(table, 1)
               /\ table' = put_policy_revision(table, 1, l.policy)
               /\ Goto(h, "cfg_loaded", l) /\ UNCHANGED served
        <3>1. HandlerStatic(base, TRUE, "cfg_loaded", l) /\ StaticFieldsUnchanged(base, l.policy)
            BY <1>0, <2>1 DEF HandlerStatic, StaticFieldsUnchanged
        <3> HIDE DEF l
        <3> QED  BY <2>1, <2>3, <3>1, StaticPut
    <2> QED  BY <1>2, <2>2, <2>3 DEF ConfigBackfill
<1>3. CASE ConfigMarkLoaded(h)
    <2>1. 1 \in DOMAIN table
        BY <1>0, <1>3 DEF ConfigMarkLoaded, At, HandlerOk
    <2>2. DOMAIN table' = DOMAIN table /\ Keeps(table, table')
        <3>1. CASE table' = table
            BY <3>1, KeepsRefl
        <3>2. CASE table' = update_policy_status(table, 1, "loaded")
            BY <3>2, ReportedStatus
        <3> QED  BY <1>3, <3>1, <3>2 DEF ConfigMarkLoaded
    <2>3. NonEmpty /\ served' /\ UNCHANGED <<rec, draft>> /\ Return(h)
        BY <1>3, <2>1 DEF NonEmpty, ConfigMarkLoaded
    <2> QED  BY <2>2, <2>3, StaticStatus, IdleStatic DEF Return
<1>4. CASE ReportSupersede(h)
    <2>1. l.version \in DOMAIN table
        BY <1>0, <1>4 DEF ReportSupersede, At, HandlerOk
    <2>2. DOMAIN table' = DOMAIN table /\ Keeps(table, table')
        BY <1>0, <1>4, <2>1, SupersedeUpdate DEF ReportSupersede
    <2>3. HandlerStatic(base, NonEmpty, "rep_read", l)
        BY DEF HandlerStatic
    <2>4. Goto(h, "rep_read", l) /\ UNCHANGED <<rec, draft, served>>
        BY <1>4 DEF ReportSupersede
    <2> HIDE DEF l
    <2> QED  BY <1>0, <2>2, <2>3, <2>4, StaticStatus
<1>5. CASE ReportReadSandbox(h)
    <2> DEFINE m == [l EXCEPT !.seen = rec]
    <2>1. m.seen = rec /\ Goto(h, "rep_write", m) /\ UNCHANGED store
        BY <1>0, <1>5 DEF ReportReadSandbox, Local
    <2> HIDE DEF m
    <2>2. HandlerStatic(base, NonEmpty, "rep_write", m)
        BY <2>1 DEF HandlerStatic
    <2> QED  BY <2>1, <2>2, StaticQuiet
<1>6. CASE ReportWriteSandbox(h)
    <2>1. l.seen.policy = base
        BY <1>0, <1>6 DEF ReportWriteSandbox, At, HandlerStatic
    <2>2. rec'.policy = base
        BY <1>0, <1>6, <2>1 DEF ReportWriteSandbox, Local, SandboxRecord
    <2>3. Return(h) /\ UNCHANGED <<table, draft, served>>
        BY <1>6 DEF ReportWriteSandbox
    <2>4. Keeps(table, table') /\ NonEmpty' = NonEmpty
        BY <2>3, KeepsRefl DEF NonEmpty
    <2> QED  BY <2>2, <2>3, <2>4, StaticStep, IdleStatic DEF Return, StaticInv
<1> QED  BY <1>1, <1>2, <1>3, <1>4, <1>5, <1>6

LEMMA NextStatic ==
    ASSUME IInv, StaticInv, ~StoreErrors, [Next]_vars
    PROVE  StaticInv'
<1>1. ASSUME NEW h \in Handlers, Step(h) PROVE StaticInv'
    BY <1>1, StaticWriters, StaticDrafts, StaticSupervisor DEF Step
<1>2. ASSUME NEW h \in Handlers, Drop(h) PROVE StaticInv'
    BY <1>2, StaticQuiet, IdleStatic DEF Drop, Return
<1>3. CASE Drafts \/ GlobalPolicyChanges \/ UNCHANGED vars
    <2>1. UNCHANGED <<table, rec, served, pc, loc>>
        BY <1>3, Zenon DEF Drafts, SubmitPolicyAnalysis, EditDraftChunk, ClearDraftChunks,
                    GlobalPolicyChanges, vars
    <2>2. draft \in [Chunks -> DraftRow]
        BY DEF IInv, TypeOK
    <2>3. \A c \in Chunks : draft'[c].status # "absent" => served \/ draft[c].status # "absent"
        BY <1>3, <2>2 DEF Drafts, SubmitPolicyAnalysis, EditDraftChunk, ClearDraftChunks,
                    GlobalPolicyChanges, vars, DraftRow
    <2> QED  BY <2>1, <2>3 DEF StaticInv, NonEmpty
<1> QED  BY <1>1, <1>2, <1>3, StaticRequests DEF Next

\* The static domains never change after creation, whatever updates, approvals and
\* backfills race: of a sandbox that has a policy in its spec, with a store that
\* does not fail the backfill of get_sandbox_config.
THEOREM StaticFieldsImmutable ==
    ASSUME NoPolicy \notin Baselines, ~StoreErrors
    PROVE  Spec => []StaticFieldsHeld
<1>1. Init => StaticInv
    BY ConstantsAssumption DEF Init, StaticInv, EmptyTable, HandlerStatic
<1>2. StaticInv => StaticFieldsHeld
    BY DEF StaticInv, StaticFieldsHeld, StaticFieldsUnchanged
<1>3. IInv /\ StaticInv /\ [Next]_vars => StaticInv'
    BY NextStatic
<1> QED  BY <1>1, <1>2, <1>3, Invariance, PTL DEF Spec

-------------------------------------------------------------------------------
(* The history is a PolicyLog.  An insertion is the commit of the request that   *)
(* the handler serves; every other step issues one, withdraws one or is not seen.*)

\* The request of a handler at a label, as Outstanding has it.
RequestOf(label, l) ==
    IF label = "cfg_put" THEN [kind |-> "backfill", policy |-> l.policy]
    ELSE IF label \notin {"latest", "put"} THEN NoRequest
    ELSE IF l.op = "set" THEN [kind |-> "set", policy |-> l.policy]
    ELSE IF Merges(l.op) THEN [kind |-> "merge", rule |-> l.rule]
    ELSE [kind |-> "remove", chunk |-> l.chunk]

LEMMA OutstandingIs ==
    ASSUME IInv, NEW h \in Handlers
    PROVE  Outstanding(h) = RequestOf(pc[h], loc[h])
<1>1. RequestOk(pc[h], loc[h])
    BY DEF IInv, HandlerOk
<1> QED  BY <1>1 DEF Outstanding, RequestOf, RequestOk, Writes, Merges, Removes

LEMMA RequestType ==
    ASSUME NEW label, NEW l \in Local, RequestOk(label, l)
    PROVE  /\ RequestOf(label, l) \in AnyRequest \cup {NoRequest}
           /\ NoRequest \notin AnyRequest
<1>1. NoRequest \notin AnyRequest
    BY DEF NoRequest, AnyRequest
<1>2. CASE label = "cfg_put"
    BY <1>1, <1>2 DEF RequestOf, AnyRequest, RequestOk
<1>3. CASE label \in {"latest", "put"}
    <2>1. l.op \in Writes /\ (l.op = "set" => l.policy \in Policy)
          /\ (l.op # "set" => l.chunk \in Chunks) /\ l.rule \in SUBSET Chunks
        BY <1>3 DEF RequestOk, Local
    <2> QED  BY <1>1, <1>3, <2>1 DEF RequestOf, AnyRequest, Merges, Writes
<1>4. CASE label \notin {"cfg_put", "latest", "put"}
    BY <1>1, <1>4 DEF RequestOf
<1> QED  BY <1>1, <1>2, <1>3, <1>4

\* How a step of one handler changes the requests.
LEMMA RequestsStep ==
    ASSUME IInv, IInv', NEW h \in Handlers, NEW label, NEW l, Goto(h, label, l)
    PROVE  /\ [g \in Handlers |-> Outstanding(g)]'
                = [[g \in Handlers |-> Outstanding(g)] EXCEPT ![h] = RequestOf(label, l)]
           /\ Outstanding(h) = RequestOf(pc[h], loc[h])
           /\ Outstanding(h) \in AnyRequest \cup {NoRequest}
           /\ RequestOf(label, l) \in AnyRequest \cup {NoRequest}
           /\ NoRequest \notin AnyRequest
<1>1. pc \in [Handlers -> Labels] /\ loc \in [Handlers -> Local]
    BY DEF IInv, TypeOK
<1>2. pc' \in [Handlers -> Labels] /\ loc' \in [Handlers -> Local]
    BY DEF IInv, TypeOK
<1>3. pc'[h] = label /\ loc'[h] = l
    BY <1>1 DEF Goto
<1>4. ASSUME NEW g \in Handlers
      PROVE  /\ Outstanding(g) = RequestOf(pc[g], loc[g])
             /\ Outstanding(g)' = RequestOf(pc'[g], loc'[g])
    <2>1. Outstanding(g) = RequestOf(pc[g], loc[g])
        BY OutstandingIs
    <2>2. Outstanding(g)' = RequestOf(pc'[g], loc'[g])
        <3>1. RequestOk(pc'[g], loc'[g])
            BY DEF IInv, HandlerOk
        <3> QED  BY <3>1 DEF Outstanding, RequestOf, RequestOk, Writes, Merges, Removes
    <2> QED  BY <2>1, <2>2
<1>5. ASSUME NEW g \in Handlers, g # h
      PROVE  Outstanding(g)' = Outstanding(g)
    <2>1. pc'[g] = pc[g] /\ loc'[g] = loc[g]
        BY <1>1, <1>5 DEF Goto
    <2> QED  BY <1>4, <2>1
<1>6. /\ RequestOf(pc[h], loc[h]) \in AnyRequest \cup {NoRequest}
      /\ NoRequest \notin AnyRequest
    BY <1>1, RequestType DEF IInv, HandlerOk
<1>7. RequestOf(label, l) \in AnyRequest \cup {NoRequest}
    <2>1. RequestOk(pc'[h], loc'[h]) /\ loc'[h] \in Local
        BY <1>2 DEF IInv, HandlerOk
    <2> QED  BY <2>1, <1>3, RequestType
<1>8. Outstanding(h)' = RequestOf(label, l)
    BY <1>3, <1>4
<1> QED  BY <1>4, <1>5, <1>6, <1>7, <1>8

\* A step that inserts nothing, of a handler whose request is new, ends or stays.
LEMMA LogQuiet ==
    ASSUME IInv, IInv', NEW h \in Handlers, NEW label, NEW l, Goto(h, label, l),
           DOMAIN table' = DOMAIN table, Keeps(table, table'),
           \/ RequestOf(label, l) = RequestOf(pc[h], loc[h])
           \/ RequestOf(pc[h], loc[h]) = NoRequest
           \/ RequestOf(label, l) = NoRequest
    PROVE  [Log!Next]_(Log!vars)
<1> DEFINE size == get_latest_policy(table)
           log == [v \in DOMAIN table |-> table[v].policy]
           req == [g \in Handlers |-> Outstanding(g)]
           r == RequestOf(label, l)
<1>1. size' = size
    BY DEF get_latest_policy
<1>2. log' = log
    BY DEF Keeps
<1>3. /\ req' = [req EXCEPT ![h] = r]
      /\ Outstanding(h) = RequestOf(pc[h], loc[h])
      /\ Outstanding(h) \in AnyRequest \cup {NoRequest}
      /\ r \in AnyRequest \cup {NoRequest}
      /\ NoRequest \notin AnyRequest
    BY RequestsStep
<1>4. req[h] = Outstanding(h) /\ req'[h] = r /\ req = [g \in Handlers |-> req[g]]
    BY <1>3
<1> HIDE DEF size, log, req, r
<1>5. CASE r = req[h]
    <2>1. req' = req
        BY <1>3, <1>4, <1>5
    <2> QED  BY <1>1, <1>2, <2>1 DEF Log!vars, size, log, req
<1>6. CASE req[h] = NoRequest /\ r # NoRequest
    <2>1. Log!Issue(h)
        BY <1>1, <1>2, <1>3, <1>4, <1>6 DEF Log!Issue, size, log, req
    <2> QED  BY <2>1 DEF Log!Next
<1>7. CASE req[h] # NoRequest /\ r = NoRequest
    <2>1. Log!Withdraw(h)
        BY <1>1, <1>2, <1>3, <1>4, <1>7 DEF Log!Withdraw, size, log, req
    <2> QED  BY <2>1 DEF Log!Next
<1> QED  BY <1>3, <1>4, <1>5, <1>6, <1>7 DEF r

\* An insertion at the end of what the request makes of the latest policy.
LEMMA LogCommit ==
    ASSUME IInv, IInv', NEW h \in Handlers, NEW label, NEW l, Goto(h, label, l),
           RequestOf(label, l) = NoRequest,
           NEW r, r = RequestOf(pc[h], loc[h]), r # NoRequest,
           NEW b, b = get_latest_policy(table),
           DOMAIN table' = 1 .. b + 1, get_latest_policy(table') = b + 1,
           Keeps(table, table'),
           table'[b + 1].policy = Log!Result(r, PolicyAt(table, b)),
           r.kind = "backfill" => b = 0,
           r.kind = "remove" => b > 0,
           r.kind = "set" /\ b > 0 => r.policy # PolicyAt(table, b)
    PROVE  [Log!Next]_(Log!vars)
<1> DEFINE size == get_latest_policy(table)
           log == [v \in DOMAIN table |-> table[v].policy]
           req == [g \in Handlers |-> Outstanding(g)]
<1>1. b \in Nat /\ DOMAIN table = 1 .. b
    BY HandlerFacts
<1>2. Log!Current = PolicyAt(table, b)
    BY <1>1 DEF Log!Current, PolicyAt
<1>3. /\ req' = [req EXCEPT ![h] = NoRequest]
      /\ Outstanding(h) = r
    BY RequestsStep
<1>4. req[h] = r
    BY <1>3
<1>5. log' = [v \in 1 .. b + 1 |-> IF v = b + 1 THEN Log!Result(r, Log!Current) ELSE log[v]]
    <2>1. log' = [v \in 1 .. b + 1 |-> table'[v].policy]
        OBVIOUS
    <2>2. ASSUME NEW v \in 1 .. b + 1
          PROVE  table'[v].policy = IF v = b + 1 THEN Log!Result(r, Log!Current) ELSE log[v]
        <3>1. CASE v = b + 1
            BY <3>1, <1>2
        <3>2. CASE v # b + 1
            <4>1. v \in DOMAIN table
                BY <3>2, <1>1
            <4> QED  BY <4>1, <3>2 DEF Keeps
        <3> QED  BY <3>1, <3>2
    <2> HIDE DEF log
    <2> QED  BY <2>1, <2>2
<1>6. Log!MayCommit(r)
    <2>1. r.kind = "set" => Log!Result(r, Log!Current) = r.policy
        BY DEF Log!Result
    <2>2. size = b
        OBVIOUS
    <2> QED  BY <2>1, <2>2, <1>2 DEF Log!MayCommit
<1>7. Log!Commit(h)
    <2> HIDE DEF log, req
    <2>1. /\ req[h] # NoRequest /\ Log!MayCommit(req[h])
          /\ size' = size + 1
          /\ log' = [v \in 1 .. size + 1 |->
                        IF v = size + 1 THEN Log!Result(req[h], Log!Current) ELSE log[v]]
          /\ req' = [req EXCEPT ![h] = NoRequest]
        BY <1>3, <1>4, <1>5, <1>6
    <2> QED  BY <2>1 DEF Log!Commit, log, req
<1> QED  BY <1>7 DEF Log!Next

\* The steps of a request that writes a revision.
LEMMA LogWriters ==
    ASSUME IInv, IInv', NEW h \in Handlers,
           \/ SetCheckGlobal(h) \/ SetBackfill(h) \/ ReadLatest(h) \/ PutRevision(h)
           \/ PutConflict(h) \/ Supersede(h)
    PROVE  [Log!Next]_(Log!vars)
<1> DEFINE l == loc[h]
<1>0. /\ l \in Local /\ HandlerOk(table, pc[h], l) /\ IsTable(table, Policy)
      /\ Contiguous(table)
      /\ get_latest_policy(table) \in Nat /\ DOMAIN table = 1 .. get_latest_policy(table)
    BY HandlerFacts
<1>1. ASSUME Return(h), UNCHANGED table PROVE [Log!Next]_(Log!vars)
    BY <1>1, LogQuiet, KeepsRefl DEF Return, RequestOf
<1>2. CASE SetCheckGlobal(h) \/ SetBackfill(h)
    <2> DEFINE m == [l EXCEPT !.attempt = 1]
    <2>1. /\ table' = table /\ RequestOf(pc[h], l) = NoRequest
          /\ Return(h) \/ Goto(h, "set_backfill", l) \/ Goto(h, "latest", m)
        BY <1>2 DEF SetCheckGlobal, SetBackfill, At, store, RequestOf
    <2> HIDE DEF m
    <2> QED  BY <2>1, <1>1, LogQuiet, KeepsRefl
<1>3. CASE ReadLatest(h)
    <2> DEFINE n == get_latest_policy(table)
               new == NewPolicy(l, IF n = 0 THEN DefaultPolicy ELSE table[n].policy)
               m == [l EXCEPT !.base = n, !.new = new]
    <2>1. /\ table' = table /\ pc[h] = "latest"
          /\ Return(h) \/ Goto(h, "put", m)
        BY <1>3, Zenon DEF ReadLatest, At, store
    <2>2. m.op = l.op /\ m.policy = l.policy /\ m.rule = l.rule /\ m.chunk = l.chunk
        BY <1>0 DEF Local
    <2> HIDE DEF m
    <2>3. RequestOf("put", m) = RequestOf(pc[h], l)
        BY <2>1, <2>2 DEF RequestOf
    <2> QED  BY <2>1, <2>3, <1>1, LogQuiet, KeepsRefl
<1>4. CASE PutRevision(h)
    <2>1. /\ pc[h] = "put" /\ PutOk(table, l) /\ l.op \in Writes /\ l.base \in Nat
          /\ l.op = "set" => l.policy \in Policy
        BY <1>0, <1>4 DEF PutRevision, At, HandlerOk, RequestOk, Local
    <2>2. /\ ~VersionTaken(table, l.base + 1)
          /\ table' = put_policy_revision(table, l.base + 1, l.new)
          /\ Goto(h, "supersede", l)
        BY <1>4 DEF PutRevision, NextVersion
    <2>3. /\ l.base <= get_latest_policy(table) /\ l.new \in Policy
          /\ l.new = NewPolicy(l, PolicyAt(table, l.base))
          /\ l.op = "set" /\ l.base > 0 => PolicyAt(table, l.base) # l.policy
          /\ Removes(l.op) => l.base > 0
        BY <2>1 DEF PutOk
    <2> DEFINE r == RequestOf("put", l)
    <2>4. /\ r.kind \in {"set", "merge", "remove"}
          /\ r.kind = "set" <=> l.op = "set"
          /\ r.kind = "set" => r.policy = l.policy
          /\ r.kind = "remove" => Removes(l.op)
          /\ r # NoRequest
          /\ l.new = Log!Result(r, PolicyAt(table, l.base))
        <3>1. CASE l.op = "set"
            BY <3>1, <2>3 DEF RequestOf, NoRequest, NewPolicy, Log!Result
        <3>2. CASE Merges(l.op)
            BY <3>2, <2>3 DEF RequestOf, NoRequest, NewPolicy, Log!Result, Merges, Removes, MergeRule
        <3>3. CASE Removes(l.op)
            BY <3>3, <2>3 DEF RequestOf, NoRequest, NewPolicy, Log!Result, Merges, Removes, RemoveChunk
        <3> QED  BY <2>1, <3>1, <3>2, <3>3 DEF Writes, Merges, Removes
    <2>5. RequestOf("supersede", l) = NoRequest
        BY DEF RequestOf
    <2> HIDE DEF l, r
    <2>6. /\ l.base = get_latest_policy(table)
          /\ DOMAIN table' = 1 .. l.base + 1
          /\ get_latest_policy(table') = l.base + 1
          /\ Keeps(table, table')
          /\ table'[l.base + 1].policy = l.new
        BY <1>0, <2>1, <2>2, <2>3, PutAtEnd
    <2>7. r = RequestOf(pc[h], loc[h])
        BY <2>1 DEF r, l
    <2> QED  BY <2>2, <2>3, <2>4, <2>5, <2>6, <2>7, LogCommit
<1>5. CASE PutConflict(h)
    <2> DEFINE m == [l EXCEPT !.attempt = @ + 1]
    <2>1. /\ table' = table /\ pc[h] = "put"
          /\ Return(h) \/ Goto(h, "latest", m)
        BY <1>5, Zenon DEF PutConflict, RetryFrom, At, store
    <2>2. m.op = l.op /\ m.policy = l.policy /\ m.rule = l.rule /\ m.chunk = l.chunk
        BY <1>0 DEF Local
    <2> HIDE DEF m
    <2>3. RequestOf("latest", m) = RequestOf(pc[h], l)
        BY <2>1, <2>2 DEF RequestOf
    <2> QED  BY <2>1, <2>3, <1>1, LogQuiet, KeepsRefl
<1>6. CASE Supersede(h)
    <2>1. /\ pc[h] = "supersede" /\ Persisted(table, l)
          /\ Return(h) \/ Goto(h, "mark", l)
        BY <1>0, <1>6 DEF Supersede, At, HandlerOk
    <2>2. /\ l.base + 1 \in DOMAIN table
          /\ table' \in {supersede_older_policies(table, l.base + 1), table}
        BY <1>6, <2>1 DEF Supersede, NextVersion, Persisted
    <2>3. DOMAIN table' = DOMAIN table /\ Keeps(table, table')
        BY <1>0, <2>2, SupersedeUpdate
    <2>4. RequestOf(pc[h], l) = NoRequest
        BY <2>1 DEF RequestOf
    <2> QED  BY <2>1, <2>3, <2>4, LogQuiet DEF Return
<1> QED  BY <1>2, <1>3, <1>4, <1>5, <1>6

\* Steps from a label at which nothing is outstanding, without an insertion.
LEMMA LogFromNone ==
    ASSUME IInv, IInv', NEW h \in Handlers,
           pc[h] \notin {"latest", "put", "cfg_put"},
           \E label, l : Goto(h, label, l),
           DOMAIN table' = DOMAIN table, Keeps(table, table')
    PROVE  [Log!Next]_(Log!vars)
<1>1. RequestOf(pc[h], loc[h]) = NoRequest
    BY DEF RequestOf
<1> QED  BY <1>1, LogQuiet

\* The first revision, as get_sandbox_config inserts it.
LEMMA FirstPut ==
    ASSUME NEW t, Contiguous(t), NEW p, ~VersionTaken(t, 1),
           NEW u, u = put_policy_revision(t, 1, p)
    PROVE  /\ get_latest_policy(t) = 0
           /\ DOMAIN u = 1 .. 1 /\ get_latest_policy(u) = 1
           /\ Keeps(t, u) /\ u[1].policy = p
<1>1. get_latest_policy(t) = 0 /\ DOMAIN t = 1 .. 0
    BY LatestFacts DEF VersionTaken
<1>2. DOMAIN u = 1 .. 1
    BY <1>1 DEF put_policy_revision
<1>3. get_latest_policy(u) = 1
    BY <1>2, LatestOfContiguous
<1> QED  BY <1>1, <1>2, <1>3 DEF Keeps, put_policy_revision

LEMMA LogOthers ==
    ASSUME IInv, IInv', NEW h \in Handlers,
           \/ Request(h) \/ Drop(h)
           \/ ReadChunk(h) \/ RejectCheckGlobal(h) \/ MarkChunk(h) \/ ListPending(h)
           \/ ConfigReadLatest(h) \/ ConfigBackfill(h) \/ ConfigMarkLoaded(h)
           \/ ReportSupersede(h) \/ ReportReadSandbox(h) \/ ReportWriteSandbox(h)
    PROVE  [Log!Next]_(Log!vars)
<1> DEFINE l == loc[h]
<1>0. /\ l \in Local /\ HandlerOk(table, pc[h], l) /\ IsTable(table, Policy)
      /\ Contiguous(table) /\ get_latest_policy(table) \in Nat
    BY HandlerFacts
<1>1. CASE Drop(h)
    <2>1. Goto(h, "idle", NoLocal) /\ table' = table /\ RequestOf("idle", NoLocal) = NoRequest
        BY <1>1 DEF Drop, Return, RequestOf, store
    <2> QED  BY <2>1, LogQuiet, KeepsRefl
<1>2. CASE Request(h)
    <2>1. pc[h] = "idle" /\ \E label, m : Goto(h, label, m)
        BY <1>2, Zenon DEF Request, UpdateConfig, ApproveDraftChunk, RejectDraftChunk,
              UndoDraftChunk, ApproveAllDraftChunks, GetSandboxConfig, ReportPolicyStatus, Start
    <2>2. DOMAIN table' = DOMAIN table /\ Keeps(table, table')
        <3>1. \/ table' = table
              \/ \E v \in DOMAIN table, s \in {"loaded", "failed"} :
                     table' = update_policy_status(table, v, s)
            BY <1>2, Zenon DEF Request, UpdateConfig, ApproveDraftChunk, RejectDraftChunk,
                  UndoDraftChunk, ApproveAllDraftChunks, GetSandboxConfig, ReportPolicyStatus, store
        <3> QED  BY <3>1, KeepsRefl, ReportedStatus
    <2> QED  BY <2>1, <2>2, LogFromNone
<1>3. CASE ReadChunk(h) \/ RejectCheckGlobal(h)
    <2>1. /\ pc[h] \in {"read_chunk", "reject_global"} /\ table' = table
          /\ \E label, m : Goto(h, label, m)
        BY <1>3, Zenon DEF ReadChunk, RejectCheckGlobal, At, store, Return
    <2> QED  BY <2>1, LogFromNone, KeepsRefl
<1>4. CASE MarkChunk(h) \/ ListPending(h)
    <2>1. /\ pc[h] \in {"mark", "list"} /\ table' = table
          /\ \E m : NextChunk(h, m)
        BY <1>4, Zenon DEF MarkChunk, ListPending, At, store
    <2>2. \E label, m : Goto(h, label, m)
        BY <2>1, Zenon DEF NextChunk, Return
    <2> QED  BY <2>1, <2>2, LogFromNone, KeepsRefl
<1>5. CASE ConfigReadLatest(h)
    <2>1. /\ pc[h] = "cfg_latest" /\ table' = table
          /\ \E label, m : Goto(h, label, m)
        BY <1>5, Zenon DEF ConfigReadLatest, At, Return
    <2> QED  BY <2>1, LogFromNone, KeepsRefl
<1>6. CASE ConfigBackfill(h)
    <2>1. pc[h] = "cfg_put" /\ l.policy \in Policy
        BY <1>0, <1>6 DEF ConfigBackfill, At, HandlerOk, RequestOk
    <2>2. CASE Return(h) /\ UNCHANGED table
        <3>1. RequestOf("idle", NoLocal) = NoRequest
            BY DEF RequestOf
        <3> QED  BY <2>2, <3>1, LogQuiet, KeepsRefl DEF Return
    <2>3. CASE /\ ~VersionTaken(table, 1)
               /\ table' = put_policy_revision(table, 1, l.policy)
               /\ Goto(h, "cfg_loaded", l)
        <3> DEFINE r == [kind |-> "backfill", policy |-> l.policy]
        <3>1. /\ get_latest_policy(table) = 0
              /\ DOMAIN table' = 1 .. 1 /\ get_latest_policy(table') = 1
              /\ Keeps(table, table') /\ table'[1].policy = l.policy
            <4> HIDE DEF l
            <4> QED  BY <1>0, <2>1, <2>3, FirstPut
        <3>2. r # NoRequest /\ r.kind = "backfill" /\ r.policy = l.policy
            BY DEF NoRequest
        <3>3. r = RequestOf(pc[h], l) /\ RequestOf("cfg_loaded", l) = NoRequest
            BY <2>1 DEF RequestOf
        <3> HIDE DEF r
        <3>4. Log!Result(r, PolicyAt(table, 0)) = l.policy
            BY <3>2 DEF Log!Result
        <3> DEFINE b == get_latest_policy(table)
        <3>5. /\ b = 0 /\ DOMAIN table' = 1 .. b + 1 /\ get_latest_policy(table') = b + 1
              /\ Keeps(table, table')
              /\ table'[b + 1].policy = Log!Result(r, PolicyAt(table, b))
            BY <3>1, <3>4
        <3>6. /\ r.kind = "backfill" => b = 0
              /\ r.kind = "remove" => b > 0
              /\ r.kind = "set" /\ b > 0 => r.policy # PolicyAt(table, b)
            BY <3>2, <3>5
        <3> HIDE DEF l
        <3> QED  BY <2>3, <3>2, <3>3, <3>5, <3>6, LogCommit DEF l
    <2> QED  BY <1>6, <2>2, <2>3 DEF ConfigBackfill
<1>7. CASE ConfigMarkLoaded(h)
    <2>1. pc[h] = "cfg_loaded" /\ \E label, m : Goto(h, label, m)
        BY <1>7, Zenon DEF ConfigMarkLoaded, At, Return
    <2>2. table' = table \/ table' = update_policy_status(table, 1, "loaded")
        BY <1>7 DEF ConfigMarkLoaded
    <2>3. DOMAIN table' = DOMAIN table /\ Keeps(table, table')
        BY <2>2, KeepsRefl, ReportedStatus
    <2> QED  BY <2>1, <2>3, LogFromNone
<1>8. CASE ReportSupersede(h)
    <2>1. /\ pc[h] = "rep_supersede" /\ l.version \in DOMAIN table
          /\ \E label, m : Goto(h, label, m)
        BY <1>0, <1>8 DEF ReportSupersede, At, HandlerOk
    <2>2. DOMAIN table' = DOMAIN table /\ Keeps(table, table')
        BY <1>0, <1>8, <2>1, SupersedeUpdate DEF ReportSupersede
    <2> QED  BY <2>1, <2>2, LogFromNone
<1>9. CASE ReportReadSandbox(h) \/ ReportWriteSandbox(h)
    <2>1. /\ pc[h] \in {"rep_read", "rep_write"} /\ table' = table
          /\ \E label, m : Goto(h, label, m)
        BY <1>9, Zenon DEF ReportReadSandbox, ReportWriteSandbox, At, store, Return
    <2> QED  BY <2>1, LogFromNone, KeepsRefl
<1> QED  BY <1>1, <1>2, <1>3, <1>4, <1>5, <1>6, <1>7, <1>8, <1>9

LEMMA LogInit == Init => Log!Init
<1> SUFFICES ASSUME Init PROVE Log!Init
    OBVIOUS
<1>1. DOMAIN table = {}
    BY DEF Init, EmptyTable
<1>2. \A h \in Handlers : Outstanding(h) = NoRequest
    BY DEF Init, Outstanding
<1>3. [v \in DOMAIN table |-> table[v].policy] = [v \in {} |-> 0]
    BY <1>1
<1> QED  BY <1>1, <1>2, <1>3 DEF Log!Init, get_latest_policy

LEMMA LogNext ==
    ASSUME IInv, IInv', [Next]_vars
    PROVE  [Log!Next]_(Log!vars)
<1>1. ASSUME NEW h \in Handlers, Request(h) \/ Step(h) \/ Drop(h)
      PROVE  [Log!Next]_(Log!vars)
    BY <1>1, LogWriters, LogOthers DEF Step
<1>2. CASE Drafts \/ GlobalPolicyChanges \/ UNCHANGED vars
    <2>1. UNCHANGED <<table, pc, loc>>
        BY <1>2, Zenon DEF Drafts, SubmitPolicyAnalysis, EditDraftChunk, ClearDraftChunks,
                    GlobalPolicyChanges, vars
    <2>2. \A h \in Handlers : Outstanding(h)' = Outstanding(h)
        BY <2>1 DEF Outstanding
    <2> QED  BY <2>1, <2>2 DEF Log!vars, get_latest_policy
<1> QED  BY <1>1, <1>2 DEF Next

\* The handlers implement PolicyLog: every revision is exactly one request applied
\* to the revision just before it, for any number of handlers that race, lose the
\* UNIQUE constraint, retry, give up or are dropped.
THEOREM HistoryIsALog == Spec => RefinesPolicyLog
<1>1. IInv /\ IInv' /\ [Next]_vars => [Log!Next]_(Log!vars)
    BY LogNext
<1> QED  BY <1>1, LogInit, Invariance, PTL DEF Spec, RefinesPolicyLog, Log!Spec

===============================================================================
