---------------------------- MODULE PolicyHandlers ----------------------------
(***************************************************************************)
(* The gateway's gRPC handlers that read and write the policy of ONE       *)
(* sandbox, interleaved at their awaits (crates/clustershell-server/src/   *)
(* grpc.rs):                                                               *)
(*   update_config (sandbox-scoped policy), approve_draft_chunk,           *)
(*   approve_all_draft_chunks, reject_draft_chunk, undo_draft_chunk,       *)
(*   edit_draft_chunk, clear_draft_chunks, submit_policy_analysis,         *)
(*   get_sandbox_config (lazy backfill) and report_policy_status.          *)
(* None of them holds a lock: each store call is one atomic step, and the  *)
(* answer of a read is used after other handlers have run.  Between two    *)
(* steps a handler may be dropped: a client that goes away cancels the     *)
(* handler's future, a store error returns early, the gateway restarts.    *)
(*                                                                         *)
(* A policy keeps what the handlers tell apart: the static domains (the    *)
(* filesystem paths fs, and process and landlock together as ident) and    *)
(* the network grants net.  A grant is a (rule_name, binary) pair, and is  *)
(* identified with the draft chunk that proposes it: rows are unique per   *)
(* (host, port, binary) and the rule name is derived from host and port.   *)
(***************************************************************************)
EXTENDS PolicyStore, FiniteSets

CONSTANTS Handlers,          \* handler futures that may be in flight at once
          Chunks,            \* draft chunks, and the grants they stand for
          Paths, Idents,     \* static policy domains
          NoIdent,           \* no process and landlock section
          SandboxIdent,      \* the identity "sandbox"
          Submitted,         \* the policies that clients pass to update_config
          EditedRules,       \* the rules that clients pass to edit_draft_chunk
          Flagged,           \* chunks with security_notes
          Baselines,         \* spec.policy at creation: policies, NoPolicy
          NoPolicy, NoChunk,
          StoreErrors,       \* whether the best-effort backfill may fail
          Requested,         \* the operations that clients request
          MERGE_RETRY_LIMIT, \* optimistic retries, 5 in the code
          MaxRequests,       \* bound: requests that are issued
          MaxClears          \* bound: clear_draft_chunks calls

Policy == [fs : SUBSET Paths, ident : Idents, net : SUBSET Chunks]

\* ProtoSandboxPolicy::default(): no paths, no process section, no rules.
DefaultPolicy == [fs |-> {}, ident |-> NoIdent, net |-> {}]

\* The operations of the handlers that take more than one step.
Ops == {"none", "set", "approve", "approve_all", "reject", "undo",
        "config", "report"}

ASSUME ConstantsAssumption ==
    /\ NoIdent \in Idents /\ SandboxIdent \in Idents
    /\ Submitted \subseteq Policy
    /\ EditedRules \subseteq SUBSET Chunks
    /\ Flagged \subseteq Chunks
    /\ Baselines \subseteq Policy \cup {NoPolicy}
    /\ NoPolicy \notin Policy
    /\ NoChunk \notin Chunks
    /\ StoreErrors \in BOOLEAN
    /\ Requested \subseteq Ops \ {"none"}
    /\ MERGE_RETRY_LIMIT \in Nat \ {0}
    /\ MaxRequests \in Nat /\ MaxClears \in Nat

VARIABLES
    table,    \* sandbox_policies rows of the sandbox
    rec,      \* its Sandbox message: spec.policy and current_policy_version
    draft,    \* draft_policy_chunks rows; gen tells a row from its successor
    global,   \* the gateway settings hold the reserved key "policy"
    served,   \* get_sandbox_config has given the supervisor a policy
    pc, loc,  \* the step each handler is at, and what it has read
    issued    \* requests issued so far, bounded by MaxRequests

store == <<table, rec, draft, global, served>>
vars  == <<table, rec, draft, global, served, pc, loc, issued>>

SandboxRecord == [policy : Policy \cup {NoPolicy}, version : Nat]

DraftStatus == {"absent", "pending", "approved", "rejected"}
DraftRow    == [gen : Nat, status : DraftStatus, rule : SUBSET Chunks]
Snapshot    == [chunk : Chunks, gen : Nat, rule : SUBSET Chunks]

\* What a handler carries from one await to the next.
Local == [op : Ops,
          policy  : Policy \cup {NoPolicy},       \* request or spec.policy
          new     : Policy \cup {NoPolicy},       \* policy to be persisted
          seen    : SandboxRecord,                \* Sandbox message as read
          chunk   : Chunks \cup {NoChunk},        \* chunk row as read
          gen     : Nat,
          rule    : SUBSET Chunks,
          todo    : SUBSET Snapshot,              \* rest of approve_all
          base    : Nat,                          \* latest version as read
          attempt : Nat,
          version : Nat]                          \* version being reported

NoRecord == [policy |-> NoPolicy, version |-> 0]
NoLocal  == [op |-> "none", policy |-> NoPolicy, new |-> NoPolicy,
             seen |-> NoRecord, chunk |-> NoChunk, gen |-> 0, rule |-> {},
             todo |-> {}, base |-> 0, attempt |-> 0, version |-> 0]

Labels == {"idle", "set_global", "set_backfill", "latest", "put", "supersede",
           "mark", "read_chunk", "list", "reject_global", "cfg_latest",
           "cfg_put", "cfg_loaded", "rep_supersede", "rep_read", "rep_write"}

TypeOK ==
    /\ IsTable(table, Policy)
    /\ rec \in SandboxRecord
    /\ draft \in [Chunks -> DraftRow]
    /\ global \in BOOLEAN /\ served \in BOOLEAN
    /\ pc \in [Handlers -> Labels]
    /\ loc \in [Handlers -> Local]
    /\ issued \in Nat

Init ==
    /\ table = EmptyTable
    /\ rec \in [policy : Baselines, version : {0}]
    /\ draft = [c \in Chunks |-> [gen |-> 0, status |-> "absent", rule |-> {c}]]
    /\ global \in BOOLEAN
    /\ served = FALSE
    /\ pc = [h \in Handlers |-> "idle"]
    /\ loc = [h \in Handlers |-> NoLocal]
    /\ issued = 0

-------------------------------------------------------------------------------
(* Control of a handler. *)

Goto(h, label, l) ==
    /\ pc'  = [pc EXCEPT ![h] = label]
    /\ loc' = [loc EXCEPT ![h] = l]

Return(h) == Goto(h, "idle", NoLocal)

\* A request arrives and is served up to its first store call.
Start(h, label, l) ==
    /\ pc[h] = "idle"
    /\ issued < MaxRequests
    /\ issued' = issued + 1
    /\ Goto(h, label, l)

At(h, label) == pc[h] = label /\ UNCHANGED issued

\* The future of a request is dropped at an await.
Drop(h) ==
    /\ pc[h] # "idle"
    /\ Return(h)
    /\ UNCHANGED <<issued, store>>

-------------------------------------------------------------------------------
(* update_config, sandbox-scoped policy branch. *)

\* A missing process identity becomes "sandbox".
ensure_sandbox_process_identity(p) ==
    IF p.ident = NoIdent THEN [p EXCEPT !.ident = SandboxIdent] ELSE p

\* get_message_by_name: the Sandbox message is read once, at the start.
UpdateConfig(h, p) ==
    /\ Start(h, "set_global",
             [NoLocal EXCEPT !.op = "set", !.seen = rec,
                             !.policy = ensure_sandbox_process_identity(p)])
    /\ UNCHANGED store

Mutant_IdentityNotCompared(base, new) == base.fs \subseteq new.fs

\* validate_static_fields_unchanged: paths may be added, nothing else changes.
StaticFieldsUnchanged(base, new) ==
    base.ident = new.ident /\ base.fs \subseteq new.fs

\* The global policy check, then the validation against the baseline that was
\* read; a sandbox without a baseline goes on to have it backfilled.
SetCheckGlobal(h) ==
    LET l == loc[h] IN
    /\ At(h, "set_global")
    /\ \/ /\ global
          /\ Return(h)
       \/ /\ ~global /\ l.seen.policy = NoPolicy
          /\ Goto(h, "set_backfill", l)
       \/ /\ ~global /\ l.seen.policy # NoPolicy
          /\ IF StaticFieldsUnchanged(l.seen.policy, l.policy)
             THEN Goto(h, "latest", [l EXCEPT !.attempt = 1])
             ELSE Return(h)
    /\ UNCHANGED store

\* put_message of the whole Sandbox message as it was read at the start.
SetBackfill(h) ==
    LET l == loc[h] IN
    /\ At(h, "set_backfill")
    /\ rec' = [l.seen EXCEPT !.policy = l.policy]
    /\ Goto(h, "latest", [l EXCEPT !.attempt = 1])
    /\ UNCHANGED <<table, draft, global, served>>

-------------------------------------------------------------------------------
(* The write of a new revision, shared by update_config,                    *)
(* merge_chunk_into_policy and remove_chunk_from_policy.                     *)

Merges(op)  == op \in {"approve", "approve_all"}
Removes(op) == op \in {"reject", "undo"}

Mutant_ExistingRuleKept(p, rule) ==
    IF p.net = {} THEN [p EXCEPT !.net = rule] ELSE p
Mutant_MergeIntoDefault(p, rule) == [DefaultPolicy EXCEPT !.net = rule]

\* merge_chunk_into_policy: union of the binaries (and endpoints) of the rule.
MergeRule(p, rule) == [p EXCEPT !.net = @ \cup rule]

\* remove_chunk_from_policy: only the binary of the chunk's own column.
RemoveChunk(p, c) == [p EXCEPT !.net = @ \ {c}]

NewPolicy(l, current) ==
    IF l.op = "set" THEN l.policy
    ELSE IF Merges(l.op) THEN MergeRule(current, l.rule)
    ELSE RemoveChunk(current, l.chunk)

\* get_latest_policy.  A submitted policy equal to the latest one is a no-op;
\* a removal without any revision is an error; a merge has neither check.
ReadLatest(h) ==
    LET l       == loc[h]
        n       == get_latest_policy(table)
        current == IF n = 0 THEN DefaultPolicy ELSE table[n].policy
        refused == \/ l.op = "set" /\ n > 0 /\ current = l.policy
                   \/ Removes(l.op) /\ n = 0
    IN  /\ At(h, "latest")
        /\ IF refused
           THEN Return(h)
           ELSE Goto(h, "put",
                     [l EXCEPT !.base = n, !.new = NewPolicy(l, current)])
        /\ UNCHANGED store

Mutant_SkipAVersion(base) == base + 2
\* The version that is written on top of the latest one read.
NextVersion(base) == base + 1

\* put_policy_revision on top of the revision that was read.
PutRevision(h) ==
    LET l == loc[h] IN
    /\ At(h, "put")
    /\ ~VersionTaken(table, NextVersion(l.base))
    /\ table' = put_policy_revision(table, NextVersion(l.base), l.new)
    /\ Goto(h, "supersede", l)
    /\ UNCHANGED <<rec, draft, global, served>>

Mutant_RetryWithoutRead == "put"
\* Where an attempt that lost the race starts again.
RetryFrom == "latest"

Mutant_RetryForever(h) ==
    /\ At(h, "put")
    /\ VersionTaken(table, NextVersion(loc[h].base))
    /\ Goto(h, "put", loc[h])
    /\ UNCHANGED store

\* The UNIQUE constraint fails: update_config returns the error, the merge and
\* remove loops read the latest policy again, up to MERGE_RETRY_LIMIT attempts.
PutConflict(h) ==
    LET l == loc[h] IN
    /\ At(h, "put")
    /\ VersionTaken(table, NextVersion(l.base))
    /\ IF l.op # "set" /\ l.attempt < MERGE_RETRY_LIMIT
       THEN Goto(h, RetryFrom, [l EXCEPT !.attempt = @ + 1])
       ELSE Return(h)
    /\ UNCHANGED store

\* Best effort: the result of supersede_older_policies is ignored, so the call
\* may also have failed.
Supersede(h) ==
    LET l == loc[h] IN
    /\ At(h, "supersede")
    /\ table' \in {supersede_older_policies(table, NextVersion(l.base)), table}
    /\ IF l.op = "set" THEN Return(h) ELSE Goto(h, "mark", l)
    /\ UNCHANGED <<rec, draft, global, served>>

-------------------------------------------------------------------------------
(* approve_draft_chunk, reject_draft_chunk, undo_draft_chunk and               *)
(* approve_all_draft_chunks.                                                   *)

\* require_no_global_policy is the first call: under a global policy the
\* request is refused and nothing changes.
ApproveDraftChunk(h, c) ==
    /\ ~global
    /\ Start(h, "read_chunk", [NoLocal EXCEPT !.op = "approve", !.chunk = c])
    /\ UNCHANGED store

RejectDraftChunk(h, c) ==
    /\ Start(h, "read_chunk", [NoLocal EXCEPT !.op = "reject", !.chunk = c])
    /\ UNCHANGED store

UndoDraftChunk(h, c) ==
    /\ Start(h, "read_chunk", [NoLocal EXCEPT !.op = "undo", !.chunk = c])
    /\ UNCHANGED store

\* The statuses from which each request is accepted.
AcceptedFrom(op) ==
    CASE op = "approve" -> {"pending", "rejected"}
      [] op = "reject"  -> {"pending", "approved"}
      [] OTHER          -> {"approved"}

\* get_draft_chunk and the check of its status.  Rejecting a pending chunk
\* touches no policy; rejecting an approved one revokes it.
ReadChunk(h) ==
    LET l   == loc[h]
        row == draft[l.chunk]
        got == [l EXCEPT !.gen = row.gen, !.rule = row.rule, !.attempt = 1]
    IN  /\ At(h, "read_chunk")
        /\ IF row.status \notin AcceptedFrom(l.op) THEN Return(h)
           ELSE IF l.op # "reject" THEN Goto(h, "latest", got)
           ELSE IF row.status = "approved" THEN Goto(h, "reject_global", got)
           ELSE Goto(h, "mark", got)
        /\ UNCHANGED store

\* require_no_global_policy, on the revoke path only.
RejectCheckGlobal(h) ==
    /\ At(h, "reject_global")
    /\ IF global THEN Return(h) ELSE Goto(h, "latest", loc[h])
    /\ UNCHANGED store

Mutant_RevokedStatus(op) ==
    CASE Merges(op) -> "approved" [] op = "reject" -> "revoked"
      [] OTHER -> "pending"
\* The status a decided chunk gets.
MarkedStatus(op) ==
    CASE Merges(op) -> "approved" [] op = "reject" -> "rejected"
      [] OTHER -> "pending"

\* UPDATE ... WHERE id = ?: no effect on a row that was cleared meanwhile.
update_draft_chunk_status(d, c, gen, status) ==
    IF d[c].gen = gen /\ d[c].status # "absent"
    THEN [d EXCEPT ![c].status = status] ELSE d

\* The next chunk of an approve_all, with the row as it was listed.
NextChunk(h, l) ==
    IF l.todo = {} THEN Return(h)
    ELSE \E s \in l.todo :
            Goto(h, "latest", [l EXCEPT !.chunk = s.chunk, !.gen = s.gen,
                                        !.rule = s.rule, !.attempt = 1,
                                        !.todo = @ \ {s}])

MarkChunk(h) ==
    LET l == loc[h] IN
    /\ At(h, "mark")
    /\ draft' = update_draft_chunk_status(draft, l.chunk, l.gen,
                                          MarkedStatus(l.op))
    /\ NextChunk(h, l)
    /\ UNCHANGED <<table, rec, global, served>>

ApproveAllDraftChunks(h) ==
    /\ ~global
    /\ Start(h, "list", [NoLocal EXCEPT !.op = "approve_all"])
    /\ UNCHANGED store

\* list_draft_chunks(pending); flagged chunks are skipped unless the request
\* includes them.  The rows are used as they were listed.
ListPending(h) ==
    /\ At(h, "list")
    /\ \E include_security_flagged \in BOOLEAN :
          LET chosen == {c \in Chunks : /\ draft[c].status = "pending"
                                        /\ include_security_flagged \/ c \notin Flagged}
          IN  NextChunk(h, [loc[h] EXCEPT !.todo =
                  {[chunk |-> c, gen |-> draft[c].gen, rule |-> draft[c].rule] :
                      c \in chosen}])
    /\ UNCHANGED store

\* put_draft_chunk: a chunk that has a row only counts one more hit.  The
\* proxy proposes chunks only once load_policy has got a policy.
SubmitPolicyAnalysis(c) ==
    /\ served
    /\ draft[c].status = "absent"
    /\ draft' = [draft EXCEPT ![c].status = "pending", ![c].rule = {c}]
    /\ UNCHANGED <<table, rec, global, served, pc, loc, issued>>

\* update_draft_chunk_rule only touches a pending row.
EditDraftChunk(c, rule) ==
    /\ draft[c].status = "pending"
    /\ draft' = [draft EXCEPT ![c].rule = rule]
    /\ UNCHANGED <<table, rec, global, served, pc, loc, issued>>

\* delete_draft_chunks(pending): a later proposal gets a new row.
ClearDraftChunks ==
    /\ \E c \in Chunks : draft[c].status = "pending" /\ draft[c].gen < MaxClears
    /\ draft' = [c \in Chunks |->
                    IF draft[c].status = "pending"
                    THEN [gen |-> draft[c].gen + 1, status |-> "absent", rule |-> {c}]
                    ELSE draft[c]]
    /\ UNCHANGED <<table, rec, global, served, pc, loc, issued>>

-------------------------------------------------------------------------------
(* get_sandbox_config: the supervisor's fetch and poll.                        *)

GetSandboxConfig(h) ==
    /\ Start(h, "cfg_latest",
             [NoLocal EXCEPT !.op = "config", !.policy = rec.policy])
    /\ UNCHANGED store

\* A revision exists: it is served.  None does: spec.policy, as it was read,
\* is served and backfilled as version 1; without one only a global policy is.
ConfigReadLatest(h) ==
    LET l == loc[h] IN
    /\ At(h, "cfg_latest")
    /\ IF DOMAIN table = {} /\ l.policy # NoPolicy
       THEN Goto(h, "cfg_put", l) /\ UNCHANGED served
       ELSE Return(h) /\ served' = (served \/ DOMAIN table # {} \/ global)
    /\ UNCHANGED <<table, rec, draft, global>>

\* Best effort: on a conflict, or any other error of the store, the policy of
\* the spec is served all the same.
ConfigBackfill(h) ==
    LET l == loc[h] IN
    /\ At(h, "cfg_put")
    /\ \/ /\ VersionTaken(table, 1) \/ StoreErrors
          /\ Return(h)
          /\ served' = TRUE
          /\ UNCHANGED table
       \/ /\ ~VersionTaken(table, 1)
          /\ table' = put_policy_revision(table, 1, l.policy)
          /\ Goto(h, "cfg_loaded", l)
          /\ UNCHANGED served
    /\ UNCHANGED <<rec, draft, global>>

\* update_policy_status(1, "loaded"), best effort as well.
ConfigMarkLoaded(h) ==
    /\ At(h, "cfg_loaded")
    /\ table' \in {update_policy_status(table, 1, "loaded"), table}
    /\ served' = TRUE
    /\ Return(h)
    /\ UNCHANGED <<rec, draft, global>>

-------------------------------------------------------------------------------
(* report_policy_status.  A report is about a revision that was once the       *)
(* latest, but may arrive at any later time.                                   *)

ReportPolicyStatus(h, v, status) ==
    /\ served
    /\ table' = update_policy_status(table, v, status)
    /\ Start(h, IF status = "loaded" THEN "rep_supersede" ELSE "idle",
             IF status = "loaded"
             THEN [NoLocal EXCEPT !.op = "report", !.version = v] ELSE NoLocal)
    /\ UNCHANGED <<rec, draft, global, served>>

ReportSupersede(h) ==
    LET l == loc[h] IN
    /\ At(h, "rep_supersede")
    /\ table' \in {supersede_older_policies(table, l.version), table}
    /\ Goto(h, "rep_read", l)
    /\ UNCHANGED <<rec, draft, global, served>>

ReportReadSandbox(h) ==
    /\ At(h, "rep_read")
    /\ Goto(h, "rep_write", [loc[h] EXCEPT !.seen = rec])
    /\ UNCHANGED store

\* put_message of the whole Sandbox message as it was read.
ReportWriteSandbox(h) ==
    LET l == loc[h] IN
    /\ At(h, "rep_write")
    /\ rec' = [l.seen EXCEPT !.version = l.version]
    /\ Return(h)
    /\ UNCHANGED <<table, draft, global, served>>

-------------------------------------------------------------------------------
\* update_config with global: true sets or deletes the reserved key.
GlobalPolicyChanges ==
    /\ global' = ~global
    /\ UNCHANGED <<table, rec, draft, served, pc, loc, issued>>

Request(h) ==
    \/ /\ "set" \in Requested
       /\ \E p \in Submitted : UpdateConfig(h, p)
    \/ /\ "approve" \in Requested
       /\ \E c \in Chunks : ApproveDraftChunk(h, c)
    \/ /\ "reject" \in Requested
       /\ \E c \in Chunks : RejectDraftChunk(h, c)
    \/ /\ "undo" \in Requested
       /\ \E c \in Chunks : UndoDraftChunk(h, c)
    \/ /\ "approve_all" \in Requested
       /\ ApproveAllDraftChunks(h)
    \/ /\ "config" \in Requested
       /\ GetSandboxConfig(h)
    \/ /\ "report" \in Requested
       /\ \E v \in DOMAIN table, s \in {"loaded", "failed"} :
             ReportPolicyStatus(h, v, s)

Step(h) ==
    \/ SetCheckGlobal(h) \/ SetBackfill(h)
    \/ ReadLatest(h) \/ PutRevision(h) \/ PutConflict(h) \/ Supersede(h)
    \/ ReadChunk(h) \/ RejectCheckGlobal(h) \/ MarkChunk(h) \/ ListPending(h)
    \/ ConfigReadLatest(h) \/ ConfigBackfill(h) \/ ConfigMarkLoaded(h)
    \/ ReportSupersede(h) \/ ReportReadSandbox(h) \/ ReportWriteSandbox(h)

Drafts ==
    \/ \E c \in Chunks : \/ SubmitPolicyAnalysis(c)
                         \/ \E r \in EditedRules : EditDraftChunk(c, r)
    \/ ClearDraftChunks

Next ==
    \/ \E h \in Handlers : Request(h) \/ Step(h) \/ Drop(h)
    \/ Drafts
    \/ GlobalPolicyChanges

Spec == Init /\ [][Next]_vars

\* tokio polls every ready task: a handler that is not dropped goes on.
FairSpec == Spec /\ \A h \in Handlers : WF_vars(Step(h))

-------------------------------------------------------------------------------
(* Properties. *)

\* The UNIQUE constraint and "latest + 1" together number the revisions 1, 2, 3
\* and so on without a gap, whatever handlers race, give up or are dropped.
VersionsContiguous == DOMAIN table = 1 .. get_latest_policy(table)

\* supersede_older_policies never reaches the revision that get_sandbox_config
\* serves, however late a report or the second half of an update runs.
LatestNotSuperseded ==
    DOMAIN table # {} => table[get_latest_policy(table)].status # "superseded"

\* current_policy_version is 0 or a revision the sandbox has reported on: no
\* interleaving of whole-message writes invents a version or runs ahead of a
\* revision that is still pending.
CurrentVersionSettled ==
    rec.version > 0 =>
        /\ rec.version \in DOMAIN table
        /\ table[rec.version].status # "pending"

\* Every retry of the optimistic loops of merge_chunk_into_policy and
\* remove_chunk_from_policy starts from a newer revision than the attempt that
\* lost, so a request gives up only after others have made that many writes: base
\* is the revision of the last attempt until the next one sets it.
RetryMakesProgress ==
    [][\A h \in Handlers :
          /\ pc'[h] = "put" /\ loc'[h] # loc[h]
          /\ loc'[h].attempt > 1
          => loc'[h].base > loc[h].base]_vars

\* A chunk is marked approved (or reverted to pending by an undo) only when the
\* revision this very request persisted has (or has not) its grant.
DecisionPersistedBeforeMark ==
    \A h \in Handlers :
        LET l == loc[h] IN
        pc[h] = "mark" /\ l.op # "reject" =>
            /\ l.base + 1 \in DOMAIN table
            /\ IF Merges(l.op) THEN l.rule \subseteq table[l.base + 1].policy.net
               ELSE l.chunk \notin table[l.base + 1].policy.net

\* The static domains of every revision are those of the baseline, paths added
\* (architecture/security-policy.md: static fields are "immutable after sandbox
\* creation").
StaticFieldsHeld ==
    rec.policy # NoPolicy =>
        \A v \in DOMAIN table : /\ table[v].policy.ident = rec.policy.ident
                                /\ rec.policy.fs \subseteq table[v].policy.fs

\* The request a handler still has to turn into a revision.
NoRequest == [kind |-> "none"]

Outstanding(h) ==
    LET l == loc[h] IN
    CASE pc[h] = "cfg_put" -> [kind |-> "backfill", policy |-> l.policy]
      [] pc[h] \in {"latest", "put"} /\ l.op = "set" ->
            [kind |-> "set", policy |-> l.policy]
      [] pc[h] \in {"latest", "put"} /\ Merges(l.op) ->
            [kind |-> "merge", rule |-> l.rule]
      [] pc[h] \in {"latest", "put"} /\ Removes(l.op) ->
            [kind |-> "remove", chunk |-> l.chunk]
      [] OTHER -> NoRequest

AnyRequest ==
    [kind : {"set", "backfill"}, policy : Policy]
        \cup [kind : {"merge"}, rule : SUBSET Chunks]
        \cup [kind : {"remove"}, chunk : Chunks]

Log == INSTANCE PolicyLog WITH
    Writer      <- Handlers,
    Requests    <- AnyRequest,
    NoRequest   <- NoRequest,
    EmptyPolicy <- DefaultPolicy,
    size        <- get_latest_policy(table),
    log         <- [v \in DOMAIN table |-> table[v].policy],
    req         <- [h \in Handlers |-> Outstanding(h)]

\* The history is an append-only log in which every revision is exactly one
\* outstanding request applied to the revision just before it: no approval is
\* lost under a concurrent update, and no stored payload is ever rewritten.
RefinesPolicyLog == Log!Spec

\* Every request that is not dropped is answered: the retry loops end.
HandlerReturns == \A h \in Handlers : pc[h] # "idle" ~> pc[h] = "idle"

\* A chunk shown as rejected is not granted by the policy that is served, once
\* no handler is at work (architecture/policy-advisor.md: revoking a chunk
\* removes its binary from the policy, rejecting one leaves the policy alone).
RejectedNotGranted ==
    (\A h \in Handlers : pc[h] = "idle") =>
        \A c \in Chunks :
            draft[c].status = "rejected" /\ DOMAIN table # {} =>
                c \notin table[get_latest_policy(table)].policy.net

===============================================================================
