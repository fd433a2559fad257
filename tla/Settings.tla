------------------------------ MODULE Settings ------------------------------
(***************************************************************************)
(* The settings half of update_config and of get_sandbox_config: one blob  *)
(* of global settings (the global policy is its reserved key), one blob    *)
(* per sandbox, and the revisions of the global policy kept beside them.   *)
(* Writers hold settings_mutex, readers hold nothing, and a request can be *)
(* dropped or meet a store error at every await.                           *)
(***************************************************************************)
EXTENDS Naturals, Sequences, FiniteSets, TLC

CONSTANTS Calls,      \* concurrent requests
          None,       \* no value
          Registered, \* REGISTERED_SETTINGS: key -> kind
          Unknown,    \* keys that are not registered
          Policies,   \* global policies
          Values,     \* kind -> values of that kind a request may carry
          Names,      \* sandbox names
          MaxSandbox, \* sandboxes created in a behaviour
          MaxRequests \* requests begun in a behaviour

ASSUME SettingsAssumption ==
    /\ MaxSandbox \in Nat /\ MaxRequests \in Nat
    /\ Unknown \cap DOMAIN Registered = {} /\ "policy" \notin DOMAIN Registered \cup Unknown

VARIABLES global,   \* the gateway_settings row
          gpol,     \* revisions of __global__: Seq [policy, status]
          names,    \* name -> id of its sandbox, 0 if none
          rows,     \* id -> its sandbox_settings row
          mutex,    \* the call that holds settings_mutex
          calls,    \* call -> its progress
          begun,    \* requests begun so far
          created,  \* sandboxes created so far
          deleting, \* ids whose deletion has removed the settings row
          seen      \* history: reader -> effective settings since its first read

vars == <<global, gpol, names, rows, mutex, calls, begun, created, deleting, seen>>

PolicyKey == "policy"
Keys == DOMAIN Registered \cup {PolicyKey}
NoSettings == [k \in Keys |-> None]
Absent == [name |-> None, settings |-> NoSettings, revision |-> 0]
Ids == 1..MaxSandbox
Idle == [pc |-> "idle"]
NoCall == "no call"

ASSUME NoCallAssumption == NoCall \notin Calls

Init ==
    /\ global = Absent
    /\ gpol = <<>>
    /\ names = [n \in Names |-> 0]
    /\ rows = [i \in Ids |-> Absent]
    /\ mutex = NoCall
    /\ calls = [c \in Calls |-> Idle]
    /\ begun = 0 /\ created = 0 /\ deleting = {}
    /\ seen = [c \in Calls |-> {}]

-----------------------------------------------------------------------------
\* sandbox_settings has UNIQUE (object_type, name) and an upsert by id only.
NameTaken(id, name) == \E i \in Ids \ {id} : rows[i].name = name

\* proto_setting_to_stored: the registered kind, or an error.
Accepted(key, value) == key \in DOMAIN Registered /\ Registered[key] = value.kind

\* upsert_setting_value and remove: the blob and whether it changed.
Upsert(blob, key, value) ==
    IF blob.settings[key] = value THEN blob
    ELSE [blob EXCEPT !.settings[key] = value, !.revision = @ + 1]

\* merge_effective_settings: every registered key, global before sandbox.
Effective(g, s) ==
    [k \in DOMAIN Registered |->
        IF g.settings[k] # None THEN [scope |-> "global", value |-> g.settings[k]]
        ELSE IF s.settings[k] # None THEN [scope |-> "sandbox", value |-> s.settings[k]]
        ELSE [scope |-> "unspecified", value |-> None]]

At(c, pc) == calls[c].pc = pc
Goto(c, pc) == calls' = [calls EXCEPT ![c].pc = pc]
Reply(c, what) == calls' = [calls EXCEPT ![c] = [@ EXCEPT !.pc = "replied", !.reply = what]]

-----------------------------------------------------------------------------
(* update_config.                                                          *)

Request(kind, scope, name, key, value) ==
    [pc |-> "begin", kind |-> kind, scope |-> scope, name |-> name, key |-> key,
     value |-> value, id |-> 0, latest |-> 0, blob |-> Absent, own |-> Absent,
     reply |-> None]

Requests ==
    {Request("policy", "global", None, PolicyKey, p) : p \in Policies}
    \cup {Request("set", s, n, k, v) : s \in {"global", "sandbox"}, n \in Names,
              k \in Keys \cup Unknown, v \in UNION {Values[t] : t \in DOMAIN Values}}
    \cup {Request("delete", s, n, k, None) : s \in {"global", "sandbox"}, n \in Names,
              k \in Keys \cup Unknown}
    \cup {Request("read", "sandbox", n, None, None) : n \in Names}

\* The checks that need no row.  The reserved key is set by a policy payload
\* and may be deleted globally.  The delete of an unknown key is refused
\* globally and removes nothing in a sandbox.
Malformed(r) ==
    \/ r.kind = "set" /\ ~Accepted(r.key, r.value)
    \/ r.kind = "delete" /\ r.scope = "sandbox" /\ r.key = PolicyKey
    \/ r.kind = "delete" /\ r.key \in Unknown

Begin(c) ==
    /\ At(c, "idle") /\ begun < MaxRequests
    /\ begun' = begun + 1
    /\ \E r \in {q \in Requests : ~Malformed(q)} :
          \/ /\ r.kind = "read" /\ names[r.name] # 0
             /\ calls' = [calls EXCEPT ![c] = [r EXCEPT !.pc = "readGlobal", !.id = names[r.name]]]
          \/ /\ r.kind # "read"
             /\ calls' = [calls EXCEPT ![c] =
                    [r EXCEPT !.pc = IF r.scope = "sandbox" THEN "resolve" ELSE "lock"]]
    /\ UNCHANGED <<global, gpol, names, rows, mutex, created, deleting>>

\* get_message_by_name, before the mutex is taken.
ResolveSandbox(c) ==
    /\ At(c, "resolve")
    /\ IF names[calls[c].name] = 0
       THEN Reply(c, "not_found")
       ELSE calls' = [calls EXCEPT ![c].pc = "lock", ![c].id = names[calls[c].name]]
    /\ UNCHANGED <<global, gpol, names, rows, mutex, begun, created, deleting>>

\* Mutant of Lock: nobody waits.
Mutant_NoMutex(c) ==
    /\ At(c, "lock") /\ mutex' = mutex
    /\ Goto(c, IF calls[c].kind = "policy" THEN "latest" ELSE "load")
    /\ UNCHANGED <<global, gpol, names, rows, begun, created, deleting>>

Lock(c) ==
    /\ At(c, "lock") /\ mutex = NoCall
    /\ mutex' = c
    /\ Goto(c, IF calls[c].kind = "policy" THEN "latest" ELSE "load")
    /\ UNCHANGED <<global, gpol, names, rows, begun, created, deleting>>

Unlocked(c) == mutex' = IF mutex = c THEN NoCall ELSE mutex

\* Mutant of Latest: a repeated policy is answered without looking at the blob.
Mutant_DedupOnly(c) ==
    /\ At(c, "latest")
    /\ LET n == Len(gpol)
           dup == n > 0 /\ gpol[n].policy = calls[c].value /\ gpol[n].status = "loaded"
       IN IF dup THEN Reply(c, "ok") /\ Unlocked(c)
          ELSE Goto(c, "put") /\ UNCHANGED mutex
    /\ UNCHANGED <<global, gpol, names, rows, begun, created, deleting>>

\* A policy equal to the latest loaded revision gets no new one, but the blob
\* is still made to carry it.
Latest(c) ==
    /\ At(c, "latest")
    /\ LET n == Len(gpol)
           dup == n > 0 /\ gpol[n].policy = calls[c].value /\ gpol[n].status = "loaded"
       IN Goto(c, IF dup THEN "load" ELSE "put")
    /\ UNCHANGED <<global, gpol, names, rows, mutex, begun, created, deleting>>

PutGlobalRevision(c) ==
    /\ At(c, "put")
    /\ gpol' = Append(gpol, [policy |-> calls[c].value, status |-> "pending"])
    /\ calls' = [calls EXCEPT ![c].pc = "mark", ![c].latest = Len(gpol) + 1]
    /\ UNCHANGED <<global, names, rows, mutex, begun, created, deleting>>

\* update_policy_status and supersede_older_policies; the result of both is
\* ignored, so each may silently not happen.
Superseded(from) ==
    [i \in 1..Len(gpol) |->
        IF i < from /\ gpol[i].status \in {"pending", "loaded"}
        THEN [gpol[i] EXCEPT !.status = "superseded"] ELSE gpol[i]]

MarkGlobalLoaded(c) ==
    /\ At(c, "mark")
    /\ \/ gpol' = [gpol EXCEPT ![calls[c].latest].status = "loaded"]
       \/ UNCHANGED gpol
    /\ Goto(c, "supersede")
    /\ UNCHANGED <<global, names, rows, mutex, begun, created, deleting>>

SupersedeGlobal(c) ==
    /\ At(c, "supersede")
    /\ gpol' \in {gpol, Superseded(calls[c].latest)}
    /\ Goto(c, "load")
    /\ UNCHANGED <<global, names, rows, mutex, begun, created, deleting>>

\* Mutant of LoadGlobal: a sandbox request ignores that the key is managed
\* globally.
Mutant_NoPrecedence(c) ==
    /\ At(c, "load")
    /\ IF calls[c].scope = "sandbox" THEN Goto(c, "loadOwn")
       ELSE calls' = [calls EXCEPT ![c].blob = Upsert(global, calls[c].key, calls[c].value),
                                   ![c].pc = "save"]
    /\ UNCHANGED <<global, gpol, names, rows, mutex, begun, created, deleting>>

\* load_global_settings.  A sandbox request is refused here when the key is
\* managed globally.
LoadGlobal(c) ==
    /\ At(c, "load")
    /\ LET r == calls[c]
       IN CASE r.scope = "sandbox" /\ global.settings[r.key] # None ->
                 Reply(c, "managed globally") /\ Unlocked(c)
            [] r.scope = "sandbox" /\ global.settings[r.key] = None ->
                 Goto(c, "loadOwn") /\ UNCHANGED mutex
            [] OTHER -> /\ calls' = [calls EXCEPT
                              ![c].blob = Upsert(global, r.key, r.value),
                              ![c].pc = IF r.kind = "delete" /\ r.key = PolicyKey
                                           /\ global.settings[PolicyKey] # None
                                        THEN "supersedeAll" ELSE "save"]
                        /\ UNCHANGED mutex
    /\ UNCHANGED <<global, gpol, names, rows, begun, created, deleting>>

\* Deleting the global policy supersedes every revision, before the save; the
\* errors of both statements are ignored.
SupersedeAll(c) ==
    /\ At(c, "supersedeAll")
    /\ gpol' \in {gpol, Superseded(Len(gpol) + 1)}
    /\ Goto(c, "save")
    /\ UNCHANGED <<global, names, rows, mutex, begun, created, deleting>>

\* save_global_settings, only when something changed; the guard is released
\* with the answer.
SaveGlobal(c) ==
    /\ At(c, "save")
    /\ global' = IF calls[c].blob.revision # global.revision THEN calls[c].blob ELSE global
    /\ Reply(c, "ok") /\ Unlocked(c)
    /\ UNCHANGED <<gpol, names, rows, begun, created, deleting>>

LoadSandbox(c) ==
    /\ At(c, "loadOwn")
    /\ calls' = [calls EXCEPT ![c].pc = "saveOwn",
                              ![c].own = Upsert(rows[calls[c].id], calls[c].key, calls[c].value)]
    /\ UNCHANGED <<global, gpol, names, rows, mutex, begun, created, deleting>>

\* save_sandbox_settings: an insert under a name another row holds is refused.
SaveSandbox(c) ==
    LET r == calls[c]
        changed == r.own.revision # rows[r.id].revision
    IN /\ At(c, "saveOwn")
       /\ IF changed /\ NameTaken(r.id, r.name)
          THEN Reply(c, "persist settings failed") /\ UNCHANGED rows
          ELSE /\ rows' = IF changed THEN [rows EXCEPT ![r.id] = [r.own EXCEPT !.name = r.name]]
                          ELSE rows
               /\ Reply(c, "ok")
       /\ Unlocked(c)
       /\ UNCHANGED <<global, gpol, names, begun, created, deleting>>

-----------------------------------------------------------------------------
(* get_sandbox_config: two reads and the lookup of the global version.      *)

ReadGlobal(c) ==
    /\ At(c, "readGlobal")
    /\ calls' = [calls EXCEPT ![c].pc = "readOwn", ![c].blob = global]
    /\ UNCHANGED <<global, gpol, names, rows, mutex, begun, created, deleting>>

ReadOwn(c) ==
    /\ At(c, "readOwn")
    /\ calls' = [calls EXCEPT ![c].own = rows[calls[c].id],
                              ![c].pc = IF calls[c].blob.settings[PolicyKey] = None
                                        THEN "answer" ELSE "readVersion"]
    /\ UNCHANGED <<global, gpol, names, rows, mutex, begun, created, deleting>>

\* global_policy_version is the latest revision, read separately; an error
\* leaves it 0.
ReadVersion(c) ==
    /\ At(c, "readVersion")
    /\ \E v \in {0, Len(gpol)} : calls' = [calls EXCEPT ![c].pc = "answer", ![c].latest = v]
    /\ UNCHANGED <<global, gpol, names, rows, mutex, begun, created, deleting>>

-----------------------------------------------------------------------------
(* The end of a call, and the sandboxes.                                   *)

\* A dropped request or a store error: the guard is dropped with the future.
Fail(c) ==
    /\ calls[c].pc \notin {"idle", "replied", "answer"}
    /\ calls' = [calls EXCEPT ![c] = Idle]
    /\ Unlocked(c)
    /\ UNCHANGED <<global, gpol, names, rows, begun, created, deleting>>

Done(c) ==
    /\ calls[c].pc \in {"replied", "answer"}
    /\ calls' = [calls EXCEPT ![c] = Idle]
    /\ UNCHANGED <<global, gpol, names, rows, mutex, begun, created, deleting>>

\* create_sandbox, as far as names go (module SandboxLifecycle has the rest).
CreateSandbox(n) ==
    /\ names[n] = 0 /\ created < MaxSandbox
    /\ created' = created + 1
    /\ names' = [names EXCEPT ![n] = created + 1]
    /\ UNCHANGED <<global, gpol, rows, mutex, calls, begun, deleting>>

\* delete_sandbox removes the settings row, without the mutex ...
DeleteSettings(n) ==
    /\ names[n] # 0
    /\ rows' = [rows EXCEPT ![names[n]] = Absent]
    /\ deleting' = deleting \cup {names[n]}
    /\ UNCHANGED <<global, gpol, names, mutex, calls, begun, created>>

\* ... and the record goes later, or alone when the resource was deleted in
\* Kubernetes.
ForgetSandbox(n) ==
    /\ names[n] # 0
    /\ names' = [names EXCEPT ![n] = 0]
    /\ UNCHANGED <<global, gpol, rows, mutex, calls, begun, created, deleting>>

-----------------------------------------------------------------------------
CallStep(c) ==
    \/ Begin(c) \/ ResolveSandbox(c) \/ Lock(c) \/ Latest(c) \/ PutGlobalRevision(c)
    \/ MarkGlobalLoaded(c) \/ SupersedeGlobal(c) \/ LoadGlobal(c) \/ SupersedeAll(c)
    \/ SaveGlobal(c) \/ LoadSandbox(c) \/ SaveSandbox(c)
    \/ ReadGlobal(c) \/ ReadOwn(c) \/ ReadVersion(c) \/ Fail(c) \/ Done(c)

InForce(c) == Effective(global, rows[calls[c].id])
Reading(c) == calls[c].pc \in {"readOwn", "readVersion", "answer"}

Next ==
    /\ \/ \E c \in Calls : CallStep(c)
       \/ \E n \in Names : CreateSandbox(n) \/ DeleteSettings(n) \/ ForgetSandbox(n)
    /\ seen' = [c \in Calls |->
                  IF Reading(c)' THEN seen[c] \cup {InForce(c)'} ELSE {}]

Spec == Init /\ [][Next]_vars

-----------------------------------------------------------------------------
\* Global settings are read, changed and written back by concurrent requests:
\* every write of the row counts its revision up by one and changes one key,
\* so no acknowledged change is overwritten.
NoLostUpdate ==
    [][global' # global =>
         /\ global'.revision = global.revision + 1
         /\ Cardinality({k \in Keys : global'.settings[k] # global.settings[k]}) = 1]_vars

\* The revision table and the blob are written separately, and a request can
\* stop between the two: when a set of the global policy is acknowledged, the
\* blob that sandboxes poll carries that policy, on the deduplicated path too.
SetPolicyInForce ==
    [][\A c \in Calls :
          (calls[c].pc # "replied" /\ calls'[c].pc = "replied"
             /\ calls'[c].kind = "policy" /\ calls'[c].reply = "ok")
          => global'.settings[PolicyKey] = calls'[c].value]_vars

\* get_sandbox_config reads two rows without a lock.  Because a sandbox key
\* cannot change while it is managed globally, every value it answers was in
\* force at some moment between its first read and its answer, unless the
\* sandbox is being deleted.
EffectiveValueWasInForce ==
    \A c \in Calls : At(c, "answer") /\ calls[c].id \notin deleting =>
        \A k \in DOMAIN Registered :
            Effective(calls[c].blob, calls[c].own)[k] \in {e[k] : e \in seen[c]}

=============================================================================
