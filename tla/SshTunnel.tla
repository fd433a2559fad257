------------------------------ MODULE SshTunnel ------------------------------
(***************************************************************************)
(* SSH sessions and tunnels of the gateway: the session table, the two     *)
(* connection counters and the session reaper                              *)
(* (crates/clustershell-server/src/ssh_tunnel.rs; create_ssh_session,      *)
(* revoke_ssh_session and the session cleanup of delete_sandbox in         *)
(* grpc.rs).  A step is one await or one critical section.                 *)
(***************************************************************************)
EXTENDS Naturals, FiniteSets

CONSTANTS Conns,      \* CONNECT requests in flight or tunnels, numbered
          Tokens,     \* uuids, numbered in the order create_ssh_session draws them
          Sandboxes,
          NoSession, NoToken, NoSandbox,
          MAX_CONNECTIONS_PER_TOKEN,     \* 3 in the code
          MAX_CONNECTIONS_PER_SANDBOX,   \* 20 in the code
          LIST_LIMIT, \* page of the reaper and of the cleanup, 1000 in the code
          Ttl,        \* whether ssh_session_ttl_secs > 0
          MaxInputs   \* bound: requests, drops and restarts, taken together

ASSUME TunnelAssumption ==
    /\ IsFiniteSet(Conns) /\ Conns \subseteq Nat
    /\ Tokens \subseteq Nat
    /\ MAX_CONNECTIONS_PER_TOKEN \in Nat /\ MAX_CONNECTIONS_PER_SANDBOX \in Nat
    /\ LIST_LIMIT \in Nat \ {0} /\ Ttl \in BOOLEAN /\ MaxInputs \in Nat
    /\ NoToken \notin Tokens /\ NoSandbox \notin Sandboxes

\* A stored SshSession, and the created_at_ms of its row.
Session == [sandbox : Sandboxes, revoked : BOOLEAN, at : Nat]

ASSUME NoSessionAssumption == NoSession \notin Session

VARIABLES
    session,        \* the rows of type ssh_session
    sandbox,        \* the phase of each sandbox, as stored
    create,         \* create_ssh_session of each token
    revoke,         \* tokens with a revoke_ssh_session between its get and its put
    cleanup,        \* delete_sandbox of each sandbox
    reaper,         \* the reaper: the sessions it still has to delete
    conn,           \* ssh_connect requests and their tunnels
    by_token,       \* ssh_connections_by_token, 0 for no entry
    by_sandbox,     \* ssh_connections_by_sandbox
    expired,        \* tokens whose expires_at_ms has passed
    clock,          \* time of the last insert
    revoked,        \* history: tokens whose revocation was acknowledged
    inputs

vars == <<session, sandbox, create, revoke, cleanup, reaper, conn, by_token,
          by_sandbox, expired, clock, revoked, inputs>>
store    == <<session, clock>>
handlers == <<create, revoke, cleanup, reaper>>
counts   == <<by_token, by_sandbox>>

Steps == {"session", "sandbox", "token_slot", "sandbox_slot", "rollback", "tunnel",
          "release_token", "release_sandbox"}
\* Between the increment of a counter and its decrement.
HoldsToken   == {"sandbox_slot", "rollback", "tunnel", "release_token"}
HoldsSandbox == {"tunnel", "release_token", "release_sandbox"}

\* late: the request came after the revocation of its token was acknowledged.
Request == [pc : Steps, token : Tokens, sandbox : Sandboxes, late : BOOLEAN]
NoCreate == [pc |-> "none", sandbox |-> NoSandbox]
IdleConn == [pc |-> "idle", token |-> NoToken, sandbox |-> NoSandbox, late |-> FALSE]

TypeOK ==
    /\ session \in [Tokens -> Session \cup {NoSession}]
    /\ sandbox \in [Sandboxes -> {"Ready", "Deleting", "gone"}]
    /\ create \in [Tokens -> [pc : {"put", "done"}, sandbox : Sandboxes] \cup {NoCreate}]
    /\ revoke \in [Tokens -> Session \cup {NoSession}]
    /\ cleanup \in [Sandboxes -> [pc : {"none", "list", "delete"}, todo : SUBSET Tokens]]
    /\ reaper \in [pc : {"idle", "delete"}, todo : SUBSET Tokens]
    /\ conn \in [Conns -> Request \cup {IdleConn}]
    /\ by_token \in [Tokens -> Nat] /\ by_sandbox \in [Sandboxes -> Nat]
    /\ expired \in SUBSET Tokens /\ revoked \in SUBSET Tokens
    /\ clock \in Nat /\ inputs \in Nat

Init ==
    /\ session = [t \in Tokens |-> NoSession]
    /\ sandbox = [s \in Sandboxes |-> "Ready"]
    /\ create = [t \in Tokens |-> NoCreate]
    /\ revoke = [t \in Tokens |-> NoSession]
    /\ cleanup = [s \in Sandboxes |-> [pc |-> "none", todo |-> {}]]
    /\ reaper = [pc |-> "idle", todo |-> {}]
    /\ conn = [c \in Conns |-> IdleConn]
    /\ by_token = [t \in Tokens |-> 0] /\ by_sandbox = [s \in Sandboxes |-> 0]
    /\ expired = {} /\ revoked = {} /\ clock = 0 /\ inputs = 0

Input == inputs < MaxInputs /\ inputs' = inputs + 1

-------------------------------------------------------------------------------
(* The session table. *)

\* An upsert keeps created_at_ms of a row that exists.
put_message(t, m) ==
    LET at == IF session[t] = NoSession THEN clock + 1 ELSE session[t].at IN
    /\ session' = [session EXCEPT ![t] = [m EXCEPT !.at = at]]
    /\ clock' = IF session[t] = NoSession THEN clock + 1 ELSE clock

delete(t) == session' = [session EXCEPT ![t] = NoSession] /\ UNCHANGED clock

\* The oldest rows, at most LIST_LIMIT of them.
Rows == {t \in Tokens : session[t] # NoSession}
list == {t \in Rows : Cardinality({u \in Rows : session[u].at < session[t].at}) < LIST_LIMIT}

-------------------------------------------------------------------------------
(* create_ssh_session and revoke_ssh_session. *)

\* The sandbox is Ready when it is read; the token is fresh.
CreateSshSession(t, s) ==
    /\ create[t].pc = "none" /\ \A u \in Tokens : u < t => create[u].pc # "none"
    /\ sandbox[s] = "Ready"
    /\ Input
    /\ create' = [create EXCEPT ![t] = [pc |-> "put", sandbox |-> s]]
    /\ UNCHANGED <<session, sandbox, revoke, cleanup, reaper, conn, counts, expired, clock, revoked>>

CreatePut(t) ==
    /\ create[t].pc = "put"
    /\ put_message(t, [sandbox |-> create[t].sandbox, revoked |-> FALSE, at |-> 0])
    /\ create' = [create EXCEPT ![t].pc = "done"]
    /\ UNCHANGED <<sandbox, revoke, cleanup, reaper, conn, counts, expired, revoked, inputs>>

\* An unknown token is answered with revoked = false.
RevokeSshSession(t) ==
    /\ session[t] # NoSession
    /\ revoke[t] = NoSession
    /\ Input
    /\ revoke' = [revoke EXCEPT ![t] = session[t]]
    /\ UNCHANGED <<session, sandbox, create, cleanup, reaper, conn, counts, expired, clock, revoked>>

\* The whole message is written back, also when its row is gone by now.
Mutant_FlagNotSet(m) == m
SetRevoked(m) == [m EXCEPT !.revoked = TRUE]

RevokePut(t) ==
    /\ revoke[t] # NoSession
    /\ put_message(t, SetRevoked(revoke[t]))
    /\ revoke' = [revoke EXCEPT ![t] = NoSession]
    /\ revoked' = revoked \cup {t}
    /\ UNCHANGED <<sandbox, create, cleanup, reaper, conn, counts, expired, inputs>>

\* expires_at_ms passes.
Expire(t) ==
    /\ Ttl
    /\ create[t].pc = "done" /\ t \notin expired
    /\ expired' = expired \cup {t}
    /\ UNCHANGED <<store, sandbox, handlers, conn, counts, revoked, inputs>>

-------------------------------------------------------------------------------
(* delete_sandbox: phase Deleting, then the sessions of the sandbox in one    *)
(* page of the table, one by one, then the custom resource and the row.       *)

DeleteSandbox(s) ==
    /\ sandbox[s] # "gone" /\ cleanup[s].pc = "none"
    /\ Input
    /\ sandbox' = [sandbox EXCEPT ![s] = "Deleting"]
    /\ cleanup' = [cleanup EXCEPT ![s].pc = "list"]
    /\ UNCHANGED <<store, create, revoke, reaper, conn, counts, expired, revoked>>

CleanupList(s) ==
    /\ cleanup[s].pc = "list"
    /\ cleanup' = [cleanup EXCEPT ![s] = [pc |-> "delete",
                       todo |-> {t \in list : session[t].sandbox = s}]]
    /\ UNCHANGED <<store, sandbox, create, revoke, reaper, conn, counts, expired, revoked, inputs>>

CleanupDelete(s, t) ==
    /\ cleanup[s].pc = "delete" /\ t \in cleanup[s].todo
    /\ delete(t)
    /\ cleanup' = [cleanup EXCEPT ![s].todo = @ \ {t}]
    /\ UNCHANGED <<sandbox, create, revoke, reaper, conn, counts, expired, revoked, inputs>>

\* When the call to Kubernetes fails the sandbox stays, and the watcher may
\* restore its phase.
CleanupEnd(s) ==
    /\ cleanup[s].pc = "delete" /\ cleanup[s].todo = {}
    /\ cleanup' = [cleanup EXCEPT ![s].pc = "none"]
    /\ \E phase \in {"gone", "Deleting", "Ready"} : sandbox' = [sandbox EXCEPT ![s] = phase]
    /\ UNCHANGED <<store, create, revoke, reaper, conn, counts, expired, revoked, inputs>>

-------------------------------------------------------------------------------
(* reap_expired_sessions. *)

Mutant_ReapRevokedOnly(t) == session[t].revoked
should_delete(t) == t \in expired \/ session[t].revoked

ReaperList ==
    /\ reaper.pc = "idle"
    /\ \E t \in list : should_delete(t)
    /\ reaper' = [pc |-> "delete", todo |-> {t \in list : should_delete(t)}]
    /\ UNCHANGED <<store, sandbox, create, revoke, cleanup, conn, counts, expired, revoked, inputs>>

ReaperDelete(t) ==
    /\ reaper.pc = "delete" /\ t \in reaper.todo
    /\ delete(t)
    /\ reaper' = IF reaper.todo = {t} THEN [pc |-> "idle", todo |-> {}]
                 ELSE [reaper EXCEPT !.todo = @ \ {t}]
    /\ UNCHANGED <<sandbox, create, revoke, cleanup, conn, counts, expired, revoked, inputs>>
-------------------------------------------------------------------------------
(* ssh_connect. *)

Step(c, label) == conn[c].pc = label
Goto(c, label) == conn' = [conn EXCEPT ![c].pc = label]
Respond(c)     == conn' = [conn EXCEPT ![c] = IdleConn]
ConnKeeps      == UNCHANGED <<store, sandbox, handlers, expired, revoked>>

\* CONNECT with the two headers; the client may send any pair.
SshConnect(c, t, s) ==
    /\ Step(c, "idle") /\ \A d \in Conns : d < c => ~Step(d, "idle")
    /\ create[t].pc = "done"
    /\ Input
    /\ conn' = [conn EXCEPT ![c] = [pc |-> "session", token |-> t, sandbox |-> s,
                                    late |-> t \in revoked]]
    /\ UNCHANGED counts /\ ConnKeeps

Admits(c) ==
    LET t == conn[c].token IN
    /\ session[t] # NoSession
    /\ ~session[t].revoked
    /\ session[t].sandbox = conn[c].sandbox
    /\ t \notin expired

CheckSession(c) ==
    /\ Step(c, "session")
    /\ IF Admits(c) THEN Goto(c, "sandbox") ELSE Respond(c)
    /\ UNCHANGED <<counts, inputs>> /\ ConnKeeps

\* The sandbox must be Ready, and its pod must have an address.
CheckSandbox(c) ==
    /\ Step(c, "sandbox")
    /\ \/ sandbox[conn[c].sandbox] = "Ready" /\ Goto(c, "token_slot")
       \/ Respond(c)
    /\ UNCHANGED <<counts, inputs>> /\ ConnKeeps

\* The request is dropped at an await: none lies between the counters.
Drop(c) ==
    /\ conn[c].pc \in {"session", "sandbox"}
    /\ Input
    /\ Respond(c)
    /\ UNCHANGED counts /\ ConnKeeps

decrement(n) == IF n = 0 THEN 0 ELSE n - 1   \* saturating_sub

Mutant_TokenFullLate(t) == by_token[t] > MAX_CONNECTIONS_PER_TOKEN
TokenFull(t)   == by_token[t] >= MAX_CONNECTIONS_PER_TOKEN
SandboxFull(s) == by_sandbox[s] >= MAX_CONNECTIONS_PER_SANDBOX

TakeToken(c) ==
    LET t == conn[c].token IN
    /\ Step(c, "token_slot")
    /\ IF TokenFull(t) THEN Respond(c) /\ UNCHANGED by_token
       ELSE Goto(c, "sandbox_slot") /\ by_token' = [by_token EXCEPT ![t] = @ + 1]
    /\ UNCHANGED <<by_sandbox, inputs>> /\ ConnKeeps

\* The lock of by_sandbox is kept while the token's slot is rolled back.
SandboxLockFree == \A d \in Conns : conn[d].pc # "rollback"

TakeSandbox(c) ==
    LET s == conn[c].sandbox IN
    /\ Step(c, "sandbox_slot") /\ SandboxLockFree
    /\ IF SandboxFull(s) THEN Goto(c, "rollback") /\ UNCHANGED by_sandbox
       ELSE Goto(c, "tunnel") /\ by_sandbox' = [by_sandbox EXCEPT ![s] = @ + 1]
    /\ UNCHANGED <<by_token, inputs>> /\ ConnKeeps

Mutant_NoRollback(c) ==
    /\ Step(c, "rollback")
    /\ Respond(c)
    /\ UNCHANGED <<counts, inputs>> /\ ConnKeeps
Rollback(c) ==
    /\ Step(c, "rollback")
    /\ by_token' = [by_token EXCEPT ![conn[c].token] = decrement(@)]
    /\ Respond(c)
    /\ UNCHANGED <<by_sandbox, inputs>> /\ ConnKeeps

\* The upgrade or handle_tunnel returns, with or without an error.
TunnelEnds(c) ==
    /\ Step(c, "tunnel")
    /\ Goto(c, "release_token")
    /\ UNCHANGED <<counts, inputs>> /\ ConnKeeps

ReleaseToken(c) ==
    /\ Step(c, "release_token")
    /\ by_token' = [by_token EXCEPT ![conn[c].token] = decrement(@)]
    /\ Goto(c, "release_sandbox")
    /\ UNCHANGED <<by_sandbox, inputs>> /\ ConnKeeps

ReleaseSandbox(c) ==
    /\ Step(c, "release_sandbox") /\ SandboxLockFree
    /\ by_sandbox' = [by_sandbox EXCEPT ![conn[c].sandbox] = decrement(@)]
    /\ Respond(c)
    /\ UNCHANGED <<by_token, inputs>> /\ ConnKeeps

\* The process is started again: tunnels, counters and tasks are gone.
GatewayRestart ==
    /\ Input
    /\ conn' = [c \in Conns |-> IdleConn]
    /\ by_token' = [t \in Tokens |-> 0] /\ by_sandbox' = [s \in Sandboxes |-> 0]
    /\ create' = [t \in Tokens |-> IF create[t].pc = "put" THEN [create[t] EXCEPT !.pc = "done"]
                                   ELSE create[t]]
    /\ revoke' = [t \in Tokens |-> NoSession]
    /\ cleanup' = [s \in Sandboxes |-> [pc |-> "none", todo |-> {}]]
    /\ reaper' = [pc |-> "idle", todo |-> {}]
    /\ UNCHANGED <<store, sandbox, expired, revoked>>

-------------------------------------------------------------------------------
Sessions(t) == CreatePut(t) \/ RevokePut(t)
Cleanup(s)  == CleanupList(s) \/ (\E t \in Tokens : CleanupDelete(s, t)) \/ CleanupEnd(s)
Reaper      == ReaperList \/ \E t \in Tokens : ReaperDelete(t)
Connect(c)  == \/ CheckSession(c) \/ CheckSandbox(c) \/ TakeToken(c) \/ TakeSandbox(c)
               \/ Rollback(c) \/ ReleaseToken(c) \/ ReleaseSandbox(c)

Next ==
    \/ \E t \in Tokens : \/ \E s \in Sandboxes : CreateSshSession(t, s)
                         \/ RevokeSshSession(t) \/ Sessions(t) \/ Expire(t)
    \/ \E s \in Sandboxes : DeleteSandbox(s) \/ Cleanup(s)
    \/ Reaper
    \/ \E c \in Conns : \/ \E t \in Tokens, s \in Sandboxes : SshConnect(c, t, s)
                        \/ Connect(c) \/ TunnelEnds(c) \/ Drop(c)
    \/ GatewayRestart

Spec == Init /\ [][Next]_vars

\* The reaper sweeps for ever and time passes; nothing is assumed of the handlers
\* and of the peers.
FairSpec == Spec /\ WF_vars(Reaper) /\ \A t \in Tokens : WF_vars(Expire(t))

-------------------------------------------------------------------------------
(* Properties. *)

TokenHolders(t)   == {c \in Conns : conn[c].pc \in HoldsToken /\ conn[c].token = t}
SandboxHolders(s) == {c \in Conns : conn[c].pc \in HoldsSandbox /\ conn[c].sandbox = s}

\* The two counters of ssh_connect count exactly the requests and tunnels that
\* are between an increment and its decrement: no slot leaks when the second
\* limit refuses a request, when a request is dropped or the gateway restarts,
\* and no saturating decrement hides a double release.
SlotsAccounted ==
    /\ \A t \in Tokens : by_token[t] = Cardinality(TokenHolders(t))
    /\ \A s \in Sandboxes : by_sandbox[s] = Cardinality(SandboxHolders(s))

\* The limits the counters are for: tunnels of one token and of one sandbox.
TunnelLimits ==
    /\ \A t \in Tokens : Cardinality({c \in Conns : conn[c].pc = "tunnel" /\ conn[c].token = t})
                            <= MAX_CONNECTIONS_PER_TOKEN
    /\ \A s \in Sandboxes : Cardinality({c \in Conns : conn[c].pc = "tunnel" /\ conn[c].sandbox = s})
                            <= MAX_CONNECTIONS_PER_SANDBOX

\* A request that comes after revoke_ssh_session answered is never admitted,
\* although the revocation writes back a whole message it read before, races
\* with the reaper and the cleanup, and may re-insert a deleted row.
RevokedNotAdmitted == \A c \in Conns : conn[c].late => conn[c].pc = "session"

\* The reaper leaves no expired or revoked session for ever, whatever is
\* re-inserted behind its back and however long the table is.
StaleSessionsReaped ==
    \A t \in Tokens : (session[t] # NoSession /\ (t \in expired \/ session[t].revoked))
                        ~> session[t] = NoSession
===============================================================================
