--------------------------- MODULE SshTunnelProofs ---------------------------
(***************************************************************************)
(* The counters and the revocations of SshTunnel, for any number of        *)
(* connections, tokens and sandboxes and any limits.                       *)
(***************************************************************************)
EXTENDS SshTunnel, FiniteSetTheorems, TLAPS

\* The steps of ssh_connect, which leave the session table and its tasks alone.
ConnStep(c) ==
    \/ \E t \in Tokens, s \in Sandboxes : SshConnect(c, t, s)
    \/ Connect(c) \/ TunnelEnds(c) \/ Drop(c)

\* The steps on the session table, which leave the connections alone.
SessionStep ==
    \/ \E t \in Tokens : \/ \E s \in Sandboxes : CreateSshSession(t, s)
                         \/ RevokeSshSession(t) \/ Sessions(t) \/ Expire(t)
    \/ \E s \in Sandboxes : DeleteSandbox(s) \/ Cleanup(s)
    \/ Reaper

\* Every step is of one of the three kinds.
LEMMA NextSplit ==
    Next <=> SessionStep \/ (\E c \in Conns : ConnStep(c)) \/ GatewayRestart
BY DEF Next, SessionStep, ConnStep

-------------------------------------------------------------------------------
(* Types. *)

\* What put_message stores is a session.
LEMMA PutType ==
    ASSUME TypeOK, NEW t \in Tokens, NEW m \in Session, put_message(t, m)
    PROVE  /\ session' \in [Tokens -> Session \cup {NoSession}]
           /\ clock' \in Nat
           /\ session' = [session EXCEPT ![t] = session'[t]]
           /\ session'[t] \in Session
           /\ session'[t].revoked = m.revoked
<1> DEFINE at == IF session[t] = NoSession THEN clock + 1 ELSE session[t].at
<1>1. session[t] \in Session \cup {NoSession} BY DEF TypeOK
<1>2. at \in Nat BY <1>1 DEF TypeOK, Session
<1>3. [m EXCEPT !.at = at] \in Session /\ [m EXCEPT !.at = at].revoked = m.revoked
  BY <1>2 DEF Session
<1>4. session' = [session EXCEPT ![t] = [m EXCEPT !.at = at]] BY DEF put_message
<1>5. clock' \in Nat BY DEF put_message, TypeOK
<1> QED BY <1>3, <1>4, <1>5 DEF TypeOK

\* Deleting a row.
LEMMA DeleteType ==
    ASSUME TypeOK, NEW t \in Tokens, delete(t)
    PROVE  /\ session' \in [Tokens -> Session \cup {NoSession}]
           /\ clock' \in Nat
           /\ session' = [session EXCEPT ![t] = NoSession]
BY DEF delete, TypeOK

\* Steps on the session table preserve the types.
LEMMA SessionTypes == TypeOK /\ SessionStep => TypeOK'
<1> SUFFICES ASSUME TypeOK, SessionStep PROVE TypeOK' OBVIOUS
<1> USE DEF Input, handlers, store, counts
<1>1. ASSUME NEW t \in Tokens, NEW s \in Sandboxes, CreateSshSession(t, s) PROVE TypeOK'
  BY <1>1 DEF CreateSshSession, TypeOK
<1>2. ASSUME NEW t \in Tokens, RevokeSshSession(t) PROVE TypeOK'
  <2>1. session[t] \in Session BY <1>2 DEF RevokeSshSession, TypeOK
  <2> QED BY <1>2, <2>1 DEF RevokeSshSession, TypeOK
<1>3. ASSUME NEW t \in Tokens, CreatePut(t) PROVE TypeOK'
  <2> DEFINE m == [sandbox |-> create[t].sandbox, revoked |-> FALSE, at |-> 0]
  <2>1. create[t] \in [pc : {"put", "done"}, sandbox : Sandboxes]
    BY <1>3 DEF CreatePut, TypeOK, NoCreate
  <2>2. m \in Session BY <2>1 DEF Session
  <2>3. put_message(t, m) BY <1>3 DEF CreatePut
  <2>4. session' \in [Tokens -> Session \cup {NoSession}] /\ clock' \in Nat
    BY <2>2, <2>3, PutType
  <2>5. create' \in [Tokens -> [pc : {"put", "done"}, sandbox : Sandboxes] \cup {NoCreate}]
    BY <1>3, <2>1 DEF CreatePut, TypeOK
  <2> QED BY <1>3, <2>4, <2>5 DEF CreatePut, TypeOK
<1>4. ASSUME NEW t \in Tokens, RevokePut(t) PROVE TypeOK'
  <2>0. revoke[t] \in Session BY <1>4 DEF RevokePut, TypeOK
  <2>1. SetRevoked(revoke[t]) \in Session BY <2>0 DEF Session, SetRevoked
  <2>2. session' \in [Tokens -> Session \cup {NoSession}] /\ clock' \in Nat
    BY <1>4, <2>1, PutType DEF RevokePut
  <2> QED BY <1>4, <2>2 DEF RevokePut, TypeOK
<1>5. ASSUME NEW t \in Tokens, Expire(t) PROVE TypeOK'
  BY <1>5 DEF Expire, TypeOK
<1>6. ASSUME NEW s \in Sandboxes, DeleteSandbox(s) PROVE TypeOK'
  BY <1>6 DEF DeleteSandbox, TypeOK
<1>7. ASSUME NEW s \in Sandboxes, CleanupList(s) PROVE TypeOK'
  BY <1>7 DEF CleanupList, TypeOK, list, Rows
<1>8. ASSUME NEW s \in Sandboxes, NEW t \in Tokens, CleanupDelete(s, t) PROVE TypeOK'
  BY <1>8, DeleteType DEF CleanupDelete, TypeOK
<1>9. ASSUME NEW s \in Sandboxes, CleanupEnd(s) PROVE TypeOK'
  BY <1>9 DEF CleanupEnd, TypeOK
<1>10. CASE ReaperList
  BY <1>10 DEF ReaperList, TypeOK, list, Rows
<1>11. ASSUME NEW t \in Tokens, ReaperDelete(t) PROVE TypeOK'
  BY <1>11, DeleteType DEF ReaperDelete, TypeOK
<1> QED BY <1>1, <1>2, <1>3, <1>4, <1>5, <1>6, <1>7, <1>8, <1>9, <1>10, <1>11
        DEF SessionStep, Sessions, Cleanup, Reaper

\* Steps of a connection preserve the types.
LEMMA ConnTypes == ASSUME TypeOK, NEW c \in Conns, ConnStep(c) PROVE TypeOK'
<1> USE DEF Input, handlers, store, counts, ConnKeeps, Step, Goto, Respond
<1>0. /\ conn[c] \in Request \cup {IdleConn}
      /\ conn[c].pc # "idle" => conn[c] \in Request
  BY DEF TypeOK, IdleConn
<1>1. ASSUME NEW t \in Tokens, NEW s \in Sandboxes, SshConnect(c, t, s) PROVE TypeOK'
  <2>1. conn' \in [Conns -> Request \cup {IdleConn}]
    BY <1>1 DEF SshConnect, TypeOK, Request, Steps
  <2> QED BY <1>1, <2>1 DEF SshConnect, TypeOK
<1>2. ASSUME NEW label \in Steps, conn[c].pc # "idle", Goto(c, label)
      PROVE  conn' \in [Conns -> Request \cup {IdleConn}]
  <2>1. [conn[c] EXCEPT !.pc = label] \in Request BY <1>0, <1>2 DEF Request
  <2> QED BY <1>2, <2>1 DEF TypeOK
<1>3. ASSUME Respond(c) PROVE conn' \in [Conns -> Request \cup {IdleConn}]
  BY <1>3 DEF TypeOK
<1>4. CASE CheckSession(c)
  <2>1. conn' \in [Conns -> Request \cup {IdleConn}]
    BY <1>2, <1>3, <1>4 DEF CheckSession, Steps
  <2> QED BY <1>4, <2>1 DEF CheckSession, TypeOK
<1>5. CASE CheckSandbox(c)
  <2>1. conn' \in [Conns -> Request \cup {IdleConn}]
    BY <1>2, <1>3, <1>5 DEF CheckSandbox, Steps
  <2> QED BY <1>5, <2>1 DEF CheckSandbox, TypeOK
<1>6. CASE TakeToken(c)
  <2>1. conn' \in [Conns -> Request \cup {IdleConn}]
    BY <1>2, <1>3, <1>6 DEF TakeToken, Steps
  <2>2. conn[c].token \in Tokens BY <1>0, <1>6 DEF TakeToken, Request
  <2>3. by_token \in [Tokens -> Nat] BY DEF TypeOK
  <2>4. by_token' \in [Tokens -> Nat] BY <1>6, <2>2, <2>3 DEF TakeToken
  <2> QED BY <1>6, <2>1, <2>4 DEF TakeToken, TypeOK
<1>7. CASE TakeSandbox(c)
  <2>1. conn' \in [Conns -> Request \cup {IdleConn}]
    BY <1>2, <1>3, <1>7 DEF TakeSandbox, Steps
  <2>2. conn[c].sandbox \in Sandboxes BY <1>0, <1>7 DEF TakeSandbox, Request
  <2>3. by_sandbox \in [Sandboxes -> Nat] BY DEF TypeOK
  <2>4. by_sandbox' \in [Sandboxes -> Nat] BY <1>7, <2>2, <2>3 DEF TakeSandbox
  <2> QED BY <1>7, <2>1, <2>4 DEF TakeSandbox, TypeOK
<1>8. CASE Rollback(c)
  <2>1. conn' \in [Conns -> Request \cup {IdleConn}] BY <1>3, <1>8 DEF Rollback
  <2>2. conn[c].token \in Tokens BY <1>0, <1>8 DEF Rollback, Request
  <2>3. by_token \in [Tokens -> Nat] BY DEF TypeOK
  <2>4. by_token' \in [Tokens -> Nat] BY <1>8, <2>2, <2>3 DEF Rollback, decrement
  <2> QED BY <1>8, <2>1, <2>4 DEF Rollback, TypeOK
<1>9. CASE ReleaseToken(c)
  <2>1. conn' \in [Conns -> Request \cup {IdleConn}]
    BY <1>2, <1>9 DEF ReleaseToken, Steps
  <2>2. conn[c].token \in Tokens BY <1>0, <1>9 DEF ReleaseToken, Request
  <2>3. by_token \in [Tokens -> Nat] BY DEF TypeOK
  <2>4. by_token' \in [Tokens -> Nat] BY <1>9, <2>2, <2>3 DEF ReleaseToken, decrement
  <2> QED BY <1>9, <2>1, <2>4 DEF ReleaseToken, TypeOK
<1>10. CASE ReleaseSandbox(c)
  <2>1. conn' \in [Conns -> Request \cup {IdleConn}] BY <1>3, <1>10 DEF ReleaseSandbox
  <2>2. conn[c].sandbox \in Sandboxes BY <1>0, <1>10 DEF ReleaseSandbox, Request
  <2>3. by_sandbox \in [Sandboxes -> Nat] BY DEF TypeOK
  <2>4. by_sandbox' \in [Sandboxes -> Nat] BY <1>10, <2>2, <2>3 DEF ReleaseSandbox, decrement
  <2> QED BY <1>10, <2>1, <2>4 DEF ReleaseSandbox, TypeOK
<1>11. CASE TunnelEnds(c)
  <2>1. conn' \in [Conns -> Request \cup {IdleConn}]
    BY <1>2, <1>11 DEF TunnelEnds, Steps
  <2> QED BY <1>11, <2>1 DEF TunnelEnds, TypeOK
<1>12. CASE Drop(c)
  <2>1. conn' \in [Conns -> Request \cup {IdleConn}] BY <1>3, <1>12 DEF Drop
  <2> QED BY <1>12, <2>1 DEF Drop, TypeOK
<1> QED BY <1>1, <1>4, <1>5, <1>6, <1>7, <1>8, <1>9, <1>10, <1>11, <1>12
        DEF ConnStep, Connect

\* Every step preserves the types.
LEMMA TypeStep == TypeOK /\ [Next]_vars => TypeOK'
<1> SUFFICES ASSUME TypeOK, [Next]_vars PROVE TypeOK' OBVIOUS
<1>1. CASE GatewayRestart
  BY <1>1 DEF GatewayRestart, TypeOK, Input, store, NoCreate
<1>2. CASE UNCHANGED vars BY <1>2 DEF vars, TypeOK
<1> QED BY <1>1, <1>2, SessionTypes, ConnTypes, NextSplit

-------------------------------------------------------------------------------
(* The counters. *)

TokensCounted    == \A t \in Tokens : by_token[t] = Cardinality(TokenHolders(t))
SandboxesCounted == \A s \in Sandboxes : by_sandbox[s] = Cardinality(SandboxHolders(s))
CountsBounded ==
    /\ \A t \in Tokens : by_token[t] <= MAX_CONNECTIONS_PER_TOKEN
    /\ \A s \in Sandboxes : by_sandbox[s] <= MAX_CONNECTIONS_PER_SANDBOX

\* One more element, one less.
LEMMA OneMore ==
    ASSUME NEW S \in SUBSET Conns, NEW c \in Conns
    PROVE  /\ IsFiniteSet(S) /\ Cardinality(S) \in Nat
           /\ c \notin S => Cardinality(S \cup {c}) = Cardinality(S) + 1
           /\ c \in S => Cardinality(S) # 0 /\ Cardinality(S \ {c}) = Cardinality(S) - 1
<1>1. IsFiniteSet(S) BY TunnelAssumption, FS_Subset
<1>2. Cardinality(S) \in Nat BY <1>1, FS_CardinalityType
<1>3. c \notin S => Cardinality(S \cup {c}) = Cardinality(S) + 1 BY <1>1, FS_AddElement
<1>4. c \in S => Cardinality(S \ {c}) = Cardinality(S) - 1 BY <1>1, FS_RemoveElement
<1>5. c \in S => Cardinality(S) # 0 BY <1>1, FS_EmptySet
<1> QED BY <1>1, <1>2, <1>3, <1>4, <1>5

\* A step that leaves the connections and the counters alone.
LEMMA CountsUnchanged ==
    ASSUME TokensCounted, SandboxesCounted, CountsBounded, UNCHANGED <<conn, counts>>
    PROVE  TokensCounted' /\ SandboxesCounted' /\ CountsBounded'
BY DEF TokensCounted, SandboxesCounted, CountsBounded, TokenHolders, SandboxHolders, counts

\* A connection that neither takes nor releases the slot of its token ...
LEMMA TokenKept ==
    ASSUME TypeOK, TokensCounted, NEW c \in Conns, NEW r, UNCHANGED by_token,
           conn' = [conn EXCEPT ![c] = r],
           r.pc \in HoldsToken <=> conn[c].pc \in HoldsToken,
           r.pc \in HoldsToken => r.token = conn[c].token
    PROVE  TokensCounted'
<1>1. ASSUME NEW t \in Tokens PROVE TokenHolders(t)' = TokenHolders(t)
  BY DEF TokenHolders, TypeOK
<1> QED BY <1>1 DEF TokensCounted

\* ... or of its sandbox.
LEMMA SandboxKept ==
    ASSUME TypeOK, SandboxesCounted, NEW c \in Conns, NEW r, UNCHANGED by_sandbox,
           conn' = [conn EXCEPT ![c] = r],
           r.pc \in HoldsSandbox <=> conn[c].pc \in HoldsSandbox,
           r.pc \in HoldsSandbox => r.sandbox = conn[c].sandbox
    PROVE  SandboxesCounted'
<1>1. ASSUME NEW s \in Sandboxes PROVE SandboxHolders(s)' = SandboxHolders(s)
  BY DEF SandboxHolders, TypeOK
<1> QED BY <1>1 DEF SandboxesCounted

\* Taking the slot of a token.
LEMMA TokenTaken ==
    ASSUME TypeOK, TokensCounted, NEW c \in Conns, NEW t \in Tokens, NEW r,
           by_token' = [by_token EXCEPT ![t] = @ + 1],
           conn' = [conn EXCEPT ![c] = r], r.token = t, r.pc \in HoldsToken,
           conn[c].pc \notin HoldsToken
    PROVE  TokensCounted'
<1>1. TokenHolders(t)' = TokenHolders(t) \cup {c} /\ c \notin TokenHolders(t)
  BY DEF TokenHolders, TypeOK
<1>2. \A u \in Tokens \ {t} : TokenHolders(u)' = TokenHolders(u)
  BY DEF TokenHolders, TypeOK
<1>3. TokenHolders(t) \in SUBSET Conns BY DEF TokenHolders
<1>4. Cardinality(TokenHolders(t)') = Cardinality(TokenHolders(t)) + 1 BY <1>1, <1>3, OneMore
<1>5. by_token'[t] = by_token[t] + 1 /\ \A u \in Tokens \ {t} : by_token'[u] = by_token[u]
  BY DEF TypeOK
<1> QED BY <1>2, <1>4, <1>5 DEF TokensCounted

\* Releasing it, in Rollback or ReleaseToken.
LEMMA TokenReleased ==
    ASSUME TypeOK, TokensCounted, NEW c \in Conns, NEW r, conn[c].token \in Tokens,
           by_token' = [by_token EXCEPT ![conn[c].token] = decrement(@)],
           conn' = [conn EXCEPT ![c] = r], r.pc \notin HoldsToken,
           conn[c].pc \in HoldsToken
    PROVE  TokensCounted' /\ \A t \in Tokens : by_token'[t] <= by_token[t]
<1> DEFINE t == conn[c].token
<1>1. TokenHolders(t) \in SUBSET Conns /\ c \in TokenHolders(t) BY DEF TokenHolders
<1>2. \A u \in Tokens : u # t => TokenHolders(u)' = TokenHolders(u)
  BY DEF TokenHolders, TypeOK
<1>3. (TokenHolders(t) \ {c}) = {d \in Conns : conn'[d].pc \in HoldsToken /\ conn'[d].token = t}
  BY DEF TokenHolders, TypeOK
<1>4. Cardinality({d \in Conns : conn'[d].pc \in HoldsToken /\ conn'[d].token = t})
        = Cardinality(TokenHolders(t)) - 1
  BY <1>1, <1>3, OneMore
<1>5. Cardinality(TokenHolders(t)) \in Nat \ {0} BY <1>1, OneMore
<1>6. by_token[t] = Cardinality(TokenHolders(t)) BY DEF TokensCounted
<1>7. by_token'[t] = by_token[t] - 1 BY <1>5, <1>6 DEF decrement, TypeOK
<1>8. \A u \in Tokens : u # t => by_token'[u] = by_token[u] BY DEF TypeOK
<1>9. \A u \in Tokens : by_token'[u] = Cardinality({d \in Conns : conn'[d].pc \in HoldsToken
                                                                  /\ conn'[d].token = u})
  BY <1>2, <1>4, <1>6, <1>7, <1>8 DEF TokensCounted, TokenHolders
<1>10. TokensCounted' BY <1>9 DEF TokensCounted, TokenHolders
<1>11. \A u \in Tokens : by_token'[u] <= by_token[u] BY <1>5, <1>6, <1>7, <1>8 DEF TypeOK
<1> QED BY <1>10, <1>11

\* Taking the slot of a sandbox.
LEMMA SandboxTaken ==
    ASSUME TypeOK, SandboxesCounted, NEW c \in Conns, NEW s \in Sandboxes, NEW r,
           by_sandbox' = [by_sandbox EXCEPT ![s] = @ + 1],
           conn' = [conn EXCEPT ![c] = r], r.sandbox = s, r.pc \in HoldsSandbox,
           conn[c].pc \notin HoldsSandbox
    PROVE  SandboxesCounted'
<1>1. SandboxHolders(s)' = SandboxHolders(s) \cup {c} /\ c \notin SandboxHolders(s)
  BY DEF SandboxHolders, TypeOK
<1>2. \A u \in Sandboxes \ {s} : SandboxHolders(u)' = SandboxHolders(u)
  BY DEF SandboxHolders, TypeOK
<1>3. SandboxHolders(s) \in SUBSET Conns BY DEF SandboxHolders
<1>4. Cardinality(SandboxHolders(s)') = Cardinality(SandboxHolders(s)) + 1
  BY <1>1, <1>3, OneMore
<1>5. /\ by_sandbox'[s] = by_sandbox[s] + 1
      /\ \A u \in Sandboxes \ {s} : by_sandbox'[u] = by_sandbox[u]
  BY DEF TypeOK
<1> QED BY <1>2, <1>4, <1>5 DEF SandboxesCounted

\* Releasing it, in ReleaseSandbox.
LEMMA SandboxReleased ==
    ASSUME TypeOK, SandboxesCounted, NEW c \in Conns, NEW r, conn[c].sandbox \in Sandboxes,
           by_sandbox' = [by_sandbox EXCEPT ![conn[c].sandbox] = decrement(@)],
           conn' = [conn EXCEPT ![c] = r], r.pc \notin HoldsSandbox,
           conn[c].pc \in HoldsSandbox
    PROVE  SandboxesCounted' /\ \A s \in Sandboxes : by_sandbox'[s] <= by_sandbox[s]
<1> DEFINE s == conn[c].sandbox
           Left(u) == {d \in Conns : conn'[d].pc \in HoldsSandbox /\ conn'[d].sandbox = u}
<1>1. SandboxHolders(s) \in SUBSET Conns /\ c \in SandboxHolders(s) BY DEF SandboxHolders
<1>2. \A u \in Sandboxes : u # s => Left(u) = SandboxHolders(u)
  BY DEF SandboxHolders, TypeOK
<1>3. (SandboxHolders(s) \ {c}) = Left(s) BY DEF SandboxHolders, TypeOK
<1>4. Cardinality(Left(s)) = Cardinality(SandboxHolders(s)) - 1 BY <1>1, <1>3, OneMore
<1>5. Cardinality(SandboxHolders(s)) \in Nat \ {0} BY <1>1, OneMore
<1>6. by_sandbox[s] = Cardinality(SandboxHolders(s)) BY DEF SandboxesCounted
<1>7. by_sandbox'[s] = by_sandbox[s] - 1 BY <1>5, <1>6 DEF decrement, TypeOK
<1>8. \A u \in Sandboxes : u # s => by_sandbox'[u] = by_sandbox[u] BY DEF TypeOK
<1>9. \A u \in Sandboxes : by_sandbox'[u] = Cardinality(Left(u))
  BY <1>2, <1>4, <1>6, <1>7, <1>8 DEF SandboxesCounted
<1>10. SandboxesCounted' BY <1>9 DEF SandboxesCounted, SandboxHolders
<1>11. \A u \in Sandboxes : by_sandbox'[u] <= by_sandbox[u] BY <1>5, <1>6, <1>7, <1>8 DEF TypeOK
<1> QED BY <1>10, <1>11

\* A step of ssh_connect keeps the counters exact and within the limits.
LEMMA CountsStep ==
    ASSUME TypeOK, TokensCounted, SandboxesCounted, CountsBounded,
           NEW c \in Conns, ConnStep(c)
    PROVE  TokensCounted' /\ SandboxesCounted' /\ CountsBounded'
<1> DEFINE Moved(label) == [conn[c] EXCEPT !.pc = label]
<1> USE DEF Step, Respond, counts
<1>0. conn[c].pc # "idle" => conn[c] \in Request BY DEF TypeOK, IdleConn
<1>1. ASSUME NEW label, conn[c].pc # "idle", Goto(c, label)
      PROVE  /\ conn' = [conn EXCEPT ![c] = Moved(label)]
             /\ Moved(label).pc = label
             /\ Moved(label).token = conn[c].token /\ Moved(label).sandbox = conn[c].sandbox
  BY <1>0, <1>1 DEF Goto, Request
<1>2. IdleConn.pc = "idle" BY DEF IdleConn
<1>3. ASSUME NEW t \in Tokens, NEW s \in Sandboxes, SshConnect(c, t, s)
      PROVE  TokensCounted' /\ SandboxesCounted' /\ CountsBounded'
  <2> DEFINE r == [pc |-> "session", token |-> t, sandbox |-> s, late |-> t \in revoked]
  <2>1. /\ conn' = [conn EXCEPT ![c] = r] /\ r.pc = "session" /\ conn[c].pc = "idle"
        /\ UNCHANGED <<by_token, by_sandbox>>
    BY <1>3 DEF SshConnect
  <2> HIDE DEF r
  <2>2. TokensCounted' BY <2>1, TokenKept DEF HoldsToken
  <2>3. SandboxesCounted' BY <2>1, SandboxKept DEF HoldsSandbox
  <2> QED BY <2>1, <2>2, <2>3 DEF CountsBounded
<1>4. ASSUME NEW label \in {"sandbox", "token_slot", "release_token"},
             conn[c].pc \in {"session", "sandbox", "tunnel"},
             label = "release_token" <=> conn[c].pc = "tunnel",
             Goto(c, label), UNCHANGED counts
      PROVE  TokensCounted' /\ SandboxesCounted' /\ CountsBounded'
  <2>1. /\ conn' = [conn EXCEPT ![c] = Moved(label)]
        /\ Moved(label).pc = label
        /\ Moved(label).token = conn[c].token /\ Moved(label).sandbox = conn[c].sandbox
    BY <1>1, <1>4
  <2> HIDE DEF Moved
  <2>2. TokensCounted' BY <1>4, <2>1, TokenKept DEF HoldsToken
  <2>3. SandboxesCounted' BY <1>4, <2>1, SandboxKept DEF HoldsSandbox
  <2> QED BY <1>4, <2>2, <2>3 DEF CountsBounded
<1>5. ASSUME Respond(c), UNCHANGED counts, conn[c].pc \in {"session", "sandbox", "token_slot"}
      PROVE  TokensCounted' /\ SandboxesCounted' /\ CountsBounded'
  <2>1. TokensCounted' BY <1>2, <1>5, TokenKept DEF HoldsToken
  <2>2. SandboxesCounted' BY <1>2, <1>5, SandboxKept DEF HoldsSandbox
  <2> QED BY <1>5, <2>1, <2>2 DEF CountsBounded
<1>6. CASE CheckSession(c) BY <1>4, <1>5, <1>6 DEF CheckSession
<1>7. CASE CheckSandbox(c) BY <1>4, <1>5, <1>7 DEF CheckSandbox
<1>8. CASE Drop(c) BY <1>5, <1>8 DEF Drop
<1>9. CASE TunnelEnds(c) BY <1>4, <1>9 DEF TunnelEnds
<1>10. CASE TakeToken(c)
  <2> DEFINE t == conn[c].token
  <2>0. t \in Tokens BY <1>0, <1>10 DEF TakeToken, Request
  <2>1. CASE TokenFull(t) BY <1>5, <1>10, <2>1 DEF TakeToken
  <2>2. CASE ~TokenFull(t)
    <3>1. /\ conn' = [conn EXCEPT ![c] = Moved("sandbox_slot")]
          /\ Moved("sandbox_slot").pc = "sandbox_slot"
          /\ Moved("sandbox_slot").token = t
          /\ by_token' = [by_token EXCEPT ![t] = @ + 1] /\ UNCHANGED by_sandbox
      BY <1>1, <1>10, <2>2 DEF TakeToken
    <3> HIDE DEF Moved
    <3>2. TokensCounted' BY <1>10, <2>0, <3>1, TokenTaken DEF HoldsToken, TakeToken
    <3>3. SandboxesCounted' BY <1>10, <3>1, SandboxKept DEF HoldsSandbox, TakeToken
    <3>4. by_token[t] < MAX_CONNECTIONS_PER_TOKEN
      <4>1. by_token[t] \in Nat BY <2>0 DEF TypeOK
      <4>2. ~(by_token[t] >= MAX_CONNECTIONS_PER_TOKEN) BY <2>2 DEF TokenFull
      <4> QED BY <4>1, <4>2, TunnelAssumption
    <3>5. CountsBounded' BY <2>0, <3>1, <3>4, TunnelAssumption DEF CountsBounded, TypeOK
    <3> QED BY <3>2, <3>3, <3>5
  <2> QED BY <2>1, <2>2
<1>11. CASE TakeSandbox(c)
  <2> DEFINE s == conn[c].sandbox
  <2>0. s \in Sandboxes BY <1>0, <1>11 DEF TakeSandbox, Request
  <2>1. CASE SandboxFull(s)
    <3>1. /\ conn' = [conn EXCEPT ![c] = Moved("rollback")]
          /\ Moved("rollback").pc = "rollback" /\ Moved("rollback").token = conn[c].token
          /\ UNCHANGED <<by_token, by_sandbox>>
      BY <1>1, <1>11, <2>1 DEF TakeSandbox
    <3> HIDE DEF Moved
    <3>2. TokensCounted' BY <1>11, <3>1, TokenKept DEF HoldsToken, TakeSandbox
    <3>3. SandboxesCounted' BY <1>11, <3>1, SandboxKept DEF HoldsSandbox, TakeSandbox
    <3> QED BY <3>1, <3>2, <3>3 DEF CountsBounded
  <2>2. CASE ~SandboxFull(s)
    <3>1. /\ conn' = [conn EXCEPT ![c] = Moved("tunnel")]
          /\ Moved("tunnel").pc = "tunnel" /\ Moved("tunnel").token = conn[c].token
          /\ Moved("tunnel").sandbox = s
          /\ by_sandbox' = [by_sandbox EXCEPT ![s] = @ + 1] /\ UNCHANGED by_token
      BY <1>1, <1>11, <2>2 DEF TakeSandbox
    <3> HIDE DEF Moved
    <3>2. TokensCounted' BY <1>11, <3>1, TokenKept DEF HoldsToken, TakeSandbox
    <3>3. SandboxesCounted' BY <1>11, <2>0, <3>1, SandboxTaken DEF HoldsSandbox, TakeSandbox
    <3>4. by_sandbox[s] < MAX_CONNECTIONS_PER_SANDBOX
      BY <2>0, <2>2, TunnelAssumption DEF SandboxFull, TypeOK
    <3>5. CountsBounded' BY <2>0, <3>1, <3>4, TunnelAssumption DEF CountsBounded, TypeOK
    <3> QED BY <3>2, <3>3, <3>5
  <2> QED BY <2>1, <2>2
<1>12. CASE Rollback(c)
  <2>0. conn[c].token \in Tokens BY <1>0, <1>12 DEF Rollback, Request
  <2>1. TokensCounted' /\ \A t \in Tokens : by_token'[t] <= by_token[t]
    BY <1>2, <1>12, <2>0, TokenReleased DEF HoldsToken, Rollback
  <2>2. SandboxesCounted' BY <1>2, <1>12, SandboxKept DEF HoldsSandbox, Rollback
  <2>3. by_token' \in [Tokens -> Nat] BY <1>12, ConnTypes DEF TypeOK
  <2>4. UNCHANGED by_sandbox BY <1>12 DEF Rollback
  <2> QED BY <2>1, <2>2, <2>3, <2>4, TunnelAssumption DEF CountsBounded, TypeOK
<1>13. CASE ReleaseToken(c)
  <2>0. conn[c].token \in Tokens BY <1>0, <1>13 DEF ReleaseToken, Request
  <2>1. /\ conn' = [conn EXCEPT ![c] = Moved("release_sandbox")]
        /\ Moved("release_sandbox").pc = "release_sandbox"
        /\ Moved("release_sandbox").sandbox = conn[c].sandbox
    BY <1>1, <1>13 DEF ReleaseToken
  <2> HIDE DEF Moved
  <2>2. TokensCounted' /\ \A t \in Tokens : by_token'[t] <= by_token[t]
    BY <1>13, <2>0, <2>1, TokenReleased DEF HoldsToken, ReleaseToken
  <2>3. SandboxesCounted' BY <1>13, <2>1, SandboxKept DEF HoldsSandbox, ReleaseToken
  <2>4. by_token' \in [Tokens -> Nat] BY <1>13, ConnTypes DEF TypeOK
  <2>5. UNCHANGED by_sandbox BY <1>13 DEF ReleaseToken
  <2> QED BY <2>2, <2>3, <2>4, <2>5, TunnelAssumption DEF CountsBounded, TypeOK
<1>14. CASE ReleaseSandbox(c)
  <2>0. conn[c].sandbox \in Sandboxes BY <1>0, <1>14 DEF ReleaseSandbox, Request
  <2>1. SandboxesCounted' /\ \A s \in Sandboxes : by_sandbox'[s] <= by_sandbox[s]
    BY <1>2, <1>14, <2>0, SandboxReleased DEF HoldsSandbox, ReleaseSandbox
  <2>2. TokensCounted' BY <1>2, <1>14, TokenKept DEF HoldsToken, ReleaseSandbox
  <2>3. by_sandbox' \in [Sandboxes -> Nat] BY <1>14, ConnTypes DEF TypeOK
  <2>4. UNCHANGED by_token BY <1>14 DEF ReleaseSandbox
  <2> QED BY <2>1, <2>2, <2>3, <2>4, TunnelAssumption DEF CountsBounded, TypeOK
<1> QED BY <1>3, <1>6, <1>7, <1>8, <1>9, <1>10, <1>11, <1>12, <1>13, <1>14
        DEF ConnStep, Connect

-------------------------------------------------------------------------------
(* Revocation. *)

\* A token is put once: afterwards its row is only revoked or deleted.
CreatedOnce ==
    \A t \in Tokens : session[t] # NoSession \/ revoke[t] # NoSession \/ t \in revoked
                        => create[t].pc = "done"
\* Once the revocation was acknowledged, the row is revoked or gone.
RevokedStays ==
    \A t \in revoked : session[t] = NoSession \/ session[t].revoked
LateRevoked ==
    \A c \in Conns : conn[c].late => conn[c].token \in revoked
Revocation == CreatedOnce /\ RevokedStays /\ LateRevoked /\ RevokedNotAdmitted

\* Deleting a row preserves what is said of revocations.
LEMMA RevocationDelete ==
    ASSUME TypeOK, Revocation, NEW t \in Tokens, delete(t),
           UNCHANGED <<create, revoke, conn, revoked>>
    PROVE  Revocation'
<1>1. session' = [session EXCEPT ![t] = NoSession] BY DeleteType
<1>2. \A u \in Tokens : session'[u] = IF u = t THEN NoSession ELSE session[u]
  BY <1>1 DEF TypeOK
<1>3. CreatedOnce' BY <1>2 DEF Revocation, CreatedOnce
<1>4. RevokedStays' BY <1>2 DEF Revocation, RevokedStays, TypeOK
<1> QED BY <1>3, <1>4 DEF Revocation, LateRevoked, RevokedNotAdmitted

\* Steps on the session table.
LEMMA RevocationSession == ASSUME TypeOK, Revocation, SessionStep PROVE Revocation'
<1> USE DEF handlers, store
<1>0. ASSUME UNCHANGED <<session, create, revoke, conn, revoked>> PROVE Revocation'
  BY <1>0 DEF Revocation, CreatedOnce, RevokedStays, LateRevoked, RevokedNotAdmitted
<1>1. ASSUME NEW t \in Tokens, NEW s \in Sandboxes, CreateSshSession(t, s) PROVE Revocation'
  BY <1>1 DEF CreateSshSession, Revocation, CreatedOnce, RevokedStays, LateRevoked,
              RevokedNotAdmitted, TypeOK
<1>2. ASSUME NEW t \in Tokens, RevokeSshSession(t) PROVE Revocation'
  BY <1>2 DEF RevokeSshSession, Revocation, CreatedOnce, RevokedStays, LateRevoked,
              RevokedNotAdmitted, TypeOK
<1>3. ASSUME NEW t \in Tokens, CreatePut(t) PROVE Revocation'
  <2>1. t \notin revoked BY <1>3 DEF CreatePut, Revocation, CreatedOnce
  <2>2. create'[t].pc = "done" /\ \A u \in Tokens : u # t => create'[u] = create[u]
    BY <1>3 DEF CreatePut, TypeOK, NoCreate
  <2>3. \A u \in Tokens : u # t => session'[u] = session[u]
    BY <1>3 DEF CreatePut, put_message, TypeOK
  <2>4. UNCHANGED <<revoke, conn, revoked>> BY <1>3 DEF CreatePut
  <2>5. CreatedOnce' BY <2>2, <2>3, <2>4 DEF Revocation, CreatedOnce
  <2>6. RevokedStays' BY <2>1, <2>3, <2>4 DEF Revocation, RevokedStays, TypeOK
  <2> QED BY <2>4, <2>5, <2>6 DEF Revocation, LateRevoked, RevokedNotAdmitted
<1>4. ASSUME NEW t \in Tokens, RevokePut(t) PROVE Revocation'
  <2>0. revoke[t] \in Session BY <1>4 DEF RevokePut, TypeOK
  <2>1. SetRevoked(revoke[t]) \in Session /\ SetRevoked(revoke[t]).revoked
    BY <2>0 DEF Session, SetRevoked
  <2>2. session'[t].revoked /\ session' = [session EXCEPT ![t] = session'[t]]
    BY <1>4, <2>1, PutType DEF RevokePut
  <2>3. \A u \in Tokens : u # t => session'[u] = session[u] BY <2>2 DEF TypeOK
  <2>4. create[t].pc = "done" BY <1>4 DEF RevokePut, Revocation, CreatedOnce
  <2>5. /\ UNCHANGED <<create, conn>> /\ revoked' = revoked \cup {t}
        /\ \A u \in Tokens : u # t => revoke'[u] = revoke[u]
    BY <1>4 DEF RevokePut, TypeOK
  <2>6. CreatedOnce' BY <2>3, <2>4, <2>5 DEF Revocation, CreatedOnce
  <2>7. RevokedStays' BY <2>2, <2>3, <2>5 DEF Revocation, RevokedStays, TypeOK
  <2> QED BY <2>5, <2>6, <2>7 DEF Revocation, LateRevoked, RevokedNotAdmitted
<1>5. ASSUME NEW t \in Tokens, Expire(t) PROVE Revocation' BY <1>0, <1>5 DEF Expire
<1>6. ASSUME NEW s \in Sandboxes, DeleteSandbox(s) PROVE Revocation'
  BY <1>0, <1>6 DEF DeleteSandbox
<1>7. ASSUME NEW s \in Sandboxes, CleanupList(s) PROVE Revocation'
  BY <1>0, <1>7 DEF CleanupList
<1>8. ASSUME NEW s \in Sandboxes, NEW t \in Tokens, CleanupDelete(s, t) PROVE Revocation'
  BY <1>8, RevocationDelete DEF CleanupDelete
<1>9. ASSUME NEW s \in Sandboxes, CleanupEnd(s) PROVE Revocation'
  BY <1>0, <1>9 DEF CleanupEnd
<1>10. CASE ReaperList BY <1>0, <1>10 DEF ReaperList
<1>11. ASSUME NEW t \in Tokens, ReaperDelete(t) PROVE Revocation'
  BY <1>11, RevocationDelete DEF ReaperDelete
<1> QED BY <1>1, <1>2, <1>3, <1>4, <1>5, <1>6, <1>7, <1>8, <1>9, <1>10, <1>11
        DEF SessionStep, Sessions, Cleanup, Reaper

\* Steps of ssh_connect: a late request is turned away by CheckSession.
LEMMA RevocationConn ==
    ASSUME TypeOK, Revocation, NEW c \in Conns, ConnStep(c) PROVE Revocation'
<1> USE DEF handlers, store, Step, Goto, Respond
<1>1. UNCHANGED <<session, create, revoke, revoked>>
  BY DEF ConnStep, Connect, SshConnect, CheckSession, CheckSandbox, TakeToken, TakeSandbox,
         Rollback, ReleaseToken, ReleaseSandbox, TunnelEnds, Drop, ConnKeeps
<1>2. CreatedOnce' /\ RevokedStays' BY <1>1 DEF Revocation, CreatedOnce, RevokedStays
<1>3. \A d \in Conns : d # c => conn'[d] = conn[d]
  BY DEF ConnStep, Connect, SshConnect, CheckSession, CheckSandbox, TakeToken, TakeSandbox,
         Rollback, ReleaseToken, ReleaseSandbox, TunnelEnds, Drop, TypeOK
<1>4. conn[c].pc # "idle" => conn[c] \in Request BY DEF TypeOK, IdleConn
<1>5. (conn'[c].late => conn'[c].token \in revoked) /\ (conn'[c].late => conn'[c].pc = "session")
  <2>1. CASE \E t \in Tokens, s \in Sandboxes : SshConnect(c, t, s)
    <3>1. PICK t \in Tokens, s \in Sandboxes : SshConnect(c, t, s) BY <2>1
    <3> DEFINE r == [pc |-> "session", token |-> t, sandbox |-> s, late |-> t \in revoked]
    <3>2. conn'[c] = r BY <3>1 DEF SshConnect, TypeOK
    <3>3. r.pc = "session" /\ r.token = t /\ (r.late <=> t \in revoked) OBVIOUS
    <3> HIDE DEF r
    <3> QED BY <3>2, <3>3
  <2>2. ASSUME Respond(c) PROVE ~conn'[c].late BY <2>2 DEF TypeOK, IdleConn
  <2>3. ASSUME NEW label, Goto(c, label), conn[c].pc # "idle"
        PROVE  conn'[c].late = conn[c].late /\ conn'[c].token = conn[c].token
    BY <1>4, <2>3 DEF TypeOK, Request
  <2>4. CASE CheckSession(c)
    <3>1. CASE Respond(c) BY <2>2, <3>1
    <3>2. CASE Admits(c) /\ Goto(c, "sandbox")
      <4>1. conn[c].token \notin revoked
        BY <3>2 DEF Admits, Revocation, RevokedStays
      <4>2. ~conn[c].late BY <4>1 DEF Revocation, LateRevoked
      <4>3. ~conn'[c].late BY <2>3, <2>4, <3>2, <4>2 DEF CheckSession
      <4> QED BY <4>3
    <3> QED BY <2>4, <3>1, <3>2 DEF CheckSession
  <2>5. CASE conn[c].pc \notin {"idle", "session"}
    <3>1. ~conn[c].late BY <2>5 DEF Revocation, RevokedNotAdmitted
    <3>2. Respond(c) \/ \E label \in Steps : Goto(c, label)
      BY <2>5 DEF ConnStep, Connect, SshConnect, CheckSession, CheckSandbox, TakeToken,
                  TakeSandbox, Rollback, ReleaseToken, ReleaseSandbox, TunnelEnds, Drop, Steps
    <3>3. ~conn'[c].late BY <2>2, <2>3, <2>5, <3>1, <3>2
    <3> QED BY <3>3
  <2>6. CASE Drop(c) BY <2>2, <2>6 DEF Drop
  <2> QED BY <2>1, <2>4, <2>5, <2>6 DEF ConnStep, Connect, CheckSandbox, TakeToken,
             TakeSandbox, Rollback, ReleaseToken, ReleaseSandbox, TunnelEnds
<1>6. LateRevoked' BY <1>1, <1>3, <1>5 DEF Revocation, LateRevoked
<1>7. RevokedNotAdmitted' BY <1>3, <1>5 DEF Revocation, RevokedNotAdmitted
<1> QED BY <1>2, <1>6, <1>7 DEF Revocation

-------------------------------------------------------------------------------
(* The inductive invariant and what follows from it. *)

IInv == TypeOK /\ TokensCounted /\ SandboxesCounted /\ CountsBounded /\ Revocation

\* The initial state: no session, no connection, no slot taken.
LEMMA InitIInv == Init => IInv
<1> SUFFICES ASSUME Init PROVE IInv OBVIOUS
<1>1. TypeOK BY DEF Init, TypeOK
<1>2. \A c \in Conns : conn[c].pc = "idle" /\ ~conn[c].late BY DEF Init, IdleConn
<1>3. \A t \in Tokens : TokenHolders(t) = {} BY <1>2 DEF TokenHolders, HoldsToken
<1>4. \A s \in Sandboxes : SandboxHolders(s) = {} BY <1>2 DEF SandboxHolders, HoldsSandbox
<1>5. TokensCounted /\ SandboxesCounted
  BY <1>3, <1>4, FS_EmptySet DEF Init, TokensCounted, SandboxesCounted
<1>6. CountsBounded BY TunnelAssumption DEF Init, CountsBounded
<1>7. Revocation
  BY <1>2 DEF Init, Revocation, CreatedOnce, RevokedStays, LateRevoked, RevokedNotAdmitted
<1> QED BY <1>1, <1>5, <1>6, <1>7 DEF IInv

\* A restart of the gateway empties the counters together with the tunnels.
LEMMA RestartIInv == ASSUME IInv, GatewayRestart PROVE IInv'
<1>1. TypeOK' BY TypeStep, NextSplit DEF IInv
<1>2. \A c \in Conns : conn'[c].pc = "idle" /\ ~conn'[c].late BY DEF GatewayRestart, IdleConn
<1>3. \A t \in Tokens : TokenHolders(t)' = {} /\ by_token'[t] = 0
  BY <1>2 DEF GatewayRestart, TokenHolders, HoldsToken
<1>4. \A s \in Sandboxes : SandboxHolders(s)' = {} /\ by_sandbox'[s] = 0
  BY <1>2 DEF GatewayRestart, SandboxHolders, HoldsSandbox
<1>5. TokensCounted' /\ SandboxesCounted'
  BY <1>3, <1>4, FS_EmptySet DEF TokensCounted, SandboxesCounted
<1>6. CountsBounded' BY <1>3, <1>4, TunnelAssumption DEF CountsBounded
<1>7. /\ UNCHANGED <<session, revoked>>
      /\ \A t \in Tokens : revoke'[t] = NoSession
      /\ \A t \in Tokens : create[t].pc = "done" => create'[t].pc = "done"
  BY DEF GatewayRestart, store
<1>8. CreatedOnce' /\ RevokedStays' BY <1>7 DEF IInv, Revocation, CreatedOnce, RevokedStays
<1>9. LateRevoked' /\ RevokedNotAdmitted' BY <1>2 DEF LateRevoked, RevokedNotAdmitted
<1> QED BY <1>1, <1>5, <1>6, <1>8, <1>9 DEF IInv, Revocation

\* Every step preserves the invariant.
LEMMA StepIInv == IInv /\ [Next]_vars => IInv'
<1> SUFFICES ASSUME IInv, [Next]_vars PROVE IInv' OBVIOUS
<1>0. TypeOK' BY TypeStep DEF IInv
<1>1. CASE SessionStep
  <2>1. UNCHANGED <<conn, counts>>
    BY <1>1 DEF SessionStep, Sessions, Cleanup, Reaper, CreateSshSession, RevokeSshSession,
       CreatePut, RevokePut, Expire, DeleteSandbox, CleanupList, CleanupDelete, CleanupEnd,
       ReaperList, ReaperDelete
  <2> QED BY <1>0, <1>1, <2>1, CountsUnchanged, RevocationSession DEF IInv
<1>2. ASSUME NEW c \in Conns, ConnStep(c) PROVE IInv'
  BY <1>0, <1>2, CountsStep, RevocationConn DEF IInv
<1>3. CASE GatewayRestart BY <1>3, RestartIInv
<1>4. CASE UNCHANGED vars
  <2>1. UNCHANGED <<conn, counts>> BY <1>4 DEF vars, counts
  <2>2. Revocation' BY <1>4 DEF vars, IInv, Revocation, CreatedOnce, RevokedStays, LateRevoked,
                              RevokedNotAdmitted
  <2> QED BY <1>0, <2>1, <2>2, CountsUnchanged DEF IInv
<1> QED BY <1>1, <1>2, <1>3, <1>4, NextSplit

\* The invariant holds in every reachable state.
THEOREM Invariance == Spec => []IInv
BY InitIInv, StepIInv, PTL DEF Spec

\* Rows, handlers, requests and counters keep their types, for any number of
\* connections, tokens and sandboxes.
THEOREM TypeCorrect == Spec => []TypeOK
<1>1. IInv => TypeOK BY DEF IInv
<1> QED BY <1>1, Invariance, PTL

\* by_token and by_sandbox count exactly the holders of slots: ssh_connect leaks
\* no slot and releases none twice.
THEOREM SlotsExact == Spec => []SlotsAccounted
<1>1. IInv => SlotsAccounted
  BY DEF IInv, SlotsAccounted, TokensCounted, SandboxesCounted
<1> QED BY <1>1, Invariance, PTL

\* MAX_CONNECTIONS_PER_TOKEN and MAX_CONNECTIONS_PER_SANDBOX bound the tunnels
\* that are open at once, however the critical sections interleave.
THEOREM LimitsEnforced == Spec => []TunnelLimits
<1>1. IInv => TunnelLimits
  <2> SUFFICES ASSUME IInv PROVE TunnelLimits OBVIOUS
  <2>1. ASSUME NEW t \in Tokens
        PROVE  Cardinality({c \in Conns : conn[c].pc = "tunnel" /\ conn[c].token = t})
                 <= MAX_CONNECTIONS_PER_TOKEN
    <3> DEFINE open == {c \in Conns : conn[c].pc = "tunnel" /\ conn[c].token = t}
    <3>1. open \subseteq TokenHolders(t) BY DEF TokenHolders, HoldsToken
    <3>2. IsFiniteSet(TokenHolders(t)) BY TunnelAssumption, FS_Subset DEF TokenHolders
    <3>3. Cardinality(open) <= Cardinality(TokenHolders(t)) BY <3>1, <3>2, FS_Subset
    <3>4. Cardinality(TokenHolders(t)) <= MAX_CONNECTIONS_PER_TOKEN
      BY DEF IInv, TokensCounted, CountsBounded
    <3>5. Cardinality(open) \in Nat /\ Cardinality(TokenHolders(t)) \in Nat
      BY <3>1, <3>2, FS_Subset, FS_CardinalityType
    <3> QED BY <3>3, <3>4, <3>5, TunnelAssumption
  <2>2. ASSUME NEW s \in Sandboxes
        PROVE  Cardinality({c \in Conns : conn[c].pc = "tunnel" /\ conn[c].sandbox = s})
                 <= MAX_CONNECTIONS_PER_SANDBOX
    <3> DEFINE open == {c \in Conns : conn[c].pc = "tunnel" /\ conn[c].sandbox = s}
    <3>1. open \subseteq SandboxHolders(s) BY DEF SandboxHolders, HoldsSandbox
    <3>2. IsFiniteSet(SandboxHolders(s)) BY TunnelAssumption, FS_Subset DEF SandboxHolders
    <3>3. Cardinality(open) <= Cardinality(SandboxHolders(s)) BY <3>1, <3>2, FS_Subset
    <3>4. Cardinality(SandboxHolders(s)) <= MAX_CONNECTIONS_PER_SANDBOX
      BY DEF IInv, SandboxesCounted, CountsBounded
    <3>5. Cardinality(open) \in Nat /\ Cardinality(SandboxHolders(s)) \in Nat
      BY <3>1, <3>2, FS_Subset, FS_CardinalityType
    <3> QED BY <3>3, <3>4, <3>5, TunnelAssumption
  <2> QED BY <2>1, <2>2 DEF TunnelLimits
<1> QED BY <1>1, Invariance, PTL

\* A request that arrives after revoke_ssh_session answered never passes the
\* check of its session, whatever raced with the revocation.
THEOREM RevocationHolds == Spec => []RevokedNotAdmitted
<1>1. IInv => RevokedNotAdmitted BY DEF IInv, Revocation
<1> QED BY <1>1, Invariance, PTL
===============================================================================
