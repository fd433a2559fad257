---------------------------- MODULE EgressProofs ----------------------------
(***************************************************************************)
(* Proofs about Egress, for any number of connections, any policies and    *)
(* reloads, any process tree and any answer of a name lookup.              *)
(*                                                                         *)
(* A connection asks the shared engine several times, and the engine can   *)
(* be another one each time.  Ok says what a connection still knows at     *)
(* each label of the answers it was given on the way: the address check    *)
(* (Checked), the decision that let it in (Granted), what it was told of   *)
(* the request it relays (Relayed) and when it has passed on more than     *)
(* that request (Behind).                                                  *)
(***************************************************************************)
EXTENDS Egress, TLAPS

In(r) == [host |-> r.target.host, port |-> r.target.port,
          bin |-> r.peer.bin, ancestors |-> r.peer.ancestors]

\* The labels up to the dial, and the labels after the decision.
Early == {"accepted", "identify", "verify", "hash", "l7check", "ips", "resolve", "dial"}
Relaying == {"forward", "response", "body", "until_eof"}
Decided == {"l7check", "ips", "resolve", "dial", "l7query", "clone", "tls", "peek", "raw",
            "inspect", "evaluate"} \cup Relaying

AddressOk(ip, ips) == ip \notin AlwaysBlocked /\ (ip = "private" => "private" \in ips)

Checked(r) ==
    /\ r.pc \in Early => r.addr = ""
    /\ r.pc = "dial" => AnswerOk(r.addrs, r.ips)
    /\ AddressOk(r.addr, r.ips)

Granted(r) == r.pc \in Decided => RulesFound /\ NetworkAllowed(r.granted, In(r))

Behind(r) == r.beyond => r.pc \in Relaying /\ BodyLength(r.request.framing) = "chunked"

Relayed(r) ==
    r.pc \in Relaying => RequestAllowed(r.tunnel, In(r), r.request) \/ r.l7.enforcement = "audit"

Shape(r) == DOMAIN r = DOMAIN Fresh
Ok(r) == Shape(r) /\ Checked(r) /\ Granted(r) /\ Behind(r) /\ Relayed(r)

\* The inductive invariant.
IInv ==
    /\ conns = [c \in Conns |-> conns[c]]
    /\ hashes = [b \in Binaries |-> hashes[b]]
    /\ \A c \in Conns : Ok(conns[c])

-----------------------------------------------------------------------------
\* A step of one connection leaves the others alone.
LEMMA OneConn ==
    ASSUME IInv, NEW c \in Conns, NEW r, conns' = [conns EXCEPT ![c] = r], Ok(r),
           hashes' = hashes \/ \E b, e : hashes' = [hashes EXCEPT ![b] = e]
    PROVE  IInv'
<1>1. conns' = [d \in Conns |-> IF d = c THEN r ELSE conns[d]]
    BY DEF IInv
<1>2. conns' = [d \in Conns |-> conns'[d]] /\ \A d \in Conns : Ok(conns'[d])
    BY <1>1 DEF IInv
<1>3. hashes' = [b \in Binaries |-> hashes'[b]]
    BY DEF IInv
<1> QED  BY <1>2, <1>3 DEF IInv

\* A closed connection holds no address and relays nothing.
LEMMA EndOk ==
    ASSUME IInv, NEW c \in Conns, NEW reply, NEW stage, End(c, reply, stage), hashes' = hashes
    PROVE  IInv'
<1> DEFINE r == [Fresh EXCEPT !.pc = "closed", !.reply = reply, !.denial = stage]
<1>1. conns' = [conns EXCEPT ![c] = r]
    BY DEF End
<1>2. r.pc = "closed" /\ r.addr = "" /\ ~r.beyond /\ Shape(r)
    BY DEF Fresh, Shape
<1> HIDE DEF r
<1>3. Ok(r)
    BY <1>2 DEF Ok, Checked, Granted, Behind, Relayed, Early, Decided, Relaying, AddressOk,
                AlwaysBlocked
<1> QED  BY <1>1, <1>3, OneConn

LEMMA CloseOk ==
    ASSUME IInv, NEW c \in Conns, NEW reply, Close(c, reply), hashes' = hashes
    PROVE  IInv'
BY EndOk DEF Close

LEMMA DenyOk ==
    ASSUME IInv, NEW c \in Conns, NEW stage, Deny(c, stage), hashes' = hashes
    PROVE  IInv'
BY EndOk DEF Deny

LEMMA StepFacts ==
    ASSUME IInv, NEW c \in Conns, NEW fields, Step(c, fields)
    PROVE  /\ conns' = [conns EXCEPT ![c] = Assign(conns[c], fields)]
           /\ Shape(Assign(conns[c], fields))
           /\ Ok(conns[c])
BY DEF IInv, Ok, Shape, Step, Assign

\* A connection that keeps its target and its peer asks about the same input.
LEMMA SameInput ==
    ASSUME NEW r, NEW o, r.target = o.target, r.peer = o.peer
    PROVE  In(r) = In(o)
BY DEF In

-----------------------------------------------------------------------------
(* Up to the decision.                                                      *)

LEMMA ReadHeaderOk == ASSUME IInv, NEW c \in Conns, ReadHeader(c) PROVE IInv'
<1>1. hashes' = hashes /\ conns[c].pc = "accepted"
    BY DEF ReadHeader, At
<1>2. CASE \E reply : Close(c, reply)
    BY <1>1, <1>2, CloseOk
<1>3. ASSUME NEW t, NEW l \in {"inference", "identify"}, Step(c, [target |-> t, pc |-> l])
      PROVE  IInv'
    <2> DEFINE r == Assign(conns[c], [target |-> t, pc |-> l])
    <2>1. conns' = [conns EXCEPT ![c] = r] /\ Shape(r) /\ Ok(conns[c])
        BY <1>3, StepFacts
    <2>2. r.pc = l /\ r.addr = conns[c].addr /\ r.beyond = conns[c].beyond /\ r.ips = conns[c].ips
        BY <2>1 DEF Ok, Shape, Fresh, Assign
    <2> HIDE DEF r
    <2>3. Ok(r)
        BY <1>1, <1>3, <2>1, <2>2 DEF Ok, Checked, Granted, Behind, Relayed, Early, Decided, Relaying
    <2> QED  BY <1>1, <2>1, <2>3, OneConn
<1>4. \/ \E reply : Close(c, reply)
      \/ \E t : \E l \in {"inference", "identify"} : Step(c, [target |-> t, pc |-> l])
    BY DEF ReadHeader
<1> QED  BY <1>2, <1>3, <1>4

LEMMA IdentifyPeerOk == ASSUME IInv, NEW c \in Conns, IdentifyPeer(c) PROVE IInv'
<1>1. hashes' = hashes /\ conns[c].pc = "identify"
    BY DEF IdentifyPeer, At
<1>2. CASE DenyDecision(c)
    BY <1>1, <1>2, DenyOk DEF DenyDecision
<1>3. ASSUME NEW p, NEW v, Step(c, [peer |-> p, pc |-> "verify", verify |-> v])
      PROVE  IInv'
    <2> DEFINE r == Assign(conns[c], [peer |-> p, pc |-> "verify", verify |-> v])
    <2>1. conns' = [conns EXCEPT ![c] = r] /\ Shape(r) /\ Ok(conns[c])
        BY <1>3, StepFacts
    <2>2. r.pc = "verify" /\ r.addr = conns[c].addr /\ r.beyond = conns[c].beyond /\ r.ips = conns[c].ips
        BY <2>1 DEF Ok, Shape, Fresh, Assign
    <2> HIDE DEF r
    <2>3. Ok(r)
        BY <1>1, <2>1, <2>2 DEF Ok, Checked, Granted, Behind, Relayed, Early, Decided, Relaying
    <2> QED  BY <1>1, <2>1, <2>3, OneConn
<1> QED  BY <1>2, <1>3 DEF IdentifyPeer

LEMMA VerifyStatOk == ASSUME IInv, NEW c \in Conns, VerifyStat(c) PROVE IInv'
<1>1. hashes' = hashes /\ conns[c].pc = "verify"
    BY DEF VerifyStat, At
<1>2. CASE DenyDecision(c)
    BY <1>1, <1>2, DenyOk DEF DenyDecision
<1>3. ASSUME NEW fields, Step(c, fields),
             \/ \E v : fields = [verify |-> v]
             \/ \E b, f : fields = [path |-> b, stat |-> f, pc |-> "hash"]
      PROVE  IInv'
    <2> DEFINE r == Assign(conns[c], fields)
    <2>1. conns' = [conns EXCEPT ![c] = r] /\ Shape(r) /\ Ok(conns[c])
        BY <1>3, StepFacts
    <2>2. r.pc \in {"verify", "hash"} /\ r.addr = conns[c].addr /\ r.beyond = conns[c].beyond /\ r.ips = conns[c].ips
        BY <1>1, <1>3, <2>1 DEF Ok, Shape, Fresh, Assign
    <2> HIDE DEF r
    <2>3. Ok(r)
        BY <1>1, <2>1, <2>2 DEF Ok, Checked, Granted, Behind, Relayed, Early, Decided, Relaying
    <2> QED  BY <1>1, <2>1, <2>3, OneConn
<1> QED  BY <1>2, <1>3 DEF VerifyStat

LEMMA HashFileOk == ASSUME IInv, NEW c \in Conns, HashFile(c) PROVE IInv'
<1>1. conns[c].pc = "hash"
    BY DEF HashFile, At
<1>2. CASE DenyDecision(c) /\ UNCHANGED hashes
    BY <1>2, DenyOk DEF DenyDecision
<1>3. ASSUME NEW v, Step(c, [verify |-> v, pc |-> "verify"]),
             \E b, e : hashes' = [hashes EXCEPT ![b] = e]
      PROVE  IInv'
    <2> DEFINE r == Assign(conns[c], [verify |-> v, pc |-> "verify"])
    <2>1. conns' = [conns EXCEPT ![c] = r] /\ Shape(r) /\ Ok(conns[c])
        BY <1>3, StepFacts
    <2>2. r.pc = "verify" /\ r.addr = conns[c].addr /\ r.beyond = conns[c].beyond /\ r.ips = conns[c].ips
        BY <2>1 DEF Ok, Shape, Fresh, Assign
    <2> HIDE DEF r
    <2>3. Ok(r)
        BY <1>1, <2>1, <2>2 DEF Ok, Checked, Granted, Behind, Relayed, Early, Decided, Relaying
    <2> QED  BY <1>3, <2>1, <2>3, OneConn
<1> QED  BY <1>2, <1>3 DEF HashFile

LEMMA DecideOk == ASSUME IInv, NEW c \in Conns, Decide(c) PROVE IInv'
<1>1. hashes' = hashes /\ conns[c].pc = "verify"
    BY DEF Decide, At
<1>2. CASE DenyDecision(c)
    BY <1>1, <1>2, DenyOk DEF DenyDecision
<1>3. CASE RulesFound /\ NetworkAllowed(engine, Input(c))
    <2> DEFINE l == IF conns[c].target.kind = "connect" THEN "ips" ELSE "l7check"
    <2> DEFINE fields == [allow |-> TRUE, granted |-> engine, pc |-> l]
    <2> DEFINE r == Assign(conns[c], fields)
    <2>1. Step(c, fields)
        BY <1>3 DEF Decide
    <2>2. conns' = [conns EXCEPT ![c] = r] /\ Shape(r) /\ Ok(conns[c])
        BY <2>1, StepFacts
    <2>3. /\ r.pc = l /\ r.addr = conns[c].addr /\ r.beyond = conns[c].beyond /\ r.ips = conns[c].ips /\ r.granted = engine
          /\ r.target = conns[c].target /\ r.peer = conns[c].peer
        BY <2>2 DEF Ok, Shape, Fresh, Assign
    <2> HIDE DEF r
    <2>4. In(r) = Input(c)
        BY <2>3 DEF In, Input
    <2>5. Granted(r)
        BY <1>3, <2>3, <2>4 DEF Granted
    <2>6. Checked(r) /\ Behind(r) /\ Relayed(r)
        BY <1>1, <2>2, <2>3 DEF Ok, Checked, Behind, Relayed, Early, Relaying
    <2> QED  BY <1>1, <2>2, <2>5, <2>6, OneConn DEF Ok
<1> QED  BY <1>2, <1>3 DEF Decide

-----------------------------------------------------------------------------
(* The address checks.                                                      *)

LEMMA ForwardL7CheckOk == ASSUME IInv, NEW c \in Conns, ForwardL7Check(c) PROVE IInv'
<1>1. hashes' = hashes /\ conns[c].pc = "l7check"
    BY DEF ForwardL7Check, At
<1>2. CASE L7Config(engine, Input(c)) # NoL7
    BY <1>1, <1>2, DenyOk DEF ForwardL7Check
<1>3. CASE L7Config(engine, Input(c)) = NoL7
    <2> DEFINE fields == [asked |-> engine, pc |-> "ips"]
    <2> DEFINE r == Assign(conns[c], fields)
    <2>1. Step(c, fields)
        BY <1>3 DEF ForwardL7Check
    <2>2. conns' = [conns EXCEPT ![c] = r] /\ Shape(r) /\ Ok(conns[c])
        BY <2>1, StepFacts
    <2>3. /\ r.pc = "ips" /\ r.addr = conns[c].addr /\ r.beyond = conns[c].beyond /\ r.ips = conns[c].ips
          /\ r.granted = conns[c].granted /\ r.asked = engine
          /\ r.target = conns[c].target /\ r.peer = conns[c].peer
        BY <2>2 DEF Ok, Shape, Fresh, Assign
    <2> HIDE DEF r
    <2>4. In(r) = Input(c) /\ In(r) = In(conns[c])
        BY <2>3 DEF In, Input
    <2>5. Granted(r)
        BY <1>1, <2>2, <2>3, <2>4 DEF Ok, Granted, Decided
    <2>6. Behind(r)
        BY <1>1, <2>2, <2>3 DEF Ok, Behind, Relaying
    <2>7. Checked(r) /\ Relayed(r)
        BY <1>1, <2>2, <2>3 DEF Ok, Checked, Relayed, Early, Relaying
    <2> QED  BY <1>1, <2>2, <2>5, <2>6, <2>7, OneConn DEF Ok
<1> QED  BY <1>2, <1>3

LEMMA QueryAllowedIpsOk == ASSUME IInv, NEW c \in Conns, QueryAllowedIps(c) PROVE IInv'
<1>1. hashes' = hashes /\ conns[c].pc = "ips"
    BY DEF QueryAllowedIps, At
<1>2. CASE Deny(c, "ssrf")
    BY <1>1, <1>2, DenyOk
<1>3. ASSUME NEW ips, Step(c, [ips |-> ips, pc |-> "resolve"])
      PROVE  IInv'
    <2> DEFINE r == Assign(conns[c], [ips |-> ips, pc |-> "resolve"])
    <2>1. conns' = [conns EXCEPT ![c] = r] /\ Shape(r) /\ Ok(conns[c])
        BY <1>3, StepFacts
    <2>2. /\ r.pc = "resolve" /\ r.addr = conns[c].addr /\ r.beyond = conns[c].beyond
          /\ r.granted = conns[c].granted /\ r.asked = conns[c].asked
          /\ r.target = conns[c].target /\ r.peer = conns[c].peer
        BY <2>1 DEF Ok, Shape, Fresh, Assign
    <2> HIDE DEF r
    <2>3. In(r) = In(conns[c])
        BY <2>2, SameInput
    <2>4. Checked(r)
        BY <1>1, <2>1, <2>2 DEF Ok, Checked, Early, AddressOk, AlwaysBlocked
    <2>5. Granted(r) /\ Behind(r) /\ Relayed(r)
        BY <1>1, <2>1, <2>2, <2>3 DEF Ok, Granted, Behind, Relayed, Decided, Relaying
    <2> QED  BY <1>1, <2>1, <2>4, <2>5, OneConn DEF Ok
<1> QED  BY <1>2, <1>3 DEF QueryAllowedIps

LEMMA ResolveOk == ASSUME IInv, NEW c \in Conns, Resolve(c) PROVE IInv'
<1>1. hashes' = hashes /\ conns[c].pc = "resolve"
    BY DEF Resolve, At
<1>2. CASE Deny(c, "ssrf")
    BY <1>1, <1>2, DenyOk
<1>3. ASSUME NEW answer, AnswerOk(answer, conns[c].ips), Step(c, [addrs |-> answer, pc |-> "dial"])
      PROVE  IInv'
    <2> DEFINE r == Assign(conns[c], [addrs |-> answer, pc |-> "dial"])
    <2>1. conns' = [conns EXCEPT ![c] = r] /\ Shape(r) /\ Ok(conns[c])
        BY <1>3, StepFacts
    <2>2. /\ r.pc = "dial" /\ r.addr = conns[c].addr /\ r.beyond = conns[c].beyond /\ r.ips = conns[c].ips /\ r.addrs = answer
          /\ r.granted = conns[c].granted /\ r.asked = conns[c].asked
          /\ r.target = conns[c].target /\ r.peer = conns[c].peer
        BY <2>1 DEF Ok, Shape, Fresh, Assign
    <2> HIDE DEF r
    <2>3. In(r) = In(conns[c])
        BY <2>2, SameInput
    <2>4. Checked(r)
        BY <1>1, <1>3, <2>1, <2>2 DEF Ok, Checked, Early
    <2>5. Granted(r) /\ Behind(r) /\ Relayed(r)
        BY <1>1, <2>1, <2>2, <2>3 DEF Ok, Granted, Behind, Relayed, Decided, Relaying
    <2> QED  BY <1>1, <2>1, <2>4, <2>5, OneConn DEF Ok
<1> QED  BY <1>2, <1>3 DEF Resolve

\* Any address of an answer that passed may be connected to.
LEMMA CheckedAnswer ==
    ASSUME NEW answer, NEW ips, AnswerOk(answer, ips), NEW ip \in answer
    PROVE  AddressOk(ip, ips)
BY DEF AnswerOk, RejectsInternal, ChecksAllowedIps, AddressOk, Internal

LEMMA DialOk == ASSUME IInv, NEW c \in Conns, Dial(c) PROVE IInv'
<1>1. hashes' = hashes /\ conns[c].pc = "dial"
    BY DEF Dial, At
<1>2. CASE \E reply : Close(c, reply)
    BY <1>1, <1>2, CloseOk
<1>3. ASSUME NEW ip \in conns[c].addrs, NEW reply, NEW sent, NEW l,
             l = IF conns[c].target.kind = "connect" THEN "l7query" ELSE "raw",
             Step(c, [addr |-> ip, pc |-> l, reply |-> reply, sent |-> sent])
      PROVE  IInv'
    <2> DEFINE r == Assign(conns[c], [addr |-> ip, pc |-> l, reply |-> reply, sent |-> sent])
    <2>1. conns' = [conns EXCEPT ![c] = r] /\ Shape(r) /\ Ok(conns[c])
        BY <1>3, StepFacts
    <2>2. /\ r.pc = l /\ r.addr = ip /\ r.beyond = conns[c].beyond /\ r.ips = conns[c].ips
          /\ r.granted = conns[c].granted /\ r.asked = conns[c].asked
          /\ r.target = conns[c].target /\ r.peer = conns[c].peer
        BY <2>1 DEF Ok, Shape, Fresh, Assign
    <2> HIDE DEF r
    <2>3. In(r) = In(conns[c])
        BY <2>2, SameInput
    <2>4. AddressOk(ip, conns[c].ips)
        BY <1>1, <1>3, <2>1, CheckedAnswer DEF Ok, Checked
    <2>5. Checked(r)
        BY <1>3, <2>2, <2>4 DEF Checked, Early
    <2>6. Granted(r) /\ Relayed(r)
        BY <1>1, <1>3, <2>1, <2>2, <2>3 DEF Ok, Granted, Relayed, Decided, Relaying
    <2>7. Behind(r)
        BY <1>1, <2>1, <2>2 DEF Ok, Behind, Relaying
    <2> QED  BY <1>1, <2>1, <2>5, <2>6, <2>7, OneConn DEF Ok
<1> QED  BY <1>2, <1>3 DEF Dial

-----------------------------------------------------------------------------
(* The tunnel.                                                              *)

LEMMA QueryL7ConfigOk == ASSUME IInv, NEW c \in Conns, QueryL7Config(c) PROVE IInv'
<1> DEFINE l7 == L7Config(engine, Input(c))
           l == IF l7 = NoL7 THEN "raw" ELSE "clone"
           fields == [l7 |-> l7, asked |-> engine, pc |-> l]
           r == Assign(conns[c], fields)
<1>1. hashes' = hashes /\ conns[c].pc = "l7query" /\ Step(c, fields)
    BY DEF QueryL7Config, At
<1>2. conns' = [conns EXCEPT ![c] = r] /\ Shape(r) /\ Ok(conns[c])
    BY <1>1, StepFacts
<1> HIDE DEF l7
<1>3. /\ r.pc = l /\ r.addr = conns[c].addr /\ r.beyond = conns[c].beyond /\ r.ips = conns[c].ips
      /\ r.granted = conns[c].granted /\ r.asked = engine /\ r.l7 = l7
      /\ r.target = conns[c].target /\ r.peer = conns[c].peer
    BY <1>2 DEF Ok, Shape, Fresh, Assign
<1> HIDE DEF r
<1>4. In(r) = Input(c) /\ In(r) = In(conns[c])
    BY <1>3 DEF In, Input
<1>5. Checked(r) /\ Granted(r) /\ Relayed(r)
    BY <1>1, <1>2, <1>3, <1>4 DEF Ok, Checked, Granted, Relayed, Early, Decided, Relaying
<1>6. Behind(r)
    BY <1>1, <1>2, <1>3 DEF Ok, Behind, Relaying
<1> QED  BY <1>1, <1>2, <1>5, <1>6, OneConn DEF Ok

LEMMA CloneEngineOk == ASSUME IInv, NEW c \in Conns, CloneEngine(c) PROVE IInv'
<1>1. hashes' = hashes /\ conns[c].pc = "clone"
    BY DEF CloneEngine, At
<1>2. PICK l : /\ l \in {"peek", "tls"} \/ (l = "raw" /\ ~HasTls)
               /\ Step(c, [tunnel |-> engine, pc |-> l])
    BY EgressAssumption DEF CloneEngine
<1> DEFINE r == Assign(conns[c], [tunnel |-> engine, pc |-> l])
<1>3. conns' = [conns EXCEPT ![c] = r] /\ Shape(r) /\ Ok(conns[c])
    BY <1>2, StepFacts
<1>4. /\ r.pc = l /\ r.addr = conns[c].addr /\ r.beyond = conns[c].beyond /\ r.ips = conns[c].ips
      /\ r.granted = conns[c].granted /\ r.asked = conns[c].asked /\ r.l7 = conns[c].l7
      /\ r.target = conns[c].target /\ r.peer = conns[c].peer
    BY <1>3 DEF Ok, Shape, Fresh, Assign
<1> HIDE DEF r
<1>5. In(r) = In(conns[c])
    BY <1>4, SameInput
<1>6. Ok(r)
    BY <1>1, <1>2, <1>3, <1>4, <1>5
       DEF Ok, Checked, Granted, Behind, Relayed, Early, Decided, Relaying
<1> QED  BY <1>1, <1>3, <1>6, OneConn

\* Past the dial a task keeps its address, its input and the answers it got.
Kept(r, o) == /\ r.addr = o.addr /\ r.ips = o.ips /\ r.granted = o.granted /\ r.asked = o.asked
              /\ r.target = o.target /\ r.peer = o.peer /\ r.l7 = o.l7 /\ r.tunnel = o.tunnel

LEMMA KeptOk ==
    ASSUME NEW o, Ok(o), o.pc \in Decided \ Early, NEW r, Kept(r, o),
           r.pc \in {"raw", "inspect", "evaluate"} \cup Relaying
    PROVE  Checked(r) /\ Granted(r) /\ In(r) = In(o)
<1>1. In(r) = In(o)
    BY SameInput DEF Kept
<1> QED  BY <1>1 DEF Ok, Checked, Granted, Kept, Early, Decided, Relaying

\* What InspectOrCopy chooses after a handshake or a peek.
LEMMA InspectOk ==
    ASSUME IInv, NEW c \in Conns, conns[c].pc \in {"tls", "peek"}, hashes' = hashes,
           Step(c, [pc |-> InspectOrCopy(conns[c].l7)])
    PROVE  IInv'
<1> DEFINE l == InspectOrCopy(conns[c].l7)
           r == Assign(conns[c], [pc |-> l])
<1>1. conns' = [conns EXCEPT ![c] = r] /\ Shape(r) /\ Ok(conns[c])
    BY StepFacts
<1>2. r.pc = l /\ Kept(r, conns[c]) /\ r.beyond = conns[c].beyond
    BY <1>1 DEF Ok, Shape, Fresh, Assign, Kept
<1> HIDE DEF r
<1>3. l \in {"raw", "inspect"} /\ (l = "raw" => conns[c].l7.protocol = "sql")
    BY DEF InspectOrCopy
<1> HIDE DEF l
<1>4. Checked(r) /\ Granted(r) /\ In(r) = In(conns[c])
    BY <1>1, <1>2, <1>3, KeptOk DEF Decided, Early
<1>5. Behind(r) /\ Relayed(r)
    BY <1>1, <1>2, <1>3, <1>4 DEF Ok, Behind, Relayed, Relaying, Kept
<1> QED  BY <1>1, <1>4, <1>5, OneConn DEF Ok

LEMMA TlsHandshakeOk == ASSUME IInv, NEW c \in Conns, TlsHandshake(c) PROVE IInv'
<1>1. hashes' = hashes /\ conns[c].pc = "tls"
    BY DEF TlsHandshake, At
<1> QED  BY <1>1, CloseOk, InspectOk DEF TlsHandshake

LEMMA PeekOk == ASSUME IInv, NEW c \in Conns, Peek(c) PROVE IInv'
<1>1. hashes' = hashes /\ conns[c].pc = "peek"
    BY DEF Peek, At
<1> QED  BY <1>1, CloseOk, InspectOk DEF Peek

\* The next request of the tunnel.
LEMMA InspectNextOk ==
    ASSUME IInv, NEW c \in Conns, conns[c].pc \in {"inspect"} \cup Relaying, hashes' = hashes,
           NEW fields, Step(c, fields),
           \/ NextRequest(c) /\ fields = [pc |-> "inspect", request |-> NoRequest, beyond |-> FALSE]
           \/ /\ conns[c].pc = "inspect"
              /\ \E q : fields = [request |-> q, pc |-> "evaluate"]
    PROVE  IInv'
<1> DEFINE r == Assign(conns[c], fields)
<1>1. conns' = [conns EXCEPT ![c] = r] /\ Shape(r) /\ Ok(conns[c])
    BY StepFacts
<1>2. r.pc \in {"inspect", "evaluate"} /\ Kept(r, conns[c]) /\ ~r.beyond
    BY <1>1 DEF Ok, Shape, Fresh, Assign, Kept, Behind, Relaying
<1> HIDE DEF r
<1>3. Checked(r) /\ Granted(r)
    BY <1>1, <1>2, KeptOk DEF Decided, Early, Relaying
<1>4. Behind(r) /\ Relayed(r)
    BY <1>2 DEF Behind, Relayed, Relaying
<1> QED  BY <1>1, <1>3, <1>4, OneConn DEF Ok

LEMMA ParseHttpRequestOk == ASSUME IInv, NEW c \in Conns, ParseHttpRequest(c) PROVE IInv'
<1>1. hashes' = hashes /\ conns[c].pc = "inspect"
    BY DEF ParseHttpRequest, At
<1>2. CASE Close(c, "200")
    BY <1>1, <1>2, CloseOk
<1>3. CASE \E q : Step(c, [request |-> q, pc |-> "evaluate"])
    BY <1>1, <1>3, InspectNextOk
<1> QED  BY <1>2, <1>3 DEF ParseHttpRequest

LEMMA NextRequestOk ==
    ASSUME IInv, NEW c \in Conns, conns[c].pc \in Relaying, hashes' = hashes, NextRequest(c)
    PROVE  IInv'
BY InspectNextOk DEF NextRequest

LEMMA EvaluateL7RequestOk == ASSUME IInv, NEW c \in Conns, EvaluateL7Request(c) PROVE IInv'
<1>1. hashes' = hashes /\ conns[c].pc = "evaluate"
    BY DEF EvaluateL7Request, At
<1>2. CASE Close(c, "l7-403")
    BY <1>1, <1>2, CloseOk
<1>3. ASSUME NEW hs, NEW l \in {"response", "forward"}, Step(c, [sent |-> hs, pc |-> l]),
             \/ RequestAllowed(conns[c].tunnel, Input(c), conns[c].request)
             \/ conns[c].l7.enforcement = "audit"
      PROVE  IInv'
    <2> DEFINE r == Assign(conns[c], [sent |-> hs, pc |-> l])
    <2>1. conns' = [conns EXCEPT ![c] = r] /\ Shape(r) /\ Ok(conns[c])
        BY <1>3, StepFacts
    <2>2. /\ r.pc = l /\ Kept(r, conns[c]) /\ r.request = conns[c].request
          /\ r.beyond = conns[c].beyond
        BY <2>1 DEF Ok, Shape, Fresh, Assign, Kept
    <2> HIDE DEF r
    <2>3. Checked(r) /\ Granted(r) /\ In(r) = In(conns[c])
        BY <1>1, <1>3, <2>1, <2>2, KeptOk DEF Decided, Early, Relaying
    <2>4. In(r) = Input(c)
        BY <2>3 DEF In, Input
    <2>5. Behind(r) /\ Relayed(r)
        BY <1>1, <1>3, <2>1, <2>2, <2>4 DEF Ok, Behind, Relayed, Relaying, Kept
    <2> QED  BY <1>1, <2>1, <2>3, <2>5, OneConn DEF Ok
<1> QED  BY <1>2, <1>3 DEF EvaluateL7Request

\* The relay of one request and its answer.
LEMMA RelayOk ==
    ASSUME IInv, NEW c \in Conns, conns[c].pc \in Relaying, hashes' = hashes,
           NEW l \in Relaying, NEW fields, Step(c, fields),
           \/ fields = [pc |-> l]
           \/ /\ fields = [pc |-> l, beyond |-> TRUE]
              /\ BodyLength(conns[c].request.framing) = "chunked"
    PROVE  IInv'
<1> DEFINE r == Assign(conns[c], fields)
<1>1. conns' = [conns EXCEPT ![c] = r] /\ Shape(r) /\ Ok(conns[c])
    BY StepFacts
<1>2. /\ r.pc = l /\ Kept(r, conns[c]) /\ r.request = conns[c].request
      /\ r.beyond = conns[c].beyond \/ BodyLength(conns[c].request.framing) = "chunked"
    BY <1>1 DEF Ok, Shape, Fresh, Assign, Kept
<1> HIDE DEF r
<1>3. Checked(r) /\ Granted(r) /\ In(r) = In(conns[c])
    BY <1>1, <1>2, KeptOk DEF Decided, Early, Relaying
<1>4. Behind(r) /\ Relayed(r)
    BY <1>1, <1>2, <1>3 DEF Ok, Behind, Relayed, Relaying, Kept
<1> QED  BY <1>1, <1>3, <1>4, OneConn DEF Ok

LEMMA ForwardBodyOk == ASSUME IInv, NEW c \in Conns, ForwardBody(c) PROVE IInv'
<1>1. hashes' = hashes /\ conns[c].pc \in Relaying /\ "response" \in Relaying
    BY DEF ForwardBody, At, Relaying
<1> QED  BY <1>1, CloseOk, RelayOk DEF ForwardBody, RelayBody

LEMMA RelayResponseOk == ASSUME IInv, NEW c \in Conns, RelayResponse(c) PROVE IInv'
<1>1. /\ hashes' = hashes /\ conns[c].pc \in Relaying
      /\ "body" \in Relaying /\ "until_eof" \in Relaying
    BY DEF RelayResponse, At, Relaying
<1>2. CASE Close(c, "200")
    BY <1>1, <1>2, CloseOk
<1>3. CASE NextRequest(c)
    BY <1>1, <1>3, NextRequestOk
<1>4. CASE \E l \in {"body", "until_eof"} : Step(c, [pc |-> l])
    BY <1>1, <1>4, RelayOk
<1> QED  BY <1>2, <1>3, <1>4 DEF RelayResponse

LEMMA RelayResponseBodyOk == ASSUME IInv, NEW c \in Conns, RelayResponseBody(c) PROVE IInv'
<1>1. hashes' = hashes /\ conns[c].pc \in Relaying
    BY DEF RelayResponseBody, At, Relaying
<1>2. CASE Close(c, "200")
    BY <1>1, <1>2, CloseOk
<1>3. CASE NextRequest(c)
    BY <1>1, <1>3, NextRequestOk
<1> QED  BY <1>2, <1>3 DEF RelayResponseBody

-----------------------------------------------------------------------------
(* The invariant holds.                                                     *)

LEMMA InitOk == Init => IInv
<1> SUFFICES ASSUME Init PROVE IInv
    OBVIOUS
<1>1. conns = [c \in Conns |-> conns[c]] /\ \A c \in Conns : conns[c] = Fresh
    BY DEF Init
<1>2. hashes = [b \in Binaries |-> hashes[b]]
    BY DEF Init
<1>3. Fresh.pc = "accepted" /\ Fresh.addr = "" /\ ~Fresh.beyond /\ Shape(Fresh)
    BY DEF Fresh, Shape
<1>4. Ok(Fresh)
    BY <1>3 DEF Ok, Checked, Granted, Behind, Relayed, Early, Decided, Relaying, AddressOk,
                AlwaysBlocked
<1> QED  BY <1>1, <1>2, <1>4 DEF IInv

LEMMA ConnStepOk == ASSUME IInv, NEW c \in Conns, ConnStep(c) PROVE IInv'
<1>1. CASE ReadHeader(c)         BY <1>1, ReadHeaderOk
<1>2. CASE IdentifyPeer(c)       BY <1>2, IdentifyPeerOk
<1>3. CASE VerifyStat(c)         BY <1>3, VerifyStatOk
<1>4. CASE HashFile(c)           BY <1>4, HashFileOk
<1>5. CASE Decide(c)             BY <1>5, DecideOk
<1>6. CASE ForwardL7Check(c)     BY <1>6, ForwardL7CheckOk
<1>7. CASE QueryAllowedIps(c)    BY <1>7, QueryAllowedIpsOk
<1>8. CASE Resolve(c)            BY <1>8, ResolveOk
<1>9. CASE Dial(c)               BY <1>9, DialOk
<1>10. CASE QueryL7Config(c)     BY <1>10, QueryL7ConfigOk
<1>11. CASE CloneEngine(c)       BY <1>11, CloneEngineOk
<1>12. CASE TlsHandshake(c)      BY <1>12, TlsHandshakeOk
<1>13. CASE Peek(c)              BY <1>13, PeekOk
<1>14. CASE ParseHttpRequest(c)  BY <1>14, ParseHttpRequestOk
<1>15. CASE EvaluateL7Request(c) BY <1>15, EvaluateL7RequestOk
<1>16. CASE ForwardBody(c)       BY <1>16, ForwardBodyOk
<1>17. CASE RelayResponse(c)     BY <1>17, RelayResponseOk
<1>18. CASE RelayResponseBody(c) BY <1>18, RelayResponseBodyOk
<1>19. CASE RelayUntilEof(c)     BY <1>19, CloseOk DEF RelayUntilEof
<1>20. CASE EndCopy(c)           BY <1>20, CloseOk DEF EndCopy
<1> QED  BY <1>1, <1>2, <1>3, <1>4, <1>5, <1>6, <1>7, <1>8, <1>9, <1>10, <1>11, <1>12, <1>13,
            <1>14, <1>15, <1>16, <1>17, <1>18, <1>19, <1>20 DEF ConnStep

LEMMA NextOk == ASSUME IInv, [Next]_vars PROVE IInv'
<1>1. CASE \E c \in Conns : ConnStep(c)
    BY <1>1, ConnStepOk
<1>2. CASE Reload \/ SpawnEntrypoint \/ (\E b \in Writable : ReplaceBinary(b)) \/ UNCHANGED vars
    <2>1. conns' = conns /\ hashes' = hashes
        BY <1>2 DEF Reload, SpawnEntrypoint, ReplaceBinary, vars
    <2> QED  BY <2>1 DEF IInv
<1> QED  BY <1>1, <1>2 DEF Next

LEMMA Invariant == Spec => []IInv
BY InitOk, NextOk, PTL DEF Spec

\* ConnectsOnlyCheckedAddress for every set of connections, policies and name
\* servers: whatever a lookup answers and whatever is reloaded between the
\* query of allowed_ips and the dial, no task connects to a loopback or
\* link-local address, nor to a private one its allowed_ips do not name.
THEOREM AddressesChecked == Spec => []ConnectsOnlyCheckedAddress
<1>1. IInv => ConnectsOnlyCheckedAddress
    BY DEF IInv, Ok, Checked, AddressOk, AlwaysBlocked, ConnectsOnlyCheckedAddress
<1> QED  BY <1>1, Invariant, PTL

\* What leaves the sandbox was asked about, with one exception.  A connection
\* past the decision was allowed by network_action of the policy it was granted
\* under; a request parsed and relayed was allowed by the tunnel's own copy of
\* the policy, or is only audited; and bytes nobody was asked about go upstream
\* only behind the chunked body of such a request, which relay_chunked passes
\* on buffer by buffer.
NothingUnasked ==
    \A c \in Conns :
        /\ conns[c].pc \in Decided => NetworkAllowed(conns[c].granted, Input(c))
        /\ conns[c].pc \in Relaying =>
              \/ RequestAllowed(conns[c].tunnel, Input(c), conns[c].request)
              \/ conns[c].l7.enforcement = "audit"
        /\ conns[c].beyond =>
              conns[c].pc \in Relaying /\ BodyLength(conns[c].request.framing) = "chunked"

\* NothingUnasked is an invariant of relay_rest and of the paths to it,
\* whatever is reloaded in the meantime and however a client frames its bodies.
THEOREM EveryRelayAllowed == Spec => []NothingUnasked
<1>1. IInv => NothingUnasked
    BY DEF IInv, Ok, Granted, Relayed, Behind, NothingUnasked, In, Input
<1> QED  BY <1>1, Invariant, PTL

-----------------------------------------------------------------------------
\* GoldenHashKept for every number of tasks: two tasks that hash the same
\* binary while it is rewritten both compare with the cache under its lock,
\* and the first hash stays.
THEOREM HashesKept == Spec => GoldenHashKept
<1>1. ASSUME IInv, Next, NEW b \in Binaries, hashes[b] # NoEntry
      PROVE  hashes'[b].hash = hashes[b].hash
    <2>1. CASE hashes' = hashes
        BY <2>1
    <2>2. CASE \E c \in Conns : HashFile(c)
        <3> PICK c \in Conns : HashFile(c)
            BY <2>2
        <3> DEFINE p == conns[c].path
                   now == files[p].hash
                   e == [stamp |-> conns[c].stat.stamp, hash |-> now]
        <3>1. CASE hashes[p] # NoEntry /\ hashes[p].hash # now
            BY <3>1, <2>1 DEF HashFile
        <3>2. CASE ~(hashes[p] # NoEntry /\ hashes[p].hash # now)
            <4>1. hashes' = [hashes EXCEPT ![p] = e] /\ e.hash = now
                BY <3>2 DEF HashFile
            <4> HIDE DEF e, p
            <4>2. CASE b = p
                <5>1. hashes'[b] = e
                    BY <1>1, <4>1, <4>2 DEF IInv
                <5> QED  BY <1>1, <3>2, <4>1, <4>2, <5>1
            <4>3. CASE b # p
                BY <4>1, <4>3 DEF IInv
            <4> QED  BY <4>2, <4>3
        <3> QED  BY <3>1, <3>2
    <2>3. ASSUME NEW c \in Conns, ConnStep(c), ~HashFile(c) PROVE hashes' = hashes
        BY <2>3 DEF ConnStep, ReadHeader, IdentifyPeer, VerifyStat, Decide, ForwardL7Check,
               QueryAllowedIps, Resolve, Dial, QueryL7Config, CloneEngine, TlsHandshake, Peek,
               ParseHttpRequest, EvaluateL7Request, ForwardBody, RelayResponse,
               RelayResponseBody, RelayUntilEof, EndCopy
    <2>4. CASE Reload \/ SpawnEntrypoint \/ \E w \in Writable : ReplaceBinary(w)
        BY <2>1, <2>4 DEF Reload, SpawnEntrypoint, ReplaceBinary
    <2> QED  BY <1>1, <2>1, <2>2, <2>3, <2>4 DEF Next
<1>2. IInv /\ [Next]_vars =>
        [\A b \in Binaries : hashes[b] # NoEntry => hashes'[b].hash = hashes[b].hash]_vars
    BY <1>1
<1> QED  BY <1>2, Invariant, PTL DEF Spec, GoldenHashKept

=============================================================================
