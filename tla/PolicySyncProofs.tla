--------------------------- MODULE PolicySyncProofs ---------------------------
(***************************************************************************)
(* Proofs about what a supervisor keeps of the gateway's state: policies   *)
(* (PolicySync), for any policies, settings and number of changes and      *)
(* restarts, and routes (Inference), for any number of requests, providers *)
(* and connections.  The two modules share no state.                       *)
(*                                                                         *)
(* A report names a version; the policy the engine held is remembered      *)
(* nowhere in it.  That the status it writes is about the right policy     *)
(* rests on a chain through three steps of two programs: the answer the    *)
(* supervisor holds is a row of the table (ReadOk), a report that is on    *)
(* the wire is about such a row (ReportOk), and rows are never rewritten   *)
(* (Keeps), so it does not matter when the report arrives.                 *)
(***************************************************************************)
EXTENDS PolicySync, Inference, TLAPS

Contiguous(t) == \E n \in Nat : DOMAIN t = 1 .. n

\* Nothing that t holds is lost or rewritten in u.
Keeps(t, u) ==
    /\ DOMAIN t \subseteq DOMAIN u
    /\ \A v \in DOMAIN t : u[v].policy = t[v].policy

AnswerType == [policy : Policy \cup {NoPolicy}, version : Nat,
               source : {"none", "sandbox", "global"},
               setting : Settings \cup {"none"}]

SupLabels == {"fetch", "fetch_end", "discover", "refetch", "refetch_end", "enrich",
              "stopped", "connect", "exited", "init", "init_end", "poll", "poll_end",
              "reporting"}

SupType == [pc : SupLabels, policy : Policy \cup {NoPolicy}, read : AnswerType,
            answer : AnswerType, track : AnswerType]

TypeInv ==
    /\ IsTable(table, Policy) /\ Contiguous(table)
    /\ rec \in [policy : Policy \cup {NoPolicy}, version : Nat]
    /\ gpolicy \in Policy \cup {NoPolicy}
    /\ setting \in Settings
    /\ sup \in SupType
    /\ engine \in Policy \cup {NoPolicy}
    /\ reports \subseteq [version : Nat, status : {"loaded", "failed"}]
    /\ everLoaded \subseteq Policy

\* The answer being used names a row and has its policy.
ReadOk(t, read) ==
    read.version > 0 => /\ read.version \in DOMAIN t
                        /\ t[read.version].policy = read.policy

\* What a report claims of the row it names.
ReportOk(t, ever, r) ==
    /\ r.version \in DOMAIN t
    /\ r.status = "loaded" => t[r.version].policy \in ever
    /\ r.status = "failed" => t[r.version].policy.net \in BadNets

\* StatusTruthful, of a table and a history.
Truthful(t, ever) ==
    \A v \in DOMAIN t :
        /\ v > 1 /\ t[v].status = "loaded" => t[v].policy \in ever
        /\ t[v].status = "failed" => t[v].policy.net \in BadNets

\* A supervisor that is going to build the engine has a policy for it.
Started == {"connect", "init", "init_end", "poll", "poll_end", "reporting"}

\* The engine that was built holds a policy it accepted.
EngineGood == sup.pc \in Started => engine \in everLoaded /\ engine.net \notin BadNets

\* The inductive invariant.
IInv ==
    /\ TypeInv
    /\ sup.pc = "enrich" => sup.policy \in Policy
    /\ ReadOk(table, sup.read)
    /\ \A r \in reports : ReportOk(table, everLoaded, r)
    /\ Truthful(table, everLoaded)
    /\ EngineGood

-------------------------------------------------------------------------------
(* The operations of the store. *)

LEMMA LatestFacts ==
    ASSUME NEW t, Contiguous(t)
    PROVE  /\ get_latest_policy(t) \in Nat
           /\ DOMAIN t = 1 .. get_latest_policy(t)
<1>1. PICK n \in Nat : DOMAIN t = 1 .. n
    BY DEF Contiguous
<1>2. CASE n = 0
    BY <1>1, <1>2 DEF get_latest_policy
<1>3. CASE n > 0
    <2>1. n \in DOMAIN t /\ \A w \in DOMAIN t : w <= n
        BY <1>1, <1>3
    <2>2. \A v \in DOMAIN t : (\A w \in DOMAIN t : w <= v) => v = n
        BY <1>1, <2>1
    <2> QED  BY <1>1, <2>1, <2>2 DEF get_latest_policy
<1> QED  BY <1>2, <1>3

\* What every write of the gateway does to the table.
GoodWrite(t, u, ever) ==
    /\ IsTable(u, Policy) /\ Contiguous(u) /\ Keeps(t, u) /\ Truthful(u, ever)

\* A revision is inserted after the latest one and supersedes the older ones.
LEMMA InsertGood ==
    ASSUME NEW t, IsTable(t, Policy), Contiguous(t), NEW ever, Truthful(t, ever),
           NEW p \in Policy, NEW n, n = get_latest_policy(t) + 1,
           NEW u, u = supersede_older_policies(put_policy_revision(t, n, p), n)
    PROVE  GoodWrite(t, u, ever)
<1> DEFINE w == put_policy_revision(t, n, p)
<1>1. /\ get_latest_policy(t) \in Nat /\ DOMAIN t = 1 .. n - 1
      /\ n \in Nat /\ n > 0 /\ n \notin DOMAIN t
    BY LatestFacts
<1>2. /\ DOMAIN w = 1 .. n
      /\ w[n] = [policy |-> p, status |-> "pending"]
      /\ \A v \in DOMAIN t : v \in DOMAIN w /\ w[v] = t[v]
      /\ \A v \in DOMAIN w : v = n \/ v \in DOMAIN t
    BY <1>1 DEF put_policy_revision
<1> HIDE DEF w
<1>3. \A v \in DOMAIN w : w[v] \in [policy : Policy, status : RevisionStatus]
    BY <1>2 DEF IsTable, RevisionStatus
<1>4. /\ DOMAIN u = 1 .. n
      /\ \A v \in DOMAIN w : /\ u[v] \in [policy : Policy, status : RevisionStatus]
                             /\ u[v].policy = w[v].policy
                             /\ u[v].status \in {w[v].status, "superseded"}
    BY <1>2, <1>3 DEF supersede_older_policies, RevisionStatus, w
<1>5. IsTable(u, Policy) /\ Contiguous(u)
    <2>1. Contiguous(u)
        BY <1>1, <1>4 DEF Contiguous
    <2>2. DOMAIN u \subseteq Nat \ {0}
        BY <1>1, <1>4
    <2>3. \A v \in DOMAIN u : u[v] \in [policy : Policy, status : RevisionStatus]
        BY <1>2, <1>4
    <2> QED  BY <2>1, <2>2, <2>3 DEF IsTable
<1>6. Keeps(t, u)
    BY <1>1, <1>2, <1>4 DEF Keeps
<1>7. Truthful(u, ever)
    <2> SUFFICES ASSUME NEW v \in DOMAIN u
                 PROVE  /\ v > 1 /\ u[v].status = "loaded" => u[v].policy \in ever
                        /\ u[v].status = "failed" => u[v].policy.net \in BadNets
        BY DEF Truthful
    <2>1. u[v].policy = w[v].policy /\ u[v].status \in {w[v].status, "superseded"}
        BY <1>2, <1>4
    <2>2. CASE v = n
        <3>1. w[v].status = "pending"
            BY <1>2, <2>2
        <3> QED  BY <2>1, <3>1
    <2>3. CASE v \in DOMAIN t
        <3>1. w[v] = t[v]
            BY <1>2, <2>3
        <3> QED  BY <2>1, <2>3, <3>1 DEF Truthful
    <2> QED  BY <1>2, <1>4, <2>2, <2>3
<1> QED  BY <1>5, <1>6, <1>7 DEF GoodWrite

\* The lazy backfill inserts version 1 as loaded.
LEMMA BackfillGood ==
    ASSUME NEW t, DOMAIN t = {}, NEW ever, NEW p \in Policy,
           NEW u, u = update_policy_status(put_policy_revision(t, 1, p), 1, "loaded")
    PROVE  /\ GoodWrite(t, u, ever)
           /\ 1 \in DOMAIN u /\ u[1].policy = p
<1> DEFINE w == put_policy_revision(t, 1, p)
<1>1. DOMAIN w = {1} /\ w[1] = [policy |-> p, status |-> "pending"]
    BY DEF put_policy_revision
<1> HIDE DEF w
<1>2. DOMAIN u = {1} /\ u[1].policy = p /\ u[1].status = "loaded"
      /\ u[1] \in [policy : Policy, status : RevisionStatus]
    BY <1>1 DEF update_policy_status, RevisionStatus, w
<1>3. {1} = 1 .. 1
    OBVIOUS
<1>4. IsTable(u, Policy) /\ Contiguous(u)
    <2>1. Contiguous(u)
        BY <1>2, <1>3 DEF Contiguous
    <2>2. IsTable(u, Policy)
        BY <1>2 DEF IsTable
    <2> QED  BY <2>1, <2>2
<1>5. Keeps(t, u) /\ Truthful(u, ever)
    BY <1>2 DEF Keeps, Truthful
<1> QED  BY <1>2, <1>4, <1>5 DEF GoodWrite

\* A report that is right about its row is written to it.
LEMMA ReportGood ==
    ASSUME NEW t, IsTable(t, Policy), Contiguous(t), NEW ever, Truthful(t, ever),
           NEW r, ReportOk(t, ever, r), r.status \in {"loaded", "failed"},
           NEW w, w = update_policy_status(t, r.version, r.status),
           NEW u \in {w, supersede_older_policies(w, r.version)}
    PROVE  GoodWrite(t, u, ever)
<1>1. /\ DOMAIN w = DOMAIN t
      /\ \A v \in DOMAIN t : /\ w[v] \in [policy : Policy, status : RevisionStatus]
                             /\ w[v].policy = t[v].policy
                             /\ v # r.version => w[v].status = t[v].status
                             /\ v = r.version => w[v].status = r.status
    BY DEF update_policy_status, IsTable, RevisionStatus
<1>2. /\ DOMAIN u = DOMAIN t
      /\ \A v \in DOMAIN t : /\ u[v] \in [policy : Policy, status : RevisionStatus]
                             /\ u[v].policy = w[v].policy
                             /\ u[v].status \in {w[v].status, "superseded"}
    BY <1>1 DEF supersede_older_policies, RevisionStatus
<1>3. IsTable(u, Policy) /\ Contiguous(u)
    BY <1>1, <1>2 DEF IsTable, Contiguous
<1>4. Keeps(t, u)
    BY <1>1, <1>2 DEF Keeps
<1>5. Truthful(u, ever)
    BY <1>1, <1>2 DEF Truthful, ReportOk
<1> QED  BY <1>3, <1>4, <1>5 DEF GoodWrite

LEMMA NoWriteGood ==
    ASSUME NEW t, IsTable(t, Policy), Contiguous(t), NEW ever, Truthful(t, ever)
    PROVE  GoodWrite(t, t, ever)
BY DEF GoodWrite, Keeps

\* What was read or reported stays true of its row.
LEMMA Stable ==
    ASSUME NEW t, NEW u, Keeps(t, u), NEW ever, NEW more, ever \subseteq more
    PROVE  /\ \A read : ReadOk(t, read) => ReadOk(u, read)
           /\ \A r : ReportOk(t, ever, r) => ReportOk(u, more, r)
BY DEF Keeps, ReadOk, ReportOk

-------------------------------------------------------------------------------
(* Every action keeps the inductive invariant. *)

GatewayTypes ==
    /\ rec \in [policy : Policy \cup {NoPolicy}, version : Nat]
    /\ gpolicy \in Policy \cup {NoPolicy}
    /\ setting \in Settings

\* update_config, from an operator or from the supervisor.
LEMMA UpdateGood ==
    ASSUME IInv, NEW p \in Policy, UpdateConfig(p)
    PROVE  GoodWrite(table, table', everLoaded) /\ GatewayTypes'
<1>1. IsTable(table, Policy) /\ Contiguous(table) /\ Truthful(table, everLoaded) /\ GatewayTypes
    BY DEF IInv, TypeInv, GatewayTypes
<1>2. GatewayTypes'
    BY <1>1 DEF UpdateConfig, GatewayTypes
<1>3. GoodWrite(table, table', everLoaded)
    <2>1. CASE LatestPolicy = p
        BY <1>1, <2>1, NoWriteGood DEF UpdateConfig
    <2>2. CASE LatestPolicy # p
        <3>1. table' = supersede_older_policies(
                  put_policy_revision(table, get_latest_policy(table) + 1, p),
                  get_latest_policy(table) + 1)
            BY <2>2 DEF UpdateConfig
        <3> QED  BY <1>1, <3>1, InsertGood
    <2> QED  BY <2>1, <2>2
<1> QED  BY <1>2, <1>3

\* A step that may write to the gateway, and leaves the rest of the state legal.
LEMMA SyncStep ==
    ASSUME IInv, GoodWrite(table, table', everLoaded), GatewayTypes',
           sup' \in SupType, sup'.pc = "enrich" => sup'.policy \in Policy,
           ReadOk(table', sup'.read), engine' \in Policy \cup {NoPolicy},
           everLoaded \subseteq everLoaded', everLoaded' \subseteq Policy,
           reports' \subseteq [version : Nat, status : {"loaded", "failed"}],
           \A r \in reports' \ reports : ReportOk(table', everLoaded', r),
           sup'.pc \in Started => engine' \in everLoaded' /\ engine'.net \notin BadNets
    PROVE  IInv'
<1>1. TypeInv'
    BY DEF TypeInv, GatewayTypes, GoodWrite
<1>2. \A r \in reports' : ReportOk(table', everLoaded', r)
    BY Stable DEF IInv, GoodWrite
<1>3. Truthful(table', everLoaded')
    BY DEF GoodWrite, Truthful
<1>4. EngineGood'
    BY DEF EngineGood, Started
<1> QED  BY <1>1, <1>2, <1>3, <1>4 DEF IInv

\* What IInv says, in the form the actions use.
LEMMA Facts ==
    ASSUME IInv
    PROVE  /\ IsTable(table, Policy) /\ Contiguous(table) /\ Truthful(table, everLoaded)
           /\ GoodWrite(table, table, everLoaded)
           /\ GatewayTypes /\ sup \in SupType /\ ReadOk(table, sup.read)
           /\ engine \in Policy \cup {NoPolicy} /\ everLoaded \subseteq Policy
           /\ reports \subseteq [version : Nat, status : {"loaded", "failed"}]
           /\ sup.pc = "enrich" => sup.policy \in Policy
           /\ sup.pc \in Started => engine \in everLoaded /\ engine.net \notin BadNets
<1>1. IsTable(table, Policy) /\ Contiguous(table) /\ Truthful(table, everLoaded)
    BY DEF IInv, TypeInv
<1>2. GoodWrite(table, table, everLoaded)
    BY <1>1, NoWriteGood
<1> QED  BY <1>1, <1>2 DEF IInv, TypeInv, GatewayTypes, EngineGood, Started

LEMMA NoAnswerOk ==
    /\ NoAnswer \in AnswerType /\ NoAnswer.version = 0
    /\ Booting \in SupType /\ Booting.pc = "fetch" /\ Booting.read = NoAnswer
<1>1. NoAnswer \in AnswerType /\ NoAnswer.version = 0
    BY DEF NoAnswer, AnswerType
<1> QED  BY <1>1 DEF Booting, SupType, SupLabels

\* Only the label of the supervisor changes.
LEMMA SupMove ==
    ASSUME NEW s \in SupType, NEW label \in SupLabels, NEW m, m = [s EXCEPT !.pc = label]
    PROVE  /\ m \in SupType /\ m.pc = label /\ m.policy = s.policy
           /\ m.read = s.read /\ m.track = s.track
BY DEF SupType

LEMMA QuietMove ==
    ASSUME IInv, NEW label \in SupLabels \ {"enrich"}, Goto(label), UNCHANGED gateway,
           UNCHANGED <<engine, reports, everLoaded>>,
           label \in Started => sup.pc \in Started
    PROVE  IInv'
<1>1. /\ GoodWrite(table, table, everLoaded)
      /\ GatewayTypes /\ sup \in SupType /\ ReadOk(table, sup.read)
      /\ engine \in Policy \cup {NoPolicy} /\ everLoaded \subseteq Policy
      /\ reports \subseteq [version : Nat, status : {"loaded", "failed"}]
      /\ sup.pc \in Started => engine \in everLoaded /\ engine.net \notin BadNets
    BY Facts
<1>2. sup' \in SupType /\ sup'.pc = label /\ sup'.read = sup.read
    BY <1>1, SupMove DEF Goto
<1>3. table' = table /\ GatewayTypes'
    BY <1>1 DEF gateway, GatewayTypes
<1> QED  BY <1>1, <1>2, <1>3, SyncStep

\* The answer of get_sandbox_config names a row that exists once it is sent.
LEMMA ReadGood ==
    ASSUME IInv, LazyBackfill
    PROVE  /\ GoodWrite(table, table', everLoaded)
           /\ ReadRevision \in AnswerType
           /\ ReadOk(table', ReadRevision)
<1> DEFINE n == get_latest_policy(table)
<1>1. /\ IsTable(table, Policy) /\ Contiguous(table) /\ GatewayTypes
      /\ GoodWrite(table, table, everLoaded)
    BY Facts
<1>2. n \in Nat /\ DOMAIN table = 1 .. n
    BY <1>1, LatestFacts
<1>3. rec.policy \in Policy \cup {NoPolicy}
    BY <1>1 DEF GatewayTypes
<1>4. CASE n > 0
    <2>1. n \in DOMAIN table /\ DOMAIN table # {}
        BY <1>2, <1>4
    <2>2. table' = table /\ LatestPolicy = table[n].policy /\ table[n].policy \in Policy
        BY <1>1, <1>4, <2>1 DEF LazyBackfill, LatestPolicy, IsTable
    <2>3. /\ ReadRevision.policy = LatestPolicy /\ ReadRevision.version = n
          /\ ReadRevision = [NoAnswer EXCEPT !.policy = LatestPolicy, !.source = "sandbox",
                                             !.version = n]
        BY <1>4 DEF ReadRevision, NoAnswer
    <2>4. ReadRevision \in AnswerType
        BY <1>2, <2>2, <2>3 DEF AnswerType, NoAnswer
    <2> QED  BY <1>1, <2>1, <2>2, <2>3, <2>4 DEF ReadOk
<1>5. CASE n = 0
    <2>1. DOMAIN table = {} /\ ~(n > 0)
        BY <1>2, <1>5
    <2> DEFINE v == IF rec.policy = NoPolicy THEN 0 ELSE 1
    <2>2. /\ ReadRevision.policy = rec.policy /\ ReadRevision.version = v
          /\ ReadRevision = [NoAnswer EXCEPT !.policy = rec.policy, !.source = "sandbox",
                                             !.version = v]
        BY <2>1 DEF ReadRevision, NoAnswer
    <2>3. ReadRevision \in AnswerType
        BY <1>3, <2>2 DEF AnswerType, NoAnswer
    <2>4. CASE rec.policy = NoPolicy
        BY <1>1, <2>2, <2>3, <2>4 DEF LazyBackfill, ReadOk
    <2>5. CASE rec.policy # NoPolicy
        <3>1. rec.policy \in Policy
            BY <1>3, <2>5
        <3>2. table' = update_policy_status(put_policy_revision(table, 1, rec.policy), 1, "loaded")
            BY <2>1, <2>5 DEF LazyBackfill
        <3>3. /\ GoodWrite(table, table', everLoaded)
              /\ 1 \in DOMAIN table' /\ table'[1].policy = rec.policy
            BY <2>1, <3>1, <3>2, BackfillGood
        <3> QED  BY <2>2, <2>3, <2>5, <3>3 DEF ReadOk
    <2> QED  BY <2>4, <2>5
<1> QED  BY <1>2, <1>4, <1>5

LEMMA CallKeepsIInv ==
    ASSUME IInv, NEW from \in SupLabels, NEW to \in SupLabels \ {"enrich"},
           CallConfig(from, to), to \in Started => from \in Started
    PROVE  IInv'
<1>1. /\ GatewayTypes /\ sup \in SupType
      /\ engine \in Policy \cup {NoPolicy} /\ everLoaded \subseteq Policy
      /\ reports \subseteq [version : Nat, status : {"loaded", "failed"}]
      /\ sup.pc \in Started => engine \in everLoaded /\ engine.net \notin BadNets
    BY Facts
<1>2. /\ sup' = [sup EXCEPT !.pc = to, !.read = ReadRevision] /\ sup.pc = from
      /\ LazyBackfill /\ UNCHANGED <<rec, gpolicy, setting, engine, reports, everLoaded>>
    BY DEF CallConfig, At
<1>3. /\ GoodWrite(table, table', everLoaded) /\ ReadRevision \in AnswerType
      /\ ReadOk(table', ReadRevision)
    BY <1>2, ReadGood
<1>4. sup' \in SupType /\ sup'.pc = to /\ sup'.read = ReadRevision
    BY <1>1, <1>2, <1>3 DEF SupType
<1>5. GatewayTypes'
    BY <1>1, <1>2 DEF GatewayTypes
<1> QED  BY <1>1, <1>2, <1>3, <1>4, <1>5, SyncStep

\* What an answer is about when it is not the global policy.
LEMMA AnswerGood ==
    ASSUME IInv, NEW a, a = Answer(sup.read)
    PROVE  /\ a \in AnswerType
           /\ a.source = "sandbox" => ReadOk(table, a)
<1>1. /\ sup.read \in AnswerType /\ setting \in Settings /\ gpolicy \in Policy \cup {NoPolicy}
      /\ ReadOk(table, sup.read)
    BY Facts DEF SupType, GatewayTypes
<1>2. CASE gpolicy = NoPolicy
    <2>1. /\ a = [sup.read EXCEPT !.setting = setting]
        BY <1>2 DEF Answer
    <2>2. a \in AnswerType /\ a.version = sup.read.version /\ a.policy = sup.read.policy
        BY <1>1, <2>1 DEF AnswerType
    <2> QED  BY <1>1, <2>2 DEF ReadOk
<1>3. CASE gpolicy # NoPolicy
    <2> DEFINE v == IF sup.read.version = 0 THEN 1 ELSE sup.read.version
    <2>1. a = [policy |-> gpolicy, source |-> "global", setting |-> setting, version |-> v]
        BY <1>3 DEF Answer
    <2>2. v \in Nat
        BY <1>1 DEF AnswerType
    <2> HIDE DEF v
    <2> QED  BY <1>1, <2>1, <2>2 DEF AnswerType
<1> QED  BY <1>2, <1>3

LEMMA EnrichType ==
    ASSUME NEW p \in Policy
    PROVE  Enrich(p) \in Policy
BY DEF Enrich, Policy

LEMMA OperatorKeepsIInv ==
    ASSUME IInv, Operator
    PROVE  IInv'
<1>1. /\ GoodWrite(table, table, everLoaded)
      /\ GatewayTypes /\ sup \in SupType /\ ReadOk(table, sup.read)
      /\ engine \in Policy \cup {NoPolicy} /\ everLoaded \subseteq Policy
      /\ reports \subseteq [version : Nat, status : {"loaded", "failed"}]
      /\ sup.pc = "enrich" => sup.policy \in Policy
      /\ sup.pc \in Started => engine \in everLoaded /\ engine.net \notin BadNets
    BY Facts
<1>2. ASSUME GoodWrite(table, table', everLoaded), GatewayTypes',
             UNCHANGED <<sup, engine, reports, everLoaded>>
      PROVE  IInv'
    <2>1. ReadOk(table', sup.read)
        BY <1>1, <1>2, Stable DEF GoodWrite
    <2> QED  BY <1>1, <1>2, <2>1, SyncStep
<1>3. ASSUME NEW n \in SubmittedNets, NEW e \in BOOLEAN,
             OperatorSetsPolicy([net |-> n, enr |-> e])
      PROVE  IInv'
    <2>1. [net |-> n, enr |-> e] \in Policy
        BY SyncAssumption DEF Policy
    <2>2. /\ UpdateConfig([net |-> n, enr |-> e])
          /\ UNCHANGED <<sup, engine, reports, everLoaded>>
        BY <1>3 DEF OperatorSetsPolicy
    <2> QED  BY <1>2, <2>1, <2>2, UpdateGood
<1>4. ASSUME NEW p \in [net : SubmittedNets, enr : {TRUE}] \cup {NoPolicy},
             OperatorSetsGlobal(p)
      PROVE  IInv'
    <2>1. p \in Policy \cup {NoPolicy}
        BY SyncAssumption DEF Policy
    <2>2. table' = table /\ GatewayTypes' /\ UNCHANGED <<sup, engine, reports, everLoaded>>
        BY <1>1, <1>4, <2>1 DEF OperatorSetsGlobal, GatewayTypes
    <2> QED  BY <1>1, <1>2, <2>2
<1>5. ASSUME NEW s \in Settings, OperatorChangesSetting(s) PROVE IInv'
    <2>1. table' = table /\ GatewayTypes' /\ UNCHANGED <<sup, engine, reports, everLoaded>>
        BY <1>1, <1>5 DEF OperatorChangesSetting, GatewayTypes
    <2> QED  BY <1>1, <1>2, <2>1
<1> QED  BY <1>3, <1>4, <1>5 DEF Operator

LEMMA NetworkKeepsIInv ==
    ASSUME IInv, NEW r \in reports, ReportArrives(r) \/ ReportLost(r)
    PROVE  IInv'
<1>1. /\ IsTable(table, Policy) /\ Contiguous(table) /\ Truthful(table, everLoaded)
      /\ GoodWrite(table, table, everLoaded)
      /\ GatewayTypes /\ sup \in SupType /\ ReadOk(table, sup.read)
      /\ engine \in Policy \cup {NoPolicy} /\ everLoaded \subseteq Policy
      /\ reports \subseteq [version : Nat, status : {"loaded", "failed"}]
      /\ sup.pc = "enrich" => sup.policy \in Policy
      /\ sup.pc \in Started => engine \in everLoaded /\ engine.net \notin BadNets
    BY Facts
<1>2. ReportOk(table, everLoaded, r) /\ r.version \in Nat /\ r.status \in {"loaded", "failed"}
    BY <1>1 DEF IInv
<1>3. ASSUME GoodWrite(table, table', everLoaded), GatewayTypes', reports' = reports \ {r},
             UNCHANGED <<sup, engine, everLoaded>>
      PROVE  IInv'
    <2>1. ReadOk(table', sup.read)
        BY <1>1, <1>3, Stable DEF GoodWrite
    <2>2. /\ reports' \subseteq [version : Nat, status : {"loaded", "failed"}]
          /\ reports' \ reports = {}
        BY <1>1, <1>3
    <2> QED  BY <1>1, <1>3, <2>1, <2>2, SyncStep
<1>4. CASE ReportLost(r)
    <2>1. table' = table /\ GatewayTypes'
        BY <1>1, <1>4 DEF ReportLost, gateway, GatewayTypes
    <2> QED  BY <1>1, <1>3, <1>4, <2>1 DEF ReportLost
<1>5. CASE ReportArrives(r)
    <2>1. r.version \in DOMAIN table
        BY <1>2 DEF ReportOk
    <2>2. GatewayTypes'
        <3>1. rec' \in {rec, [rec EXCEPT !.version = r.version]} /\ UNCHANGED <<gpolicy, setting>>
            BY <1>5 DEF ReportArrives
        <3> QED  BY <1>1, <1>2, <3>1 DEF GatewayTypes
    <2> DEFINE w == update_policy_status(table, r.version, r.status)
    <2>3. table' \in {w, supersede_older_policies(w, r.version)}
        BY <1>2, <1>5, <2>1 DEF ReportArrives
    <2> HIDE DEF w
    <2>4. GoodWrite(table, table', everLoaded)
        BY <1>1, <1>2, <2>3, ReportGood DEF w
    <2> QED  BY <1>3, <1>5, <2>2, <2>4 DEF ReportArrives
<1> QED  BY <1>4, <1>5

\* load_policy up to the policy to enrich.
LEMMA StartupKeepsIInv ==
    ASSUME IInv, FetchPolicyEnd \/ RefetchPolicyEnd \/ DiscoverAndSync \/ StartupFails
    PROVE  IInv'
<1>1. /\ GoodWrite(table, table, everLoaded)
      /\ GatewayTypes /\ sup \in SupType /\ ReadOk(table, sup.read)
      /\ engine \in Policy \cup {NoPolicy} /\ everLoaded \subseteq Policy
      /\ reports \subseteq [version : Nat, status : {"loaded", "failed"}]
    BY Facts
<1>2. ASSUME NEW label \in {"discover", "stopped"}, Goto(label), UNCHANGED gateway,
             UNCHANGED <<engine, reports, everLoaded>>
      PROVE  IInv'
    BY <1>2, QuietMove DEF SupLabels, Started
<1>3. CASE FetchPolicyEnd \/ RefetchPolicyEnd
    <2> DEFINE a == Answer(sup.read)
    <2>1. a \in AnswerType
        BY AnswerGood
    <2> HIDE DEF a
    <2>2. UNCHANGED gateway /\ UNCHANGED <<engine, reports, everLoaded>>
        BY <1>3 DEF FetchPolicyEnd, RefetchPolicyEnd
    <2>3. \/ Goto("discover") \/ Goto("stopped")
          \/ /\ a.policy # NoPolicy
             /\ sup' = [sup EXCEPT !.pc = "enrich", !.policy = a.policy]
        BY <1>3 DEF FetchPolicyEnd, RefetchPolicyEnd, Goto, a
    <2>4. ASSUME a.policy # NoPolicy, sup' = [sup EXCEPT !.pc = "enrich", !.policy = a.policy]
          PROVE  IInv'
        <3>1. a.policy \in Policy
            BY <2>1, <2>4 DEF AnswerType
        <3>2. /\ sup' \in SupType /\ sup'.pc = "enrich" /\ sup'.policy \in Policy
              /\ sup'.read = sup.read
            BY <1>1, <2>4, <3>1 DEF SupType, SupLabels
        <3>3. table' = table /\ GatewayTypes'
            BY <1>1, <2>2 DEF gateway, GatewayTypes
        <3>4. "enrich" \notin Started
            BY DEF Started
        <3> QED  BY <1>1, <2>2, <3>2, <3>3, <3>4, SyncStep
    <2> QED  BY <1>2, <2>2, <2>3, <2>4
<1>4. CASE DiscoverAndSync
    <2> DEFINE p == Enrich(DiskPolicy)
    <2>1. p \in Policy
        BY EnrichType, SyncAssumption
    <2> HIDE DEF p
    <2>2. CASE UpdateConfig(p) /\ Goto("refetch")
        <3>1. GoodWrite(table, table', everLoaded) /\ GatewayTypes'
            BY <2>1, <2>2, UpdateGood
        <3>2. sup' \in SupType /\ sup'.pc = "refetch" /\ sup'.read = sup.read
            BY <1>1, <2>2, SupMove DEF Goto, SupLabels
        <3>3. ReadOk(table', sup.read)
            BY <1>1, <3>1, Stable DEF GoodWrite
        <3>4. UNCHANGED <<engine, reports, everLoaded>> /\ "refetch" \notin Started
            BY <1>4 DEF DiscoverAndSync, Started
        <3> QED  BY <1>1, <3>1, <3>2, <3>3, <3>4, SyncStep
    <2>3. CASE Goto("stopped") /\ UNCHANGED gateway
        BY <1>2, <1>4, <2>3 DEF DiscoverAndSync
    <2> QED  BY <1>4, <2>2, <2>3 DEF DiscoverAndSync, p
<1>5. CASE StartupFails
    BY <1>2, <1>5 DEF StartupFails
<1> QED  BY <1>3, <1>4, <1>5

\* The engine is built from the enriched policy, whether or not it was synced back.
LEMMA EnrichKeepsIInv ==
    ASSUME IInv, EnrichAndBuild
    PROVE  IInv'
<1> DEFINE e == Enrich(sup.policy)
<1>1. /\ GoodWrite(table, table, everLoaded)
      /\ GatewayTypes /\ sup \in SupType /\ ReadOk(table, sup.read)
      /\ engine \in Policy \cup {NoPolicy} /\ everLoaded \subseteq Policy
      /\ reports \subseteq [version : Nat, status : {"loaded", "failed"}]
      /\ sup.pc = "enrich" => sup.policy \in Policy
    BY Facts
<1>2. e \in Policy
    BY <1>1, EnrichType DEF EnrichAndBuild, At
<1>3. /\ UpdateConfig(e) \/ UNCHANGED gateway
      /\ \/ Goto("stopped") /\ UNCHANGED <<engine, everLoaded>>
         \/ /\ Loads(e) /\ Goto("connect") /\ engine' = e /\ everLoaded' = everLoaded \cup {e}
      /\ reports' = reports
    BY DEF EnrichAndBuild
<1> HIDE DEF e
<1>4. GoodWrite(table, table', everLoaded) /\ GatewayTypes'
    <2>1. CASE UpdateConfig(e)
        BY <1>2, <2>1, UpdateGood
    <2>2. CASE UNCHANGED gateway
        BY <1>1, <2>2 DEF gateway, GatewayTypes
    <2> QED  BY <1>3, <2>1, <2>2
<1>5. ReadOk(table', sup.read)
    BY <1>1, <1>4, Stable DEF GoodWrite
<1>6. CASE Goto("stopped") /\ UNCHANGED <<engine, everLoaded>>
    <2>1. sup' \in SupType /\ sup'.pc = "stopped" /\ sup'.read = sup.read
        BY <1>1, <1>6, SupMove DEF Goto, SupLabels
    <2>2. "stopped" \notin Started
        BY DEF Started
    <2> QED  BY <1>1, <1>3, <1>4, <1>5, <1>6, <2>1, <2>2, SyncStep
<1>7. CASE Loads(e) /\ Goto("connect") /\ engine' = e /\ everLoaded' = everLoaded \cup {e}
    <2>1. sup' \in SupType /\ sup'.pc = "connect" /\ sup'.read = sup.read
        BY <1>1, <1>7, SupMove DEF Goto, SupLabels
    <2>2. engine' \in everLoaded' /\ engine'.net \notin BadNets
        BY <1>7 DEF Loads
    <2>3. everLoaded \subseteq everLoaded' /\ everLoaded' \subseteq Policy
        BY <1>1, <1>2, <1>7
    <2> QED  BY <1>1, <1>2, <1>3, <1>4, <1>5, <1>7, <2>1, <2>2, <2>3, SyncStep
<1> QED  BY <1>3, <1>6, <1>7

LEMMA RestartKeepsIInv ==
    ASSUME IInv, Restart
    PROVE  IInv'
<1>1. /\ GoodWrite(table, table, everLoaded) /\ GatewayTypes /\ everLoaded \subseteq Policy
      /\ reports \subseteq [version : Nat, status : {"loaded", "failed"}]
    BY Facts
<1>2. /\ sup' = Booting /\ engine' = NoPolicy
      /\ UNCHANGED gateway /\ UNCHANGED <<reports, everLoaded>>
    BY DEF Restart
<1>3. table' = table /\ GatewayTypes' /\ ReadOk(table', NoAnswer)
    BY <1>1, <1>2, NoAnswerOk DEF gateway, GatewayTypes, ReadOk
<1>4. "fetch" \notin Started
    BY DEF Started
<1> QED  BY <1>1, <1>2, <1>3, <1>4, NoAnswerOk, SyncStep

\* The end of the first poll: the answer is recorded, the engine is not looked at.
LEMMA InitialKeepsIInv ==
    ASSUME IInv, InitialPollEnd
    PROVE  IInv'
<1>1. /\ GoodWrite(table, table, everLoaded)
      /\ GatewayTypes /\ sup \in SupType /\ ReadOk(table, sup.read)
      /\ engine \in Policy \cup {NoPolicy} /\ everLoaded \subseteq Policy
      /\ reports \subseteq [version : Nat, status : {"loaded", "failed"}]
      /\ sup.pc \in Started => engine \in everLoaded /\ engine.net \notin BadNets
    BY Facts
<1> DEFINE a == Answer(sup.read)
<1>2. a \in AnswerType
    BY AnswerGood
<1> HIDE DEF a
<1>3. /\ sup' = [sup EXCEPT !.pc = "poll", !.track = a] /\ sup.pc = "init_end"
      /\ UNCHANGED gateway /\ UNCHANGED <<engine, reports, everLoaded>>
    BY DEF InitialPollEnd, At, a
<1>4. sup' \in SupType /\ sup'.pc = "poll" /\ sup'.read = sup.read
    BY <1>1, <1>2, <1>3 DEF SupType, SupLabels
<1>5. table' = table /\ GatewayTypes' /\ sup.pc \in Started
    BY <1>1, <1>3 DEF gateway, GatewayTypes, Started
<1> QED  BY <1>1, <1>3, <1>4, <1>5, SyncStep

\* The end of a poll: what is reported is about the row that was read.
LEMMA PollKeepsIInv ==
    ASSUME IInv, PollEnd
    PROVE  IInv'
<1>1. /\ GoodWrite(table, table, everLoaded)
      /\ GatewayTypes /\ sup \in SupType /\ ReadOk(table, sup.read)
      /\ engine \in Policy \cup {NoPolicy} /\ everLoaded \subseteq Policy
      /\ reports \subseteq [version : Nat, status : {"loaded", "failed"}]
      /\ sup.pc \in Started => engine \in everLoaded /\ engine.net \notin BadNets
    BY Facts
<1> DEFINE a        == Answer(sup.read)
           changed  == Revision(a) # Revision(sup.track)
           reload   == changed /\ Hash(a) # Hash(sup.track) /\ a.policy # NoPolicy
           good     == reload /\ Loads(a.policy)
           reported == reload /\ a.version > 0 /\ a.source = "sandbox"
           label    == IF reported THEN "reporting" ELSE "poll"
           track    == IF changed THEN a ELSE sup.track
<1>2. a \in AnswerType /\ (a.source = "sandbox" => ReadOk(table, a))
    BY AnswerGood
<1>3. /\ sup' = [sup EXCEPT !.pc = label, !.track = track, !.read = NoAnswer]
      /\ sup.pc = "poll_end"
      /\ IF good THEN engine' = a.policy /\ everLoaded' = everLoaded \cup {a.policy}
         ELSE UNCHANGED <<engine, everLoaded>>
      /\ IF reload THEN Report(a, LoadStatus(good)) ELSE UNCHANGED reports
      /\ UNCHANGED gateway
    BY <1>1 DEF PollEnd, At, SupType
<1>4. label \in {"reporting", "poll"} /\ track \in AnswerType
    BY <1>1, <1>2 DEF SupType
<1>5. good => reload /\ Loads(a.policy)
    OBVIOUS
<1>6. reload /\ ~good => ~Loads(a.policy)
    OBVIOUS
<1>7. reload => a.policy \in Policy
    BY <1>2 DEF AnswerType
<1>8. good \in BOOLEAN
    OBVIOUS
<1> HIDE DEF a, reload, good, reported, label, track
<1>9. sup' \in SupType /\ sup'.pc \in {"reporting", "poll"} /\ sup'.read = NoAnswer
    BY <1>1, <1>3, <1>4, NoAnswerOk DEF SupType, SupLabels
<1>10. table' = table /\ GatewayTypes' /\ sup.pc \in Started /\ ReadOk(table', NoAnswer)
    BY <1>1, <1>3, NoAnswerOk DEF gateway, GatewayTypes, Started, ReadOk
<1>11. /\ engine' \in Policy \cup {NoPolicy}
       /\ everLoaded \subseteq everLoaded' /\ everLoaded' \subseteq Policy
       /\ engine' \in everLoaded' /\ engine'.net \notin BadNets
    <2>1. CASE good
        BY <1>1, <1>3, <1>5, <1>7, <2>1 DEF Loads
    <2>2. CASE ~good
        BY <1>1, <1>3, <1>10, <2>2
    <2> QED  BY <2>1, <2>2
<1>12. /\ reports' \subseteq [version : Nat, status : {"loaded", "failed"}]
       /\ \A r \in reports' \ reports : ReportOk(table', everLoaded', r)
    <2>1. CASE reports' = reports
        BY <1>1, <2>1
    <2>2. CASE /\ reload /\ a.version > 0 /\ a.source = "sandbox"
               /\ reports' = reports \cup {[version |-> a.version, status |-> LoadStatus(good)]}
        <3>1. a.version \in DOMAIN table /\ table[a.version].policy = a.policy
            BY <1>2, <2>2 DEF ReadOk
        <3>2. LoadStatus(good) \in {"loaded", "failed"}
            BY DEF LoadStatus
        <3>3. LoadStatus(good) = "loaded" => a.policy \in everLoaded'
            BY <1>3, <1>8 DEF LoadStatus
        <3>4. LoadStatus(good) = "failed" => a.policy.net \in BadNets
            BY <1>6, <1>8, <2>2 DEF LoadStatus, Loads
        <3>5. a.version \in Nat
            BY <1>2 DEF AnswerType
        <3> DEFINE r == [version |-> a.version, status |-> LoadStatus(good)]
        <3>6. ReportOk(table', everLoaded', r)
            BY <1>10, <3>1, <3>3, <3>4 DEF ReportOk
        <3>7. r \in [version : Nat, status : {"loaded", "failed"}]
            BY <3>2, <3>5
        <3>8. reports' = reports \cup {r}
            BY <2>2
        <3> HIDE DEF r
        <3> QED  BY <1>1, <3>6, <3>7, <3>8
    <2> QED  BY <1>3, <2>1, <2>2 DEF Report
<1> QED  BY <1>1, <1>9, <1>10, <1>11, <1>12, SyncStep

LEMMA InitIInv == Init => IInv
<1> SUFFICES ASSUME Init PROVE IInv
    OBVIOUS
<1>1. DOMAIN table = {} /\ {} = 1 .. 0
    BY DEF Init, EmptyTable
<1>2. IsTable(table, Policy) /\ Contiguous(table) /\ Truthful(table, everLoaded)
    BY <1>1 DEF IsTable, Contiguous, Truthful
<1>3. TypeInv
    BY <1>2, NoAnswerOk, SyncAssumption DEF Init, TypeInv
<1> QED  BY <1>2, <1>3, NoAnswerOk DEF Init, IInv, ReadOk, EngineGood, Started, NoAnswer

LEMMA NextIInv == IInv /\ [Next]_vars => IInv'
<1> SUFFICES ASSUME IInv, [Next]_vars PROVE IInv'
    OBVIOUS
<1>1. CASE UNCHANGED vars
    <2>1. TypeInv' /\ EngineGood'
        BY <1>1 DEF vars, IInv, TypeInv, EngineGood
    <2> QED  BY <1>1, <2>1 DEF vars, IInv
<1>2. CASE FetchPolicy \/ RefetchPolicy \/ InitialPoll \/ Poll
    BY <1>2, CallKeepsIInv DEF FetchPolicy, RefetchPolicy, InitialPoll, Poll, SupLabels, Started
<1>3. CASE Connect \/ ConnectFails \/ InitialPollFails \/ ReportReturns
    BY <1>3, QuietMove DEF Connect, ConnectFails, InitialPollFails, ReportReturns, At,
                           SupLabels, Started
<1>4. CASE Operator
    BY <1>4, OperatorKeepsIInv
<1>5. CASE Network
    BY <1>5, NetworkKeepsIInv DEF Network
<1> QED  BY <1>1, <1>2, <1>3, <1>4, <1>5, StartupKeepsIInv, EnrichKeepsIInv, RestartKeepsIInv,
            InitialKeepsIInv, PollKeepsIInv DEF Next, Supervisor, Failure

-------------------------------------------------------------------------------
(* The theorems. *)

\* The inductive invariant holds in every state, of the supervisor and the gateway.
THEOREM Invariance == Spec => []IInv
BY InitIInv, NextIInv, PTL DEF Spec

\* What report_policy_status writes is true of the very policy of that revision,
\* however late a report arrives, after whatever reloads, restarts and new
\* revisions: loaded was in the engine, failed was refused by it.
THEOREM StatusIsTrue == Spec => []StatusTruthful
<1>1. IInv => StatusTruthful
    BY DEF IInv, Truthful, StatusTruthful
<1> QED  BY <1>1, Invariance, PTL

\* Nothing is tracked before the first answer; afterwards the tracked policy is
\* the engine's, unless it was refused.
TrackInv ==
    /\ ~Polling => sup.track.policy = NoPolicy
    /\ TrackedIsEnforced

LEMMA TrackStep ==
    ASSUME IInv, TrackInv, [Next]_vars
    PROVE  TrackInv'
<1>1. sup \in SupType /\ engine \in Policy \cup {NoPolicy} /\ EngineGood
    BY DEF IInv, TypeInv
<1>2. CASE UNCHANGED <<sup, engine, inSync>>
    BY <1>2 DEF TrackInv, TrackedIsEnforced, Polling
<1>3. ASSUME sup'.track = sup.track, Polling' <=> Polling, UNCHANGED <<engine, inSync>>
      PROVE  TrackInv'
    BY <1>3 DEF TrackInv, TrackedIsEnforced
<1>4. ASSUME sup'.track = sup.track, ~Polling, ~Polling'
      PROVE  TrackInv'
    BY <1>4 DEF TrackInv, TrackedIsEnforced
<1>5. CASE Operator \/ Network
    BY <1>2, <1>5 DEF Operator, OperatorSetsPolicy, OperatorSetsGlobal, OperatorChangesSetting,
        Network, ReportArrives, ReportLost
<1>6. CASE FetchPolicy \/ RefetchPolicy \/ InitialPoll
    BY <1>1, <1>4, <1>6 DEF FetchPolicy, RefetchPolicy, InitialPoll, CallConfig, At, Polling, SupType
<1>7. CASE Poll \/ ReportReturns
    BY <1>1, <1>3, <1>7 DEF Poll, ReportReturns, CallConfig, At, Goto, Polling, SupType
<1>8. CASE FetchPolicyEnd \/ RefetchPolicyEnd \/ DiscoverAndSync \/ StartupFails \/ Connect
           \/ ConnectFails \/ EnrichAndBuild
    BY <1>1, <1>4, <1>8 DEF FetchPolicyEnd, RefetchPolicyEnd, DiscoverAndSync, StartupFails, Connect,
        ConnectFails, EnrichAndBuild, At, Goto, Polling, SupType
<1>9. CASE Restart
    BY <1>9 DEF Restart, Booting, NoAnswer, Polling, TrackInv, TrackedIsEnforced
<1>10. CASE InitialPollFails
    BY <1>1, <1>10 DEF InitialPollFails, At, Goto, Polling, SupType, TrackInv, TrackedIsEnforced
<1>11. CASE InitialPollEnd
    <2> DEFINE a == Answer(sup.read)
    <2>1. /\ sup'.track = a /\ engine' = engine /\ Polling'
          /\ inSync' = (a.policy # NoPolicy /\ a.policy.net = engine.net)
        BY <1>1, <1>11 DEF InitialPollEnd, SupType, Polling
    <2>2. engine # NoPolicy
        BY <1>1, <1>11, SyncAssumption DEF InitialPollEnd, At, EngineGood, Started, IInv, TypeInv
    <2> HIDE DEF a
    <2> QED  BY <2>1, <2>2 DEF TrackInv, TrackedIsEnforced
<1>12. CASE PollEnd
    <2> DEFINE a == Answer(sup.read)
    <2>1. /\ sup.pc = "poll_end" /\ Polling /\ Polling'
          /\ sup'.track = IF Revision(a) # Revision(sup.track) THEN a ELSE sup.track
        BY <1>1, <1>12 DEF PollEnd, At, SupType, Polling
    <2>2. CASE /\ Revision(a) # Revision(sup.track) /\ Hash(a) # Hash(sup.track)
               /\ a.policy # NoPolicy /\ Loads(a.policy)
        <3>1. engine' = a.policy /\ sup'.track = a
            BY <1>12, <2>1, <2>2 DEF PollEnd
        <3> HIDE DEF a
        <3> QED  BY <2>1, <2>2, <3>1 DEF TrackInv, TrackedIsEnforced
    <2>3. CASE ~ /\ Revision(a) # Revision(sup.track) /\ Hash(a) # Hash(sup.track)
                 /\ a.policy # NoPolicy /\ Loads(a.policy)
        <3>1. UNCHANGED <<engine, inSync>>
            BY <1>12, <2>3 DEF PollEnd
        <3>2. \/ sup'.track.policy = sup.track.policy
              \/ sup'.track.policy = NoPolicy
              \/ sup'.track.policy.net \in BadNets
            BY <2>1, <2>3 DEF Hash, Loads
        <3> HIDE DEF a
        <3> QED  BY <2>1, <3>1, <3>2 DEF TrackInv, TrackedIsEnforced
    <2> QED  BY <2>2, <2>3
<1>13. CASE UNCHANGED vars
    BY <1>2, <1>13 DEF vars
<1> QED  BY <1>5, <1>6, <1>7, <1>8, <1>9, <1>10, <1>11, <1>12, <1>13 DEF Next, Supervisor, Failure

\* TrackedIsEnforced for any policies, changes and restarts: refused policies,
\* answers without one and changes of the source between two good policies never
\* leave the loop believing that the engine runs what it does not.
THEOREM EngineFollowsTrack == Spec => []TrackedIsEnforced
<1>1. Init => TrackInv
    BY DEF Init, Booting, NoAnswer, TrackInv, TrackedIsEnforced, Polling
<1>2. TrackInv => TrackedIsEnforced
    BY DEF TrackInv
<1> QED  BY <1>1, <1>2, TrackStep, Invariance, PTL DEF Spec

-----------------------------------------------------------------------------
(* Provider records, which a request of the gateway reads and writes back at *)
(* a later await, and the route cache that connections share with the        *)
(* refresh task (module Inference).                                          *)

\* Provider records: the stored ones, and those a request is about to put.
Stored == {providers[n] : n \in ProviderNames} \ {None}
Putting == {c \in Calls : calls[c].pc = "put"}
Records == Stored \cup {calls[c].row : c \in Putting}

Record(r) ==
    /\ DOMAIN r = {"id", "name", "type", "credentials", "config"}
    /\ r.id \in Nat /\ r.id < begun /\ r.name \in ProviderNames

\* A create has drawn its id and put nothing under it yet.
Creates(c) ==
    calls[c].pc = "create" =>
        /\ calls[c].id \in Nat /\ calls[c].id < begun
        /\ calls[c].name \in ProviderNames /\ calls[c].content \in Contents
        /\ \A r \in Records : r.id # calls[c].id
        /\ \A d \in Calls : calls[d].pc = "create" /\ d # c => calls[d].id # calls[c].id

\* An id belongs to one create: whatever is stored or about to be put under it
\* has the type of that create.
ProviderInv ==
    /\ providers = [n \in ProviderNames |-> providers[n]]
    /\ calls = [c \in Calls |-> calls[c]]
    /\ begun \in Nat
    /\ \A n \in ProviderNames : providers[n] # None => providers[n].name = n
    /\ \A r \in Records : Record(r)
    /\ \A r, s \in Records : r.id = s.id => r.type = s.type
    /\ \A c \in Calls : Creates(c)
    /\ \A c \in Calls : /\ "pc" \in DOMAIN calls[c]
                        /\ calls[c].pc = "update" => calls[c].name \in ProviderNames

\* A request that goes on, ends, or stores or deletes a record.
LEMMA NoNewRecord ==
    ASSUME ProviderInv, NEW c \in Calls, NEW new, calls' = [calls EXCEPT ![c] = new],
           "pc" \in DOMAIN new, new.pc \notin {"create", "put", "update"}, UNCHANGED begun,
           providers' = [n \in ProviderNames |-> providers'[n]],
           \A n \in ProviderNames : providers'[n] # None /\ providers'[n] # providers[n] =>
               c \in Putting /\ providers'[n] = calls[c].row /\ calls[c].row.name = n
    PROVE  ProviderInv'
<1>1. Records' \subseteq Records
    <2>1. Stored' \subseteq Stored \cup {calls[d].row : d \in Putting}
        BY DEF Stored
    <2>2. \A d \in Putting' : d \in Putting /\ calls'[d] = calls[d]
        BY DEF Putting, ProviderInv
    <2> QED  BY <2>1, <2>2 DEF Records
<1>2. \A r \in Records' : Record(r)'
    BY <1>1 DEF ProviderInv, Record
<1>3. \A r, s \in Records' : r.id = s.id => r.type = s.type
    BY <1>1 DEF ProviderInv
<1>4. \A d \in Calls : calls'[d].pc \in {"create", "update"} =>
          calls'[d] = calls[d] /\ d # c
    BY DEF ProviderInv
<1>5. \A d \in Calls : Creates(d)'
    BY <1>1, <1>4 DEF ProviderInv, Creates
<1>6. /\ \A n \in ProviderNames : providers'[n] # None => providers'[n].name = n
      /\ \A d \in Calls : "pc" \in DOMAIN calls'[d]
    BY DEF ProviderInv
<1> QED
    BY <1>2, <1>3, <1>4, <1>5, <1>6 DEF ProviderInv

\* A request that goes on to the put of a record.
LEMMA NewRecord ==
    ASSUME ProviderInv, NEW c \in Calls, NEW new, calls' = [calls EXCEPT ![c] = new],
           "pc" \in DOMAIN new, new.pc = "put", UNCHANGED <<begun, providers>>,
           Record(new.row),
           \/ calls[c].pc = "create" /\ new.row.id = calls[c].id
           \/ \E n \in ProviderNames :
                 /\ providers[n] # None
                 /\ new.row.id = providers[n].id /\ new.row.type = providers[n].type
    PROVE  ProviderInv'
<1>1. Records' \subseteq Records \cup {new.row}
    BY DEF Records, Stored, Putting, ProviderInv
<1>2. \A r \in Records' : Record(r)'
    BY <1>1 DEF ProviderInv, Record
<1>3. ASSUME NEW r \in Records, r.id = new.row.id
      PROVE  r.type = new.row.type
    <2>1. CASE calls[c].pc = "create" /\ new.row.id = calls[c].id
        BY <1>3, <2>1 DEF ProviderInv, Creates
    <2>2. ASSUME NEW n \in ProviderNames, providers[n] # None,
                 new.row.id = providers[n].id, new.row.type = providers[n].type
          PROVE  r.type = new.row.type
        <3>1. providers[n] \in Records
            BY <2>2 DEF Records, Stored
        <3> QED  BY <1>3, <2>2, <3>1 DEF ProviderInv
    <2> QED  BY <2>1, <2>2
<1>4. \A r, s \in Records' : r.id = s.id => r.type = s.type
    BY <1>1, <1>3 DEF ProviderInv
<1>5. \A d \in Calls : calls'[d].pc \in {"create", "update"} =>
          calls'[d] = calls[d] /\ d # c
    BY DEF ProviderInv
<1>6. ASSUME NEW d \in Calls, d # c, calls[d].pc = "create"
      PROVE  new.row.id # calls[d].id
    <2>1. CASE calls[c].pc = "create" /\ new.row.id = calls[c].id
        BY <1>6, <2>1 DEF ProviderInv, Creates
    <2>2. CASE \E n \in ProviderNames : providers[n] # None /\ new.row.id = providers[n].id
        BY <1>6, <2>2 DEF ProviderInv, Creates, Records, Stored
    <2> QED  BY <2>1, <2>2
<1>7. \A d \in Calls : Creates(d)'
    BY <1>1, <1>5, <1>6 DEF ProviderInv, Creates
<1>8. /\ providers' = [n \in ProviderNames |-> providers'[n]]
      /\ calls' = [d \in Calls |-> calls'[d]] /\ begun' \in Nat
      /\ \A d \in Calls : "pc" \in DOMAIN calls'[d]
      /\ \A n \in ProviderNames : providers'[n] # None => providers'[n].name = n
    BY DEF ProviderInv
<1> QED
    BY <1>2, <1>4, <1>5, <1>7, <1>8 DEF ProviderInv
LEMMA BeginKeeps ==
    ASSUME ProviderInv, NEW c \in Calls, Begin(c)
    PROVE  ProviderInv'
<1>1. begun' = begun + 1 /\ begun \in Nat /\ UNCHANGED providers
    BY DEF Begin, ProviderInv
<1> DEFINE Begun(new) ==
        /\ calls' = [calls EXCEPT ![c] = new] /\ "pc" \in DOMAIN new /\ new.pc # "put"
        /\ new.pc = "create" => /\ new.id = begun /\ new.name \in ProviderNames
                                /\ new.content \in Contents
        /\ new.pc = "update" => new.name \in ProviderNames
<1>2. PICK new : Begun(new)
    <2>1. PICK n \in ProviderNames :
              \/ \E p \in Contents :
                    calls' = [calls EXCEPT ![c] = [pc |-> "create", id |-> begun, name |-> n,
                                                         content |-> p]]
              \/ \E p \in Contents :
                    calls' = [calls EXCEPT ![c] = [pc |-> "update", name |-> n, content |-> p]]
              \/ calls' = [calls EXCEPT ![c] = [pc |-> "delete", name |-> n]]
              \/ calls' = [calls EXCEPT ![c] = [pc |-> "env", left |-> <<n>>, list |-> <<>>]]
              \/ \E r, m : calls' = [calls EXCEPT ![c] = [pc |-> "setProvider", id |-> begun,
                                                               route |-> r, name |-> n, model |-> m]]
        BY DEF Begin
    <2>2. ASSUME NEW p \in Contents,
                 calls' = [calls EXCEPT ![c] = [pc |-> "create", id |-> begun, name |-> n,
                                                      content |-> p]]
          PROVE  \E new : Begun(new)
        <3> WITNESS [pc |-> "create", id |-> begun, name |-> n, content |-> p]
        <3> QED  BY <2>2
    <2>3. ASSUME NEW p \in Contents,
                 calls' = [calls EXCEPT ![c] = [pc |-> "update", name |-> n, content |-> p]]
          PROVE  \E new : Begun(new)
        <3> WITNESS [pc |-> "update", name |-> n, content |-> p]
        <3> QED  BY <2>3
    <2>4. CASE calls' = [calls EXCEPT ![c] = [pc |-> "delete", name |-> n]]
        <3> SUFFICES \E new : Begun(new)  OBVIOUS
        <3> WITNESS [pc |-> "delete", name |-> n]
        <3> QED  BY <2>4
    <2>5. CASE calls' = [calls EXCEPT ![c] = [pc |-> "env", left |-> <<n>>, list |-> <<>>]]
        <3> SUFFICES \E new : Begun(new)  OBVIOUS
        <3> WITNESS [pc |-> "env", left |-> <<n>>, list |-> <<>>]
        <3> QED  BY <2>5
    <2>6. ASSUME NEW r, NEW m,
                 calls' = [calls EXCEPT ![c] = [pc |-> "setProvider", id |-> begun,
                                                      route |-> r, name |-> n, model |-> m]]
          PROVE  \E new : Begun(new)
        <3> WITNESS [pc |-> "setProvider", id |-> begun, route |-> r, name |-> n, model |-> m]
        <3> QED  BY <2>6
    <2> HIDE DEF Begun
    <2> QED  BY <2>1, <2>2, <2>3, <2>4, <2>5, <2>6
<1>3. Records' \subseteq Records
    BY <1>1, <1>2 DEF Records, Stored, Putting, ProviderInv
<1>4. \A r \in Records' : Record(r)'
    BY <1>1, <1>3 DEF ProviderInv, Record
<1>5. \A r, s \in Records' : r.id = s.id => r.type = s.type
    BY <1>3 DEF ProviderInv
<1>6. \A d \in Calls : calls'[d] = IF d = c THEN new ELSE calls[d]
    BY <1>2 DEF ProviderInv
<1>7. ASSUME NEW d \in Calls, calls'[d].pc = "create"
      PROVE  Creates(d)'
    <2>1. CASE d = c
        BY <1>1, <1>2, <1>3, <1>6, <1>7, <2>1 DEF ProviderInv, Creates, Record
    <2>2. CASE d # c
        BY <1>1, <1>2, <1>3, <1>6, <1>7, <2>2 DEF ProviderInv, Creates, Record
    <2> QED  BY <2>1, <2>2
<1>8. \A d \in Calls : Creates(d)'
    BY <1>7 DEF Creates
<1>9. /\ providers' = [n \in ProviderNames |-> providers'[n]]
      /\ calls' = [d \in Calls |-> calls'[d]]
      /\ \A n \in ProviderNames : providers'[n] # None => providers'[n].name = n
      /\ \A d \in Calls : /\ "pc" \in DOMAIN calls'[d]
                          /\ calls'[d].pc = "update" => calls'[d].name \in ProviderNames
    BY <1>1, <1>2, <1>6 DEF ProviderInv
<1> QED
    BY <1>1, <1>4, <1>5, <1>8, <1>9 DEF ProviderInv

LEMMA CreateKeeps ==
    ASSUME ProviderInv, NEW c \in Calls, CreateProvider(c)
    PROVE  ProviderInv'
<1>1. /\ calls[c].pc = "create" /\ UNCHANGED <<begun, providers>>
      /\ calls[c].id \in Nat /\ calls[c].id < begun
      /\ calls[c].name \in ProviderNames /\ calls[c].content \in Contents
    BY DEF CreateProvider, CallAt, ProviderInv, Creates
<1>2. CASE providers[calls[c].name] # None
    <2>1. calls' = [calls EXCEPT ![c] = Idle]
        BY <1>2 DEF CreateProvider, Reply
    <2> QED  BY <1>1, <2>1, NoNewRecord DEF Idle, ProviderInv
<1>3. CASE providers[calls[c].name] = None
    <2> DEFINE row == [id |-> calls[c].id, name |-> calls[c].name,
                       type |-> calls[c].content.type,
                       credentials |-> calls[c].content.credentials,
                       config |-> calls[c].content.config]
               new == [pc |-> "put", name |-> calls[c].name, row |-> row]
    <2>1. calls' = [calls EXCEPT ![c] = new]
        BY <1>3 DEF CreateProvider
    <2>2. row.id = calls[c].id /\ Record(row)
        BY <1>1 DEF Record
    <2> HIDE DEF row
    <2>3. "pc" \in DOMAIN new /\ new.pc = "put" /\ new.row = row
        OBVIOUS
    <2> HIDE DEF new
    <2> QED  BY <1>1, <2>1, <2>2, <2>3, NewRecord
<1> QED  BY <1>2, <1>3

LEMMA UpdateKeeps ==
    ASSUME ProviderInv, NEW c \in Calls, UpdateProvider(c)
    PROVE  ProviderInv'
<1> DEFINE old == providers[calls[c].name]
<1>1. /\ UNCHANGED <<begun, providers>> /\ calls[c].name \in ProviderNames
    BY DEF UpdateProvider, CallAt, ProviderInv
<1>2. \/ calls' = [calls EXCEPT ![c] = Idle]
      \/ /\ old # None
         /\ \E x, y : calls' = [calls EXCEPT ![c] = [pc |-> "put", name |-> old.name,
                                     row |-> [old EXCEPT !.credentials = x, !.config = y]]]
    BY DEF UpdateProvider, Reply
<1>3. CASE calls' = [calls EXCEPT ![c] = Idle]
    BY <1>1, <1>3, NoNewRecord DEF Idle, ProviderInv
<1>4. ASSUME NEW x, NEW y, old # None,
             calls' = [calls EXCEPT ![c] = [pc |-> "put", name |-> old.name,
                                     row |-> [old EXCEPT !.credentials = x, !.config = y]]]
      PROVE  ProviderInv'
    <2> DEFINE row == [old EXCEPT !.credentials = x, !.config = y]
               new == [pc |-> "put", name |-> old.name, row |-> row]
    <2>1. Record(old)
        BY <1>1, <1>4 DEF ProviderInv, Records, Stored
    <2>2. Record(row) /\ row.id = old.id /\ row.type = old.type
        BY <2>1 DEF Record
    <2>3. "pc" \in DOMAIN new /\ new.pc = "put" /\ new.row = row /\ calls' = [calls EXCEPT ![c] = new]
        BY <1>4
    <2> HIDE DEF new, row
    <2> QED  BY <1>1, <1>4, <2>2, <2>3, NewRecord
<1> QED  BY <1>2, <1>3, <1>4

\* The other steps of a request put no new record.
LEMMA OtherCallKeeps ==
    ASSUME ProviderInv, NEW c \in Calls,
           \/ PutProvider(c) \/ DeleteProvider(c) \/ ReadEnvironment(c)
           \/ SetReadProvider(c) \/ SetVerify(c) \/ SetReadRoute(c)
           \/ SetPutRoute(c) \/ DropCall(c)
    PROVE  ProviderInv'
<1> USE DEF CallAt
<1> DEFINE Ended == calls' = [calls EXCEPT ![c] = Idle]
           Same == UNCHANGED <<begun, providers>>
<1>1. CASE PutProvider(c)
    <2> DEFINE row == calls[c].row
    <2>1. /\ c \in Putting /\ Ended /\ UNCHANGED begun
          /\ providers' \in {providers, [providers EXCEPT ![row.name] = row]}
        BY <1>1 DEF PutProvider, Reply, Putting
    <2>2. row.name \in ProviderNames
        BY <2>1 DEF ProviderInv, Records, Record
    <2> HIDE DEF row
    <2>3. /\ providers' = [n \in ProviderNames |-> providers'[n]]
          /\ \A n \in ProviderNames :
                providers'[n] # providers[n] => providers'[n] = row /\ row.name = n
        BY <2>1, <2>2 DEF ProviderInv
    <2>4. "pc" \in DOMAIN Idle /\ Idle.pc \notin {"create", "put", "update"}
        BY DEF Idle
    <2> QED  BY <2>1, <2>3, <2>4, NoNewRecord DEF row
<1>2. CASE DeleteProvider(c)
    <2>1. /\ Ended /\ UNCHANGED begun
          /\ providers' = [providers EXCEPT ![calls[c].name] = None]
        BY <1>2 DEF DeleteProvider, Reply
    <2>2. /\ providers' = [n \in ProviderNames |-> providers'[n]]
          /\ \A n \in ProviderNames : providers'[n] # None => providers'[n] = providers[n]
        BY <2>1 DEF ProviderInv
    <2>3. "pc" \in DOMAIN Idle /\ Idle.pc \notin {"create", "put", "update"}
        BY DEF Idle
    <2> QED  BY <2>1, <2>2, <2>3, NoNewRecord
<1>3. CASE DropCall(c) \/ SetPutRoute(c)
    <2>1. Ended /\ Same
        BY <1>3 DEF DropCall, SetPutRoute, Reply
    <2> QED  BY <2>1, NoNewRecord DEF Idle, ProviderInv
<1>4. CASE ReadEnvironment(c)
    <2>1. /\ Same /\ calls[c].pc = "env"
          /\ Ended \/ \E x, y : calls' = [calls EXCEPT ![c].left = x, ![c].list = y]
        BY <1>4 DEF ReadEnvironment, Reply
    <2>2. CASE Ended
        BY <2>1, <2>2, NoNewRecord DEF Idle, ProviderInv
    <2>3. ASSUME NEW x, NEW y, calls' = [calls EXCEPT ![c].left = x, ![c].list = y]
          PROVE  ProviderInv'
        <3> DEFINE new == [calls[c] EXCEPT !.left = x, !.list = y]
        <3>1. "pc" \in DOMAIN new /\ new.pc = "env"
            BY <2>1 DEF ProviderInv
        <3>2. calls' = [calls EXCEPT ![c] = new]
            BY <2>3 DEF ProviderInv
        <3> QED  BY <2>1, <3>1, <3>2, NoNewRecord DEF ProviderInv
    <2> QED  BY <2>1, <2>2, <2>3
<1>5. CASE SetReadProvider(c)
    <2>1. /\ Same
          /\ Ended \/ \E p, x, i, r, n, m : /\ p \in {"setRoute", "verify"}
                                           /\ calls' = [calls EXCEPT ![c] =
                                                [pc |-> p, probe |-> x, id |-> i, route |-> r,
                                                 name |-> n, model |-> m]]
        BY <1>5 DEF SetReadProvider, Reply
    <2>2. CASE Ended
        BY <2>1, <2>2, NoNewRecord DEF Idle, ProviderInv
    <2>3. ASSUME NEW p \in {"setRoute", "verify"}, NEW x, NEW i, NEW r, NEW n, NEW m,
                 calls' = [calls EXCEPT ![c] = [pc |-> p, probe |-> x, id |-> i, route |-> r,
                                                      name |-> n, model |-> m]]
          PROVE  ProviderInv'
        BY <2>1, <2>3, NoNewRecord DEF ProviderInv
    <2> QED  BY <2>1, <2>2, <2>3
<1>6. CASE SetVerify(c)
    <2>1. /\ Same
          /\ Ended \/ calls' = [calls EXCEPT ![c].pc = "setRoute", ![c].probe = "none"]
        BY <1>6 DEF SetVerify, Reply
    <2>2. CASE Ended
        BY <2>1, <2>2, NoNewRecord DEF Idle, ProviderInv
    <2>3. CASE calls' = [calls EXCEPT ![c].pc = "setRoute", ![c].probe = "none"]
        <3> DEFINE new == [calls[c] EXCEPT !.pc = "setRoute", !.probe = "none"]
        <3>1. "pc" \in DOMAIN new /\ new.pc = "setRoute"
            BY DEF ProviderInv
        <3>2. calls' = [calls EXCEPT ![c] = new]
            BY <2>3 DEF ProviderInv
        <3> QED  BY <2>1, <3>1, <3>2, NoNewRecord DEF ProviderInv
    <2> QED  BY <2>1, <2>2, <2>3
<1>7. CASE SetReadRoute(c)
    <2>1. Same /\ \E r, x : calls' = [calls EXCEPT ![c] =
                                            [pc |-> "setPut", route |-> r, row |-> x]]
        BY <1>7 DEF SetReadRoute
    <2> QED  BY <2>1, NoNewRecord DEF ProviderInv
<1> QED  BY <1>1, <1>2, <1>3, <1>4, <1>5, <1>6, <1>7

LEMMA ProviderStep ==
    ASSUME ProviderInv, [InferenceNext]_inferenceVars
    PROVE  ProviderInv'
<1>1. CASE UNCHANGED <<providers, calls, begun>>
    <2>1. UNCHANGED Records
        BY <1>1 DEF Records, Stored, Putting
    <2> QED  BY <1>1, <2>1 DEF ProviderInv, Record, Creates
<1>2. ASSUME NEW c \in Calls, Begin(c) \/ CallStep(c) \/ DropCall(c)
      PROVE  ProviderInv'
    BY <1>2, BeginKeeps, CreateKeeps, UpdateKeeps, OtherCallKeeps DEF CallStep
<1>3. CASE RefreshStep \/ FetchFails \/ UNCHANGED inferenceVars
    BY <1>1, <1>3 DEF RefreshStep, FetchStart, FetchReadRoute, FetchReadProvider,
        FetchCompare, WriteUser, WriteSystem, FetchFails, gatewayVars, inferenceVars
<1>4. ASSUME NEW k \in Conns, OpenTunnel(k) \/ ReadRequest(k) \/ CloseTunnel(k)
                              \/ ConnStep(k) \/ WriteAnswer(k)
      PROVE  ProviderInv'
    BY <1>1, <1>4 DEF OpenTunnel, ReadRequest, CloseTunnel, ConnStep,
        ReadLock, RouteRequest, WriteAnswer, gatewayVars
<1> QED  BY <1>2, <1>3, <1>4 DEF InferenceNext

\* Only a put changes a record, and it finds the one it was made from, or none.
LEMMA PutsKeepIdentity ==
    ASSUME ProviderInv, [InferenceNext]_inferenceVars, NEW n \in ProviderNames,
           providers[n] # None, providers'[n] # None
    PROVE  providers'[n].id = providers[n].id /\ providers'[n].type = providers[n].type
<1>1. ASSUME NEW c \in Calls, PutProvider(c)
      PROVE  providers'[n].id = providers[n].id /\ providers'[n].type = providers[n].type
    <2>1. \/ UNCHANGED providers
          \/ /\ providers' = [providers EXCEPT ![calls[c].row.name] = calls[c].row]
             /\ \/ providers[calls[c].row.name] = None
                \/ providers[calls[c].row.name].id = calls[c].row.id
        BY <1>1 DEF PutProvider
    <2>2. calls[c].row \in Records
        BY <1>1 DEF PutProvider, CallAt, Records, Putting
    <2>3. providers[n] \in Records
        BY DEF Records, Stored
    <2> QED  BY <2>1, <2>2, <2>3 DEF ProviderInv
<1>2. ASSUME NEW c \in Calls, DeleteProvider(c)
      PROVE  providers'[n] = providers[n]
    BY <1>2 DEF DeleteProvider, ProviderInv
<1>3. ASSUME NEW c \in Calls, Begin(c) \/ CallStep(c) \/ DropCall(c),
             ~PutProvider(c), ~DeleteProvider(c)
      PROVE  UNCHANGED providers
    BY <1>3 DEF Begin, CallStep, DropCall, CreateProvider, UpdateProvider,
        ReadEnvironment, SetReadProvider, SetVerify, SetReadRoute, SetPutRoute
<1>4. CASE RefreshStep \/ FetchFails \/ UNCHANGED inferenceVars
    BY <1>4 DEF RefreshStep, FetchStart, FetchReadRoute, FetchReadProvider,
        FetchCompare, WriteUser, WriteSystem, FetchFails, gatewayVars, inferenceVars
<1>5. ASSUME NEW k \in Conns, OpenTunnel(k) \/ ReadRequest(k) \/ CloseTunnel(k)
                              \/ ConnStep(k) \/ WriteAnswer(k)
      PROVE  UNCHANGED providers
    BY <1>5 DEF OpenTunnel, ReadRequest, CloseTunnel, ConnStep,
        ReadLock, RouteRequest, WriteAnswer, gatewayVars
<1> QED  BY <1>1, <1>2, <1>3, <1>4, <1>5 DEF InferenceNext

\* ProviderKeepsIdentity for any number of requests and providers: a taken name
\* keeps its id and its type over creates that race, updates written late, and
\* updates that bring a deleted record back.
THEOREM ProvidersKeepIdentity == InferenceSpec => ProviderKeepsIdentity
<1>1. InferenceInit => ProviderInv
    BY DEF InferenceInit, Idle, ProviderInv, Records, Stored, Putting, Record, Creates
<1>2. ProviderInv /\ [InferenceNext]_inferenceVars => ProviderInv'
    BY ProviderStep
<1>3. ProviderInv /\ [InferenceNext]_inferenceVars =>
        [\A n \in ProviderNames : providers[n] # None /\ providers'[n] # None =>
            /\ providers'[n].id = providers[n].id
            /\ providers'[n].type = providers[n].type]_inferenceVars
    BY PutsKeepIdentity
<1> QED  BY <1>1, <1>2, <1>3, PTL DEF InferenceSpec, ProviderKeepsIdentity

\* The connections that hold the read lock are the ones inside an exchange.
Exchanging == {k \in Conns : conns[k].pc \in {"route", "answer"}}
LockInv == conns = [k \in Conns |-> conns[k]] /\ Exchanging \subseteq readers
           /\ \A k \in Conns : "pc" \in DOMAIN conns[k]

LEMMA LockStep ==
    ASSUME LockInv, [InferenceNext]_inferenceVars
    PROVE  LockInv'
<1>1. CASE UNCHANGED <<conns, readers>>
    BY <1>1 DEF LockInv, Exchanging
<1>2. ASSUME NEW c \in Calls, Begin(c) \/ CallStep(c) \/ DropCall(c)
      PROVE  UNCHANGED <<conns, readers>>
    BY <1>2 DEF Begin, CallStep, DropCall, CreateProvider, UpdateProvider,
        PutProvider, DeleteProvider, ReadEnvironment, SetReadProvider,
        SetVerify, SetReadRoute, SetPutRoute, caches
<1>3. CASE RefreshStep \/ FetchFails \/ UNCHANGED inferenceVars
    BY <1>1, <1>3 DEF RefreshStep, FetchStart, FetchReadRoute, FetchReadProvider,
        FetchCompare, WriteUser, WriteSystem, FetchFails, caches, inferenceVars
<1>4. ASSUME NEW k \in Conns, OpenTunnel(k) \/ ReadRequest(k) \/ CloseTunnel(k)
      PROVE  LockInv'
    <2>1. /\ UNCHANGED readers
          /\ \/ UNCHANGED conns
             \/ /\ conns' = [conns EXCEPT ![k] = conns'[k]] /\ "pc" \in DOMAIN conns'[k]
                /\ conns'[k].pc \in {"read", "closed", "wait"}
        <3>1. CASE OpenTunnel(k)
            BY <3>1 DEF LockInv, OpenTunnel, EndConn, caches
        <3>2. CASE CloseTunnel(k)
            BY <3>2 DEF LockInv, CloseTunnel, EndConn, caches
        <3>3. CASE ReadRequest(k)
            BY <3>3 DEF LockInv, ReadRequest, EndConn, caches
        <3> QED  BY <1>4, <3>1, <3>2, <3>3
    <2> QED  BY <1>1, <2>1 DEF LockInv, Exchanging
<1>5. ASSUME NEW k \in Conns, ReadLock(k)
      PROVE  LockInv'
    <2>1. readers' = readers \cup {k} /\ conns' = [conns EXCEPT ![k].pc = "route"]
        BY <1>5 DEF ReadLock
    <2> QED  BY <2>1 DEF LockInv, Exchanging
<1>6. ASSUME NEW k \in Conns, RouteRequest(k) \/ WriteAnswer(k)
      PROVE  LockInv'
    <2>1. /\ conns' = [conns EXCEPT ![k] = conns'[k]] /\ "pc" \in DOMAIN conns'[k]
          /\ \/ conns'[k].pc \in {"read", "closed"} /\ readers' = readers \ {k}
             \/ conns[k].pc = "route" /\ UNCHANGED readers
        <3>1. CASE RouteRequest(k)
            BY <3>1 DEF LockInv, RouteRequest, ConnAt, caches
        <3>2. CASE WriteAnswer(k)
            BY <3>2 DEF LockInv, WriteAnswer, EndConn
        <3> QED  BY <1>6, <3>1, <3>2
    <2> QED  BY <2>1 DEF LockInv, Exchanging
<1> QED  BY <1>1, <1>2, <1>3, <1>4, <1>5, <1>6 DEF InferenceNext, ConnStep

\* RoutesHeldStill for any number of connections: the cache that a request chose
\* its route from is not written before its exchange has ended.
THEOREM ExchangesKeepRoutes == InferenceSpec => RoutesHeldStill
<1>1. InferenceInit => LockInv
    BY DEF InferenceInit, LockInv, Exchanging
<1>2. LockInv /\ [InferenceNext]_inferenceVars => LockInv'
    BY LockStep
<1>3. ASSUME LockInv, [InferenceNext]_inferenceVars, NEW k \in Conns, conns[k].pc \in {"route", "answer"}
      PROVE  user' = user
    <2>1. readers # {}
        BY <1>3 DEF LockInv, Exchanging
    <2>2. ASSUME NEW c \in Calls, Begin(c) \/ CallStep(c) \/ DropCall(c)
          PROVE  UNCHANGED user
        BY <2>2 DEF Begin, CallStep, DropCall, CreateProvider,
            UpdateProvider, PutProvider, DeleteProvider, ReadEnvironment,
            SetReadProvider, SetVerify, SetReadRoute, SetPutRoute, caches
    <2>3. CASE RefreshStep \/ FetchFails \/ UNCHANGED inferenceVars
        BY <2>1, <2>3 DEF RefreshStep, FetchStart, FetchReadRoute,
            FetchReadProvider, FetchCompare, WriteUser, WriteSystem,
            FetchFails, caches, inferenceVars
    <2>4. ASSUME NEW j \in Conns, OpenTunnel(j) \/ ReadRequest(j) \/ CloseTunnel(j)
                                  \/ ConnStep(j) \/ WriteAnswer(j)
          PROVE  UNCHANGED user
        BY <2>4 DEF OpenTunnel, ReadRequest, CloseTunnel, ConnStep,
            ReadLock, RouteRequest, WriteAnswer, caches
    <2> QED  BY <1>3, <2>2, <2>3, <2>4 DEF InferenceNext
<1>4. LockInv /\ [InferenceNext]_inferenceVars =>
        [\A k \in Conns : conns[k].pc \in {"route", "answer"} => user' = user]_inferenceVars
    BY <1>3
<1> QED  BY <1>1, <1>2, <1>4, PTL DEF InferenceSpec, RoutesHeldStill

=============================================================================
