--------------------------- MODULE SettingsProofs ---------------------------
(***************************************************************************)
(* Proofs about Settings, for any number of concurrent requests, keys,     *)
(* values, policies and sandboxes.                                         *)
(*                                                                         *)
(* A writer reads a blob, changes it and writes it back at a later await;  *)
(* Knows says what it still knows of the row it is about to overwrite      *)
(* because it holds the mutex, and what a deletion, which takes no mutex,  *)
(* leaves of that.  A reader holds nothing: Witnessed says that what it    *)
(* will answer about each key was in force since its first read.           *)
(***************************************************************************)
EXTENDS Settings, FiniteSetTheorems, SequenceTheorems, TLAPS

Value == Policies \cup (UNION {Values[t] : t \in DOMAIN Values}) \cup {None}
OptName == Names \cup {None}
Blob == [name : OptName, settings : [Keys -> Value], revision : Nat]

\* The labels between Lock and the release of the mutex.
Critical == {"latest", "put", "mark", "supersede", "load", "supersedeAll", "save",
             "loadOwn", "saveOwn"}
ReadLabels == {"readGlobal", "readOwn", "readVersion", "answer"}
Labels == {"resolve", "lock", "replied"} \cup Critical \cup ReadLabels

Kinds == {"policy", "set", "delete", "read"}
Scopes == {"global", "sandbox"}
OptKey == Keys \cup Unknown \cup {None}
OptId == 0 .. MaxSandbox
Count == Nat
Replies == {"ok", "not_found", "managed globally", "persist settings failed", None}

Call == [pc : Labels, kind : Kinds, scope : Scopes, name : OptName, key : OptKey,
         value : Value, id : OptId, latest : Count, blob : Blob, own : Blob,
         reply : Replies]

Revision == [policy : Value, status : {"pending", "loaded", "superseded"}]

TypeOK ==
    /\ global \in Blob
    /\ gpol \in Seq(Revision)
    /\ names \in [Names -> OptId]
    /\ rows \in [Ids -> Blob]
    /\ mutex \in Calls \cup {NoCall}
    /\ calls \in [Calls -> Call \cup {Idle}]
    /\ created \in OptId
    /\ DOMAIN seen = Calls

\* The mutex excludes: whoever is past Lock holds it.
Exclusion == \A c \in Calls : calls[c].pc \in Critical => mutex = c

\* What a call at each label knows of the rows.
Knows(r, g, rw, del) ==
    /\ r.pc \in {"resolve", "lock"} \cup Critical => r.kind # "read" /\ r.key \in Keys
    /\ r.pc = "resolve" => r.name \in Names
    /\ r.pc \in {"resolve", "lock", "replied"} \cup Critical =>
          (r.kind = "policy" => r.scope = "global" /\ r.key = PolicyKey)
    /\ r.pc \in {"lock"} \cup Critical /\ r.scope = "sandbox" => r.id \in Ids /\ r.name \in Names
    /\ r.pc \in {"latest", "put", "mark", "supersede"} => r.kind = "policy"
    /\ r.pc \in {"supersedeAll", "save"} =>
          r.scope = "global" /\ r.blob = Upsert(g, r.key, r.value)
    /\ r.pc \in {"loadOwn", "saveOwn"} => r.scope = "sandbox" /\ g.settings[r.key] = None
    /\ r.pc = "saveOwn" /\ r.id \notin del => r.own = Upsert(rw[r.id], r.key, r.value)
    /\ r.pc \in ReadLabels => r.id \in Ids /\ r.kind = "read"

\* The answer of a reader about every key is among the values that it saw in
\* force, should it read the row of the sandbox now.
Witnessed(g, s, sn) ==
    \A k \in DOMAIN Registered : \E e \in sn : Effective(g, s)[k] = e[k]

ReaderOk(r, rw, del, sn) ==
    /\ r.pc = "readOwn" /\ r.id \notin del => Witnessed(r.blob, rw[r.id], sn)
    /\ r.pc \in {"readVersion", "answer"} /\ r.id \notin del => Witnessed(r.blob, r.own, sn)

CallsKnow == \A c \in Calls : Knows(calls[c], global, rows, deleting)
ReadersOk == \A c \in Calls : ReaderOk(calls[c], rows, deleting, seen[c])

\* The inductive invariant.
IInv == TypeOK /\ Exclusion /\ CallsKnow /\ ReadersOk

-----------------------------------------------------------------------------
(* The helpers.                                                             *)

LEMMA AbsentType == Absent \in Blob
BY DEF Absent, Blob, NoSettings, Value, OptName

LEMMA UpsertType ==
    ASSUME NEW b \in Blob, NEW k \in Keys, NEW v \in Value
    PROVE  /\ Upsert(b, k, v) \in Blob
           /\ Upsert(b, k, v).settings[k] = v
           /\ \A j \in Keys \ {k} : Upsert(b, k, v).settings[j] = b.settings[j]
           /\ Upsert(b, k, v) = b \/ (/\ Upsert(b, k, v).revision = b.revision + 1
                                      /\ b.settings[k] # v)
<1> DEFINE u == [b EXCEPT !.settings[k] = v, !.revision = @ + 1]
<1>1. b.settings \in [Keys -> Value] /\ b.revision \in Nat
    BY DEF Blob
<1>2. /\ u \in Blob /\ u.settings[k] = v /\ u.revision = b.revision + 1
      /\ \A j \in Keys \ {k} : u.settings[j] = b.settings[j]
    <2>1. /\ u.settings = [b.settings EXCEPT ![k] = v]
          /\ u.revision = b.revision + 1
        BY DEF Blob
    <2>2. u = [b EXCEPT !.settings = [b.settings EXCEPT ![k] = v], !.revision = b.revision + 1]
        OBVIOUS
    <2>3. [b.settings EXCEPT ![k] = v] \in [Keys -> Value] /\ b.revision + 1 \in Nat
        BY <1>1
    <2>4. u \in Blob
        BY <2>2, <2>3 DEF Blob
    <2> QED  BY <1>1, <2>1, <2>4
<1> HIDE DEF u
<1>3. Upsert(b, k, v) = IF b.settings[k] = v THEN b ELSE u
    BY DEF Upsert, u
<1> QED  BY <1>1, <1>2, <1>3

LEMMA SupersededType ==
    ASSUME gpol \in Seq(Revision), NEW n
    PROVE  Superseded(n) \in Seq(Revision)
<1>1. Len(gpol) \in Nat /\ \A i \in 1 .. Len(gpol) : gpol[i] \in Revision
    BY LenProperties, ElementOfSeq
<1>2. \A i \in 1 .. Len(gpol) : [gpol[i] EXCEPT !.status = "superseded"] \in Revision
    BY <1>1 DEF Revision
<1>3. Superseded(n) \in [1 .. Len(gpol) -> Revision]
    BY <1>1, <1>2 DEF Superseded
<1> QED  BY <1>1, <1>3

-----------------------------------------------------------------------------
(* Types.                                                                   *)

LEMMA RequestType ==
    ASSUME NEW kind \in Kinds, NEW scope \in Scopes, NEW name \in OptName,
           NEW key \in OptKey, NEW value \in Value, NEW pc \in Labels, NEW id \in OptId
    PROVE  /\ [Request(kind, scope, name, key, value) EXCEPT !.pc = pc] \in Call
           /\ [Request(kind, scope, name, key, value) EXCEPT !.pc = pc, !.id = id] \in Call
<1>1. 0 \in OptId /\ 0 \in Count /\ None \in Replies
    BY SettingsAssumption DEF OptId, Count, Replies
<1>2. [Request(kind, scope, name, key, value) EXCEPT !.pc = pc] \in Call
    BY <1>1, AbsentType DEF Request, Call
<1>3. [Request(kind, scope, name, key, value) EXCEPT !.pc = pc, !.id = id] \in Call
    BY <1>1, AbsentType DEF Request, Call
<1> QED  BY <1>2, <1>3

-----------------------------------------------------------------------------
(* Steps that change no row.                                                *)

SeenStep == seen' = [c \in Calls |-> IF Reading(c)' THEN seen[c] \cup {InForce(c)'} ELSE {}]

LEMMA SeenGrows ==
    ASSUME SeenStep, NEW c \in Calls, calls'[c].pc \in {"readOwn", "readVersion", "answer"}
    PROVE  seen'[c] = seen[c] \cup {Effective(global', rows'[calls'[c].id])}
BY DEF SeenStep, Reading, InForce

LEMMA WitnessedGrows ==
    ASSUME NEW g, NEW s, NEW A, NEW B, A \subseteq B, Witnessed(g, s, A)
    PROVE  Witnessed(g, s, B)
BY DEF Witnessed

\* The three things a step of c may do to the mutex.
MutexStep(c) == \/ mutex' = mutex
                \/ mutex = NoCall /\ mutex' = c
                \/ Unlocked(c)

LEMMA OthersExcluded ==
    ASSUME TypeOK, Exclusion, NEW c \in Calls, MutexStep(c),
           NEW r, calls' = [calls EXCEPT ![c] = r], r.pc \in Critical => mutex' = c
    PROVE  Exclusion' /\ mutex' \in Calls \cup {NoCall}
<1>1. ASSUME NEW d \in Calls, calls'[d].pc \in Critical PROVE mutex' = d
    <2>1. CASE d = c
        BY <1>1, <2>1 DEF TypeOK
    <2>2. CASE d # c
        <3>1. mutex = d
            BY <1>1, <2>2 DEF TypeOK, Exclusion
        <3> QED  BY <2>2, <3>1, NoCallAssumption DEF MutexStep, Unlocked
    <2> QED  BY <2>1, <2>2
<1>2. mutex' \in Calls \cup {NoCall}
    BY DEF MutexStep, Unlocked, TypeOK
<1> QED  BY <1>1, <1>2 DEF Exclusion

\* A step of call c that changes no row of the settings.
LEMMA LocalStep ==
    ASSUME IInv, SeenStep, NEW c \in Calls, NEW r \in Call \cup {Idle},
           calls' = [calls EXCEPT ![c] = r], MutexStep(c), r.pc \in Critical => mutex' = c,
           gpol' \in Seq(Revision), UNCHANGED <<global, names, rows, created, deleting>>,
           Knows(r, global, rows, deleting), ReaderOk(r, rows, deleting, seen'[c])
    PROVE  IInv'
<1>1. Exclusion' /\ mutex' \in Calls \cup {NoCall}
    BY OthersExcluded DEF IInv
<1>2. TypeOK'
    BY <1>1 DEF IInv, TypeOK, SeenStep
<1>3. \A d \in Calls : calls'[d] = IF d = c THEN r ELSE calls[d]
    BY DEF IInv, TypeOK
<1>4. CallsKnow'
    BY <1>3 DEF IInv, CallsKnow
<1>5. ASSUME NEW d \in Calls PROVE ReaderOk(calls'[d], rows', deleting', seen'[d])
    <2>1. CASE d = c
        BY <1>3, <2>1
    <2>2. CASE d # c
        <3>1. ReaderOk(calls[d], rows, deleting, seen[d]) /\ calls'[d] = calls[d]
            BY <1>3, <2>2 DEF IInv, ReadersOk
        <3>2. calls[d].pc \in {"readOwn", "readVersion", "answer"} => seen[d] \subseteq seen'[d]
            BY <3>1, SeenGrows
        <3> QED  BY <3>1, <3>2, WitnessedGrows DEF ReaderOk
    <2> QED  BY <2>1, <2>2
<1> QED  BY <1>1, <1>2, <1>4, <1>5 DEF IInv, ReadersOk

LEMMA ActiveCall ==
    ASSUME IInv, NEW c \in Calls, calls[c].pc # "idle"
    PROVE  calls[c] \in Call /\ Knows(calls[c], global, rows, deleting)
BY DEF IInv, TypeOK, Idle, CallsKnow

\* The fields that no action changes after the request was made.
SameRequest(r, o) == /\ r.kind = o.kind /\ r.scope = o.scope /\ r.name = o.name
                     /\ r.key = o.key /\ r.value = o.value

LEMMA GotoFacts ==
    ASSUME NEW c, calls[c] \in Call, NEW l \in Labels, Goto(c, l)
    PROVE  \E r \in Call :
              /\ calls' = [calls EXCEPT ![c] = r] /\ r.pc = l /\ SameRequest(r, calls[c])
              /\ r.id = calls[c].id /\ r.blob = calls[c].blob /\ r.own = calls[c].own
<1> DEFINE r == [calls[c] EXCEPT !.pc = l]
<1>1. r \in Call
    BY DEF Call
<1>2. /\ r.pc = l /\ SameRequest(r, calls[c])
      /\ r.id = calls[c].id /\ r.blob = calls[c].blob /\ r.own = calls[c].own
    BY DEF Call, SameRequest
<1>3. calls' = [calls EXCEPT ![c] = r]
    BY DEF Goto
<1> QED  BY <1>1, <1>2, <1>3

LEMMA ReplyFacts ==
    ASSUME NEW c, calls[c] \in Call, NEW what \in Replies, Reply(c, what)
    PROVE  \E r \in Call :
              /\ calls' = [calls EXCEPT ![c] = r] /\ r.pc = "replied"
              /\ SameRequest(r, calls[c]) /\ r.reply = what
<1> DEFINE r == [calls[c] EXCEPT !.pc = "replied", !.reply = what]
<1>1. "replied" \in Labels
    BY DEF Labels
<1>2. r \in Call
    BY <1>1 DEF Call
<1>3. r.pc = "replied" /\ SameRequest(r, calls[c]) /\ r.reply = what
    BY DEF Call, SameRequest
<1>4. calls' = [calls EXCEPT ![c] = r]
    BY DEF Reply
<1> QED  BY <1>2, <1>3, <1>4

\* An answered call knows nothing but what was asked.
LEMMA RepliedKnows ==
    ASSUME NEW r \in Call, r.pc = "replied", NEW o, SameRequest(r, o),
           o.kind = "policy" => o.scope = "global" /\ o.key = PolicyKey,
           NEW g, NEW rw, NEW del, NEW sn
    PROVE  /\ Knows(r, g, rw, del) /\ ReaderOk(r, rw, del, sn)
           /\ r.pc \notin Critical
BY DEF Knows, ReaderOk, SameRequest, Critical, ReadLabels

LEMMA IdleKnows ==
    ASSUME NEW g, NEW rw, NEW del, NEW sn
    PROVE  /\ Knows(Idle, g, rw, del) /\ ReaderOk(Idle, rw, del, sn)
           /\ Idle.pc \notin Critical
BY DEF Idle, Knows, ReaderOk, Critical, ReadLabels

LEMMA BeginOk == ASSUME IInv, SeenStep, NEW c \in Calls, Begin(c) PROVE IInv'
<1>1. PICK q \in Requests : ~Malformed(q) /\
          (\/ /\ q.kind = "read" /\ names[q.name] # 0
              /\ calls' = [calls EXCEPT ![c] = [q EXCEPT !.pc = "readGlobal", !.id = names[q.name]]]
           \/ /\ q.kind # "read"
              /\ calls' = [calls EXCEPT ![c] =
                    [q EXCEPT !.pc = IF q.scope = "sandbox" THEN "resolve" ELSE "lock"]])
    BY DEF Begin
<1>2. \E r \in Call : /\ calls' = [calls EXCEPT ![c] = r]
                      /\ Knows(r, global, rows, deleting)
                      /\ r.pc \in {"resolve", "lock", "readGlobal"}
    <2>1. CASE q.kind = "read"
        <3>1. PICK n \in Names : q = Request("read", "sandbox", n, None, None)
            BY <2>1 DEF Requests, Request
        <3> DEFINE r == [q EXCEPT !.pc = "readGlobal", !.id = names[q.name]]
        <3>2. q.name = n /\ names[n] # 0 /\ calls' = [calls EXCEPT ![c] = r]
            BY <1>1, <2>1, <3>1 DEF Request
        <3>3. names[n] \in OptId /\ names[n] \in Ids
            BY <3>2, SettingsAssumption DEF IInv, TypeOK, OptId, Ids
        <3>4. r \in Call
            <4>1. /\ "read" \in Kinds /\ "sandbox" \in Scopes /\ n \in OptName
                  /\ None \in OptKey /\ None \in Value /\ "readGlobal" \in Labels
                BY DEF Kinds, Scopes, OptName, OptKey, Value, Labels, ReadLabels
            <4> QED  BY <4>1, <3>1, <3>2, <3>3, RequestType
        <3>5. r.pc = "readGlobal" /\ r.id = names[n] /\ r.kind = "read"
            BY <3>1, <3>2 DEF Request
        <3>6. Knows(r, global, rows, deleting)
            BY <3>3, <3>5 DEF Knows, Critical, ReadLabels
        <3> QED  BY <3>2, <3>4, <3>5, <3>6
    <2>2. CASE q.kind # "read"
        <3>1. PICK kind \in Kinds, scope \in Scopes, name \in OptName, key \in Keys, value \in Value :
                 /\ q = Request(kind, scope, name, key, value) /\ kind # "read"
                 /\ kind = "policy" => scope = "global" /\ key = PolicyKey
                 /\ scope = "sandbox" => name \in Names
            <4>1. CASE \E p \in Policies : q = Request("policy", "global", None, PolicyKey, p)
                BY <4>1 DEF Kinds, Scopes, OptName, Keys, Value
            <4>2. CASE \E x \in {"global", "sandbox"}, n \in Names, k \in Keys \cup Unknown,
                          v \in UNION {Values[t] : t \in DOMAIN Values} : q = Request("set", x, n, k, v)
                <5> PICK x \in {"global", "sandbox"}, n \in Names, k \in Keys \cup Unknown,
                         v \in UNION {Values[t] : t \in DOMAIN Values} : q = Request("set", x, n, k, v)
                    BY <4>2
                <5>1. k \in Keys
                    BY <1>1 DEF Malformed, Accepted, Request, Keys
                <5>2. v \in Value /\ n \in OptName /\ "set" \in Kinds /\ x \in Scopes
                    BY DEF Value, OptName, Kinds, Scopes
                <5> QED  BY <5>1, <5>2
            <4>3. CASE \E x \in {"global", "sandbox"}, n \in Names, k \in Keys \cup Unknown :
                          q = Request("delete", x, n, k, None)
                <5> PICK x \in {"global", "sandbox"}, n \in Names, k \in Keys \cup Unknown :
                         q = Request("delete", x, n, k, None)
                    BY <4>3
                <5>1. k \in Keys
                    BY <1>1 DEF Malformed, Request
                <5>2. None \in Value /\ n \in OptName /\ "delete" \in Kinds /\ x \in Scopes
                    BY DEF Value, OptName, Kinds, Scopes
                <5> QED  BY <5>1, <5>2
            <4>4. CASE \E n \in Names : q = Request("read", "sandbox", n, None, None)
                BY <4>4, <2>2 DEF Request
            <4> QED  BY <4>1, <4>2, <4>3, <4>4 DEF Requests
        <3> DEFINE l == IF q.scope = "sandbox" THEN "resolve" ELSE "lock"
        <3> DEFINE r == [q EXCEPT !.pc = l]
        <3>2. l \in Labels /\ l \in {"resolve", "lock"} /\ key \in OptKey
            BY DEF Labels, OptKey
        <3>3. r \in Call
            <4> HIDE DEF l
            <4>1. 0 \in OptId
                BY SettingsAssumption DEF OptId
            <4>2. r = [Request(kind, scope, name, key, value) EXCEPT !.pc = l]
                BY <3>1
            <4>3. [Request(kind, scope, name, key, value) EXCEPT !.pc = l] \in Call
                BY <3>1, <3>2, <4>1, RequestType
            <4> QED  BY <4>2, <4>3
        <3>4. /\ r.pc = l /\ r.kind = kind /\ r.scope = scope /\ r.name = name /\ r.key = key
              /\ q.scope = scope
            BY <3>1 DEF Request
        <3>5. Knows(r, global, rows, deleting)
            BY <3>1, <3>4 DEF Knows, Critical, ReadLabels, Scopes
        <3>6. calls' = [calls EXCEPT ![c] = r]
            BY <1>1, <2>2
        <3> QED  BY <3>2, <3>3, <3>4, <3>5, <3>6
    <2> QED  BY <2>1, <2>2
<1>3. PICK r \in Call : /\ calls' = [calls EXCEPT ![c] = r]
                        /\ Knows(r, global, rows, deleting)
                        /\ r.pc \in {"resolve", "lock", "readGlobal"}
    BY <1>2
<1>4. ReaderOk(r, rows, deleting, seen'[c]) /\ r.pc \notin Critical
    BY <1>3 DEF ReaderOk, Critical
<1>5. MutexStep(c) /\ gpol' \in Seq(Revision) /\ UNCHANGED <<global, names, rows, created, deleting>>
    BY DEF Begin, MutexStep, IInv, TypeOK
<1> QED  BY <1>3, <1>4, <1>5, LocalStep

\* A call that moves on to label l and changes nothing else of its own.
Moved(r, o, l) == /\ r.pc = l /\ SameRequest(r, o)
                  /\ r.id = o.id /\ r.blob = o.blob /\ r.own = o.own

LEMMA MoveStep ==
    ASSUME IInv, SeenStep, NEW c \in Calls, calls[c] \in Call,
           NEW l \in Labels \ ReadLabels, Goto(c, l),
           MutexStep(c), l \in Critical => mutex' = c, gpol' \in Seq(Revision),
           UNCHANGED <<global, names, rows, created, deleting>>,
           \A r \in Call : Moved(r, calls[c], l) => Knows(r, global, rows, deleting)
    PROVE  IInv'
<1>1. PICK r \in Call : calls' = [calls EXCEPT ![c] = r] /\ Moved(r, calls[c], l)
    BY GotoFacts DEF Moved
<1>2. ReaderOk(r, rows, deleting, seen'[c])
    BY <1>1 DEF ReaderOk, Moved, ReadLabels
<1>3. Knows(r, global, rows, deleting) /\ r.pc = l
    BY <1>1 DEF Moved
<1> QED  BY <1>1, <1>2, <1>3, LocalStep

LEMMA ReplyStep ==
    ASSUME IInv, SeenStep, NEW c \in Calls, calls[c].pc \in {"resolve", "load"},
           NEW what \in Replies, Reply(c, what), MutexStep(c),
           UNCHANGED <<global, gpol, names, rows, created, deleting>>
    PROVE  IInv'
<1>1. calls[c] \in Call /\ Knows(calls[c], global, rows, deleting)
    BY ActiveCall
<1>2. PICK r \in Call : /\ calls' = [calls EXCEPT ![c] = r] /\ r.pc = "replied"
                        /\ SameRequest(r, calls[c]) /\ r.reply = what
    BY <1>1, ReplyFacts
<1>3. calls[c].kind = "policy" => calls[c].scope = "global" /\ calls[c].key = PolicyKey
    BY <1>1 DEF Knows, Critical
<1>4. /\ Knows(r, global, rows, deleting) /\ ReaderOk(r, rows, deleting, seen'[c])
      /\ r.pc \notin Critical
    BY <1>2, <1>3, RepliedKnows
<1> QED  BY <1>2, <1>4, LocalStep DEF IInv, TypeOK

LEMMA ResolveSandboxOk == ASSUME IInv, SeenStep, NEW c \in Calls, ResolveSandbox(c) PROVE IInv'
<1>1. calls[c] \in Call /\ Knows(calls[c], global, rows, deleting) /\ calls[c].pc = "resolve"
    BY ActiveCall DEF ResolveSandbox, At
<1>2. MutexStep(c) /\ UNCHANGED <<global, gpol, names, rows, created, deleting>>
    BY DEF ResolveSandbox, MutexStep
<1>3. CASE names[calls[c].name] = 0
    <2>1. "not_found" \in Replies /\ Reply(c, "not_found")
        BY <1>3 DEF Replies, ResolveSandbox
    <2> QED  BY <1>1, <1>2, <2>1, ReplyStep
<1>4. CASE names[calls[c].name] # 0
    <2> DEFINE id == names[calls[c].name]
    <2> DEFINE r == [calls[c] EXCEPT !.pc = "lock", !.id = id]
    <2>1. calls[c].name \in Names
        BY <1>1 DEF Knows
    <2>2. id \in OptId /\ id \in Ids /\ "lock" \in Labels
        BY <1>4, <2>1, SettingsAssumption DEF IInv, TypeOK, OptId, Ids, Labels
    <2>3. calls' = [calls EXCEPT ![c] = r]
        BY <1>4 DEF ResolveSandbox
    <2> HIDE DEF id
    <2>4. r \in Call
        BY <1>1, <2>2 DEF Call
    <2>5. r.pc = "lock" /\ SameRequest(r, calls[c]) /\ r.id = id
        BY <1>1 DEF Call, SameRequest
    <2> HIDE DEF r
    <2>6. Knows(r, global, rows, deleting)
        BY <1>1, <2>1, <2>2, <2>5 DEF Knows, SameRequest, Critical, ReadLabels
    <2>7. ReaderOk(r, rows, deleting, seen'[c]) /\ r.pc \notin Critical
        BY <2>5 DEF ReaderOk, Critical
    <2> QED  BY <1>2, <2>3, <2>4, <2>6, <2>7, LocalStep DEF IInv, TypeOK
<1> QED  BY <1>3, <1>4

LEMMA LockOk == ASSUME IInv, SeenStep, NEW c \in Calls, Lock(c) PROVE IInv'
<1> DEFINE l == IF calls[c].kind = "policy" THEN "latest" ELSE "load"
<1>1. calls[c] \in Call /\ Knows(calls[c], global, rows, deleting) /\ calls[c].pc = "lock"
    BY ActiveCall DEF Lock, At
<1>2. /\ MutexStep(c) /\ UNCHANGED <<global, gpol, names, rows, created, deleting>>
      /\ mutex' = c /\ Goto(c, l)
    BY DEF Lock, MutexStep
<1>3. l \in Labels \ ReadLabels
    BY DEF Labels, ReadLabels, Critical
<1>4. ASSUME NEW r \in Call, Moved(r, calls[c], l) PROVE Knows(r, global, rows, deleting)
    BY <1>1, <1>4 DEF Knows, Moved, SameRequest, Critical, ReadLabels
<1> HIDE DEF l
<1> QED  BY <1>1, <1>2, <1>3, <1>4, MoveStep DEF IInv, TypeOK

LEMMA LatestOk == ASSUME IInv, SeenStep, NEW c \in Calls, Latest(c) PROVE IInv'
<1>1. calls[c] \in Call /\ Knows(calls[c], global, rows, deleting) /\ calls[c].pc = "latest"
    BY ActiveCall DEF Latest, At
<1>2. /\ MutexStep(c) /\ UNCHANGED <<global, gpol, names, rows, created, deleting>>
      /\ mutex' = c
    BY <1>1 DEF Latest, MutexStep, IInv, Exclusion, Critical
<1>3. PICK l \in {"load", "put"} : Goto(c, l)
    BY DEF Latest
<1>4. l \in Labels \ ReadLabels
    BY DEF Labels, ReadLabels, Critical
<1>5. ASSUME NEW r \in Call, Moved(r, calls[c], l) PROVE Knows(r, global, rows, deleting)
    BY <1>1, <1>5 DEF Knows, Moved, SameRequest, Critical, ReadLabels
<1> QED  BY <1>1, <1>2, <1>3, <1>4, <1>5, MoveStep DEF IInv, TypeOK

LEMMA PutGlobalRevisionOk ==
    ASSUME IInv, SeenStep, NEW c \in Calls, PutGlobalRevision(c) PROVE IInv'
<1> DEFINE r == [calls[c] EXCEPT !.pc = "mark", !.latest = Len(gpol) + 1]
<1>1. calls[c] \in Call /\ Knows(calls[c], global, rows, deleting) /\ calls[c].pc = "put"
    BY ActiveCall DEF PutGlobalRevision, At
<1>2. /\ MutexStep(c) /\ UNCHANGED <<global, names, rows, created, deleting>> /\ mutex' = c
      /\ calls' = [calls EXCEPT ![c] = r]
    BY <1>1 DEF PutGlobalRevision, MutexStep, IInv, Exclusion, Critical
<1>3. gpol' \in Seq(Revision)
    <2>1. [policy |-> calls[c].value, status |-> "pending"] \in Revision
        BY <1>1 DEF Revision, Call
    <2> QED  BY <2>1 DEF PutGlobalRevision, IInv, TypeOK
<1>4. Len(gpol) + 1 \in Count /\ "mark" \in Labels
    BY LenProperties DEF IInv, TypeOK, Count, Labels, Critical
<1>5. r \in Call
    BY <1>1, <1>4 DEF Call
<1>6. Moved(r, calls[c], "mark")
    BY <1>1 DEF Moved, SameRequest, Call
<1> HIDE DEF r
<1>7. Knows(r, global, rows, deleting) /\ ReaderOk(r, rows, deleting, seen'[c])
    BY <1>1, <1>6 DEF Knows, ReaderOk, Moved, SameRequest, Critical, ReadLabels
<1> QED  BY <1>2, <1>3, <1>5, <1>7, LocalStep

LEMMA MarkGlobalLoadedOk ==
    ASSUME IInv, SeenStep, NEW c \in Calls, MarkGlobalLoaded(c) PROVE IInv'
<1>1. calls[c] \in Call /\ Knows(calls[c], global, rows, deleting) /\ calls[c].pc = "mark"
    BY ActiveCall DEF MarkGlobalLoaded, At
<1>2. /\ MutexStep(c) /\ UNCHANGED <<global, names, rows, created, deleting>> /\ mutex' = c
      /\ Goto(c, "supersede")
    BY <1>1 DEF MarkGlobalLoaded, MutexStep, IInv, Exclusion, Critical
<1>3. gpol' \in Seq(Revision)
    <2>1. Len(gpol) \in Nat /\ gpol \in [1 .. Len(gpol) -> Revision]
        BY LenProperties, ElementOfSeq DEF IInv, TypeOK
    <2> DEFINE i == calls[c].latest
    <2>2. CASE i \in 1 .. Len(gpol) /\ gpol' = [gpol EXCEPT ![i].status = "loaded"]
        <3>1. [gpol[i] EXCEPT !.status = "loaded"] \in Revision
            BY <2>1, <2>2 DEF Revision
        <3>2. gpol' \in [1 .. Len(gpol) -> Revision]
            BY <2>1, <2>2, <3>1
        <3> QED  BY <2>1, <3>2
    <2>3. CASE i \notin 1 .. Len(gpol) /\ gpol' = [gpol EXCEPT ![i].status = "loaded"]
        <3>1. gpol' \in [1 .. Len(gpol) -> Revision]
            BY <2>1, <2>3
        <3> QED  BY <2>1, <3>1
    <2>4. CASE gpol' = gpol
        BY <2>4 DEF IInv, TypeOK
    <2> QED  BY <2>2, <2>3, <2>4 DEF MarkGlobalLoaded
<1>4. "supersede" \in Labels \ ReadLabels
    BY DEF Labels, ReadLabels, Critical
<1>5. ASSUME NEW r \in Call, Moved(r, calls[c], "supersede") PROVE Knows(r, global, rows, deleting)
    BY <1>1, <1>5 DEF Knows, Moved, SameRequest, Critical, ReadLabels
<1> QED  BY <1>1, <1>2, <1>3, <1>4, <1>5, MoveStep

LEMMA SupersedeGlobalOk ==
    ASSUME IInv, SeenStep, NEW c \in Calls, SupersedeGlobal(c) PROVE IInv'
<1>1. calls[c] \in Call /\ Knows(calls[c], global, rows, deleting) /\ calls[c].pc = "supersede"
    BY ActiveCall DEF SupersedeGlobal, At
<1>2. /\ MutexStep(c) /\ UNCHANGED <<global, names, rows, created, deleting>> /\ mutex' = c
      /\ Goto(c, "load")
    BY <1>1 DEF SupersedeGlobal, MutexStep, IInv, Exclusion, Critical
<1>3. gpol' \in Seq(Revision)
    BY SupersededType DEF SupersedeGlobal, IInv, TypeOK
<1>4. "load" \in Labels \ ReadLabels
    BY DEF Labels, ReadLabels, Critical
<1>5. ASSUME NEW r \in Call, Moved(r, calls[c], "load") PROVE Knows(r, global, rows, deleting)
    BY <1>1, <1>5 DEF Knows, Moved, SameRequest, Critical, ReadLabels
<1> QED  BY <1>1, <1>2, <1>3, <1>4, <1>5, MoveStep

LEMMA SupersedeAllOk ==
    ASSUME IInv, SeenStep, NEW c \in Calls, SupersedeAll(c) PROVE IInv'
<1>1. calls[c] \in Call /\ Knows(calls[c], global, rows, deleting) /\ calls[c].pc = "supersedeAll"
    BY ActiveCall DEF SupersedeAll, At
<1>2. /\ MutexStep(c) /\ UNCHANGED <<global, names, rows, created, deleting>> /\ mutex' = c
      /\ Goto(c, "save")
    BY <1>1 DEF SupersedeAll, MutexStep, IInv, Exclusion, Critical
<1>3. gpol' \in Seq(Revision)
    BY SupersededType DEF SupersedeAll, IInv, TypeOK
<1>4. "save" \in Labels \ ReadLabels
    BY DEF Labels, ReadLabels, Critical
<1>5. ASSUME NEW r \in Call, Moved(r, calls[c], "save") PROVE Knows(r, global, rows, deleting)
    BY <1>1, <1>5 DEF Knows, Moved, SameRequest, Critical, ReadLabels
<1> QED  BY <1>1, <1>2, <1>3, <1>4, <1>5, MoveStep

LEMMA LoadGlobalOk == ASSUME IInv, SeenStep, NEW c \in Calls, LoadGlobal(c) PROVE IInv'
<1> DEFINE o == calls[c]
<1>1. o \in Call /\ Knows(o, global, rows, deleting) /\ o.pc = "load"
    BY ActiveCall DEF LoadGlobal, At
<1>2. UNCHANGED <<global, gpol, names, rows, created, deleting>> /\ mutex = c
    BY <1>1 DEF LoadGlobal, IInv, Exclusion, Critical
<1>3. CASE o.scope = "sandbox" /\ global.settings[o.key] # None
    <2>1. Reply(c, "managed globally") /\ MutexStep(c) /\ "managed globally" \in Replies
        BY <1>3 DEF LoadGlobal, MutexStep, Replies
    <2> QED  BY <1>1, <1>2, <2>1, ReplyStep
<1>4. CASE o.scope = "sandbox" /\ global.settings[o.key] = None
    <2>1. Goto(c, "loadOwn") /\ MutexStep(c) /\ mutex' = c
        BY <1>2, <1>4 DEF LoadGlobal, MutexStep
    <2>2. "loadOwn" \in Labels \ ReadLabels
        BY DEF Labels, ReadLabels, Critical
    <2>3. ASSUME NEW r \in Call, Moved(r, o, "loadOwn") PROVE Knows(r, global, rows, deleting)
        BY <1>1, <1>4, <2>3 DEF Knows, Moved, SameRequest, Critical, ReadLabels
    <2> QED  BY <1>1, <1>2, <2>1, <2>2, <2>3, MoveStep DEF IInv, TypeOK
<1>5. CASE o.scope # "sandbox"
    <2>1. PICK l \in {"supersedeAll", "save"} :
             calls' = [calls EXCEPT ![c].blob = Upsert(global, o.key, o.value), ![c].pc = l]
        BY <1>5 DEF LoadGlobal
    <2> DEFINE u == Upsert(global, o.key, o.value)
    <2> DEFINE r == [o EXCEPT !.blob = u, !.pc = l]
    <2>2. u \in Blob
        BY <1>1, UpsertType DEF IInv, TypeOK, Knows, Critical, Call
    <2> HIDE DEF u
    <2>3. l \in Labels /\ l \in Critical
        BY DEF Labels, Critical
    <2>4. r \in Call /\ r.pc = l /\ SameRequest(r, o) /\ r.blob = u
        BY <1>1, <2>2, <2>3 DEF Call, SameRequest
    <2>5. calls' = [calls EXCEPT ![c] = r]
        BY <2>1 DEF u
    <2>6. o.scope = "global"
        BY <1>1, <1>5 DEF Call, Scopes
    <2>7. MutexStep(c) /\ mutex' = c
        BY <1>2, <1>5 DEF LoadGlobal, MutexStep
    <2> HIDE DEF r
    <2>8. Knows(r, global, rows, deleting)
        BY <1>1, <2>1, <2>4, <2>6 DEF Knows, SameRequest, Critical, ReadLabels, u
    <2>9. ReaderOk(r, rows, deleting, seen'[c])
        BY <2>4, <2>1 DEF ReaderOk
    <2> QED  BY <1>2, <2>4, <2>5, <2>7, <2>8, <2>9, LocalStep DEF IInv, TypeOK
<1> QED  BY <1>3, <1>4, <1>5

LEMMA LoadSandboxOk == ASSUME IInv, SeenStep, NEW c \in Calls, LoadSandbox(c) PROVE IInv'
<1> DEFINE o == calls[c]
           u == Upsert(rows[o.id], o.key, o.value)
           r == [o EXCEPT !.pc = "saveOwn", !.own = u]
<1>1. o \in Call /\ Knows(o, global, rows, deleting) /\ o.pc = "loadOwn"
    BY ActiveCall DEF LoadSandbox, At
<1>2. /\ UNCHANGED <<global, gpol, names, rows, created, deleting>> /\ mutex' = c /\ MutexStep(c)
      /\ calls' = [calls EXCEPT ![c] = r]
    BY <1>1 DEF LoadSandbox, IInv, Exclusion, Critical, MutexStep
<1>3. u \in Blob
    BY <1>1, UpsertType DEF IInv, TypeOK, Knows, Critical, Call
<1>4. "saveOwn" \in Labels
    BY DEF Labels, Critical
<1> HIDE DEF u
<1>5. r \in Call /\ r.pc = "saveOwn" /\ SameRequest(r, o) /\ r.id = o.id /\ r.own = u
    BY <1>1, <1>3, <1>4 DEF Call, SameRequest
<1> HIDE DEF r
<1>6. Knows(r, global, rows, deleting)
    BY <1>1, <1>5 DEF Knows, SameRequest, Critical, ReadLabels, u
<1>7. ReaderOk(r, rows, deleting, seen'[c])
    BY <1>5 DEF ReaderOk
<1> QED  BY <1>2, <1>5, <1>6, <1>7, LocalStep DEF IInv, TypeOK

-----------------------------------------------------------------------------
(* The readers.                                                             *)

LEMMA ReadGlobalOk == ASSUME IInv, SeenStep, NEW c \in Calls, ReadGlobal(c) PROVE IInv'
<1> DEFINE o == calls[c]
           r == [o EXCEPT !.pc = "readOwn", !.blob = global]
<1>1. o \in Call /\ Knows(o, global, rows, deleting) /\ o.pc = "readGlobal"
    BY ActiveCall DEF ReadGlobal, At
<1>2. /\ UNCHANGED <<global, gpol, names, rows, created, deleting>> /\ MutexStep(c)
      /\ calls' = [calls EXCEPT ![c] = r]
    BY DEF ReadGlobal, MutexStep
<1>3. global \in Blob /\ "readOwn" \in Labels
    BY DEF IInv, TypeOK, Labels, ReadLabels
<1>4. r \in Call /\ r.pc = "readOwn" /\ r.id = o.id /\ r.blob = global /\ r.kind = o.kind
    BY <1>1, <1>3 DEF Call
<1> HIDE DEF r
<1>5. Knows(r, global, rows, deleting) /\ r.pc \notin Critical
    BY <1>1, <1>4 DEF Knows, Critical, ReadLabels
<1>6. ReaderOk(r, rows, deleting, seen'[c])
    <2>1. calls'[c] = r
        BY <1>2 DEF IInv, TypeOK
    <2>2. seen'[c] = seen[c] \cup {Effective(global, rows[r.id])}
        BY <1>2, <1>4, <2>1, SeenGrows
    <2>3. Witnessed(global, rows[r.id], seen'[c])
        BY <2>2 DEF Witnessed
    <2> QED  BY <1>4, <2>3 DEF ReaderOk
<1> QED  BY <1>2, <1>4, <1>5, <1>6, LocalStep DEF IInv, TypeOK

LEMMA ReadOwnOk == ASSUME IInv, SeenStep, NEW c \in Calls, ReadOwn(c) PROVE IInv'
<1> DEFINE o == calls[c]
<1>1. o \in Call /\ Knows(o, global, rows, deleting) /\ o.pc = "readOwn"
    BY ActiveCall DEF ReadOwn, At
<1>2. PICK l \in {"answer", "readVersion"} :
         calls' = [calls EXCEPT ![c].own = rows[calls[c].id], ![c].pc = l]
    BY DEF ReadOwn
<1> DEFINE r == [o EXCEPT !.own = rows[o.id], !.pc = l]
<1>3. /\ UNCHANGED <<global, gpol, names, rows, created, deleting>> /\ MutexStep(c)
      /\ calls' = [calls EXCEPT ![c] = r]
    BY <1>2 DEF ReadOwn, MutexStep
<1>4. rows[o.id] \in Blob /\ l \in Labels /\ o.id \in Ids
    BY <1>1 DEF IInv, TypeOK, Labels, ReadLabels, Knows
<1>5. /\ r \in Call /\ r.pc = l /\ r.id = o.id /\ r.blob = o.blob /\ r.kind = o.kind
      /\ r.own = rows[o.id]
    BY <1>1, <1>4 DEF Call
<1> HIDE DEF r
<1>6. Knows(r, global, rows, deleting) /\ r.pc \notin Critical
    BY <1>1, <1>4, <1>5 DEF Knows, Critical, ReadLabels
<1>7. ReaderOk(r, rows, deleting, seen'[c])
    <2>1. calls'[c] = r
        BY <1>3 DEF IInv, TypeOK
    <2>2. seen[c] \subseteq seen'[c]
        BY <1>2, <1>5, <2>1, SeenGrows
    <2>3. r.id \notin deleting => Witnessed(r.blob, r.own, seen[c])
        BY <1>1, <1>5 DEF IInv, ReadersOk, ReaderOk
    <2> QED  BY <1>2, <1>5, <2>2, <2>3, WitnessedGrows DEF ReaderOk
<1> QED  BY <1>3, <1>5, <1>6, <1>7, LocalStep DEF IInv, TypeOK

LEMMA ReadVersionOk == ASSUME IInv, SeenStep, NEW c \in Calls, ReadVersion(c) PROVE IInv'
<1> DEFINE o == calls[c]
<1>1. o \in Call /\ Knows(o, global, rows, deleting) /\ o.pc = "readVersion"
    BY ActiveCall DEF ReadVersion, At
<1>2. PICK v \in {0, Len(gpol)} : calls' = [calls EXCEPT ![c].pc = "answer", ![c].latest = v]
    BY DEF ReadVersion
<1> DEFINE r == [o EXCEPT !.pc = "answer", !.latest = v]
<1>3. /\ UNCHANGED <<global, gpol, names, rows, created, deleting>> /\ MutexStep(c)
      /\ calls' = [calls EXCEPT ![c] = r]
    BY <1>2 DEF ReadVersion, MutexStep
<1>4. v \in Count /\ "answer" \in Labels
    BY LenProperties DEF IInv, TypeOK, Count, Labels, ReadLabels
<1>5. /\ r \in Call /\ r.pc = "answer" /\ r.id = o.id /\ r.blob = o.blob /\ r.kind = o.kind
      /\ r.own = o.own
    BY <1>1, <1>4 DEF Call
<1> HIDE DEF r
<1>6. Knows(r, global, rows, deleting) /\ r.pc \notin Critical
    BY <1>1, <1>5 DEF Knows, Critical, ReadLabels
<1>7. ReaderOk(r, rows, deleting, seen'[c])
    <2>1. calls'[c] = r
        BY <1>3 DEF IInv, TypeOK
    <2>2. seen[c] \subseteq seen'[c]
        BY <1>5, <2>1, SeenGrows
    <2>3. r.id \notin deleting => Witnessed(r.blob, r.own, seen[c])
        BY <1>1, <1>5 DEF IInv, ReadersOk, ReaderOk
    <2> QED  BY <1>5, <2>2, <2>3, WitnessedGrows DEF ReaderOk
<1> QED  BY <1>3, <1>5, <1>6, <1>7, LocalStep DEF IInv, TypeOK

\* A dropped call and an answered one leave nothing behind.
LEMMA EndOk == ASSUME IInv, SeenStep, NEW c \in Calls, Fail(c) \/ Done(c) PROVE IInv'
<1>1. /\ UNCHANGED <<global, gpol, names, rows, created, deleting>> /\ MutexStep(c)
      /\ calls' = [calls EXCEPT ![c] = Idle]
    BY DEF Fail, Done, MutexStep
<1>2. /\ Knows(Idle, global, rows, deleting) /\ ReaderOk(Idle, rows, deleting, seen'[c])
      /\ Idle.pc \notin Critical
    BY IdleKnows
<1> QED  BY <1>1, <1>2, LocalStep DEF IInv, TypeOK

-----------------------------------------------------------------------------
(* The writers.                                                             *)

LEMMA KnowsOutside ==
    ASSUME NEW r, r.pc \notin Critical, NEW g, NEW rw, NEW del, Knows(r, g, rw, del),
           NEW g2, NEW rw2, NEW del2
    PROVE  Knows(r, g2, rw2, del2)
BY DEF Knows, Critical

\* The holder of the mutex writes a row and answers.
LEMMA WriterStep ==
    ASSUME IInv, SeenStep, NEW c \in Calls, calls[c].pc \in Critical,
           NEW what \in Replies, Reply(c, what), Unlocked(c),
           global' \in Blob, rows' \in [Ids -> Blob],
           UNCHANGED <<gpol, names, created, deleting>>,
           \A d \in Calls \ {c} : ReaderOk(calls[d], rows', deleting, seen'[d])
    PROVE  IInv'
<1>1. calls[c] \in Call /\ Knows(calls[c], global, rows, deleting)
    BY ActiveCall DEF Critical
<1>2. PICK r \in Call : /\ calls' = [calls EXCEPT ![c] = r] /\ r.pc = "replied"
                        /\ SameRequest(r, calls[c])
    BY <1>1, ReplyFacts
<1>3. calls[c].kind = "policy" => calls[c].scope = "global" /\ calls[c].key = PolicyKey
    BY <1>1 DEF Knows
<1>4. /\ Knows(r, global', rows', deleting) /\ ReaderOk(r, rows', deleting, seen'[c])
      /\ r.pc \notin Critical
    BY <1>2, <1>3, RepliedKnows
<1>5. MutexStep(c) /\ \A d \in Calls : calls'[d] = IF d = c THEN r ELSE calls[d]
    BY <1>2 DEF MutexStep, IInv, TypeOK
<1>6. Exclusion' /\ mutex' \in Calls \cup {NoCall}
    BY <1>2, <1>4, <1>5, OthersExcluded DEF IInv
<1>7. TypeOK'
    BY <1>2, <1>6 DEF IInv, TypeOK, SeenStep
<1>8. ASSUME NEW d \in Calls PROVE Knows(calls'[d], global', rows', deleting')
    <2>1. CASE d = c
        BY <1>4, <1>5, <2>1
    <2>2. CASE d # c
        <3>1. calls'[d] = calls[d] /\ calls[d].pc \notin Critical
            BY <1>5, <2>2 DEF IInv, Exclusion
        <3> QED  BY <3>1, KnowsOutside DEF IInv, CallsKnow
    <2> QED  BY <2>1, <2>2
<1>9. ReadersOk'
    BY <1>4, <1>5 DEF ReadersOk
<1> QED  BY <1>6, <1>7, <1>8, <1>9 DEF IInv, CallsKnow

\* The revision of the blob tells whether anything changed, so that the row
\* always becomes the blob.
LEMMA SaveGlobalWrites ==
    ASSUME IInv, NEW c \in Calls, SaveGlobal(c)
    PROVE  /\ calls[c] \in Call /\ calls[c].key \in Keys /\ calls[c].pc = "save"
           /\ Knows(calls[c], global, rows, deleting)
           /\ global' = Upsert(global, calls[c].key, calls[c].value)
<1>1. calls[c] \in Call /\ Knows(calls[c], global, rows, deleting) /\ calls[c].pc = "save"
    BY ActiveCall DEF SaveGlobal, At
<1>2. /\ calls[c].key \in Keys /\ calls[c].value \in Value
      /\ calls[c].blob = Upsert(global, calls[c].key, calls[c].value)
    BY <1>1 DEF Knows, Critical, Call
<1>3. global \in Blob
    BY DEF IInv, TypeOK
<1>4. calls[c].blob = global \/ calls[c].blob.revision = global.revision + 1
    BY <1>2, <1>3, UpsertType
<1>5. global' = calls[c].blob
    BY <1>3, <1>4 DEF SaveGlobal, Blob
<1> QED  BY <1>1, <1>2, <1>5

LEMMA SaveGlobalOk == ASSUME IInv, SeenStep, NEW c \in Calls, SaveGlobal(c) PROVE IInv'
<1>1. /\ calls[c] \in Call /\ calls[c].key \in Keys /\ calls[c].pc \in Critical
      /\ global' = Upsert(global, calls[c].key, calls[c].value)
    BY SaveGlobalWrites DEF Critical
<1>2. global' \in Blob
    BY <1>1, UpsertType DEF IInv, TypeOK, Call
<1>3. /\ Reply(c, "ok") /\ "ok" \in Replies /\ Unlocked(c)
      /\ UNCHANGED <<gpol, names, rows, created, deleting>>
    BY DEF SaveGlobal, Replies
<1>4. ASSUME NEW d \in Calls \ {c} PROVE ReaderOk(calls[d], rows', deleting, seen'[d])
    <2>1. calls'[d] = calls[d]
        BY <1>3 DEF Reply, IInv, TypeOK
    <2>2. calls[d].pc \in {"readOwn", "readVersion", "answer"} => seen[d] \subseteq seen'[d]
        BY <2>1, SeenGrows
    <2>3. ReaderOk(calls[d], rows, deleting, seen[d])
        BY DEF IInv, ReadersOk
    <2> QED  BY <1>3, <2>2, <2>3, WitnessedGrows DEF ReaderOk
<1>5. rows' \in [Ids -> Blob]
    BY <1>3 DEF IInv, TypeOK
<1> QED  BY <1>1, <1>2, <1>3, <1>4, <1>5, WriterStep

\* A sandbox key that is not managed globally takes a new value: a reader that
\* will see the new row has just seen that value in force.
LEMMA OwnKeyWitnessed ==
    ASSUME NEW key \in Keys, NEW g \in Blob, g.settings[key] = None, NEW blob,
           NEW s, NEW s2, \A k \in Keys \ {key} : s2.settings[k] = s.settings[k],
           NEW sn, NEW sn2, sn2 = sn \cup {Effective(g, s2)}, Witnessed(blob, s, sn)
    PROVE  Witnessed(blob, s2, sn2)
<1> SUFFICES ASSUME NEW k \in DOMAIN Registered
             PROVE  \E e \in sn2 : Effective(blob, s2)[k] = e[k]
    BY DEF Witnessed
<1>1. PICK e \in sn : Effective(blob, s)[k] = e[k]
    BY DEF Witnessed
<1>2. CASE k # key \/ blob.settings[k] # None
    <2>1. Effective(blob, s2)[k] = Effective(blob, s)[k]
        BY <1>2 DEF Effective, Keys
    <2> QED  BY <1>1, <2>1
<1>3. CASE k = key /\ blob.settings[k] = None
    <2>1. Effective(blob, s2)[k] = Effective(g, s2)[k]
        BY <1>3 DEF Effective
    <2> QED  BY <2>1
<1> QED  BY <1>2, <1>3

LEMMA SaveSandboxOk == ASSUME IInv, SeenStep, NEW c \in Calls, SaveSandbox(c) PROVE IInv'
<1> DEFINE o == calls[c]
           new == [o.own EXCEPT !.name = o.name]
<1>1. o \in Call /\ Knows(o, global, rows, deleting) /\ o.pc = "saveOwn" /\ o.pc \in Critical
    BY ActiveCall DEF SaveSandbox, At, Critical
<1>2. /\ o.id \in Ids /\ o.name \in Names /\ o.key \in Keys /\ global.settings[o.key] = None
      /\ o.id \notin deleting => o.own = Upsert(rows[o.id], o.key, o.value)
    BY <1>1 DEF Knows, Critical
<1>3. PICK what \in Replies : Reply(c, what)
    BY DEF SaveSandbox, Replies
<1>4. /\ Unlocked(c) /\ UNCHANGED <<global, gpol, names, created, deleting>>
      /\ rows' = rows \/ rows' = [rows EXCEPT ![o.id] = new]
    BY DEF SaveSandbox
<1>5. rows \in [Ids -> Blob] /\ global \in Blob /\ rows[o.id] \in Blob
    BY <1>2 DEF IInv, TypeOK
<1>6. new \in Blob /\ new.settings = o.own.settings
    BY <1>1, <1>2 DEF Call, Blob, OptName
<1> HIDE DEF new
<1>7. rows' \in [Ids -> Blob]
    BY <1>4, <1>5, <1>6
<1>8. ASSUME NEW d \in Calls \ {c} PROVE ReaderOk(calls[d], rows', deleting, seen'[d])
    <2> DEFINE id == calls[d].id
    <2>1. calls'[d] = calls[d]
        BY <1>3 DEF Reply, IInv, TypeOK
    <2>2. calls[d].pc \in {"readOwn", "readVersion", "answer"} =>
             seen'[d] = seen[d] \cup {Effective(global, rows'[id])}
        BY <1>4, <2>1, SeenGrows
    <2>3. ReaderOk(calls[d], rows, deleting, seen[d])
        BY DEF IInv, ReadersOk
    <2>4. ASSUME calls[d].pc = "readOwn", id \notin deleting
          PROVE  Witnessed(calls[d].blob, rows'[id], seen'[d])
        <3>1. Witnessed(calls[d].blob, rows[id], seen[d]) /\ seen[d] \subseteq seen'[d]
            BY <2>2, <2>3, <2>4 DEF ReaderOk
        <3>2. id \in Ids
            BY <2>4 DEF IInv, CallsKnow, Knows, ReadLabels
        <3>3. CASE rows'[id] = rows[id]
            BY <3>1, <3>3, WitnessedGrows
        <3>4. CASE rows'[id] # rows[id]
            <4>1. id = o.id /\ rows'[id] = new
                BY <1>4, <1>5, <3>2, <3>4
            <4>2. o.own = Upsert(rows[id], o.key, o.value)
                BY <1>2, <2>4, <4>1
            <4>3. \A k \in Keys \ {o.key} : rows'[id].settings[k] = rows[id].settings[k]
                <5>1. rows[id] \in Blob /\ o.value \in Value
                    BY <1>1, <1>5, <3>2 DEF Call
                <5>2. \A k \in Keys \ {o.key} : o.own.settings[k] = rows[id].settings[k]
                    BY <1>2, <4>2, <5>1, UpsertType
                <5> QED  BY <1>6, <4>1, <5>2
            <4>4. seen'[d] = seen[d] \cup {Effective(global, rows'[id])}
                BY <2>2, <2>4
            <4> HIDE DEF id
            <4> QED  BY <1>2, <1>5, <3>1, <4>3, <4>4, OwnKeyWitnessed
        <3> QED  BY <3>3, <3>4
    <2>5. ASSUME calls[d].pc \in {"readVersion", "answer"}, id \notin deleting
          PROVE  Witnessed(calls[d].blob, calls[d].own, seen'[d])
        BY <2>2, <2>3, <2>5, WitnessedGrows DEF ReaderOk
    <2> QED  BY <2>4, <2>5 DEF ReaderOk
<1>9. global' \in Blob
    BY <1>4, <1>5
<1> QED  BY <1>1, <1>3, <1>4, <1>7, <1>8, <1>9, WriterStep

-----------------------------------------------------------------------------
(* The sandboxes come and go without the mutex.                             *)

LEMMA SandboxStep ==
    ASSUME IInv, SeenStep, UNCHANGED <<global, gpol, mutex, calls>>,
           names' \in [Names -> OptId], created' \in OptId, rows' \in [Ids -> Blob],
           deleting \subseteq deleting', \A i \in Ids \ deleting' : rows'[i] = rows[i]
    PROVE  IInv'
<1>1. TypeOK' /\ Exclusion'
    BY DEF IInv, TypeOK, Exclusion, SeenStep
<1>2. ASSUME NEW c \in Calls
      PROVE  /\ Knows(calls'[c], global', rows', deleting')
             /\ ReaderOk(calls'[c], rows', deleting', seen'[c])
    <2>1. Knows(calls[c], global, rows, deleting) /\ ReaderOk(calls[c], rows, deleting, seen[c])
        BY DEF IInv, CallsKnow, ReadersOk
    <2>2. calls[c].pc \in {"readOwn", "readVersion", "answer"} => seen[c] \subseteq seen'[c]
        BY SeenGrows
    <2>3. Knows(calls[c], global, rows', deleting')
        BY <2>1 DEF Knows, Critical
    <2>4. calls[c].pc = "readOwn" => calls[c].id \in Ids
        BY <2>1 DEF Knows, ReadLabels
    <2>5. ReaderOk(calls[c], rows', deleting', seen'[c])
        BY <2>1, <2>2, <2>4, WitnessedGrows DEF ReaderOk
    <2> QED  BY <2>3, <2>5
<1> QED  BY <1>1, <1>2 DEF IInv, CallsKnow, ReadersOk

LEMMA SandboxOk ==
    ASSUME IInv, SeenStep, NEW n \in Names,
           CreateSandbox(n) \/ DeleteSettings(n) \/ ForgetSandbox(n)
    PROVE  IInv'
<1>1. names \in [Names -> OptId] /\ rows \in [Ids -> Blob] /\ created \in OptId
    BY DEF IInv, TypeOK
<1>2. CASE CreateSandbox(n)
    <2>1. created + 1 \in OptId
        BY <1>1, <1>2, SettingsAssumption DEF CreateSandbox, OptId
    <2> QED  BY <1>1, <1>2, <2>1, SandboxStep DEF CreateSandbox
<1>3. CASE DeleteSettings(n)
    <2>1. rows' \in [Ids -> Blob]
        BY <1>1, <1>3, AbsentType DEF DeleteSettings
    <2>2. \A i \in Ids \ deleting' : rows'[i] = rows[i]
        BY <1>1, <1>3 DEF DeleteSettings
    <2> QED  BY <1>1, <1>3, <2>1, <2>2, SandboxStep DEF DeleteSettings
<1>4. CASE ForgetSandbox(n)
    <2>1. 0 \in OptId
        BY SettingsAssumption DEF OptId
    <2> QED  BY <1>1, <1>4, <2>1, SandboxStep DEF ForgetSandbox
<1> QED  BY <1>2, <1>3, <1>4

-----------------------------------------------------------------------------
(* The invariant holds.                                                     *)

LEMMA InitOk == Init => IInv
<1> SUFFICES ASSUME Init PROVE IInv
    OBVIOUS
<1>1. 0 \in OptId /\ Absent \in Blob
    BY AbsentType, SettingsAssumption DEF OptId
<1>2. \A c \in Calls : calls[c] = Idle
    BY DEF Init
<1>3. TypeOK
    BY <1>1 DEF Init, TypeOK
<1>4. Exclusion /\ CallsKnow /\ ReadersOk
    BY <1>2, IdleKnows DEF Exclusion, CallsKnow, ReadersOk
<1> QED  BY <1>3, <1>4 DEF IInv

LEMMA StutterOk == ASSUME IInv, UNCHANGED vars PROVE IInv'
BY DEF IInv, TypeOK, Exclusion, CallsKnow, ReadersOk, vars

LEMMA NextOk == ASSUME IInv, Next PROVE IInv'
<1>1. SeenStep
    BY DEF Next, SeenStep
<1>2. ASSUME NEW n \in Names, CreateSandbox(n) \/ DeleteSettings(n) \/ ForgetSandbox(n) PROVE IInv'
    BY <1>1, <1>2, SandboxOk
<1>3. ASSUME NEW c \in Calls, CallStep(c) PROVE IInv'
    <2>1. CASE Begin(c)              BY <1>1, <2>1, BeginOk
    <2>2. CASE ResolveSandbox(c)     BY <1>1, <2>2, ResolveSandboxOk
    <2>3. CASE Lock(c)               BY <1>1, <2>3, LockOk
    <2>4. CASE Latest(c)             BY <1>1, <2>4, LatestOk
    <2>5. CASE PutGlobalRevision(c)  BY <1>1, <2>5, PutGlobalRevisionOk
    <2>6. CASE MarkGlobalLoaded(c)   BY <1>1, <2>6, MarkGlobalLoadedOk
    <2>7. CASE SupersedeGlobal(c)    BY <1>1, <2>7, SupersedeGlobalOk
    <2>8. CASE LoadGlobal(c)         BY <1>1, <2>8, LoadGlobalOk
    <2>9. CASE SupersedeAll(c)       BY <1>1, <2>9, SupersedeAllOk
    <2>10. CASE SaveGlobal(c)        BY <1>1, <2>10, SaveGlobalOk
    <2>11. CASE LoadSandbox(c)       BY <1>1, <2>11, LoadSandboxOk
    <2>12. CASE SaveSandbox(c)       BY <1>1, <2>12, SaveSandboxOk
    <2>13. CASE ReadGlobal(c)        BY <1>1, <2>13, ReadGlobalOk
    <2>14. CASE ReadOwn(c)           BY <1>1, <2>14, ReadOwnOk
    <2>15. CASE ReadVersion(c)       BY <1>1, <2>15, ReadVersionOk
    <2>16. CASE Fail(c) \/ Done(c)   BY <1>1, <2>16, EndOk
    <2> QED  BY <1>3, <2>1, <2>2, <2>3, <2>4, <2>5, <2>6, <2>7, <2>8, <2>9, <2>10, <2>11, <2>12,
                <2>13, <2>14, <2>15, <2>16 DEF CallStep
<1> QED  BY <1>2, <1>3 DEF Next

LEMMA Invariant == Spec => []IInv
<1>1. IInv /\ [Next]_vars => IInv'
    BY NextOk, StutterOk
<1> QED  BY InitOk, <1>1, PTL DEF Spec

\* The types, and mutual exclusion: whoever is between taking settings_mutex
\* and its release holds it, however often calls are dropped.
THEOREM TypeCorrect == Spec => [](TypeOK /\ Exclusion)
BY Invariant, PTL DEF IInv

\* EffectiveValueWasInForce for every number of requests and sandboxes: the
\* two reads of get_sandbox_config, taken without a lock, never combine into a
\* value that was not in force in between, unless the sandbox is deleted.
THEOREM EffectiveValueInForce == Spec => []EffectiveValueWasInForce
<1>1. IInv => EffectiveValueWasInForce
    BY DEF IInv, ReadersOk, ReaderOk, Witnessed, EffectiveValueWasInForce, At
<1> QED  BY <1>1, Invariant, PTL

-----------------------------------------------------------------------------
(* What a step does to the global row.                                      *)

LEMMA OnlySaveGlobalWrites ==
    ASSUME Next, global' # global
    PROVE  \E c \in Calls : SaveGlobal(c)
<1>1. ASSUME NEW c \in Calls, CallStep(c), ~SaveGlobal(c) PROVE global' = global
    <2>1. CASE LoadGlobal(c)   BY <2>1 DEF LoadGlobal
    <2>2. CASE SaveSandbox(c)  BY <2>2 DEF SaveSandbox
    <2>3. CASE Begin(c) \/ ResolveSandbox(c) \/ Lock(c) \/ Latest(c) \/ PutGlobalRevision(c)
        BY <2>3 DEF Begin, ResolveSandbox, Lock, Latest, PutGlobalRevision
    <2>4. CASE MarkGlobalLoaded(c) \/ SupersedeGlobal(c) \/ SupersedeAll(c) \/ LoadSandbox(c)
        BY <2>4 DEF MarkGlobalLoaded, SupersedeGlobal, SupersedeAll, LoadSandbox
    <2>5. CASE ReadGlobal(c) \/ ReadOwn(c) \/ ReadVersion(c) \/ Fail(c) \/ Done(c)
        BY <2>5 DEF ReadGlobal, ReadOwn, ReadVersion, Fail, Done
    <2> QED  BY <1>1, <2>1, <2>2, <2>3, <2>4, <2>5 DEF CallStep
<1>2. ASSUME NEW n \in Names, CreateSandbox(n) \/ DeleteSettings(n) \/ ForgetSandbox(n)
      PROVE  global' = global
    BY <1>2 DEF CreateSandbox, DeleteSettings, ForgetSandbox
<1> QED  BY <1>1, <1>2 DEF Next

LEMMA OneKeyChanges ==
    ASSUME IInv, Next, global' # global
    PROVE  /\ global'.revision = global.revision + 1
           /\ Cardinality({k \in Keys : global'.settings[k] # global.settings[k]}) = 1
<1>1. PICK c \in Calls : SaveGlobal(c)
    BY OnlySaveGlobalWrites
<1> DEFINE key == calls[c].key
           v == calls[c].value
           new == Upsert(global, key, v)
<1>2. key \in Keys /\ v \in Value /\ global' = new /\ global \in Blob
    BY <1>1, SaveGlobalWrites DEF Call, IInv, TypeOK
<1>3. /\ new.settings[key] = v
      /\ \A j \in Keys \ {key} : new.settings[j] = global.settings[j]
      /\ new = global \/ (new.revision = global.revision + 1 /\ global.settings[key] # v)
    BY <1>2, UpsertType
<1> HIDE DEF key, v, new
<1>4. new.revision = global.revision + 1 /\ global.settings[key] # v
    BY <1>2, <1>3
<1>5. {k \in Keys : global'.settings[k] # global.settings[k]} = {key}
    BY <1>2, <1>3, <1>4
<1>6. Cardinality({key}) = 1
    BY FS_Singleton
<1> QED  BY <1>2, <1>4, <1>5, <1>6

\* NoLostUpdate for every number of concurrent writers: what a writer saves is
\* the row it overwrites with one key changed, so that two requests that read,
\* change and write back the global settings never undo one another.
THEOREM UpdatesKept == Spec => NoLostUpdate
<1>1. IInv /\ [Next]_vars =>
        [global' # global =>
           /\ global'.revision = global.revision + 1
           /\ Cardinality({k \in Keys : global'.settings[k] # global.settings[k]}) = 1]_vars
    BY OneKeyChanges DEF vars
<1> QED  BY <1>1, Invariant, PTL DEF Spec, NoLostUpdate

-----------------------------------------------------------------------------
(* When a policy is acknowledged.                                           *)

\* A step of another call leaves this one alone.
LEMMA OwnCallOnly ==
    ASSUME NEW c \in Calls, NEW d \in Calls \ {c}, TypeOK, CallStep(d)
    PROVE  calls'[c] = calls[c]
<1>1. calls \in [Calls -> Call \cup {Idle}]
    BY DEF TypeOK
<1>2. CASE \E what : Reply(d, what)
    BY <1>1, <1>2 DEF Reply
<1>3. CASE \E l : Goto(d, l)
    BY <1>1, <1>3 DEF Goto
<1>4. CASE Begin(d)
    BY <1>1, <1>4 DEF Begin
<1>5. CASE ResolveSandbox(d)
    BY <1>1, <1>2, <1>5 DEF ResolveSandbox
<1>6. CASE Lock(d) \/ Latest(d) \/ MarkGlobalLoaded(d) \/ SupersedeGlobal(d) \/ SupersedeAll(d)
    BY <1>3, <1>6 DEF Lock, Latest, MarkGlobalLoaded, SupersedeGlobal, SupersedeAll
<1>7. CASE PutGlobalRevision(d) \/ LoadSandbox(d) \/ ReadGlobal(d) \/ ReadOwn(d) \/ ReadVersion(d)
    BY <1>1, <1>7 DEF PutGlobalRevision, LoadSandbox, ReadGlobal, ReadOwn, ReadVersion
<1>8. CASE LoadGlobal(d)
    <2>1. \/ \E what : Reply(d, what)
          \/ \E l : Goto(d, l)
          \/ \E u, l : calls' = [calls EXCEPT ![d].blob = u, ![d].pc = l]
        BY <1>8 DEF LoadGlobal
    <2> QED  BY <1>1, <1>2, <1>3, <2>1
<1>9. CASE SaveGlobal(d) \/ SaveSandbox(d)
    BY <1>2, <1>9 DEF SaveGlobal, SaveSandbox
<1>10. CASE Fail(d) \/ Done(d)
    BY <1>1, <1>10 DEF Fail, Done
<1> QED  BY <1>4, <1>5, <1>6, <1>7, <1>8, <1>9, <1>10 DEF CallStep

\* The labels a call reaches without an answer.
LEMMA Unanswered ==
    ASSUME IInv, NEW c \in Calls, CallStep(c), calls'[c].pc = "replied"
    PROVE  ResolveSandbox(c) \/ LoadGlobal(c) \/ SaveGlobal(c) \/ SaveSandbox(c)
<1>1. calls \in [Calls -> Call \cup {Idle}]
    BY DEF IInv, TypeOK
<1>2. \A r \in Call \cup {Idle} : DOMAIN r # {} /\ "pc" \in DOMAIN r
    BY DEF Call, Idle
<1>3. ~Begin(c)
    <2>1. \A q \in Requests : "pc" \in DOMAIN q
        BY DEF Requests, Request
    <2> QED  BY <1>1, <2>1 DEF Begin
<1>4. \A l : Goto(c, l) => l = "replied"
    BY <1>1, <1>2 DEF Goto
<1>5. ~(Lock(c) \/ Latest(c) \/ MarkGlobalLoaded(c) \/ SupersedeGlobal(c) \/ SupersedeAll(c))
    BY <1>4 DEF Lock, Latest, MarkGlobalLoaded, SupersedeGlobal, SupersedeAll
<1>6. ~(PutGlobalRevision(c) \/ LoadSandbox(c) \/ ReadGlobal(c) \/ ReadOwn(c) \/ ReadVersion(c))
    BY <1>1, <1>2 DEF PutGlobalRevision, LoadSandbox, ReadGlobal, ReadOwn, ReadVersion
<1>7. ~(Fail(c) \/ Done(c))
    BY <1>1 DEF Fail, Done, Idle
<1> QED  BY <1>3, <1>5, <1>6, <1>7 DEF CallStep

LEMMA AcknowledgedInForce ==
    ASSUME IInv, Next, NEW c \in Calls, calls[c].pc # "replied", calls'[c].pc = "replied",
           calls'[c].kind = "policy", calls'[c].reply = "ok"
    PROVE  global'.settings[PolicyKey] = calls'[c].value
<1>1. CallStep(c)
    <2>1. calls'[c] # calls[c]
        OBVIOUS
    <2>2. \A d \in Calls \ {c} : ~CallStep(d)
        BY <2>1, OwnCallOnly DEF IInv
    <2>3. \A n \in Names : ~(CreateSandbox(n) \/ DeleteSettings(n) \/ ForgetSandbox(n))
        BY <2>1 DEF CreateSandbox, DeleteSettings, ForgetSandbox
    <2> QED  BY <2>2, <2>3 DEF Next
<1>2. calls \in [Calls -> Call \cup {Idle}]
    BY DEF IInv, TypeOK
<1>3. ~ResolveSandbox(c)
    <2> SUFFICES ASSUME ResolveSandbox(c) PROVE FALSE
        OBVIOUS
    <2>1. calls[c] \in Call
        BY ActiveCall DEF ResolveSandbox, At
    <2>2. CASE Reply(c, "not_found")
        BY <1>2, <2>1, <2>2 DEF Reply, Call
    <2>3. CASE calls' = [calls EXCEPT ![c].pc = "lock", ![c].id = names[calls[c].name]]
        BY <1>2, <2>1, <2>3 DEF Call
    <2> QED  BY <2>2, <2>3 DEF ResolveSandbox
<1>4. ASSUME NEW what, Reply(c, what), calls[c] \in Call
      PROVE  SameRequest(calls'[c], calls[c])
    BY <1>2, <1>4 DEF Reply, Call, SameRequest
<1>5. ~LoadGlobal(c)
    <2> SUFFICES ASSUME LoadGlobal(c) PROVE FALSE
        OBVIOUS
    <2>1. /\ calls[c] \in Call /\ Knows(calls[c], global, rows, deleting)
          /\ calls[c].pc = "load"
        BY ActiveCall DEF LoadGlobal, At
    <2>2. CASE calls[c].scope = "sandbox" /\ \E what : Reply(c, what)
        BY <1>4, <2>1, <2>2 DEF SameRequest, Knows, Critical
    <2>3. CASE Goto(c, "loadOwn")
        BY <1>2, <2>1, <2>3 DEF Goto, Call
    <2>4. CASE \E u : \E l \in {"supersedeAll", "save"} :
                 calls' = [calls EXCEPT ![c].blob = u, ![c].pc = l]
        BY <1>2, <2>1, <2>4 DEF Call
    <2>5. \/ calls[c].scope = "sandbox" /\ \E what : Reply(c, what)
          \/ Goto(c, "loadOwn")
          \/ \E u : \E l \in {"supersedeAll", "save"} :
                 calls' = [calls EXCEPT ![c].blob = u, ![c].pc = l]
        BY DEF LoadGlobal
    <2> QED  BY <2>2, <2>3, <2>4, <2>5
<1>6. ~SaveSandbox(c)
    <2> SUFFICES ASSUME SaveSandbox(c) PROVE FALSE
        OBVIOUS
    <2>1. /\ calls[c] \in Call /\ Knows(calls[c], global, rows, deleting)
          /\ calls[c].pc = "saveOwn"
        BY ActiveCall DEF SaveSandbox, At
    <2>2. \E what : Reply(c, what)
        BY DEF SaveSandbox
    <2> QED  BY <1>4, <2>1, <2>2 DEF SameRequest, Knows, Critical
<1>7. SaveGlobal(c)
    BY <1>1, <1>3, <1>5, <1>6, Unanswered
<1>8. /\ calls[c] \in Call /\ calls[c].key \in Keys /\ Knows(calls[c], global, rows, deleting)
      /\ global' = Upsert(global, calls[c].key, calls[c].value) /\ calls[c].pc = "save"
    BY <1>7, SaveGlobalWrites
<1>9. SameRequest(calls'[c], calls[c])
    BY <1>4, <1>7, <1>8 DEF SaveGlobal
<1>10. global'.settings[calls[c].key] = calls[c].value
    BY <1>8, UpsertType DEF IInv, TypeOK, Call
<1>11. calls[c].key = PolicyKey
    BY <1>8, <1>9 DEF SameRequest, Knows, Critical
<1> QED  BY <1>9, <1>10, <1>11 DEF SameRequest

\* SetPolicyInForce for every number of requests: the revision table and the
\* blob are written at different awaits, and a request may stop in between,
\* yet an acknowledged set of the global policy is in the blob sandboxes poll.
THEOREM PolicySetInForce == Spec => SetPolicyInForce
<1>1. IInv /\ [Next]_vars =>
        [\A c \in Calls :
            (calls[c].pc # "replied" /\ calls'[c].pc = "replied"
               /\ calls'[c].kind = "policy" /\ calls'[c].reply = "ok")
            => global'.settings[PolicyKey] = calls'[c].value]_vars
    BY AcknowledgedInForce DEF vars
<1> QED  BY <1>1, Invariant, PTL DEF Spec, SetPolicyInForce

=============================================================================
