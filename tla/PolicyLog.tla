------------------------------ MODULE PolicyLog ------------------------------
(***************************************************************************)
(* What the gateway promises about the policy history of one sandbox: an   *)
(* append-only log in which every entry is ONE outstanding request applied *)
(* to the entry just before it.  A submitted policy replaces the previous  *)
(* one and is never a repetition of it; an approval adds its rule to the   *)
(* previous policy; a revocation takes one grant out of it; the baseline   *)
(* of the sandbox's spec is only ever the first entry.                     *)
(***************************************************************************)
EXTENDS Naturals

CONSTANTS Writer,        \* requests in flight, by the handler that serves them
          Requests,      \* what a writer may ask for
          NoRequest,
          EmptyPolicy    \* what a log without entries counts as

VARIABLES size,          \* number of entries
          log,           \* the entries, 1 .. size
          req            \* the outstanding request of each writer

vars == <<size, log, req>>

\* The policy a request makes of the policy p before it.
Result(r, p) ==
    IF r.kind \in {"set", "backfill"} THEN r.policy
    ELSE IF r.kind = "merge" THEN [p EXCEPT !.net = @ \cup r.rule]
    ELSE [p EXCEPT !.net = @ \ {r.chunk}]

Current == IF size = 0 THEN EmptyPolicy ELSE log[size]

Init ==
    /\ size = 0
    /\ log = [v \in {} |-> 0]
    /\ req = [w \in Writer |-> NoRequest]

\* A request arrives.
Issue(w) ==
    /\ req[w] = NoRequest
    /\ req'[w] \in Requests
    /\ req' = [req EXCEPT ![w] = req'[w]]
    /\ UNCHANGED <<size, log>>

\* A request ends without an entry: refused, a no-op, given up or dropped.
Withdraw(w) ==
    /\ req[w] # NoRequest
    /\ req' = [req EXCEPT ![w] = NoRequest]
    /\ UNCHANGED <<size, log>>

\* When a request of each kind may become an entry.
MayCommit(r) ==
    /\ r.kind = "backfill" => size = 0
    /\ r.kind = "remove" => size > 0
    /\ r.kind = "set" /\ size > 0 => Result(r, Current) # Current

Commit(w) ==
    /\ req[w] # NoRequest
    /\ MayCommit(req[w])
    /\ size' = size + 1
    /\ log' = [v \in 1 .. size + 1 |->
                  IF v = size + 1 THEN Result(req[w], Current) ELSE log[v]]
    /\ req' = [req EXCEPT ![w] = NoRequest]

Next == \E w \in Writer : Issue(w) \/ Withdraw(w) \/ Commit(w)

Spec == Init /\ [][Next]_vars

===============================================================================
