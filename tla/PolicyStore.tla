----------------------------- MODULE PolicyStore -----------------------------
(***************************************************************************)
(* The sandbox_policies table of the gateway's store, restricted to the    *)
(* rows of one sandbox_id (or of the reserved id __global__).              *)
(*                                                                         *)
(* A table is a function from the versions that have a row to their row.   *)
(* The schema's UNIQUE (sandbox_id, version) makes it a function; nothing  *)
(* in the schema makes its domain contiguous or its rows immutable.        *)
(* policy_hash is not a field: deterministic_policy_hash is taken to be    *)
(* injective, so comparing hashes is comparing policies.                   *)
(* One SQL statement is atomic, so every operator is one step of a caller. *)
(***************************************************************************)
EXTENDS Naturals

\* Values of the status column.
RevisionStatus == {"pending", "loaded", "failed", "superseded"}

\* What a table over the policies P looks like.
IsTable(t, P) ==
    /\ DOMAIN t \subseteq Nat \ {0}
    /\ \A v \in DOMAIN t : t[v] \in [policy : P, status : RevisionStatus]

EmptyTable == [v \in {} |-> 0]

\* SELECT ... ORDER BY version DESC LIMIT 1: the version of the newest row,
\* whatever its status, and 0 when the sandbox has no row.
get_latest_policy(t) ==
    IF DOMAIN t = {} THEN 0
    ELSE CHOOSE v \in DOMAIN t : \A w \in DOMAIN t : w <= v

\* INSERT with status 'pending'. Its guard is the UNIQUE constraint.
Mutant_NoUniqueConstraint(t, v) == FALSE
VersionTaken(t, v) == v \in DOMAIN t

put_policy_revision(t, v, p) ==
    [w \in DOMAIN t \cup {v} |->
        IF w = v THEN [policy |-> p, status |-> "pending"] ELSE t[w]]

\* UPDATE ... WHERE version = v: the old status is not looked at.
update_policy_status(t, v, s) ==
    [w \in DOMAIN t |-> IF w = v THEN [t[w] EXCEPT !.status = s] ELSE t[w]]

Mutant_SupersedeInclusive(t, v) ==
    [w \in DOMAIN t |->
        IF w <= v /\ t[w].status \in {"pending", "loaded"}
        THEN [t[w] EXCEPT !.status = "superseded"] ELSE t[w]]

\* Rows older than v that are pending or loaded become superseded; failed
\* rows keep the report that the sandbox made.
supersede_older_policies(t, v) ==
    [w \in DOMAIN t |->
        IF w < v /\ t[w].status \in {"pending", "loaded"}
        THEN [t[w] EXCEPT !.status = "superseded"] ELSE t[w]]

===============================================================================
