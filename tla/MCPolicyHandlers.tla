--------------------------- MODULE MCPolicyHandlers ---------------------------
(* Small instances of PolicyHandlers. *)
EXTENDS PolicyHandlers, TLC

CONSTANTS c1, c2, etc, home, unset, user, root

\* The baseline, a submission that adds a path and a grant and leaves the process
\* section out, one that changes the process identity, and the baseline itself
\* (a no-op or a rollback).
BasePolicy   == [fs |-> {etc}, ident |-> user, net |-> {}]
OtherPolicy  == [fs |-> {etc, home}, ident |-> unset, net |-> {c1}]
RootPolicy   == [fs |-> {etc}, ident |-> root, net |-> {}]

MCSubmitted     == {BasePolicy, OtherPolicy, RootPolicy}
MCTwoSubmitted  == {BasePolicy, OtherPolicy}
MCBaseline      == {BasePolicy}
MCAnyBaseline   == {BasePolicy, NoPolicy}
MCEmptyRule     == {{}}
MCNone          == {}
MCOneFlagged    == {c2}

HandlerSymmetry == Permutations(Handlers)
===============================================================================
