----------------------------- MODULE MCSettings -----------------------------
(* Two concurrent requests, one registered key, two policies, one name.     *)
EXTENDS Settings

MCRegistered == "dummy_int" :> "int"
MCValues == ("int" :> {[kind |-> "int", v |-> 1], [kind |-> "int", v |-> 2]})
            @@ ("bool" :> {[kind |-> "bool", v |-> 1]})
MCSymmetry == Permutations(Calls)
=============================================================================
