----------------------------- MODULE MCPolicySync -----------------------------
(* Small instances of PolicySync. *)
EXTENDS PolicySync

CONSTANTS none, web, bad

WebPolicy   == [net |-> web, enr |-> FALSE]
MCSpecPolicies == {WebPolicy, NoPolicy}
MCWebOnly      == {WebPolicy}
===============================================================================
