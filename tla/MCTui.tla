------------------------------- MODULE MCTui -------------------------------
(* Seven users: one edits the settings of a sandbox and one the global ones, *)
(* one manages providers, one creates sandboxes and switches gateways, one   *)
(* reads logs, one does so in a terminal as low as it can be, and one        *)
(* decides drafts.                                                           *)
EXTENDS Tui, TLC

Base == [gateways |-> {<<"g1">>}, providers |-> {<<>>}, sandboxes |-> {<<"a">>},
         chunks |-> {<<>>}, scopes |-> {}, globals |-> {},
         global |-> {FALSE}, lines |-> {"gateway"}, heights |-> {4}, discovered |-> FALSE]
Setup(keys, change) == [keys |-> keys] @@ change @@ Base

Chunk(id, status) == [id |-> id, status |-> status]

MCSetups ==
    {Setup({"BackTab", "h", "j", "Enter", "Esc", "y", "d", "1", "n"},
           [sandboxes |-> {<<"a">>, <<"b">>}, scopes |-> {<<"sandbox", "unset">>, <<"global", "unset">>}]),
     Setup({"Tab", "h", "j", "k", "Enter", "Esc", "y", "d", "1", "n", "q"},
           [sandboxes |-> {}, globals |-> {<<"unset", "unset">>, <<"global", "global">>}]),
     Setup({"Tab", "j", "Enter", "Esc", "u", "d", "y", "c", "1"},
           [sandboxes |-> {}, providers |-> {<<>>, <<<<"openai">>>>}, discovered |-> TRUE]),
     Setup({"Tab", "BackTab", "j", "Enter", "Esc", "c", "1", ":", "q"},
           [gateways |-> {<<"g1", "g2">>}, sandboxes |-> {<<>>, <<"a", "b">>}]),
     Setup({"BackTab", "Enter", "Esc", "l", "v", "j", "k", "G", "g", "s", "y", "r"},
           [lines |-> {"gateway", "sandbox"}, heights |-> {1, 5}]),
     Setup({"BackTab", "Enter", "l", "v", "j", "g"}, [lines |-> {"gateway"}, heights |-> {0, 4}]),
     Setup({"BackTab", "Enter", "Esc", "r", "a", "x", "A", "y", "j"},
           [chunks |-> {<<Chunk(1, "pending"), Chunk(2, "rejected")>>,
                        <<Chunk(2, "pending"), Chunk(3, "pending")>>},
            scopes |-> {<<"unset", "unset">>}, global |-> BOOLEAN])}

MCKinds == <<"bool", "int">>
MCProviderTypes == <<[type |-> "openai", generic |-> FALSE], [type |-> "generic", generic |-> TRUE]>>
=============================================================================
