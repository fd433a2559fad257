---------------------------- MODULE MCInference ----------------------------
(* Two gateway requests, one provider that may change its key or type, one  *)
(* intercepted connection.                                                  *)
EXTENDS Inference

Content(type, creds) == [type |-> type, credentials |-> creds, config |-> <<>>]
MCContents == {Content("openai", "OPENAI_API_KEY" :> "k1"), Content("", "OPENAI_API_KEY" :> "k2"),
               Content("nvidia", "NVIDIA_API_KEY" :> "k3")}
MCKeyOrder == <<"EXTRA", "NVIDIA_API_KEY", "OPENAI_API_KEY">>
MCTraffic == {[method |-> "POST", path |-> <<"v1", "chat", "completions">>,
               headers |-> {"authorization", "accept", "te"}],
              [method |-> "GET", path |-> <<"v2">>, headers |-> {}]}
MCFileConfigs ==
    LET r == [name |-> "inference.local", endpoint |-> "e", model |-> "m1", key |-> "k1",
              protocols |-> {"openai_chat_completions"}, type |-> "openai"]
    IN {<<>>, <<r>>, <<r, [r EXCEPT !.name = "sandbox-system"]>>, <<[r EXCEPT !.key = None]>>}
=============================================================================
