-------------------------- MODULE MCSandboxLifecycle --------------------------
(* Two sandboxes of one name.  Requests are plain, refused (no node has a     *)
(* GPU, a field is too long, a provider is unknown), or set variables that    *)
(* the supervisor needs, both in the template and in the spec.                *)
EXTENDS SandboxLifecycle

Plain == [log_level |-> "info", environment |-> NoMap, template |-> EmptyTemplate, gpu |-> FALSE,
          providers |-> {"p"}, policy |-> ""]
Gpu == [Plain EXCEPT !.gpu = TRUE]
Overriding ==
    [Plain EXCEPT !.environment = ("SANDBOX_ID" :> "other") @@ ("HOME" :> "x"),
                  !.template.environment = ("SANDBOX_COMMAND" :> "other") @@ ("TLS_KEY" :> "other"),
                  !.template.image = "image", !.template.limits = ("cpu" :> "1")]
MCSpecs == <<Plain, Gpu, [Plain EXCEPT !.log_level = Oversized],
             [Plain EXCEPT !.providers = {"q"}], Overriding>>
===============================================================================
