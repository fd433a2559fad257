-------------------------------- MODULE Tui --------------------------------
(***************************************************************************)
(* The terminal interface: one event loop that owns the App, the           *)
(* background tasks it spawns for requests to the gateway, and the events  *)
(* they send back while the user goes on typing.  A handler of the loop    *)
(* runs to its end before the next event, so it is one step here; its      *)
(* requests are answered by a gateway that others change all the time.     *)
(***************************************************************************)
EXTENDS Naturals, Sequences, FiniteSets, SequencesExt, FiniteSetsExt

CONSTANTS Nil,
          TuiSetups,   \* [keys, gateways, providers, sandboxes, chunks, scopes,
                       \*  globals, global, lines, heights, discovered]: the
                       \* keys of a user and the answers of disk and gateway
          Kinds,       \* the kinds of the registered settings, in order
          ProviderTypes, \* sequence of [type, generic]
          MaxTasks, MaxLines, MaxQueued, BottomPad

ASSUME TuiAssumption ==
    /\ MaxTasks \in Nat /\ MaxLines \in Nat /\ MaxQueued \in Nat /\ BottomPad \in Nat
    /\ ProviderTypes # <<>>
    /\ \A s \in TuiSetups : s.heights \subseteq Nat

VARIABLES app,     \* the App
          tasks,   \* background requests under way
          logq,    \* log batches in the channel of events
          offered, \* the chunks the approve-all dialog was opened for
          tuiSetup \* the member of TuiSetups this behaviour is about

tuiVars == <<app, tasks, logq, offered, tuiSetup>>

-----------------------------------------------------------------------------
(* The App.                                                                 *)

InitApp ==
    [running |-> TRUE, screen |-> "Splash", input_mode |-> "Normal", focus |-> "Gateways",
     gateways |-> <<>>, gateway_selected |-> 0, gateway_name |-> "g1",
     middle_pane_tab |-> "Providers",
     global_settings |-> <<>>, global_settings_selected |-> 0, setting_edit |-> Nil,
     confirm_setting_set |-> FALSE, confirm_setting_delete |-> FALSE,
     providers |-> <<>>, provider_selected |-> 0, create_provider_form |-> Nil,
     provider_detail |-> FALSE, update_provider_form |-> Nil, confirm_provider_delete |-> FALSE,
     sandboxes |-> <<>>, sandbox_selected |-> 0, confirm_delete |-> FALSE,
     sandbox_policy_tab |-> "Policy", policy_is_global |-> FALSE,
     sandbox_settings |-> <<>>, sandbox_settings_selected |-> 0, sandbox_setting_edit |-> Nil,
     sandbox_confirm_setting_set |-> FALSE, sandbox_confirm_setting_delete |-> FALSE,
     create_form |-> Nil, anim |-> FALSE,
     log_lines |-> <<>>, log_scroll |-> 0, log_cursor |-> 0, log_filter |-> "All",
     log_autoscroll |-> TRUE, log_height |-> 0, log_detail |-> Nil, log_anchor |-> Nil,
     log_stream |-> Nil,
     draft_chunks |-> <<>>, draft_selected |-> 0, draft_detail_open |-> FALSE,
     approve_all_confirm_open |-> FALSE, approve_all_chunks |-> {},
     command_input |-> "", pending |-> "none"]

Sub(x, y) == IF x >= y THEN x - y ELSE 0          \* saturating_sub
Least(x, y) == IF x <= y THEN x ELSE y
Down(sel, n) == IF n > 0 THEN Least(sel + 1, n - 1) ELSE sel
Clamp(sel, n) == IF sel >= n /\ n > 0 THEN n - 1 ELSE sel
ItemAt(list, i) == IF i < Len(list) THEN list[i + 1] ELSE Nil

\* What a text field holds: nothing, a number, or something else.
Typed(text, k) ==
    CASE k = "Backspace" -> ""
      [] k = "1" -> IF text = "x" THEN "x" ELSE "1"
      [] k \notin {"Backspace", "1", "Tab", "BackTab", "Enter", "Esc"} -> "x"
      [] OTHER -> text

selected_sandbox(a) == ItemAt(a.sandboxes, a.sandbox_selected)
selected_provider(a) == ItemAt(a.providers, a.provider_selected)

\* The lines the filter lets through, by their positions; only their number
\* matters to where the cursor may be.
filtered_log_lines(a) ==
    {i \in DOMAIN a.log_lines : a.log_filter = "All" \/ a.log_lines[i] = a.log_filter}
Shown(a) == Cardinality(filtered_log_lines(a))

log_autoscroll_offset(a) ==
    IF a.log_height = 0 THEN 0 ELSE Sub(Shown(a), Sub(a.log_height, BottomPad))

cancel_log_stream(a) == [a EXCEPT !.log_stream = Nil]

\* Switching the gateway forgets what the old one answered.
reset_sandbox_state(a) ==
    LET b == [cancel_log_stream(a) EXCEPT
                !.anim = FALSE, !.sandboxes = <<>>, !.sandbox_selected = 0,
                !.log_lines = <<>>, !.log_scroll = 0, !.log_cursor = 0, !.log_autoscroll = TRUE,
                !.log_detail = Nil, !.log_anchor = Nil, !.confirm_delete = FALSE,
                !.providers = <<>>, !.provider_selected = 0, !.confirm_provider_delete = FALSE]
    IN IF a.screen = "Sandbox" THEN [b EXCEPT !.screen = "Dashboard", !.focus = "Sandboxes"] ELSE b

-----------------------------------------------------------------------------
(* Settings: one editor for global and one for sandbox settings.            *)

ValidInput(kind, text) == kind = "string" \/ text = "1"

\* Enter in the editor validates and asks; the editor stays open below.
EditKey(a, k, edit, confirm, known) ==
    LET e == a[edit]
    IN CASE k = "Esc" -> [a EXCEPT ![edit] = Nil]
         [] k = "Enter" ->
              IF e.index < Len(known) /\ ~ValidInput(Kinds[e.index + 1], e.input)
              THEN [a EXCEPT ![edit].error = TRUE]
              ELSE [a EXCEPT ![edit].error = FALSE, ![confirm] = TRUE]
         [] k \in {"Tab", "BackTab"} -> a
         [] OTHER -> [a EXCEPT ![edit] = [e EXCEPT !.input = Typed(e.input, k), !.error = FALSE]]

handle_setting_edit_key(a, k) ==
    EditKey(a, k, "setting_edit", "confirm_setting_set", a.global_settings)
handle_sandbox_setting_edit_key(a, k) ==
    EditKey(a, k, "sandbox_setting_edit", "sandbox_confirm_setting_set", a.sandbox_settings)

Confirm(a, k, flag, request) ==
    CASE k \in {"y", "Enter"} -> [a EXCEPT ![flag] = FALSE, !.pending = request]
      [] k \in {"Esc", "n"} -> [a EXCEPT ![flag] = FALSE]
      [] OTHER -> a

handle_setting_confirm_set_key(a, k) ==
    LET b == Confirm(a, k, "confirm_setting_set", "gset")
    IN IF k \in {"Esc", "n"} THEN [b EXCEPT !.setting_edit = Nil] ELSE b
handle_setting_confirm_delete_key(a, k) == Confirm(a, k, "confirm_setting_delete", "gdel")
handle_sandbox_setting_confirm_set_key(a, k) ==
    LET b == Confirm(a, k, "sandbox_confirm_setting_set", "sset")
    IN IF k \in {"Esc", "n"} THEN [b EXCEPT !.sandbox_setting_edit = Nil] ELSE b
handle_sandbox_setting_confirm_delete_key(a, k) ==
    Confirm(a, k, "sandbox_confirm_setting_delete", "sdel")

\* A boolean is toggled and goes straight to the confirmation.
OpenEdit(a, sel, entry, edit, confirm) ==
    [a EXCEPT ![edit] = [index |-> sel, error |-> FALSE,
                         input |-> IF Kinds[sel + 1] = "bool" \/ entry # "unset" THEN "1" ELSE ""],
              ![confirm] = Kinds[sel + 1] = "bool"]

\* A sandbox setting that is managed globally is neither edited nor deleted.
handle_sandbox_settings_key(a, k) ==
    LET sel == a.sandbox_settings_selected
        entry == ItemAt(a.sandbox_settings, sel)
    IN CASE k = "q" -> [a EXCEPT !.running = FALSE]
         [] k = "Esc" -> [cancel_log_stream(a) EXCEPT !.sandbox_policy_tab = "Policy",
                                                      !.screen = "Dashboard", !.focus = "Sandboxes"]
         [] k \in {"h", "l"} -> [a EXCEPT !.sandbox_policy_tab = "Policy"]
         [] k = "j" -> [a EXCEPT !.sandbox_settings_selected = Down(@, Len(a.sandbox_settings))]
         [] k = "k" -> [a EXCEPT !.sandbox_settings_selected = Sub(@, 1)]
         [] k = "Enter" /\ entry \notin {Nil, "global"} ->
              OpenEdit(a, sel, entry, "sandbox_setting_edit", "sandbox_confirm_setting_set")
         [] k = "d" /\ entry = "sandbox" -> [a EXCEPT !.sandbox_confirm_setting_delete = TRUE]
         [] OTHER -> a

-----------------------------------------------------------------------------
(* The dashboard.                                                           *)

Quit(a) == [a EXCEPT !.running = FALSE]
Command(a) == [a EXCEPT !.input_mode = "Command", !.command_input = ""]

handle_gateways_key(a, k) ==
    LET entry == ItemAt(a.gateways, a.gateway_selected)
    IN CASE k = "q" -> Quit(a)
         [] k = "Tab" -> [a EXCEPT !.focus = "Providers"]
         [] k = "BackTab" -> [a EXCEPT !.focus = "Sandboxes"]
         [] k = ":" -> Command(a)
         [] k = "j" -> [a EXCEPT !.gateway_selected = Down(@, Len(a.gateways))]
         [] k = "k" -> [a EXCEPT !.gateway_selected = Sub(@, 1)]
         [] k = "Enter" /\ entry # Nil ->
              [a EXCEPT !.focus = "Providers",
                        !.pending = IF entry # a.gateway_name THEN "switch" ELSE "none"]
         [] OTHER -> a

\* unique_provider_name: the type, or the type with the first free suffix.
unique_provider_name(base, existing) ==
    LET candidate(i) == IF i = 0 THEN <<base>> ELSE <<base, i>>
        free == {i \in 0..99 : candidate(i) \notin existing}
    IN IF free = {} THEN <<base>> ELSE candidate(Min(free))

open_create_provider_form(a) ==
    [a EXCEPT !.create_provider_form =
        [phase |-> "SelectType", type_cursor |-> 0, method_cursor |-> 0, name |-> <<>>,
         key_field |-> "Name", env_name |-> "", value |-> "", result |-> Nil]]

\* The update form remembers the provider by name.
open_update_provider_form(a) ==
    IF selected_provider(a) = Nil THEN a
    ELSE [a EXCEPT !.update_provider_form = [name |-> selected_provider(a), value |-> ""]]

handle_providers_key(a, k) ==
    IF a.confirm_provider_delete
    THEN CASE k = "y" -> [a EXCEPT !.confirm_provider_delete = FALSE, !.pending = "pdelete"]
           [] k \in {"Esc", "n"} -> [a EXCEPT !.confirm_provider_delete = FALSE]
           [] OTHER -> a
    ELSE CASE k = "q" -> Quit(a)
           [] k = "Tab" -> [a EXCEPT !.focus = "Sandboxes"]
           [] k = "BackTab" -> [a EXCEPT !.focus = "Gateways"]
           [] k = ":" -> Command(a)
           [] k = "j" -> [a EXCEPT !.provider_selected = Down(@, Len(a.providers))]
           [] k = "k" -> [a EXCEPT !.provider_selected = Sub(@, 1)]
           [] k = "c" -> open_create_provider_form(a)
           [] k = "Enter" /\ a.providers # <<>> -> [a EXCEPT !.pending = "pget"]
           [] k = "u" /\ a.providers # <<>> -> open_update_provider_form(a)
           [] k = "d" /\ a.providers # <<>> -> [a EXCEPT !.confirm_provider_delete = TRUE]
           [] k \in {"h", "l"} -> [a EXCEPT !.middle_pane_tab = "GlobalSettings"]
           [] OTHER -> a

handle_global_settings_key(a, k) ==
    LET sel == a.global_settings_selected
        entry == ItemAt(a.global_settings, sel)
    IN CASE k = "q" -> Quit(a)
         [] k = "Tab" -> [a EXCEPT !.focus = "Sandboxes"]
         [] k = "BackTab" -> [a EXCEPT !.focus = "Gateways"]
         [] k = ":" -> Command(a)
         [] k = "j" -> [a EXCEPT !.global_settings_selected = Down(@, Len(a.global_settings))]
         [] k = "k" -> [a EXCEPT !.global_settings_selected = Sub(@, 1)]
         [] k \in {"h", "l"} -> [a EXCEPT !.middle_pane_tab = "Providers"]
         [] k = "Enter" /\ entry # Nil -> OpenEdit(a, sel, entry, "setting_edit", "confirm_setting_set")
         [] k = "d" /\ entry = "global" -> [a EXCEPT !.confirm_setting_delete = TRUE]
         [] OTHER -> a

FormFields == <<"Name", "Image", "Command", "Providers", "Ports", "Submit">>
NextField(f, step) ==
    LET i == CHOOSE i \in 1..Len(FormFields) : FormFields[i] = f
    IN FormFields[((i - 1 + step) % Len(FormFields)) + 1]

open_create_form(a) ==
    [a EXCEPT !.create_form = [phase |-> "Form", field |-> "Name", command |-> "", ports |-> "",
                               result |-> Nil]]

handle_sandboxes_key(a, k) ==
    CASE k = "q" -> Quit(a)
      [] k = "Tab" -> [a EXCEPT !.focus = "Gateways"]
      [] k \in {"BackTab", "Esc"} -> [a EXCEPT !.focus = "Providers"]
      [] k = ":" -> Command(a)
      [] k = "j" -> [a EXCEPT !.sandbox_selected = Down(@, Len(a.sandboxes))]
      [] k = "k" -> [a EXCEPT !.sandbox_selected = Sub(@, 1)]
      [] k = "c" -> open_create_form(a)
      [] k = "Enter" /\ a.sandboxes # <<>> ->
           [a EXCEPT !.screen = "Sandbox", !.focus = "SandboxPolicy", !.confirm_delete = FALSE,
                     !.pending = "detail"]
      [] OTHER -> a

\* No key does anything while the request is under way.
handle_create_form_key(a, k) ==
    LET f == a.create_form
        form(change) == [a EXCEPT !.create_form = change]
    IN CASE f.phase = "Creating" -> a
         [] f.phase = "Form" /\ k = "Esc" -> form(Nil)
         [] f.phase = "Form" /\ k = "Tab" -> form([f EXCEPT !.field = NextField(f.field, 1)])
         [] f.phase = "Form" /\ k = "BackTab" -> form([f EXCEPT !.field = NextField(f.field, 5)])
         [] f.phase = "Form" /\ f.field = "Command" /\ k \notin {"Esc", "Tab", "BackTab"} ->
              form([f EXCEPT !.command = Typed(@, k)])
         [] f.phase = "Form" /\ f.field = "Ports" /\ k \in {"1", "Backspace"} ->
              form([f EXCEPT !.ports = Typed(@, k)])
         [] f.phase = "Form" /\ f.field = "Submit" /\ k = "Enter" ->
              [form([f EXCEPT !.phase = "Creating"]) EXCEPT !.pending = "create"]
         [] OTHER -> a

-----------------------------------------------------------------------------
(* The provider forms.                                                      *)

SelectTypeKey(a, f, k) ==
    LET type == ProviderTypes[f.type_cursor + 1]
    IN CASE k = "Esc" -> Nil
         [] k = "j" -> [f EXCEPT !.type_cursor = Down(@, Len(ProviderTypes))]
         [] k = "k" -> [f EXCEPT !.type_cursor = Sub(@, 1)]
         [] k = "Enter" ->
              [f EXCEPT !.name = unique_provider_name(type.type, Range(a.providers)),
                        !.phase = IF type.generic THEN "EnterKey" ELSE "ChooseMethod",
                        !.key_field = IF type.generic THEN "Name" ELSE @,
                        !.method_cursor = 0]
         [] OTHER -> f

\* Autodetection reads the environment; without a result it falls to manual.
ChooseMethodKey(f, k) ==
    CASE k = "Esc" -> [f EXCEPT !.phase = "SelectType"]
      [] k \in {"j", "k"} -> [f EXCEPT !.method_cursor = 1 - @]
      [] k = "Enter" /\ f.method_cursor = 0 /\ tuiSetup.discovered -> [f EXCEPT !.phase = "Creating"]
      [] k = "Enter" /\ ~(f.method_cursor = 0 /\ tuiSetup.discovered) ->
           [f EXCEPT !.phase = "EnterKey", !.key_field = "Name"]
      [] OTHER -> f

KeyFields(generic) == IF generic THEN <<"Name", "EnvVarName", "GenericValue", "Submit">>
                      ELSE <<"Name", "Credential", "Submit">>
EnterKeyKey(f, k) ==
    LET generic == ProviderTypes[f.type_cursor + 1].generic
        fields == KeyFields(generic)
        i == CHOOSE i \in 1..Len(fields) : fields[i] = f.key_field
        turn(step) == [f EXCEPT !.key_field = fields[((i - 1 + step) % Len(fields)) + 1]]
    IN CASE k = "Esc" -> [f EXCEPT !.phase = "SelectType", !.name = <<>>, !.env_name = "", !.value = ""]
         [] k = "Tab" -> turn(1)
         [] k = "BackTab" -> turn(Len(fields) - 1)
         [] f.key_field = "EnvVarName" /\ k \notin {"Tab", "BackTab", "Esc"} ->
              [f EXCEPT !.env_name = Typed(@, k)]
         [] f.key_field \in {"Credential", "GenericValue"} /\ k \notin {"Tab", "BackTab", "Esc"} ->
              [f EXCEPT !.value = Typed(@, k)]
         [] f.key_field = "Submit" /\ k = "Enter" /\ f.value # "" /\ (generic => f.env_name # "") ->
              [f EXCEPT !.phase = "Creating"]
         [] OTHER -> f

handle_create_provider_key(a, k) ==
    LET f == a.create_provider_form
        g == CASE f.phase = "SelectType" -> SelectTypeKey(a, f, k)
               [] f.phase = "ChooseMethod" -> ChooseMethodKey(f, k)
               [] f.phase = "EnterKey" -> EnterKeyKey(f, k)
               [] OTHER -> f
    IN [a EXCEPT !.create_provider_form = g,
                 !.pending = IF g # Nil /\ g # f /\ g.phase = "Creating" THEN "pcreate" ELSE "none"]

handle_provider_detail_key(a, k) ==
    IF k \in {"Esc", "Enter"} THEN [a EXCEPT !.provider_detail = FALSE] ELSE a

\* The form stays open until the gateway has answered.
handle_update_provider_key(a, k) ==
    LET f == a.update_provider_form
    IN CASE k = "Esc" -> [a EXCEPT !.update_provider_form = Nil]
         [] k = "Enter" -> IF f.value = "" THEN a ELSE [a EXCEPT !.pending = "pupdate"]
         [] OTHER -> [a EXCEPT !.update_provider_form.value = Typed(@, k)]

handle_command_key(a, k) ==
    CASE k = "Esc" -> [a EXCEPT !.input_mode = "Normal", !.command_input = ""]
      [] k = "Enter" -> [a EXCEPT !.input_mode = "Normal", !.command_input = "",
                                  !.running = a.command_input # "q"]
      [] OTHER -> [a EXCEPT !.command_input = IF @ = "" /\ k = "q" THEN "q" ELSE Typed(@, k)]

-----------------------------------------------------------------------------
(* The sandbox screen.                                                      *)

OpenLogs(a) ==
    [a EXCEPT !.log_lines = <<>>, !.log_scroll = 0, !.log_cursor = 0, !.log_filter = "All",
              !.log_autoscroll = TRUE, !.log_detail = Nil, !.focus = "SandboxLogs",
              !.pending = "log"]

handle_policy_key(a, k) ==
    IF a.confirm_delete
    THEN CASE k = "y" -> [a EXCEPT !.confirm_delete = FALSE, !.pending = "delete"]
           [] k \in {"Esc", "n"} -> [a EXCEPT !.confirm_delete = FALSE]
           [] OTHER -> a
    ELSE IF a.sandbox_policy_tab = "Settings" THEN handle_sandbox_settings_key(a, k)
    ELSE CASE k = "Esc" -> [cancel_log_stream(a) EXCEPT !.draft_detail_open = FALSE,
                                                        !.screen = "Dashboard", !.focus = "Sandboxes"]
           [] k = "l" -> OpenLogs(a)
           [] k = "r" -> [a EXCEPT !.focus = "SandboxDraft"]
           [] k = "s" /\ a.sandboxes # <<>> -> [a EXCEPT !.pending = "shell"]
           [] k = "d" -> [a EXCEPT !.confirm_delete = TRUE]
           [] k = "q" -> Quit(a)
           [] k = "h" -> [a EXCEPT !.sandbox_policy_tab = "Settings"]
           [] OTHER -> a

\* The pending chunks, copied when the dialog opens.
Snapshot(a) == {c \in Range(a.draft_chunks) : c.status = "pending"}

DraftChunk(a) == ItemAt(a.draft_chunks, a.draft_selected)
Undecided(a, other) == DraftChunk(a) # Nil /\ DraftChunk(a).status \in {"pending", other}

handle_draft_key(a, k) ==
    IF a.approve_all_confirm_open
    THEN CASE k \in {"y", "Enter"} ->
                [a EXCEPT !.approve_all_confirm_open = FALSE, !.pending = "approveAll"]
           [] k \in {"Esc", "n"} ->
                [a EXCEPT !.approve_all_confirm_open = FALSE, !.approve_all_chunks = {}]
           [] OTHER -> a
    ELSE CASE k = "a" /\ ~a.policy_is_global /\ Undecided(a, "rejected") ->
                [a EXCEPT !.pending = "approve", !.draft_detail_open = FALSE]
           [] k = "x" /\ ~a.policy_is_global /\ Undecided(a, "approved") ->
                [a EXCEPT !.pending = "reject", !.draft_detail_open = FALSE]
           [] a.draft_detail_open /\ k \in {"Esc", "Enter"} -> [a EXCEPT !.draft_detail_open = FALSE]
           [] ~a.draft_detail_open /\ k \in {"Esc", "p"} -> [a EXCEPT !.focus = "SandboxPolicy"]
           [] ~a.draft_detail_open /\ k = "l" -> OpenLogs(a)
           [] ~a.draft_detail_open /\ k = "Enter" /\ a.draft_chunks # <<>> ->
                [a EXCEPT !.draft_detail_open = TRUE]
           [] ~a.draft_detail_open /\ k = "j" ->
                [a EXCEPT !.draft_selected = Down(@, Len(a.draft_chunks))]
           [] ~a.draft_detail_open /\ k = "k" -> [a EXCEPT !.draft_selected = Sub(@, 1)]
           [] ~a.draft_detail_open /\ k = "A" /\ ~a.policy_is_global /\ Snapshot(a) # {} ->
                [a EXCEPT !.approve_all_chunks = Snapshot(a), !.approve_all_confirm_open = TRUE]
           [] ~a.draft_detail_open /\ k = "q" -> Quit(a)
           [] OTHER -> a

\* Cursor (relative to the scroll offset) and offset after one line down.
LineDown(a) ==
    LET n == Shown(a)
        visible == Least(Sub(n, a.log_scroll), a.log_height)
    IN CASE n = 0 -> a
         [] n > 0 /\ a.log_cursor < Sub(visible, 1) -> [a EXCEPT !.log_cursor = @ + 1]
         [] n > 0 /\ a.log_cursor >= Sub(visible, 1)
               /\ a.log_scroll < Sub(n, Least(a.log_height, n)) -> [a EXCEPT !.log_scroll = @ + 1]
         [] OTHER -> a

NextFilter == [All |-> "gateway", gateway |-> "sandbox", sandbox |-> "All"]

\* Mutant of SwitchFilter: the positions of the old list are kept.
Mutant_KeepPositions(a) == [a EXCEPT !.log_filter = NextFilter[@]]

SwitchFilter(a) == [a EXCEPT !.log_filter = NextFilter[@], !.log_anchor = Nil,
                             !.log_scroll = 0, !.log_cursor = 0]

handle_logs_key(a, k) ==
    LET abs == a.log_scroll + a.log_cursor
        offset == log_autoscroll_offset(a)
    IN IF a.log_detail # Nil
       THEN IF k \in {"Esc", "Enter"} THEN [a EXCEPT !.log_detail = Nil] ELSE a
       ELSE CASE k = "Esc" /\ a.log_anchor # Nil -> [a EXCEPT !.log_anchor = Nil]
              [] k = "Esc" /\ a.log_anchor = Nil ->
                   [cancel_log_stream(a) EXCEPT !.focus = "SandboxPolicy"]
              [] k = "q" -> Quit(a)
              [] k = "y" /\ Shown(a) > 0 -> [a EXCEPT !.log_anchor = Nil]
              [] k = "v" -> IF a.log_anchor # Nil THEN [a EXCEPT !.log_anchor = Nil]
                            ELSE [a EXCEPT !.log_anchor = abs, !.log_autoscroll = FALSE]
              [] k = "Enter" /\ a.log_anchor = Nil /\ abs < Shown(a) -> [a EXCEPT !.log_detail = abs]
              [] k = "j" -> LineDown(a)
              [] k = "k" -> [a EXCEPT !.log_cursor = Sub(@, 1), !.log_autoscroll = FALSE,
                                      !.log_scroll = IF a.log_cursor > 0 THEN @ ELSE Sub(@, 1)]
              [] k = "G" -> [a EXCEPT !.log_anchor = Nil, !.log_scroll = offset,
                                      !.log_autoscroll = TRUE,
                                      !.log_cursor = Least(Sub(Sub(Shown(a), offset), 1),
                                                           Sub(a.log_height, 1))]
              [] k = "g" -> [a EXCEPT !.log_scroll = 0, !.log_cursor = 0, !.log_autoscroll = FALSE]
              [] k = "s" -> SwitchFilter(a)
              [] k = "r" -> [a EXCEPT !.log_anchor = Nil, !.focus = "SandboxDraft"]
              [] k = "p" -> [a EXCEPT !.log_anchor = Nil, !.focus = "SandboxPolicy"]
              [] OTHER -> a

\* The mouse wheel over the logs moves by three lines.
scroll_logs(a, down) ==
    LET scroll == IF down THEN Least(a.log_scroll + 3, log_autoscroll_offset(a)) ELSE Sub(a.log_scroll, 3)
        visible == Least(Sub(Shown(a), scroll), a.log_height)
    IN [a EXCEPT !.log_scroll = scroll, !.log_autoscroll = @ /\ down,
                 !.log_cursor = IF visible > 0 THEN Least(@, visible - 1) ELSE 0]

-----------------------------------------------------------------------------
handle_normal_key(a, k) ==
    CASE a.focus = "Gateways" -> handle_gateways_key(a, k)
      [] a.focus = "Providers" /\ a.middle_pane_tab = "GlobalSettings" -> handle_global_settings_key(a, k)
      [] a.focus = "Providers" /\ a.middle_pane_tab = "Providers" -> handle_providers_key(a, k)
      [] a.focus = "Sandboxes" -> handle_sandboxes_key(a, k)
      [] a.focus = "SandboxPolicy" -> handle_policy_key(a, k)
      [] a.focus = "SandboxLogs" -> handle_logs_key(a, k)
      [] a.focus = "SandboxDraft" -> handle_draft_key(a, k)

\* The next draw of the log pane: it stores the height it finds, 0 in a terminal
\* too low for more than the borders, and moves the cursor back into the visible
\* part if there is one.  Other panes store nothing.
Drawn(a) ==
    IF a.screen # "Sandbox" \/ a.focus # "SandboxLogs" THEN {a}
    ELSE {LET visible == Least(Sub(Shown(a), a.log_scroll), h)
          IN [a EXCEPT !.log_height = h,
                       !.log_cursor = IF visible > 0 THEN Least(@, visible - 1) ELSE @]
          : h \in tuiSetup.heights}

dismiss_splash(a) == IF a.screen = "Splash" THEN [a EXCEPT !.screen = "Dashboard"] ELSE a

\* Dialogs intercept every key, confirmations before editors.
handle_key(a, k) ==
    IF k = "Ctrl-c" THEN Quit(a)
    ELSE IF a.screen = "Splash" THEN dismiss_splash(a)
    ELSE IF a.confirm_setting_set THEN handle_setting_confirm_set_key(a, k)
    ELSE IF a.confirm_setting_delete THEN handle_setting_confirm_delete_key(a, k)
    ELSE IF a.sandbox_confirm_setting_set THEN handle_sandbox_setting_confirm_set_key(a, k)
    ELSE IF a.sandbox_confirm_setting_delete THEN handle_sandbox_setting_confirm_delete_key(a, k)
    ELSE IF a.sandbox_setting_edit # Nil THEN handle_sandbox_setting_edit_key(a, k)
    ELSE IF a.setting_edit # Nil THEN handle_setting_edit_key(a, k)
    ELSE IF a.create_form # Nil THEN handle_create_form_key(a, k)
    ELSE IF a.create_provider_form # Nil THEN handle_create_provider_key(a, k)
    ELSE IF a.provider_detail THEN handle_provider_detail_key(a, k)
    ELSE IF a.update_provider_form # Nil THEN handle_update_provider_key(a, k)
    ELSE IF a.input_mode = "Command" THEN handle_command_key(a, k)
    ELSE handle_normal_key(a, k)

-----------------------------------------------------------------------------
(* Requests the loop itself waits for: the App after each possible answer.   *)
(* A failed or timed-out request leaves the App as it was.                   *)

Bind(S, f(_)) == UNION {f(x) : x \in S}

refresh_gateway_list(a) ==
    {LET sel == Clamp(a.gateway_selected, Len(l))
         active == {i \in 0..(Len(l) - 1) : l[i + 1] = a.gateway_name}
     IN [a EXCEPT !.gateways = l,
                  !.gateway_selected = IF sel = 0 /\ active # {} THEN Min(active) ELSE sel]
     : l \in tuiSetup.gateways} \cup {a}

refresh_providers(a) ==
    {[a EXCEPT !.providers = l, !.provider_selected = Clamp(@, Len(l))] : l \in tuiSetup.providers}
    \cup {a}

refresh_global_settings(a) ==
    {[a EXCEPT !.global_settings = l] : l \in tuiSetup.globals} \cup {a}

refresh_sandboxes(a) ==
    {[a EXCEPT !.sandboxes = l, !.sandbox_selected = Clamp(@, Len(l))] : l \in tuiSetup.sandboxes}
    \cup {a}

refresh_data(a) == Bind(Bind(refresh_providers(a), refresh_global_settings), refresh_sandboxes)

\* GetSandboxConfig of the selected sandbox; the settings keep their order.
refresh_sandbox_policy(a) ==
    IF selected_sandbox(a) = Nil THEN {a}
    ELSE {a} \cup UNION {{[a EXCEPT !.sandbox_settings = l, !.policy_is_global = g]
                          : l \in tuiSetup.scopes} : g \in tuiSetup.global}

\* The same, after looking the sandbox up by name.
fetch_sandbox_detail(a) == refresh_sandbox_policy(a)

refresh_draft_chunks(a) ==
    IF selected_sandbox(a) = Nil THEN {a}
    ELSE {[a EXCEPT !.draft_chunks = l, !.draft_selected = Clamp(@, Len(l))] : l \in tuiSetup.chunks}
         \cup {a}

\* handle_gateway_switch: certificates missing or no connection change nothing.
handle_gateway_switch(a) ==
    refresh_data(reset_sandbox_state([a EXCEPT !.gateway_name = ItemAt(a.gateways, a.gateway_selected)]))
    \cup {a}

\* handle_sandbox_delete: by the name under the cursor, whatever the list is
\* by now; the screen closes even if the request fails.
handle_sandbox_delete(a) ==
    LET b == [a EXCEPT !.screen = "Dashboard", !.focus = "Sandboxes"]
    IN IF selected_sandbox(a) = Nil THEN {a}
       ELSE {b} \cup refresh_sandboxes(cancel_log_stream(b))

\* handle_shell_connect: gives up early, or suspends the interface while the
\* shell runs.
handle_shell_connect(a) == {a, cancel_log_stream(a)}

\* handle_exec_command: the same with a command, once the sandbox is ready.
handle_exec_command(a) == {a, cancel_log_stream(a)}

spawn_log_stream(a) ==
    [a EXCEPT !.log_stream = IF selected_sandbox(a) = Nil THEN Nil ELSE "history"]

\* Mutant of start_anim_ticker: the ticker of another form is taken for its own.
Mutant_NoTicker(a) == a

start_anim_ticker(a) == [a EXCEPT !.anim = TRUE]

\* What the loop does for the flag a key has set.
Settled(a) ==
    LET b == [a EXCEPT !.pending = "none"]
    IN CASE a.pending = "switch" -> handle_gateway_switch(b)
         [] a.pending = "log" -> {spawn_log_stream(b)}
         [] a.pending = "delete" -> handle_sandbox_delete(b)
         [] a.pending \in {"create", "pcreate"} -> {start_anim_ticker(b)}
         [] a.pending = "detail" -> fetch_sandbox_detail(b)
         [] a.pending = "shell" -> Bind(handle_shell_connect(b), refresh_data)
         [] a.pending = "approveAll" -> {[b EXCEPT !.approve_all_chunks = {}]}
         [] OTHER -> {b}

-----------------------------------------------------------------------------
(* Requests that run in the background.                                     *)

spawn_create_sandbox(a) ==
    LET f == a.create_form
    IN {[kind |-> "create", step |-> "call", ports |-> f.ports # "",
         ready |-> f.ports # "" \/ f.command # ""]}

spawn_create_provider(a) == {[kind |-> "pcreate", name |-> a.create_provider_form.name, attempt |-> 0]}

ForProvider(kind, name) == IF name = Nil THEN {} ELSE {[kind |-> kind, name |-> name]}
spawn_get_provider(a) == ForProvider("pget", selected_provider(a))
spawn_delete_provider(a) == ForProvider("pdelete", selected_provider(a))
spawn_update_provider(a) == ForProvider("pupdate", a.update_provider_form.name)

\* Without an editor there is nothing to send.
spawn_set_global_setting(a) ==
    IF a.setting_edit = Nil THEN {} ELSE {[kind |-> "gset", key |-> a.setting_edit.index]}
spawn_delete_global_setting(a) == {[kind |-> "gdel", key |-> a.global_settings_selected]}
spawn_set_sandbox_setting(a) ==
    IF a.sandbox_setting_edit = Nil \/ selected_sandbox(a) = Nil THEN {}
    ELSE {[kind |-> "sset", key |-> a.sandbox_setting_edit.index, sandbox |-> selected_sandbox(a)]}
spawn_delete_sandbox_setting(a) ==
    IF selected_sandbox(a) = Nil THEN {}
    ELSE {[kind |-> "sdel", key |-> a.sandbox_settings_selected, sandbox |-> selected_sandbox(a)]}

Draft(kind, a) ==
    IF selected_sandbox(a) = Nil \/ DraftChunk(a) = Nil THEN {}
    ELSE {[kind |-> kind, sandbox |-> selected_sandbox(a), chunk |-> DraftChunk(a).id]}
spawn_draft_approve(a) == Draft("approve", a)
spawn_draft_reject(a) == Draft("reject", a)

\* Mutant of Approvals: what is pending by now is approved.
Mutant_CurrentChunks(a) == Snapshot(a)

\* The copy made when the dialog opened.
Approvals(a) == a.approve_all_chunks

spawn_draft_approve_all(a) ==
    IF selected_sandbox(a) = Nil THEN {}
    ELSE {[kind |-> "approveAll", sandbox |-> selected_sandbox(a), left |-> Approvals(a)]}

Spawned(a) ==
    CASE a.pending = "create" -> spawn_create_sandbox(a)
      [] a.pending = "pcreate" -> spawn_create_provider(a)
      [] a.pending = "pget" -> spawn_get_provider(a)
      [] a.pending = "pupdate" -> spawn_update_provider(a)
      [] a.pending = "pdelete" -> spawn_delete_provider(a)
      [] a.pending = "gset" -> spawn_set_global_setting(a)
      [] a.pending = "gdel" -> spawn_delete_global_setting(a)
      [] a.pending = "sset" -> spawn_set_sandbox_setting(a)
      [] a.pending = "sdel" -> spawn_delete_sandbox_setting(a)
      [] a.pending = "approve" -> spawn_draft_approve(a)
      [] a.pending = "reject" -> spawn_draft_reject(a)
      [] a.pending = "approveAll" -> spawn_draft_approve_all(a)
      [] OTHER -> {}

Pending(chunks) == {c.id : c \in {d \in Range(chunks) : d.status = "pending"}}

TuiInit ==
    /\ tuiSetup \in TuiSetups
    /\ app \in Bind(refresh_gateway_list(InitApp), refresh_data)
    /\ tasks = {} /\ logq = <<>> /\ offered = {}

\* Event::Key.
Key(k) ==
    /\ app.running
    /\ LET a == handle_key(app, k)
       IN /\ Cardinality(tasks \cup Spawned(a)) <= MaxTasks
          /\ app' \in Bind(Settled(a), Drawn)
          /\ tasks' = tasks \cup Spawned(a)
          /\ offered' = IF a.approve_all_confirm_open /\ ~app.approve_all_confirm_open
                        THEN Pending(app.draft_chunks) ELSE offered
    /\ UNCHANGED <<logq, tuiSetup>>

\* Event::Tick: the splash ends, lists are read again, and on the sandbox
\* screen its policy, settings and drafts.
Tick ==
    /\ app.running
    /\ \E splash \in {app, dismiss_splash(app)} :
          LET b == Bind(refresh_gateway_list(splash), refresh_data)
              detail(a) == IF a.screen = "Sandbox"
                           THEN Bind(refresh_sandbox_policy(a), refresh_draft_chunks) ELSE {a}
          IN app' \in Bind(b, detail)
    /\ UNCHANGED <<tasks, logq, offered, tuiSetup>>

\* Event::Mouse, and Event::Resize.
Wheel(down) ==
    /\ app.running /\ app.focus = "SandboxLogs"
    /\ app' \in Drawn(scroll_logs(app, down))
    /\ UNCHANGED <<tasks, logq, offered, tuiSetup>>

Resize ==
    /\ app.running /\ app' \in Drawn(app)
    /\ UNCHANGED <<tasks, logq, offered, tuiSetup>>

-----------------------------------------------------------------------------
(* The log stream.                                                          *)

\* The history, or one line that says why there is none.
LogHistory(ok) ==
    /\ app.log_stream = "history" /\ Len(logq) < MaxQueued
    /\ app' = [app EXCEPT !.log_stream = IF ok THEN "live" ELSE "ended"]
    /\ \E line \in IF ok THEN tuiSetup.lines ELSE {"error"} : logq' = Append(logq, line)
    /\ UNCHANGED <<tasks, offered, tuiSetup>>

LogLive ==
    /\ app.log_stream = "live" /\ Len(logq) < MaxQueued
    /\ \E line \in tuiSetup.lines : logq' = Append(logq, line)
    /\ UNCHANGED <<app, tasks, offered, tuiSetup>>

LogEnds ==
    /\ app.log_stream = "live"
    /\ app' = [app EXCEPT !.log_stream = "ended"]
    /\ UNCHANGED <<tasks, logq, offered, tuiSetup>>

\* Event::LogLines: a batch of a cancelled stream is shown like any other.
LogLines ==
    /\ app.running /\ logq # <<>> /\ Len(app.log_lines) < MaxLines
    /\ logq' = Tail(logq)
    /\ LET a == [app EXCEPT !.log_lines = Append(@, Head(logq))]
           b == [a EXCEPT !.log_scroll = log_autoscroll_offset(a)]
           visible == Least(Sub(Shown(b), b.log_scroll), b.log_height)
       IN app' \in Drawn(IF a.log_autoscroll THEN [b EXCEPT !.log_cursor = Sub(visible, 1)] ELSE a)
    /\ UNCHANGED <<tasks, offered, tuiSetup>>

-----------------------------------------------------------------------------
(* Answers.                                                                 *)

Ends(t) == tasks' = tasks \ {t}
Becomes(t, u) == tasks' = (tasks \ {t}) \cup {u}
Buffer(form, result) == app' = IF app[form] = Nil THEN app ELSE [app EXCEPT ![form].result = result]

\* CreateSandbox with its timeout; a command or ports need a ready sandbox.
CreateCall(t) ==
    /\ t.kind = "create" /\ t.step = "call"
    /\ \/ Ends(t) /\ Buffer("create_form", "err")
       \/ ~t.ready /\ Ends(t) /\ Buffer("create_form", "ok")
       \/ t.ready /\ Becomes(t, [t EXCEPT !.step = "wait"]) /\ UNCHANGED app
    /\ UNCHANGED <<logq, offered, tuiSetup>>

\* At most 150 polls: ready, in error, or given up.
CreateWait(t) ==
    /\ t.kind = "create" /\ t.step = "wait"
    /\ \/ Ends(t) /\ Buffer("create_form", "err")
       \/ ~t.ports /\ Ends(t) /\ Buffer("create_form", "ok")
       \/ t.ports /\ Becomes(t, [t EXCEPT !.step = "forward"]) /\ UNCHANGED app
    /\ UNCHANGED <<logq, offered, tuiSetup>>

\* start_port_forwards only logs its failures: the creation succeeds anyway.
StartPortForwards(t) ==
    /\ t.kind = "create" /\ t.step = "forward"
    /\ Ends(t) /\ Buffer("create_form", "ok")
    /\ UNCHANGED <<logq, offered, tuiSetup>>

\* Five names are tried.
CreateProvider(t) ==
    /\ t.kind = "pcreate"
    /\ \/ Ends(t) /\ \E res \in {"ok", "err"} : Buffer("create_provider_form", res)
       \/ t.attempt < 4 /\ Becomes(t, [t EXCEPT !.attempt = @ + 1]) /\ UNCHANGED app
    /\ UNCHANGED <<logq, offered, tuiSetup>>

\* Event::Redraw, while a ticker runs and the minimum display time is over.
Redraw ==
    LET form(f) == app[f] # Nil /\ app[f].result # Nil
        stopped == [app EXCEPT !.anim = FALSE]
        made == [stopped EXCEPT !.create_form = Nil]
    IN /\ app.running /\ app.anim
       /\ \/ /\ form("create_form") /\ app.create_form.result = "ok"
             /\ app' \in IF app.create_form.command # ""
                         THEN Bind(refresh_sandboxes(made), handle_exec_command)
                         ELSE refresh_sandboxes(made)
          \/ /\ form("create_form") /\ app.create_form.result = "err"
             /\ app' = [stopped EXCEPT !.create_form.phase = "Form", !.create_form.result = Nil]
          \/ /\ form("create_provider_form") /\ app.create_provider_form.result = "ok"
             /\ app' \in refresh_providers([stopped EXCEPT !.create_provider_form = Nil])
          \/ /\ form("create_provider_form") /\ app.create_provider_form.result = "err"
             /\ app' = [stopped EXCEPT !.create_provider_form.phase = "EnterKey",
                                       !.create_provider_form.result = Nil]
       /\ UNCHANGED <<tasks, logq, offered, tuiSetup>>

ProviderDetail(t) ==
    /\ t.kind = "pget" /\ Ends(t)
    /\ \E found \in BOOLEAN : app' = [app EXCEPT !.provider_detail = @ \/ found]
    /\ UNCHANGED <<logq, offered, tuiSetup>>

\* Success closes whatever update form is open by then.
ProviderUpdated(t) ==
    /\ t.kind = "pupdate" /\ Ends(t)
    /\ app' \in {app} \cup refresh_providers([app EXCEPT !.update_provider_form = Nil])
    /\ UNCHANGED <<logq, offered, tuiSetup>>

ProviderDeleted(t) ==
    /\ t.kind = "pdelete" /\ Ends(t)
    /\ app' \in refresh_providers(app)
    /\ UNCHANGED <<logq, offered, tuiSetup>>

\* Any answer closes the editor that is open by then.
GlobalSet(t) ==
    /\ t.kind = "gset" /\ Ends(t)
    /\ app' \in refresh_global_settings([app EXCEPT !.setting_edit = Nil])
    /\ UNCHANGED <<logq, offered, tuiSetup>>

GlobalDeleted(t) ==
    /\ t.kind = "gdel" /\ Ends(t)
    /\ app' \in refresh_global_settings(app)
    /\ UNCHANGED <<logq, offered, tuiSetup>>

SandboxSet(t) ==
    /\ t.kind = "sset" /\ Ends(t)
    /\ app' \in fetch_sandbox_detail([app EXCEPT !.sandbox_setting_edit = Nil])
    /\ UNCHANGED <<logq, offered, tuiSetup>>

SandboxDeleted(t) ==
    /\ t.kind = "sdel" /\ Ends(t)
    /\ app' \in fetch_sandbox_detail(app)
    /\ UNCHANGED <<logq, offered, tuiSetup>>

\* Event::DraftActionResult, also after the last of several approvals.
DraftDone(t) ==
    /\ \/ t.kind \in {"approve", "reject"}
       \/ t.kind = "approveAll" /\ t.left = {}
    /\ Ends(t) /\ app' \in refresh_draft_chunks(app)
    /\ UNCHANGED <<logq, offered, tuiSetup>>

\* One by one, in an order that nothing depends on; a refused chunk does not
\* stop the others.
ApproveNext(t) ==
    /\ t.kind = "approveAll"
    /\ \E c \in t.left : Becomes(t, [t EXCEPT !.left = @ \ {c}])
    /\ UNCHANGED <<app, logq, offered, tuiSetup>>

-----------------------------------------------------------------------------
Creation(t) == CreateCall(t) \/ CreateWait(t) \/ StartPortForwards(t) \/ CreateProvider(t)

AnswerTask(t) ==
    \/ ProviderDetail(t) \/ ProviderUpdated(t) \/ ProviderDeleted(t)
    \/ GlobalSet(t) \/ GlobalDeleted(t) \/ SandboxSet(t) \/ SandboxDeleted(t)
    \/ DraftDone(t) \/ ApproveNext(t)

TuiNext ==
    \/ \E k \in tuiSetup.keys : Key(k)
    \/ Tick \/ Redraw \/ Resize
    \/ \E down \in BOOLEAN : Wheel(down)
    \/ \E ok \in BOOLEAN : LogHistory(ok)
    \/ LogLive \/ LogEnds \/ LogLines
    \/ app.running /\ \E t \in tasks : Creation(t) \/ AnswerTask(t)

\* The ticker goes on until it is aborted, and every request of a creation
\* ends: by its timeout, by its number of attempts, or with the connection,
\* which is kept alive by pings.
Fairness ==
    /\ WF_tuiVars(Redraw)
    /\ WF_tuiVars(app.running /\ \E t \in tasks : Creation(t))

TuiSpec == TuiInit /\ [][TuiNext]_tuiVars /\ Fairness

-----------------------------------------------------------------------------
Creating(form) == app[form] # Nil /\ app[form].phase = "Creating"

\* A form that shows a creation takes no key, so only the answer and the
\* ticker can release it: they always do.
CreatingReleased ==
    \A form \in {"create_form", "create_provider_form"} :
        Creating(form) ~> ~Creating(form) \/ ~app.running

\* The positions a key handler or the next draw slices the shown log lines
\* with stay inside the list: a slice out of bounds ends the interface in a
\* panic.  The comments of the draw say so of the cursor (already clamped).
\* TLC refutes this for a pane of height 0.
PositionsInLog ==
    LET n == Cardinality({i \in DOMAIN app.log_lines :
                             app.log_filter \in {"All", app.log_lines[i]}})
    IN /\ app.log_scroll + app.log_cursor <= n
       /\ app.log_anchor # Nil => app.log_anchor <= n
       /\ app.log_detail # Nil => app.log_detail < n

\* They do, whatever arrives, is filtered or resized, as long as no draw finds a
\* pane of height 0, in which nothing moves the cursor back.
LogIndexesInBounds == 0 \notin tuiSetup.heights => PositionsInLog

\* Approve-all sends only chunks that were pending on the screen when the
\* dialog opened, although the list is refreshed while it is shown.
ApprovedWereOffered ==
    [][\A t \in tasks' \ tasks :
          t.kind = "approveAll" /\ (\A u \in tasks : u.kind # "approveAll")
             => {c.id : c \in t.left} \subseteq offered]_tuiVars
=============================================================================
