---------------------------- MODULE MCStepEngine ----------------------------
(***************************************************************************)
(* Instances of StepEngine for TLC, with the forms of steps.               *)
(***************************************************************************)
EXTENDS StepForms

Plain(kind) == [kind |-> kind, disabled |-> FALSE, retry |-> 0,
                path |-> IF kind \in RunDirKinds THEN "relative" ELSE "inside",
                overwrite |-> FALSE]

\* One step of every family, and the variations the engine tells apart.
MCSteps ==
  {Plain("desktop_click"), Plain("csv_write"),
   [Plain("screenshot") EXCEPT !.retry = 1],
   [Plain("click") EXCEPT !.disabled = TRUE],
   [Plain("command_run") EXCEPT !.retry = -1],
   [Plain("csv_write") EXCEPT !.retry = 1, !.path = "outside"],
   [Plain("csv_write") EXCEPT !.path = "relative"],
   [Plain("screenshot") EXCEPT !.path = "outside"],
   [Plain("file_write_text") EXCEPT !.overwrite = TRUE, !.retry = 1],
   Plain("file_delete")}

\* All workflows of up to three steps.
MCWorkflows == UNION {[1..n -> MCSteps] : n \in 1..3}

\* A robot of local steps.
LocalWorkflow == {<<Plain("desktop_click"), Plain("csv_write")>>}

\* The fields either reader wants of a type, and one nobody wants.
FieldsOf(type) == {f \in Fields : type \in AskedBy[f] \cup NeededBy[f]} \cup {"value"}

\* Steps of every type: any of those fields left out, numbers at the limits.
MCForms ==
  UNION {[type : {t}, given : SUBSET FieldsOf(t), locates : BOOLEAN, sensitive : BOOLEAN,
          value : {"empty", "text", "template", "list"}, rows : BOOLEAN,
          timeout : {-1, 0, 1, MaxTimeout, MaxTimeout + 1}, retry : {-1, 5, 6},
          typo : {FALSE}, disabled : {FALSE}] : t \in Types}
  \cup [type : {"goto"}, given : {{}, {"url"}}, locates : {TRUE}, sensitive : {FALSE},
        value : {"empty"}, rows : {FALSE}, timeout : {1}, retry : {0},
        typo : BOOLEAN, disabled : BOOLEAN]

\* Payloads that leave out any of the entries validation could miss.
Kept == {"password_label", "login_button_text", "menu_text", "search_button_text", "start_date_label"}
MCPayloads ==
  [template : Templates, given : {g \cup Kept : g \in SUBSET (Entries \ Kept)},
   sensitive : {{}, {"username_label"}, {"password_label", "end_date_label"}},
   literal : SUBSET {"username_value", "end_date_value"}, typo : BOOLEAN]
=============================================================================
