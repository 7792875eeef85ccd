------------------------------ MODULE StepForms ------------------------------
(***************************************************************************)
(* The form of steps, read twice: by validate_workflow, which the API asks *)
(* before it stores a new version, publishes, activates or reports a robot *)
(* as ready, and by the WorkflowExecutor, which raises when a field it     *)
(* needs is missing.  The two were written apart and must agree.  Third,   *)
(* the guided form, whose workflows are stored without being validated.    *)
(* All of it is pure, so the properties quantify over steps and payloads,  *)
(* at the moment of a run (StepEngine) that relies on them.                *)
(***************************************************************************)
EXTENDS StepEngine

CONSTANTS
  MaxTimeout, \* max_step_timeout_ms of the settings
  Forms,      \* steps to look at
  Payloads    \* payloads of the guided form to look at

WebSteps == {"goto", "click", "fill", "secret_fill", "select", "press", "wait_for",
             "assert_text", "download", "screenshot"}
FileSteps == {"file_create_folder", "file_copy", "file_move", "file_delete", "file_write_text",
              "file_read_text", "file_zip", "file_unzip", "csv_read", "csv_write",
              "excel_read", "excel_write", "folder_wait_for_file", "pdf_from_text"}
DesktopSteps == {"desktop_move", "desktop_click", "desktop_double_click", "desktop_drag",
                 "desktop_type", "desktop_press", "desktop_hotkey", "desktop_screenshot",
                 "desktop_wait"}
Types == WebSteps \cup FileSteps \cup DesktopSteps
           \cup {"delay", "api_request", "email_send", "db_query", "command_run"}

Fields == {"url", "target", "value", "secret", "key", "keys", "filename", "name", "path",
           "source", "destination", "variable", "query", "host", "to", "subject",
           "command", "xy"}

\* A step, by what either reader looks at.
Form == [type : Types,
         given : SUBSET Fields, \* fields that are not None, [] nor "" (a value may be "")
         locates : BOOLEAN,     \* the target has role and name, label, text or css
         sensitive : BOOLEAN,   \* the target looks like a password or token
         value : {"empty", "text", "template", "list"}, \* list: a JSON list of rows
         rows : BOOLEAN,        \* rows in the step or in its variable
         timeout : Int, retry : Int,
         typo : BOOLEAN,        \* the URL has a host that is a known misspelling
         disabled : BOOLEAN]

(***************************************************************************)
(* validate_workflow.                                                      *)
(***************************************************************************)
TargetSteps == {"click", "fill", "secret_fill", "select", "press", "wait_for",
                "assert_text", "download"}

\* Mutant: a step with a path is forgotten.
PathStepsWithoutPdf ==
  {"file_create_folder", "file_delete", "file_write_text", "file_read_text", "csv_read",
   "csv_write", "excel_read", "excel_write", "db_query", "folder_wait_for_file"}

PathSteps == {"file_create_folder", "file_delete", "file_write_text", "file_read_text",
              "csv_read", "csv_write", "excel_read", "excel_write", "db_query",
              "folder_wait_for_file", "pdf_from_text"}
SourceDestinationSteps == {"file_copy", "file_move", "file_zip", "file_unzip"}

\* The types of step for which a field is asked.
AskedBy ==
  [url |-> {"goto", "api_request"}, target |-> TargetSteps,
   value |-> {"fill", "file_write_text", "pdf_from_text", "desktop_type"},
   secret |-> {"secret_fill"}, key |-> {"press", "desktop_press"}, keys |-> {"desktop_hotkey"},
   filename |-> {"download", "folder_wait_for_file"}, name |-> {"desktop_screenshot"},
   path |-> PathSteps, source |-> SourceDestinationSteps,
   destination |-> SourceDestinationSteps,
   variable |-> {"file_read_text", "csv_read", "excel_read"}, query |-> {"db_query"},
   host |-> {"email_send"}, to |-> {"email_send"}, subject |-> {"email_send"},
   command |-> {"command_run"}, xy |-> {"desktop_move", "desktop_drag"}]

Typed(s) == s.type = "fill" /\ s.sensitive /\ s.value \in {"text", "list"}

\* A disabled step is not looked at.  retry has no lower bound.
Accepts(s) ==
  \/ s.disabled
  \/ /\ \A f \in Fields : s.type \in AskedBy[f] => f \in s.given
     /\ 0 < s.timeout /\ s.timeout <= MaxTimeout
     /\ s.retry <= 5
     /\ ~(s.type \in {"goto", "api_request"} /\ s.typo)
     /\ ~Typed(s)

Valid(w) == /\ \E j \in 1..Len(w) : ~w[j].disabled
            /\ \A j \in 1..Len(w) : Accepts(w[j])

(***************************************************************************)
(* _execute_step.                                                          *)
(***************************************************************************)
\* The types of step that raise when a field is missing.  What is not here is
\* replaced by something: no value by "", no name by the number of the step.
NeededBy ==
  LET located == {"click", "fill", "secret_fill", "select", "press", "wait_for",
                  "assert_text", "download"}
      placed  == {"file_copy", "file_move", "file_zip", "file_unzip"}
  IN [url |-> {"goto", "api_request"}, target |-> located, value |-> {},
      secret |-> {"secret_fill"}, key |-> {"press", "desktop_press"}, keys |-> {},
      filename |-> {}, name |-> {}, path |-> (FileSteps \ placed) \cup {"db_query"},
      source |-> placed, destination |-> placed,
      variable |-> {"file_read_text", "csv_read", "excel_read"}, query |-> {"db_query"},
      host |-> {"email_send"}, to |-> {"email_send"}, subject |-> {"email_send"},
      command |-> {"command_run"}, xy |-> {"desktop_move", "desktop_drag"}]

\* Types that call _require_page; run opens one for a workflow with WebSteps.
RequirePage == {"goto", "click", "fill", "secret_fill", "select", "press", "wait_for",
                "assert_text", "download", "screenshot"}

Located(s) == s.type \in NeededBy["target"] => s.locates

\* _rows: a value that is no list raises; a template may become one.
Tabular(s) ==
  s.type \in {"csv_write", "excel_write"} =>
    s.rows \/ "value" \notin s.given \/ s.value \in {"empty", "template", "list"}

\* The form alone makes the step raise, whatever it meets when it is executed.
RaisesForForm(s) ==
  \/ \E f \in Fields : s.type \in NeededBy[f] /\ f \notin s.given
  \/ s.timeout <= 0 \/ s.timeout > MaxTimeout
  \/ s.type \in RequirePage /\ s.type \notin WebSteps
  \/ ~Located(s) \/ ~Tabular(s)

(***************************************************************************)
(* _guided_workflow.                                                       *)
(***************************************************************************)
Templates == {"open_site", "login", "download_excel", "dated_report"}
Entries == {"username_label", "username_value", "password_label", "password_secret",
            "login_button_text", "menu_text", "start_date_label", "start_date_value",
            "end_date_label", "end_date_value", "search_button_text",
            "export_button_text", "filename"}

Payload == [template : Templates, given : SUBSET Entries,
            sensitive : SUBSET Entries, \* labels that look like a password
            literal : SUBSET Entries,   \* values without a variable
            typo : BOOLEAN]

Blank(type, given) ==
  [type |-> type, given |-> given, locates |-> TRUE, sensitive |-> FALSE,
   value |-> "template", rows |-> FALSE, timeout |-> 30000, retry |-> 0,
   typo |-> FALSE, disabled |-> FALSE]

When(condition, step) == IF condition THEN <<step>> ELSE <<>>

FillStep(p, label, value) ==
  [Blank("fill", {"target", "value"}) EXCEPT
     !.sensitive = label \in p.sensitive,
     !.value = IF value \in p.given \cap p.literal THEN "text" ELSE "template"]

LoginSteps(p) ==
  When({"username_label", "username_value"} \subseteq p.given,
       FillStep(p, "username_label", "username_value"))
  \o When({"password_label", "password_secret"} \subseteq p.given,
          [Blank("secret_fill", {"target", "secret"}) EXCEPT
             !.sensitive = "password_label" \in p.sensitive])
  \o When("login_button_text" \in p.given, Blank("click", {"target"}))

\* A date without value is yesterday's.
DateSteps(p) ==
  When("start_date_label" \in p.given, FillStep(p, "start_date_label", "start_date_value"))
  \o When("end_date_label" \in p.given, FillStep(p, "end_date_label", "end_date_value"))
  \o When("search_button_text" \in p.given, Blank("click", {"target"}))

\* Mutant: a filename that was left blank is taken as it is.
DownloadAsAsked(p) ==
  Blank("download", {"target"} \cup (IF "filename" \in p.given THEN {"filename"} ELSE {}))

DownloadStep(p) == Blank("download", {"target", "filename"})

Guided(p) ==
  LET exports == p.template \in {"download_excel", "dated_report"}
  IN <<[Blank("goto", {"url"}) EXCEPT !.typo = p.typo]>>
     \o (IF p.template # "open_site" THEN LoginSteps(p) ELSE <<>>)
     \o When(exports /\ "menu_text" \in p.given, Blank("click", {"target"}))
     \o (IF p.template = "dated_report" THEN DateSteps(p) ELSE <<>>)
     \o (IF exports /\ "export_button_text" \in p.given THEN <<DownloadStep(p)>>
         ELSE <<Blank("screenshot", {"name"})>>)

ASSUME FormsAssumption ==
  MaxTimeout \in Nat /\ Forms \subseteq Form /\ Payloads \subseteq Payload

(***************************************************************************)
(* Properties.                                                             *)
(***************************************************************************)
\* What the two readers of a step say of it.
FormsAgree ==
  \A s \in Forms : Accepts(s) /\ ~s.disabled /\ Located(s) /\ Tabular(s) => ~RaisesForForm(s)

\* The pairs of label and value that the template of a payload types.
TypedPairs(p) ==
  {q \in {<<"username_label", "username_value", "login">>,
          <<"start_date_label", "start_date_value", "dates">>,
          <<"end_date_label", "end_date_value", "dates">>} :
     p.template = "dated_report" \/ (q[3] = "login" /\ p.template # "open_site")}

\* The workflow the form makes of a payload, unless what is typed there must
\* not be.
GuidedIsValid ==
  \A p \in Payloads :
    /\ MaxTimeout >= 30000 /\ ~p.typo
    /\ \A q \in TypedPairs(p) : {q[1], q[2]} \subseteq p.given => q[1] \notin p.sensitive
                                                                  \/ q[2] \notin p.literal
    => Valid(Guided(p))

\* When a run calls its executor, no step that validation has accepted fails
\* for its form, but for what validation does not look into: a target that
\* describes nothing and a table that is no list of rows.
AcceptedIsExecutable == pc = "call" => FormsAgree

\* Before it can be queued a robot is published: whatever is left blank in the
\* guided form, its workflow can be, if the limit of the settings is at least
\* the form's 30 seconds; only a misspelt address, or a literal typed into a
\* field that looks like a password, must be corrected first.
GuidedIsAccepted == pc = "queued" => GuidedIsValid
=============================================================================
