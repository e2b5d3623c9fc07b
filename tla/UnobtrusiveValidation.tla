-------------------------- MODULE UnobtrusiveValidation --------------------------
(***************************************************************************)
(* Validation of a form in the browser: data-val attributes become rules   *)
(* of a jQuery validator, whose outcomes become the classes and texts of   *)
(* the message containers.  From RedirectFrontend/wwwroot/lib/jquery-      *)
(* validation-unobtrusive/jquery.validate.unobtrusive.js, a vendored       *)
(* script.  Of jquery.validate.js, vendored too, there is what the script  *)
(* relies on: which validator a form keeps, and whose rules a check reads. *)
(* What a page's own scripts do is external.  Calls between handlers are   *)
(* synchronous: an action is an event with all of them.  A rule is its     *)
(* name; its parameters, and what a remote rule's server answers, are left *)
(* out.                                                                    *)
(***************************************************************************)
EXTENDS Integers, Sequences, FiniteSets, SequencesExt

CONSTANTS
    Fields,  \* of the form: records of a type, the parameters of each data-val
             \* attribute by adapter name, and data-valmsg-replace
    Values,  \* what may be typed into a field: the rules that it breaks
    MaxForms \* bound: how often scripts may make the form's validator anew

VARIABLES
    inPage,     \* the fields that the page has
    value,      \* the fields' values
    info,       \* the form's data "unobtrusiveValidation": none, or the fields whose
                \* rules options has
    validators, \* the fields each validator made for the form has rules for; the
                \* last is data "validator" unless it was removed
    removed,    \* whether it was
    handlers,   \* how many handlers of "reset" the form has
    resetting,  \* the form's data that onReset sets
    container,  \* each field's message container: its class, text and whether empty
    summary,    \* the validation summary
    outcome,    \* history: the last check of each field since the last reset
    threw       \* history: whether that reset threw

pageVars == <<inPage, value>>
formVars == <<info, validators, removed, handlers>>
shownVars == <<container, summary>>
vars == <<pageVars, formVars, resetting, shownVars, outcome, threw>>

Names == DOMAIN Fields

Init ==
    /\ inPage = {} /\ value = [f \in Names |-> {}]
    /\ info = {} /\ validators = <<>> /\ removed = FALSE
    /\ handlers = 0 /\ resetting = FALSE
    /\ container = [f \in Names |-> [class |-> "valid", text |-> ""]]
    /\ summary = [class |-> "valid", list |-> {}]
    /\ outcome = [f \in Names |-> "none"] /\ threw = FALSE

-------------------------------------------------------------------------------
(* Adapters *)

\* addMinMax: one, the other or both.
MinMax(params, minRule, maxRule, minMaxRule) ==
    CASE {"min", "max"} \subseteq params -> {minMaxRule}
      [] params \intersect {"min", "max"} = {"min"} -> {minRule}
      [] params \intersect {"min", "max"} = {"max"} -> {maxRule}
      [] OTHER -> {}

\* addBool
Bool == {"creditcard", "date", "digits", "email", "number", "url"}

\* Rules that an adapter makes of an attribute.  Without additional-methods.js
\* "extension" is "accept".
Adapt(adapter, type, params) ==
    CASE adapter \in Bool \union {"regex", "remote"} -> {adapter}
      [] adapter = "extension" -> {"accept"}
      [] adapter = "fileextensions" -> {"extension"}
      [] adapter = "equalto" -> {"equalTo"}
      [] adapter = "required" -> IF type = "checkbox" THEN {} ELSE {"required"}
      [] adapter = "length" -> MinMax(params, "minlength", "maxlength", "rangelength")
      [] adapter = "range" -> MinMax(params, "min", "max", "range")
      [] adapter = "minlength" -> MinMax(params, "minlength", "undefined", "undefined")
      [] adapter = "maxlength" -> MinMax(params, "minlength", "maxlength", "undefined")
      [] adapter = "password" ->
             {IF p = "min" THEN "minlength" ELSE p : p \in params}

\* Each field also gets a rule that nothing breaks.
RulesOf(f) ==
    {"__dummy__"} \union
    UNION {Adapt(a, Fields[f].type, Fields[f].vals[a]) : a \in DOMAIN Fields[f].vals}

-------------------------------------------------------------------------------
(* Parsing *)

\* Data "validator": the last one, unless it was removed.
HasValidator == validators # <<>> /\ ~removed

\* $form.validate keeps a validator that is there; a new one copies the options.
MakeValidator(rules) ==
    /\ validators' = IF HasValidator THEN validators ELSE Append(validators, rules)
    /\ removed' = FALSE

\* off and on find the handler of an earlier call.
AttachValidation(rules) == MakeValidator(rules) /\ handlers' = 1

ParseElement(f, skipAttach) ==
    /\ f \in inPage
    /\ info' = info \union {f}
    /\ IF skipAttach THEN UNCHANGED <<validators, removed, handlers>>
       ELSE AttachValidation(info \union {f})
    /\ UNCHANGED <<pageVars, resetting, shownVars, outcome, threw>>

\* When the document is ready, or for another part of the page.
Parse(fields) ==
    /\ fields # {} /\ fields \subseteq inPage
    /\ info' = info \union fields
    /\ AttachValidation(info \union fields)
    /\ UNCHANGED <<pageVars, resetting, shownVars, outcome, threw>>

-------------------------------------------------------------------------------
(* Outcomes *)

Breaks(f) == value[f] \intersect RulesOf(f) # {}

OnError(c, f, text) ==
    [class |-> "error", text |-> IF Fields[f].replace = "true" THEN text ELSE c.text]

OnSuccess(c, f) ==
    [class |-> "valid", text |-> IF Fields[f].replace = "true" THEN "" ELSE c.text]

\* Each check makes a new label, for none keeps the class it would be found by: it is
\* placed by onError also when the field is valid, and then succeeds.
Checked(f) ==
    IF Breaks(f) THEN OnError(container[f], f, "message")
    ELSE OnSuccess(OnError(container[f], f, ""), f)

Check(fields) ==
    /\ container' = [f \in Names |-> IF f \in fields THEN Checked(f) ELSE container[f]]
    /\ outcome' = [f \in Names |->
          IF f \notin fields THEN outcome[f] ELSE IF Breaks(f) THEN "error" ELSE "valid"]

OnErrors(errors) ==
    summary' = IF errors = {} THEN summary ELSE [class |-> "errors", list |-> errors]

\* A key or the loss of focus.
Element(f) ==
    /\ HasValidator /\ f \in Last(validators) \intersect inPage
    /\ Check({f})
    /\ UNCHANGED <<pageVars, formVars, resetting, summary, threw>>

\* Each validator made for the form has a handler of "submit", but they all check by
\* the rules of data "validator", and throw while that is removed.
Submit ==
    LET fields == Last(validators) \intersect inPage
    IN /\ HasValidator
       /\ Check(fields) /\ OnErrors({f \in fields : Breaks(f)})
       /\ UNCHANGED <<pageVars, formVars, resetting, threw>>

\* result.validate, which unobtrusive Ajax calls: without a validator it makes one
\* that has no rules, and that later calls of attachValidation keep.
Validate ==
    LET fields == IF HasValidator THEN Last(validators) \intersect inPage ELSE {}
    IN /\ info # {} /\ MakeValidator({})
       /\ Check(fields) /\ OnErrors({f \in fields : Breaks(f)})
       /\ UNCHANGED <<pageVars, info, handlers, resetting, threw>>

ClearErrors ==
    /\ container' = [f \in Names |-> [container[f] EXCEPT !.class = "valid"]]
    /\ summary' = [summary EXCEPT !.class = "valid"]

\* Mutant: the flag is not removed when there is no validator to reset.
OnReset_NotFinally ==
    /\ resetting' = (resetting \/ ~HasValidator)
    /\ IF HasValidator /\ ~resetting THEN ClearErrors ELSE UNCHANGED shownVars

\* Within resetForm a script may reset the form once more, which is ignored.  Without
\* a validator it throws: what is shown stays, and the flag is removed all the same.
OnReset ==
    /\ resetting' = FALSE
    /\ IF HasValidator /\ ~resetting THEN ClearErrors ELSE UNCHANGED shownVars

\* The fields get their first values again, whatever the handler does.
Reset ==
    /\ IF handlers > 0 THEN OnReset /\ threw' = ~HasValidator
       ELSE UNCHANGED <<resetting, shownVars, threw>>
    /\ value' = [f \in Names |-> {}]
    /\ outcome' = [f \in Names |-> "none"]
    /\ UNCHANGED <<inPage, formVars>>

-------------------------------------------------------------------------------
(* The page *)

Insert(f) ==
    /\ f \notin inPage /\ inPage' = inPage \union {f}
    /\ UNCHANGED <<value, formVars, resetting, shownVars, outcome, threw>>

Input(f, v) ==
    /\ f \in inPage /\ value[f] # v /\ value' = [value EXCEPT ![f] = v]
    /\ UNCHANGED <<inPage, formVars, resetting, shownVars, outcome, threw>>

\* A script removes both data to have the form parsed anew.
RemoveData ==
    /\ Len(validators) < MaxForms /\ HasValidator
    /\ info' = {} /\ removed' = TRUE
    /\ UNCHANGED <<pageVars, validators, handlers, resetting, shownVars, outcome, threw>>

Next ==
    \/ \E f \in Names : Insert(f) \/ Element(f) \/ \E v \in Values : Input(f, v)
    \/ \E f \in Names, skipAttach \in BOOLEAN : ParseElement(f, skipAttach)
    \/ \E fields \in SUBSET Names : Parse(fields)
    \/ Submit \/ Validate \/ Reset \/ RemoveData

Spec == Init /\ [][Next]_vars

-------------------------------------------------------------------------------
(* Properties *)

\* Every variable has its type.
TypeOK ==
    /\ inPage \subseteq Names /\ value \in [Names -> Values]
    /\ info \subseteq Names /\ validators \in Seq(SUBSET Names) /\ removed \in BOOLEAN
    /\ handlers \in 0 .. 1 /\ resetting \in BOOLEAN
    /\ container \in [Names -> [class: {"valid", "error"}, text: {"", "message"}]]
    /\ summary \in [class: {"valid", "errors"}, list: SUBSET Names]
    /\ outcome \in [Names -> {"none", "valid", "error"}] /\ threw \in BOOLEAN

\* A field's message container has the outcome of the field's last check since the
\* last reset.  Fields that were not checked since then show no error, nor does the
\* summary name them, unless that reset threw as it found no validator: then they
\* show what they did, until the form is reset while it has one.  All this holds
\* whichever validators the form has had.
FieldsShowTheirLastCheck ==
    /\ \A f \in Names : outcome[f] # "none" =>
           /\ container[f].class = outcome[f]
           /\ Fields[f].replace = "true" =>
                  container[f].text = IF outcome[f] = "error" THEN "message" ELSE ""
    /\ \/ threw
       \/ /\ \A f \in Names : outcome[f] = "none" => container[f].class = "valid"
          /\ summary.class = "errors" => \A f \in summary.list : outcome[f] # "none"
===============================================================================
