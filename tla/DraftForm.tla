----------------------------- MODULE DraftForm -----------------------------
(***************************************************************************)
(* A draft, the form it is edited in and the calls between them: the       *)
(* throttled save of form-components/FormTemplate.tsx, its buttons and     *)
(* dialog (services/request.ts), and updateRequest and deleteRequest of    *)
(* controllers/requests.ts, which read the row, decide on the copy and     *)
(* write in a later transaction what differs from the copy.  A field that  *)
(* was emptied is sent as null or not at all; omitNull (sequelize/config)  *)
(* drops the nulls of a write, so neither reaches the row, and the null    *)
(* reaches the workflow's copy.  Calls can overtake one another, fail, or  *)
(* lose their answer.  What the submission starts is RequestWorkflow's;    *)
(* here it only settles.                                                   *)
(***************************************************************************)
EXTENDS FiniteSets, Integers, Sequences, SequencesExt

CONSTANTS
  Field,
  NullField,       \* those the form empties with null: bcgovUnitId, divisionId
  MaxEdits,        \* bound on edits: each gives a field a new value
  MaxFormCalls,    \* bound on calls
  MaxFormFaults    \* bound on failed calls and lost answers

ASSUME FormAssumption ==
  NullField \subseteq Field /\ MaxEdits \in Nat /\ MaxFormCalls \in Nat /\ MaxFormFaults \in Nat

VARIABLES
  draftRow,    \* the row of the integration
  submitted,   \* the fields the last submission's workflow carries
  form,        \* the open form: whether a change saves, and a save that it waits for is under way
  throttled,   \* lodash throttle: its window is open; the fields of the last call in it
  leftover,    \* the throttled save of a form that was left, which nothing cancels
  formCalls,   \* calls under way, in the order they were sent
  edits, callsMade, formFaults,
  oddities     \* "overtaken": calls out of order; "lost": a call; "stale": written over a change
               \* it had not read; "behind": a form opened before calls under way had ended

formVars == <<draftRow, submitted, form, throttled, leftover, formCalls, edits, callsMade, formFaults, oddities>>

Empty == 0
Fields == [Field -> Empty..MaxEdits]
NoFields == [f \in Field |-> -1]
ClosedForm == [open |-> FALSE, saves |-> FALSE, loading |-> FALSE, fields |-> NoFields]
Quiet == [window |-> FALSE, last |-> NoFields]
Unread == [fields |-> NoFields, status |-> "draft", archived |-> FALSE]
Row == [fields : Fields, status : {"draft", "submitted", "applied", "failed"}, archived : BOOLEAN]

DraftTypeOK ==
  /\ draftRow \in Row /\ submitted \in Fields \cup {NoFields}
  /\ form \in [open : BOOLEAN, saves : BOOLEAN, loading : BOOLEAN, fields : Fields \cup {NoFields}]
  /\ throttled \in [window : BOOLEAN, last : Fields \cup {NoFields}] /\ leftover \in Fields \cup {NoFields}
  /\ formCalls \in Seq([op : {"save", "next", "submit", "delete"}, data : Fields \cup {NoFields},
                        at : {"sent", "read"}, copy : Row \cup {Unread}])
  /\ Len(formCalls) <= MaxFormCalls
  /\ edits \in 0..MaxEdits /\ callsMade \in 0..MaxFormCalls /\ formFaults \in 0..MaxFormFaults
  /\ oddities \subseteq {"overtaken", "lost", "stale", "behind"}

\* RESTING.
RestingStatus == {"draft", "applied", "failed"}
(* Mutant: a save is admitted whenever a submission is. *)
SaveWhereSubmit == RestingStatus
SaveFrom == {"draft"}
\* TRANSITIONS.
AdmittedFrom(op) == IF op = "submit" THEN RestingStatus ELSE IF op = "delete" THEN {"draft"} ELSE SaveFrom

Sends(op, data) ==
  /\ callsMade < MaxFormCalls /\ callsMade' = callsMade + 1
  /\ formCalls' = Append(formCalls, [op |-> op, data |-> data, at |-> "sent", copy |-> Unread])
SendsNone == UNCHANGED <<callsMade, formCalls>>

-----------------------------------------------------------------------------
DraftInit ==
  /\ draftRow = [fields |-> [f \in Field |-> Empty], status |-> "draft", archived |-> FALSE]
  /\ submitted = NoFields /\ form = ClosedForm /\ throttled = Quiet /\ leftover = NoFields
  /\ formCalls = <<>> /\ edits = 0 /\ callsMade = 0 /\ formFaults = 0 /\ oddities = {}

\* The page reads the row; a form of an applied integration saves nothing as it is edited.
OpenForm ==
  /\ ~form.open /\ ~draftRow.archived /\ draftRow.status \in RestingStatus
  /\ form' = [ClosedForm EXCEPT !.open = TRUE, !.saves = draftRow.status # "applied", !.fields = draftRow.fields]
  /\ oddities' = IF formCalls # <<>> \/ leftover # NoFields THEN oddities \cup {"behind"} ELSE oddities
  /\ UNCHANGED <<draftRow, submitted, throttled, leftover, formCalls, edits, callsMade, formFaults>>

(* Mutant: the throttle drops what comes in its window. *)
DropsLast(data) == NoFields
\* { trailing: true }
KeepsLast(data) == data

\* What a change of a field can empty: the field, and of a unit its division.
Emptiable(f) == IF f \in NullField THEN NullField ELSE {f}

\* handleChange, and throttleUpdate: at once outside the window, later in it.
Edit(f, emptied) ==
  LET fields == [g \in Field |-> IF g \in emptied THEN Empty ELSE IF g = f THEN edits + 1 ELSE form.fields[g]]
  IN /\ form.open /\ edits < MaxEdits /\ edits' = edits + 1
     /\ form' = [form EXCEPT !.fields = fields]
     /\ \/ ~form.saves /\ UNCHANGED throttled /\ SendsNone
        \/ form.saves /\ ~throttled.window /\ Sends("save", fields) /\ throttled' = [Quiet EXCEPT !.window = TRUE]
        \/ form.saves /\ throttled.window /\ throttled' = [throttled EXCEPT !.last = KeepsLast(fields)] /\ SendsNone
     /\ UNCHANGED <<draftRow, submitted, leftover, formFaults, oddities>>

\* The window ends: the last change in it is saved and opens another one.
WindowEnds ==
  /\ throttled.window
  /\ IF throttled.last # NoFields THEN Sends("save", throttled.last) /\ throttled' = [Quiet EXCEPT !.window = TRUE]
     ELSE SendsNone /\ throttled' = Quiet
  /\ UNCHANGED <<draftRow, submitted, form, leftover, edits, formFaults, oddities>>

LeftoverFires ==
  /\ leftover # NoFields /\ leftover' = NoFields /\ Sends("save", leftover)
  /\ UNCHANGED <<draftRow, submitted, form, throttled, edits, formFaults, oddities>>

\* The form is left: a save that waited for its window stays behind, of two the newer.
Leaves ==
  /\ form' = ClosedForm /\ throttled' = Quiet
  /\ leftover' = IF throttled.last # NoFields THEN throttled.last ELSE leftover

CloseForm ==
  /\ form.open /\ Leaves
  /\ UNCHANGED <<draftRow, submitted, formCalls, edits, callsMade, formFaults, oddities>>

\* handleFormSubmit, where the browser itself submits the form: it saves what it
\* shows and waits, whatever the answer, before it goes on.
FormSubmits ==
  /\ form.open /\ ~form.loading
  /\ Sends("next", form.fields) /\ form' = [form EXCEPT !.loading = TRUE]
  /\ UNCHANGED <<draftRow, submitted, throttled, leftover, edits, formFaults, oddities>>

\* handleSubmit, from the dialog, which the button of the last page opens without
\* a call (handleButtonSubmit) and over which nothing is edited: it waits for no
\* save that is throttled or under way.
SubmitForm ==
  /\ form.open /\ ~form.loading
  /\ Sends("submit", form.fields)
  /\ UNCHANGED <<draftRow, submitted, form, throttled, leftover, edits, formFaults, oddities>>

\* A colleague deletes the draft.
DeleteDraft ==
  /\ draftRow.status = "draft" /\ ~draftRow.archived /\ Sends("delete", NoFields)
  /\ UNCHANGED <<draftRow, submitted, form, throttled, leftover, edits, formFaults, oddities>>

-----------------------------------------------------------------------------
\* What the form does with an answer: after its own save it goes on, after a submission it is left.
Answered(c, ok) ==
  IF c.op = "submit" /\ ok /\ form.open THEN Leaves
  ELSE /\ form' = IF c.op = "next" /\ form.open THEN [form EXCEPT !.loading = FALSE] ELSE form
       /\ UNCHANGED <<throttled, leftover>>

\* authorizeIntegration and authorizeTransition, on a copy of the row.
ServerReads(i) ==
  LET c == formCalls[i]
  IN /\ c.at = "sent"
     /\ oddities' = IF i # 1 THEN oddities \cup {"overtaken"} ELSE oddities
     /\ IF ~draftRow.archived /\ draftRow.status \in AdmittedFrom(c.op)
        THEN /\ formCalls' = [formCalls EXCEPT ![i].at = "read", ![i].copy = draftRow]
             /\ UNCHANGED <<form, throttled, leftover>>
        ELSE formCalls' = RemoveAt(formCalls, i) /\ Answered(c, FALSE)
     /\ UNCHANGED <<draftRow, submitted, edits, callsMade, formFaults>>

\* save() writes the columns that differ from the copy, but no null.
Written(c) ==
  LET writes(f) == c.data[f] \notin {Empty, c.copy.fields[f]}
      fields == IF c.op = "delete" THEN draftRow.fields
                ELSE [f \in Field |-> IF writes(f) THEN c.data[f] ELSE draftRow.fields[f]]
  IN [fields |-> fields,
      status |-> IF c.op = "submit" THEN "submitted" ELSE draftRow.status,
      archived |-> draftRow.archived \/ c.op = "delete"]

\* A submission commits with the workflow that carries its own copy: a field
\* that was not sent is as it was read, one sent as null is null.
Carried(c) ==
  [f \in Field |-> IF c.data[f] = Empty /\ f \notin NullField THEN c.copy.fields[f] ELSE c.data[f]]

ServerCommits(i) ==
  LET c == formCalls[i]
  IN /\ c.at = "read" /\ formCalls' = RemoveAt(formCalls, i)
     /\ draftRow' = Written(c)
     /\ submitted' = IF c.op = "submit" THEN Carried(c) ELSE submitted
     /\ \/ Answered(c, TRUE) /\ UNCHANGED formFaults
        \/ formFaults < MaxFormFaults /\ formFaults' = formFaults + 1 /\ Answered(c, FALSE)
     /\ oddities' = IF c.copy # draftRow THEN oddities \cup {"stale"} ELSE oddities
     /\ UNCHANGED <<edits, callsMade>>

CallFails(i) ==
  /\ formFaults < MaxFormFaults /\ formFaults' = formFaults + 1
  /\ formCalls' = RemoveAt(formCalls, i) /\ Answered(formCalls[i], FALSE)
  /\ oddities' = oddities \cup {"lost"}
  /\ UNCHANGED <<draftRow, submitted, edits, callsMade>>

\* The workflow ends.
Settle ==
  /\ draftRow.status = "submitted"
  /\ \E status \in {"applied", "failed"} : draftRow' = [draftRow EXCEPT !.status = status]
  /\ UNCHANGED <<submitted, form, throttled, leftover, formCalls, edits, callsMade, formFaults, oddities>>

DraftNext ==
  \/ OpenForm \/ WindowEnds \/ LeftoverFires \/ CloseForm \/ FormSubmits \/ SubmitForm
  \/ DeleteDraft \/ Settle
  \/ \E f \in Field : \E emptied \in SUBSET Emptiable(f) : Edit(f, emptied)
  \/ \E i \in DOMAIN formCalls : ServerReads(i) \/ ServerCommits(i) \/ CallFails(i)

-----------------------------------------------------------------------------
(* transitions.ts: saves of a draft are neither audited nor enqueued, so the *)
(* row of what was submitted is the one its workflow carries, and is not     *)
(* archived, however late a throttled save of the form, or a deletion of the *)
(* draft, arrives and whatever was saved before; unless one of them decided  *)
(* on a copy that was out of date when it wrote.  A field submitted as null  *)
(* is excepted: its workflow has the null, and the row keeps what it had.    *)
RowFollowsWorkflow ==
  "stale" \notin oddities /\ submitted # NoFields =>
    /\ ~draftRow.archived
    /\ \A f \in Field : draftRow.fields[f] = submitted[f] \/ (submitted[f] = Empty /\ f \in NullField)

(* FormTemplate's "Last saved": once nothing waits and no call is under way, *)
(* the row of an open draft has every value the form shows, unless calls     *)
(* were lost or overtook one another or were on their way when it opened.    *)
(* Of a field that was emptied the row keeps the value, and the form that    *)
(* says it saved does not show it.                                           *)
NothingUnsaved ==
  /\ oddities = {}
  /\ form.open /\ form.saves /\ draftRow.status = "draft" /\ ~draftRow.archived
  /\ formCalls = <<>> /\ leftover = NoFields /\ throttled.last = NoFields
  => \A f \in Field : form.fields[f] \in {Empty, draftRow.fields[f]}
=============================================================================
