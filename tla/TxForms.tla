------------------------------ MODULE TxForms ------------------------------
(***************************************************************************)
(* The apply, assign, complete and revoke forms (frontend/src/components/  *)
(* TransactionForms.tsx) and their validators (formValidation.ts).  A text *)
(* is what the validators can tell of it: whether it is blank, what is     *)
(* left after trim(), the number it denotes.                               *)
(***************************************************************************)
EXTENDS Integers

CONSTANTS
  TfApplied,      \* appliedIssueIds: texts
  TfRegistered,   \* registeredOrgs; the empty set means the list is not known
  TfMaxSlots      \* bound of the slots CapStatus reports

VARIABLES
  tfForm,     \* the form on screen
  tfValue,    \* text of each field
  tfTouched,  \* fields left once
  tfTried,    \* submitted
  tfBusy,     \* busy
  tfCalls,    \* onSubmit calls under way
  tfCap       \* capStatus: slots left, globally and in the organisation

tfVars == <<tfForm, tfValue, tfTouched, tfTried, tfBusy, tfCalls, tfCap>>

\* Texts a user types: as typed, trimmed, and the number of the trimmed text
\* (0 stands for a text that is no positive integer).
TfBlank == [raw |-> "", trim |-> "", num |-> 0]
TfTexts == {TfBlank,
            [raw |-> "42", trim |-> "42", num |-> 42], [raw |-> " 42 ", trim |-> "42", num |-> 42],
            [raw |-> "042", trim |-> "042", num |-> 42], [raw |-> "7", trim |-> "7", num |-> 7],
            [raw |-> "org", trim |-> "org", num |-> 0], [raw |-> "G..A ", trim |-> "G..A", num |-> 0]}

-----------------------------------------------------------------------------
(* formValidation.ts: TRUE is null, no error. *)

validateStellarAddress(t) == t.trim = "G..A"

validateIssueId(t) == t.trim # "" /\ t.num > 0

validateIssueIdNotApplied(t, applied) == validateIssueId(t) /\ t.trim \notin applied

validateOrgId(t) == t.trim # ""

validateOrgIdRegistered(t, orgs) == validateOrgId(t) /\ (orgs # {} => t.trim \in orgs)

validateCapStatus(cap) == cap.global > 0 /\ cap.org > 0

-----------------------------------------------------------------------------
(* The four forms: their fields, the issues they refuse, whether the caps    *)
(* are checked, and what disables the button.                                *)

tfStaff == {"contributor", "orgId", "issueId"}
ApplyForm == [name |-> "apply", fields |-> {"orgId", "issueId"}, refused |-> TfApplied, caps |-> TRUE]
AssignForm == [name |-> "assign", fields |-> tfStaff, refused |-> {}, caps |-> FALSE]
CompleteForm == [name |-> "complete", fields |-> tfStaff, refused |-> {}, caps |-> FALSE]
RevokeForm == [name |-> "revoke", fields |-> tfStaff, refused |-> {}, caps |-> FALSE]
TfForms == {ApplyForm, AssignForm, CompleteForm, RevokeForm}

validate(field) ==
  CASE field = "contributor" -> validateStellarAddress(tfValue[field])
    [] field = "orgId" -> validateOrgIdRegistered(tfValue[field], TfRegistered)
    [] OTHER -> validateIssueIdNotApplied(tfValue[field], tfForm.refused)

capError == tfForm.caps /\ ~validateCapStatus(tfCap)

isValid == (\A f \in tfForm.fields : validate(f)) /\ ~capError

-----------------------------------------------------------------------------
TfInit == /\ tfForm \in TfForms
          /\ tfValue = [f \in tfForm.fields |-> TfBlank]
          /\ tfTouched = {} /\ tfTried = FALSE /\ tfBusy = FALSE /\ tfCalls = {}
          /\ tfCap = [global |-> TfMaxSlots, org |-> TfMaxSlots]

setField(f, t) == /\ f \in tfForm.fields
                  /\ tfValue' = [tfValue EXCEPT ![f] = t]
                  /\ UNCHANGED <<tfForm, tfTouched, tfTried, tfBusy, tfCalls, tfCap>>

onBlur(f) == /\ f \in tfForm.fields \ tfTouched
             /\ tfTouched' = tfTouched \cup {f}
             /\ UNCHANGED <<tfForm, tfValue, tfTried, tfBusy, tfCalls, tfCap>>

\* The parent learns new counts.
setCap(cap) == /\ tfCap' = cap /\ tfCap # cap
               /\ UNCHANGED <<tfForm, tfValue, tfTouched, tfTried, tfBusy, tfCalls>>

submitDisabled_never == FALSE

submitDisabled == tfBusy \/ capError

handleFormSubmit ==
  /\ ~submitDisabled
  /\ tfTried' = TRUE
  /\ tfBusy' = (tfBusy \/ isValid)
  /\ tfCalls' = IF isValid THEN tfCalls \cup {[n |-> IF tfCalls = {} THEN 1 ELSE 2,
                                              value |-> [f \in tfForm.fields |-> tfValue[f].trim]]}
                ELSE tfCalls
  /\ UNCHANGED <<tfForm, tfValue, tfTouched, tfCap>>

\* onSubmit settles, either way.
formSettled(c) == /\ c \in tfCalls /\ tfCalls' = tfCalls \ {c}
                  /\ tfBusy' = FALSE
                  /\ UNCHANGED <<tfForm, tfValue, tfTouched, tfTried, tfCap>>

TfNext == \/ \E f \in tfForm.fields : onBlur(f) \/ \E t \in TfTexts : setField(f, t)
          \/ \E cap \in [global : 0..TfMaxSlots, org : 0..TfMaxSlots] : tfForm.caps /\ setCap(cap)
          \/ handleFormSubmit
          \/ \E c \in tfCalls : formSettled(c)

-----------------------------------------------------------------------------
\* Type invariant.
TfTypeOK == /\ tfForm \in TfForms /\ DOMAIN tfValue = tfForm.fields
            /\ \A f \in tfForm.fields : tfValue[f] \in TfTexts
            /\ tfTouched \subseteq tfForm.fields

\* One call of onSubmit at a time, and the form is busy exactly while it is out,
\* although fields are edited and counts change meanwhile.
TfOneCall == (\A c \in tfCalls : c.n = 1) /\ tfBusy = (tfCalls # {})
=============================================================================
