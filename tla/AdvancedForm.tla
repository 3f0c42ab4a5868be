------------------------------ MODULE AdvancedForm ------------------------------
(***************************************************************************)
(* The long form of the template: required fields, a list of what is wrong  *)
(* in the footer, and a table of members with one row being created at a    *)
(* time, whose keys come from a counter that only goes up.                  *)
(***************************************************************************)
EXTENDS Naturals, FiniteSets

CONSTANTS
  Fields,     \* fields with a required rule
  Given,      \* keys of tableData
  MaxNew,     \* bound: rows that are created
  None        \* no row is being created

NewKeys == 1..MaxNew

VARIABLES
  filled,      \* fields that pass their rules
  error,       \* errorFields of the last failed validation
  busy,        \* fakeSubmitForm is under way
  members,     \* keys of the table, with how many rows have each
  creating,    \* key of the row that is being created
  keyCounter

vars == <<filled, error, busy, members, creating, keyCounter>>

TypeOK ==
  /\ filled \subseteq Fields /\ error \subseteq Fields /\ busy \in BOOLEAN
  /\ members \in [Given \cup NewKeys -> 0..MaxNew]
  /\ creating \in NewKeys \cup {None} /\ keyCounter \in 0..MaxNew

Init ==
  /\ filled = {} /\ error = {} /\ busy = FALSE
  /\ members = [k \in Given \cup NewKeys |-> IF k \in Given THEN 1 ELSE 0]
  /\ creating = None /\ keyCounter = 0

table == <<members, creating, keyCounter>>

Edit(f) ==
  /\ filled' = (filled \ {f}) \cup ({f} \ filled)
  /\ UNCHANGED <<error, busy, table>>

\* Variant: the list stays until the next failure.
Submit_Keeps ==
  /\ ~busy /\ filled = Fields
  /\ busy' = TRUE
  /\ UNCHANGED <<filled, error, table>>

\* onFinish; the button is busy until it ends.
Submit ==
  /\ ~busy /\ filled = Fields
  /\ error' = {} /\ busy' = TRUE
  /\ UNCHANGED <<filled, table>>

\* onFinishFailed.
Refuse ==
  /\ ~busy /\ filled # Fields
  /\ error' = Fields \ filled
  /\ UNCHANGED <<filled, busy, table>>

\* A message says which; the fields stay.
Posted ==
  /\ busy /\ busy' = FALSE
  /\ UNCHANGED <<filled, error, table>>

\* Variant: the key is the number of rows.
Create_Length ==
  /\ creating = None /\ keyCounter < MaxNew
  /\ keyCounter' = keyCounter + 1
  /\ LET rows == Cardinality({k \in DOMAIN members : members[k] > 0})
     IN creating' = IF rows \in NewKeys THEN rows ELSE MaxNew
  /\ UNCHANGED <<filled, error, busy, members>>

Create ==
  /\ creating = None /\ keyCounter < MaxNew
  /\ keyCounter' = keyCounter + 1 /\ creating' = keyCounter'
  /\ UNCHANGED <<filled, error, busy, members>>

\* EditableProTable: the new row becomes one of the table, or goes.
Save ==
  /\ creating # None
  /\ members' = [members EXCEPT ![creating] = @ + 1]
  /\ creating' = None
  /\ UNCHANGED <<filled, error, busy, keyCounter>>

Cancel ==
  /\ creating # None /\ creating' = None
  /\ UNCHANGED <<filled, error, busy, members, keyCounter>>

\* "Delete" of a row that is being edited.
Delete(k) ==
  /\ members[k] > 0
  /\ members' = [members EXCEPT ![k] = @ - 1]
  /\ UNCHANGED <<filled, error, busy, creating, keyCounter>>

Next ==
  \/ Submit \/ Refuse \/ Posted \/ Create \/ Save \/ Cancel
  \/ \E f \in Fields : Edit(f)
  \/ \E k \in Given \cup NewKeys : Delete(k)

Spec == Init /\ [][Next]_vars

\* Keys tell the members apart, whatever was created, cancelled and deleted.
MembersAreTold == \A k \in DOMAIN members : members[k] + (IF creating = k THEN 1 ELSE 0) <= 1

\* The footer does not list errors of an earlier try over a form that is being
\* sent.
ErrorsGo == busy => error = {}
=============================================================================
