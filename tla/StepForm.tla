-------------------------------- MODULE StepForm --------------------------------
(***************************************************************************)
(* The transfer form of the template: three steps, the data of the first    *)
(* confirmed with a password in the second, and "another transfer", which   *)
(* resets a form instance that no step is given.                            *)
(***************************************************************************)
EXTENDS Naturals

CONSTANTS
  Amounts,   \* values of the first step that pass its rules
  None       \* values that do not, and no password

Steps == {0, 1, 2}

VARIABLES
  current,    \* the step shown
  draft,      \* what the form of step 0 holds
  stepData,   \* what steps 1 and 2 show
  password    \* whether the form of step 1 holds one

vars == <<current, draft, stepData, password>>

TypeOK ==
  /\ current \in Steps /\ draft \in Amounts \cup {None} /\ stepData \in Amounts
  /\ password \in BOOLEAN

Init ==
  /\ current = 0 /\ stepData \in Amounts /\ draft = stepData /\ password = FALSE

\* The form of a step that is not shown keeps its values.
Edit(a) ==
  /\ current = 0 /\ draft' = a
  /\ UNCHANGED <<current, stepData, password>>

TypePassword ==
  /\ current = 1 /\ password' = ~password
  /\ UNCHANGED <<current, draft, stepData>>

\* Variant: the data is kept the first time only.
Fill_Once ==
  /\ current = 0 /\ draft # None
  /\ stepData' = IF password THEN stepData ELSE draft
  /\ current' = 1
  /\ UNCHANGED <<draft, password>>

\* onFinish of step 0, once every rule holds.
Fill ==
  /\ current = 0 /\ draft # None
  /\ stepData' = draft /\ current' = 1
  /\ UNCHANGED <<draft, password>>

Confirm ==
  /\ current = 1 /\ password /\ current' = 2
  /\ UNCHANGED <<draft, stepData, password>>

Back ==
  /\ current = 1 /\ current' = 0
  /\ UNCHANGED <<draft, stepData, password>>

\* onFinish of the result: the step; the forms keep what they hold.
Again ==
  /\ current = 2 /\ current' = 0
  /\ UNCHANGED <<draft, stepData, password>>

Next ==
  \/ TypePassword \/ Fill \/ Confirm \/ Back \/ Again
  \/ \E a \in Amounts \cup {None} : Edit(a)

Spec == Init /\ [][Next]_vars

\* What is confirmed, and shown as done, is what the first form holds, however
\* often the user goes back, edits and transfers again.
ConfirmsDraft == current > 0 => stepData = draft
=============================================================================
