-------------------------------- MODULE Register --------------------------------
(***************************************************************************)
(* The registration form of the template: the countdown of the captcha      *)
(* button, whose interval outlives the page when it was started by a later  *)
(* render, and the form's passwords and request.                            *)
(***************************************************************************)
EXTENDS Naturals

CONSTANTS
  Seconds,     \* the countdown starts there
  Passwords,
  None,        \* no interval, no password, no request
  MaxOld       \* bound: intervals of pages that were left

VARIABLES
  open,       \* the page is mounted
  count,      \* what the button shows; it is disabled unless 0
  interval,   \* counts of the page's interval
  first,      \* the interval belongs to the first render, whose cleanup knows it
  old,        \* intervals that outlived their page
  password, confirm,
  request     \* None, "sent" or what was sent with it

vars == <<open, count, interval, first, old, password, confirm, request>>
form == <<password, confirm, request>>

TypeOK ==
  /\ open \in BOOLEAN /\ count \in 0..Seconds
  /\ interval \in {None} \cup 0..Seconds /\ first \in BOOLEAN /\ old \in 0..MaxOld
  /\ password \in Passwords \cup {None} /\ confirm \in Passwords \cup {None}
  /\ request \in {None} \cup [password : Passwords, confirm : Passwords]

Init ==
  /\ open = TRUE /\ count = 0 /\ interval = None /\ first = TRUE /\ old = 0
  /\ password = None /\ confirm = None /\ request = None

\* onGetCaptcha; another render follows.
GetCaptcha ==
  /\ open /\ count = 0
  /\ count' = Seconds /\ interval' = Seconds
  /\ UNCHANGED <<open, first, old, form>>

\* Variant: the interval goes on at 0.
Tick_On ==
  /\ interval # None
  /\ interval' = IF interval = 0 THEN Seconds ELSE interval - 1
  /\ count' = interval'
  /\ UNCHANGED <<open, first, old, form>>

Tick ==
  /\ interval # None
  /\ count' = interval - 1
  /\ interval' = IF count' = 0 THEN None ELSE count'
  /\ UNCHANGED <<open, first, old, form>>

\* Intervals of pages that were left set the state of nothing.
TickOld ==
  /\ old > 0 /\ old' = old - 1
  /\ UNCHANGED <<open, count, interval, first, form>>

\* Typing a password is watched, so the page renders again.
Type(p) ==
  /\ open /\ password' = p /\ first' = FALSE
  /\ UNCHANGED <<open, count, interval, old, confirm, request>>

TypeAgain(p) ==
  /\ open /\ confirm' = p
  /\ UNCHANGED <<open, count, interval, first, old, password, request>>

\* Variant: the second password was checked when it was typed.
Submit_Unchecked ==
  /\ open /\ request = None /\ password # None /\ confirm # None
  /\ request' = [password |-> password, confirm |-> confirm]
  /\ UNCHANGED <<open, count, interval, first, old, password, confirm>>

\* Every rule is checked again, checkConfirm among them; the button is busy.
Submit ==
  /\ open /\ request = None
  /\ password # None /\ confirm # None /\ confirm = password
  /\ request' = [password |-> password, confirm |-> confirm]
  /\ UNCHANGED <<open, count, interval, first, old, password, confirm>>

\* A new page: only the first render's interval is known to the cleanup.
Leave ==
  /\ open /\ open' = FALSE
  /\ old' = IF interval # None /\ ~first THEN IF old < MaxOld THEN old + 1 ELSE old ELSE old
  /\ count' = 0 /\ interval' = None /\ first' = TRUE
  /\ password' = None /\ confirm' = None /\ request' = None

Open == ~open /\ open' = TRUE /\ UNCHANGED <<count, interval, first, old, form>>

\* Registered: on to the result page; or the form stays.
Answered ==
  /\ request # None
  /\ request' = None
  /\ UNCHANGED <<open, count, interval, first, old, password, confirm>>

Next ==
  \/ GetCaptcha \/ Tick \/ TickOld \/ Submit \/ Leave \/ Open \/ Answered
  \/ \E p \in Passwords : Type(p) \/ TypeAgain(p)

Spec == Init /\ [][Next]_vars /\ WF_vars(Tick)

\* The captcha button is shown as waiting exactly while an interval of this page
\* will let it go again.
WaitsForTheInterval == count # 0 <=> interval # None

\* What is sent has the same password twice, though changing the first one does
\* not check the second again.
SentTwice == request # None => request.password = request.confirm
=============================================================================
