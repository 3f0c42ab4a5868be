----------------------------- MODULE DisplayPrefs -----------------------------
(***************************************************************************)
(* The display preferences of a user: the row that api/                    *)
(* machines_display_prefs.py reads and writes, and the copies that the      *)
(* machines page and the hosts page keep, show at once when a switch is      *)
(* thrown, and take back when the save fails.                               *)
(*                                                                         *)
(* A save carries the whole preferences, computed from the copy the page     *)
(* has; a page is open in several tabs, and only the hosts page deletes.     *)
(***************************************************************************)
EXTENDS Naturals, FiniteSets

CONSTANTS
  Tabs,       \* browser tabs of the user with one of the two pages
  HostTabs,   \* those with the hosts page; the others show the machines page
  Machines,   \* agent ids
  Cards,      \* what the settings drawer shows or hides: statistics, machines
  None,       \* no row, no save, no request, no delete
  Asked,      \* a GET without an answer yet
  MaxSaves    \* bound: saves in a behaviour

ASSUME PrefsAssumption ==
  /\ HostTabs \subseteq Tabs
  /\ Machines \cap Cards = {}
  /\ MaxSaves \in Nat \ {0}

Prefs == [shown : SUBSET Cards, hidden : SUBSET Machines]
Default == [shown |-> Cards, hidden |-> {}]

\* A copy and, as history, the number of the row's change it was read after;
\* Unread has not been read, Edited holds a change not yet answered.
Unread == MaxSaves + 1
Edited == MaxSaves + 2
Copy == [prefs : Prefs, of : 0..Edited]

Slots == 1..MaxSaves

\* "stage" is where the server is with the PUT, "waits" whether the page still
\* awaits it. "what" is the switch, or the machine deleted, it was made for.
Save ==
  [tab : Tabs, what : Machines \cup Cards, next : Prefs, prev : Copy,
   stage : {"sent", "read", "stored", "answered", "failed"}, waits : BOOLEAN,
   read : Prefs \cup {None}, saved : Copy \cup {None}]

\* What stands for an absence is none of the values it is the absence of.
ASSUME SentinelAssumption ==
  None # Asked /\ None \notin Prefs /\ {None, Asked} \cap Copy = {} /\ None \notin Save

VARIABLES
  row,       \* the user's row of user_machines_display_prefs
  changes,   \* history: changes of the row so far
  open,      \* tabs whose page is mounted
  copy,      \* displayPrefs of each tab's page
  saving,    \* prefsSaving of each tab's page
  get,       \* the initial GET of each tab's page
  del,       \* the displayPrefs each handleDelete under way has captured
  saves,     \* the PUT requests that can still change something
  made,      \* saves made so far
  excused    \* history: tabs whose copy may be out of date, see below

server == <<row, changes>>
page == <<open, copy, saving, get, del>>
puts == <<saves, made>>
vars == <<server, page, puts, excused>>

TypeOK ==
  /\ row \in Prefs \cup {None} /\ changes \in 0..MaxSaves
  /\ open \subseteq Tabs /\ copy \in [Tabs -> Copy]
  /\ saving \in [Tabs -> BOOLEAN]
  /\ get \in [Tabs -> {None, Asked} \cup Copy]
  /\ del \in [HostTabs -> [Machines -> {None} \cup Copy]]
  /\ saves \in [Slots -> {None} \cup Save] /\ made \in 0..MaxSaves
  /\ excused \subseteq Tabs

Initially == [prefs |-> Default, of |-> Unread]

Init ==
  /\ row \in {None} \cup [shown : {Cards}, hidden : {{m} : m \in Machines}]
  /\ changes = 0
  /\ open = {} /\ copy = [t \in Tabs |-> Initially]
  /\ saving = [t \in Tabs |-> FALSE] /\ get = [t \in Tabs |-> None]
  /\ del = [t \in HostTabs |-> [m \in Machines |-> None]]
  /\ saves = [s \in Slots |-> None] /\ made = 0
  /\ excused = {}

\* What get_machines_display_prefs answers.
Stored == IF row = None THEN Default ELSE row

Waiting(t) == {s \in Slots : saves[s] # None /\ saves[s].tab = t /\ saves[s].waits}

\* A save is over when neither the page nor the database has to do with it.
Left(p) == IF ~p.waits /\ p.stage \notin {"sent", "read"} THEN None ELSE p

Set(s, p) == saves' = [saves EXCEPT ![s] = Left(p)] /\ UNCHANGED made

-----------------------------------------------------------------------------
(* The page is opened, reads the preferences, and is left *)

Mount(t) ==
  /\ t \notin open
  /\ open' = open \cup {t}
  /\ get' = [get EXCEPT ![t] = Asked]
  /\ UNCHANGED <<server, copy, saving, del, puts, excused>>

\* Answers that come after are for a page that is gone; the server does not know.
Unmount(t) ==
  /\ t \in open
  /\ open' = open \ {t}
  /\ copy' = [copy EXCEPT ![t] = Initially]
  /\ saving' = [saving EXCEPT ![t] = FALSE]
  /\ get' = [get EXCEPT ![t] = None]
  /\ del' = [u \in HostTabs |-> IF u = t THEN [m \in Machines |-> None] ELSE del[u]]
  /\ saves' = [s \in Slots |-> IF s \in Waiting(t)
                               THEN Left([saves[s] EXCEPT !.waits = FALSE]) ELSE saves[s]]
  /\ excused' = excused \ {t}
  /\ UNCHANGED <<server, made>>

GetAnswered(t) ==
  /\ get[t] = Asked
  /\ get' = [get EXCEPT ![t] = [prefs |-> Stored, of |-> changes]]
  /\ UNCHANGED <<server, open, copy, saving, del, puts, excused>>

\* The answer is shown whatever happened to the copy while it was on its way.
GetArrives(t) ==
  /\ get[t] \notin {None, Asked}
  /\ copy' = [copy EXCEPT ![t] = get[t]]
  /\ get' = [get EXCEPT ![t] = None]
  /\ UNCHANGED <<server, open, saving, del, puts, excused>>

\* Variant: the page takes the missing answer for the preferences.
GetFails_Undefined(t) ==
  /\ get[t] # None
  /\ copy' = [copy EXCEPT ![t] = None]
  /\ get' = [get EXCEPT ![t] = None]
  /\ excused' = excused \cup {t}
  /\ UNCHANGED <<server, open, saving, del, puts>>

\* "Use the default preferences".
GetFails(t) ==
  /\ get[t] # None
  /\ get' = [get EXCEPT ![t] = None]
  /\ excused' = excused \cup {t}
  /\ UNCHANGED <<server, open, copy, saving, del, puts>>

-----------------------------------------------------------------------------
(* saveDisplayPrefs *)

Flip(set, x) == IF x \in set THEN set \ {x} ELSE set \cup {x}

\* saveDisplayPrefs(next) as it was rendered with the copy prev.
Start(t, what, prev, next) ==
  /\ made < MaxSaves /\ made' = made + 1
  /\ \E s \in Slots :
       /\ saves[s] = None /\ \A r \in Slots : r < s => saves[r] # None
       /\ saves' = [saves EXCEPT ![s] =
            [tab |-> t, what |-> what, next |-> next, prev |-> prev,
             stage |-> "sent", waits |-> TRUE, read |-> None, saved |-> None]]
  /\ copy' = [copy EXCEPT ![t] = [prefs |-> next, of |-> Edited]]
  /\ saving' = [saving EXCEPT ![t] = TRUE]

\* Variant: the switch can be thrown while a save is under way.
Edit_WhileSaving(t, what, next) ==
  /\ t \in open
  /\ Start(t, what, copy[t], next)
  /\ excused' = IF get[t] # None THEN excused \cup {t} ELSE excused
  /\ UNCHANGED <<server, open, get, del>>

\* A switch that is loading is disabled; the copy may still be the default.
Edit(t, what, next) ==
  /\ t \in open /\ ~saving[t]
  /\ Start(t, what, copy[t], next)
  /\ excused' = IF get[t] # None THEN excused \cup {t} ELSE excused
  /\ UNCHANGED <<server, open, get, del>>

\* The switch of a machine on the hosts page.
ToggleAgentHidden(t, m) ==
  /\ t \in HostTabs
  /\ Edit(t, m, [copy[t].prefs EXCEPT !.hidden = Flip(@, m)])

\* Variant: the drawer sends its own preferences only.
ToggleCards_Own(t, c) ==
  /\ t \notin HostTabs
  /\ Edit(t, c, [Default EXCEPT !.shown = Flip(copy[t].prefs.shown, c)])

\* A switch in the settings drawer of the machines page.
ToggleCards(t, c) ==
  /\ t \notin HostTabs
  /\ Edit(t, c, [copy[t].prefs EXCEPT !.shown = Flip(@, c)])

-----------------------------------------------------------------------------
(* handleDelete of the hosts page *)

Delete(t, m) ==
  /\ t \in open \cap HostTabs /\ del[t][m] = None
  /\ del' = [del EXCEPT ![t][m] = copy[t]]
  /\ UNCHANGED <<server, open, copy, saving, get, puts, excused>>

DeleteFails(t, m) ==
  /\ del[t][m] # None
  /\ del' = [del EXCEPT ![t][m] = None]
  /\ UNCHANGED <<server, open, copy, saving, get, puts, excused>>

\* After the await: the machine is taken out of the preferences captured before
\* it, if they hide it, whatever has been saved or read since.
Deleted(t, m) ==
  /\ del[t][m] # None
  /\ del' = [del EXCEPT ![t][m] = None]
  /\ LET old == del[t][m] IN
     \/ /\ m \notin old.prefs.hidden
        /\ UNCHANGED <<copy, saving, puts, excused>>
     \/ /\ m \in old.prefs.hidden
        /\ Start(t, m, old, [old.prefs EXCEPT !.hidden = @ \ {m}])
        /\ excused' = IF Waiting(t) # {} \/ old # copy[t]
                      THEN excused \cup {t} ELSE excused
  /\ UNCHANGED <<server, open, get>>

-----------------------------------------------------------------------------
(* update_machines_display_prefs *)

At(s, stage) == saves[s] # None /\ saves[s].stage = stage

\* session.get
Read(s) ==
  /\ At(s, "sent")
  /\ Set(s, [saves[s] EXCEPT !.stage = "read", !.read = row])
  /\ UNCHANGED <<server, page, excused>>

\* The UPDATE sets the columns that differ from what was read.
Column(new, old, now) == IF new = old THEN now ELSE new
Merge(new, old, now) ==
  [shown |-> Column(new.shown, old.shown, now.shown),
   hidden |-> Column(new.hidden, old.hidden, now.hidden)]

\* Everybody's copy but that of the page that waits for this save is old now.
Outdates(s) ==
  excused' = IF row' = row THEN excused
             ELSE excused \cup {t \in open : s \notin Waiting(t)}

\* commit: a second INSERT for the user is refused.
Store(s) ==
  /\ At(s, "read")
  /\ LET p == saves[s] IN
     \/ /\ p.read = None /\ row # None
        /\ Set(s, [p EXCEPT !.stage = "failed"])
        /\ UNCHANGED row
     \/ /\ p.read = None /\ row = None
        /\ row' = p.next
        /\ Set(s, [p EXCEPT !.stage = "stored"])
     \/ /\ p.read # None
        /\ row' = Merge(p.next, p.read, row)
        /\ Set(s, [p EXCEPT !.stage = "stored"])
  /\ changes' = IF row' = row THEN changes ELSE changes + 1
  /\ Outdates(s)
  /\ UNCHANGED page

\* refresh, and the answer.
Refresh(s) ==
  /\ At(s, "stored")
  /\ Set(s, [saves[s] EXCEPT !.stage = "answered",
                             !.saved = [prefs |-> row, of |-> changes]])
  /\ UNCHANGED <<server, page, excused>>

\* The database fails before the commit.
ServerFails(s) ==
  /\ At(s, "sent") \/ At(s, "read")
  /\ Set(s, [saves[s] EXCEPT !.stage = "failed"])
  /\ UNCHANGED <<server, page, excused>>

-----------------------------------------------------------------------------
(* The answer reaches saveDisplayPrefs *)

Answered(s) ==
  /\ At(s, "answered") /\ saves[s].waits
  /\ LET t == saves[s].tab IN
     /\ copy' = [copy EXCEPT ![t] = saves[s].saved]
     /\ saving' = [saving EXCEPT ![t] = FALSE]
  /\ Set(s, [saves[s] EXCEPT !.waits = FALSE])
  /\ UNCHANGED <<server, open, get, del, excused>>

\* Variant: the page keeps what it shows.
Failed_Kept(s) ==
  /\ saves[s] # None /\ saves[s].waits
  /\ LET t == saves[s].tab IN
     /\ copy' = [copy EXCEPT ![t] = [prefs |-> copy[t].prefs, of |-> saves[s].prev.of]]
     /\ saving' = [saving EXCEPT ![t] = FALSE]
     /\ excused' = IF At(s, "failed") THEN excused ELSE excused \cup {t}
  /\ Set(s, [saves[s] EXCEPT !.waits = FALSE])
  /\ UNCHANGED <<server, open, get, del>>

\* Variant: the switches stay disabled.
Failed_Stuck(s) ==
  /\ saves[s] # None /\ saves[s].waits
  /\ LET t == saves[s].tab IN
     /\ copy' = [copy EXCEPT ![t] = saves[s].prev]
     /\ excused' = IF At(s, "failed") THEN excused ELSE excused \cup {t}
  /\ Set(s, [saves[s] EXCEPT !.waits = FALSE])
  /\ UNCHANGED <<server, saving, open, get, del>>

\* An error, or no answer: then the server may have stored it, or will.
Failed(s) ==
  /\ saves[s] # None /\ saves[s].waits
  /\ LET t == saves[s].tab IN
     /\ copy' = [copy EXCEPT ![t] = saves[s].prev]
     /\ saving' = [saving EXCEPT ![t] = FALSE]
     /\ excused' = IF At(s, "failed") THEN excused ELSE excused \cup {t}
  /\ Set(s, [saves[s] EXCEPT !.waits = FALSE])
  /\ UNCHANGED <<server, open, get, del>>

-----------------------------------------------------------------------------

Next ==
  \/ \E t \in Tabs :
       \/ Mount(t) \/ Unmount(t)
       \/ GetAnswered(t) \/ GetArrives(t) \/ GetFails(t)
       \/ \E m \in Machines : ToggleAgentHidden(t, m)
       \/ \E c \in Cards : ToggleCards(t, c)
  \/ \E t \in HostTabs, m \in Machines : Delete(t, m) \/ DeleteFails(t, m) \/ Deleted(t, m)
  \/ \E s \in Slots : Read(s) \/ Store(s) \/ Refresh(s) \/ ServerFails(s)
       \/ Answered(s) \/ Failed(s)

Spec == Init /\ [][Next]_vars

-----------------------------------------------------------------------------
(* Properties *)

\* A copy that was read after the row's last change is the row: what a page
\* shows, what it goes back to when a save fails, and what handleDelete holds
\* on to are never a mixture of two states of the row.
CopyIsStored ==
  \A p \in {copy[t] : t \in open}
           \cup {saves[s].prev : s \in {r \in Slots : saves[r] # None}}
           \cup UNION {{del[t][m] : m \in Machines} \ {None} : t \in HostTabs} :
     p.of = changes => p.prefs = Stored

\* The copy of a page with no save under way is up to date, unless another page
\* has saved since it was opened, an answer was lost, a switch was thrown
\* before the preferences had been read, or a delete saved what it had captured
\* while the page went on.
StaleForAReason ==
  \A t \in open \ excused :
     get[t] = None /\ Waiting(t) = {} => copy[t].of = changes

\* A save that was computed from an up-to-date copy changes what its switch
\* stands for and nothing else, although it carries all the preferences.
FreshSaveLosesNothing ==
  [][\A s \in Slots :
       /\ At(s, "read") /\ Store(s)
       /\ saves[s].prev.of = changes /\ row' # row
       => /\ row'.shown \ {saves[s].what} = Stored.shown \ {saves[s].what}
          /\ row'.hidden \ {saves[s].what} = Stored.hidden \ {saves[s].what}]_vars

\* Switches are disabled for a save only while one is under way, which will end.
DisabledForASave == \A t \in Tabs : saving[t] => Waiting(t) # {}
=============================================================================
