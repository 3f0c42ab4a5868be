----------------------------- MODULE DetailDrawer -----------------------------
(***************************************************************************)
(* The detail drawer of the machines page: a card is clicked, the drawer    *)
(* shows the machine as it was then, and its history of the last hour when  *)
(* that arrives. Requests are not cancelled: the drawer can be closed and   *)
(* another machine opened while one is under way.                           *)
(***************************************************************************)
EXTENDS Naturals

CONSTANTS
  Machines,     \* agent ids
  None,         \* no machine, no request, no history
  MaxFetches    \* bound: requests under way at a time

Slots == 1..MaxFetches

VARIABLES
  known,     \* machines the server has
  cards,     \* machines of the page's list: what is shown can be clicked
  selected,  \* the machine the drawer shows
  history,   \* whose points the chart shows; None: "no history"
  loading,   \* historyLoading
  fetches,   \* requests of openDetail under way: the machine, and the answer
  doubt      \* history: what is shown may be another machine's, see below

drawer == <<selected, history, loading>>
vars == <<known, cards, drawer, fetches, doubt>>

Fetch == [of : Machines, points : {"asked", "some", "none"}]

TypeOK ==
  /\ known \subseteq Machines /\ cards \subseteq Machines
  /\ selected \in Machines \cup {None} /\ history \in Machines \cup {None}
  /\ loading \in BOOLEAN /\ fetches \in [Slots -> Fetch \cup {None}]
  /\ doubt \in BOOLEAN

Init ==
  /\ known = Machines /\ cards = {}
  /\ selected = None /\ history = None /\ loading = FALSE
  /\ fetches = [s \in Slots |-> None] /\ doubt = FALSE

Busy == {s \in Slots : fetches[s] # None}

\* The list follows the server (see DashboardPage); machines come and go.
ListChanges ==
  /\ cards # known /\ cards' = known
  /\ UNCHANGED <<known, drawer, fetches, doubt>>

KnownChanges ==
  /\ \E m \in Machines : known' = (known \ {m}) \cup ({m} \ known)
  /\ UNCHANGED <<cards, drawer, fetches, doubt>>

\* Variant: a history that is there is not asked for again.
OpenDetail_Cached(m) ==
  /\ selected = None /\ m \in cards
  /\ selected' = m
  /\ IF history # None THEN UNCHANGED <<loading, fetches>>
     ELSE \E s \in Slots \ Busy :
            /\ fetches' = [fetches EXCEPT ![s] = [of |-> m, points |-> "asked"]]
            /\ loading' = TRUE
  /\ UNCHANGED <<known, cards, history, doubt>>

\* A card is clicked; the open drawer covers them.
OpenDetail(m) ==
  /\ selected = None /\ m \in cards
  /\ selected' = m
  /\ loading' = TRUE
  /\ \E s \in Slots \ Busy :
       /\ \A r \in Slots \ Busy : s <= r
       /\ fetches' = [fetches EXCEPT ![s] = [of |-> m, points |-> "asked"]]
  /\ doubt' = (doubt \/ Busy # {})
  /\ UNCHANGED <<known, cards, history>>

\* Variant: closing gives up the request.
Close_Aborts ==
  /\ selected # None /\ selected' = None
  /\ fetches' = [s \in Slots |-> None]
  /\ UNCHANGED <<known, cards, history, loading, doubt>>

\* Only the selection is cleared.
Close ==
  /\ selected # None /\ selected' = None
  /\ UNCHANGED <<known, cards, history, loading, fetches, doubt>>

\* get_metrics: the points there are, none for a machine that was removed.
GetMetrics(s) ==
  /\ fetches[s] # None /\ fetches[s].points = "asked"
  /\ \E p \in {"some", "none"} :
       /\ p = "some" => fetches[s].of \in known
       /\ fetches' = [fetches EXCEPT ![s].points = p]
  /\ UNCHANGED <<known, cards, drawer, doubt>>

\* openDetail goes on: its points are shown, whatever is selected by now.
Arrives(s) ==
  /\ fetches[s] # None /\ fetches[s].points # "asked"
  /\ history' = IF fetches[s].points = "some" THEN fetches[s].of ELSE None
  /\ loading' = FALSE
  /\ fetches' = [fetches EXCEPT ![s] = None]
  /\ doubt' = (doubt /\ (Busy # {s} \/ selected # fetches[s].of))
  /\ UNCHANGED <<known, cards, selected>>

\* Variant: no finally.
Fails_Spinning(s) ==
  /\ fetches[s] # None
  /\ fetches' = [fetches EXCEPT ![s] = None]
  /\ doubt' = TRUE
  /\ UNCHANGED <<known, cards, drawer>>

\* The history that is there stays; the finally stops the spinner.
Fails(s) ==
  /\ fetches[s] # None
  /\ loading' = FALSE
  /\ fetches' = [fetches EXCEPT ![s] = None]
  /\ doubt' = TRUE
  /\ UNCHANGED <<known, cards, selected, history>>

\* The page is left: nothing that arrives later is for the next one.
Leave ==
  /\ cards' = {} /\ selected' = None /\ history' = None /\ loading' = FALSE
  /\ fetches' = [s \in Slots |-> None] /\ doubt' = FALSE
  /\ UNCHANGED known

Ends(s) == GetMetrics(s) \/ Arrives(s) \/ Fails(s)

Next ==
  \/ ListChanges \/ KnownChanges \/ Close \/ Leave
  \/ \E m \in Machines : OpenDetail(m)
  \/ \E s \in Slots : Ends(s)

\* Every request ends, the server answering or not.
Fairness == \A s \in Slots : WF_vars(Ends(s))

Spec == Init /\ [][Next]_vars /\ Fairness

-----------------------------------------------------------------------------
(* Properties *)

\* A drawer that has loaded does not show one machine's name over the history
\* of another, unless since the last request that was alone and successful one
\* has failed or two were under way at a time.
HistoryOfSelected ==
  selected # None /\ ~loading /\ ~doubt => history \in {selected, None}

\* The spinner turns for a request under way and no longer.
SpinnerForARequest == loading => Busy # {}

\* It stops, however requests end and whatever is opened and closed meanwhile,
\* if only because the first answer of several stops it.
SpinnerEnds == loading ~> ~loading
=============================================================================
