------------------------------- MODULE SearchList -------------------------------
(***************************************************************************)
(* The search pages of the template: a form of tags, and a list that        *)
(* react-query keeps per key. The three pages use it in three ways: projects *)
(* puts the filters in state, so that the key follows them; articles keeps  *)
(* them in a ref that the query function reads when it is called, and asks   *)
(* again under the key it was last rendered with; applications has one key   *)
(* and does not send the filters.                                           *)
(***************************************************************************)
EXTENDS FiniteSets, Naturals

CONSTANTS
  Tags,   \* tags of TagSelect
  MaxRunning,  \* bound: keys with a request when filters are chosen
  None    \* no data, no request

Filters == SUBSET Tags
Pages == {"articles", "projects", "applications"}

VARIABLES
  page,     \* the page that is open
  chosen,   \* the filters: filtersRef.current or the state
  key,      \* the filters of the key the page was rendered with
  cache,    \* per key, the filters its data was asked for with
  fetch,    \* per key, the filters its request was sent with
  doubt     \* history: a change while a request was under way, or a failure

vars == <<page, chosen, key, cache, fetch, doubt>>

TypeOK ==
  /\ page \in Pages /\ chosen \in Filters /\ key \in Filters
  /\ cache \in [Filters -> Filters \cup {None}]
  /\ fetch \in [Filters -> Filters \cup {None}] /\ doubt \in BOOLEAN

Running == \E k \in Filters : fetch[k] # None
WithinBound == Cardinality({k \in Filters : fetch[k] # None}) < MaxRunning

-----------------------------------------------------------------------------
(* react-query *)

\* What the query function sends: the ref as it is, or the filters it closes over.
Sends(k, c) == IF page = "articles" THEN c ELSE IF page = "projects" THEN k ELSE {}

\* refetch cancels a request under way when there is data, and else joins it.
Refetch(f, c) ==
  IF f[key] # None /\ cache[key] = None THEN f ELSE [f EXCEPT ![key] = Sends(key, c)]

\* Variant: data under the new key is not asked for again.
Observe_Fresh(f, k, c) ==
  IF k = key \/ f[k] # None \/ cache[k] # None THEN f ELSE [f EXCEPT ![k] = Sends(k, c)]

\* The page is rendered with the key k: stale data is asked for again, a
\* request under way is joined.
Observe(f, k, c) ==
  IF k = key \/ f[k] # None THEN f ELSE [f EXCEPT ![k] = Sends(k, c)]

\* The key a page has when it is rendered while c is chosen.
KeyOf(c) == IF page = "applications" THEN {} ELSE c

Init ==
  /\ page \in Pages /\ chosen = {} /\ key = {}
  /\ cache = [k \in Filters |-> None]
  /\ fetch = [k \in Filters |-> IF k = {} THEN {} ELSE None]
  /\ doubt = FALSE

-----------------------------------------------------------------------------
(* The form *)

\* reload and setOwner: the refetch is rendered only if it starts a request.
ChooseRef(c) ==
  LET started == Refetch(fetch, c) IN
  IF fetch[key] = None THEN key' = c /\ fetch' = Observe(started, c, c)
  ELSE key' = key /\ fetch' = started

Choose(c) ==
  /\ WithinBound /\ c # chosen /\ chosen' = c
  /\ CASE page = "articles" -> ChooseRef(c)
       [] page = "projects" -> key' = c /\ fetch' = Observe(fetch, c, c)
       [] page = "applications" -> key' = key /\ fetch' = Refetch(fetch, c)
  /\ doubt' = (doubt \/ Running)
  /\ UNCHANGED <<page, cache>>

\* handleTagChange and onSelectAll of TagSelect.
Toggle(t) == Choose((chosen \ {t}) \cup ({t} \ chosen))
All == Choose(IF chosen = Tags THEN {} ELSE Tags)

\* "More" asks for the same list; the focus of the window too, without
\* cancelling.
More ==
  /\ page = "articles" /\ cache[key] # None
  /\ fetch' = Refetch(fetch, chosen)
  /\ UNCHANGED <<page, chosen, key, cache, doubt>>

Focus ==
  /\ fetch[key] = None
  /\ fetch' = [fetch EXCEPT ![key] = Sends(key, chosen)]
  /\ UNCHANGED <<page, chosen, key, cache, doubt>>

-----------------------------------------------------------------------------
(* Requests *)

\* The page is rendered when what it observes ends.
Ended(k, f) ==
  IF k = key THEN key' = KeyOf(chosen) /\ fetch' = Observe(f, KeyOf(chosen), chosen)
  ELSE key' = key /\ fetch' = f

Answered(k) ==
  /\ fetch[k] # None
  /\ cache' = [cache EXCEPT ![k] = fetch[k]]
  /\ Ended(k, [fetch EXCEPT ![k] = None])
  /\ UNCHANGED <<page, chosen, doubt>>

Retried(k) ==
  /\ fetch[k] # None /\ k = key
  /\ fetch' = [fetch EXCEPT ![k] = Sends(k, chosen)]
  /\ UNCHANGED <<page, chosen, key, cache, doubt>>

\* No retry is left; the data that is there stays.
Fails(k) ==
  /\ fetch[k] # None
  /\ Ended(k, [fetch EXCEPT ![k] = None])
  /\ doubt' = TRUE
  /\ UNCHANGED <<page, chosen, cache>>

\* The page is left for so long that its data is gone.
Opened(p) ==
  /\ p # page /\ ~Running
  /\ page' = p /\ chosen' = {} /\ key' = {} /\ doubt' = FALSE
  /\ cache' = [k \in Filters |-> None]
  /\ fetch' = [k \in Filters |-> IF k = {} THEN {} ELSE None]

Next ==
  \/ All \/ More \/ Focus
  \/ \E t \in Tags : Toggle(t)
  \/ \E k \in Filters : Answered(k) \/ Retried(k) \/ Fails(k)
  \/ \E p \in Pages : Opened(p)

Spec == Init /\ [][Next]_vars

-----------------------------------------------------------------------------
(* Properties *)

\* A list with nothing under way was asked for with the filters that are chosen,
\* also where the ref makes requests store the list of one filter under the key
\* of another. (With changes faster than answers, articles can settle on the
\* list of the filters before.)
ListOfFilters ==
  ~Running /\ ~doubt /\ page # "applications" => cache[key] = chosen
=============================================================================
