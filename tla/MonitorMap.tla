------------------------------- MODULE MonitorMap -------------------------------
(***************************************************************************)
(* The map of the monitor page: two queries, a skeleton while one has never *)
(* answered, an error with a retry, and a drawing that an effect puts into  *)
(* the svg. The effect runs when the data changes, the svg comes and goes   *)
(* with what the queries say.                                               *)
(**************************************************************************)
CONSTANTS
  Versions,   \* answers of an endpoint
  None        \* no data

Queries == {"geo", "world"}

VARIABLES
  open,     \* the page is open
  data,     \* per query, what is cached: equal answers are the same object
  failed,   \* per query, isError
  busy,     \* per query, a request is under way
  svg,      \* the svg is mounted
  seen,     \* what the effect last ran for: <<data, world loading>>
  drawn,    \* the svg that is mounted holds a map
  lost      \* history: a request has failed for data that is there, since it was drawn

vars == <<open, data, failed, busy, svg, seen, drawn, lost>>

TypeOK ==
  /\ open \in BOOLEAN /\ data \in [Queries -> Versions \cup {None}]
  /\ failed \in [Queries -> BOOLEAN] /\ busy \in [Queries -> BOOLEAN]
  /\ svg \in BOOLEAN /\ drawn \in BOOLEAN /\ lost \in BOOLEAN
  /\ seen = None \/ (seen.of \in [Queries -> Versions \cup {None}] /\ seen.loading \in BOOLEAN)

Init ==
  /\ open = FALSE /\ data = [q \in Queries |-> None]
  /\ failed = [q \in Queries |-> FALSE] /\ busy = [q \in Queries |-> FALSE]
  /\ svg = FALSE /\ seen = None /\ drawn = FALSE /\ lost = FALSE

-----------------------------------------------------------------------------
(* A render: what the component returns, then its effect *)

Loading(q) == data[q] = None /\ busy[q]
Shows == open /\ ~\E q \in Queries : Loading(q) \/ failed[q]

\* Variant: the effect depends on the map and not on its points.
Deps_World == [of |-> [data EXCEPT !["geo"] = None], loading |-> Loading("world")]

Deps == [of |-> data, loading |-> Loading("world")]

\* drawMap, unless the effect does not run or finds no data or no svg.
Draws == seen # Deps' /\ ~Loading("world")' /\ data'["world"] # None /\ Shows'

Rendered ==
  /\ svg' = Shows'
  /\ seen' = IF open' THEN Deps' ELSE None
  /\ drawn' = (Shows' /\ (Draws \/ (svg /\ drawn)))
  /\ lost' = (~Draws /\ open' /\ (lost \/ \E q \in Queries : failed'[q] /\ data'[q] # None))

-----------------------------------------------------------------------------
(* The queries *)

\* refetch and refetchOnMount: a failure without data is loading again.
Asking(Q) ==
  /\ busy' = [q \in Queries |-> busy[q] \/ q \in Q]
  /\ failed' = [q \in Queries |-> failed[q] /\ ~(q \in Q /\ data[q] = None)]

Open ==
  /\ ~open /\ open' = TRUE
  /\ Asking(Queries) /\ UNCHANGED data /\ Rendered

\* The retry button, which is there when a query failed; or the window's focus.
Retry ==
  /\ open /\ ~(\E q \in Queries : Loading(q)) /\ (\E q \in Queries : failed[q])
  /\ Asking(Queries) /\ UNCHANGED <<open, data>> /\ Rendered

Focus ==
  /\ open /\ Asking(Queries)
  /\ UNCHANGED <<open, data>> /\ Rendered

Answered(q) ==
  /\ busy[q] /\ busy' = [busy EXCEPT ![q] = FALSE]
  /\ \E v \in Versions : data' = [data EXCEPT ![q] = v]
  /\ failed' = [failed EXCEPT ![q] = FALSE]
  /\ UNCHANGED open /\ Rendered

Fails(q) ==
  /\ busy[q] /\ busy' = [busy EXCEPT ![q] = FALSE]
  /\ failed' = [failed EXCEPT ![q] = TRUE]
  /\ UNCHANGED <<open, data>> /\ Rendered

Leave ==
  /\ open /\ open' = FALSE
  /\ UNCHANGED <<data, failed, busy>> /\ Rendered

Next ==
  \/ Open \/ Retry \/ Focus \/ Leave
  \/ \E q \in Queries : Answered(q) \/ Fails(q)

Spec == Init /\ [][Next]_vars

\* A map that is on show has been drawn, in whichever order the two queries
\* answer, fail and are retried. (After a request for data that is there has
\* failed it can stay empty: nothing the effect depends on changes with the svg.)
DrawnWhenShown == svg /\ ~lost => drawn
=============================================================================
