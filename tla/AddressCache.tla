----------------------------- MODULE AddressCache -----------------------------
(***************************************************************************)
(* The public address of a machine on its way to the page: the agent's      *)
(* cache (geoip.py) with the lookups that refresh it, the report that copies *)
(* it, and _persist (ws.py), which assigns the fields to its session's copy  *)
(* of the row and writes those that differ from that copy. Two connections  *)
(* of the machine may each have a report under way, over a session of its   *)
(* own; statements and transactions are in IngestStore in full, here a       *)
(* report is stored by one step or lost.                                     *)
(***************************************************************************)
EXTENDS Naturals

CONSTANTS
  Fields,   \* public_ip, country_code, country
  Places,   \* public addresses
  Country,  \* the country of each of them
  Empty,    \* the field of an answer, a report or a row that says nothing
  MaxUpsets \* bound: moves, failures and deletions in a behaviour

VARIABLES
  place,     \* the address of the machine
  task,      \* the lookup: before the first report, between two, under way
  asked,     \* the place the lookup under way was sent from
  disabled,  \* GEOIP_DISABLE
  cache,     \* _cache
  session,   \* the agent's connection and the one before it, at the server
  row,       \* the fields of the machine's row, or no row
  left,      \* how many more times something moves, fails or is deleted
  pieced     \* history: the row is not what one report said

world == <<place, disabled>>
agent == <<task, asked, cache>>
vars == <<world, agent, session, row, left, pieced>>

Countries == {Country[p] : p \in Places}
Contents == [Fields -> Places \cup Countries \cup {Empty}]
Blank == [f \in Fields |-> Empty]
Absent == [f \in {} |-> Empty]  \* no report, no row, no copy of it

\* What a lookup from a place says.
Say(p, f) == IF f = "public_ip" THEN p ELSE Country[p]
Told(p) == [f \in Fields |-> Say(p, f)]

\* A connection: its report the server has yet to store, whether its session has
\* read the row, has to read it again after a commit, or neither, and the copy.
Sessions == {"new", "old"}
Session == [report : Contents \cup {Absent}, memo : {"unread", "read", "stored"},
            copy : Contents \cup {Absent}]
Fresh == [report |-> Absent, memo |-> "unread", copy |-> Absent]

TypeOK ==
  /\ place \in Places /\ asked \in Places \cup {Empty}
  /\ task \in {"first", "wait", "fetch"} /\ (asked = Empty <=> task = "wait")
  /\ disabled \in BOOLEAN /\ left \in 0..MaxUpsets /\ pieced \in BOOLEAN
  /\ cache \in Contents /\ row \in Contents \cup {Absent}
  /\ session \in [Sessions -> Session]

\* The process starts; _main looks the address up before it reports.
Launched == cache = Blank /\ task = "first" /\ asked = place

Init ==
  /\ place \in Places /\ disabled \in BOOLEAN /\ left \in 0..MaxUpsets
  /\ Launched
  /\ session = [s \in Sessions |-> Fresh] /\ row = Absent /\ pieced = FALSE

\* Something moves, fails or is deleted, for one of the last times.
Upset == left > 0 /\ left' = left - 1

-----------------------------------------------------------------------------
(* The agent *)

\* geoip._TTL has passed.
Wake ==
  /\ task = "wait"
  /\ task' = "fetch" /\ asked' = place
  /\ UNCHANGED <<world, cache, session, row, left, pieced>>

LookingUp == task \in {"first", "fetch"}

\* _fetch: what the service knows of the address the request came from. Both
\* callers of refresh force it, so the age of the cache keeps nothing from it.
Answer(F) ==
  /\ LookingUp /\ ~disabled
  /\ IF F = Fields THEN UNCHANGED left ELSE Upset
  /\ cache' = [f \in Fields |-> IF f \in F THEN Say(asked, f) ELSE Empty]
  /\ task' = "wait" /\ asked' = Empty
  /\ UNCHANGED <<world, session, row, pieced>>

\* Variant: nothing catches what _fetch raises, and the task is over.
LookupFails_Raises ==
  /\ LookingUp /\ (IF disabled THEN UNCHANGED left ELSE Upset)
  /\ task' = (IF task = "first" THEN "wait" ELSE "ended") /\ asked' = Empty
  /\ UNCHANGED <<world, cache, session, row, pieced>>

\* No answer, or one that says it failed, or lookups are disabled: the cache
\* stays.
LookupFails ==
  /\ LookingUp /\ (IF disabled THEN UNCHANGED left ELSE Upset)
  /\ task' = "wait" /\ asked' = Empty
  /\ UNCHANGED <<world, cache, session, row, pieced>>

\* collect copies the cache, whatever the lookup under way will say.
Report ==
  /\ task # "first" /\ session["new"].report = Absent
  /\ session' = [session EXCEPT !["new"].report = cache]
  /\ UNCHANGED <<world, agent, row, left, pieced>>

\* The agent connects again. What it had sent may still be stored, over the
\* session it was sent to (bound: one earlier report).
Reopened ==
  /\ Upset /\ session["old"] = Fresh
  /\ LET last == session["new"]
     IN session' = [new |-> Fresh, old |-> IF last.report = Absent THEN Fresh ELSE last]

Reconnect == Reopened /\ UNCHANGED <<world, agent, row, pieced>>

Restart ==
  /\ Reopened
  /\ cache' = Blank /\ task' = "first" /\ asked' = place
  /\ UNCHANGED <<world, row, pieced>>

-----------------------------------------------------------------------------
(* The server *)

Becomes(s, state) == session' = [session EXCEPT ![s] = state]

\* session.get of the first report of a connection reads the row; for the others
\* it answers with the copy.
Load(s) ==
  /\ session[s].report # Absent /\ session[s].memo = "unread"
  /\ Becomes(s, [session[s] EXCEPT !.memo = "read", !.copy = row])
  /\ UNCHANGED <<world, agent, row, left, pieced>>

\* The row, or what an INSERT puts where no value was assigned.
Known == IF row = Absent THEN Blank ELSE row

\* Variant: a country that is known stays.
Stored_Known(s) ==
  [f \in Fields |-> IF session[s].report[f] = Empty \/ (f # "public_ip" /\ Known[f] # Empty)
                    THEN Known[f] ELSE session[s].report[f]]

\* Each field of the report that says something is assigned, and the flush
\* writes what differs from the copy.
Stored(s) ==
  LET Written(f) == /\ session[s].report[f] # Empty
                    /\ session[s].copy # Absent => session[s].report[f] # session[s].copy[f]
  IN [f \in Fields |-> IF Written(f) THEN session[s].report[f] ELSE Known[f]]

\* A report with every field, over a session that knows the row as it is.
Replaces(s) ==
  session[s].copy = row /\ \A f \in Fields : session[s].report[f] # Empty

\* INSERT or UPDATE, as the copy has it, and COMMIT; after it nothing more comes
\* over an earlier connection. Where there is a row against the copy's word, or
\* none, the exception ends the connection.
Store(s) ==
  /\ session[s].report # Absent /\ session[s].memo = "read"
  /\ IF (session[s].copy = Absent) = (row = Absent)
     THEN /\ row' = Stored(s)
          /\ Becomes(s, IF s = "old" THEN Fresh ELSE [Fresh EXCEPT !.memo = "stored"])
          /\ pieced' = (~Replaces(s) /\ (pieced \/ row' # row))
     ELSE Becomes(s, Fresh) /\ UNCHANGED <<row, pieced>>
  /\ UNCHANGED <<world, agent, left>>

\* session.refresh, which raises when the row is gone.
Refresh(s) ==
  /\ session[s].memo = "stored"
  /\ Becomes(s, IF row = Absent THEN Fresh
                ELSE [session[s] EXCEPT !.memo = "read", !.copy = row])
  /\ UNCHANGED <<world, agent, row, left, pieced>>

\* The connection or a statement fails, and what was not committed is lost.
Lose(s) ==
  /\ session[s] # Fresh /\ Upset
  /\ Becomes(s, Fresh)
  /\ UNCHANGED <<world, agent, row, pieced>>

\* DELETE of the machine.
Remove ==
  /\ Upset
  /\ row' = Absent /\ pieced' = FALSE
  /\ UNCHANGED <<world, agent, session>>

-----------------------------------------------------------------------------
(* External *)

\* The machine gets another address, which may be in another country.
Move ==
  /\ Upset
  /\ place' \in Places \ {place}
  /\ UNCHANGED <<disabled, agent, session, row, pieced>>

-----------------------------------------------------------------------------

Lookup == LookupFails \/ \E F \in SUBSET Fields : Answer(F)
Serve(s) == Load(s) \/ Store(s) \/ Refresh(s)

Next ==
  \/ Wake \/ Lookup \/ Report \/ Reconnect \/ Restart
  \/ Remove \/ Move
  \/ \E s \in Sessions : Serve(s) \/ Lose(s)

Spec == Init /\ [][Next]_vars

\* The task sleeps and looks up by turns, the agent reports, the server's two
\* coroutines go on.
Fairness ==
  /\ WF_vars(Wake) /\ WF_vars(Lookup) /\ WF_vars(Report)
  /\ \A s \in Sessions : WF_vars(Serve(s))

FairSpec == Spec /\ Fairness

-----------------------------------------------------------------------------
(* Properties *)

\* The address and the country of a row are from one lookup, in whatever order
\* lookups, moves, reports of two connections, restarts and a DELETE come, with
\* two exceptions. A report that left a field empty keeps that of the row, and
\* an UPDATE over a session whose copy has fallen behind the row carries only
\* what differs from the copy: either may put the address of one place beside
\* the country of another. The next report that says everything, over a copy
\* that is current, sets the row right.
OneLookup == pieced \/ row = Absent \/ \E p \in Places : row = Told(p)

\* Once the machine stays where it is and nothing fails, the row tells where
\* that is, whatever was stored before, and goes on to: every report is followed
\* by a refresh, so what another connection wrote over it is written again.
AddressArrives == left = 0 /\ ~disabled ~> [](row = Told(place))
=============================================================================
