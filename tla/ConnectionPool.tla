---------------------------- MODULE ConnectionPool ----------------------------
(***************************************************************************)
(* Who holds the database connections of the server. An ingest handler      *)
(* commits a report and then reads the machine's row back: the transaction  *)
(* this begins keeps a connection until the next report, so that machines   *)
(* hold connections while nothing happens. Snapshots, requests of the        *)
(* console and the offline notice of a lost machine need one more each.      *)
(***************************************************************************)
EXTENDS Naturals, FiniteSets

CONSTANTS
  Ingests,    \* connections on which machines can report
  Jobs,       \* the snapshot loop, requests of the console
  Capacity    \* pool_size + max_overflow, 10 + 20

Users == Ingests \cup Jobs

VARIABLES
  at,      \* where each handler or job is
  known,   \* ingest handlers with a last_agent_id
  free     \* connections nobody has

vars == <<at, known, free>>

\* "ask" and "work" are a session's first use and what it does with the
\* connection, "again" and "hold" the same for the refresh after the commit,
\* "notice", "mark", "reread" and "told" for the offline notice, in a session of
\* its own, whose commit is followed by a refresh as well.
Waiting == {"ask", "again", "notice", "reread"}
Having == {"work", "hold", "mark", "told"}

Granted(w) == CASE w = "ask" -> "work" [] w = "again" -> "hold"
                [] w = "notice" -> "mark" [] w = "reread" -> "told"

Init == at = [u \in Users |-> "off"] /\ known = {} /\ free = Capacity

\* A checkout: at once if a connection is free, after a wait if not.
Ask(u, w) ==
  \/ free > 0 /\ free' = free - 1 /\ at' = [at EXCEPT ![u] = Granted(w)]
  \/ free = 0 /\ UNCHANGED free /\ at' = [at EXCEPT ![u] = w]

\* A checkin. It wakes one that waits, whom another's checkout may overtake.
Return(u, rest) == at' = [at EXCEPT ![u] = rest] /\ free' = free + 1

\* A checkin and a checkout of the same task: as a rule nobody comes between.
Swap(u, w) ==
  \/ at' = [at EXCEPT ![u] = Granted(w)] /\ UNCHANGED free
  \/ (\E v \in Users : at[v] \in Waiting) /\ Return(u, w)

Take(u) ==
  /\ at[u] \in Waiting /\ free > 0
  /\ at' = [at EXCEPT ![u] = Granted(@)] /\ free' = free - 1
  /\ UNCHANGED known

-----------------------------------------------------------------------------

\* The first report of a connection opens the transaction; the next ones are
\* read in the one the last refresh began.
Report(i) ==
  /\ \/ at[i] = "off" /\ i \in Ingests /\ Ask(i, "ask")
        /\ UNCHANGED known
     \/ at[i] = "hold" /\ at' = [at EXCEPT ![i] = "work"] /\ UNCHANGED free
        /\ known' = known \cup {i}

\* commit and refresh
Commit(i) ==
  /\ at[i] = "work" /\ i \in Ingests
  /\ Swap(i, "again")
  /\ UNCHANGED known

\* The acknowledgement and the message to the dashboards need no connection.

\* Variant: the handler's session is left open.
Disconnect_Leaks(i) ==
  /\ at[i] \in {"work", "hold"} /\ i \in Ingests
  /\ IF at[i] = "hold" \/ i \in known THEN Ask(i, "notice")
     ELSE at' = [at EXCEPT ![i] = "off"] /\ UNCHANGED free
  /\ UNCHANGED known

\* The machine is gone, also without a word (keepalive), or a step fails: the
\* session is closed first, then the notice asks for one of its own.
Disconnect(i) ==
  /\ at[i] \in {"work", "hold"} /\ i \in Ingests
  /\ IF at[i] = "hold" \/ i \in known THEN Swap(i, "notice") ELSE Return(i, "off")
  /\ UNCHANGED known

Mark(i) == at[i] = "mark" /\ Swap(i, "reread") /\ UNCHANGED known

Notice(i) ==
  /\ at[i] = "told" /\ Return(i, "off")
  /\ known' = known \ {i}

Start(j) == at[j] = "off" /\ j \in Jobs /\ Ask(j, "ask") /\ UNCHANGED known

Finish(j) == at[j] = "work" /\ j \in Jobs /\ Return(j, "off") /\ UNCHANGED known

\* pool_timeout: an ingest handler's session ends with it, and the handler
\* still has its notice to send if an earlier report was stored.
TimesOut(u) ==
  /\ at[u] \in Waiting
  /\ IF u \in known /\ at[u] \notin {"notice", "reread"}
     THEN (at[u] = "again" /\ Ask(u, "notice")) /\ UNCHANGED known
     ELSE at' = [at EXCEPT ![u] = "off"] /\ known' = known \ {u} /\ UNCHANGED free

Next ==
  \/ \E i \in Ingests : Report(i) \/ Commit(i) \/ Disconnect(i) \/ Mark(i) \/ Notice(i)
  \/ \E j \in Jobs : Start(j) \/ Finish(j)
  \/ \E u \in Users : Take(u) \/ TimesOut(u)

\* A machine with a connection reports again or is found to be gone, and one
\* that waits is not overtaken for ever. Nothing is assumed of timeouts.
Fairness ==
  /\ \A u \in Users : SF_vars(Take(u))
  /\ \A i \in Ingests :
       /\ WF_vars(at[i] = "hold" /\ (Report(i) \/ Disconnect(i)))
       /\ WF_vars(Commit(i) \/ (at[i] = "work" /\ Disconnect(i))) /\ WF_vars(Mark(i) \/ Notice(i))
  /\ \A j \in Jobs : WF_vars(Finish(j))

Spec == Init /\ [][Next]_vars /\ Fairness

-----------------------------------------------------------------------------
(* Properties *)

Has(u) == at[u] \in Having

TypeOK ==
  /\ at \in [Users -> {"off"} \cup Waiting \cup Having]
  /\ known \subseteq Ingests /\ free \in 0..Capacity

\* No connection is lost or given twice, however handlers end.
Conserved == free + Cardinality({u \in Users : Has(u)}) = Capacity

\* With more connections than machines, what waits for a connection gets it
\* although every machine keeps one between its reports. (With as many machines
\* as connections nothing else need ever get one: each takes back its own.)
WaitingEnds ==
  Cardinality(Ingests) < Capacity
    => \A u \in Users : at[u] \in Waiting ~> at[u] \notin Waiting
=============================================================================
