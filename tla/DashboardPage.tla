---------------------------- MODULE DashboardPage ----------------------------
(***************************************************************************)
(* A page that shows the machines live (pages/machines and pages/admin/    *)
(* hosts): its initial fetch, its subscription with reconnects              *)
(* (services/mon.ts) and what it makes of snapshots and updates.            *)
(*                                                                         *)
(* The server is external: it changes its table, has messages on their way  *)
(* that may be out of date, and can be out of reach.  Broadcaster.tla is     *)
(* the model of that side.                                                  *)
(***************************************************************************)
EXTENDS Naturals, Sequences, FiniteSets

CONSTANTS
  Machines,     \* agent ids
  None,         \* an answer that has not come
  MaxChanges,   \* bound: changes of the server's table in a behaviour
  MaxFlight,    \* bound: messages the server has built and not sent
  MaxWire       \* bound: messages on the wire

ASSUME ConstantsAssumption ==
  /\ MaxChanges \in Nat \ {0}
  /\ MaxFlight \in Nat \ {0} /\ MaxWire \in Nat \ {0}

\* For each machine the number of the change that made it so, 0 for none; 1 for
\* those the server knows at first.
Picture == [Machines -> 0..MaxChanges]
Blank == [m \in Machines |-> 0]
Known(p) == {m \in Machines : p[m] # 0}
Total == 0..Cardinality(Machines)

Message ==
  [type : {"snapshot"}, agents : Picture]
    \cup [type : {"agent"}, id : Machines, data : 1..MaxChanges]

VARIABLES
  table,     \* the agents table of the server
  changes,   \* changes made so far
  up,        \* whether the server can be reached and keeps its connections
  outbox,    \* messages the server has built and not yet sent
  wire,      \* messages sent and not yet received
  page,      \* "open", or "left": unmounted
  list,      \* the answer to fetchAgents, as it was when the server gave it
  sum,       \* the answer to fetchSummary, its total
  fetched,   \* the initial fetch is over
  ws,        \* the websocket of the subscription
  timer,     \* a reconnect is scheduled
  retry,     \* closes since the last open, up to 6
  delay,     \* seconds the scheduled reconnect waits for, 0 without one
  agents,    \* the machines the page shows
  total      \* the number it shows above them

server == <<table, changes, up, outbox>>
sub == <<ws, timer, retry, delay>>
fetch == <<list, sum, fetched>>
view == <<agents, total>>
vars == <<server, wire, page, fetch, sub, view>>

TypeOK ==
  /\ table \in Picture /\ changes \in 0..MaxChanges /\ up \in BOOLEAN
  /\ outbox \subseteq Message
  /\ wire \in Seq(Message)
  /\ page \in {"open", "left"}
  /\ list \in Picture \cup {None} /\ sum \in Total \cup {None}
  /\ fetched \in BOOLEAN
  /\ ws \in {"none", "connecting", "open", "closing"}
  /\ timer \in BOOLEAN
  /\ retry \in 0..6
  /\ delay \in {0, 2, 4, 8, 16, 30}
  /\ agents \in Picture /\ total \in Total

Init ==
  /\ table \in [Machines -> {0, 1}] /\ changes = 1 /\ up \in BOOLEAN
  /\ outbox = {} /\ wire = <<>>
  /\ page = "left"
  /\ list = None /\ sum = None /\ fetched = TRUE
  /\ ws = "none" /\ timer = FALSE /\ retry = 0 /\ delay = 0
  /\ agents = Blank /\ total = 0

-----------------------------------------------------------------------------
(* The server *)

Room == Cardinality(outbox) < MaxFlight

Change(m, v) ==
  /\ changes < MaxChanges
  /\ changes' = changes + 1
  /\ table' = [table EXCEPT ![m] = v]

\* A report or an offline mark, whose message is sent some time later.
Update(m) ==
  /\ Room
  /\ Change(m, changes + 1)
  /\ outbox' = outbox \cup {[type |-> "agent", id |-> m, data |-> changes + 1]}
  /\ UNCHANGED <<up, wire, page, fetch, sub, view>>

\* A DELETE; it is told by the next snapshot.
Remove(m) ==
  /\ table[m] # 0
  /\ Change(m, 0)
  /\ UNCHANGED <<up, outbox, wire, page, fetch, sub, view>>

\* The snapshot of a new connection, of a DELETE or of the periodic loop.
Build ==
  /\ Room /\ ws = "open"
  /\ outbox' = outbox \cup {[type |-> "snapshot", agents |-> table]}
  /\ UNCHANGED <<table, changes, up, wire, page, fetch, sub, view>>

Emit(msg) ==
  /\ msg \in outbox
  /\ Len(wire) < MaxWire
  /\ outbox' = outbox \ {msg}
  /\ wire' = IF ws = "open" THEN Append(wire, msg) ELSE wire
  /\ UNCHANGED <<table, changes, up, page, fetch, sub, view>>

Reach ==
  /\ up' = ~up
  /\ UNCHANGED <<table, changes, outbox, wire, page, fetch, sub, view>>

-----------------------------------------------------------------------------
(* The page's effect: fetch and subscribe, and its cleanup *)

Mount ==
  /\ page = "left" /\ ws = "none"
  /\ page' = "open"
  /\ list' = None /\ sum' = None /\ fetched' = FALSE
  /\ ws' = "connecting" /\ timer' = FALSE /\ retry' = 0 /\ delay' = 0
  /\ UNCHANGED <<server, wire, view>>

\* "cancelled", and close() of the subscription; the component's state goes.
Unmount ==
  /\ page = "open"
  /\ page' = "left"
  /\ timer' = FALSE /\ delay' = 0
  /\ ws' = IF ws = "none" THEN "none" ELSE "closing"
  /\ wire' = <<>>
  /\ agents' = Blank /\ total' = 0
  /\ UNCHANGED <<server, fetch, retry>>

\* The server answers the two requests each at its time.
ListAnswered ==
  /\ ~fetched /\ list = None /\ up
  /\ list' = table
  /\ UNCHANGED <<server, wire, page, sum, fetched, sub, view>>

SumAnswered ==
  /\ ~fetched /\ sum = None /\ up
  /\ sum' = Cardinality(Known(table))
  /\ UNCHANGED <<server, wire, page, list, fetched, sub, view>>

\* Promise.all: both answers have arrived, whatever the page has been told in
\* the meantime, or one of the requests has failed.
Fetched ==
  /\ ~fetched /\ fetched' = TRUE
  /\ \/ /\ list # None /\ sum # None /\ page = "open"
        /\ agents' = list /\ total' = sum
     \/ /\ page = "left" \/ list = None \/ sum = None
        /\ UNCHANGED view
  /\ list' = None /\ sum' = None
  /\ UNCHANGED <<server, wire, page, sub>>

-----------------------------------------------------------------------------
(* subscribeDashboard *)

Seconds(n) == IF n > 4 THEN 30 ELSE 2 ^ n

OnOpen ==
  /\ ws = "connecting" /\ up
  /\ ws' = "open"
  /\ retry' = 0
  /\ UNCHANGED <<server, wire, page, fetch, timer, delay, view>>

\* Variant: onclose does not ask whether the subscription was closed.
OnClose_Again ==
  /\ ws # "none" /\ (ws = "closing" \/ ~up)
  /\ ws' = "none" /\ wire' = <<>>
  /\ retry' = IF retry < 6 THEN retry + 1 ELSE 6
  /\ delay' = Seconds(retry')
  /\ timer' = TRUE
  /\ UNCHANGED <<server, page, fetch, view>>

\* Variant: only a connection that was open is replaced.
OnClose_OnceOpen ==
  /\ ws # "none" /\ (ws = "closing" \/ ~up)
  /\ ws' = "none" /\ wire' = <<>>
  /\ \/ page = "left" /\ UNCHANGED <<timer, retry, delay>>
     \/ /\ page = "open"
        /\ retry' = IF retry < 6 THEN retry + 1 ELSE 6
        /\ delay' = Seconds(retry')
        /\ timer' = (ws = "open")
  /\ UNCHANGED <<server, page, fetch, view>>

\* The attempt fails, the connection breaks, or close() has taken effect.
OnClose ==
  /\ ws # "none" /\ (ws = "closing" \/ ~up)
  /\ ws' = "none" /\ wire' = <<>>
  /\ \/ page = "left" /\ UNCHANGED <<timer, retry, delay>>
     \/ /\ page = "open"
        /\ retry' = IF retry < 6 THEN retry + 1 ELSE 6
        /\ delay' = Seconds(retry')
        /\ timer' = TRUE
  /\ UNCHANGED <<server, page, fetch, view>>

\* The timer calls connect.
Reconnect ==
  /\ timer
  /\ timer' = FALSE /\ delay' = 0
  /\ ws' = IF page = "open" THEN "connecting" ELSE ws
  /\ UNCHANGED <<server, wire, page, fetch, retry, view>>

\* Variant: a snapshot is merged into what is shown.
Show_Merge(p) == [m \in Machines |-> IF p[m] # 0 THEN p[m] ELSE agents[m]]

\* A snapshot replaces what is shown unless it is empty.
Show(p) == IF p = Blank THEN agents ELSE p

OnMessage ==
  /\ ws = "open" /\ wire # <<>>
  /\ wire' = Tail(wire)
  /\ LET msg == Head(wire) IN
     \/ /\ msg.type = "snapshot"
        /\ total' = Cardinality(Known(msg.agents))
        /\ agents' = Show(msg.agents)
     \/ /\ msg.type = "agent"
        /\ agents' = [agents EXCEPT ![msg.id] = msg.data]
        /\ UNCHANGED total
  /\ UNCHANGED <<server, page, fetch, sub>>

-----------------------------------------------------------------------------

Browser == OnOpen \/ OnClose \/ Reconnect \/ OnMessage

Answers == ListAnswered \/ SumAnswered \/ Fetched

EmitSome == \E msg \in outbox : Emit(msg)

Next ==
  \/ \E m \in Machines : Update(m) \/ Remove(m)
  \/ Build \/ EmitSome \/ Reach
  \/ Mount \/ Unmount \/ Answers
  \/ Browser

Spec == Init /\ [][Next]_vars

\* The browser runs its callbacks and timers; requests are answered or fail;
\* the periodic loop builds snapshots and the server sends what it has built.
Fairness ==
  /\ WF_vars(Browser) /\ WF_vars(Answers)
  /\ SF_vars(Build) /\ SF_vars(EmitSome)

FairSpec == Spec /\ Fairness

-----------------------------------------------------------------------------
(* Properties *)

\* A page that was left has no reconnect scheduled and no websocket that is
\* or will be open, at whichever point of connecting, waiting or receiving it
\* was left.
NothingLeftBehind ==
  page = "left" => ~timer /\ ws \in {"none", "closing"}

\* A page that stays open while the server can be reached gets its live
\* connection, however often it failed before.
Reconnects == <>[](up /\ page = "open") => <>[](ws = "open")

\* A page that stays connected ends up with the number of machines and the
\* machines the server has, although the initial fetch, updates and snapshots
\* overtake each other.  The one exception is the code's: a server without machines
\* leaves the last ones on the page.
LiveView ==
  <>[](ws = "open") =>
    <>[](/\ total = Cardinality(Known(table))
         /\ table # Blank => agents = table)
=============================================================================
