----------------------------- MODULE MCProcesses -----------------------------
(***************************************************************************)
(* What runs without anybody looking: the server coming up, who has its     *)
(* database connections, its broadcasts, the agent and the address it finds. *)
(* The modules share no state; each is checked from its own initial states   *)
(* by its own next-state relation under its own fairness, one of them in a   *)
(* behaviour.                                                                *)
(***************************************************************************)
EXTENDS Naturals, FiniteSets, ReleaseDatabases

CONSTANTS
  None,
  Timescale, Origins, Launches, MaxCrashes,  \* Startup
  MaxLate,                                   \* AgentReporter
  Machine, Sockets, Loop,    \* Broadcaster; nothing changes the machine
  Ingests, Jobs, Capacity,   \* ConnectionPool
  Fields, Places, Country, MaxUpsets  \* AddressCache

\* Every address in a country of its own.
OwnCountry == [p \in Places |-> p]

VARIABLES
  focus,  \* the module under study
  schema, txn, aborted, startPc, launch, timescale, origin, crashes,
  agentPc, geo, agentStop, link, owed, unread, backoff, retries, timeouts,
  trouble,
  table, changes, clients, hpc, sock, held, view, tpc, subject, msg, todo,
  cur, dead, castStop,
  at, known, free,
  place, task, asked, disabled, cache, session, row, left, pieced

U == INSTANCE Startup WITH
  pc <- startPc
A == INSTANCE AgentReporter WITH
  pc <- agentPc, stop <- agentStop
B == INSTANCE Broadcaster WITH
  Machines <- {Machine}, Writers <- {}, MaxChanges <- 0, QueriesFail <- TRUE,
  stop <- castStop
P == INSTANCE ConnectionPool
G == INSTANCE AddressCache WITH
  Empty <- None

\* What the databases a release finds have in common: a recorded revision has
\* been applied, after the one before it and to the tables it alters.
OriginsAreWhole ==
  \A db \in Origins :
    /\ "rev1" \in db => {"agents", "metrics", "prefs", "netCols"} \subseteq db
    /\ "rev2" \in db => {"rev1", "hidden"} \subseteq db

ASSUME ProcessesAssumption ==
  /\ U!ConstantsAssumption /\ OriginsAreWhole
  /\ MaxLate \in Nat \ {0}
  /\ None \notin Sockets \cup Places /\ (\A p \in Places : Country[p] # None)
  /\ MaxUpsets \in Nat
  /\ IsFiniteSet(Ingests \cup Jobs) /\ Capacity \in Nat

Uvars == <<schema, txn, aborted, startPc, launch, timescale, origin, crashes>>
Avars == <<agentPc, geo, agentStop, link, owed, unread, backoff, retries,
           timeouts, trouble>>
Bvars == <<table, changes, clients, hpc, sock, held, view, tpc, subject, msg,
           todo, cur, dead, castStop>>
Pvars == <<at, known, free>>
Gvars == <<place, task, asked, disabled, cache, session, row, left, pieced>>
vars == <<focus, Uvars, Avars, Bvars, Pvars, Gvars>>

-----------------------------------------------------------------------------

Init ==
  /\ focus \in {"startup", "agent", "broadcast", "pool", "address"}
  /\ U!Init /\ (focus # "startup" => timescale /\ origin = {} /\ launch = "dev")
  /\ A!Init /\ (focus # "agent" => ~trouble)
  /\ B!Init
  /\ P!Init
  /\ G!Init /\ (focus # "address" => disabled /\ left = 0 /\ place = CHOOSE p \in Places : TRUE)

Next ==
  /\ UNCHANGED focus
  /\ \/ /\ focus = "startup" /\ U!Next
        /\ UNCHANGED <<Avars, Bvars, Pvars, Gvars>>
     \/ /\ focus = "agent" /\ A!Next
        /\ UNCHANGED <<Uvars, Bvars, Pvars, Gvars>>
     \/ /\ focus = "broadcast" /\ B!Next
        /\ UNCHANGED <<Uvars, Avars, Pvars, Gvars>>
     \/ /\ focus = "pool" /\ P!Next
        /\ UNCHANGED <<Uvars, Avars, Bvars, Gvars>>
     \/ /\ focus = "address" /\ G!Next
        /\ UNCHANGED <<Uvars, Avars, Bvars, Pvars>>

\* The fairness each module states, for the one under study.
Fairness ==
  /\ WF_Uvars(focus = "startup" /\ U!Step)
  /\ WF_Avars(focus = "agent" /\ A!Main) /\ WF_Avars(focus = "agent" /\ A!Geo)
  /\ WF_Avars(focus = "agent" /\ A!Keepalive) /\ WF_Avars(focus = "agent" /\ A!Answer)
  /\ \A w \in Sockets :
       /\ WF_Bvars(focus = "broadcast" /\ B!Handle(w))
       /\ SF_Bvars(focus = "broadcast" /\ B!SnapshotSent(w))
       /\ WF_Bvars(focus = "broadcast" /\ sock[w] = "stalled" /\ (B!Close(w) \/ B!Resume(w)))
  /\ WF_Bvars(focus = "broadcast" /\ B!Progress(Loop))
  /\ SF_Bvars(focus = "broadcast" /\ B!Sent(Loop))
  /\ SF_Bvars(focus = "broadcast" /\ tpc[Loop] = "build" /\ B!Build(Loop) /\ tpc'[Loop] = "targets")
  /\ WF_Bvars(focus = "broadcast" /\ B!Tick)
  /\ WF_Bvars(focus = "broadcast" /\ B!Cancelled) /\ WF_Bvars(focus = "broadcast" /\ B!Stopped)
  /\ \A u \in Ingests \cup Jobs : SF_Pvars(focus = "pool" /\ P!Take(u))
  /\ \A i \in Ingests :
       /\ WF_Pvars(focus = "pool" /\ at[i] = "hold" /\ (P!Report(i) \/ P!Disconnect(i)))
       /\ WF_Pvars(focus = "pool" /\ (P!Commit(i) \/ (at[i] = "work" /\ P!Disconnect(i))))
       /\ WF_Pvars(focus = "pool" /\ (P!Mark(i) \/ P!Notice(i)))
  /\ \A j \in Jobs : WF_Pvars(focus = "pool" /\ P!Finish(j))
  /\ WF_Gvars(focus = "address" /\ G!Wake) /\ WF_Gvars(focus = "address" /\ G!Lookup)
  /\ WF_Gvars(focus = "address" /\ G!Report)
  /\ \A s \in G!Sessions : WF_Gvars(focus = "address" /\ G!Serve(s))

Spec == Init /\ [][Next]_vars /\ Fairness

-----------------------------------------------------------------------------
\* Every variable of the modules keeps its type.
TypeOK == U!TypeOK /\ A!TypeOK /\ B!TypeOK /\ P!TypeOK /\ P!Conserved /\ G!TypeOK

(* Startup *)

\* A server the image started has what models.py declares, after any starts.
ServesDeclaredSchema == U!ServesDeclaredSchema

\* What a start commits is whole, wherever the process is killed.
NoHalfSchema == U!NoHalfSchema


\* A database that has served before is served again.
OldDatabaseIsServed == focus = "startup" => U!OldDatabaseIsServed

(* The agent *)

\* The agent is behind the server's answers by the reports it has given up on.
BehindByTimeouts == A!BehindByTimeouts

\* Once server, network and psutil work again the agent delivers reports, unless
\* psutil has failed before its loops began; and the row of a machine tells where
\* it is.
KeepsReporting ==
  /\ focus = "agent" => A!KeepsReporting
  /\ focus = "address" => G!AddressArrives

(* Waiting *)

\* Whoever waits gets on: for the agent to end on a signal wherever it waits
\* itself, for stop of the broadcaster, for a broadcast to dashboards that stop
\* reading or vanish, and, with fewer machines than database connections, for one
\* of those.
WaitingEnds == A!StopEnds /\ B!StopReturns /\ B!BroadcastEnds /\ P!WaitingEnds
=============================================================================
