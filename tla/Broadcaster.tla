----------------------------- MODULE Broadcaster -----------------------------
(***************************************************************************)
(* How a change of the agents table reaches the dashboards: the Broadcaster *)
(* (server/app/realtime.py) with its registry of websockets, its periodic   *)
(* snapshot and its stop, the coroutine behind each /ws/dashboard (ws.py),  *)
(* and the coroutines that change a machine and broadcast it (_persist,     *)
(* mark_agent_offline, delete_agent).                                       *)
(*                                                                         *)
(* The sections under _lock contain no await: each is one step.  A send     *)
(* writes the frame and then waits until the peer's buffer has room.        *)
(***************************************************************************)
EXTENDS Naturals, FiniteSets

CONSTANTS
  Machines,        \* agent ids
  Sockets,         \* dashboards connected at the same time
  Writers,         \* coroutines that change a machine and broadcast it
  Loop,            \* the task running _loop
  None,            \* no websocket is being sent to
  MaxChanges,      \* bound: changes of the agents table in a behaviour
  QueriesFail      \* whether build_snapshot can raise

ASSUME ConstantsAssumption ==
  /\ Loop \notin Writers
  /\ None \notin Sockets
  /\ MaxChanges \in Nat
  /\ QueriesFail \in BOOLEAN

Tasks == Writers \cup {Loop}

\* What a dashboard shows of a machine: the number of the change that made it
\* so, or 0 for no such machine.  A message says so for some machines; a
\* snapshot for all.
State == 0..MaxChanges
Picture == [Machines -> State]
Message == UNION {[S -> State] : S \in SUBSET Machines}

VARIABLES
  table,     \* the agents table
  changes,   \* changes made so far
  clients,   \* Broadcaster._clients
  hpc,       \* where the coroutine of a dashboard is
  sock,      \* its websocket as the server sees it
  held,      \* the snapshot the coroutine has built
  view,      \* what the dashboard shows once it has read what was written to it
  tpc,       \* where each task is
  subject,   \* the machine a writer has changed
  msg,       \* the message a task broadcasts
  todo,      \* targets it has not sent to
  cur,       \* the target it waits for
  dead,      \* targets whose send raised
  stop       \* "no", "asked" (stop called) or "done" (stop returned)

store == <<table, changes>>
handler == <<hpc, sock, held>>
task == <<tpc, subject, msg, todo, cur, dead>>
vars == <<store, clients, handler, view, task, stop>>

HandlerPc == {"free", "query", "snapshot", "drain", "read", "leave"}
TaskPc == {"idle", "row", "build", "targets", "send", "drain", "stopped"}

TypeOK ==
  /\ table \in Picture
  /\ changes \in 0..MaxChanges
  /\ clients \subseteq Sockets
  /\ hpc \in [Sockets -> HandlerPc]
  /\ sock \in [Sockets -> {"none", "open", "stalled", "closed"}]
  /\ held \in [Sockets -> Picture]
  /\ view \in [Sockets -> Picture]
  /\ tpc \in [Tasks -> TaskPc]
  /\ subject \in [Writers -> Machines]
  /\ msg \in [Tasks -> Message]
  /\ todo \in [Tasks -> SUBSET Sockets]
  /\ cur \in [Tasks -> Sockets \cup {None}]
  /\ dead \in [Tasks -> SUBSET Sockets]
  /\ stop \in {"no", "asked", "done"}

Blank == [m \in Machines |-> 0]

Init ==
  /\ table = Blank
  /\ changes = 0
  /\ clients = {}
  /\ hpc = [w \in Sockets |-> "free"]
  /\ sock = [w \in Sockets |-> "none"]
  /\ held = [w \in Sockets |-> Blank]
  /\ view = [w \in Sockets |-> Blank]
  /\ tpc = [t \in Tasks |-> "idle"]
  /\ subject \in [Writers -> Machines]
  /\ msg = [t \in Tasks |-> Blank]
  /\ todo = [t \in Tasks |-> {}]
  /\ cur = [t \in Tasks |-> None]
  /\ dead = [t \in Tasks |-> {}]
  /\ stop = "no"

-----------------------------------------------------------------------------
(* ws_dashboard *)

At(w, s) == hpc' = [hpc EXCEPT ![w] = s]

Open(w) == sock[w] \in {"open", "stalled"}

\* The dashboard shows what the frames written to it say, in their order.
Write(w, m) ==
  view' = [view EXCEPT ![w] =
    [x \in Machines |-> IF x \in DOMAIN m THEN m[x] ELSE @[x]]]

\* accept and connect.  A slot is reused when no task holds the old websocket.
Connect(w) ==
  /\ hpc[w] = "free" /\ stop = "no"
  /\ \A t \in Tasks : w \notin todo[t] \cup dead[t] \cup {cur[t]}
  /\ clients' = clients \cup {w}
  /\ sock' = [sock EXCEPT ![w] = "open"]
  /\ At(w, "query")
  /\ UNCHANGED <<store, held, view, task, stop>>

Query(w) ==
  /\ hpc[w] = "query"
  /\ \/ /\ held' = [held EXCEPT ![w] = table]
        /\ At(w, "snapshot")
     \/ QueriesFail /\ At(w, "leave") /\ UNCHANGED held
  /\ UNCHANGED <<store, clients, sock, view, task, stop>>

SendSnapshot(w) ==
  /\ hpc[w] = "snapshot"
  /\ held' = [held EXCEPT ![w] = Blank]
  /\ \/ Open(w) /\ Write(w, held[w]) /\ At(w, "drain")
     \/ ~Open(w) /\ At(w, "leave") /\ UNCHANGED view
  /\ UNCHANGED <<store, clients, sock, task, stop>>

SnapshotSent(w) ==
  /\ hpc[w] = "drain"
  /\ sock[w] # "stalled"
  /\ At(w, IF Open(w) THEN "read" ELSE "leave")
  /\ UNCHANGED <<store, clients, sock, held, view, task, stop>>

\* receive_text raises once the websocket is closed.
ReadEnds(w) ==
  /\ hpc[w] = "read" /\ sock[w] = "closed"
  /\ At(w, "leave")
  /\ UNCHANGED <<store, clients, sock, held, view, task, stop>>

\* The finally block, and the end of the coroutine closes the websocket.
Disconnect(w) ==
  /\ hpc[w] = "leave"
  /\ clients' = clients \ {w}
  /\ sock' = [sock EXCEPT ![w] = "none"]
  /\ view' = [view EXCEPT ![w] = Blank]
  /\ At(w, "free")
  /\ UNCHANGED <<store, held, task, stop>>

\* The browser: it stops reading, reads again, goes away, or is given up by
\* the keepalive.
Stall(w) ==
  /\ sock[w] = "open"
  /\ sock' = [sock EXCEPT ![w] = "stalled"]
  /\ UNCHANGED <<store, clients, hpc, held, view, task, stop>>

Resume(w) ==
  /\ sock[w] = "stalled"
  /\ sock' = [sock EXCEPT ![w] = "open"]
  /\ UNCHANGED <<store, clients, hpc, held, view, task, stop>>

Close(w) ==
  /\ Open(w)
  /\ sock' = [sock EXCEPT ![w] = "closed"]
  /\ UNCHANGED <<store, clients, hpc, held, view, task, stop>>

-----------------------------------------------------------------------------
(* Changes of the agents table *)

TaskAt(t, s) == tpc' = [tpc EXCEPT ![t] = s]

Change(m, v) ==
  /\ changes < MaxChanges
  /\ changes' = changes + 1
  /\ table' = [table EXCEPT ![m] = v]

\* The commit of a report or of an offline mark.
Update(t, m) ==
  /\ tpc[t] = "idle" /\ stop = "no"
  /\ Change(m, changes + 1)
  /\ subject' = [subject EXCEPT ![t] = m]
  /\ TaskAt(t, "row")
  /\ UNCHANGED <<clients, handler, view, msg, todo, cur, dead, stop>>

\* The commit of a DELETE.
Remove(t, m) ==
  /\ tpc[t] = "idle" /\ stop = "no" /\ table[m] # 0
  /\ Change(m, 0)
  /\ TaskAt(t, "build")
  /\ UNCHANGED <<clients, handler, view, subject, msg, todo, cur, dead, stop>>

\* A machine passes the offline threshold: nobody is told.
Age(m) ==
  /\ table[m] # 0
  /\ Change(m, changes + 1)
  /\ UNCHANGED <<clients, handler, view, task, stop>>

\* session.refresh: the message carries the row as it is by now.
ReadRow(t) ==
  /\ tpc[t] = "row"
  /\ \/ /\ table[subject[t]] # 0
        /\ msg' = [msg EXCEPT ![t] = [x \in {subject[t]} |-> table[x]]]
        /\ TaskAt(t, "targets")
     \/ table[subject[t]] = 0 /\ TaskAt(t, "idle") /\ UNCHANGED msg
  /\ UNCHANGED <<store, clients, handler, view, subject, todo, cur, dead, stop>>

-----------------------------------------------------------------------------
(* _loop, build_snapshot and broadcast *)

Tick ==
  /\ tpc[Loop] = "idle" /\ clients # {}
  /\ TaskAt(Loop, "build")
  /\ UNCHANGED <<store, clients, handler, view, subject, msg, todo, cur, dead, stop>>

\* Variant: the loop does not catch what build_snapshot raises.
Build_EndsLoop(t) ==
  /\ tpc[t] = "build"
  /\ \/ msg' = [msg EXCEPT ![t] = table] /\ TaskAt(t, "targets")
     \/ /\ QueriesFail
        /\ TaskAt(t, IF t = Loop THEN "stopped" ELSE "idle")
        /\ UNCHANGED msg
  /\ UNCHANGED <<store, clients, handler, view, subject, todo, cur, dead, stop>>

\* A query that fails ends a DELETE request; the loop logs it and sleeps again.
Build(t) ==
  /\ tpc[t] = "build"
  /\ \/ msg' = [msg EXCEPT ![t] = table] /\ TaskAt(t, "targets")
     \/ QueriesFail /\ TaskAt(t, "idle") /\ UNCHANGED msg
  /\ UNCHANGED <<store, clients, handler, view, subject, todo, cur, dead, stop>>

TakeTargets(t) ==
  /\ tpc[t] = "targets"
  /\ todo' = [todo EXCEPT ![t] = clients]
  /\ dead' = [dead EXCEPT ![t] = {}]
  /\ TaskAt(t, "send")
  /\ UNCHANGED <<store, clients, handler, view, subject, msg, cur, stop>>

\* Variant: broadcast does not catch what a send raises.
Send_NoCatch(t, w) ==
  /\ tpc[t] = "send" /\ w \in todo[t] /\ Open(w)
  /\ todo' = [todo EXCEPT ![t] = @ \ {w}]
  /\ Write(w, msg[t])
  /\ cur' = [cur EXCEPT ![t] = w]
  /\ TaskAt(t, "drain")
  /\ UNCHANGED <<store, clients, handler, subject, msg, dead, stop>>

Send(t, w) ==
  /\ tpc[t] = "send" /\ w \in todo[t]
  /\ todo' = [todo EXCEPT ![t] = @ \ {w}]
  /\ \/ /\ Open(w)
        /\ Write(w, msg[t])
        /\ cur' = [cur EXCEPT ![t] = w]
        /\ TaskAt(t, "drain")
        /\ UNCHANGED dead
     \/ /\ ~Open(w)
        /\ dead' = [dead EXCEPT ![t] = @ \cup {w}]
        /\ UNCHANGED <<view, cur, tpc>>
  /\ UNCHANGED <<store, clients, handler, subject, msg, stop>>

\* Variant: a send that takes too long counts as failed.
Sent_Timeout(t) ==
  /\ tpc[t] = "drain"
  /\ dead' = [dead EXCEPT ![t] = IF sock[cur[t]] = "open" THEN @ ELSE @ \cup {cur[t]}]
  /\ cur' = [cur EXCEPT ![t] = None]
  /\ TaskAt(t, "send")
  /\ UNCHANGED <<store, clients, handler, view, subject, msg, todo, stop>>

Sent(t) ==
  /\ tpc[t] = "drain"
  /\ sock[cur[t]] # "stalled"
  /\ dead' = [dead EXCEPT ![t] = IF Open(cur[t]) THEN @ ELSE @ \cup {cur[t]}]
  /\ cur' = [cur EXCEPT ![t] = None]
  /\ TaskAt(t, "send")
  /\ UNCHANGED <<store, clients, handler, view, subject, msg, todo, stop>>

DropDead(t) ==
  /\ tpc[t] = "send" /\ todo[t] = {}
  /\ clients' = clients \ dead[t]
  /\ dead' = [dead EXCEPT ![t] = {}]
  /\ msg' = [msg EXCEPT ![t] = Blank]
  /\ TaskAt(t, "idle")
  /\ UNCHANGED <<store, handler, view, subject, todo, cur, stop>>

-----------------------------------------------------------------------------
(* Shutdown: uvicorn has ended the connections before the lifespan ends *)

Stop ==
  /\ stop = "no"
  /\ \A w \in Sockets : hpc[w] = "free"
  /\ \A t \in Writers : tpc[t] = "idle"
  /\ stop' = "asked"
  /\ UNCHANGED <<store, clients, handler, view, task>>

\* Variant: the loop catches the cancellation like any other exception.
Cancelled_Caught ==
  /\ stop = "asked" /\ tpc[Loop] # "stopped"
  /\ TaskAt(Loop, "idle")
  /\ msg' = [msg EXCEPT ![Loop] = Blank]
  /\ todo' = [todo EXCEPT ![Loop] = {}]
  /\ cur' = [cur EXCEPT ![Loop] = None]
  /\ dead' = [dead EXCEPT ![Loop] = {}]
  /\ UNCHANGED <<store, clients, handler, view, subject, stop>>

\* CancelledError is no Exception: it leaves broadcast and ends the loop at
\* whichever await it meets.
Cancelled ==
  /\ stop = "asked" /\ tpc[Loop] # "stopped"
  /\ TaskAt(Loop, "stopped")
  /\ msg' = [msg EXCEPT ![Loop] = Blank]
  /\ todo' = [todo EXCEPT ![Loop] = {}]
  /\ cur' = [cur EXCEPT ![Loop] = None]
  /\ dead' = [dead EXCEPT ![Loop] = {}]
  /\ UNCHANGED <<store, clients, handler, view, subject, stop>>

Stopped ==
  /\ stop = "asked" /\ tpc[Loop] = "stopped"
  /\ stop' = "done"
  /\ UNCHANGED <<store, clients, handler, view, task>>

-----------------------------------------------------------------------------

Handle(w) ==
  Query(w) \/ SendSnapshot(w) \/ ReadEnds(w) \/ Disconnect(w)

Browser(w) == Connect(w) \/ Stall(w) \/ Resume(w) \/ Close(w)

Progress(t) ==
  \/ t \in Writers /\ ReadRow(t)
  \/ Build(t) \/ TakeTargets(t) \/ DropDead(t)
  \/ \E w \in Sockets : Send(t, w)

Next ==
  \/ \E w \in Sockets : Browser(w) \/ Handle(w) \/ SnapshotSent(w)
  \/ \E t \in Writers, m \in Machines : Update(t, m) \/ Remove(t, m)
  \/ \E t \in Tasks : Progress(t) \/ Sent(t)
  \/ \E m \in Machines : Age(m)
  \/ Tick \/ Stop \/ Cancelled \/ Stopped

Spec == Init /\ [][Next]_vars

\* Every coroutine that can run does; one that waits for room in a buffer is
\* woken when there is some; the keepalive gives up a peer that stays silent;
\* the periodic query succeeds now and then.
Fairness ==
  /\ \A w \in Sockets : /\ WF_vars(Handle(w)) /\ SF_vars(SnapshotSent(w))
                        /\ WF_vars(sock[w] = "stalled" /\ (Close(w) \/ Resume(w)))
  /\ \A t \in Tasks : WF_vars(Progress(t)) /\ SF_vars(Sent(t))
  /\ SF_vars(tpc[Loop] = "build" /\ Build(Loop) /\ tpc'[Loop] = "targets")
  /\ WF_vars(Tick) /\ WF_vars(Cancelled) /\ WF_vars(Stopped)

FairSpec == Spec /\ Fairness

-----------------------------------------------------------------------------
(* Properties *)

\* No websocket outlives its coroutine in the registry, and a send that
\* failed only ever removes a websocket that is closed: an open dashboard
\* stays subscribed until it leaves.
RegistryIsExact ==
  /\ \A w \in clients : hpc[w] # "free"
  /\ \A w \in Sockets : Open(w) /\ hpc[w] # "leave" => w \in clients

\* The inductive invariant: what a task holds as dead is closed, and a
\* websocket is there exactly as long as its coroutine.
DeadAreClosed ==
  /\ \A t \in Tasks : \A w \in dead[t] : ~Open(w)
  /\ \A w \in Sockets : hpc[w] = "free" => sock[w] = "none"
  /\ \A t \in Tasks : tpc[t] = "drain" => cur[t] \in Sockets

IInv == TypeOK /\ RegistryIsExact /\ DeadAreClosed

\* A dashboard that stays connected ends up showing the agents table, although
\* a snapshot can be overtaken by newer updates, an update by a removal, and
\* the offline threshold passes without a message.
Converges ==
  \A w \in Sockets : <>[](hpc[w] = "read" /\ Open(w)) => <>[](view[w] = table)

\* A broadcast comes to its end in spite of dashboards that stop reading or
\* vanish while it is under way.
BroadcastEnds ==
  \A t \in Tasks : (tpc[t] \in {"send", "drain"}) ~> (tpc[t] \in {"idle", "stopped"})

\* stop returns whatever the loop was doing.
StopReturns == (stop = "asked") ~> (stop = "done")
=============================================================================
