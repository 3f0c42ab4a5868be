----------------------------- MODULE IngestStore -----------------------------
(***************************************************************************)
(* The ingest side of the management server and the two tables it writes:  *)
(* the coroutine behind /ws/ingest (server/app/api/ws.py), the SQLAlchemy  *)
(* session each connection keeps for its whole life, mark_agent_offline    *)
(* (services.py), DELETE /agents/{id} (api/dashboard.py), the clock that   *)
(* ages last_seen, and PostgreSQL at READ COMMITTED.                       *)
(*                                                                         *)
(* Every await of a handler is a place where the other handlers run, so a  *)
(* handler is a program counter and each action is the code between two    *)
(* awaits.  A transaction becomes visible at its commit; between its first *)
(* write to an agents row and its end it holds that row's lock.            *)
(***************************************************************************)
EXTENDS Naturals, Sequences, FiniteSets

CONSTANTS
  Agents,          \* machine ids (agents.agent_id)
  Conns,           \* coroutines serving /ws/ingest at the same time
  Deleters,        \* DELETE requests in progress at the same time
  Cols,            \* metric columns the agents row shares with a metrics row
  Vals,            \* values of such a column
  Ips,             \* non-empty values of public_ip
  NoIp,            \* the empty string, sent while the address is unknown
  None,            \* no row, no lock holder, no object, no machine
  Invalid,         \* a payload that MetricIn.model_validate rejects
  MaxReports,      \* bound: valid reports sent in a behaviour
  MaxInbox,        \* bound: frames a connection buffers
  FaultsPossible   \* whether statements fail and the server is killed

ASSUME ConstantsAssumption ==
  /\ MaxReports \in Nat
  /\ MaxInbox \in Nat
  /\ FaultsPossible \in BOOLEAN
  /\ NoIp \notin Ips
  /\ None \notin Agents \cup Conns \cup Deleters
  /\ Conns \cap Deleters = {}

Report == [n : 1..MaxReports, col : [Cols -> Vals], ip : Ips \cup {NoIp}]
Seen == {"recent", "past"}
Row == [col : [Cols -> Vals], ip : Ips \cup {NoIp}, seen : Seen]
Loaded == [col : [Cols -> Vals], ip : Ips \cup {NoIp}]

ASSUME SentinelAssumption ==
  /\ None \notin Row
  /\ None \notin Loaded
  /\ None \notin Report
  /\ Invalid \notin Report

VARIABLES
  row,       \* committed agents table: one row or None per machine
  metrics,   \* committed metrics table: the reports stored per machine
  lock,      \* transaction holding the lock of an agents row
  pc,        \* where each connection's coroutine is
  agent,     \* machine at the other end of a connection
  link,      \* the websocket as the server sees it
  inbox,     \* frames received and not yet read by the coroutine
  work,      \* the report being handled
  cached,    \* the Agent object in the session's identity map
  reported,  \* last_agent_id is set
  dpc,       \* where each DELETE request is
  target,    \* the machine a DELETE request removes
  swept,     \* metrics rows its DELETE statement saw
  sent,      \* number of valid reports sent
  acked,     \* history: reports answered "accepted"
  deleted,   \* history: reports removed by a committed DELETE
  fresh      \* history: connections that stored a report within the threshold

db == <<row, metrics, lock>>
conn == <<agent, link, inbox, work, cached, reported>>
del == <<dpc, target, swept>>
history == <<acked, deleted, fresh>>
vars == <<db, pc, conn, del, sent, history>>

ConnPc == {"free", "idle", "get", "flush", "commit", "refresh", "ack", "bcast",
           "offGet", "offFlush", "offCommit", "offRefresh", "offBcast"}
DelPc == {"free", "get", "sweep", "agent", "commit", "bcast",
          "ok", "notFound", "error"}

TypeOK ==
  /\ row \in [Agents -> Row \cup {None}]
  /\ metrics \in [Agents -> SUBSET Report]
  /\ lock \in [Agents -> Conns \cup Deleters \cup {None}]
  /\ pc \in [Conns -> ConnPc]
  /\ agent \in [Conns -> Agents \cup {None}]
  /\ link \in [Conns -> {"none", "open", "half", "closed"}]
  /\ inbox \in [Conns -> Seq(Report \cup {Invalid})]
  /\ work \in [Conns -> Report \cup {None}]
  /\ cached \in [Conns -> Loaded \cup {None}]
  /\ reported \in [Conns -> BOOLEAN]
  /\ dpc \in [Deleters -> DelPc]
  /\ target \in [Deleters -> Agents \cup {None}]
  /\ swept \in [Deleters -> SUBSET Report]
  /\ sent \in 0..MaxReports
  /\ acked \subseteq 1..MaxReports
  /\ deleted \subseteq 1..MaxReports
  /\ fresh \subseteq Conns

Init ==
  /\ row = [a \in Agents |-> None]
  /\ metrics = [a \in Agents |-> {}]
  /\ lock = [a \in Agents |-> None]
  /\ pc = [h \in Conns |-> "free"]
  /\ agent = [h \in Conns |-> None]
  /\ link = [h \in Conns |-> "none"]
  /\ inbox = [h \in Conns |-> <<>>]
  /\ work = [h \in Conns |-> None]
  /\ cached = [h \in Conns |-> None]
  /\ reported = [h \in Conns |-> FALSE]
  /\ dpc = [d \in Deleters |-> "free"]
  /\ target = [d \in Deleters |-> None]
  /\ swept = [d \in Deleters |-> {}]
  /\ sent = 0
  /\ acked = {}
  /\ deleted = {}
  /\ fresh = {}

-----------------------------------------------------------------------------
(* Helpers *)

Goto(h, s) == pc' = [pc EXCEPT ![h] = s]

\* The coroutine returns: its session and its websocket are gone.
Finish(h) ==
  /\ Goto(h, "free")
  /\ agent' = [agent EXCEPT ![h] = None]
  /\ link' = [link EXCEPT ![h] = "none"]
  /\ inbox' = [inbox EXCEPT ![h] = <<>>]
  /\ work' = [work EXCEPT ![h] = None]
  /\ cached' = [cached EXCEPT ![h] = None]
  /\ reported' = [reported EXCEPT ![h] = FALSE]
  /\ fresh' = fresh \ {h}

\* Variant: the finally block forgets the machine.
Leave_NoMark(h) == Finish(h)

\* An exception leaves the receive loop: the finally block marks the machine
\* offline if this connection ever stored a report.
Leave(h) ==
  \/ /\ reported[h]
     /\ Goto(h, "offGet")
     /\ work' = [work EXCEPT ![h] = None]
     /\ cached' = [cached EXCEPT ![h] = None]
     /\ fresh' = fresh \ {h}
     /\ UNCHANGED <<agent, link, inbox, reported>>
  \/ ~reported[h] /\ Finish(h)

Unlock(t) == lock' = [a \in Agents |-> IF lock[a] = t THEN None ELSE lock[a]]

\* Variant: an empty address is assigned like any other column.
Merge_AnyAddress(old, loaded, r) ==
  [col |-> [c \in Cols |-> IF r.col[c] # loaded.col[c] THEN r.col[c] ELSE old.col[c]],
   ip |-> IF r.ip # loaded.ip THEN r.ip ELSE old.ip,
   seen |-> "recent"]

\* The columns an UPDATE carries are those whose value differs from the one
\* the session loaded; an empty address is never assigned.
Merge(old, loaded, r) ==
  [col |-> [c \in Cols |-> IF r.col[c] # loaded.col[c] THEN r.col[c] ELSE old.col[c]],
   ip |-> IF r.ip # NoIp /\ r.ip # loaded.ip THEN r.ip ELSE old.ip,
   seen |-> "recent"]

Columns(r) == [col |-> r.col, ip |-> r.ip]

NewRow(r) == [col |-> r.col, ip |-> r.ip, seen |-> "recent"]

-----------------------------------------------------------------------------
(* The network and the machines: external to the server *)

\* A machine dials when it has given up its previous connection.
Open(h, a) ==
  /\ pc[h] = "free"
  /\ \A g \in Conns : agent[g] = a => link[g] # "open"
  /\ Goto(h, "idle")
  /\ agent' = [agent EXCEPT ![h] = a]
  /\ link' = [link EXCEPT ![h] = "open"]
  /\ UNCHANGED <<db, inbox, work, cached, reported, del, sent, history>>

Send(h) ==
  /\ link[h] = "open"
  /\ Len(inbox[h]) < MaxInbox
  /\ \/ /\ sent < MaxReports
        /\ sent' = sent + 1
        /\ \E v \in [Cols -> Vals], ip \in Ips \cup {NoIp} :
             inbox' = [inbox EXCEPT ![h] =
                         Append(@, [n |-> sent + 1, col |-> v, ip |-> ip])]
     \/ /\ sent' = sent
        /\ inbox' = [inbox EXCEPT ![h] = Append(@, Invalid)]
  /\ UNCHANGED <<db, pc, agent, link, work, cached, reported, del, history>>

\* The machine hangs up in order, or vanishes and the server does not know it
\* until its keepalive fails.
Hangup(h) ==
  /\ link[h] = "open"
  /\ link' = [link EXCEPT ![h] = "closed"]
  /\ UNCHANGED <<db, pc, agent, inbox, work, cached, reported, del, sent, history>>

Vanish(h) ==
  /\ link[h] = "open"
  /\ link' = [link EXCEPT ![h] = "half"]
  /\ UNCHANGED <<db, pc, agent, inbox, work, cached, reported, del, sent, history>>

Detect(h) ==
  /\ link[h] = "half"
  /\ link' = [link EXCEPT ![h] = "closed"]
  /\ UNCHANGED <<db, pc, agent, inbox, work, cached, reported, del, sent, history>>

-----------------------------------------------------------------------------
(* ws_ingest: one report, from receive_json to the end of broadcast *)

\* Frames that arrived before the close are still read; receive_json raises
\* WebSocketDisconnect once they are used up.
Disconnected(h) ==
  /\ pc[h] = "idle" /\ inbox[h] = <<>> /\ link[h] = "closed"
  /\ Leave(h)
  /\ UNCHANGED <<db, del, sent, acked, deleted>>

\* The error answer is sent, which raises when the peer is gone.
RejectInvalid(h) ==
  /\ pc[h] = "idle" /\ inbox[h] # <<>> /\ Head(inbox[h]) = Invalid
  /\ \/ link[h] = "closed" /\ Leave(h)
     \/ /\ link[h] # "closed"
        /\ inbox' = [inbox EXCEPT ![h] = Tail(@)]
        /\ UNCHANGED <<pc, agent, link, work, cached, reported, fresh>>
  /\ UNCHANGED <<db, del, sent, acked, deleted>>

\* Variant: the payload is not validated.
Receive_Unchecked(h) ==
  /\ pc[h] = "idle" /\ inbox[h] # <<>>
  /\ work' = [work EXCEPT ![h] = Head(inbox[h])]
  /\ inbox' = [inbox EXCEPT ![h] = Tail(@)]
  /\ Goto(h, "get")
  /\ UNCHANGED <<db, agent, link, cached, reported, del, sent, history>>

Receive(h) ==
  /\ pc[h] = "idle" /\ inbox[h] # <<>> /\ Head(inbox[h]) # Invalid
  /\ work' = [work EXCEPT ![h] = Head(inbox[h])]
  /\ inbox' = [inbox EXCEPT ![h] = Tail(@)]
  /\ Goto(h, "get")
  /\ UNCHANGED <<db, agent, link, cached, reported, del, sent, history>>

\* session.get: an object of the identity map is returned without a query.
Load(h) ==
  /\ pc[h] = "get"
  /\ cached' = [cached EXCEPT ![h] =
       IF @ = None /\ row[agent[h]] # None THEN Columns(row[agent[h]]) ELSE @]
  /\ Goto(h, "flush")
  /\ UNCHANGED <<db, agent, link, inbox, work, reported, del, sent, history>>

\* The agents statement of the flush: an UPDATE that must match a row
\* (StaleDataError) or an INSERT that must not (IntegrityError).  The metrics
\* INSERT follows in the same transaction.
Flush(h) ==
  /\ pc[h] = "flush" /\ lock[agent[h]] = None
  /\ LET matches == cached[h] = None <=> row[agent[h]] = None IN
     \/ /\ matches
        /\ lock' = [lock EXCEPT ![agent[h]] = h]
        /\ Goto(h, "commit")
        /\ UNCHANGED <<conn, fresh>>
     \/ /\ ~matches
        /\ Leave(h)
        /\ UNCHANGED lock
  /\ UNCHANGED <<row, metrics, del, sent, acked, deleted>>

\* What COMMIT makes visible: the merged or new row and the metrics row.
Stored(h) ==
  LET a == agent[h] IN
  /\ row' = [row EXCEPT ![a] =
       IF cached[h] = None THEN NewRow(work[h]) ELSE Merge(@, cached[h], work[h])]
  /\ metrics' = [metrics EXCEPT ![a] = @ \cup {work[h]}]
  /\ Unlock(h)

\* Variant: _persist forgets to commit.
Commit_Skipped(h) ==
  /\ pc[h] = "commit"
  /\ Unlock(h)
  /\ Goto(h, "refresh")
  /\ UNCHANGED <<row, metrics, conn, del, sent, history>>

Commit(h) ==
  /\ pc[h] = "commit"
  /\ Stored(h)
  /\ Goto(h, "refresh")
  /\ fresh' = fresh \cup {h}
  /\ UNCHANGED <<conn, del, sent, acked, deleted>>

\* The COMMIT took effect but its answer is lost.
CommitLost(h) ==
  /\ FaultsPossible
  /\ pc[h] = "commit"
  /\ Stored(h)
  /\ Leave(h)
  /\ UNCHANGED <<del, sent, acked, deleted>>

\* session.refresh raises when the row is gone.
Refresh(h) ==
  /\ pc[h] = "refresh"
  /\ \/ /\ row[agent[h]] # None
        /\ cached' = [cached EXCEPT ![h] = Columns(row[agent[h]])]
        /\ reported' = [reported EXCEPT ![h] = TRUE]
        /\ Goto(h, "ack")
        /\ UNCHANGED <<agent, link, inbox, work, fresh>>
     \/ row[agent[h]] = None /\ Leave(h)
  /\ UNCHANGED <<db, del, sent, acked, deleted>>

\* A half-open peer takes the answer without an error.
Ack(h) ==
  /\ pc[h] = "ack"
  /\ \/ /\ link[h] # "closed"
        /\ acked' = acked \cup {work[h].n}
        /\ Goto(h, "bcast")
        /\ UNCHANGED <<conn, fresh>>
     \/ link[h] = "closed" /\ Leave(h) /\ UNCHANGED acked
  /\ UNCHANGED <<db, del, sent, deleted>>

\* broadcaster.broadcast returns, however long its sends took.
Broadcast(h) ==
  /\ pc[h] = "bcast"
  /\ work' = [work EXCEPT ![h] = None]
  /\ Goto(h, "idle")
  /\ UNCHANGED <<db, agent, link, inbox, cached, reported, del, sent, history>>

-----------------------------------------------------------------------------
(* _broadcast_offline and mark_agent_offline, in a session of their own *)

OffLoad(h) ==
  /\ pc[h] = "offGet"
  /\ \/ row[agent[h]] = None /\ Finish(h)
     \/ row[agent[h]] # None /\ Goto(h, "offFlush") /\ UNCHANGED <<conn, fresh>>
  /\ UNCHANGED <<db, del, sent, acked, deleted>>

OffFlush(h) ==
  /\ pc[h] = "offFlush" /\ lock[agent[h]] = None
  /\ \/ /\ row[agent[h]] # None
        /\ lock' = [lock EXCEPT ![agent[h]] = h]
        /\ Goto(h, "offCommit")
        /\ UNCHANGED <<conn, fresh>>
     \/ row[agent[h]] = None /\ Finish(h) /\ UNCHANGED lock
  /\ UNCHANGED <<row, metrics, del, sent, acked, deleted>>

OffCommit(h) ==
  /\ pc[h] = "offCommit"
  /\ row' = [row EXCEPT ![agent[h]].seen = "past"]
  /\ Unlock(h)
  /\ Goto(h, "offRefresh")
  /\ UNCHANGED <<metrics, conn, del, sent, history>>

\* Variant: the coroutine cannot cope with a row deleted under it.
OffRefresh_NeedsRow(h) ==
  /\ pc[h] = "offRefresh" /\ row[agent[h]] # None
  /\ Goto(h, "offBcast")
  /\ UNCHANGED <<db, conn, del, sent, history>>

OffRefresh(h) ==
  /\ pc[h] = "offRefresh"
  /\ \/ row[agent[h]] = None /\ Finish(h)
     \/ row[agent[h]] # None /\ Goto(h, "offBcast") /\ UNCHANGED <<conn, fresh>>
  /\ UNCHANGED <<db, del, sent, acked, deleted>>

OffBcast(h) ==
  /\ pc[h] = "offBcast"
  /\ Finish(h)
  /\ UNCHANGED <<db, del, sent, acked, deleted>>

-----------------------------------------------------------------------------
(* DELETE /api/v1/agents/{agent_id} *)

DelGoto(d, s) == dpc' = [dpc EXCEPT ![d] = s]

Request(d, a) ==
  /\ dpc[d] = "free"
  /\ target' = [target EXCEPT ![d] = a]
  /\ DelGoto(d, "get")
  /\ UNCHANGED <<db, pc, conn, swept, sent, history>>

DelLoad(d) ==
  /\ dpc[d] = "get"
  /\ DelGoto(d, IF row[target[d]] = None THEN "notFound" ELSE "sweep")
  /\ UNCHANGED <<db, pc, conn, target, swept, sent, history>>

\* DELETE FROM metrics: it waits for the rows another transaction deletes.
DelSweep(d) ==
  /\ dpc[d] = "sweep"
  /\ \A e \in Deleters : target[e] = target[d] => swept[e] = {}
  /\ swept' = [swept EXCEPT ![d] = metrics[target[d]]]
  /\ DelGoto(d, "agent")
  /\ UNCHANGED <<db, pc, conn, target, sent, history>>

\* Variant: metrics has no foreign key to agents.
DelAgent_NoForeignKey(d) ==
  LET a == target[d] IN
  /\ dpc[d] = "agent" /\ lock[a] = None
  /\ lock' = IF row[a] = None THEN lock ELSE [lock EXCEPT ![a] = d]
  /\ DelGoto(d, "commit")
  /\ UNCHANGED <<row, metrics, pc, conn, target, swept, sent, history>>

\* Variant: the failed transaction is not rolled back.
DelAgent_NoRollback(d) ==
  LET a == target[d] IN
  /\ dpc[d] = "agent" /\ lock[a] = None
  /\ lock' = IF row[a] # None /\ metrics[a] \subseteq swept[d]
             THEN [lock EXCEPT ![a] = d] ELSE lock
  /\ DelGoto(d, IF row[a] = None \/ metrics[a] \subseteq swept[d]
                THEN "commit" ELSE "error")
  /\ UNCHANGED <<row, metrics, pc, conn, target, swept, sent, history>>

\* DELETE FROM agents: rejected by the foreign key when a report came in
\* after the sweep; no error when the row is gone.
DelAgent(d) ==
  LET a == target[d] IN
  /\ dpc[d] = "agent" /\ lock[a] = None
  /\ \/ /\ row[a] # None /\ metrics[a] \subseteq swept[d]
        /\ lock' = [lock EXCEPT ![a] = d]
        /\ DelGoto(d, "commit")
        /\ UNCHANGED swept
     \/ /\ row[a] = None
        /\ DelGoto(d, "commit")
        /\ UNCHANGED <<lock, swept>>
     \/ /\ row[a] # None /\ ~(metrics[a] \subseteq swept[d])
        /\ DelGoto(d, "error")
        /\ swept' = [swept EXCEPT ![d] = {}]
        /\ UNCHANGED lock
  /\ UNCHANGED <<row, metrics, pc, conn, target, sent, history>>

\* Variant: the machine goes and the history stays.
DelCommit_MachineOnly(d) ==
  LET a == target[d] IN
  /\ dpc[d] = "commit"
  /\ row' = [row EXCEPT ![a] = IF lock[a] = d THEN None ELSE @]
  /\ swept' = [swept EXCEPT ![d] = {}]
  /\ Unlock(d)
  /\ DelGoto(d, "bcast")
  /\ UNCHANGED <<metrics, pc, conn, target, sent, history>>

\* Variant: the history goes and the machine stays.
DelCommit_HistoryOnly(d) ==
  /\ dpc[d] = "commit"
  /\ metrics' = [metrics EXCEPT ![target[d]] = @ \ swept[d]]
  /\ deleted' = deleted \cup {m.n : m \in swept[d]}
  /\ swept' = [swept EXCEPT ![d] = {}]
  /\ Unlock(d)
  /\ DelGoto(d, "bcast")
  /\ UNCHANGED <<row, pc, conn, target, sent, acked, fresh>>

DelCommit(d) ==
  LET a == target[d] IN
  /\ dpc[d] = "commit"
  /\ row' = [row EXCEPT ![a] = IF lock[a] = d THEN None ELSE @]
  /\ metrics' = [metrics EXCEPT ![a] = @ \ swept[d]]
  /\ deleted' = deleted \cup {m.n : m \in swept[d]}
  /\ swept' = [swept EXCEPT ![d] = {}]
  /\ Unlock(d)
  /\ DelGoto(d, "bcast")
  /\ UNCHANGED <<pc, conn, target, sent, acked, fresh>>

DelBcast(d) ==
  /\ dpc[d] = "bcast"
  /\ DelGoto(d, "ok")
  /\ UNCHANGED <<db, pc, conn, target, swept, sent, history>>

\* The answer has been read; the slot serves another request.
Replied(d) ==
  /\ dpc[d] \in {"ok", "notFound", "error"}
  /\ DelGoto(d, "free")
  /\ target' = [target EXCEPT ![d] = None]
  /\ UNCHANGED <<db, pc, conn, swept, sent, history>>

-----------------------------------------------------------------------------
(* The clock, and failures *)

\* offline_threshold_seconds pass without a report of the machine.  A
\* transaction is taken to be shorter than the threshold.
Silence(a) ==
  /\ row[a] # None /\ row[a].seen = "recent"
  /\ \A h \in Conns : agent[h] = a => pc[h] \notin {"get", "flush", "commit"}
  /\ row' = [row EXCEPT ![a].seen = "past"]
  /\ fresh' = {h \in fresh : agent[h] # a}
  /\ UNCHANGED <<metrics, lock, pc, conn, del, sent, acked, deleted>>

\* A statement of a handler fails: the transaction is rolled back.
DbError(h) ==
  /\ FaultsPossible
  /\ \/ pc[h] \in {"get", "flush", "commit", "refresh"} /\ Leave(h)
     \/ pc[h] \in {"offGet", "offFlush", "offCommit", "offRefresh"} /\ Finish(h)
  /\ Unlock(h)
  /\ UNCHANGED <<row, metrics, del, sent, acked, deleted>>

\* After the commit, build_snapshot can still turn the answer into an error.
DelError(d) ==
  /\ FaultsPossible
  /\ dpc[d] \in {"get", "sweep", "agent", "commit", "bcast"}
  /\ DelGoto(d, "error")
  /\ swept' = [swept EXCEPT ![d] = {}]
  /\ Unlock(d)
  /\ UNCHANGED <<row, metrics, pc, conn, target, sent, history>>

\* The server process dies; PostgreSQL rolls its transactions back.
Crash ==
  /\ FaultsPossible
  /\ lock' = [a \in Agents |-> None]
  /\ pc' = [h \in Conns |-> "free"]
  /\ agent' = [h \in Conns |-> None]
  /\ link' = [h \in Conns |-> "none"]
  /\ inbox' = [h \in Conns |-> <<>>]
  /\ work' = [h \in Conns |-> None]
  /\ cached' = [h \in Conns |-> None]
  /\ reported' = [h \in Conns |-> FALSE]
  /\ dpc' = [d \in Deleters |-> "free"]
  /\ target' = [d \in Deleters |-> None]
  /\ swept' = [d \in Deleters |-> {}]
  /\ fresh' = {}
  /\ UNCHANGED <<row, metrics, sent, acked, deleted>>

-----------------------------------------------------------------------------

Handle(h) ==
  \/ Disconnected(h) \/ RejectInvalid(h) \/ Receive(h) \/ Load(h)
  \/ Commit(h) \/ Refresh(h) \/ Ack(h) \/ Broadcast(h)
  \/ OffLoad(h) \/ OffCommit(h) \/ OffRefresh(h) \/ OffBcast(h)

AwaitLock(h) == Flush(h) \/ OffFlush(h)

Delete(d) ==
  \/ DelLoad(d) \/ DelCommit(d) \/ DelBcast(d)

DelAwaitLock(d) == DelSweep(d) \/ DelAgent(d)

Network(h) ==
  \/ \E a \in Agents : Open(h, a)
  \/ Send(h) \/ Hangup(h) \/ Vanish(h) \/ Detect(h)

Next ==
  \/ \E h \in Conns : Network(h) \/ Handle(h) \/ AwaitLock(h)
                        \/ CommitLost(h) \/ DbError(h)
  \/ \E d \in Deleters : \/ \E a \in Agents : Request(d, a)
                            \/ Delete(d) \/ DelAwaitLock(d)
                            \/ Replied(d) \/ DelError(d)
  \/ \E a \in Agents : Silence(a)
  \/ Crash

Spec == Init /\ [][Next]_vars

\* The event loop runs every ready coroutine; PostgreSQL grants a row lock in
\* the order of the waiters; the keepalive finds a dead peer.
Fairness ==
  /\ \A h \in Conns : WF_vars(Handle(h)) /\ SF_vars(AwaitLock(h)) /\ WF_vars(Detect(h))
  /\ \A d \in Deleters : WF_vars(Delete(d)) /\ SF_vars(DelAwaitLock(d))

FairSpec == Spec /\ Fairness
-----------------------------------------------------------------------------
(* Properties *)

\* The refinement mapping: a row is a known machine, last_seen its status.
Status(a) == IF row[a] = None THEN "absent"
             ELSE IF row[a].seen = "recent" THEN "online" ELSE "offline"

Registry == INSTANCE HostRegistry WITH
  Hosts <- Agents, Samples <- Report,
  status <- [a \in Agents |-> Status(a)], history <- metrics

\* Whatever handlers, DELETE requests, failed statements and crashes do to
\* each other, the committed tables change as the registry promises: a report
\* adds its sample and the machine together, an offline mark touches no
\* sample, a DELETE takes machine and history away in one step.
ImplementsRegistry == Registry!RegistrySpec

\* The metrics rows of a machine outlive neither a DELETE that raced with a
\* report nor one whose transaction broke off (delete_agent, _persist).
NoOrphanMetrics == \A a \in Agents : row[a] = None => metrics[a] = {}

\* What a transaction found when it took its row lock still holds when it
\* commits: a report knows whether it inserts or updates, an offline mark has a
\* row, a DELETE has swept the whole history.  No two DELETE requests sweep the
\* same history at once.
ConnProtected(h) ==
  /\ pc[h] = "commit" =>
       lock[agent[h]] = h /\ (cached[h] = None <=> row[agent[h]] = None)
  /\ pc[h] = "offCommit" => lock[agent[h]] = h /\ row[agent[h]] # None

DelProtected(d) ==
  /\ dpc[d] = "commit" =>
       \/ lock[target[d]] = d /\ metrics[target[d]] \subseteq swept[d]
       \/ lock[target[d]] # d /\ swept[d] = {}
  /\ swept[d] # {} =>
       dpc[d] \in {"agent", "commit"} /\ swept[d] \subseteq metrics[target[d]]

SweepsApart(d, e) == target[d] = target[e] => swept[d] = {} \/ swept[e] = {}

LocksProtect ==
  /\ \A h \in Conns : ConnProtected(h)
  /\ \A d \in Deleters : DelProtected(d)
  /\ \A d \in Deleters : \A e \in Deleters \ {d} : SweepsApart(d, e)

\* A coroutine at work has a machine, and a report while it handles one; a
\* DELETE request has a machine.
SlotsInUse ==
  /\ \A h \in Conns : pc[h] # "free" => agent[h] \in Agents
  /\ \A h \in Conns :
       pc[h] \in {"get", "flush", "commit", "refresh", "ack", "bcast"} =>
         work[h] \in Report
  /\ \A d \in Deleters : dpc[d] # "free" => target[d] \in Agents

\* The inductive invariant.
IInv == TypeOK /\ SlotsInUse /\ LocksProtect /\ NoOrphanMetrics

\* A report answered "accepted" is in the history until a DELETE that
\* committed removes it: neither a rollback nor a crash loses it.
AckedIsKept ==
  acked \subseteq deleted \cup {m.n : m \in UNION {metrics[a] : a \in Agents}}

\* When no statement fails, a machine shown as online has a coroutine that
\* will mark it offline at the end: every path out of ws_ingest, errors and
\* concurrent deletions included, leaves no machine online for nothing.
DepartedIsOffline ==
  \A a \in Agents :
    row[a] # None /\ row[a].seen = "recent" => \E h \in Conns : agent[h] = a

\* A machine (re)appears only with the very report that registers it, never
\* as a leftover of an update or an offline mark that raced with a DELETE.
RegistrationIsComplete ==
  [][\A a \in Agents : row[a] = None /\ row'[a] # None =>
       \E m \in Report : metrics'[a] = {m} /\ row'[a] = NewRow(m)]_vars

\* A known public address is never erased by a report that lacks one, from
\* whichever connection it comes (the "if payload.public_ip" of _persist).
AddressIsKept ==
  [][\A a \in Agents : row[a] # None /\ row'[a] # None /\ row[a].ip # NoIp =>
       row'[a].ip # NoIp]_vars

\* A connection whose peer is gone is given up: its coroutine gets through
\* buffered reports, row locks and the offline mark.
ConnectionIsReleased ==
  \A h \in Conns : (link[h] \in {"half", "closed"}) ~> (pc[h] = "free")

\* Every DELETE request is answered, however many race for the same machine.
DeleteIsAnswered ==
  \A d \in Deleters : (dpc[d] = "get") ~> (dpc[d] \in {"ok", "notFound", "error"})

(* What the documentation says and the code does not do *)

\* config.py: a machine is offline when it has not reported for longer than
\* the threshold.  One that reports over an open connection is not.
LiveMachineOnline ==
  \A h \in fresh : link[h] = "open" /\ row[agent[h]] # None =>
    row[agent[h]].seen = "recent"

\* admin/hosts: a machine whose record is deleted while its agent runs is
\* registered again by its next report.  The DELETE is over and no statement
\* fails, so the report must get as far as its commit.
NextReportRegisters ==
  [][\A h \in Conns : /\ pc[h] = "flush" /\ row[agent[h]] = None
                       /\ \A d \in Deleters : dpc[d] = "free"
       => pc'[h] \in {"flush", "commit"}]_vars
=============================================================================
