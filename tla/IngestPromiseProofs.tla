-------------------------- MODULE IngestPromiseProofs --------------------------
(***************************************************************************)
(* What ws_ingest and delete_agent promise, for every value of the          *)
(* constants of IngestStore: an acknowledged report is kept, no machine     *)
(* stays online for nothing, a machine reappears only with a report, and a  *)
(* known address is not erased.                                             *)
(***************************************************************************)
EXTENDS IngestStoreProofs

-----------------------------------------------------------------------------
(* An acknowledged report is kept *)

\* The numbers of the reports that are in the history or were deleted from it.
Kept == deleted \cup {m.n : m \in UNION {metrics[a] : a \in Agents}}

\* Between its commit and its answer a report is kept, too.
KeptInv ==
  /\ acked \subseteq Kept
  /\ \A h \in Conns : pc[h] \in {"refresh", "ack"} => work[h].n \in Kept

LEMMA StoredKeeps ==
  ASSUME TypeOK, SlotsInUse, NEW h \in Conns, pc[h] = "commit", Stored(h),
         UNCHANGED deleted
  PROVE  Kept \subseteq Kept' /\ work[h].n \in Kept'
<1>1. agent[h] \in Agents
  BY DEF SlotsInUse
<1>2. metrics' = [metrics EXCEPT ![agent[h]] = @ \cup {work[h]}]
  BY DEF Stored
<1>3. work[h] \in metrics'[agent[h]] /\ \A a \in Agents : metrics[a] \subseteq metrics'[a]
  BY <1>1, <1>2 DEF TypeOK
<1> QED
  BY <1>1, <1>3 DEF Kept

LEMMA DelKeeps ==
  ASSUME TypeOK, SlotsInUse, NEW d \in Deleters, DelCommit(d)
  PROVE  Kept \subseteq Kept'
<1>1. \A a \in Agents : metrics[a] \subseteq metrics'[a] \cup swept[d]
  BY DEF DelCommit, TypeOK
<1>2. deleted' = deleted \cup {m.n : m \in swept[d]}
  BY DEF DelCommit
<1> QED
  BY <1>1, <1>2 DEF Kept

LEMMA KeptGrows ==
  ASSUME IInv, [Next]_vars
  PROVE  Kept \subseteq Kept'
<1>1. CASE UNCHANGED <<metrics, deleted>>
  BY <1>1 DEF Kept
<1>2. ASSUME NEW h \in Conns, Commit(h) \/ CommitLost(h) PROVE Kept \subseteq Kept'
  BY <1>2, StoredKeeps DEF IInv, Commit, CommitLost
<1>3. ASSUME NEW d \in Deleters, DelCommit(d) PROVE Kept \subseteq Kept'
  BY <1>3, DelKeeps DEF IInv
<1>4. ASSUME NEW h \in Conns, Network(h) PROVE UNCHANGED <<metrics, deleted>>
  BY <1>4 DEF Network, Open, Send, Hangup, Vanish, Detect, db, history
<1>5. ASSUME NEW h \in Conns, Handle(h), ~Commit(h) PROVE UNCHANGED <<metrics, deleted>>
  BY <1>5 DEF Handle, Disconnected, RejectInvalid, Receive, Load, Refresh, Ack,
              Broadcast, OffLoad, OffCommit, OffRefresh, OffBcast, db, history
<1>6. ASSUME NEW h \in Conns, AwaitLock(h) \/ DbError(h)
      PROVE  UNCHANGED <<metrics, deleted>>
  BY <1>6 DEF AwaitLock, Flush, OffFlush, DbError
<1>7. ASSUME NEW d \in Deleters,
             \/ \E a \in Agents : Request(d, a)
             \/ Delete(d) \/ DelAwaitLock(d) \/ Replied(d) \/ DelError(d),
             ~DelCommit(d)
      PROVE  UNCHANGED <<metrics, deleted>>
  BY <1>7 DEF Request, Delete, DelLoad, DelBcast, DelAwaitLock, DelSweep, DelAgent,
              Replied, DelError, db, history
<1>8. ASSUME NEW a \in Agents, Silence(a) PROVE UNCHANGED <<metrics, deleted>>
  BY <1>8 DEF Silence
<1>9. CASE Crash \/ UNCHANGED vars
  BY <1>1, <1>9 DEF Crash, vars, db, history
<1> QED
  BY <1>1, <1>2, <1>3, <1>4, <1>5, <1>6, <1>7, <1>8, <1>9 DEF Next

\* A coroutine is between commit and answer with the report it was there with
\* before, or has just committed.
AckPath(h) ==
  pc'[h] \in {"refresh", "ack"} =>
    \/ pc[h] \in {"refresh", "ack"} /\ work'[h] = work[h]
    \/ Commit(h)

LEMMA AckPaths ==
  ASSUME IInv, [Next]_vars, NEW g \in Conns
  PROVE  AckPath(g)
<1> USE DEF IInv, TypeOK, AckPath, OthersSame
<1>1. CASE UNCHANGED <<pc, work>>
  BY <1>1
<1>2. ASSUME NEW h \in Conns, Network(h) PROVE AckPath(g)
  BY <1>2 DEF Network, Open, Send, Hangup, Vanish, Detect, Goto
<1>3. ASSUME NEW h \in Conns,
             \/ Disconnected(h) \/ RejectInvalid(h) \/ CommitLost(h)
             \/ Flush(h) \/ Refresh(h) \/ Ack(h)
             \/ OffLoad(h) \/ OffFlush(h) \/ OffRefresh(h) \/ OffBcast(h) \/ DbError(h)
      PROVE  AckPath(g)
  <2>1. CASE Leave(h)
    BY <2>1, LeaveEffect
  <2>2. CASE Finish(h)
    BY <2>2, FinishEffect
  <2>3. CASE ~Leave(h) /\ ~Finish(h)
    BY <1>3, <2>3 DEF Disconnected, RejectInvalid, CommitLost, Flush, Refresh, Ack,
       OffLoad, OffFlush, OffRefresh, OffBcast, DbError, Goto, conn
  <2> QED
    BY <2>1, <2>2, <2>3
<1>4. ASSUME NEW h \in Conns,
             Receive(h) \/ Load(h) \/ Commit(h) \/ Broadcast(h) \/ OffCommit(h)
      PROVE  AckPath(g)
  BY <1>4 DEF Receive, Load, Commit, Broadcast, OffCommit, Goto, conn
<1>5. ASSUME NEW d \in Deleters,
             \/ \E a \in Agents : Request(d, a)
             \/ Delete(d) \/ DelAwaitLock(d) \/ Replied(d) \/ DelError(d)
      PROVE  UNCHANGED <<pc, work>>
  BY <1>5 DEF Request, Delete, DelLoad, DelCommit, DelBcast, DelAwaitLock, DelSweep,
              DelAgent, Replied, DelError, conn
<1>6. ASSUME NEW a \in Agents, Silence(a) PROVE UNCHANGED <<pc, work>>
  BY <1>6 DEF Silence, conn
<1>7. CASE Crash
  BY <1>7 DEF Crash
<1>8. CASE UNCHANGED vars
  BY <1>1, <1>8 DEF vars, conn
<1> QED
  BY <1>1, <1>2, <1>3, <1>4, <1>5, <1>6, <1>7, <1>8
  DEF Next, Handle, AwaitLock

LEMMA AckedOnlyByAck ==
  ASSUME [Next]_vars
  PROVE  acked' = acked
         \/ \E h \in Conns : pc[h] = "ack" /\ acked' = acked \cup {work[h].n}
BY DEF Next, Network, Open, Send, Hangup, Vanish, Detect, Handle, Disconnected,
   RejectInvalid, Receive, Load, Commit, Refresh, Ack, Broadcast, OffLoad, OffCommit,
   OffRefresh, OffBcast, AwaitLock, Flush, OffFlush, CommitLost, DbError, Request,
   Delete, DelLoad, DelCommit, DelBcast, DelAwaitLock, DelSweep, DelAgent, Replied,
   DelError, Silence, Crash, vars, history

LEMMA KeptStep ==
  ASSUME IInv, KeptInv, [Next]_vars
  PROVE  KeptInv'
<1>1. Kept \subseteq Kept'
  BY KeptGrows
<1>2. acked' \subseteq Kept'
  BY <1>1, AckedOnlyByAck DEF KeptInv
<1>3. ASSUME NEW h \in Conns, pc'[h] \in {"refresh", "ack"} PROVE work'[h].n \in Kept'
  <2>1. CASE pc[h] \in {"refresh", "ack"} /\ work'[h] = work[h]
    BY <1>1, <2>1 DEF KeptInv
  <2>2. CASE Commit(h)
    <3>1. work' = work
      BY <2>2 DEF Commit, conn
    <3> QED
      BY <2>2, <3>1, StoredKeeps DEF IInv, Commit
  <2> QED
    BY <1>3, <2>1, <2>2, AckPaths DEF AckPath
<1> QED
  BY <1>2, <1>3 DEF KeptInv

\* A report answered "accepted" stays in the history until a committed DELETE
\* takes it out: for any number of connections and requests, with statements
\* that fail, commits whose answer is lost, and kills of the server.
THEOREM AcknowledgedIsKept == Spec => []AckedIsKept
<1>1. Init => KeptInv
  BY DEF Init, KeptInv
<1>2. IInv /\ KeptInv /\ [Next]_vars => KeptInv'
  BY KeptStep
<1>3. KeptInv => AckedIsKept
  BY DEF KeptInv, Kept, AckedIsKept
<1> QED
  BY <1>1, <1>2, <1>3, Invariance, PTL DEF Spec

-----------------------------------------------------------------------------
(* Registration, and the address *)

\* Only a commit of a report puts a row where there was none, or changes the
\* address in one.
LEMMA RowChanges ==
  ASSUME IInv, [Next]_vars, NEW a \in Agents, row'[a] # None
  PROVE  \/ row[a] # None /\ row'[a].ip = row[a].ip
         \/ \E h \in Conns : agent[h] = a /\ pc[h] = "commit" /\ Stored(h)
<1> USE DEF IInv, TypeOK
<1>1. CASE UNCHANGED row
  BY <1>1
<1>2. ASSUME NEW h \in Conns, Commit(h) \/ CommitLost(h)
      PROVE  row'[a] = row[a] \/ (agent[h] = a /\ pc[h] = "commit" /\ Stored(h))
  BY <1>2 DEF Commit, CommitLost, Stored
<1>3. ASSUME NEW h \in Conns, OffCommit(h)
      PROVE  row[a] # None /\ row'[a].ip = row[a].ip
  <2>1. agent[h] \in Agents /\ row[agent[h]] \in Row
    BY <1>3 DEF SlotsInUse, LocksProtect, ConnProtected, OffCommit
  <2>2. row' = [row EXCEPT ![agent[h]] = [row[agent[h]] EXCEPT !.seen = "past"]]
    BY <1>3 DEF OffCommit
  <2> QED
    BY <2>1, <2>2, SentinelAssumption DEF Row
<1>4. ASSUME NEW b \in Agents, Silence(b)
      PROVE  row[a] # None /\ row'[a].ip = row[a].ip
  <2>1. row[b] \in Row
    BY <1>4 DEF Silence
  <2>2. row' = [row EXCEPT ![b] = [row[b] EXCEPT !.seen = "past"]]
    BY <1>4 DEF Silence
  <2> QED
    BY <2>1, <2>2, SentinelAssumption DEF Row
<1>5. ASSUME NEW d \in Deleters, DelCommit(d) PROVE row'[a] = row[a]
  BY <1>5 DEF DelCommit
<1>6. ASSUME NEW h \in Conns, Network(h) PROVE UNCHANGED row
  BY <1>6 DEF Network, Open, Send, Hangup, Vanish, Detect, db
<1>7. ASSUME NEW h \in Conns, Handle(h), ~Commit(h), ~OffCommit(h) PROVE UNCHANGED row
  BY <1>7 DEF Handle, Disconnected, RejectInvalid, Receive, Load, Refresh, Ack,
              Broadcast, OffLoad, OffRefresh, OffBcast, db
<1>8. ASSUME NEW h \in Conns, AwaitLock(h) \/ DbError(h) PROVE UNCHANGED row
  BY <1>8 DEF AwaitLock, Flush, OffFlush, DbError
<1>9. ASSUME NEW d \in Deleters,
             \/ \E b \in Agents : Request(d, b)
             \/ Delete(d) \/ DelAwaitLock(d) \/ Replied(d) \/ DelError(d),
             ~DelCommit(d)
      PROVE  UNCHANGED row
  BY <1>9 DEF Request, Delete, DelLoad, DelBcast, DelAwaitLock, DelSweep, DelAgent,
              Replied, DelError, db
<1>10. CASE Crash \/ UNCHANGED vars
  BY <1>1, <1>10 DEF Crash, vars, db
<1>11. CASE row'[a] = row[a]
  BY <1>11
<1> QED
  BY <1>1, <1>2, <1>3, <1>4, <1>5, <1>6, <1>7, <1>8, <1>9, <1>10, <1>11 DEF Next

\* A machine (re)appears only with the very report that registers it.
THEOREM RegistrationComplete == Spec => RegistrationIsComplete
<1> DEFINE Complete ==
      \A a \in Agents : row[a] = None /\ row'[a] # None =>
        \E m \in Report : metrics'[a] = {m} /\ row'[a] = NewRow(m)
<1>1. IInv /\ [Next]_vars => [Complete]_vars
  <2> SUFFICES ASSUME IInv, [Next]_vars, NEW a \in Agents, row[a] = None, row'[a] # None
               PROVE  \E m \in Report : metrics'[a] = {m} /\ row'[a] = NewRow(m)
    OBVIOUS
  <2>1. PICK h \in Conns : agent[h] = a /\ pc[h] = "commit" /\ Stored(h)
    BY RowChanges
  <2>2. work[h] \in Report /\ cached[h] = None /\ metrics[a] = {}
    BY <2>1 DEF IInv, SlotsInUse, LocksProtect, ConnProtected, NoOrphanMetrics
  <2>3. metrics'[a] = {work[h]} /\ row'[a] = NewRow(work[h])
    BY <2>1, <2>2 DEF IInv, TypeOK, Stored
  <2> QED
    BY <2>2, <2>3
<1> QED
  BY <1>1, Invariance, PTL DEF Spec, RegistrationIsComplete

\* A report without an address does not erase a known one.
THEOREM AddressKept == Spec => AddressIsKept
<1> DEFINE Keeps ==
      \A a \in Agents : row[a] # None /\ row'[a] # None /\ row[a].ip # NoIp =>
        row'[a].ip # NoIp
<1>1. IInv /\ [Next]_vars => [Keeps]_vars
  <2> SUFFICES ASSUME IInv, [Next]_vars, NEW a \in Agents,
                      row[a] # None, row'[a] # None, row[a].ip # NoIp
               PROVE  row'[a].ip # NoIp
    OBVIOUS
  <2>1. CASE row'[a].ip = row[a].ip
    BY <2>1
  <2>2. ASSUME NEW h \in Conns, agent[h] = a, pc[h] = "commit", Stored(h)
        PROVE  row'[a].ip # NoIp
    <3>1. cached[h] # None
      BY <2>2 DEF IInv, LocksProtect, ConnProtected
    <3>2. row'[a] = Merge(row[a], cached[h], work[h])
      BY <2>2, <3>1 DEF IInv, TypeOK, Stored
    <3> QED
      BY <3>2 DEF Merge
  <2> QED
    BY <2>1, <2>2, RowChanges
<1> QED
  BY <1>1, Invariance, PTL DEF Spec, AddressIsKept

-----------------------------------------------------------------------------
(* No machine stays online for nothing *)

Online(a) == row[a] # None /\ row[a].seen = "recent"

\* A coroutine that has committed a report of its machine, and has not yet
\* marked it offline.
Owes(h) ==
  \/ pc[h] = "refresh"
  \/ reported[h] /\ pc[h] \notin {"free", "offRefresh", "offBcast"}

\* The strengthening of DepartedIsOffline.
OweInv == \A a \in Agents : Online(a) => \E h \in Conns : agent[h] = a /\ Owes(h)

\* Whether a coroutine owes the mark is not changed.
SameDebt(h) == agent'[h] = agent[h] /\ pc'[h] = pc[h] /\ reported'[h] = reported[h]

\* A step of h that puts no machine online, after which h still owes the mark
\* if its machine is online.
LEMMA DebtKept ==
  ASSUME OweInv, NEW h \in Conns, \A g \in Conns \ {h} : SameDebt(g),
         \A a \in Agents : Online(a)' => Online(a) \/ a = agent[h],
         \A a \in Agents : a = agent[h] /\ Online(a)' =>
           \/ agent'[h] = agent[h] /\ Owes(h)'
           \/ ~Owes(h) /\ Online(a)
  PROVE  OweInv'
<1> SUFFICES ASSUME NEW a \in Agents, Online(a)'
             PROVE  \E g \in Conns : agent'[g] = a /\ Owes(g)'
  BY DEF OweInv
<1>1. CASE a = agent[h] /\ agent'[h] = agent[h] /\ Owes(h)'
  BY <1>1
<1>2. CASE ~(a = agent[h] /\ agent'[h] = agent[h] /\ Owes(h)')
  <2>1. Online(a) /\ (a = agent[h] => ~Owes(h))
    BY <1>2
  <2>2. PICK g \in Conns : agent[g] = a /\ Owes(g)
    BY <2>1 DEF OweInv
  <2>3. g # h
    BY <2>1, <2>2
  <2> QED
    BY <2>2, <2>3 DEF SameDebt, Owes
<1> QED
  BY <1>1, <1>2

LEMMA DebtUnmoved ==
  ASSUME OweInv, \A g \in Conns : SameDebt(g),
         \A a \in Agents : Online(a)' => Online(a)
  PROVE  OweInv'
BY DEF OweInv, SameDebt, Owes

LEMMA FinishDebt ==
  ASSUME TypeOK, NEW h \in Conns, Finish(h)
  PROVE  \A g \in Conns \ {h} : SameDebt(g)
BY DEF TypeOK, Finish, Goto, SameDebt

LEMMA LeaveDebt ==
  ASSUME TypeOK, NEW h \in Conns, Leave(h)
  PROVE  /\ \A g \in Conns \ {h} : SameDebt(g)
         /\ reported[h] => Owes(h)' /\ agent'[h] = agent[h]
<1>1. CASE ~reported[h]
  BY <1>1, FinishDebt DEF Leave
<1>2. CASE reported[h]
  BY <1>2 DEF TypeOK, Leave, Goto, SameDebt, Owes
<1> QED
  BY <1>1, <1>2

LEMMA OweStep ==
  ASSUME IInv, OweInv, [Next]_vars, ~FaultsPossible
  PROVE  OweInv'
<1> USE DEF IInv, TypeOK
<1>1. ASSUME NEW h \in Conns, NEW a \in Agents, Open(h, a) PROVE OweInv'
  <2>1. /\ \A g \in Conns \ {h} : SameDebt(g)
        /\ \A b \in Agents : Online(b)' => Online(b)
    BY <1>1 DEF Open, Goto, SameDebt, Online, db
  <2>2. pc[h] = "free" /\ ~Owes(h)
    BY <1>1 DEF Open, Owes
  <2> QED
    BY <2>1, <2>2, DebtKept
<1>2. ASSUME NEW h \in Conns, Send(h) \/ Hangup(h) \/ Vanish(h) \/ Detect(h)
      PROVE  OweInv'
  <2>1. (\A g \in Conns : SameDebt(g)) /\ (\A b \in Agents : Online(b)' => Online(b))
    BY <1>2 DEF Send, Hangup, Vanish, Detect, SameDebt, Online, db
  <2> QED
    BY <2>1, DebtUnmoved
<1>3. ASSUME NEW h \in Conns, UNCHANGED row, Leave(h), pc[h] # "refresh" \/ row[agent[h]] = None
      PROVE  OweInv'
  <2>1. \A b \in Agents : Online(b)' <=> Online(b)
    BY <1>3 DEF Online
  <2>2. Online(agent[h]) /\ ~reported[h] => ~Owes(h)
    BY <1>3 DEF Owes, Online
  <2> QED
    BY <1>3, <2>1, <2>2, LeaveDebt, DebtKept
<1>4. ASSUME NEW h \in Conns, UNCHANGED row, Finish(h),
             row[agent[h]] = None \/ pc[h] \in {"offRefresh", "offBcast"}
      PROVE  OweInv'
  <2>1. \A b \in Agents : Online(b)' <=> Online(b)
    BY <1>4 DEF Online
  <2>2. Online(agent[h]) => ~Owes(h)
    BY <1>4 DEF Owes, Online
  <2> QED
    BY <1>4, <2>1, <2>2, FinishDebt, DebtKept
<1>5. ASSUME NEW h \in Conns, UNCHANGED <<row, agent, reported>>,
             NEW s \in ConnPc \ {"free", "offRefresh", "offBcast"}, Goto(h, s),
             pc[h] # "refresh", s # "refresh"
      PROVE  OweInv'
  <2>1. /\ \A g \in Conns \ {h} : SameDebt(g)
        /\ \A b \in Agents : Online(b)' <=> Online(b)
    BY <1>5 DEF Goto, SameDebt, Online
  <2>2. Owes(h) => Owes(h)' /\ agent'[h] = agent[h]
    BY <1>5 DEF Goto, Owes, ConnPc
  <2> QED
    BY <2>1, <2>2, DebtKept
<1>6. ASSUME NEW h \in Conns, Disconnected(h) PROVE OweInv'
  BY <1>3, <1>6 DEF Disconnected, db
<1>7. ASSUME NEW h \in Conns, RejectInvalid(h) PROVE OweInv'
  <2>1. CASE Leave(h)
    BY <1>3, <1>7, <2>1 DEF RejectInvalid, db
  <2>2. CASE UNCHANGED <<pc, agent, reported>>
    BY <1>7, <2>2, DebtUnmoved DEF RejectInvalid, SameDebt, Online, db
  <2> QED
    BY <1>7, <2>1, <2>2 DEF RejectInvalid
<1>8. ASSUME NEW h \in Conns, Receive(h) \/ Load(h) \/ Broadcast(h) PROVE OweInv'
  BY <1>5, <1>8 DEF Receive, Load, Broadcast, db, ConnPc
<1>9. ASSUME NEW h \in Conns, Flush(h) PROVE OweInv'
  <2>1. CASE Leave(h)
    BY <1>3, <1>9, <2>1 DEF Flush
  <2>2. CASE Goto(h, "commit") /\ UNCHANGED conn
    BY <1>5, <1>9, <2>2 DEF Flush, conn, ConnPc
  <2> QED
    BY <1>9, <2>1, <2>2 DEF Flush
<1>10. ASSUME NEW h \in Conns, Commit(h) PROVE OweInv'
  <2>1. \A g \in Conns \ {h} : SameDebt(g)
    BY <1>10 DEF Commit, Goto, SameDebt, conn
  <2>2. \A b \in Agents : Online(b)' => Online(b) \/ b = agent[h]
    BY <1>10 DEF Commit, Stored, Online
  <2>3. agent'[h] = agent[h] /\ Owes(h)'
    BY <1>10 DEF Commit, Goto, Owes, conn
  <2> QED
    BY <2>1, <2>2, <2>3, DebtKept
<1>11. ASSUME NEW h \in Conns, Refresh(h) PROVE OweInv'
  <2>1. CASE Leave(h) /\ row[agent[h]] = None
    BY <1>3, <1>11, <2>1 DEF Refresh, db
  <2>2. CASE reported' = [reported EXCEPT ![h] = TRUE] /\ Goto(h, "ack") /\ agent' = agent
    <3>1. /\ \A g \in Conns \ {h} : SameDebt(g)
          /\ \A b \in Agents : Online(b)' <=> Online(b)
      BY <1>11, <2>2 DEF Refresh, Goto, SameDebt, Online, db
    <3>2. Owes(h)' /\ agent'[h] = agent[h]
      BY <2>2 DEF Goto, Owes
    <3> QED
      BY <3>1, <3>2, DebtKept
  <2> QED
    BY <1>11, <2>1, <2>2 DEF Refresh
<1>12. ASSUME NEW h \in Conns, Ack(h) PROVE OweInv'
  <2>1. CASE Leave(h)
    BY <1>3, <1>12, <2>1 DEF Ack, db
  <2>2. CASE Goto(h, "bcast") /\ UNCHANGED conn
    BY <1>5, <1>12, <2>2 DEF Ack, conn, db, ConnPc
  <2> QED
    BY <1>12, <2>1, <2>2 DEF Ack
<1>13. ASSUME NEW h \in Conns, OffLoad(h) PROVE OweInv'
  <2>1. CASE Finish(h) /\ row[agent[h]] = None
    BY <1>4, <1>13, <2>1 DEF OffLoad, db
  <2>2. CASE Goto(h, "offFlush") /\ UNCHANGED conn
    BY <1>5, <1>13, <2>2 DEF OffLoad, conn, db, ConnPc
  <2> QED
    BY <1>13, <2>1, <2>2 DEF OffLoad
<1>14. ASSUME NEW h \in Conns, OffFlush(h) PROVE OweInv'
  <2>1. CASE Finish(h) /\ row[agent[h]] = None
    BY <1>4, <1>14, <2>1 DEF OffFlush
  <2>2. CASE Goto(h, "offCommit") /\ UNCHANGED conn
    BY <1>5, <1>14, <2>2 DEF OffFlush, conn, ConnPc
  <2> QED
    BY <1>14, <2>1, <2>2 DEF OffFlush
<1>15. ASSUME NEW h \in Conns, OffCommit(h) PROVE OweInv'
  <2>1. agent[h] \in Agents /\ row[agent[h]] \in Row
    BY <1>15 DEF SlotsInUse, LocksProtect, ConnProtected, OffCommit
  <2>2. row' = [row EXCEPT ![agent[h]] = [row[agent[h]] EXCEPT !.seen = "past"]]
    BY <1>15 DEF OffCommit
  <2>3. \A b \in Agents : b = agent[h] => ~Online(b)'
    BY <2>1, <2>2 DEF Online, Row
  <2>4. \A b \in Agents : Online(b)' => Online(b)
    BY <2>1, <2>2, <2>3 DEF Online
  <2>5. \A g \in Conns \ {h} : SameDebt(g)
    BY <1>15 DEF OffCommit, Goto, SameDebt, conn
  <2> QED
    BY <2>3, <2>4, <2>5, DebtKept
<1>16. ASSUME NEW h \in Conns, OffRefresh(h) PROVE OweInv'
  <2>1. CASE Finish(h)
    BY <1>4, <1>16, <2>1 DEF OffRefresh, db
  <2>2. CASE Goto(h, "offBcast") /\ UNCHANGED conn
    <3>1. /\ \A g \in Conns \ {h} : SameDebt(g)
          /\ \A b \in Agents : Online(b)' <=> Online(b)
      BY <1>16, <2>2 DEF OffRefresh, Goto, SameDebt, Online, conn, db
    <3>2. ~Owes(h)
      BY <1>16 DEF OffRefresh, Owes
    <3> QED
      BY <3>1, <3>2, DebtKept
  <2> QED
    BY <1>16, <2>1, <2>2 DEF OffRefresh
<1>17. ASSUME NEW h \in Conns, OffBcast(h) PROVE OweInv'
  BY <1>4, <1>17 DEF OffBcast, db
<1>18. ASSUME NEW h \in Conns, CommitLost(h) \/ DbError(h) PROVE FALSE
  BY <1>18 DEF CommitLost, DbError
<1>19. ASSUME NEW d \in Deleters,
              \/ \E a \in Agents : Request(d, a)
              \/ Delete(d) \/ DelAwaitLock(d) \/ Replied(d) \/ DelError(d)
       PROVE  OweInv'
  <2>1. UNCHANGED <<pc, conn>>
    BY <1>19 DEF Request, Delete, DelLoad, DelCommit, DelBcast, DelAwaitLock, DelSweep,
                 DelAgent, Replied, DelError
  <2>2. \A g \in Conns : SameDebt(g)
    BY <2>1 DEF SameDebt, conn
  <2>3. \A b \in Agents : row'[b] = row[b] \/ row'[b] = None
    BY <1>19 DEF Request, Delete, DelLoad, DelCommit, DelBcast, DelAwaitLock, DelSweep,
                 DelAgent, Replied, DelError, db
  <2> QED
    BY <2>2, <2>3, DebtUnmoved DEF Online
<1>20. ASSUME NEW a \in Agents, Silence(a) PROVE OweInv'
  <2>1. row[a] \in Row /\ row' = [row EXCEPT ![a] = [row[a] EXCEPT !.seen = "past"]]
    BY <1>20 DEF Silence
  <2>2. \A b \in Agents : Online(b)' => Online(b)
    BY <2>1 DEF Online, Row
  <2>3. \A g \in Conns : SameDebt(g)
    BY <1>20 DEF Silence, SameDebt, conn
  <2> QED
    BY <2>2, <2>3, DebtUnmoved
<1>21. CASE Crash
  BY <1>21 DEF Crash
<1>22. CASE UNCHANGED vars
  BY <1>22, DebtUnmoved DEF vars, SameDebt, Online, db, conn
<1> QED
  BY <1>1, <1>2, <1>6, <1>7, <1>8, <1>9, <1>10, <1>11, <1>12, <1>13, <1>14, <1>15,
     <1>16, <1>17, <1>18, <1>19, <1>20, <1>21, <1>22
  DEF Next, Network, Handle, AwaitLock

\* While no statement fails and the server is not killed, every machine shown as
\* online has a coroutine that will mark it offline at the end: for any number
\* of connections of one machine, and of DELETE requests that race with them.
THEOREM NobodyOnlineForNothing ==
  ASSUME ~FaultsPossible
  PROVE  Spec => []DepartedIsOffline
<1>1. Init => OweInv
  BY DEF Init, OweInv, Online
<1>2. IInv /\ OweInv /\ [Next]_vars => OweInv'
  BY OweStep
<1>3. OweInv => DepartedIsOffline
  BY DEF OweInv, Online, DepartedIsOffline
<1> QED
  BY <1>1, <1>2, <1>3, Invariance, PTL DEF Spec
=============================================================================
