-------------------------- MODULE IngestStoreProofs --------------------------
(* Theorems about IngestStore for every value of its constants. *)
EXTENDS IngestStore, SequenceTheorems, TLAPS

USE DEF Seen

-----------------------------------------------------------------------------
(* What the helpers preserve *)

\* The part of TypeOK that Finish and Leave assign.
ConnTypes ==
  /\ pc \in [Conns -> ConnPc]
  /\ agent \in [Conns -> Agents \cup {None}]
  /\ link \in [Conns -> {"none", "open", "half", "closed"}]
  /\ inbox \in [Conns -> Seq(Report \cup {Invalid})]
  /\ work \in [Conns -> Report \cup {None}]
  /\ cached \in [Conns -> Loaded \cup {None}]
  /\ reported \in [Conns -> BOOLEAN]
  /\ fresh \subseteq Conns

LEMMA FinishType ==
  ASSUME TypeOK, NEW h \in Conns, Finish(h)
  PROVE  ConnTypes'
<1>1. <<>> \in Seq(Report \cup {Invalid})
  OBVIOUS
<1> QED
  BY <1>1 DEF ConnTypes, TypeOK, Finish, Goto, ConnPc

LEMMA LeaveType ==
  ASSUME TypeOK, NEW h \in Conns, Leave(h)
  PROVE  ConnTypes'
<1>1. CASE Finish(h)
  BY <1>1, FinishType
<1>2. CASE ~Finish(h)
  BY <1>2 DEF ConnTypes, TypeOK, Leave, Goto, ConnPc
<1> QED
  BY <1>1, <1>2

LEMMA UnlockType ==
  ASSUME TypeOK, NEW t, Unlock(t)
  PROVE  lock' \in [Agents -> Conns \cup Deleters \cup {None}]
BY DEF TypeOK, Unlock

LEMMA MergeType ==
  ASSUME NEW old \in Row, NEW loaded \in Loaded, NEW r \in Report
  PROVE  Merge(old, loaded, r) \in Row
BY DEF Merge, Row, Loaded, Report

LEMMA NewRowType ==
  ASSUME NEW r \in Report
  PROVE  NewRow(r) \in Row
BY DEF NewRow, Row, Report

LEMMA ColumnsType ==
  ASSUME NEW r \in Row
  PROVE  Columns(r) \in Loaded
BY DEF Columns, Row, Loaded

LEMMA InboxTail ==
  ASSUME TypeOK, NEW h \in Conns, inbox[h] # <<>>
  PROVE  [inbox EXCEPT ![h] = Tail(@)] \in [Conns -> Seq(Report \cup {Invalid})]
BY DEF TypeOK

LEMMA InboxAppend ==
  ASSUME TypeOK, NEW h \in Conns, NEW m \in Report \cup {Invalid}
  PROVE  [inbox EXCEPT ![h] = Append(@, m)] \in [Conns -> Seq(Report \cup {Invalid})]
BY DEF TypeOK

LEMMA StoredType ==
  ASSUME TypeOK, SlotsInUse, LocksProtect,
         NEW h \in Conns, pc[h] = "commit", Stored(h)
  PROVE  row' \in [Agents -> Row \cup {None}] /\ metrics' \in [Agents -> SUBSET Report]
<1>1. work[h] \in Report /\ agent[h] \in Agents
  BY DEF SlotsInUse
<1>2. metrics' \in [Agents -> SUBSET Report]
  BY <1>1 DEF TypeOK, Stored
<1>3. CASE cached[h] = None
  BY <1>1, <1>2, <1>3, NewRowType DEF TypeOK, Stored
<1>4. CASE cached[h] # None
  <2>1. row[agent[h]] \in Row /\ cached[h] \in Loaded
    BY <1>1, <1>4 DEF TypeOK, LocksProtect, ConnProtected
  <2>2. Merge(row[agent[h]], cached[h], work[h]) \in Row
    BY <1>1, <2>1, MergeType
  <2> QED
    BY <1>1, <1>2, <1>4, <2>2 DEF TypeOK, Stored
<1> QED
  BY <1>3, <1>4

LEMMA TypeStep ==
  ASSUME TypeOK, SlotsInUse, LocksProtect, [Next]_vars
  PROVE  TypeOK'
<1>1. ASSUME NEW h \in Conns, NEW a \in Agents, Open(h, a) PROVE TypeOK'
  BY <1>1 DEF TypeOK, SlotsInUse, Open, db, conn, del, history, Goto, DelGoto, ConnPc, DelPc
<1>2. ASSUME NEW h \in Conns, Send(h) PROVE TypeOK'
  <2>1. CASE sent' = sent /\ inbox' = [inbox EXCEPT ![h] = Append(@, Invalid)]
    <3>1. inbox' \in [Conns -> Seq(Report \cup {Invalid})]
      BY <2>1, InboxAppend
    <3> QED
      BY <1>2, <2>1, <3>1 DEF TypeOK, Send, db, del, history
  <2>2. CASE /\ sent < MaxReports /\ sent' = sent + 1
             /\ \E v \in [Cols -> Vals], ip \in Ips \cup {NoIp} :
                  inbox' = [inbox EXCEPT ![h] =
                              Append(@, [n |-> sent + 1, col |-> v, ip |-> ip])]
    <3>1. sent + 1 \in 1..MaxReports /\ sent' \in 0..MaxReports
      BY <2>2, ConstantsAssumption DEF TypeOK
    <3>2. PICK v \in [Cols -> Vals], ip \in Ips \cup {NoIp} :
            inbox' = [inbox EXCEPT ![h] =
                        Append(@, [n |-> sent + 1, col |-> v, ip |-> ip])]
      BY <2>2
    <3>3. [n |-> sent + 1, col |-> v, ip |-> ip] \in Report
      BY <3>1 DEF Report
    <3>4. inbox' \in [Conns -> Seq(Report \cup {Invalid})]
      BY <3>2, <3>3, InboxAppend
    <3> QED
      BY <1>2, <3>1, <3>4 DEF TypeOK, Send, db, del, history
  <2> QED
    BY <1>2, <2>1, <2>2 DEF Send
<1>3. ASSUME NEW h \in Conns, Hangup(h) PROVE TypeOK'
  BY <1>3 DEF TypeOK, SlotsInUse, Hangup, db, conn, del, history, Goto, DelGoto, ConnPc, DelPc
<1>4. ASSUME NEW h \in Conns, Vanish(h) PROVE TypeOK'
  BY <1>4 DEF TypeOK, SlotsInUse, Vanish, db, conn, del, history, Goto, DelGoto, ConnPc, DelPc
<1>5. ASSUME NEW h \in Conns, Detect(h) PROVE TypeOK'
  BY <1>5 DEF TypeOK, SlotsInUse, Detect, db, conn, del, history, Goto, DelGoto, ConnPc, DelPc
<1>6. ASSUME NEW h \in Conns, Disconnected(h) PROVE TypeOK'
  BY <1>6, LeaveType DEF ConnTypes, TypeOK, SlotsInUse, Disconnected, db, conn, del, history, Goto, DelGoto, ConnPc, DelPc
<1>7. ASSUME NEW h \in Conns, RejectInvalid(h) PROVE TypeOK'
  <2>1. CASE Leave(h)
    BY <1>7, <2>1, LeaveType DEF ConnTypes, TypeOK, RejectInvalid, db, del
  <2>2. CASE ~Leave(h)
    <3>1. inbox' \in [Conns -> Seq(Report \cup {Invalid})]
      BY <1>7, <2>2, InboxTail DEF RejectInvalid
    <3> QED
      BY <1>7, <2>2, <3>1 DEF TypeOK, RejectInvalid, db, del
  <2> QED
    BY <2>1, <2>2
<1>8. ASSUME NEW h \in Conns, Receive(h) PROVE TypeOK'
  BY <1>8 DEF TypeOK, SlotsInUse, Receive, db, conn, del, history, Goto, DelGoto, ConnPc, DelPc
<1>9. ASSUME NEW h \in Conns, Load(h) PROVE TypeOK'
  BY <1>9, ColumnsType DEF TypeOK, SlotsInUse, Load, db, conn, del, history, Goto, DelGoto, ConnPc, DelPc
<1>10. ASSUME NEW h \in Conns, Flush(h) PROVE TypeOK'
  <2>1. lock' \in [Agents -> Conns \cup Deleters \cup {None}]
    BY <1>10 DEF TypeOK, Flush
  <2>2. CASE Leave(h)
    BY <1>10, <2>1, <2>2, LeaveType DEF ConnTypes, TypeOK, Flush, del
  <2>3. CASE ~Leave(h)
    BY <1>10, <2>1, <2>3 DEF TypeOK, Flush, del, conn, Goto, ConnPc
  <2> QED
    BY <2>2, <2>3
<1>11. ASSUME NEW h \in Conns, Commit(h) PROVE TypeOK'
  <2>1. row' \in [Agents -> Row \cup {None}] /\ metrics' \in [Agents -> SUBSET Report]
    BY <1>11, StoredType DEF Commit
  <2> QED
    BY <1>11, <2>1, UnlockType DEF TypeOK, Commit, Stored, conn, del, Goto, ConnPc
<1>12. ASSUME NEW h \in Conns, CommitLost(h) PROVE TypeOK'
  <2>1. row' \in [Agents -> Row \cup {None}] /\ metrics' \in [Agents -> SUBSET Report]
    BY <1>12, StoredType DEF CommitLost
  <2> QED
    BY <1>12, <2>1, UnlockType, LeaveType
    DEF ConnTypes, TypeOK, CommitLost, Stored, del
<1>13. ASSUME NEW h \in Conns, Refresh(h) PROVE TypeOK'
  <2>1. CASE Leave(h)
    BY <1>13, <2>1, LeaveType DEF ConnTypes, TypeOK, Refresh, db, del
  <2>2. CASE ~Leave(h)
    <3>1. row[agent[h]] \in Row
      BY <1>13, <2>2 DEF TypeOK, SlotsInUse, Refresh
    <3>2. cached' \in [Conns -> Loaded \cup {None}]
      BY <1>13, <2>2, <3>1, ColumnsType DEF TypeOK, Refresh
    <3> QED
      BY <1>13, <2>2, <3>2 DEF TypeOK, Refresh, db, del, Goto, ConnPc
  <2> QED
    BY <2>1, <2>2
<1>14. ASSUME NEW h \in Conns, Ack(h) PROVE TypeOK'
  <2>1. CASE Leave(h) /\ UNCHANGED acked
    BY <1>14, <2>1, LeaveType DEF ConnTypes, TypeOK, Ack, db, del
  <2>2. CASE ~(Leave(h) /\ UNCHANGED acked)
    <3>1. work[h].n \in 1..MaxReports
      BY <1>14 DEF SlotsInUse, Ack, Report
    <3> QED
      BY <1>14, <2>2, <3>1 DEF TypeOK, Ack, db, del, conn, Goto, ConnPc
  <2> QED
    BY <2>1, <2>2
<1>15. ASSUME NEW h \in Conns, Broadcast(h) PROVE TypeOK'
  BY <1>15 DEF TypeOK, SlotsInUse, Broadcast, db, conn, del, history, Goto, DelGoto, ConnPc, DelPc
<1>16. ASSUME NEW h \in Conns, OffLoad(h) PROVE TypeOK'
  BY <1>16, FinishType DEF ConnTypes, TypeOK, SlotsInUse, OffLoad, db, conn, del, history, Goto, DelGoto, ConnPc, DelPc
<1>17. ASSUME NEW h \in Conns, OffFlush(h) PROVE TypeOK'
  <2>1. lock' \in [Agents -> Conns \cup Deleters \cup {None}]
    BY <1>17 DEF TypeOK, OffFlush
  <2>2. CASE Finish(h)
    BY <1>17, <2>1, <2>2, FinishType DEF ConnTypes, TypeOK, OffFlush, del
  <2>3. CASE ~Finish(h)
    BY <1>17, <2>1, <2>3 DEF TypeOK, OffFlush, del, conn, Goto, ConnPc
  <2> QED
    BY <2>2, <2>3
<1>18. ASSUME NEW h \in Conns, OffCommit(h) PROVE TypeOK'
  <2>1. row[agent[h]] \in Row
    BY <1>18 DEF TypeOK, SlotsInUse, LocksProtect, ConnProtected, OffCommit
  <2>2. row' \in [Agents -> Row \cup {None}]
    BY <1>18, <2>1 DEF TypeOK, OffCommit, Row
  <2> QED
    BY <1>18, <2>2, UnlockType DEF TypeOK, OffCommit, conn, del, history, Goto, ConnPc
<1>19. ASSUME NEW h \in Conns, OffRefresh(h) PROVE TypeOK'
  BY <1>19, FinishType DEF ConnTypes, TypeOK, SlotsInUse, OffRefresh, db, conn, del, history, Goto, DelGoto, ConnPc, DelPc
<1>20. ASSUME NEW h \in Conns, OffBcast(h) PROVE TypeOK'
  BY <1>20, FinishType DEF ConnTypes, TypeOK, SlotsInUse, OffBcast, db, conn, del, history, Goto, DelGoto, ConnPc, DelPc
<1>21. ASSUME NEW h \in Conns, DbError(h) PROVE TypeOK'
  BY <1>21, LeaveType, FinishType, UnlockType DEF ConnTypes, TypeOK, SlotsInUse, DbError, db, conn, del, history, Goto, DelGoto, ConnPc, DelPc
<1>22. ASSUME NEW d \in Deleters, NEW a \in Agents, Request(d, a) PROVE TypeOK'
  BY <1>22 DEF TypeOK, SlotsInUse, Request, db, conn, del, history, Goto, DelGoto, ConnPc, DelPc
<1>23. ASSUME NEW d \in Deleters, DelLoad(d) PROVE TypeOK'
  BY <1>23 DEF TypeOK, SlotsInUse, DelLoad, db, conn, del, history, Goto, DelGoto, ConnPc, DelPc
<1>24. ASSUME NEW d \in Deleters, DelSweep(d) PROVE TypeOK'
  BY <1>24 DEF TypeOK, SlotsInUse, DelSweep, db, conn, del, history, Goto, DelGoto, ConnPc, DelPc
<1>25. ASSUME NEW d \in Deleters, DelAgent(d) PROVE TypeOK'
  <2>1. lock' \in [Agents -> Conns \cup Deleters \cup {None}]
    BY <1>25 DEF TypeOK, DelAgent
  <2>2. dpc' \in [Deleters -> DelPc] /\ swept' \in [Deleters -> SUBSET Report]
    BY <1>25 DEF TypeOK, DelAgent, DelGoto, DelPc
  <2> QED
    BY <1>25, <2>1, <2>2 DEF TypeOK, DelAgent, conn, history
<1>26. ASSUME NEW d \in Deleters, DelCommit(d) PROVE TypeOK'
  <2>1. {m.n : m \in swept[d]} \subseteq 1..MaxReports
    BY DEF TypeOK, Report
  <2>2. metrics' \in [Agents -> SUBSET Report]
    BY <1>26 DEF TypeOK, DelCommit
  <2> QED
    BY <1>26, <2>1, <2>2, UnlockType DEF TypeOK, DelCommit, conn, DelGoto, DelPc
<1>27. ASSUME NEW d \in Deleters, DelBcast(d) PROVE TypeOK'
  BY <1>27 DEF TypeOK, SlotsInUse, DelBcast, db, conn, del, history, Goto, DelGoto, ConnPc, DelPc
<1>28. ASSUME NEW d \in Deleters, Replied(d) PROVE TypeOK'
  BY <1>28 DEF TypeOK, SlotsInUse, Replied, db, conn, del, history, Goto, DelGoto, ConnPc, DelPc
<1>29. ASSUME NEW d \in Deleters, DelError(d) PROVE TypeOK'
  BY <1>29, UnlockType DEF TypeOK, SlotsInUse, DelError, db, conn, del, history, Goto, DelGoto, ConnPc, DelPc
<1>30. ASSUME NEW a \in Agents, Silence(a) PROVE TypeOK'
  <2>1. row[a] \in Row
    BY <1>30 DEF TypeOK, Silence
  <2>2. row' \in [Agents -> Row \cup {None}]
    BY <1>30, <2>1 DEF TypeOK, Silence, Row
  <2> QED
    BY <1>30, <2>2 DEF TypeOK, Silence, conn, del
<1>31. ASSUME Crash PROVE TypeOK'
  BY <1>31 DEF TypeOK, SlotsInUse, Crash, db, conn, del, history, Goto, DelGoto, ConnPc, DelPc
<1>32. ASSUME UNCHANGED vars PROVE TypeOK'
  BY <1>32 DEF TypeOK, vars, db, conn, del, history
<1> QED
  BY <1>1, <1>2, <1>3, <1>4, <1>5, <1>6, <1>7, <1>8, <1>9, <1>10, <1>11, <1>12, <1>13, <1>14, <1>15, <1>16, <1>17, <1>18, <1>19, <1>20, <1>21, <1>22, <1>23, <1>24, <1>25, <1>26, <1>27, <1>28, <1>29, <1>30, <1>31, <1>32 DEF Next, Network, Handle, AwaitLock, Delete, DelAwaitLock

\* The other coroutines do not move; what is written to a table is written
\* under a lock of t, and only locks of t are released.
OthersSame(h) ==
  \A g \in Conns \ {h} :
    /\ pc'[g] = pc[g] /\ agent'[g] = agent[g]
    /\ work'[g] = work[g] /\ cached'[g] = cached[g]

OthersSameDel(d) ==
  \A e \in Deleters \ {d} :
    dpc'[e] = dpc[e] /\ target'[e] = target[e] /\ swept'[e] = swept[e]

WritesUnderLock(t) ==
  \A a \in Agents :
    \/ row'[a] = row[a] /\ metrics'[a] = metrics[a]
    \/ lock[a] = t /\ metrics[a] \subseteq metrics'[a]

Releases(t) == \A a \in Agents : lock'[a] = lock[a] \/ (lock[a] = t /\ lock'[a] = None)

Acquires(t) == \A a \in Agents : lock'[a] = lock[a] \/ (lock[a] = None /\ lock'[a] = t)

\* What Finish and Leave do to the coroutine itself and to the others.
LEMMA FinishEffect ==
  ASSUME TypeOK, NEW h \in Conns, Finish(h)
  PROVE  /\ pc'[h] = "free"
         /\ OthersSame(h)
BY DEF TypeOK, Finish, Goto, OthersSame

LEMMA LeaveEffect ==
  ASSUME TypeOK, NEW h \in Conns, Leave(h)
  PROVE  /\ pc'[h] = "free" \/ (pc'[h] = "offGet" /\ agent'[h] = agent[h])
         /\ OthersSame(h)
<1>1. CASE Finish(h)
  BY <1>1, FinishEffect
<1>2. CASE ~Finish(h)
  BY <1>2 DEF TypeOK, Leave, Goto, OthersSame
<1> QED
  BY <1>1, <1>2

LEMMA SlotsStep ==
  ASSUME TypeOK, SlotsInUse, [Next]_vars
  PROVE  SlotsInUse'
<1>1. ASSUME NEW h \in Conns, NEW a \in Agents, Open(h, a) PROVE SlotsInUse'
  BY <1>1 DEF TypeOK, SlotsInUse, Open, db, conn, del, history, Goto, DelGoto
<1>2. ASSUME NEW h \in Conns, Send(h) PROVE SlotsInUse'
  BY <1>2 DEF TypeOK, SlotsInUse, Send, db, conn, del, history, Goto, DelGoto
<1>3. ASSUME NEW h \in Conns, Hangup(h) PROVE SlotsInUse'
  BY <1>3 DEF TypeOK, SlotsInUse, Hangup, db, conn, del, history, Goto, DelGoto
<1>4. ASSUME NEW h \in Conns, Vanish(h) PROVE SlotsInUse'
  BY <1>4 DEF TypeOK, SlotsInUse, Vanish, db, conn, del, history, Goto, DelGoto
<1>5. ASSUME NEW h \in Conns, Detect(h) PROVE SlotsInUse'
  BY <1>5 DEF TypeOK, SlotsInUse, Detect, db, conn, del, history, Goto, DelGoto
<1>6. ASSUME NEW h \in Conns, Disconnected(h) PROVE SlotsInUse'
  BY <1>6, LeaveEffect DEF OthersSame, TypeOK, SlotsInUse, Disconnected, db, conn, del, history, Goto, DelGoto
<1>7. ASSUME NEW h \in Conns, RejectInvalid(h) PROVE SlotsInUse'
  BY <1>7, LeaveEffect DEF OthersSame, TypeOK, SlotsInUse, RejectInvalid, db, conn, del, history, Goto, DelGoto
<1>8. ASSUME NEW h \in Conns, Receive(h) PROVE SlotsInUse'
  BY <1>8 DEF TypeOK, SlotsInUse, Receive, db, conn, del, history, Goto, DelGoto
<1>9. ASSUME NEW h \in Conns, Load(h) PROVE SlotsInUse'
  BY <1>9 DEF TypeOK, SlotsInUse, Load, db, conn, del, history, Goto, DelGoto
<1>10. ASSUME NEW h \in Conns, Flush(h) PROVE SlotsInUse'
  BY <1>10, LeaveEffect DEF OthersSame, TypeOK, SlotsInUse, Flush, db, conn, del, history, Goto, DelGoto
<1>11. ASSUME NEW h \in Conns, Commit(h) PROVE SlotsInUse'
  BY <1>11 DEF TypeOK, SlotsInUse, Commit, db, conn, del, history, Goto, DelGoto, Stored
<1>12. ASSUME NEW h \in Conns, CommitLost(h) PROVE SlotsInUse'
  BY <1>12, LeaveEffect DEF OthersSame, TypeOK, SlotsInUse, CommitLost, db, conn, del, history, Goto, DelGoto, Stored
<1>13. ASSUME NEW h \in Conns, Refresh(h) PROVE SlotsInUse'
  BY <1>13, LeaveEffect DEF OthersSame, TypeOK, SlotsInUse, Refresh, db, conn, del, history, Goto, DelGoto
<1>14. ASSUME NEW h \in Conns, Ack(h) PROVE SlotsInUse'
  BY <1>14, LeaveEffect DEF OthersSame, TypeOK, SlotsInUse, Ack, db, conn, del, history, Goto, DelGoto
<1>15. ASSUME NEW h \in Conns, Broadcast(h) PROVE SlotsInUse'
  BY <1>15 DEF TypeOK, SlotsInUse, Broadcast, db, conn, del, history, Goto, DelGoto
<1>16. ASSUME NEW h \in Conns, OffLoad(h) PROVE SlotsInUse'
  BY <1>16, FinishEffect DEF OthersSame, TypeOK, SlotsInUse, OffLoad, db, conn, del, history, Goto, DelGoto
<1>17. ASSUME NEW h \in Conns, OffFlush(h) PROVE SlotsInUse'
  BY <1>17, FinishEffect DEF OthersSame, TypeOK, SlotsInUse, OffFlush, db, conn, del, history, Goto, DelGoto
<1>18. ASSUME NEW h \in Conns, OffCommit(h) PROVE SlotsInUse'
  BY <1>18 DEF TypeOK, SlotsInUse, OffCommit, db, conn, del, history, Goto, DelGoto
<1>19. ASSUME NEW h \in Conns, OffRefresh(h) PROVE SlotsInUse'
  BY <1>19, FinishEffect DEF OthersSame, TypeOK, SlotsInUse, OffRefresh, db, conn, del, history, Goto, DelGoto
<1>20. ASSUME NEW h \in Conns, OffBcast(h) PROVE SlotsInUse'
  BY <1>20, FinishEffect DEF OthersSame, TypeOK, SlotsInUse, OffBcast, db, conn, del, history, Goto, DelGoto
<1>21. ASSUME NEW h \in Conns, DbError(h) PROVE SlotsInUse'
  BY <1>21, LeaveEffect, FinishEffect DEF OthersSame, TypeOK, SlotsInUse, DbError, db, conn, del, history, Goto, DelGoto
<1>22. ASSUME NEW d \in Deleters, NEW a \in Agents, Request(d, a) PROVE SlotsInUse'
  BY <1>22 DEF TypeOK, SlotsInUse, Request, db, conn, del, history, Goto, DelGoto
<1>23. ASSUME NEW d \in Deleters, DelLoad(d) PROVE SlotsInUse'
  BY <1>23 DEF TypeOK, SlotsInUse, DelLoad, db, conn, del, history, Goto, DelGoto
<1>24. ASSUME NEW d \in Deleters, DelSweep(d) PROVE SlotsInUse'
  BY <1>24 DEF TypeOK, SlotsInUse, DelSweep, db, conn, del, history, Goto, DelGoto
<1>25. ASSUME NEW d \in Deleters, DelAgent(d) PROVE SlotsInUse'
  BY <1>25 DEF TypeOK, SlotsInUse, DelAgent, db, conn, del, history, Goto, DelGoto
<1>26. ASSUME NEW d \in Deleters, DelCommit(d) PROVE SlotsInUse'
  BY <1>26 DEF TypeOK, SlotsInUse, DelCommit, db, conn, del, history, Goto, DelGoto
<1>27. ASSUME NEW d \in Deleters, DelBcast(d) PROVE SlotsInUse'
  BY <1>27 DEF TypeOK, SlotsInUse, DelBcast, db, conn, del, history, Goto, DelGoto
<1>28. ASSUME NEW d \in Deleters, Replied(d) PROVE SlotsInUse'
  BY <1>28 DEF TypeOK, SlotsInUse, Replied, db, conn, del, history, Goto, DelGoto
<1>29. ASSUME NEW d \in Deleters, DelError(d) PROVE SlotsInUse'
  BY <1>29 DEF TypeOK, SlotsInUse, DelError, db, conn, del, history, Goto, DelGoto
<1>30. ASSUME NEW a \in Agents, Silence(a) PROVE SlotsInUse'
  BY <1>30 DEF TypeOK, SlotsInUse, Silence, db, conn, del, history, Goto, DelGoto
<1>31. ASSUME Crash PROVE SlotsInUse'
  BY <1>31 DEF TypeOK, SlotsInUse, Crash, db, conn, del, history, Goto, DelGoto
<1>32. ASSUME UNCHANGED vars PROVE SlotsInUse'
  BY <1>32 DEF TypeOK, SlotsInUse, vars, db, conn, del, history
<1> QED
  BY <1>1, <1>2, <1>3, <1>4, <1>5, <1>6, <1>7, <1>8, <1>9, <1>10, <1>11, <1>12, <1>13, <1>14, <1>15, <1>16, <1>17, <1>18, <1>19, <1>20, <1>21, <1>22, <1>23, <1>24, <1>25, <1>26, <1>27, <1>28, <1>29, <1>30, <1>31, <1>32 DEF Next, Network, Handle, AwaitLock, Delete, DelAwaitLock

LEMMA StoredEffect ==
  ASSUME TypeOK, SlotsInUse, LocksProtect,
         NEW h \in Conns, pc[h] = "commit", Stored(h)
  PROVE  /\ row'[agent[h]] \in Row
         /\ \A a \in Agents \ {agent[h]} : row'[a] = row[a] /\ metrics'[a] = metrics[a]
         /\ metrics'[agent[h]] = metrics[agent[h]] \cup {work[h]}
<1>1. agent[h] \in Agents /\ work[h] \in Report
  BY DEF SlotsInUse
<1>2. CASE cached[h] = None
  BY <1>1, <1>2, NewRowType DEF TypeOK, Stored
<1>3. CASE cached[h] # None
  <2>1. row[agent[h]] \in Row /\ cached[h] \in Loaded
    BY <1>1, <1>3 DEF TypeOK, LocksProtect, ConnProtected
  <2>2. Merge(row[agent[h]], cached[h], work[h]) \in Row
    BY <1>1, <2>1, MergeType
  <2> QED
    BY <1>1, <1>3, <2>2 DEF TypeOK, Stored
<1> QED
  BY <1>2, <1>3

\* A coroutine that ends its transaction, or that has none, disturbs nobody:
\* what it writes it writes under a lock of its own.
LEMMA ConnStep ==
  ASSUME TypeOK, SlotsInUse, LocksProtect, UNCHANGED del, NEW h \in Conns,
         pc'[h] \notin {"commit", "offCommit"},
         OthersSame(h), Releases(h), WritesUnderLock(h)
  PROVE  LocksProtect'
<1>1. ASSUME NEW g \in Conns PROVE ConnProtected(g)'
  <2>1. CASE g = h
    BY <2>1 DEF ConnProtected
  <2>2. CASE g # h /\ pc[g] \in {"commit", "offCommit"}
    <3>1. agent[g] \in Agents /\ lock[agent[g]] = g
      BY <2>2 DEF SlotsInUse, LocksProtect, ConnProtected
    <3>2. lock'[agent[g]] = g /\ row'[agent[g]] = row[agent[g]]
      BY <2>2, <3>1 DEF OthersSame, Releases, WritesUnderLock
    <3> QED
      BY <2>2, <3>2 DEF LocksProtect, ConnProtected, OthersSame
  <2>3. CASE g # h /\ pc[g] \notin {"commit", "offCommit"}
    BY <2>3 DEF ConnProtected, OthersSame
  <2> QED
    BY <2>1, <2>2, <2>3
<1>2. ASSUME NEW d \in Deleters PROVE DelProtected(d)'
  <2>1. h # d
    BY ConstantsAssumption
  <2>2. CASE dpc[d] = "commit"
    <3>1. target[d] \in Agents
      BY <2>2 DEF SlotsInUse
    <3> QED
      BY <2>1, <2>2, <3>1, ConstantsAssumption
      DEF LocksProtect, DelProtected, Releases, WritesUnderLock, del
  <2>3. CASE dpc[d] # "commit"
    <3>1. swept[d] # {} => target[d] \in Agents
      BY <2>3 DEF LocksProtect, DelProtected, SlotsInUse
    <3> QED
      BY <2>3, <3>1 DEF LocksProtect, DelProtected, WritesUnderLock, del
  <2> QED
    BY <2>2, <2>3
<1>3. ASSUME NEW d \in Deleters, NEW e \in Deleters \ {d} PROVE SweepsApart(d, e)'
  BY DEF LocksProtect, SweepsApart, del
<1> QED
  BY <1>1, <1>2, <1>3 DEF LocksProtect

\* A statement of a DELETE changes no row, and no lock but a free one.
LEMMA DelStep ==
  ASSUME TypeOK, SlotsInUse, LocksProtect, UNCHANGED <<row, pc, agent, cached>>,
         NEW d \in Deleters,
         OthersSameDel(d), Releases(d) \/ Acquires(d),
         UNCHANGED metrics,
         DelProtected(d)',
         \A e \in Deleters \ {d} : SweepsApart(d, e)'
  PROVE  LocksProtect'
<1>1. ASSUME NEW g \in Conns PROVE ConnProtected(g)'
  <2>1. CASE pc[g] \in {"commit", "offCommit"}
    <3>1. agent[g] \in Agents /\ lock[agent[g]] = g
      BY <2>1 DEF SlotsInUse, LocksProtect, ConnProtected
    <3>2. lock'[agent[g]] = g
      BY <3>1, ConstantsAssumption DEF Releases, Acquires
    <3> QED
      BY <2>1, <3>2 DEF LocksProtect, ConnProtected
  <2>2. CASE pc[g] \notin {"commit", "offCommit"}
    BY <2>2 DEF ConnProtected
  <2> QED
    BY <2>1, <2>2
<1>2. ASSUME NEW e \in Deleters \ {d} PROVE DelProtected(e)'
  <2>1. dpc[e] = "commit" => target[e] \in Agents
    BY DEF SlotsInUse
  <2> QED
    BY <2>1, ConstantsAssumption
    DEF LocksProtect, DelProtected, OthersSameDel, Releases, Acquires
<1>3. ASSUME NEW e \in Deleters, NEW f \in Deleters \ {e} PROVE SweepsApart(e, f)'
  <2>1. CASE e = d
    BY <2>1
  <2>2. CASE f = d
    <3>1. SweepsApart(d, e)'
      BY <2>2
    <3> QED
      BY <2>2, <3>1 DEF SweepsApart
  <2>3. CASE e # d /\ f # d
    BY <2>3 DEF LocksProtect, SweepsApart, OthersSameDel
  <2> QED
    BY <2>1, <2>2, <2>3
<1> QED
  BY <1>1, <1>2, <1>3 DEF LocksProtect

LEMMA LocksStep ==
  ASSUME TypeOK, SlotsInUse, LocksProtect, NoOrphanMetrics, [Next]_vars
  PROVE  LocksProtect'
<1>1. ASSUME NEW h \in Conns, NEW a \in Agents, Open(h, a) PROVE LocksProtect'
  <2>1. OthersSame(h) /\ pc'[h] \notin {"commit", "offCommit"}
    BY <1>1 DEF TypeOK, OthersSame, Open, Goto
  <2>2. Releases(h)
    BY <1>1 DEF Releases, Open, db
  <2>3. WritesUnderLock(h)
    BY <1>1 DEF WritesUnderLock, Open, db
  <2>4. UNCHANGED del
    BY <1>1 DEF Open, del
  <2> QED
    BY <1>1, <2>1, <2>2, <2>3, <2>4, ConnStep
<1>2. ASSUME NEW h \in Conns, Send(h) PROVE LocksProtect'
  BY <1>2 DEF Send, LocksProtect, ConnProtected, DelProtected, SweepsApart, db, del
<1>3. ASSUME NEW h \in Conns, Hangup(h) PROVE LocksProtect'
  BY <1>3 DEF Hangup, LocksProtect, ConnProtected, DelProtected, SweepsApart, db, del
<1>4. ASSUME NEW h \in Conns, Vanish(h) PROVE LocksProtect'
  BY <1>4 DEF Vanish, LocksProtect, ConnProtected, DelProtected, SweepsApart, db, del
<1>5. ASSUME NEW h \in Conns, Detect(h) PROVE LocksProtect'
  BY <1>5 DEF Detect, LocksProtect, ConnProtected, DelProtected, SweepsApart, db, del
<1>6. ASSUME NEW h \in Conns, Disconnected(h) PROVE LocksProtect'
  <2>1. OthersSame(h) /\ pc'[h] \notin {"commit", "offCommit"}
    BY <1>6, LeaveEffect DEF Disconnected
  <2>2. Releases(h)
    BY <1>6 DEF Releases, Disconnected, db
  <2>3. WritesUnderLock(h)
    BY <1>6 DEF WritesUnderLock, Disconnected, db
  <2>4. UNCHANGED del
    BY <1>6 DEF Disconnected, del
  <2> QED
    BY <1>6, <2>1, <2>2, <2>3, <2>4, ConnStep
<1>7. ASSUME NEW h \in Conns, RejectInvalid(h) PROVE LocksProtect'
  <2>1. OthersSame(h) /\ pc'[h] \notin {"commit", "offCommit"}
    <3>1. CASE Leave(h)
      BY <3>1, LeaveEffect
    <3>2. CASE ~Leave(h)
      BY <1>7, <3>2 DEF TypeOK, OthersSame, RejectInvalid, Goto, conn
    <3> QED
      BY <3>1, <3>2
  <2>2. Releases(h) /\ WritesUnderLock(h) /\ UNCHANGED del
    BY <1>7 DEF Releases, WritesUnderLock, RejectInvalid, db, del
  <2> QED
    BY <2>1, <2>2, ConnStep
<1>8. ASSUME NEW h \in Conns, Receive(h) PROVE LocksProtect'
  <2>1. OthersSame(h) /\ pc'[h] \notin {"commit", "offCommit"}
    BY <1>8 DEF TypeOK, OthersSame, Receive, Goto
  <2>2. Releases(h)
    BY <1>8 DEF Releases, Receive, db
  <2>3. WritesUnderLock(h)
    BY <1>8 DEF WritesUnderLock, Receive, db
  <2>4. UNCHANGED del
    BY <1>8 DEF Receive, del
  <2> QED
    BY <1>8, <2>1, <2>2, <2>3, <2>4, ConnStep
<1>9. ASSUME NEW h \in Conns, Load(h) PROVE LocksProtect'
  <2>1. OthersSame(h) /\ pc'[h] \notin {"commit", "offCommit"}
    BY <1>9 DEF TypeOK, OthersSame, Load, Goto
  <2>2. Releases(h)
    BY <1>9 DEF Releases, Load, db
  <2>3. WritesUnderLock(h)
    BY <1>9 DEF WritesUnderLock, Load, db
  <2>4. UNCHANGED del
    BY <1>9 DEF Load, del
  <2> QED
    BY <1>9, <2>1, <2>2, <2>3, <2>4, ConnStep
<1>10. ASSUME NEW h \in Conns, Flush(h) PROVE LocksProtect'
  <2>1. CASE Leave(h) /\ UNCHANGED lock
    <3>1. Releases(h) /\ WritesUnderLock(h) /\ UNCHANGED del
      BY <1>10, <2>1 DEF Releases, WritesUnderLock, Flush, del
    <3> QED
      BY <2>1, <3>1, LeaveEffect, ConnStep
  <2>2. CASE ~(Leave(h) /\ UNCHANGED lock)
    <3>1. /\ agent[h] \in Agents /\ lock[agent[h]] = None /\ lock'[agent[h]] = h
          /\ \A b \in Agents \ {agent[h]} : lock'[b] = lock[b]
      BY <1>10, <2>2 DEF TypeOK, SlotsInUse, Flush
    <3>2. pc' = [pc EXCEPT ![h] = "commit"] /\ UNCHANGED <<row, metrics, conn, del>>
      BY <1>10, <2>2 DEF Flush, Goto
    <3>3. ASSUME NEW g \in Conns PROVE ConnProtected(g)'
      <4>1. CASE g = h
        BY <1>10, <2>2, <3>1, <3>2, <4>1 DEF TypeOK, ConnProtected, Flush, conn
      <4>2. CASE g # h /\ pc[g] \in {"commit", "offCommit"}
        <5>1. lock[agent[g]] = g /\ agent[g] \in Agents
          BY <4>2 DEF SlotsInUse, LocksProtect, ConnProtected
        <5> QED
          BY <3>1, <3>2, <4>2, <5>1, ConstantsAssumption
          DEF TypeOK, LocksProtect, ConnProtected, conn
      <4>3. CASE g # h /\ pc[g] \notin {"commit", "offCommit"}
        BY <3>2, <4>3 DEF TypeOK, ConnProtected
      <4> QED
        BY <4>1, <4>2, <4>3
    <3>4. ASSUME NEW d \in Deleters PROVE DelProtected(d)'
      <4>1. target[d] \in Agents =>
              (lock'[target[d]] = d <=> lock[target[d]] = d)
        BY <3>1, ConstantsAssumption
      <4> QED
        BY <3>2, <4>1 DEF LocksProtect, DelProtected, SlotsInUse, del
    <3>5. ASSUME NEW d \in Deleters, NEW e \in Deleters \ {d} PROVE SweepsApart(d, e)'
      BY <3>2 DEF LocksProtect, SweepsApart, del
    <3> QED
      BY <3>3, <3>4, <3>5 DEF LocksProtect
  <2> QED
    BY <2>1, <2>2
<1>11. ASSUME NEW h \in Conns, Commit(h) PROVE LocksProtect'
  <2>1. OthersSame(h) /\ pc'[h] \notin {"commit", "offCommit"}
    BY <1>11 DEF TypeOK, OthersSame, Commit, Goto, conn
  <2>2. Releases(h) /\ UNCHANGED del
    BY <1>11 DEF TypeOK, Releases, Commit, Stored, Unlock, del
  <2>3. WritesUnderLock(h)
    BY <1>11, StoredEffect DEF WritesUnderLock, LocksProtect, ConnProtected, Commit
  <2> QED
    BY <2>1, <2>2, <2>3, ConnStep
<1>12. ASSUME NEW h \in Conns, CommitLost(h) PROVE LocksProtect'
  <2>1. OthersSame(h) /\ pc'[h] \notin {"commit", "offCommit"}
    BY <1>12, LeaveEffect DEF CommitLost
  <2>2. Releases(h) /\ UNCHANGED del
    BY <1>12 DEF TypeOK, Releases, CommitLost, Stored, Unlock, del
  <2>3. WritesUnderLock(h)
    BY <1>12, StoredEffect DEF WritesUnderLock, LocksProtect, ConnProtected, CommitLost
  <2> QED
    BY <2>1, <2>2, <2>3, ConnStep
<1>13. ASSUME NEW h \in Conns, Refresh(h) PROVE LocksProtect'
  <2>1. OthersSame(h) /\ pc'[h] \notin {"commit", "offCommit"}
    <3>1. CASE Leave(h)
      BY <3>1, LeaveEffect
    <3>2. CASE ~Leave(h)
      BY <1>13, <3>2 DEF TypeOK, OthersSame, Refresh, Goto, conn
    <3> QED
      BY <3>1, <3>2
  <2>2. Releases(h) /\ WritesUnderLock(h) /\ UNCHANGED del
    BY <1>13 DEF Releases, WritesUnderLock, Refresh, db, del
  <2> QED
    BY <2>1, <2>2, ConnStep
<1>14. ASSUME NEW h \in Conns, Ack(h) PROVE LocksProtect'
  <2>1. OthersSame(h) /\ pc'[h] \notin {"commit", "offCommit"}
    <3>1. CASE Leave(h)
      BY <3>1, LeaveEffect
    <3>2. CASE ~Leave(h)
      BY <1>14, <3>2 DEF TypeOK, OthersSame, Ack, Goto, conn
    <3> QED
      BY <3>1, <3>2
  <2>2. Releases(h) /\ WritesUnderLock(h) /\ UNCHANGED del
    BY <1>14 DEF Releases, WritesUnderLock, Ack, db, del
  <2> QED
    BY <2>1, <2>2, ConnStep
<1>15. ASSUME NEW h \in Conns, Broadcast(h) PROVE LocksProtect'
  <2>1. OthersSame(h) /\ pc'[h] \notin {"commit", "offCommit"}
    BY <1>15 DEF TypeOK, OthersSame, Broadcast, Goto
  <2>2. Releases(h)
    BY <1>15 DEF Releases, Broadcast, db
  <2>3. WritesUnderLock(h)
    BY <1>15 DEF WritesUnderLock, Broadcast, db
  <2>4. UNCHANGED del
    BY <1>15 DEF Broadcast, del
  <2> QED
    BY <1>15, <2>1, <2>2, <2>3, <2>4, ConnStep
<1>16. ASSUME NEW h \in Conns, OffLoad(h) PROVE LocksProtect'
  <2>1. OthersSame(h) /\ pc'[h] \notin {"commit", "offCommit"}
    <3>1. CASE Finish(h)
      BY <3>1, FinishEffect
    <3>2. CASE ~Finish(h)
      BY <1>16, <3>2 DEF TypeOK, OthersSame, OffLoad, Goto, conn
    <3> QED
      BY <3>1, <3>2
  <2>2. Releases(h) /\ WritesUnderLock(h) /\ UNCHANGED del
    BY <1>16 DEF Releases, WritesUnderLock, OffLoad, db, del
  <2> QED
    BY <2>1, <2>2, ConnStep
<1>17. ASSUME NEW h \in Conns, OffFlush(h) PROVE LocksProtect'
  <2>1. CASE Finish(h) /\ UNCHANGED lock
    <3>1. Releases(h) /\ WritesUnderLock(h) /\ UNCHANGED del
      BY <1>17, <2>1 DEF Releases, WritesUnderLock, OffFlush, del
    <3> QED
      BY <2>1, <3>1, FinishEffect, ConnStep
  <2>2. CASE ~(Finish(h) /\ UNCHANGED lock)
    <3>1. /\ agent[h] \in Agents /\ lock[agent[h]] = None /\ lock'[agent[h]] = h
          /\ \A b \in Agents \ {agent[h]} : lock'[b] = lock[b]
      BY <1>17, <2>2 DEF TypeOK, SlotsInUse, OffFlush
    <3>2. pc' = [pc EXCEPT ![h] = "offCommit"] /\ UNCHANGED <<row, metrics, conn, del>>
      BY <1>17, <2>2 DEF OffFlush, Goto
    <3>3. ASSUME NEW g \in Conns PROVE ConnProtected(g)'
      <4>1. CASE g = h
        BY <1>17, <2>2, <3>1, <3>2, <4>1 DEF TypeOK, ConnProtected, OffFlush, conn
      <4>2. CASE g # h /\ pc[g] \in {"commit", "offCommit"}
        <5>1. lock[agent[g]] = g /\ agent[g] \in Agents
          BY <4>2 DEF SlotsInUse, LocksProtect, ConnProtected
        <5> QED
          BY <3>1, <3>2, <4>2, <5>1, ConstantsAssumption
          DEF TypeOK, LocksProtect, ConnProtected, conn
      <4>3. CASE g # h /\ pc[g] \notin {"commit", "offCommit"}
        BY <3>2, <4>3 DEF TypeOK, ConnProtected
      <4> QED
        BY <4>1, <4>2, <4>3
    <3>4. ASSUME NEW d \in Deleters PROVE DelProtected(d)'
      <4>1. target[d] \in Agents =>
              (lock'[target[d]] = d <=> lock[target[d]] = d)
        BY <3>1, ConstantsAssumption
      <4> QED
        BY <3>2, <4>1 DEF LocksProtect, DelProtected, SlotsInUse, del
    <3>5. ASSUME NEW d \in Deleters, NEW e \in Deleters \ {d} PROVE SweepsApart(d, e)'
      BY <3>2 DEF LocksProtect, SweepsApart, del
    <3> QED
      BY <3>3, <3>4, <3>5 DEF LocksProtect
  <2> QED
    BY <2>1, <2>2
<1>18. ASSUME NEW h \in Conns, OffCommit(h) PROVE LocksProtect'
  <2>1. OthersSame(h) /\ pc'[h] \notin {"commit", "offCommit"}
    BY <1>18 DEF TypeOK, OthersSame, OffCommit, Goto, conn
  <2>2. Releases(h) /\ UNCHANGED del
    BY <1>18 DEF TypeOK, Releases, OffCommit, Unlock, del
  <2>3. WritesUnderLock(h)
    BY <1>18 DEF TypeOK, WritesUnderLock, LocksProtect, ConnProtected, OffCommit
  <2> QED
    BY <2>1, <2>2, <2>3, ConnStep
<1>19. ASSUME NEW h \in Conns, OffRefresh(h) PROVE LocksProtect'
  <2>1. OthersSame(h) /\ pc'[h] \notin {"commit", "offCommit"}
    <3>1. CASE Finish(h)
      BY <3>1, FinishEffect
    <3>2. CASE ~Finish(h)
      BY <1>19, <3>2 DEF TypeOK, OthersSame, OffRefresh, Goto, conn
    <3> QED
      BY <3>1, <3>2
  <2>2. Releases(h) /\ WritesUnderLock(h) /\ UNCHANGED del
    BY <1>19 DEF Releases, WritesUnderLock, OffRefresh, db, del
  <2> QED
    BY <2>1, <2>2, ConnStep
<1>20. ASSUME NEW h \in Conns, OffBcast(h) PROVE LocksProtect'
  <2>1. OthersSame(h) /\ pc'[h] \notin {"commit", "offCommit"}
    BY <1>20, FinishEffect DEF OffBcast
  <2>2. Releases(h)
    BY <1>20 DEF Releases, OffBcast, db
  <2>3. WritesUnderLock(h)
    BY <1>20 DEF WritesUnderLock, OffBcast, db
  <2>4. UNCHANGED del
    BY <1>20 DEF OffBcast, del
  <2> QED
    BY <1>20, <2>1, <2>2, <2>3, <2>4, ConnStep
<1>21. ASSUME NEW h \in Conns, DbError(h) PROVE LocksProtect'
  <2>1. OthersSame(h) /\ pc'[h] \notin {"commit", "offCommit"}
    BY <1>21, LeaveEffect, FinishEffect DEF DbError
  <2>2. Releases(h) /\ WritesUnderLock(h) /\ UNCHANGED del
    BY <1>21 DEF TypeOK, Releases, WritesUnderLock, DbError, Unlock, del
  <2> QED
    BY <2>1, <2>2, ConnStep
<1>22. ASSUME NEW d \in Deleters, NEW a \in Agents, Request(d, a) PROVE LocksProtect'
  <2>1. OthersSameDel(d) /\ Releases(d) /\ UNCHANGED <<row, metrics, pc, agent, cached>>
    BY <1>22 DEF TypeOK, OthersSameDel, Releases, Request, DelGoto, db, conn
  <2>2. DelProtected(d)'
    BY <1>22 DEF TypeOK, SlotsInUse, LocksProtect, DelProtected, Request, DelGoto, db
  <2>3. ASSUME NEW e \in Deleters \ {d} PROVE SweepsApart(d, e)'
    BY <1>22 DEF TypeOK, LocksProtect, DelProtected, SweepsApart, Request, DelGoto
  <2> QED
    BY <2>1, <2>2, <2>3, DelStep
<1>23. ASSUME NEW d \in Deleters, DelLoad(d) PROVE LocksProtect'
  <2>1. OthersSameDel(d) /\ Releases(d) /\ UNCHANGED <<row, metrics, pc, agent, cached>>
    BY <1>23 DEF TypeOK, OthersSameDel, Releases, DelLoad, DelGoto, db, conn
  <2>2. DelProtected(d)'
    BY <1>23 DEF TypeOK, SlotsInUse, LocksProtect, DelProtected, DelLoad, DelGoto, db
  <2>3. ASSUME NEW e \in Deleters \ {d} PROVE SweepsApart(d, e)'
    BY <1>23 DEF TypeOK, LocksProtect, DelProtected, SweepsApart, DelLoad, DelGoto
  <2> QED
    BY <2>1, <2>2, <2>3, DelStep
<1>24. ASSUME NEW d \in Deleters, DelSweep(d) PROVE LocksProtect'
  <2>1. OthersSameDel(d) /\ Releases(d) /\ UNCHANGED <<row, metrics, pc, agent, cached>>
    BY <1>24 DEF TypeOK, OthersSameDel, Releases, DelSweep, DelGoto, db, conn
  <2>2. DelProtected(d)'
    BY <1>24 DEF TypeOK, SlotsInUse, LocksProtect, DelProtected, DelSweep, DelGoto, db
  <2>3. ASSUME NEW e \in Deleters \ {d} PROVE SweepsApart(d, e)'
    BY <1>24 DEF TypeOK, LocksProtect, DelProtected, SweepsApart, DelSweep, DelGoto
  <2> QED
    BY <2>1, <2>2, <2>3, DelStep
<1>25. ASSUME NEW d \in Deleters, DelAgent(d) PROVE LocksProtect'
  <2>1. OthersSameDel(d) /\ Acquires(d) /\ UNCHANGED <<row, metrics, pc, agent, cached>>
    BY <1>25 DEF TypeOK, OthersSameDel, Acquires, DelAgent, DelGoto, db, conn
  <2>2. DelProtected(d)'
    <3>1. /\ target[d] \in Agents /\ DelProtected(d) /\ lock[target[d]] = None
          /\ UNCHANGED <<metrics, target>>
      BY <1>25 DEF SlotsInUse, LocksProtect, DelAgent
    <3>2. d # None
      BY ConstantsAssumption
    <3>3. CASE row[target[d]] = None
      <4>1. swept[d] = {} /\ lock' = lock /\ swept' = swept
        BY <1>25, <3>1, <3>3 DEF DelProtected, NoOrphanMetrics, DelAgent
      <4> QED
        BY <3>1, <3>2, <4>1 DEF DelProtected
    <3>4. CASE row[target[d]] # None /\ metrics[target[d]] \subseteq swept[d]
      <4>1. /\ dpc'[d] = "commit" /\ swept' = swept
            /\ lock'[target[d]] = d /\ swept[d] \subseteq metrics[target[d]]
        BY <1>25, <3>1, <3>4 DEF TypeOK, DelProtected, DelAgent, DelGoto
      <4> QED
        BY <3>1, <3>4, <4>1 DEF DelProtected
    <3>5. CASE row[target[d]] # None /\ ~(metrics[target[d]] \subseteq swept[d])
      BY <1>25, <3>1, <3>5 DEF TypeOK, DelProtected, DelAgent, DelGoto
    <3> QED
      BY <3>3, <3>4, <3>5
  <2>3. ASSUME NEW e \in Deleters \ {d} PROVE SweepsApart(d, e)'
    BY <1>25 DEF TypeOK, LocksProtect, DelProtected, SweepsApart, DelAgent, DelGoto
  <2> QED
    BY <2>1, <2>2, <2>3, DelStep
<1>26. ASSUME NEW d \in Deleters, DelCommit(d) PROVE LocksProtect'
  <2> DEFINE t == target[d]
  <2>1. /\ t \in Agents /\ OthersSameDel(d) /\ UNCHANGED <<pc, agent, cached>>
        /\ dpc'[d] = "bcast" /\ target'[d] = t /\ swept'[d] = {}
        /\ Releases(d)
    BY <1>26 DEF TypeOK, SlotsInUse, OthersSameDel, Releases, DelCommit, Unlock, DelGoto, conn
  <2>2. /\ \A b \in Agents \ {t} : row'[b] = row[b] /\ metrics'[b] = metrics[b]
        /\ metrics'[t] = metrics[t] \ swept[d]
        /\ lock[t] # d => row'[t] = row[t]
    BY <1>26, <2>1 DEF TypeOK, DelCommit
  <2>3. ASSUME NEW g \in Conns PROVE ConnProtected(g)'
    <3>1. CASE pc[g] \in {"commit", "offCommit"}
      <4>1. agent[g] \in Agents /\ lock[agent[g]] = g
        BY <3>1 DEF SlotsInUse, LocksProtect, ConnProtected
      <4>2. lock'[agent[g]] = g /\ row'[agent[g]] = row[agent[g]]
        BY <2>1, <2>2, <4>1, ConstantsAssumption DEF Releases
      <4> QED
        BY <2>1, <3>1, <4>2 DEF LocksProtect, ConnProtected
    <3>2. CASE pc[g] \notin {"commit", "offCommit"}
      BY <2>1, <3>2 DEF ConnProtected
    <3> QED
      BY <3>1, <3>2
  <2>4. ASSUME NEW e \in Deleters PROVE DelProtected(e)'
    <3>1. CASE e = d
      BY <2>1, <3>1 DEF DelProtected
    <3>2. CASE e # d
      <4>1. dpc'[e] = dpc[e] /\ target'[e] = target[e] /\ swept'[e] = swept[e]
        BY <2>1, <3>2 DEF OthersSameDel
      <4>2. dpc[e] # "free" => target[e] \in Agents
        BY DEF SlotsInUse
      <4>3. target[e] = t => swept[e] = {} \/ swept[d] = {}
        BY <3>2 DEF LocksProtect, SweepsApart
      <4>4. DelProtected(e)
        BY DEF LocksProtect
      <4>5. CASE dpc[e] = "commit"
        BY <2>1, <2>2, <3>2, <4>1, <4>2, <4>3, <4>4, <4>5, ConstantsAssumption
        DEF DelProtected, Releases
      <4>6. CASE dpc[e] # "commit"
        BY <2>2, <4>1, <4>2, <4>3, <4>4, <4>6 DEF DelProtected
      <4> QED
        BY <4>5, <4>6
    <3> QED
      BY <3>1, <3>2
  <2>5. ASSUME NEW e \in Deleters, NEW f \in Deleters \ {e} PROVE SweepsApart(e, f)'
    BY <2>1 DEF LocksProtect, SweepsApart, OthersSameDel
  <2> QED
    BY <2>3, <2>4, <2>5 DEF LocksProtect
<1>27. ASSUME NEW d \in Deleters, DelBcast(d) PROVE LocksProtect'
  <2>1. OthersSameDel(d) /\ Releases(d) /\ UNCHANGED <<row, metrics, pc, agent, cached>>
    BY <1>27 DEF TypeOK, OthersSameDel, Releases, DelBcast, DelGoto, db, conn
  <2>2. DelProtected(d)'
    BY <1>27 DEF TypeOK, SlotsInUse, LocksProtect, DelProtected, DelBcast, DelGoto, db
  <2>3. ASSUME NEW e \in Deleters \ {d} PROVE SweepsApart(d, e)'
    BY <1>27 DEF TypeOK, LocksProtect, DelProtected, SweepsApart, DelBcast, DelGoto
  <2> QED
    BY <2>1, <2>2, <2>3, DelStep
<1>28. ASSUME NEW d \in Deleters, Replied(d) PROVE LocksProtect'
  <2>1. OthersSameDel(d) /\ Releases(d) /\ UNCHANGED <<row, metrics, pc, agent, cached>>
    BY <1>28 DEF TypeOK, OthersSameDel, Releases, Replied, DelGoto, db, conn
  <2>2. DelProtected(d)'
    BY <1>28 DEF TypeOK, SlotsInUse, LocksProtect, DelProtected, Replied, DelGoto, db
  <2>3. ASSUME NEW e \in Deleters \ {d} PROVE SweepsApart(d, e)'
    BY <1>28 DEF TypeOK, LocksProtect, DelProtected, SweepsApart, Replied, DelGoto
  <2> QED
    BY <2>1, <2>2, <2>3, DelStep
<1>29. ASSUME NEW d \in Deleters, DelError(d) PROVE LocksProtect'
  <2>1. OthersSameDel(d) /\ Releases(d) /\ UNCHANGED <<row, metrics, pc, agent, cached>>
    BY <1>29 DEF TypeOK, OthersSameDel, Releases, DelError, DelGoto, db, conn, Unlock
  <2>2. DelProtected(d)'
    BY <1>29 DEF TypeOK, SlotsInUse, LocksProtect, DelProtected, DelError, DelGoto, db, Unlock
  <2>3. ASSUME NEW e \in Deleters \ {d} PROVE SweepsApart(d, e)'
    BY <1>29 DEF TypeOK, LocksProtect, DelProtected, SweepsApart, DelError, DelGoto, Unlock
  <2> QED
    BY <2>1, <2>2, <2>3, DelStep
<1>30. ASSUME NEW a \in Agents, Silence(a) PROVE LocksProtect'
  <2>1. row[a] \in Row /\ row'[a] \in Row
    BY <1>30 DEF TypeOK, Silence, Row
  <2>2. \A b \in Agents : row'[b] = None <=> row[b] = None
    BY <1>30, <2>1, SentinelAssumption DEF TypeOK, Silence
  <2>3. UNCHANGED <<metrics, lock, pc, agent, cached, dpc, target, swept>>
    BY <1>30 DEF Silence, conn, del
  <2>4. ASSUME NEW g \in Conns PROVE ConnProtected(g)'
    BY <2>2, <2>3 DEF LocksProtect, ConnProtected, SlotsInUse
  <2>5. /\ \A d \in Deleters : DelProtected(d)'
        /\ \A d \in Deleters : \A e \in Deleters \ {d} : SweepsApart(d, e)'
    BY <2>3 DEF LocksProtect, DelProtected, SweepsApart
  <2> QED
    BY <2>4, <2>5 DEF LocksProtect
<1>31. ASSUME Crash PROVE LocksProtect'
  BY <1>31 DEF LocksProtect, ConnProtected, DelProtected, SweepsApart, Crash
<1>32. ASSUME UNCHANGED vars PROVE LocksProtect'
  BY <1>32 DEF LocksProtect, ConnProtected, DelProtected, SweepsApart, vars, db, conn, del
<1> QED
  BY <1>1, <1>2, <1>3, <1>4, <1>5, <1>6, <1>7, <1>8, <1>9, <1>10, <1>11, <1>12, <1>13, <1>14, <1>15, <1>16, <1>17, <1>18, <1>19, <1>20, <1>21, <1>22, <1>23, <1>24, <1>25, <1>26, <1>27, <1>28, <1>29, <1>30, <1>31, <1>32 DEF Next, Network, Handle, AwaitLock, Delete, DelAwaitLock

-----------------------------------------------------------------------------
(* How the committed tables change *)

\* The only steps that write the tables are the commits and the clock; each
\* changes one machine, as one operation of the registry does.
TableWrite(a) ==
  \/ /\ \E m \in Report : metrics' = [metrics EXCEPT ![a] = @ \cup {m}]
     /\ row'[a] \in Row /\ row'[a].seen = "recent"
  \/ row[a] \in Row /\ row'[a] = [row[a] EXCEPT !.seen = "past"] /\ metrics' = metrics
  \/ row[a] # None /\ row'[a] = None /\ metrics' = [metrics EXCEPT ![a] = {}]

WritesOne == \E a \in Agents :
  TableWrite(a) /\ \A b \in Agents \ {a} : row'[b] = row[b]

LEMMA StoredWrites ==
  ASSUME TypeOK, SlotsInUse, LocksProtect,
         NEW h \in Conns, pc[h] = "commit", Stored(h)
  PROVE  WritesOne
<1> DEFINE a == agent[h]
<1>1. a \in Agents /\ work[h] \in Report
  BY DEF SlotsInUse
<1>2. metrics' = [metrics EXCEPT ![a] = @ \cup {work[h]}]
  BY DEF Stored
<1>3. row'[a] \in Row /\ \A b \in Agents \ {a} : row'[b] = row[b]
  BY StoredEffect
<1>4. row'[a].seen = "recent"
  BY <1>1 DEF TypeOK, Stored, NewRow, Merge
<1> QED
  BY <1>1, <1>2, <1>3, <1>4 DEF WritesOne, TableWrite

LEMMA Writes ==
  ASSUME TypeOK, SlotsInUse, LocksProtect, NoOrphanMetrics, [Next]_vars
  PROVE  WritesOne \/ UNCHANGED <<row, metrics>>
<1>1. ASSUME NEW h \in Conns, Commit(h) \/ CommitLost(h) PROVE WritesOne
  BY <1>1, StoredWrites DEF Commit, CommitLost
<1>2. ASSUME NEW h \in Conns, OffCommit(h) PROVE WritesOne
  <2>1. agent[h] \in Agents /\ row[agent[h]] \in Row
    BY <1>2 DEF TypeOK, SlotsInUse, LocksProtect, ConnProtected, OffCommit
  <2> QED
    BY <1>2, <2>1 DEF TypeOK, OffCommit, WritesOne, TableWrite
<1>3. ASSUME NEW a \in Agents, Silence(a) PROVE WritesOne
  BY <1>3 DEF TypeOK, Silence, WritesOne, TableWrite
<1>4. ASSUME NEW d \in Deleters, DelCommit(d) PROVE WritesOne \/ UNCHANGED <<row, metrics>>
  <2> DEFINE a == target[d]
  <2>1. a \in Agents /\ DelProtected(d) /\ dpc[d] = "commit"
    BY <1>4 DEF SlotsInUse, LocksProtect, DelCommit
  <2>2. CASE lock[a] # d
    BY <1>4, <2>1, <2>2 DEF TypeOK, DelProtected, DelCommit
  <2>3. CASE lock[a] = d /\ row[a] = None
    BY <1>4, <2>1, <2>3 DEF TypeOK, NoOrphanMetrics, DelCommit
  <2>4. CASE lock[a] = d /\ row[a] # None
    <3>1. metrics[a] \ swept[d] = {}
      BY <2>1, <2>4 DEF DelProtected
    <3> QED
      BY <1>4, <2>1, <2>4, <3>1 DEF TypeOK, DelCommit, WritesOne, TableWrite
  <2> QED
    BY <2>2, <2>3, <2>4
<1>5. CASE UNCHANGED <<row, metrics>>
  BY <1>5
<1>6. ASSUME NEW h \in Conns, Network(h) PROVE UNCHANGED <<row, metrics>>
  BY <1>6 DEF Network, Open, Send, Hangup, Vanish, Detect, db
<1>7. ASSUME NEW h \in Conns, Handle(h), ~Commit(h), ~OffCommit(h)
      PROVE UNCHANGED <<row, metrics>>
  BY <1>7 DEF Handle, Disconnected, RejectInvalid, Receive, Load, Refresh, Ack,
              Broadcast, OffLoad, OffRefresh, OffBcast, db
<1>8. ASSUME NEW h \in Conns, AwaitLock(h) \/ DbError(h) PROVE UNCHANGED <<row, metrics>>
  BY <1>8 DEF AwaitLock, Flush, OffFlush, DbError
<1>9. ASSUME NEW d \in Deleters,
             \/ \E a \in Agents : Request(d, a)
             \/ Delete(d) \/ DelAwaitLock(d) \/ Replied(d) \/ DelError(d),
             ~DelCommit(d)
      PROVE UNCHANGED <<row, metrics>>
  BY <1>9 DEF Request, Delete, DelLoad, DelBcast, DelAwaitLock, DelSweep, DelAgent,
              Replied, DelError, db
<1>10. CASE Crash \/ UNCHANGED vars
  BY <1>10 DEF Crash, vars, db
<1> QED
  BY <1>1, <1>2, <1>3, <1>4, <1>6, <1>7, <1>8, <1>9, <1>10 DEF Next

LEMMA OrphanStep ==
  ASSUME TypeOK, SlotsInUse, LocksProtect, NoOrphanMetrics, [Next]_vars
  PROVE  NoOrphanMetrics'
<1>1. CASE WritesOne
  <2>1. PICK a \in Agents : TableWrite(a) /\ \A b \in Agents \ {a} : row'[b] = row[b]
    BY <1>1 DEF WritesOne
  <2>2. \A b \in Agents \ {a} : metrics'[b] = metrics[b]
    BY <2>1 DEF TypeOK, TableWrite
  <2>3. row'[a] = None => metrics'[a] = {}
    <3>1. CASE row'[a] \in Row
      BY <3>1, SentinelAssumption
    <3>2. CASE row[a] \in Row /\ row'[a] = [row[a] EXCEPT !.seen = "past"]
      BY <3>2, SentinelAssumption DEF Row
    <3>3. CASE metrics' = [metrics EXCEPT ![a] = {}]
      BY <3>3 DEF TypeOK
    <3> QED
      BY <2>1, <3>1, <3>2, <3>3 DEF TableWrite
  <2> QED
    BY <2>1, <2>2, <2>3 DEF NoOrphanMetrics
<1>2. CASE UNCHANGED <<row, metrics>>
  BY <1>2 DEF NoOrphanMetrics
<1> QED
  BY <1>1, <1>2, Writes

-----------------------------------------------------------------------------
(* The theorems *)

LEMMA InitInv == Init => IInv
<1> SUFFICES ASSUME Init PROVE IInv
  OBVIOUS
<1>1. TypeOK
  BY ConstantsAssumption DEF Init, TypeOK, ConnPc, DelPc
<1>2. SlotsInUse
  BY DEF Init, SlotsInUse
<1>3. LocksProtect /\ NoOrphanMetrics
  BY DEF Init, LocksProtect, ConnProtected, DelProtected, SweepsApart, NoOrphanMetrics
<1> QED
  BY <1>1, <1>2, <1>3 DEF IInv

LEMMA StepInv == IInv /\ [Next]_vars => IInv'
BY TypeStep, SlotsStep, LocksStep, OrphanStep DEF IInv

\* Every reachable state satisfies the inductive invariant.
THEOREM Invariance == Spec => []IInv
BY InitInv, StepInv, PTL DEF Spec

\* Every variable keeps its type.
THEOREM TypeCorrect == Spec => []TypeOK
<1>1. IInv => TypeOK
  BY DEF IInv
<1> QED
  BY Invariance, <1>1, PTL

\* What a transaction found under its row lock holds until its commit.
THEOREM LocksProtectTransactions == Spec => []LocksProtect
<1>1. IInv => LocksProtect
  BY DEF IInv
<1> QED
  BY Invariance, <1>1, PTL

\* No removal leaves samples of a machine behind, however many DELETE requests
\* and reports race and whatever fails in between.
THEOREM NoOrphans == Spec => []NoOrphanMetrics
<1>1. IInv => NoOrphanMetrics
  BY DEF IInv
<1> QED
  BY Invariance, <1>1, PTL

-----------------------------------------------------------------------------
(* Refinement *)

StatusMap == [a \in Agents |-> Status(a)]

LEMMA WriteMaps ==
  ASSUME TypeOK, TypeOK', NEW a \in Agents, TableWrite(a),
         \A b \in Agents \ {a} : row'[b] = row[b]
  PROVE  [Registry!RegistryNext]_<<StatusMap, metrics>>
<1>1. \A b \in Agents \ {a} : Status(b)' = Status(b)
  BY DEF Status
<1>2. ASSUME NEW m \in Report, metrics' = [metrics EXCEPT ![a] = @ \cup {m}],
             row'[a] \in Row, row'[a].seen = "recent"
      PROVE  Registry!Report(a, m)
  <2>1. Status(a)' = "online"
    BY <1>2, SentinelAssumption DEF Status
  <2> QED
    BY <1>1, <1>2, <2>1 DEF Registry!Report
<1>3. ASSUME row[a] \in Row, row'[a] = [row[a] EXCEPT !.seen = "past"], metrics' = metrics
      PROVE  Registry!GoOffline(a) \/ UNCHANGED <<StatusMap, metrics>>
  <2>1. row'[a].seen = "past" /\ row'[a] # None /\ row[a] # None
    BY <1>3, SentinelAssumption DEF Row
  <2>2. Status(a)' = "offline" /\ Status(a) \in {"online", "offline"}
    BY <2>1 DEF Status
  <2>3. CASE Status(a) = "online"
    BY <1>1, <1>3, <2>2, <2>3 DEF Registry!GoOffline
  <2>4. CASE Status(a) = "offline"
    BY <1>1, <1>3, <2>2, <2>4 DEF StatusMap
  <2> QED
    BY <2>2, <2>3, <2>4
<1>4. ASSUME row[a] # None, row'[a] = None, metrics' = [metrics EXCEPT ![a] = {}]
      PROVE  Registry!Remove(a)
  <2>1. Status(a)' = "absent" /\ Status(a) # "absent"
    BY <1>4 DEF Status
  <2> QED
    BY <1>1, <1>4, <2>1 DEF Registry!Remove
<1> QED
  BY <1>2, <1>3, <1>4 DEF TableWrite, Registry!RegistryNext

\* The store implements the registry: reports, lost connections, silence and
\* removals are the only things the rest of the system can observe, whatever
\* handlers, transactions and failures are behind them.
THEOREM Refinement == Spec => ImplementsRegistry
<1>1. Init => Registry!RegistryInit
  BY DEF Init, Registry!RegistryInit, Status
<1>2. IInv /\ IInv' /\ [Next]_vars => [Registry!RegistryNext]_(Registry!rvars)
  <2> SUFFICES ASSUME IInv, IInv', [Next]_vars
               PROVE  [Registry!RegistryNext]_<<StatusMap, metrics>>
    BY DEF Registry!rvars, StatusMap
  <2>1. CASE WritesOne
    BY <2>1, WriteMaps DEF WritesOne, IInv
  <2>2. CASE UNCHANGED <<row, metrics>>
    BY <2>2 DEF StatusMap, Status
  <2> QED
    BY <2>1, <2>2, Writes DEF IInv
<1> QED
  BY <1>1, <1>2, Invariance, PTL DEF Spec, ImplementsRegistry, Registry!RegistrySpec
=============================================================================
