-------------------------- MODULE BroadcasterProofs --------------------------
(* Theorems about Broadcaster for every value of its constants. *)
EXTENDS Broadcaster, TLAPS

LEMMA BlankType == Blank \in Picture
BY ConstantsAssumption DEF Blank, Picture, State

\* A snapshot is a message about all machines.
LEMMA PictureIsMessage == Picture \subseteq Message
BY DEF Picture, Message

LEMMA RowIsMessage ==
  ASSUME NEW m \in Machines, table \in Picture
  PROVE  [x \in {m} |-> table[x]] \in Message
<1>1. [x \in {m} |-> table[x]] \in [{m} -> State]
  BY DEF Picture
<1> QED
  BY <1>1 DEF Message

LEMMA WriteType ==
  ASSUME TypeOK, NEW w \in Sockets, NEW m \in Message, Write(w, m)
  PROVE  view' \in [Sockets -> Picture]
<1>1. PICK S \in SUBSET Machines : m \in [S -> State]
  BY DEF Message
<1>2. [x \in Machines |-> IF x \in DOMAIN m THEN m[x] ELSE view[w][x]] \in Picture
  BY <1>1 DEF TypeOK, Picture
<1> QED
  BY <1>2 DEF TypeOK, Write

LEMMA ChangeType ==
  ASSUME TypeOK, NEW m \in Machines, NEW v, Change(m, v), v = 0 \/ v = changes + 1
  PROVE  table' \in Picture /\ changes' \in 0..MaxChanges
<1>1. v \in State /\ changes' \in 0..MaxChanges
  BY ConstantsAssumption DEF TypeOK, Change, State
<1> QED
  BY <1>1 DEF TypeOK, Change, Picture

LEMMA TypeStep ==
  ASSUME IInv, [Next]_vars
  PROVE  TypeOK'
<1> USE DEF IInv, TypeOK, DeadAreClosed, HandlerPc, TaskPc, Tasks, store, handler, task, At, TaskAt
<1>1. ASSUME NEW w \in Sockets, Connect(w) PROVE TypeOK'
  BY <1>1 DEF Connect
<1>2. ASSUME NEW w \in Sockets, Stall(w) PROVE TypeOK'
  BY <1>2 DEF Stall
<1>3. ASSUME NEW w \in Sockets, Resume(w) PROVE TypeOK'
  BY <1>3 DEF Resume
<1>4. ASSUME NEW w \in Sockets, Close(w) PROVE TypeOK'
  BY <1>4 DEF Close
<1>5. ASSUME NEW w \in Sockets, Query(w) PROVE TypeOK'
  BY <1>5 DEF Query
<1>6. ASSUME NEW w \in Sockets, SendSnapshot(w) PROVE TypeOK'
  BY <1>6, BlankType, WriteType, PictureIsMessage DEF SendSnapshot
<1>7. ASSUME NEW w \in Sockets, ReadEnds(w) PROVE TypeOK'
  BY <1>7 DEF ReadEnds
<1>8. ASSUME NEW w \in Sockets, Disconnect(w) PROVE TypeOK'
  BY <1>8, BlankType DEF Disconnect
<1>9. ASSUME NEW w \in Sockets, SnapshotSent(w) PROVE TypeOK'
  BY <1>9 DEF SnapshotSent
<1>10. ASSUME NEW t \in Writers, NEW m \in Machines, Update(t, m) PROVE TypeOK'
  BY <1>10, ChangeType DEF Update
<1>11. ASSUME NEW t \in Writers, NEW m \in Machines, Remove(t, m) PROVE TypeOK'
  BY <1>11, ChangeType DEF Remove
<1>12. ASSUME NEW t \in Writers, ReadRow(t) PROVE TypeOK'
  <2>1. [x \in {subject[t]} |-> table[x]] \in Message
    BY RowIsMessage
  <2>2. msg' \in [Tasks -> Message]
    BY <1>12, <2>1 DEF ReadRow
  <2> QED
    BY <1>12, <2>2 DEF ReadRow
<1>13. ASSUME NEW t \in Tasks, Build(t) PROVE TypeOK'
  BY <1>13, PictureIsMessage DEF Build
<1>14. ASSUME NEW t \in Tasks, TakeTargets(t) PROVE TypeOK'
  BY <1>14 DEF TakeTargets
<1>15. ASSUME NEW t \in Tasks, DropDead(t) PROVE TypeOK'
  BY <1>15, BlankType, PictureIsMessage DEF DropDead
<1>16. ASSUME NEW t \in Tasks, Sent(t) PROVE TypeOK'
  BY <1>16 DEF Sent
<1>17. ASSUME NEW t \in Tasks, NEW w \in Sockets, Send(t, w) PROVE TypeOK'
  BY <1>17, WriteType DEF Send
<1>18. ASSUME NEW m \in Machines, Age(m) PROVE TypeOK'
  BY <1>18, ChangeType DEF Age
<1>19. ASSUME Tick PROVE TypeOK'
  BY <1>19 DEF Tick
<1>20. ASSUME Stop PROVE TypeOK'
  BY <1>20 DEF Stop
<1>21. ASSUME Cancelled PROVE TypeOK'
  BY <1>21, BlankType, PictureIsMessage DEF Cancelled
<1>22. ASSUME Stopped PROVE TypeOK'
  BY <1>22 DEF Stopped
<1>23. CASE UNCHANGED vars
  BY <1>23 DEF vars
<1> QED
  BY <1>1, <1>2, <1>3, <1>4, <1>5, <1>6, <1>7, <1>8, <1>9, <1>10, <1>11, <1>12, <1>13, <1>14, <1>15, <1>16, <1>17, <1>18, <1>19, <1>20, <1>21, <1>22, <1>23
  DEF Next, Browser, Handle, Progress

LEMMA RegistryStep ==
  ASSUME IInv, [Next]_vars
  PROVE  RegistryIsExact'
<1> USE DEF IInv, TypeOK, RegistryIsExact, DeadAreClosed, Open, store, handler, task, At, TaskAt
<1>1. ASSUME NEW w \in Sockets, Connect(w) PROVE RegistryIsExact'
  BY <1>1 DEF Connect
<1>2. ASSUME NEW w \in Sockets, Stall(w) PROVE RegistryIsExact'
  BY <1>2 DEF Stall
<1>3. ASSUME NEW w \in Sockets, Resume(w) PROVE RegistryIsExact'
  BY <1>3 DEF Resume
<1>4. ASSUME NEW w \in Sockets, Close(w) PROVE RegistryIsExact'
  BY <1>4 DEF Close
<1>5. ASSUME NEW w \in Sockets, Query(w) PROVE RegistryIsExact'
  BY <1>5 DEF Query
<1>6. ASSUME NEW w \in Sockets, SendSnapshot(w) PROVE RegistryIsExact'
  BY <1>6 DEF SendSnapshot
<1>7. ASSUME NEW w \in Sockets, ReadEnds(w) PROVE RegistryIsExact'
  BY <1>7 DEF ReadEnds
<1>8. ASSUME NEW w \in Sockets, Disconnect(w) PROVE RegistryIsExact'
  BY <1>8 DEF Disconnect
<1>9. ASSUME NEW w \in Sockets, SnapshotSent(w) PROVE RegistryIsExact'
  BY <1>9 DEF SnapshotSent
<1>10. ASSUME NEW t \in Writers, NEW m \in Machines, Update(t, m) PROVE RegistryIsExact'
  BY <1>10 DEF Update
<1>11. ASSUME NEW t \in Writers, NEW m \in Machines, Remove(t, m) PROVE RegistryIsExact'
  BY <1>11 DEF Remove
<1>12. ASSUME NEW t \in Writers, ReadRow(t) PROVE RegistryIsExact'
  BY <1>12 DEF ReadRow
<1>13. ASSUME NEW t \in Tasks, Build(t) PROVE RegistryIsExact'
  BY <1>13 DEF Build
<1>14. ASSUME NEW t \in Tasks, TakeTargets(t) PROVE RegistryIsExact'
  BY <1>14 DEF TakeTargets
<1>15. ASSUME NEW t \in Tasks, DropDead(t) PROVE RegistryIsExact'
  BY <1>15 DEF DropDead
<1>16. ASSUME NEW t \in Tasks, Sent(t) PROVE RegistryIsExact'
  BY <1>16 DEF Sent
<1>17. ASSUME NEW t \in Tasks, NEW w \in Sockets, Send(t, w) PROVE RegistryIsExact'
  BY <1>17 DEF Send
<1>18. ASSUME NEW m \in Machines, Age(m) PROVE RegistryIsExact'
  BY <1>18 DEF Age
<1>19. ASSUME Tick PROVE RegistryIsExact'
  BY <1>19 DEF Tick
<1>20. ASSUME Stop PROVE RegistryIsExact'
  BY <1>20 DEF Stop
<1>21. ASSUME Cancelled PROVE RegistryIsExact'
  BY <1>21 DEF Cancelled
<1>22. ASSUME Stopped PROVE RegistryIsExact'
  BY <1>22 DEF Stopped
<1>23. CASE UNCHANGED vars
  BY <1>23 DEF vars
<1> QED
  BY <1>1, <1>2, <1>3, <1>4, <1>5, <1>6, <1>7, <1>8, <1>9, <1>10, <1>11, <1>12, <1>13, <1>14, <1>15, <1>16, <1>17, <1>18, <1>19, <1>20, <1>21, <1>22, <1>23
  DEF Next, Browser, Handle, Progress

LEMMA DeadStep ==
  ASSUME IInv, [Next]_vars
  PROVE  DeadAreClosed'
<1> USE DEF IInv, TypeOK, DeadAreClosed, Open, Tasks, store, handler, task, At, TaskAt
<1>1. ASSUME NEW w \in Sockets, Connect(w) PROVE DeadAreClosed'
  BY <1>1 DEF Connect
<1>2. ASSUME NEW w \in Sockets, Stall(w) PROVE DeadAreClosed'
  BY <1>2 DEF Stall
<1>3. ASSUME NEW w \in Sockets, Resume(w) PROVE DeadAreClosed'
  BY <1>3 DEF Resume
<1>4. ASSUME NEW w \in Sockets, Close(w) PROVE DeadAreClosed'
  BY <1>4 DEF Close
<1>5. ASSUME NEW w \in Sockets, Query(w) PROVE DeadAreClosed'
  BY <1>5 DEF Query
<1>6. ASSUME NEW w \in Sockets, SendSnapshot(w) PROVE DeadAreClosed'
  BY <1>6 DEF SendSnapshot
<1>7. ASSUME NEW w \in Sockets, ReadEnds(w) PROVE DeadAreClosed'
  BY <1>7 DEF ReadEnds
<1>8. ASSUME NEW w \in Sockets, Disconnect(w) PROVE DeadAreClosed'
  BY <1>8 DEF Disconnect
<1>9. ASSUME NEW w \in Sockets, SnapshotSent(w) PROVE DeadAreClosed'
  BY <1>9 DEF SnapshotSent
<1>10. ASSUME NEW t \in Writers, NEW m \in Machines, Update(t, m) PROVE DeadAreClosed'
  BY <1>10 DEF Update
<1>11. ASSUME NEW t \in Writers, NEW m \in Machines, Remove(t, m) PROVE DeadAreClosed'
  BY <1>11 DEF Remove
<1>12. ASSUME NEW t \in Writers, ReadRow(t) PROVE DeadAreClosed'
  BY <1>12 DEF ReadRow
<1>13. ASSUME NEW t \in Tasks, Build(t) PROVE DeadAreClosed'
  BY <1>13 DEF Build
<1>14. ASSUME NEW t \in Tasks, TakeTargets(t) PROVE DeadAreClosed'
  BY <1>14 DEF TakeTargets
<1>15. ASSUME NEW t \in Tasks, DropDead(t) PROVE DeadAreClosed'
  BY <1>15 DEF DropDead
<1>16. ASSUME NEW t \in Tasks, Sent(t) PROVE DeadAreClosed'
  BY <1>16 DEF Sent
<1>17. ASSUME NEW t \in Tasks, NEW w \in Sockets, Send(t, w) PROVE DeadAreClosed'
  BY <1>17 DEF Send
<1>18. ASSUME NEW m \in Machines, Age(m) PROVE DeadAreClosed'
  BY <1>18 DEF Age
<1>19. ASSUME Tick PROVE DeadAreClosed'
  BY <1>19 DEF Tick
<1>20. ASSUME Stop PROVE DeadAreClosed'
  BY <1>20 DEF Stop
<1>21. ASSUME Cancelled PROVE DeadAreClosed'
  BY <1>21 DEF Cancelled
<1>22. ASSUME Stopped PROVE DeadAreClosed'
  BY <1>22 DEF Stopped
<1>23. CASE UNCHANGED vars
  BY <1>23 DEF vars
<1> QED
  BY <1>1, <1>2, <1>3, <1>4, <1>5, <1>6, <1>7, <1>8, <1>9, <1>10, <1>11, <1>12, <1>13, <1>14, <1>15, <1>16, <1>17, <1>18, <1>19, <1>20, <1>21, <1>22, <1>23
  DEF Next, Browser, Handle, Progress

LEMMA InitInv == Init => IInv
<1> SUFFICES ASSUME Init PROVE IInv
  OBVIOUS
<1>1. TypeOK
  BY BlankType, PictureIsMessage, ConstantsAssumption
  DEF Init, TypeOK, HandlerPc, TaskPc
<1>2. RegistryIsExact /\ DeadAreClosed
  BY DEF Init, RegistryIsExact, DeadAreClosed, Open
<1> QED
  BY <1>1, <1>2 DEF IInv

\* Every reachable state satisfies the inductive invariant.
THEOREM Invariance == Spec => []IInv
<1>1. IInv /\ [Next]_vars => IInv'
  BY TypeStep, RegistryStep, DeadStep DEF IInv
<1> QED
  BY InitInv, <1>1, PTL DEF Spec

\* Every variable keeps its type.
THEOREM TypeCorrect == Spec => []TypeOK
<1>1. IInv => TypeOK
  BY DEF IInv
<1> QED
  BY Invariance, <1>1, PTL

\* For any number of dashboards and tasks, the registry holds exactly the
\* websockets that are being served: none leaks, none is dropped while open.
THEOREM ExactRegistry == Spec => []RegistryIsExact
<1>1. IInv => RegistryIsExact
  BY DEF IInv
<1> QED
  BY Invariance, <1>1, PTL
=============================================================================
