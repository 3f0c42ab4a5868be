-------------------------- MODULE DashboardPageProofs --------------------------
(***************************************************************************)
(* Theorems about DashboardPage for any finite set of machines, number of   *)
(* changes and number of messages under way.                                *)
(***************************************************************************)
EXTENDS DashboardPage, FiniteSetTheorems, SequenceTheorems, TLAPS

\* A reconnect is scheduled only when there is no websocket, so that connect
\* never opens a second one next to the first.
OneConnection == timer => ws = "none"

LEMMA TotalType ==
  ASSUME IsFiniteSet(Machines), NEW p \in Picture
  PROVE  Cardinality(Known(p)) \in Total
<1>1. Known(p) \subseteq Machines
  BY DEF Known
<1>2. /\ Cardinality(Known(p)) \in Nat /\ Cardinality(Machines) \in Nat
      /\ Cardinality(Known(p)) <= Cardinality(Machines)
  BY <1>1, FS_CardinalityType, FS_Subset
<1> QED
  BY <1>2 DEF Total

LEMMA BlankType ==
  ASSUME IsFiniteSet(Machines)
  PROVE  Blank \in Picture /\ 0 \in Total
<1>1. Blank \in Picture
  BY ConstantsAssumption DEF Blank, Picture
<1>2. Cardinality(Machines) \in Nat
  BY FS_CardinalityType
<1> QED
  BY <1>1, <1>2 DEF Total

LEMMA EmptyWire == <<>> \in Seq(Message)
OBVIOUS

LEMMA ChangeType ==
  ASSUME TypeOK, NEW m \in Machines, NEW v \in {0, changes + 1}, Change(m, v)
  PROVE  table' \in Picture /\ changes' \in 0..MaxChanges /\ changes + 1 \in 1..MaxChanges
<1>1. changes' \in 0..MaxChanges /\ v \in 0..MaxChanges /\ changes + 1 \in 1..MaxChanges
  BY ConstantsAssumption DEF TypeOK, Change
<1> QED
  BY <1>1 DEF TypeOK, Change, Picture

\* A message that is received leaves a picture and a total.
LEMMA MessageType ==
  ASSUME IsFiniteSet(Machines), TypeOK, OnMessage
  PROVE  TypeOK'
<1> DEFINE msg == Head(wire)
<1>1. msg \in Message /\ wire' \in Seq(Message)
  BY DEF TypeOK, OnMessage
<1>2. CASE msg.type = "snapshot"
  <2>1. msg.agents \in Picture
    BY <1>1, <1>2 DEF Message
  <2>2. total' \in Total /\ agents' \in Picture
    BY <1>2, <2>1, TotalType DEF OnMessage, Show, TypeOK
  <2> QED
    BY <1>1, <2>2 DEF OnMessage, TypeOK, server, fetch, sub
<1>3. CASE msg.type = "agent"
  <2>1. msg.id \in Machines /\ msg.data \in 0..MaxChanges
    BY <1>1, <1>3, ConstantsAssumption DEF Message
  <2>2. total' = total /\ agents' \in Picture
    BY <1>3, <2>1 DEF OnMessage, TypeOK, Picture
  <2> QED
    BY <1>1, <2>2 DEF OnMessage, TypeOK, server, fetch, sub
<1> QED
  BY <1>2, <1>3 DEF OnMessage

LEMMA InitType == ASSUME IsFiniteSet(Machines), Init PROVE TypeOK
<1>1. table \in Picture /\ changes \in 0..MaxChanges
  BY ConstantsAssumption DEF Init, Picture
<1>2. outbox \subseteq Message /\ wire \in Seq(Message)
  BY EmptyWire DEF Init
<1>3. agents \in Picture /\ total \in Total
  BY BlankType DEF Init
<1>4. up \in BOOLEAN /\ fetched \in BOOLEAN /\ timer \in BOOLEAN
  BY DEF Init
<1>5. retry \in 0..6 /\ delay \in {0, 2, 4, 8, 16, 30}
  BY DEF Init
<1>6. /\ page \in {"open", "left"}
      /\ ws \in {"none", "connecting", "open", "closing"}
      /\ list \in Picture \cup {None} /\ sum \in Total \cup {None}
  BY DEF Init
<1> QED
  BY <1>1, <1>2, <1>3, <1>4, <1>5, <1>6 DEF TypeOK

LEMMA TypeStep ==
  ASSUME IsFiniteSet(Machines), TypeOK, [Next]_vars
  PROVE  TypeOK'
<1> USE DEF TypeOK, server, sub, fetch, view
<1>1. ASSUME NEW m \in Machines, Update(m) PROVE TypeOK'
  <2>1. Change(m, changes + 1)
    BY <1>1 DEF Update
  <2>2. /\ table' \in Picture /\ changes' \in 0..MaxChanges
        /\ [type |-> "agent", id |-> m, data |-> changes + 1] \in Message
    BY <2>1, ChangeType DEF Message
  <2> QED
    BY <1>1, <2>2 DEF Update
<1>2. ASSUME NEW m \in Machines, Remove(m) PROVE TypeOK'
  BY <1>2, ChangeType DEF Remove
<1>3. CASE Build
  <2>1. [type |-> "snapshot", agents |-> table] \in Message
    BY DEF Message
  <2> QED
    BY <1>3, <2>1 DEF Build
<1>4. ASSUME NEW msg \in outbox, Emit(msg) PROVE TypeOK'
  <2>1. wire' \in Seq(Message)
    BY <1>4 DEF Emit
  <2> QED
    BY <1>4, <2>1 DEF Emit
<1>5. CASE Reach
  BY <1>5 DEF Reach
<1>6. CASE Mount
  <2>1. list' \in Picture \cup {None} /\ sum' \in Total \cup {None}
    BY <1>6 DEF Mount
  <2>2. retry' \in 0..6 /\ delay' \in {0, 2, 4, 8, 16, 30}
    BY <1>6 DEF Mount
  <2>3. fetched' \in BOOLEAN /\ timer' \in BOOLEAN
    BY <1>6 DEF Mount
  <2> QED
    BY <1>6, <2>1, <2>2, <2>3 DEF Mount
<1>7. CASE Unmount
  <2>1. agents' \in Picture /\ total' \in Total
    BY <1>7, BlankType DEF Unmount
  <2>. QED BY <1>7, <2>1, EmptyWire DEF Unmount
<1>8. CASE ListAnswered
  BY <1>8 DEF ListAnswered
<1>9. CASE SumAnswered
  BY <1>9, TotalType DEF SumAnswered
<1>10. CASE Fetched
  BY <1>10 DEF Fetched
<1>11. CASE OnOpen
  BY <1>11 DEF OnOpen
<1>12. CASE OnClose
  <2>1. /\ (IF retry < 6 THEN retry + 1 ELSE 6) \in 1..6
        /\ \A n \in 1..6 : Seconds(n) \in {0, 2, 4, 8, 16, 30}
    <3>1. 2 ^ 1 = 2 /\ 2 ^ 2 = 4 /\ 2 ^ 3 = 8 /\ 2 ^ 4 = 16
      OBVIOUS
    <3>2. ASSUME NEW n \in 1..6 PROVE Seconds(n) \in {0, 2, 4, 8, 16, 30}
      <4>1. n \in {1, 2, 3, 4} \/ n > 4
        OBVIOUS
      <4>2. CASE n > 4
        BY <4>2 DEF Seconds
      <4>3. ASSUME NEW k \in {1, 2, 3, 4}, n = k PROVE 2 ^ n \in {2, 4, 8, 16}
        BY <3>1, <4>3
      <4> QED
        BY <4>1, <4>2, <4>3 DEF Seconds
    <3> QED
      BY <3>2
  <2> QED
    <3>1. wire' \in Seq(Message) /\ ws' = "none"
      BY <1>12, EmptyWire DEF OnClose
    <3>2. CASE page = "left"
      BY <1>12, <3>1, <3>2 DEF OnClose
    <3>3. CASE page = "open"
      <4>1. retry' \in 1..6 /\ delay' = Seconds(retry') /\ timer' = TRUE
        BY <1>12, <2>1, <3>3 DEF OnClose
      <4>2. delay' \in {0, 2, 4, 8, 16, 30}
        BY <2>1, <4>1
      <4> QED
        BY <1>12, <3>1, <4>1, <4>2 DEF OnClose
    <3> QED
      BY <3>2, <3>3
<1>13. CASE Reconnect
  BY <1>13 DEF Reconnect
<1>14. CASE UNCHANGED vars
  BY <1>14 DEF vars
<1> QED
  BY <1>1, <1>2, <1>3, <1>4, <1>5, <1>6, <1>7, <1>8, <1>9, <1>10, <1>11, <1>12,
     <1>13, <1>14, MessageType DEF Next, Answers, Browser, EmitSome

\* The inductive invariant of the subscription.
SubInv ==
  /\ page \in {"open", "left"}
  /\ NothingLeftBehind
  /\ OneConnection

LEMMA SubStep == SubInv /\ [Next]_vars => SubInv'
<1> SUFFICES ASSUME SubInv, [Next]_vars PROVE SubInv'
  OBVIOUS
<1> USE DEF SubInv, NothingLeftBehind, OneConnection
<1>1. CASE UNCHANGED <<page, ws, timer>>
  BY <1>1
<1>2. CASE Mount
  BY <1>2 DEF Mount
<1>3. CASE Unmount
  BY <1>3 DEF Unmount
<1>4. CASE OnOpen
  BY <1>4 DEF OnOpen
<1>5. CASE OnClose
  BY <1>5 DEF OnClose
<1>6. CASE Reconnect
  BY <1>6 DEF Reconnect
<1>7. ASSUME \/ \E m \in Machines : Update(m) \/ Remove(m)
             \/ Build \/ EmitSome \/ Reach \/ Answers \/ OnMessage
      PROVE  UNCHANGED <<page, ws, timer>>
  BY <1>7 DEF Update, Remove, Build, EmitSome, Emit, Reach, Answers, ListAnswered,
              SumAnswered, Fetched, OnMessage, sub
<1> QED
  BY <1>1, <1>2, <1>3, <1>4, <1>5, <1>6, <1>7 DEF Next, Browser, vars, sub

-----------------------------------------------------------------------------

\* Every variable keeps its type.
THEOREM TypeCorrect ==
  ASSUME IsFiniteSet(Machines)
  PROVE  Spec => []TypeOK
<1>1. Init => TypeOK
  BY InitType
<1>2. TypeOK /\ [Next]_vars => TypeOK'
  BY TypeStep
<1> QED
  BY <1>1, <1>2, PTL DEF Spec

LEMMA SubInvariance == Spec => []SubInv
<1>1. Init => SubInv
  BY DEF Init, SubInv, NothingLeftBehind, OneConnection
<1> QED
  BY <1>1, SubStep, PTL DEF Spec

\* A page that was left, at whichever point of connecting, waiting or receiving,
\* has no reconnect scheduled and no websocket that is or will be open.
THEOREM LeavesNothing == Spec => []NothingLeftBehind
<1>1. SubInv => NothingLeftBehind
  BY DEF SubInv
<1> QED
  BY <1>1, SubInvariance, PTL

\* A page never has a websocket and a scheduled reconnect at once.
THEOREM OneConnectionAtATime == Spec => []OneConnection
<1>1. SubInv => OneConnection
  BY DEF SubInv
<1> QED
  BY <1>1, SubInvariance, PTL
=============================================================================
