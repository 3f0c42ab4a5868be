---------------------------- MODULE ProcessesProofs ----------------------------
(***************************************************************************)
(* Theorems about what runs without anybody looking, for any databases in    *)
(* which revisions are recorded only with what they rest on, and any number  *)
(* of kills, late answers, dashboards, machines and database connections.    *)
(* They are stated of the specification the harness has, each module proved  *)
(* from its own next-state relation.                                         *)
(***************************************************************************)
EXTENDS MCProcesses, FiniteSetTheorems, TLAPS

\* A step of the harness is one of each module, or leaves its variables alone.
LEMMA Steps ==
  [Next]_vars => /\ [U!Next]_(U!vars) /\ [A!Next]_(A!vars) /\ [B!Next]_(B!vars)
                 /\ [P!Next]_(P!vars) /\ [G!Next]_(G!vars)
<1>1. Uvars' = Uvars => U!vars' = U!vars
  BY DEF Uvars, U!vars
<1>2. Avars' = Avars => A!vars' = A!vars
  BY DEF Avars, A!vars, A!net
<1>3. Bvars' = Bvars => B!vars' = B!vars
  BY DEF Bvars, B!vars, B!store, B!handler, B!task
<1>4. Pvars' = Pvars => P!vars' = P!vars
  BY DEF Pvars, P!vars
<1>5. Gvars' = Gvars => G!vars' = G!vars
  BY DEF Gvars, G!vars, G!world, G!agent
<1>. QED BY <1>1, <1>2, <1>3, <1>4, <1>5 DEF Next, vars

-----------------------------------------------------------------------------
(* Startup *)

\* A recorded revision has been applied, after the one before it and to the
\* tables it alters.
Whole(s) ==
  /\ "rev1" \in s => {"agents", "metrics", "prefs", "netCols"} \subseteq s
  /\ "rev2" \in s => {"rev1", "hidden"} \subseteq s

InTxn == startPc \notin {"down", "serving"}

\* What the statements that have run have left in the transaction.
UProgress ==
  /\ startPc = "alterAgents" => "prefs" \in txn
  /\ startPc = "alterMetrics" => {"prefs", "agents"} \subseteq txn
  /\ startPc = "hidden" => "rev1" \in txn
  /\ startPc = "upgraded" => "rev2" \in txn
  /\ startPc \in {"extension", "hypertable", "retention", "commit"} =>
       {"agents", "metrics", "prefs"} \subseteq txn
  /\ startPc = "retention" => "hypertable" \in txn
  /\ startPc = "commit" /\ ~aborted => {"hypertable", "retention"} \subseteq txn
  /\ aborted => startPc = "commit"

\* The inductive invariant: neither the catalog nor the transaction records a
\* revision without its effects, the transaction only adds to the catalog, and
\* an image's server gets to init_db with all revisions committed.
UInv ==
  /\ U!TypeOK
  /\ Whole(schema)
  /\ InTxn => Whole(txn) /\ schema \subseteq txn
  /\ UProgress
  /\ launch = "compose" /\ startPc \in {"create", "extension", "hypertable",
                                   "retention", "commit", "serving"} =>
       "rev2" \in schema

LEMMA UInitInv ==
  ASSUME U!ConstantsAssumption, OriginsAreWhole, U!Init
  PROVE  UInv
<1>1. origin \in Origins /\ origin \subseteq U!Item /\ schema = origin
  BY DEF U!ConstantsAssumption, U!Init
<1>2. U!TypeOK
  <2>1. timescale \in Timescale /\ launch \in Launches
    BY DEF U!Init
  <2>2. crashes \in 0..MaxCrashes
    BY DEF U!ConstantsAssumption, U!Init
  <2> QED
    BY <1>1, <2>1, <2>2 DEF U!Init, U!TypeOK, U!Pc
<1>3. Whole(schema)
  BY <1>1 DEF OriginsAreWhole, Whole
<1> QED
  BY <1>2, <1>3 DEF U!Init, UInv, InTxn, UProgress

LEMMA StartStep ==
  ASSUME U!ConstantsAssumption, UInv, U!Start
  PROVE  UInv'
BY DEF U!ConstantsAssumption, UInv, U!Start, U!Begin, U!TypeOK, InTxn, UProgress, U!Pc, Whole

\* A statement of a migration runs, or ends the process.
LEMMA MigrateStep ==
  ASSUME U!ConstantsAssumption, UInv,
         U!CreatePrefs \/ U!AlterAgents \/ U!AlterMetrics \/ U!AddHidden
  PROVE  UInv'
<1> USE DEF UInv, U!TypeOK, InTxn, UProgress, U!Pc, Whole, U!Migrate, U!Item
<1>1. CASE U!CreatePrefs
  BY <1>1 DEF U!CreatePrefs
<1>2. CASE U!AlterAgents
  BY <1>2 DEF U!AlterAgents
<1>3. CASE U!AlterMetrics
  BY <1>3 DEF U!AlterMetrics
<1>4. CASE U!AddHidden
  BY <1>4 DEF U!AddHidden
<1> QED
  BY <1>1, <1>2, <1>3, <1>4

\* One of the TimescaleDB statements runs, or aborts the transaction.
LEMMA TimescaleEffect ==
  ASSUME NEW here, NEW adds, NEW next, U!TimescaleStep(here, adds, next)
  PROVE  /\ startPc = here
         /\ \/ txn' = txn \cup adds /\ startPc' = next /\ aborted' = aborted
            \/ txn' = txn /\ startPc' = "commit" /\ aborted' = TRUE
         /\ UNCHANGED <<schema, launch, timescale, origin, crashes>>
BY DEF U!TimescaleStep

LEMMA InitDbStep ==
  ASSUME U!ConstantsAssumption, UInv,
         U!Upgraded \/ U!CreateAll \/ U!Extension \/ U!Hypertable \/ U!Retention \/ U!Commit
  PROVE  UInv'
<1> USE DEF UInv, U!TypeOK, InTxn, UProgress, U!Pc, Whole, U!Item
<1>1. CASE U!Upgraded
  BY <1>1 DEF U!Upgraded
<1>2. CASE U!CreateAll
  <2>1. txn \subseteq txn' /\ txn' \subseteq U!Item /\ {"agents", "metrics", "prefs"} \subseteq txn'
    BY <1>2 DEF U!CreateAll
  <2>2. ("rev1" \in txn' => "rev1" \in txn) /\ ("rev2" \in txn' => "rev2" \in txn)
    BY <1>2 DEF U!CreateAll
  <2> QED
    BY <1>2, <2>1, <2>2 DEF U!CreateAll
<1>3. CASE U!Extension
  <2>1. /\ startPc = "extension" /\ UNCHANGED <<schema, launch, timescale, origin, crashes>>
        /\ txn' = txn
        /\ \/ startPc' = "hypertable" /\ aborted' = aborted
           \/ startPc' = "commit" /\ aborted' = TRUE
    <3>1. txn \cup {} = txn
      OBVIOUS
    <3> QED
      BY <1>3, <3>1, TimescaleEffect DEF U!Extension
  <2>2. CASE startPc' = "hypertable"
    BY <2>1, <2>2
  <2>3. CASE startPc' = "commit"
    BY <2>1, <2>3
  <2> QED
    BY <2>1, <2>2, <2>3
<1>4. CASE U!Hypertable
  <2>1. /\ startPc = "hypertable" /\ UNCHANGED <<schema, launch, timescale, origin, crashes>>
        /\ \/ /\ txn' = txn \cup {"hypertable"}
              /\ startPc' = "retention" /\ aborted' = aborted
           \/ txn' = txn /\ startPc' = "commit" /\ aborted' = TRUE
    BY <1>4, TimescaleEffect DEF U!Hypertable
  <2>2. CASE startPc' = "retention"
    <3>1. txn' \subseteq U!Item /\ txn \subseteq txn' /\ Whole(txn')
      BY <2>1, <2>2
    <3> QED
      BY <2>1, <2>2, <3>1
  <2>3. CASE startPc' = "commit"
    BY <2>1, <2>3
  <2> QED
    BY <2>1, <2>2, <2>3
<1>5. CASE U!Retention
  <2>1. /\ startPc = "retention" /\ UNCHANGED <<schema, launch, timescale, origin, crashes>>
        /\ startPc' = "commit"
        /\ \/ txn' = txn \cup {"retention"} /\ aborted' = aborted
           \/ txn' = txn /\ aborted' = TRUE
    BY <1>5, TimescaleEffect DEF U!Retention
  <2> QED
    BY <2>1
<1>6. CASE U!Commit
  BY <1>6 DEF U!Commit
<1> QED
  BY <1>1, <1>2, <1>3, <1>4, <1>5, <1>6

LEMMA CrashStep ==
  ASSUME U!ConstantsAssumption, UInv, U!Crash
  PROVE  UInv'
<1>1. crashes' \in 0..MaxCrashes
  BY DEF U!ConstantsAssumption, UInv, U!TypeOK, U!Crash
<1> QED
  BY <1>1 DEF UInv, U!Crash, U!TypeOK, InTxn, UProgress, U!Pc, Whole

LEMMA UStepInv ==
  ASSUME U!ConstantsAssumption, UInv, [U!Next]_(U!vars)
  PROVE  UInv'
<1>1. CASE UNCHANGED U!vars
  BY <1>1 DEF U!vars, UInv, U!TypeOK, InTxn, UProgress, Whole
<1> QED
  BY <1>1, StartStep, MigrateStep, InitDbStep, CrashStep DEF U!Next, U!Step

-----------------------------------------------------------------------------
(* The agent *)

Late == MaxLate \in Nat \ {0}

\* The smaller of two numbers.
LEMMA MinOfTwo ==
  ASSUME NEW a \in Nat, NEW b \in Nat
  PROVE  A!Min({a, b}) = IF a <= b THEN a ELSE b
<1> DEFINE m == IF a <= b THEN a ELSE b
<1>1. m \in {a, b} /\ \A y \in {a, b} : m <= y
  OBVIOUS
<1>2. \A x \in {a, b} : (\A y \in {a, b} : x <= y) => x = m
  OBVIOUS
<1> QED
  BY <1>1, <1>2 DEF A!Min

\* b is the delay after n retries, the powers of two written out.
Doubled(b, n) ==
  /\ n = 0 => b = 1
  /\ n = 1 => b = 2
  /\ n = 2 => b = 4
  /\ n = 3 => b = 8
  /\ n = 4 => b = 16
  /\ n = 5 => b = 30

\* The inductive invariant: on an open connection the answers owed and the
\* answers unread are those of the reports given up and of the one at hand, and
\* the bound leaves room for the answer to that one.
AInv ==
  /\ A!TypeOK
  /\ A!BehindByTimeouts
  /\ link = "open" => timeouts < MaxLate
  /\ agentPc \in {"report", "recv", "inner", "pause", "close"} <=> link # "none"
  /\ link # "open" => owed = 0
  /\ agentPc \in {"close", "ended"} => agentStop
  /\ ~agentStop => Doubled(backoff, retries)

LEMMA AInitInv == ASSUME Late, A!Init PROVE AInv
<1>1. A!TypeOK
  <2>1. 0 \in 0..MaxLate /\ 0 \in 0..5
    BY DEF Late
  <2>2. backoff \in A!Delay /\ agentPc \in A!MainPc
    BY DEF A!Init, A!Delay, A!MainPc
  <2> QED
    BY <2>1, <2>2 DEF A!Init, A!TypeOK
<1> QED
  BY <1>1 DEF A!Init, AInv, A!BehindByTimeouts, Doubled

LEMMA FailStep ==
  ASSUME Late, AInv, A!Fail, agentPc \in {"dial", "report", "recv"}
  PROVE  AInv'
BY DEF Late, AInv, A!Fail, A!NewLink, A!TypeOK, A!MainPc, A!BehindByTimeouts

LEMMA RetryStep ==
  ASSUME Late, AInv, A!Retry
  PROVE  AInv'
<1>1. /\ backoff' = IF backoff * 2 <= 30 THEN backoff * 2 ELSE 30
      /\ retries' = IF 5 <= retries + 1 THEN 5 ELSE retries + 1
  BY MinOfTwo DEF AInv, A!TypeOK, A!Delay, A!Retry
<1>2. backoff' \in A!Delay /\ retries' \in 0..5
  BY <1>1 DEF AInv, A!TypeOK, A!Delay
<1>3. ~agentStop => Doubled(backoff', retries')
  BY <1>1 DEF AInv, A!TypeOK, Doubled
<1> QED
  BY <1>2, <1>3 DEF AInv, A!TypeOK, A!Retry, A!MainPc, A!BehindByTimeouts, A!net

LEMMA AStepInv == ASSUME Late, AInv, [A!Next]_(A!vars) PROVE AInv'
<1> USE DEF Late, AInv, A!TypeOK, A!MainPc, A!Delay, A!BehindByTimeouts, Doubled, A!net
<1>1. CASE A!Warm
  BY <1>1 DEF A!Warm
<1>2. CASE A!Outer
  BY <1>2 DEF A!Outer
<1>3. CASE A!Dial
  BY <1>3, FailStep DEF A!Dial, A!NewLink
<1>4. CASE A!Inner
  BY <1>4 DEF A!Inner
<1>5. CASE A!Report
  BY <1>5, FailStep DEF A!Report
<1>6. CASE A!Answered
  BY <1>6 DEF A!Answered
<1>7. CASE A!NoAck
  BY <1>7 DEF A!NoAck
<1>8. CASE A!RecvFails
  BY <1>8, FailStep DEF A!RecvFails
<1>9. CASE A!Pause
  BY <1>9 DEF A!Pause
<1>10. CASE A!CloseLink
  BY <1>10 DEF A!CloseLink, A!NewLink
<1>11. CASE A!GeoWake \/ A!GeoFetched
  BY <1>11 DEF A!GeoWake, A!GeoFetched
<1>12. CASE A!Signal
  <2>1. CASE agentPc \in {"prime", "warmup"}
    BY <1>12, <2>1 DEF A!Signal
  <2>2. CASE agentPc \notin {"prime", "warmup"}
    BY <1>12, <2>2 DEF A!Signal
  <2> QED
    BY <2>1, <2>2
<1>13. CASE A!Answer
  BY <1>13 DEF A!Answer
<1>14. CASE A!Break
  BY <1>14 DEF A!Break
<1>15. CASE A!Keepalive
  BY <1>15 DEF A!Keepalive
<1>16. CASE A!Weather
  BY <1>16 DEF A!Weather
<1>17. CASE UNCHANGED A!vars
  BY <1>17 DEF A!vars
<1>18. CASE A!Prime
  BY <1>18 DEF A!Prime
<1>19. CASE A!Garbled
  BY <1>19, FailStep DEF A!Garbled
<1> QED
  BY <1>1, <1>2, <1>3, <1>4, <1>5, <1>6, <1>7, <1>8, <1>9, <1>10, <1>11, <1>12,
     <1>13, <1>14, <1>15, <1>16, <1>17, <1>18, <1>19, RetryStep DEF A!Next, A!Main, A!Geo

-----------------------------------------------------------------------------
(* The broadcaster *)

\* What a broadcast waits for and what its DropDead removes.
BInv == B!TypeOK /\ B!DeadAreClosed

LEMMA BAssumption == None \notin Sockets /\ {} \cup {Loop} = {Loop} /\ 0 \in Nat
BY ProcessesAssumption

LEMMA BlankType == B!Blank \in B!Picture
BY BAssumption DEF B!Blank, B!Picture, B!State

\* A snapshot is a message about all machines.
LEMMA PictureIsMessage == B!Picture \subseteq B!Message
BY DEF B!Picture, B!Message

LEMMA RowIsMessage ==
  ASSUME NEW m \in {Machine}, table \in B!Picture
  PROVE  [x \in {m} |-> table[x]] \in B!Message
<1>1. [x \in {m} |-> table[x]] \in [{m} -> B!State]
  BY DEF B!Picture
<1> QED
  BY <1>1 DEF B!Message

LEMMA WriteType ==
  ASSUME B!TypeOK, NEW w \in Sockets, NEW m \in B!Message, B!Write(w, m)
  PROVE  view' \in [Sockets -> B!Picture]
<1>1. PICK S \in SUBSET {Machine} : m \in [S -> B!State]
  BY DEF B!Message
<1>2. [x \in {Machine} |-> IF x \in DOMAIN m THEN m[x] ELSE view[w][x]] \in B!Picture
  BY <1>1 DEF B!TypeOK, B!Picture
<1> QED
  BY <1>2 DEF B!TypeOK, B!Write

LEMMA ChangeType ==
  ASSUME B!TypeOK, NEW m \in {Machine}, NEW v, B!Change(m, v), v = 0 \/ v = changes + 1
  PROVE  table' \in B!Picture /\ changes' \in 0..0
<1>1. v \in B!State /\ changes' \in 0..0
  BY BAssumption DEF B!TypeOK, B!Change, B!State
<1> QED
  BY <1>1 DEF B!TypeOK, B!Change, B!Picture

LEMMA BTypeStep ==
  ASSUME BInv, [B!Next]_(B!vars)
  PROVE  B!TypeOK'
<1> USE DEF BInv, B!TypeOK, B!DeadAreClosed, B!HandlerPc, B!TaskPc, B!Tasks, B!store, B!handler, B!task, B!At, B!TaskAt
<1>1. ASSUME NEW w \in Sockets, B!Connect(w) PROVE B!TypeOK'
  BY <1>1 DEF B!Connect
<1>2. ASSUME NEW w \in Sockets, B!Stall(w) PROVE B!TypeOK'
  BY <1>2 DEF B!Stall
<1>3. ASSUME NEW w \in Sockets, B!Resume(w) PROVE B!TypeOK'
  BY <1>3 DEF B!Resume
<1>4. ASSUME NEW w \in Sockets, B!Close(w) PROVE B!TypeOK'
  BY <1>4 DEF B!Close
<1>5. ASSUME NEW w \in Sockets, B!Query(w) PROVE B!TypeOK'
  BY <1>5 DEF B!Query
<1>6. ASSUME NEW w \in Sockets, B!SendSnapshot(w) PROVE B!TypeOK'
  BY <1>6, BlankType, WriteType, PictureIsMessage DEF B!SendSnapshot
<1>7. ASSUME NEW w \in Sockets, B!ReadEnds(w) PROVE B!TypeOK'
  BY <1>7 DEF B!ReadEnds
<1>8. ASSUME NEW w \in Sockets, B!Disconnect(w) PROVE B!TypeOK'
  BY <1>8, BlankType DEF B!Disconnect
<1>9. ASSUME NEW w \in Sockets, B!SnapshotSent(w) PROVE B!TypeOK'
  BY <1>9 DEF B!SnapshotSent
<1>10. ASSUME NEW t \in {}, NEW m \in {Machine}, B!Update(t, m) PROVE B!TypeOK'
  BY <1>10, ChangeType DEF B!Update
<1>11. ASSUME NEW t \in {}, NEW m \in {Machine}, B!Remove(t, m) PROVE B!TypeOK'
  BY <1>11, ChangeType DEF B!Remove
<1>12. ASSUME NEW t \in {}, B!ReadRow(t) PROVE B!TypeOK'
  <2>1. [x \in {subject[t]} |-> table[x]] \in B!Message
    BY RowIsMessage
  <2>2. msg' \in [B!Tasks -> B!Message]
    BY <1>12, <2>1 DEF B!ReadRow
  <2> QED
    BY <1>12, <2>2 DEF B!ReadRow
<1>13. ASSUME NEW t \in B!Tasks, B!Build(t) PROVE B!TypeOK'
  BY <1>13, PictureIsMessage DEF B!Build
<1>14. ASSUME NEW t \in B!Tasks, B!TakeTargets(t) PROVE B!TypeOK'
  BY <1>14 DEF B!TakeTargets
<1>15. ASSUME NEW t \in B!Tasks, B!DropDead(t) PROVE B!TypeOK'
  BY <1>15, BlankType, PictureIsMessage DEF B!DropDead
<1>16. ASSUME NEW t \in B!Tasks, B!Sent(t) PROVE B!TypeOK'
  BY <1>16 DEF B!Sent
<1>17. ASSUME NEW t \in B!Tasks, NEW w \in Sockets, B!Send(t, w) PROVE B!TypeOK'
  BY <1>17, WriteType DEF B!Send
<1>18. ASSUME NEW m \in {Machine}, B!Age(m) PROVE B!TypeOK'
  BY <1>18, ChangeType DEF B!Age
<1>19. ASSUME B!Tick PROVE B!TypeOK'
  BY <1>19 DEF B!Tick
<1>20. ASSUME B!Stop PROVE B!TypeOK'
  BY <1>20 DEF B!Stop
<1>21. ASSUME B!Cancelled PROVE B!TypeOK'
  BY <1>21, BlankType, PictureIsMessage DEF B!Cancelled
<1>22. ASSUME B!Stopped PROVE B!TypeOK'
  BY <1>22 DEF B!Stopped
<1>23. CASE UNCHANGED B!vars
  BY <1>23 DEF B!vars
<1> QED
  BY <1>1, <1>2, <1>3, <1>4, <1>5, <1>6, <1>7, <1>8, <1>9, <1>10, <1>11, <1>12, <1>13, <1>14, <1>15, <1>16, <1>17, <1>18, <1>19, <1>20, <1>21, <1>22, <1>23
  DEF B!Next, B!Browser, B!Handle, B!Progress

LEMMA BDeadStep ==
  ASSUME BInv, [B!Next]_(B!vars)
  PROVE  B!DeadAreClosed'
<1> USE DEF BInv, B!TypeOK, B!DeadAreClosed, B!Open, B!Tasks, B!store, B!handler, B!task, B!At, B!TaskAt
<1>1. ASSUME NEW w \in Sockets, B!Connect(w) PROVE B!DeadAreClosed'
  BY <1>1 DEF B!Connect
<1>2. ASSUME NEW w \in Sockets, B!Stall(w) PROVE B!DeadAreClosed'
  BY <1>2 DEF B!Stall
<1>3. ASSUME NEW w \in Sockets, B!Resume(w) PROVE B!DeadAreClosed'
  BY <1>3 DEF B!Resume
<1>4. ASSUME NEW w \in Sockets, B!Close(w) PROVE B!DeadAreClosed'
  BY <1>4 DEF B!Close
<1>5. ASSUME NEW w \in Sockets, B!Query(w) PROVE B!DeadAreClosed'
  BY <1>5 DEF B!Query
<1>6. ASSUME NEW w \in Sockets, B!SendSnapshot(w) PROVE B!DeadAreClosed'
  BY <1>6 DEF B!SendSnapshot
<1>7. ASSUME NEW w \in Sockets, B!ReadEnds(w) PROVE B!DeadAreClosed'
  BY <1>7 DEF B!ReadEnds
<1>8. ASSUME NEW w \in Sockets, B!Disconnect(w) PROVE B!DeadAreClosed'
  BY <1>8 DEF B!Disconnect
<1>9. ASSUME NEW w \in Sockets, B!SnapshotSent(w) PROVE B!DeadAreClosed'
  BY <1>9 DEF B!SnapshotSent
<1>10. ASSUME NEW t \in {}, NEW m \in {Machine}, B!Update(t, m) PROVE B!DeadAreClosed'
  BY <1>10 DEF B!Update
<1>11. ASSUME NEW t \in {}, NEW m \in {Machine}, B!Remove(t, m) PROVE B!DeadAreClosed'
  BY <1>11 DEF B!Remove
<1>12. ASSUME NEW t \in {}, B!ReadRow(t) PROVE B!DeadAreClosed'
  BY <1>12 DEF B!ReadRow
<1>13. ASSUME NEW t \in B!Tasks, B!Build(t) PROVE B!DeadAreClosed'
  BY <1>13 DEF B!Build
<1>14. ASSUME NEW t \in B!Tasks, B!TakeTargets(t) PROVE B!DeadAreClosed'
  BY <1>14 DEF B!TakeTargets
<1>15. ASSUME NEW t \in B!Tasks, B!DropDead(t) PROVE B!DeadAreClosed'
  BY <1>15 DEF B!DropDead
<1>16. ASSUME NEW t \in B!Tasks, B!Sent(t) PROVE B!DeadAreClosed'
  BY <1>16 DEF B!Sent
<1>17. ASSUME NEW t \in B!Tasks, NEW w \in Sockets, B!Send(t, w) PROVE B!DeadAreClosed'
  BY <1>17 DEF B!Send
<1>18. ASSUME NEW m \in {Machine}, B!Age(m) PROVE B!DeadAreClosed'
  BY <1>18 DEF B!Age
<1>19. ASSUME B!Tick PROVE B!DeadAreClosed'
  BY <1>19 DEF B!Tick
<1>20. ASSUME B!Stop PROVE B!DeadAreClosed'
  BY <1>20 DEF B!Stop
<1>21. ASSUME B!Cancelled PROVE B!DeadAreClosed'
  BY <1>21 DEF B!Cancelled
<1>22. ASSUME B!Stopped PROVE B!DeadAreClosed'
  BY <1>22 DEF B!Stopped
<1>23. CASE UNCHANGED B!vars
  BY <1>23 DEF B!vars
<1> QED
  BY <1>1, <1>2, <1>3, <1>4, <1>5, <1>6, <1>7, <1>8, <1>9, <1>10, <1>11, <1>12, <1>13, <1>14, <1>15, <1>16, <1>17, <1>18, <1>19, <1>20, <1>21, <1>22, <1>23
  DEF B!Next, B!Browser, B!Handle, B!Progress

LEMMA BInitInv == B!Init => BInv
<1>. SUFFICES ASSUME B!Init PROVE BInv
  OBVIOUS
<1>1. B!TypeOK
  BY BlankType, PictureIsMessage DEF B!Init, B!TypeOK, B!HandlerPc, B!TaskPc, B!State
<1>2. B!DeadAreClosed
  BY DEF B!Init, B!DeadAreClosed
<1>. QED BY <1>1, <1>2 DEF BInv

-----------------------------------------------------------------------------
(* The database connections *)

Finite == IsFiniteSet(P!Users) /\ Capacity \in Nat

Holders == {u \in P!Users : P!Has(u)}

PInv == P!TypeOK /\ P!Conserved

\* What a checkout, a checkin and a wait do to the holders.
LEMMA MoveHolders ==
  ASSUME Finite, P!TypeOK, NEW u \in P!Users, NEW w \in {"off"} \cup P!Waiting \cup P!Having,
         at' = [at EXCEPT ![u] = w]
  PROVE  /\ at' \in [P!Users -> {"off"} \cup P!Waiting \cup P!Having]
         /\ Cardinality(Holders) \in Nat /\ Cardinality(Holders)' \in Nat
         /\ Cardinality(Holders)' =
              Cardinality(Holders) - (IF at[u] \in P!Having THEN 1 ELSE 0)
                                   + (IF w \in P!Having THEN 1 ELSE 0)
<1>1. at' \in [P!Users -> {"off"} \cup P!Waiting \cup P!Having]
  BY DEF P!TypeOK
<1>2. IsFiniteSet(Holders) /\ IsFiniteSet(Holders \ {u})
  BY FS_Subset DEF Finite, Holders
<1>3. Cardinality(Holders) \in Nat
  BY <1>2, FS_CardinalityType
<1>4. Cardinality(Holders \ {u}) =
        IF u \in Holders THEN Cardinality(Holders) - 1 ELSE Cardinality(Holders)
  BY <1>2, FS_RemoveElement
<1>5. Holders' = IF w \in P!Having THEN (Holders \ {u}) \cup {u} ELSE Holders \ {u}
  BY DEF Holders, P!Has, P!TypeOK
<1>6. Cardinality((Holders \ {u}) \cup {u}) = Cardinality(Holders \ {u}) + 1
  BY <1>2, FS_AddElement
<1>7. Cardinality(Holders \ {u}) \in Nat
  BY <1>2, FS_CardinalityType
<1>8. u \in Holders <=> at[u] \in P!Having
  BY DEF Holders, P!Has
<1> QED
  BY <1>1, <1>3, <1>4, <1>5, <1>6, <1>7, <1>8

LEMMA GrantedHaving == \A w \in P!Waiting : P!Granted(w) \in P!Having
BY DEF P!Waiting, P!Having, P!Granted

LEMMA Apart == "off" \notin P!Having /\ P!Waiting \cap P!Having = {}
BY DEF P!Waiting, P!Having

\* One of the steps a handler or a job is made of: it takes a connection, gives
\* one back, or does neither.
Moves(u) == \E w \in {"off"} \cup P!Waiting \cup P!Having :
  /\ at' = [at EXCEPT ![u] = w]
  /\ \/ at[u] \notin P!Having /\ w \in P!Having /\ free > 0 /\ free' = free - 1
     \/ at[u] \in P!Having /\ w \notin P!Having /\ free' = free + 1
     \/ (at[u] \in P!Having <=> w \in P!Having) /\ free' = free

LEMMA SameCount ==
  ASSUME NEW S
  PROVE  P!Cardinality(S) = Cardinality(S)
BY DEF P!Cardinality, Cardinality

LEMMA MovesConserve ==
  ASSUME Finite, PInv, NEW u \in P!Users, Moves(u), known' \subseteq Ingests
  PROVE  PInv'
<1>1. PICK w \in {"off"} \cup P!Waiting \cup P!Having :
        /\ at' = [at EXCEPT ![u] = w]
        /\ \/ at[u] \notin P!Having /\ w \in P!Having /\ free > 0 /\ free' = free - 1
           \/ at[u] \in P!Having /\ w \notin P!Having /\ free' = free + 1
           \/ (at[u] \in P!Having <=> w \in P!Having) /\ free' = free
  BY DEF Moves
<1>2. /\ at' \in [P!Users -> {"off"} \cup P!Waiting \cup P!Having]
      /\ Cardinality(Holders) \in Nat /\ Cardinality(Holders)' \in Nat
      /\ Cardinality(Holders)' =
           Cardinality(Holders) - (IF at[u] \in P!Having THEN 1 ELSE 0)
                                + (IF w \in P!Having THEN 1 ELSE 0)
  BY <1>1, MoveHolders DEF PInv
<1>3. free + Cardinality(Holders) = Capacity /\ free \in 0..Capacity
  BY SameCount DEF PInv, P!TypeOK, P!Conserved, Holders
<1>4. P!Cardinality({v \in P!Users : P!Has(v)})' = Cardinality(Holders)'
  BY SameCount DEF Holders
<1>5. free' + Cardinality(Holders)' = Capacity /\ free' \in 0..Capacity
  BY <1>1, <1>2, <1>3 DEF Finite
<1> QED
  BY <1>2, <1>4, <1>5 DEF PInv, P!TypeOK, P!Conserved

LEMMA AskMoves ==
  ASSUME PInv, NEW u \in P!Users, NEW w \in P!Waiting, at[u] \notin P!Having, P!Ask(u, w)
  PROVE  Moves(u)
BY GrantedHaving, Apart DEF P!Ask, Moves, PInv, P!TypeOK

LEMMA ReturnMoves ==
  ASSUME NEW u \in P!Users, NEW rest \in {"off"} \cup P!Waiting, at[u] \in P!Having,
         P!Return(u, rest)
  PROVE  Moves(u)
BY Apart DEF P!Return, Moves

LEMMA SwapMoves ==
  ASSUME NEW u \in P!Users, NEW w \in P!Waiting, at[u] \in P!Having, P!Swap(u, w)
  PROVE  Moves(u)
<1>1. CASE at' = [at EXCEPT ![u] = P!Granted(w)] /\ UNCHANGED free
  BY <1>1, GrantedHaving DEF Moves
<1>2. CASE P!Return(u, w)
  BY <1>2, ReturnMoves
<1> QED
  BY <1>1, <1>2 DEF P!Swap

LEMMA PStepInv ==
  ASSUME Finite, PInv, [P!Next]_(P!vars)
  PROVE  PInv'
<1>1. ASSUME NEW i \in Ingests,
             P!Report(i) \/ P!Commit(i) \/ P!Disconnect(i) \/ P!Mark(i) \/ P!Notice(i)
      PROVE  Moves(i) /\ known' \subseteq Ingests
  <2>1. i \in P!Users /\ known \subseteq Ingests
    BY DEF P!Users, PInv, P!TypeOK
  <2>2. {"ask", "again", "notice", "reread"} = P!Waiting
        /\ {"work", "hold", "mark", "told"} = P!Having
    BY DEF P!Waiting, P!Having
  <2>3. CASE P!Report(i)
    <3>1. CASE at[i] = "off" /\ P!Ask(i, "ask") /\ UNCHANGED known
      BY <2>1, <2>2, <3>1, AskMoves, Apart
    <3>2. CASE at[i] = "hold" /\ at' = [at EXCEPT ![i] = "work"] /\ UNCHANGED free
               /\ known' = known \cup {i}
      BY <2>1, <2>2, <3>2 DEF Moves
    <3> QED
      BY <2>3, <3>1, <3>2 DEF P!Report
  <2>4. CASE P!Commit(i)
    BY <2>1, <2>2, <2>4, SwapMoves DEF P!Commit
  <2>5. CASE P!Disconnect(i)
    BY <2>1, <2>2, <2>5, SwapMoves, ReturnMoves DEF P!Disconnect
  <2>6. CASE P!Mark(i)
    BY <2>1, <2>2, <2>6, SwapMoves DEF P!Mark
  <2>7. CASE P!Notice(i)
    BY <2>1, <2>2, <2>7, ReturnMoves DEF P!Notice
  <2> QED
    BY <1>1, <2>3, <2>4, <2>5, <2>6, <2>7
<1>2. ASSUME NEW j \in Jobs, P!Start(j) \/ P!Finish(j)
      PROVE  Moves(j) /\ known' \subseteq Ingests
  <2>1. j \in P!Users /\ known \subseteq Ingests /\ known' = known
    BY <1>2 DEF P!Users, PInv, P!TypeOK, P!Start, P!Finish
  <2>2. "ask" \in P!Waiting /\ "work" \in P!Having
    BY DEF P!Waiting, P!Having
  <2>3. CASE P!Start(j)
    BY <2>1, <2>2, <2>3, AskMoves, Apart DEF P!Start
  <2>4. CASE P!Finish(j)
    BY <2>1, <2>2, <2>4, ReturnMoves DEF P!Finish
  <2> QED
    BY <1>2, <2>1, <2>3, <2>4
<1>3. ASSUME NEW u \in P!Users, P!Take(u)
      PROVE  Moves(u) /\ known' \subseteq Ingests
  BY <1>3, GrantedHaving, Apart DEF P!Take, Moves, PInv, P!TypeOK
<1>4. ASSUME NEW u \in P!Users, P!TimesOut(u)
      PROVE  Moves(u) /\ known' \subseteq Ingests
  <2>1. known' \subseteq Ingests
    BY <1>4 DEF P!TimesOut, PInv, P!TypeOK
  <2>2. at[u] \in P!Waiting /\ at[u] \notin P!Having
    BY <1>4, Apart DEF P!TimesOut
  <2>3. CASE P!Ask(u, "notice")
    <3>1. "notice" \in P!Waiting
      BY DEF P!Waiting
    <3> QED
      BY <2>1, <2>2, <2>3, <3>1, AskMoves
  <2>4. CASE at' = [at EXCEPT ![u] = "off"] /\ UNCHANGED free
    BY <2>1, <2>2, <2>4, Apart DEF Moves
  <2> QED
    BY <1>4, <2>3, <2>4 DEF P!TimesOut
<1>5. CASE UNCHANGED P!vars
  BY <1>5 DEF P!vars, PInv, P!TypeOK, P!Conserved, P!Has
<1> QED
  BY <1>1, <1>2, <1>3, <1>4, <1>5, MovesConserve DEF P!Next, P!Users

LEMMA PInitInv ==
  ASSUME Finite, P!Init
  PROVE  PInv
<1>1. {u \in P!Users : P!Has(u)} = {}
  BY Apart DEF P!Init, P!Has
<1>2. Cardinality({u \in P!Users : P!Has(u)}) = 0
  BY <1>1, FS_EmptySet
<1> QED
  BY <1>2, SameCount DEF Holders, Finite, P!Init, PInv, P!TypeOK, P!Conserved

-----------------------------------------------------------------------------
(* The address *)

\* What a lookup from one place says, where it says something.
OfOne(c) == \E p \in Places : \A f \in Fields : c[f] \in {G!Say(p, f), None}

\* The cache and every report are of one lookup each, and the row is unless it
\* was pieced together.
GInv ==
  /\ G!TypeOK
  /\ OfOne(cache)
  /\ \A s \in G!Sessions : session[s].report # G!Absent => OfOne(session[s].report)
  /\ G!OneLookup

LEMMA SaysContents ==
  /\ G!Blank \in G!Contents
  /\ \A p \in Places : G!Told(p) \in G!Contents
  /\ \A p \in Places, f \in Fields : G!Say(p, f) \in Places \cup G!Countries
<1>1. \A p \in Places, f \in Fields : G!Say(p, f) \in Places \cup G!Countries
  BY DEF G!Say, G!Countries
<1>2. G!Blank \in G!Contents
  BY DEF G!Blank, G!Contents
<1>3. ASSUME NEW p \in Places PROVE G!Told(p) \in G!Contents
  BY <1>1 DEF G!Told, G!Contents
<1>. QED BY <1>1, <1>2, <1>3

\* A lookup that leaves nothing out tells its place.
LEMMA FullTells ==
  ASSUME NEW c \in G!Contents, OfOne(c), \A f \in Fields : c[f] # None
  PROVE  \E p \in Places : c = G!Told(p)
<1>1. PICK p \in Places : \A f \in Fields : c[f] \in {G!Say(p, f), None}
  BY DEF OfOne
<1>2. c = [f \in Fields |-> G!Say(p, f)]
  BY <1>1 DEF G!Contents
<1>. QED BY <1>2 DEF G!Told

\* The states a session begins, loads and commits with.
LEMMA SessionStates ==
  ASSUME G!TypeOK, NEW s \in G!Sessions
  PROVE  /\ session[s] \in G!Session
         /\ G!Fresh \in G!Session /\ G!Fresh.report = G!Absent
         /\ [G!Fresh EXCEPT !.memo = "stored"] \in G!Session
         /\ [G!Fresh EXCEPT !.memo = "stored"].report = G!Absent
         /\ [session[s] EXCEPT !.memo = "read", !.copy = row] \in G!Session
         /\ [session[s] EXCEPT !.memo = "read", !.copy = row].report = session[s].report
<1>1. session[s] \in G!Session
  BY DEF G!TypeOK
<1>2. G!Fresh \in G!Session /\ G!Fresh.report = G!Absent
  BY DEF G!Fresh, G!Session
<1>3. row \in G!Contents \cup {G!Absent}
  BY DEF G!TypeOK
<1> HIDE DEF G!TypeOK
<1>. QED BY <1>1, <1>2, <1>3 DEF G!Session

\* Where one session changes, its report is of one lookup if it was before.
LEMMA BecomesKeeps ==
  ASSUME GInv, NEW s \in G!Sessions, NEW state \in G!Session, G!Becomes(s, state),
         state.report # G!Absent => OfOne(state.report)
  PROVE  /\ session' \in [G!Sessions -> G!Session]
         /\ \A z \in G!Sessions : session'[z].report # G!Absent => OfOne(session'[z].report)
BY DEF GInv, G!TypeOK, G!Becomes

LEMMA StoredIsContents ==
  ASSUME G!TypeOK, NEW s \in G!Sessions, session[s].report # G!Absent
  PROVE  /\ G!Stored(s) \in G!Contents
         /\ G!Replaces(s) => G!Stored(s) = session[s].report
<1>1. session[s].report \in G!Contents /\ session[s] \in G!Session
  BY DEF G!TypeOK, G!Session
<1>2. G!Known \in G!Contents
  BY SaysContents DEF G!TypeOK, G!Known
<1>3. G!Stored(s) \in G!Contents
  BY <1>1, <1>2 DEF G!Stored, G!Contents
<1>4. ASSUME G!Replaces(s) PROVE G!Stored(s) = session[s].report
  <2>1. session[s].copy = row /\ \A f \in Fields : session[s].report[f] # None
    BY <1>4 DEF G!Replaces
  <2>2. \A f \in Fields : G!Stored(s)[f] = session[s].report[f]
    BY <2>1 DEF G!Stored, G!Known
  <2>. QED BY <1>1, <1>3, <2>2 DEF G!Contents
<1>. QED BY <1>3, <1>4

LEMMA GInitInv == G!Init => GInv
<1>. SUFFICES ASSUME G!Init PROVE GInv
  OBVIOUS
<1>1. place \in Places /\ cache = G!Blank /\ row = G!Absent
  BY DEF G!Init, G!Launched
<1>2. G!Fresh \in G!Session /\ G!Fresh.report = G!Absent
  BY DEF G!Fresh, G!Session
<1>3. session \in [G!Sessions -> G!Session] /\ \A s \in G!Sessions : session[s].report = G!Absent
  BY <1>2 DEF G!Init
<1>4. G!TypeOK
  BY <1>1, <1>3, SaysContents, ProcessesAssumption DEF G!Init, G!Launched, G!TypeOK
<1>5. OfOne(cache)
  BY <1>1 DEF OfOne, G!Blank
<1>. QED BY <1>1, <1>3, <1>4, <1>5 DEF GInv, G!OneLookup

LEMMA GStepInv == GInv /\ [G!Next]_(G!vars) => GInv'
<1>. SUFFICES ASSUME GInv, [G!Next]_(G!vars) PROVE GInv'
  OBVIOUS
<1>0. /\ place \in Places /\ None \notin Places /\ MaxUpsets \in Nat
      /\ asked \in Places \cup {None} /\ (asked = None <=> task = "wait")
  BY ProcessesAssumption DEF GInv, G!TypeOK
\* Where the row stays, so does what it was pieced from.
<1>1. ASSUME UNCHANGED <<row, pieced>> PROVE G!OneLookup'
  BY <1>1 DEF GInv, G!OneLookup, G!Told, G!Say
<1>3. ASSUME G!Upset PROVE left' \in 0..MaxUpsets
  BY <1>0, <1>3 DEF G!Upset, GInv, G!TypeOK
<1>4. CASE G!Wake
  BY <1>0, <1>1, <1>4 DEF G!Wake, G!world, GInv, G!TypeOK, OfOne, G!Say
<1>5. CASE G!LookupFails
  <2>1. left' \in 0..MaxUpsets
    BY <1>3, <1>5 DEF G!LookupFails, GInv, G!TypeOK
  <2>. QED BY <1>0, <1>1, <1>5, <2>1 DEF G!LookupFails, G!world, GInv, G!TypeOK, OfOne, G!Say
<1>6. ASSUME NEW got \in SUBSET Fields, G!Answer(got) PROVE GInv'
  <2>1. left' \in 0..MaxUpsets
    BY <1>3, <1>6 DEF G!Answer, GInv, G!TypeOK
  <2>2. asked \in Places
    BY <1>0, <1>6 DEF G!Answer, G!LookingUp
  <2>3. cache' = [f \in Fields |-> IF f \in got THEN G!Say(asked, f) ELSE None]
    BY <1>6 DEF G!Answer
  <2>4. cache' \in G!Contents
    BY <2>2, <2>3, SaysContents DEF G!Contents
  <2>5. OfOne(cache')
    BY <2>2, <2>3 DEF OfOne
  <2>6. G!TypeOK'
    BY <1>6, <2>1, <2>4 DEF G!Answer, G!world, GInv, G!TypeOK
  <2>. QED BY <1>1, <1>6, <2>5, <2>6 DEF G!Answer, GInv, OfOne, G!Say
<1>7. CASE G!Report
  <2>1. "new" \in G!Sessions
    BY DEF G!Sessions
  <2>2. session["new"] \in G!Session /\ cache \in G!Contents
    BY <2>1 DEF GInv, G!TypeOK
  <2> DEFINE state == [session["new"] EXCEPT !.report = cache]
  <2>3. state \in G!Session /\ state.report = cache
    BY <2>2 DEF G!Session
  <2>4. G!Becomes("new", state)
    BY <1>7 DEF G!Report, G!Becomes
  <2>5. /\ session' \in [G!Sessions -> G!Session]
        /\ \A z \in G!Sessions : session'[z].report # G!Absent => OfOne(session'[z].report)
    <3> HIDE DEF state
    <3>. QED BY <2>1, <2>3, <2>4, BecomesKeeps DEF GInv
  <2>. QED BY <1>1, <1>7, <2>5 DEF G!Report, G!world, G!agent, GInv, G!TypeOK, OfOne, G!Say
<1>8. ASSUME G!Reopened
      PROVE  /\ session' \in [G!Sessions -> G!Session] /\ left' \in 0..MaxUpsets
             /\ \A z \in G!Sessions : session'[z].report # G!Absent => OfOne(session'[z].report)
  <2>1. "new" \in G!Sessions /\ G!Sessions = {"new", "old"}
    BY DEF G!Sessions
  <2>2. session["new"] \in G!Session /\ G!Fresh \in G!Session /\ G!Fresh.report = G!Absent
    BY <2>1, SessionStates DEF GInv
  <2>3. session["new"].report # G!Absent => OfOne(session["new"].report)
    BY <2>1 DEF GInv
  <2>4. session' = [new |-> G!Fresh, old |-> IF session["new"].report = G!Absent
                                             THEN G!Fresh ELSE session["new"]]
    BY <1>8 DEF G!Reopened
  <2>5. DOMAIN session' = {"new", "old"}
    BY <2>4
  <2>6. session'["new"] = G!Fresh /\ session'["old"] \in {G!Fresh, session["new"]}
    BY <2>4
  <2>7. left' \in 0..MaxUpsets
    BY <1>3, <1>8 DEF G!Reopened
  <2>8. session' \in [G!Sessions -> G!Session]
    BY <2>1, <2>2, <2>4
  <2>. QED BY <2>1, <2>2, <2>3, <2>6, <2>7, <2>8
<1>9. CASE G!Reconnect
  BY <1>1, <1>8, <1>9 DEF G!Reconnect, G!world, G!agent, GInv, G!TypeOK, OfOne, G!Say
<1>10. CASE G!Restart
  <2>1. cache' = G!Blank /\ cache' \in G!Contents
    BY <1>10, SaysContents DEF G!Restart, G!Contents
  <2>2. OfOne(cache')
    BY <1>0, <2>1 DEF OfOne, G!Blank
  <2>3. G!TypeOK'
    BY <1>0, <1>8, <1>10, <2>1 DEF G!Restart, G!world, GInv, G!TypeOK
  <2>. QED BY <1>1, <1>8, <1>10, <2>2, <2>3 DEF G!Restart, GInv, OfOne, G!Say
<1>11. ASSUME NEW s \in G!Sessions, NEW state \in G!Session, G!Becomes(s, state),
              state.report # G!Absent => OfOne(state.report),
              G!OneLookup', row' \in G!Contents \cup {G!Absent}, pieced' \in BOOLEAN,
              left' \in 0..MaxUpsets, UNCHANGED <<G!world, G!agent>>
       PROVE  GInv'
  <2>1. /\ session' \in [G!Sessions -> G!Session]
        /\ \A z \in G!Sessions : session'[z].report # G!Absent => OfOne(session'[z].report)
    BY <1>11, BecomesKeeps
  <2>2. G!TypeOK'
    BY <1>11, <2>1 DEF GInv, G!TypeOK, G!world, G!agent
  <2>. QED BY <1>11, <2>1, <2>2 DEF GInv, OfOne, G!Say, G!agent
<1>12. ASSUME NEW s \in G!Sessions, G!Load(s) PROVE GInv'
  <2> DEFINE state == [session[s] EXCEPT !.memo = "read", !.copy = row]
  <2>1. state \in G!Session /\ state.report = session[s].report
    BY SessionStates DEF GInv
  <2>2. G!Becomes(s, state)
    BY <1>12 DEF G!Load
  <2> HIDE DEF state
  <2>. QED BY <1>1, <1>11, <1>12, <2>1, <2>2 DEF G!Load, GInv, G!TypeOK
<1>13. ASSUME NEW s \in G!Sessions, G!Store(s) PROVE GInv'
  <2>1. /\ session[s].report # G!Absent /\ session[s].report \in G!Contents
        /\ G!Fresh \in G!Session /\ G!Fresh.report = G!Absent
        /\ [G!Fresh EXCEPT !.memo = "stored"] \in G!Session
        /\ [G!Fresh EXCEPT !.memo = "stored"].report = G!Absent
    BY <1>13, SessionStates DEF G!Store, GInv, G!TypeOK, G!Session
  <2>2. CASE ~((session[s].copy = G!Absent) = (row = G!Absent))
    BY <1>1, <1>11, <1>13, <2>1, <2>2 DEF G!Store, GInv, G!TypeOK
  <2>3. CASE (session[s].copy = G!Absent) = (row = G!Absent)
    <3>1. /\ row' = G!Stored(s) /\ pieced' = (~G!Replaces(s) /\ (pieced \/ row' # row))
          /\ G!Becomes(s, IF s = "old" THEN G!Fresh ELSE [G!Fresh EXCEPT !.memo = "stored"])
      BY <1>13, <2>3 DEF G!Store
    <3>2. G!Stored(s) \in G!Contents /\ (G!Replaces(s) => G!Stored(s) = session[s].report)
      BY <2>1, StoredIsContents DEF GInv
    <3>3. G!OneLookup'
      <4>1. CASE G!Replaces(s)
        <5>1. OfOne(session[s].report) /\ \A f \in Fields : session[s].report[f] # None
          BY <2>1, <4>1 DEF GInv, G!Replaces
        <5>2. \E p \in Places : row' = G!Told(p)
          BY <2>1, <3>1, <3>2, <4>1, <5>1, FullTells
        <5>. QED BY <5>2 DEF G!OneLookup, G!Told, G!Say
      <4>2. CASE ~G!Replaces(s) /\ pieced'
        BY <4>2 DEF G!OneLookup
      <4>3. CASE ~G!Replaces(s) /\ ~pieced'
        <5>1. ~pieced /\ row' = row
          BY <3>1, <4>3
        <5>. QED BY <5>1 DEF GInv, G!OneLookup, G!Told, G!Say
      <4>. QED BY <4>1, <4>2, <4>3
    <3>4. pieced' \in BOOLEAN /\ left' \in 0..MaxUpsets /\ UNCHANGED <<G!world, G!agent>>
      BY <1>13, <3>1 DEF G!Store, GInv, G!TypeOK
    <3>. QED BY <1>11, <2>1, <3>1, <3>2, <3>3, <3>4
  <2>. QED BY <2>2, <2>3
<1>14. ASSUME NEW s \in G!Sessions, G!Refresh(s) PROVE GInv'
  <2> DEFINE state == IF row = G!Absent THEN G!Fresh
                      ELSE [session[s] EXCEPT !.memo = "read", !.copy = row]
  <2>1. state \in G!Session /\ state.report \in {G!Absent, session[s].report}
    BY SessionStates DEF GInv
  <2>2. G!Becomes(s, state)
    BY <1>14 DEF G!Refresh
  <2> HIDE DEF state
  <2>3. state.report # G!Absent => OfOne(state.report)
    BY <2>1 DEF GInv
  <2>. QED BY <1>1, <1>11, <1>14, <2>1, <2>2, <2>3 DEF G!Refresh, GInv, G!TypeOK
<1>15. ASSUME NEW s \in G!Sessions, G!Lose(s) PROVE GInv'
  <2>1. G!Fresh \in G!Session /\ G!Fresh.report = G!Absent
    BY SessionStates DEF GInv
  <2>2. left' \in 0..MaxUpsets
    BY <1>3, <1>15 DEF G!Lose
  <2>. QED BY <1>1, <1>11, <1>15, <2>1, <2>2 DEF G!Lose, GInv, G!TypeOK
<1>16. CASE G!Remove
  <2>1. left' \in 0..MaxUpsets /\ G!OneLookup'
    BY <1>3, <1>16 DEF G!Remove, G!OneLookup, G!Absent
  <2>. QED BY <1>16, <2>1 DEF G!Remove, G!world, G!agent, GInv, G!TypeOK, OfOne, G!Say
<1>17. CASE G!Move
  <2>1. left' \in 0..MaxUpsets
    BY <1>3, <1>17 DEF G!Move
  <2>. QED BY <1>1, <1>17, <2>1 DEF G!Move, G!agent, GInv, G!TypeOK, OfOne, G!Say
<1>18. CASE UNCHANGED G!vars
  BY <1>1, <1>18 DEF G!vars, G!world, G!agent, GInv, G!TypeOK, OfOne, G!Say
<1>. QED
  BY <1>4, <1>5, <1>6, <1>7, <1>9, <1>10, <1>12, <1>13, <1>14, <1>15, <1>16, <1>17, <1>18
     DEF G!Next, G!Lookup, G!Serve

-----------------------------------------------------------------------------
(* The theorems *)

IInv == UInv /\ AInv /\ BInv /\ PInv /\ GInv

\* The modules' own assumptions follow from that of the harness.
LEMMA Assumptions == U!ConstantsAssumption /\ OriginsAreWhole /\ Late /\ Finite
BY ProcessesAssumption DEF Late, Finite, P!Users

LEMMA InitInv == Init => IInv
BY Assumptions, UInitInv, AInitInv, BInitInv, PInitInv, GInitInv DEF Init, IInv

LEMMA StepInv == IInv /\ [Next]_vars => IInv'
<1>. SUFFICES ASSUME IInv, [Next]_vars PROVE IInv'
  OBVIOUS
<1>1. UInv' /\ AInv' /\ GInv'
  BY Assumptions, Steps, UStepInv, AStepInv, GStepInv DEF IInv
<1>2. BInv'
  BY Steps, BTypeStep, BDeadStep DEF IInv, BInv
<1>3. PInv'
  BY Assumptions, Steps, PStepInv DEF IInv
<1>. QED BY <1>1, <1>2, <1>3 DEF IInv

LEMMA Invariance == Spec => []IInv
BY InitInv, StepInv, PTL DEF Spec

\* Every variable keeps its type; in particular no more database connections are
\* given out than the pool has, and none is lost or given twice, however the
\* handlers, their notices and the jobs end: after a report, a disconnect, or a
\* wait that timed out.
THEOREM TypeCorrect == Spec => []TypeOK
<1>1. IInv => TypeOK
  BY DEF IInv, UInv, AInv, BInv, PInv, GInv, TypeOK
<1>. QED BY <1>1, Invariance, PTL

\* However often the server is started, with and without alembic, and killed in
\* between, one the image started serves with every table and column that
\* models.py declares.
THEOREM DeclaredSchemaServed == Spec => []ServesDeclaredSchema
<1>1. IInv => ServesDeclaredSchema
  BY DEF IInv, UInv, ServesDeclaredSchema, U!ServesDeclaredSchema, Whole, U!Declared
<1>. QED BY <1>1, Invariance, PTL

\* What a start commits adds to the catalog, and is whole: all revisions with
\* their effects, or all tables with the hypertable and its retention policy.
THEOREM SchemaIsWhole == Spec => NoHalfSchema
<1> DEFINE WholeChange ==
      schema' # schema =>
        /\ schema \subseteq schema'
        /\ \/ {"prefs", "netCols", "rev1", "hidden", "rev2"} \subseteq schema'
           \/ {"agents", "metrics", "prefs", "hypertable", "retention"}
                \subseteq schema'
<1>1. UInv /\ [U!Next]_(U!vars) => [WholeChange]_(U!vars)
  <2> SUFFICES ASSUME UInv, U!Next, schema' # schema PROVE WholeChange
    OBVIOUS
  <2>1. CASE U!Upgraded
    BY <2>1 DEF U!Upgraded, UInv, InTxn, Whole, UProgress
  <2>2. CASE U!Commit
    BY <2>2 DEF U!Commit, UInv, InTxn, UProgress
  <2> QED
    BY <2>1, <2>2 DEF U!Next, U!Step, U!Start, U!CreatePrefs, U!AlterAgents, U!AlterMetrics,
      U!AddHidden, U!Migrate, U!CreateAll, U!Extension, U!Hypertable, U!Retention,
      U!TimescaleStep, U!Crash
<1> QED
  BY <1>1, Steps, Invariance, PTL DEF Spec, IInv, NoHalfSchema, U!NoHalfSchema

\* On a connection that holds, the agent is behind the server's answers by the
\* reports it has given up on, however many those are.
THEOREM StaysBehind == Spec => []BehindByTimeouts
<1>1. IInv => BehindByTimeouts
  BY DEF IInv, AInv, BehindByTimeouts
<1>. QED BY <1>1, Invariance, PTL

\* The delay before the next attempt follows the number of retries since the
\* agent was started: no connection that was healthy in between shortens it.
THEOREM DelayNeverShortens == Spec => []A!DelayFollowsRetries
<1>1. /\ 2 ^ 0 = 1 /\ 2 ^ 1 = 2 /\ 2 ^ 2 = 4 /\ 2 ^ 3 = 8 /\ 2 ^ 4 = 16
  OBVIOUS
<1>2. AInv => A!DelayFollowsRetries
  <2>. SUFFICES ASSUME AInv, ~agentStop
                PROVE  backoff = IF retries = 5 THEN 30 ELSE 2 ^ retries
    BY DEF A!DelayFollowsRetries
  <2>1. retries \in {0, 1, 2, 3, 4, 5} /\ Doubled(backoff, retries)
    BY DEF AInv, A!TypeOK
  <2>2. CASE retries = 5
    BY <2>1, <2>2 DEF Doubled
  <2>3. ASSUME NEW n \in {0, 1, 2, 3, 4}, retries = n PROVE backoff = 2 ^ n
    BY <1>1, <2>1, <2>3 DEF Doubled
  <2>. QED BY <2>1, <2>2, <2>3
<1>. QED BY <1>2, Invariance, PTL DEF IInv

\* The address and the country of a row are from one lookup, in whatever order
\* lookups, reports of two connections, moves, restarts and a DELETE come, unless
\* the row was pieced together since it was last written whole: from a report
\* with a field empty, or over a session whose copy had fallen behind the row.
THEOREM RowIsOfOneLookup == Spec => []G!OneLookup
<1>1. GInv => G!OneLookup
  BY DEF GInv
<1>. QED BY <1>1, Invariance, PTL DEF IInv
=============================================================================
