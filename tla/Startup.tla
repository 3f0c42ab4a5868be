------------------------------- MODULE Startup -------------------------------
(***************************************************************************)
(* How the server comes up: "alembic upgrade head" and then uvicorn, as the *)
(* image's CMD runs them, or uvicorn alone, as in local development; the    *)
(* two migrations, init_db inside one transaction, and the container that   *)
(* is started again when its process ends.                                  *)
(*                                                                         *)
(* PostgreSQL runs DDL in transactions: a statement that fails aborts its   *)
(* transaction, later statements of it fail too, and its COMMIT is a        *)
(* ROLLBACK that raises no error.  The catalog is abstracted to the parts   *)
(* that the versions of the program differ in.                              *)
(***************************************************************************)
EXTENDS Naturals

CONSTANTS
  Timescale,       \* whether the timescaledb extension may be available: TRUE, FALSE or both
  Origins,         \* what the database may contain at first
  Launches,        \* ways the server may be started: "compose", "dev"
  MaxCrashes       \* bound: times the process is killed

\* What the database has: the tables as models.py once created them, the
\* columns added since, the revisions recorded by alembic, the hypertable.
Item == {"agents", "metrics", "netCols", "prefs", "hidden",
         "rev1", "rev2", "hypertable", "retention"}

\* The tables and columns models.py declares.
Declared == {"agents", "metrics", "netCols", "prefs", "hidden"}

ConstantsAssumption ==
  /\ Timescale \subseteq BOOLEAN
  /\ Origins \subseteq SUBSET Item
  /\ Launches \subseteq {"compose", "dev"}
  /\ MaxCrashes \in Nat

VARIABLES
  schema,    \* the committed catalog
  txn,       \* the catalog as the open transaction sees it
  aborted,   \* a statement of the open transaction has failed
  pc,        \* the statement the process is at
  launch,    \* how it was last started
  timescale, \* whether the database offers the timescaledb extension
  origin,    \* what the database contained at first
  crashes    \* times it was killed

vars == <<schema, txn, aborted, pc, launch, timescale, origin, crashes>>

Pc == {"down", "prefs", "alterAgents", "alterMetrics", "hidden", "upgraded",
       "create", "extension", "hypertable", "retention", "commit", "serving"}

\* The values each variable takes; no transaction is open before the process
\* starts or once it serves.
TypeOK ==
  /\ schema \subseteq Item
  /\ txn \subseteq Item
  /\ aborted \in BOOLEAN
  /\ pc \in Pc
  /\ launch \in Launches
  /\ timescale \in Timescale
  /\ origin \in Origins
  /\ crashes \in 0..MaxCrashes
  /\ pc \in {"down", "serving"} => txn = {} /\ ~aborted

Init ==
  /\ timescale \in Timescale
  /\ origin \in Origins
  /\ "hypertable" \in origin => timescale
  /\ schema = origin
  /\ txn = {}
  /\ aborted = FALSE
  /\ pc = "down"
  /\ launch \in Launches
  /\ crashes = 0

-----------------------------------------------------------------------------

Begin(next) == txn' = schema /\ aborted' = FALSE /\ pc' = next

\* Variant: a database that has the preferences table is taken to be at the
\* first revision.
Start_TrustsTable ==
  /\ pc = "down"
  /\ launch' \in Launches
  /\ Begin(IF launch' = "dev" THEN "create"
           ELSE IF {"rev1", "prefs"} \cap schema = {} THEN "prefs"
           ELSE IF "rev2" \notin schema THEN "hidden" ELSE "upgraded")
  /\ UNCHANGED <<schema, timescale, origin, crashes>>

\* The process starts, or the container starts it again: alembic runs the
\* revisions that are not recorded, all in one transaction.
Start ==
  /\ pc = "down"
  /\ launch' \in Launches
  /\ Begin(IF launch' = "dev" THEN "create"
           ELSE IF "rev1" \notin schema THEN "prefs"
           ELSE IF "rev2" \notin schema THEN "hidden" ELSE "upgraded")
  /\ UNCHANGED <<schema, timescale, origin, crashes>>

\* Variant: the transaction of a failed migration is not closed.
Migrate_NoRollback(at, needs, adds, next) ==
  /\ pc = at
  /\ \/ needs \subseteq txn /\ txn' = txn \cup adds /\ pc' = next
     \/ ~(needs \subseteq txn) /\ txn' = txn /\ pc' = "down"
  /\ UNCHANGED <<schema, aborted, launch, timescale, origin, crashes>>

\* Variant: each statement commits by itself.
Migrate_Autocommit(at, needs, adds, next) ==
  /\ pc = at
  /\ \/ needs \subseteq txn /\ txn' = txn \cup adds /\ pc' = next
     \/ ~(needs \subseteq txn) /\ txn' = {} /\ pc' = "down"
  /\ schema' = IF needs \subseteq txn THEN txn' ELSE schema
  /\ UNCHANGED <<aborted, launch, timescale, origin, crashes>>

\* A statement of a migration: one that cannot run ends the process and with
\* it the transaction.
Migrate(at, needs, adds, next) ==
  /\ pc = at
  /\ \/ needs \subseteq txn /\ txn' = txn \cup adds /\ pc' = next
     \/ ~(needs \subseteq txn) /\ txn' = {} /\ pc' = "down"
  /\ UNCHANGED <<schema, aborted, launch, timescale, origin, crashes>>

\* Variant: CREATE TABLE without IF NOT EXISTS.
CreatePrefs_Once ==
  /\ pc = "prefs"
  /\ \/ "prefs" \notin txn /\ txn' = txn \cup {"prefs"} /\ pc' = "alterAgents"
     \/ "prefs" \in txn /\ txn' = {} /\ pc' = "down"
  /\ UNCHANGED <<schema, aborted, launch, timescale, origin, crashes>>

CreatePrefs == Migrate("prefs", {}, {"prefs"}, "alterAgents")

AlterAgents == Migrate("alterAgents", {"agents"}, {}, "alterMetrics")
AlterMetrics == Migrate("alterMetrics", {"metrics"}, {"netCols", "rev1"}, "hidden")
AddHidden == Migrate("hidden", {"prefs"}, {"hidden", "rev2"}, "upgraded")

\* The upgrade commits and uvicorn begins init_db.
Upgraded ==
  /\ pc = "upgraded"
  /\ schema' = txn
  /\ pc' = "create"
  /\ UNCHANGED <<txn, aborted, launch, timescale, origin, crashes>>

\* create_all creates the tables that are missing and alters none.
CreateAll ==
  /\ pc = "create"
  /\ txn' = txn
       \cup {"agents", "metrics"}
       \cup (IF "agents" \in txn THEN {} ELSE {"netCols"})
       \cup (IF "prefs" \in txn THEN {} ELSE {"prefs", "hidden"})
  /\ pc' = "extension"
  /\ UNCHANGED <<schema, aborted, launch, timescale, origin, crashes>>

\* The TimescaleDB statements: the first one that fails aborts the transaction
\* and leaves the try block.
TimescaleStep(at, adds, next) ==
  /\ pc = at
  /\ \/ timescale /\ txn' = txn \cup adds /\ pc' = next /\ UNCHANGED aborted
     \/ ~timescale /\ aborted' = TRUE /\ pc' = "commit" /\ UNCHANGED txn
  /\ UNCHANGED <<schema, launch, timescale, origin, crashes>>

Extension == TimescaleStep("extension", {}, "hypertable")
Hypertable == TimescaleStep("hypertable", {"hypertable"}, "retention")
Retention == TimescaleStep("retention", {"retention"}, "commit")

\* The end of the transaction's block: COMMIT, and the server serves.
Commit ==
  /\ pc = "commit"
  /\ schema' = IF aborted THEN schema ELSE txn
  /\ txn' = {} /\ aborted' = FALSE
  /\ pc' = "serving"
  /\ UNCHANGED <<launch, timescale, origin, crashes>>

\* The process is killed, or loses the database, at any statement.
Crash ==
  /\ pc # "down" /\ crashes < MaxCrashes
  /\ crashes' = crashes + 1
  /\ txn' = {} /\ aborted' = FALSE
  /\ pc' = "down"
  /\ UNCHANGED <<schema, launch, timescale, origin>>

Step ==
  \/ Start \/ CreatePrefs \/ AlterAgents \/ AlterMetrics \/ AddHidden
  \/ Upgraded \/ CreateAll \/ Extension \/ Hypertable \/ Retention \/ Commit

Next == Step \/ Crash

Spec == Init /\ [][Next]_vars

\* The process runs on, and a container that ended is started again.
FairSpec == Spec /\ WF_vars(Step)

-----------------------------------------------------------------------------
(* Properties *)

\* What a start commits is whole, wherever it is killed: all revisions up to
\* the head with everything they add, or all tables with the hypertable and
\* its retention policy.  Nothing that was there is lost.
NoHalfSchema ==
  [][ schema' # schema =>
        /\ schema \subseteq schema'
        /\ \/ {"prefs", "netCols", "rev1", "hidden", "rev2"} \subseteq schema'
           \/ {"agents", "metrics", "prefs", "hypertable", "retention"}
                \subseteq schema' ]_vars

\* A server that the image started has every table and column models.py
\* declares, after any sequence of starts, with and without alembic, and kills.
ServesDeclaredSchema ==
  pc = "serving" /\ launch = "compose" => Declared \subseteq schema

\* A database that has served before is served again.
OldDatabaseIsServed == "agents" \in origin => <>(pc = "serving")

(* What the documentation says and the code does not do *)

\* README: docker compose starts everything, at the first time, too.
EmptyDatabaseIsServed == origin = {} => <>(pc = "serving")
=============================================================================
