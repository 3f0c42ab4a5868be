--------------------------- MODULE ReleaseDatabases ---------------------------
(* The databases a release may find when it is started, by the parts that    *)
(* Startup tells apart.                                                      *)

\* Created by a release that had no migrations: without the network columns.
Legacy == {"agents", "metrics", "hypertable", "retention"}

\* The same after a start of today's code without alembic, and two databases
\* created by releases between the first revision and today's.
LegacyThenDev == Legacy \cup {"prefs", "hidden"}
FirstPrefs == Legacy \cup {"prefs", "netCols"}
FirstRevision == FirstPrefs \cup {"rev1"}

\* Created by today's code, without and with alembic.
DevMade == FirstPrefs \cup {"hidden"}
Current == DevMade \cup {"rev1", "rev2"}

OldDatabases ==
  {Legacy, LegacyThenDev, FirstPrefs, FirstRevision, DevMade, Current}

\* Without the extension: nothing, or what alembic and create_all would leave.
Plain == {"agents", "metrics", "prefs", "netCols", "hidden"}
PlainDatabases == {{}, Plain}

EmptyDatabase == {{}}

Ways == {"compose", "dev"}

AllDatabases == PlainDatabases \cup OldDatabases
=============================================================================
