------------------------- MODULE PostgresMigration -------------------------
(***************************************************************************)
(* What deploy does to the databases before it upgrades the releases       *)
(* (postgres.py): migrate_major, rename_databases, create_missing_databases *)
(* and align_with_azure, for one application whose database and role were   *)
(* renamed, and the upgrade after which that application uses the new name. *)
(*                                                                         *)
(* Every statement commits by itself, and a deploy may end after any of    *)
(* them: an error raised, a dropped connection, a reboot.  The next deploy *)
(* looks at the state it finds and has no other memory.                    *)
(*                                                                         *)
(* Postgres is external: each major has its own data directory, filled by  *)
(* the init SQL when it is new; pg_dumpall leaves out a database that      *)
(* accepts no connections; restoring rows over other rows is an error.     *)
(***************************************************************************)
EXTENDS Naturals

CONSTANTS
  Major,        \* Postgres majors a chart may select
  First,        \* the major the cluster runs at first
  StartNames,   \* the name the application's database has at first, "none" for a new one
  StartOwner,   \* ... and its owner: the application's role before align_with_azure
  MaxWrites,    \* bound: writes of the application
  InterruptAt,  \* the steps before which a deploy may end
  MaxInterrupts \* bound: how often

Name == {"objects", "objecten"}    \* RENAMED_DATABASES: old, new
Owner == {"app", "postgres"}

ASSUME PostgresMigrationAssumption ==
  /\ First \in Major
  /\ StartNames \subseteq Name \cup {"none"}
  /\ StartOwner \in Owner
  /\ MaxWrites \in Nat /\ MaxInterrupts \in Nat

\* A database: does it exist and accept connections; its rows, as the number of the
\* last write they hold; who owns it, and whether the application's role has its grants.
Database == [exists : BOOLEAN, open : BOOLEAN, rows : 0 .. MaxWrites + 1,
             owner : Owner, granted : BOOLEAN]
NoDatabase == [exists |-> FALSE, open |-> FALSE, rows |-> 0, owner |-> "postgres", granted |-> FALSE]
Empty == [exists |-> TRUE, open |-> TRUE, rows |-> 0, owner |-> "postgres", granted |-> TRUE]

\* A role: the password it has, "none" when it does not exist.
Password == Name \cup {"none"}
Directory == [used : BOOLEAN, db : [Name -> Database], role : [Name -> Password]]
NoDirectory ==
  [used |-> FALSE, db |-> [n \in Name |-> NoDatabase], role |-> [n \in Name |-> "none"]]

\* Filled by an init SQL with database and role n.
Fresh(n) ==
  [used |-> TRUE,
   db |-> [m \in Name |-> IF m = n THEN Empty ELSE NoDatabase],
   role |-> [m \in Name |-> IF m = n THEN n ELSE "none"]]

VARIABLES
  dir,         \* the data directory of each major
  major,       \* the major that runs
  initSql,     \* the name in the cluster's init SQL (this chart's release installs it)
  appName,     \* the name the application connects with
  written,     \* the last write that Postgres confirmed to the application
  pc,          \* the deploy's next statement
  want,        \* the major to deploy
  dump,        \* pg_dumpall's output
  kept,        \* the last write in a dump file; the files are kept
  todo,        \* the databases still to be aligned
  result, interrupts

server == <<dir, major>>
app == <<initSql, appName, written>>
run == <<want, todo, result, interrupts>>
vars == <<dir, major, initSql, appName, written, pc, want, dump, kept, todo, result, interrupts>>

live == dir[major]

Init ==
  /\ major = First
  /\ \E n \in StartNames :
       /\ written = IF n = "none" THEN 0 ELSE 1
       /\ initSql = n
       /\ appName = IF n = "none" THEN "objecten" ELSE n
       /\ dir = [m \in Major |->
            IF m # First THEN NoDirectory
            ELSE IF n = "none" THEN Fresh(n)
            ELSE [Fresh(n) EXCEPT !.db[n] = [Empty EXCEPT !.rows = 1, !.owner = StartOwner,
                                                          !.granted = (StartOwner = "postgres")]]]
  /\ pc = "idle" /\ want = First /\ dump = NoDirectory /\ kept = 0 /\ todo = {}
  /\ result = "none" /\ interrupts = 0

Goto(label) == pc' = label

\* The application can log in and use its tables.
Usable(n) ==
  /\ live.db[n].exists /\ live.db[n].open
  /\ live.role[n] = n
  /\ live.db[n].owner = "app" \/ live.db[n].granted

-----------------------------------------------------------------------------
Start(m) ==
  /\ pc = "idle"
  /\ Goto("check") /\ want' = m /\ result' = "running"
  /\ UNCHANGED <<dump, kept, todo, interrupts>> /\ UNCHANGED server /\ UNCHANGED app

\* Outside the window in which writes are lost, between the dump and the restore.
Write ==
  /\ pc = "idle" /\ written <= MaxWrites
  /\ Usable(appName)
  /\ dir' = [dir EXCEPT ![major].db[appName].rows = written + 1]
  /\ written' = written + 1
  /\ UNCHANGED <<major, initSql, appName, pc, dump, kept>> /\ UNCHANGED run

\* deploy's database steps end, or raise.
End(outcome) ==
  /\ Goto("idle") /\ result' = outcome
  /\ dump' = NoDirectory /\ todo' = {}

-----------------------------------------------------------------------------
(* migrate_major *)

\* Only when the rendered major differs from the running one.
Check ==
  /\ pc = "check"
  /\ Goto(IF want = major THEN "names" ELSE "dump")
  /\ UNCHANGED <<dump, kept>> /\ UNCHANGED server /\ UNCHANGED app /\ UNCHANGED run

\* Mutant: only the databases of the chart's own list are dumped.
Dumped_Listed(d) == [d EXCEPT !.db = [objects |-> NoDatabase, objecten |-> d.db["objecten"]]]

\* pg_dumpall skips a database that accepts no connections.
Dumped(d) ==
  [d EXCEPT !.db = [n \in Name |-> IF d.db[n].open THEN d.db[n] ELSE NoDatabase]]

Latest(d) ==
  IF d.db["objects"].rows > d.db["objecten"].rows THEN d.db["objects"].rows ELSE d.db["objecten"].rows

Dump ==
  /\ pc = "dump"
  /\ dump' = Dumped(live)
  /\ kept' = IF Latest(dump') > kept THEN Latest(dump') ELSE kept
  /\ Goto("apply")
  /\ UNCHANGED server /\ UNCHANGED app /\ UNCHANGED run

\* Mutant: the other directories are removed before the dump has been restored.
Apply_RemovesOthers ==
  /\ pc = "apply"
  /\ major' = want
  /\ dir' = [m \in Major |-> IF m = want THEN Fresh(initSql) ELSE NoDirectory]
  /\ Goto("restore")
  /\ UNCHANGED <<dump, kept>> /\ UNCHANGED app /\ UNCHANGED run

\* The Deployment of the other major: its own data directory, new or not.
Apply ==
  /\ pc = "apply"
  /\ major' = want
  /\ dir' = [dir EXCEPT ![want] = IF @.used THEN @ ELSE Fresh(initSql)]
  /\ Goto("restore")
  /\ UNCHANGED <<dump, kept>> /\ UNCHANGED app /\ UNCHANGED run

\* Rows that are there already stay, and are an error; "already exists" is none.
Clashes == \E n \in Name : live.db[n].rows > 0 /\ dump.db[n].rows > 0

Restored ==
  [used |-> TRUE,
   db |-> [n \in Name |->
     IF dump.db[n].exists
     THEN [dump.db[n] EXCEPT !.rows = IF live.db[n].rows > 0 THEN live.db[n].rows ELSE @]
     ELSE live.db[n]],
   role |-> [n \in Name |-> IF dump.role[n] # "none" THEN dump.role[n] ELSE live.role[n]]]

\* psql goes on after an error; then migrate_major raises.
Restore ==
  /\ pc = "restore"
  /\ dir' = [dir EXCEPT ![major] = Restored]
  /\ IF Clashes THEN End("failed") ELSE Goto("clean") /\ UNCHANGED <<todo, dump, result>>
  /\ UNCHANGED <<major, want, kept, interrupts>> /\ UNCHANGED app

\* Mutant: the old directory stays.
Clean_KeepsOld ==
  /\ pc = "clean"
  /\ dump' = NoDirectory
  /\ Goto("names")
  /\ UNCHANGED <<dir, major, kept>> /\ UNCHANGED app /\ UNCHANGED run

\* Removes the other data directories, and restarts the clients.
Clean ==
  /\ pc = "clean"
  /\ dir' = [m \in Major |-> IF m = major THEN dir[m] ELSE NoDirectory]
  /\ dump' = NoDirectory
  /\ Goto("names")
  /\ UNCHANGED <<major, kept>> /\ UNCHANGED app /\ UNCHANGED run

-----------------------------------------------------------------------------
(* rename_databases: its statements, for a database with only the old name. *)

Old == live.db["objects"]
New == live.db["objecten"]

Names ==
  /\ pc = "names"
  /\ Goto(IF Old.exists /\ ~New.exists THEN "close" ELSE "missing")
  /\ UNCHANGED <<dump, kept>> /\ UNCHANGED server /\ UNCHANGED app /\ UNCHANGED run

\* One statement, which changes the running server.
Statement(from, to, changed) ==
  /\ pc = from
  /\ dir' = [dir EXCEPT ![major] = changed]
  /\ Goto(to)
  /\ UNCHANGED <<major, dump, kept>> /\ UNCHANGED app /\ UNCHANGED run

\* Postgres renames no database with sessions.
Close == Statement("close", "rename", [live EXCEPT !.db["objects"].open = FALSE])

Rename == Statement("rename", "open", [live EXCEPT !.db = [objects |-> NoDatabase, objecten |-> Old]])

\* Mutant: the renamed database is not opened again.
Open_Skipped == Statement("open", "role", live)

Open == Statement("open", "role", [live EXCEPT !.db["objecten"].open = TRUE])

\* A renamed role keeps its password.
RenameRole ==
  Statement("role", "password",
            [live EXCEPT !.role = [objects |-> "none", objecten |-> @["objects"]]])

SetPassword == Statement("password", "missing", [live EXCEPT !.role["objecten"] = "objecten"])

-----------------------------------------------------------------------------
(* create_missing_databases: the init SQL's statements for a missing one. *)

Missing ==
  /\ pc = "missing"
  /\ Goto(IF New.exists THEN "align" ELSE "create role")
  /\ UNCHANGED <<dump, kept>> /\ UNCHANGED server /\ UNCHANGED app /\ UNCHANGED run

CreateRole ==
  Statement("create role", "create database",
            [live EXCEPT !.role["objecten"] = IF @ = "none" THEN "objecten" ELSE @])

CreateDatabase ==
  Statement("create database", "grant new",
            [live EXCEPT !.db["objecten"] = [Empty EXCEPT !.granted = FALSE]])

GrantNew == Statement("grant new", "align", [live EXCEPT !.db["objecten"].granted = TRUE])

-----------------------------------------------------------------------------
(* align_with_azure *)

\* Reads the owners; its script connects to every database.
Align ==
  /\ pc = "align"
  /\ IF \E n \in Name : live.db[n].exists /\ ~live.db[n].open
     THEN End("failed")
     ELSE /\ todo' = {n \in Name : live.db[n].exists /\ live.db[n].owner # "postgres"}
          /\ Goto("give") /\ UNCHANGED <<dump, result>>
  /\ UNCHANGED <<want, kept, interrupts>> /\ UNCHANGED server /\ UNCHANGED app

\* OWNER TO postgres, for a database of its application's role ...
Give ==
  /\ pc = "give"
  /\ IF todo = {}
     THEN Goto("upgrade") /\ UNCHANGED dir
     ELSE /\ \E n \in todo : dir' = [dir EXCEPT ![major].db[n].owner = "postgres"]
          /\ Goto("grant")
  /\ UNCHANGED <<major, dump, kept>> /\ UNCHANGED app /\ UNCHANGED run

\* Mutant: the grants are left out.
Grant_Skipped ==
  /\ pc = "grant"
  /\ todo' = {m \in todo : live.db[m].owner # "postgres"}
  /\ Goto("give")
  /\ UNCHANGED <<dir, major, want, dump, kept, result, interrupts>> /\ UNCHANGED app

\* ... and ALL granted to that role.
Grant ==
  /\ pc = "grant"
  /\ \E n \in todo :
       /\ live.db[n].owner = "postgres"
       /\ dir' = [dir EXCEPT ![major].db[n].granted = TRUE]
       /\ todo' = todo \ {n}
  /\ Goto("give")
  /\ UNCHANGED <<major, want, dump, kept, result, interrupts>> /\ UNCHANGED app

\* The releases: the init SQL, and applications that use the new name.
Upgrade ==
  /\ pc = "upgrade"
  /\ initSql' = "objecten" /\ appName' = "objecten"
  /\ End("deployed")
  /\ UNCHANGED <<written, want, kept, interrupts>> /\ UNCHANGED server

-----------------------------------------------------------------------------
\* The deploy ends before the statement it is at.
Interrupt ==
  /\ pc \in InterruptAt
  /\ interrupts < MaxInterrupts
  /\ interrupts' = interrupts + 1
  /\ End("failed")
  /\ UNCHANGED <<want, kept>> /\ UNCHANGED server /\ UNCHANGED app

Step ==
  \/ Check \/ Dump \/ Apply \/ Restore \/ Clean
  \/ Names \/ Close \/ Rename \/ Open \/ RenameRole \/ SetPassword
  \/ Missing \/ CreateRole \/ CreateDatabase \/ GrantNew
  \/ Align \/ Give \/ Grant \/ Upgrade

Next == (\E m \in Major : Start(m)) \/ Write \/ Step \/ Interrupt

Spec == Init /\ [][Next]_vars

\* deploy runs to its end, and a failed deploy is run again.
FairSpec == Spec /\ WF_vars(Step) /\ WF_vars(result = "failed" /\ Start(want))

-----------------------------------------------------------------------------
Labels == {"idle", "check", "dump", "apply", "restore", "clean",
           "names", "close", "rename", "open", "role", "password",
           "missing", "create role", "create database", "grant new",
           "align", "give", "grant", "upgrade"}

\* Every variable has its type.
TypeOK ==
  /\ dir \in [Major -> Directory] /\ major \in Major
  /\ initSql \in Name \cup {"none"} /\ appName \in Name
  /\ written \in 0 .. MaxWrites + 1 /\ kept \in 0 .. MaxWrites + 1
  /\ pc \in Labels /\ want \in Major /\ dump \in Directory /\ todo \subseteq Name
  /\ result \in {"none", "running", "failed", "deployed"} /\ interrupts \in 0 .. MaxInterrupts

\* migrate_major, rename_databases: "writes between the dump and the restore are lost",
\* and no others.  After a deploy the application finds its last write.
RowsKept == result = "deployed" => live.db[appName].rows = written

\* "Renames RENAMED_DATABASES and their roles in place", "with ALL granted to its
\* owner": after a deploy the application can use its database.
AppCanConnect == result = "deployed" => Usable(appName)

\* A data directory is removed only when the running one has its last write.
RemovesOnlyCopies ==
  [][\A m \in Major : dir[m].used /\ ~dir'[m].used => Latest(dir'[major']) >= Latest(dir[m])]_vars

\* The application's last write is in some data directory or kept dump, wherever a
\* deploy ended: it can still be found by hand.
NothingGone == written <= kept \/ \E m \in Major : Latest(dir[m]) = written

\* A deploy run again until it succeeds succeeds.
RetryConverges == result = "failed" ~> result = "deployed"
=============================================================================
