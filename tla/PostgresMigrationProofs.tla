---------------------- MODULE PostgresMigrationProofs ----------------------
(***************************************************************************)
(* What holds of a deploy's database steps for any majors, names, writes   *)
(* and bounds, by where deploys may be cut off.                            *)
(***************************************************************************)
EXTENDS PostgresMigration, TLAPS

USE PostgresMigrationAssumption DEF server, app, run, vars, live, Old, New, Goto

-----------------------------------------------------------------------------
(* Types. *)

LEMMA DatabaseTypes ==
  /\ NoDatabase \in Database /\ Empty \in Database
  /\ NoDatabase.rows = 0 /\ ~NoDatabase.exists /\ ~NoDatabase.open
  /\ NoDatabase.owner = "postgres" /\ ~NoDatabase.granted
  /\ Empty.rows = 0 /\ Empty.exists /\ Empty.open /\ Empty.owner = "postgres" /\ Empty.granted
  BY DEF NoDatabase, Empty, Database, Owner

\* A directory by its parts.
LEMMA DirectoryTypes ==
  ASSUME NEW u \in BOOLEAN, NEW d \in [Name -> Database], NEW r \in [Name -> Password]
  PROVE  [used |-> u, db |-> d, role |-> r] \in Directory
  BY DEF Directory

LEMMA DirectoryParts ==
  ASSUME NEW d \in Directory
  PROVE  /\ d.used \in BOOLEAN /\ d.db \in [Name -> Database] /\ d.role \in [Name -> Password]
         /\ d = [used |-> d.used, db |-> d.db, role |-> d.role]
         /\ \A n \in Name :
              /\ d.db[n].exists \in BOOLEAN /\ d.db[n].open \in BOOLEAN
              /\ d.db[n].rows \in 0 .. MaxWrites + 1 /\ d.db[n].owner \in Owner
              /\ d.db[n].granted \in BOOLEAN
  BY DEF Directory, Database

LEMMA NoDirectoryParts ==
  /\ NoDirectory \in Directory /\ ~NoDirectory.used
  /\ \A n \in Name : NoDirectory.db[n] = NoDatabase /\ NoDirectory.role[n] = "none"
  BY DatabaseTypes DEF NoDirectory, Directory, Password

LEMMA FreshParts ==
  ASSUME NEW n \in Name \cup {"none"}
  PROVE  /\ Fresh(n) \in Directory /\ Fresh(n).used
         /\ \A m \in Name : /\ Fresh(n).db[m] = IF m = n THEN Empty ELSE NoDatabase
                            /\ Fresh(n).role[m] = IF m = n THEN n ELSE "none"
  BY DatabaseTypes DEF Fresh, Directory, Password

LEMMA DumpedParts ==
  ASSUME NEW d \in Directory
  PROVE  /\ Dumped(d) \in Directory /\ Dumped(d).role = d.role
         /\ \A n \in Name : Dumped(d).db[n] = IF d.db[n].open THEN d.db[n] ELSE NoDatabase
  BY DatabaseTypes DEF Dumped, Directory

\* The last write in a directory is that of one of its databases.
LEMMA LatestIs ==
  ASSUME NEW d \in Directory
  PROVE  /\ Latest(d) \in 0 .. MaxWrites + 1
         /\ \A n \in Name : d.db[n].rows <= Latest(d)
         /\ \E n \in Name : d.db[n].rows = Latest(d)
  BY DirectoryParts DEF Latest, Name

\* The restored directory has the dump's databases, with the rows that were there.
LEMMA RestoredParts ==
  ASSUME TypeOK
  PROVE  /\ Restored \in Directory /\ Restored.used
         /\ \A n \in Name :
              /\ Restored.db[n].exists = (dump.db[n].exists \/ live.db[n].exists)
              /\ dump.db[n].exists =>
                   /\ Restored.db[n].open = dump.db[n].open
                   /\ Restored.db[n].owner = dump.db[n].owner
                   /\ Restored.db[n].granted = dump.db[n].granted
                   /\ Restored.db[n].rows =
                        IF live.db[n].rows > 0 THEN live.db[n].rows ELSE dump.db[n].rows
              /\ ~dump.db[n].exists => Restored.db[n] = live.db[n]
              /\ Restored.role[n] = IF dump.role[n] # "none" THEN dump.role[n] ELSE live.role[n]
<1>1. live \in Directory /\ dump \in Directory
  BY DEF TypeOK
<1>2. \A n \in Name : [dump.db[n] EXCEPT !.rows = IF live.db[n].rows > 0 THEN live.db[n].rows ELSE @]
                        \in Database
  BY <1>1 DEF Directory, Database
<1>3. Restored \in Directory
  BY <1>1, <1>2 DEF Restored, Directory
<1>. QED BY <1>1, <1>3 DEF Restored, Directory, Database

-----------------------------------------------------------------------------
(* What the statements do to the running directory. *)

\* Nothing but the running directory changes: to these databases and roles.
Becomes(old, new, roles) ==
  /\ major' = major /\ dir' \in [Major -> Directory]
  /\ \A m \in Major : m # major => dir'[m] = dir[m]
  /\ dir'[major].used = live.used /\ dir'[major].role = roles
  /\ dir'[major].db["objects"] = old /\ dir'[major].db["objecten"] = new

\* One database of it changes.
Alters(n, database) ==
  /\ major' = major /\ dir' \in [Major -> Directory]
  /\ \A m \in Major : m # major => dir'[m] = dir[m]
  /\ dir'[major].used = live.used /\ dir'[major].role = live.role
  /\ dir'[major].db[n] = database
  /\ \A k \in Name : k # n => dir'[major].db[k] = live.db[k]

LEMMA StatementDoes ==
  ASSUME TypeOK, NEW from, NEW to, NEW d \in Directory, Statement(from, to, d)
  PROVE  /\ major' = major /\ dir' \in [Major -> Directory] /\ dir'[major] = d
         /\ \A m \in Major : m # major => dir'[m] = dir[m]
  BY DEF Statement, TypeOK

\* A database with one field changed, and a directory with one database.
LEMMA FieldTypes ==
  ASSUME NEW b \in Database
  PROVE  /\ [b EXCEPT !.open = TRUE] \in Database /\ [b EXCEPT !.open = FALSE] \in Database
         /\ [b EXCEPT !.granted = TRUE] \in Database /\ [b EXCEPT !.granted = FALSE] \in Database
         /\ [b EXCEPT !.owner = "postgres"] \in Database
         /\ \A r \in 0 .. MaxWrites + 1 : [b EXCEPT !.rows = r] \in Database
<1>1. b.open \in BOOLEAN /\ b.granted \in BOOLEAN /\ "postgres" \in Owner
  BY DEF Database, Owner
<1>. QED BY <1>1 DEF Database

LEMMA WithDatabase ==
  ASSUME NEW d \in Directory, NEW n \in Name, NEW b \in Database
  PROVE  /\ [d EXCEPT !.db[n] = b] \in Directory
         /\ [d EXCEPT !.db[n] = b].used = d.used /\ [d EXCEPT !.db[n] = b].role = d.role
         /\ [d EXCEPT !.db[n] = b].db[n] = b
         /\ \A k \in Name : k # n => [d EXCEPT !.db[n] = b].db[k] = d.db[k]
  BY DEF Directory

LEMMA LiveTypes ==
  TypeOK => live \in Directory /\ \A n \in Name : live.db[n] \in Database
  BY DEF TypeOK, Directory

LEMMA CloseDoes ==
  ASSUME TypeOK, Close
  PROVE  Becomes([Old EXCEPT !.open = FALSE], New, live.role)
<1> DEFINE b == [live.db["objects"] EXCEPT !.open = FALSE]
           d == [live EXCEPT !.db["objects"] = b]
<1>1. b \in Database /\ live \in Directory /\ "objects" \in Name
  BY LiveTypes, FieldTypes DEF Name
<1>2. Statement("close", "rename", d)
  BY DEF Close
<1> HIDE DEF b
<1>3. /\ d \in Directory /\ d.used = live.used /\ d.role = live.role /\ d.db["objects"] = b
      /\ d.db["objecten"] = live.db["objecten"]
  BY <1>1, WithDatabase DEF Name
<1> HIDE DEF d
<1>. QED BY <1>2, <1>3, StatementDoes DEF Becomes, b

LEMMA RenameDoes ==
  ASSUME TypeOK, Rename
  PROVE  Becomes(NoDatabase, Old, live.role)
<1> DEFINE d == [live EXCEPT !.db = [objects |-> NoDatabase, objecten |-> Old]]
<1>1. live \in Directory /\ Old \in Database
  BY DEF TypeOK, Directory, Name
<1>2. d \in Directory
  BY <1>1, DatabaseTypes DEF Directory, Name
<1>3. /\ d.used = live.used /\ d.role = live.role
      /\ d.db["objects"] = NoDatabase /\ d.db["objecten"] = Old
  BY <1>1 DEF Directory
<1>4. Statement("rename", "open", d)
  BY DEF Rename
<1> HIDE DEF d
<1>. QED BY <1>2, <1>3, <1>4, StatementDoes DEF Becomes

LEMMA OpenDoes ==
  ASSUME TypeOK, Open
  PROVE  Becomes(Old, [New EXCEPT !.open = TRUE], live.role)
<1> DEFINE b == [live.db["objecten"] EXCEPT !.open = TRUE]
           d == [live EXCEPT !.db["objecten"] = b]
<1>1. b \in Database /\ live \in Directory /\ "objecten" \in Name
  BY LiveTypes, FieldTypes DEF Name
<1>2. Statement("open", "role", d)
  BY DEF Open
<1> HIDE DEF b
<1>3. /\ d \in Directory /\ d.used = live.used /\ d.role = live.role /\ d.db["objecten"] = b
      /\ d.db["objects"] = live.db["objects"]
  BY <1>1, WithDatabase DEF Name
<1> HIDE DEF d
<1>. QED BY <1>2, <1>3, StatementDoes DEF Becomes, b

LEMMA RenameRoleDoes ==
  ASSUME TypeOK, RenameRole
  PROVE  Becomes(Old, New, [objects |-> "none", objecten |-> live.role["objects"]])
<1> DEFINE r == [objects |-> "none", objecten |-> live.role["objects"]]
           d == [live EXCEPT !.role = r]
<1>1. live \in Directory /\ r \in [Name -> Password]
  BY DEF TypeOK, Directory, Name, Password
<1>2. Statement("role", "password", d)
  BY DEF RenameRole
<1> HIDE DEF r
<1>3. d \in Directory
  BY <1>1 DEF Directory
<1>4. d.used = live.used /\ d.role = r /\ d.db = live.db
  BY <1>1 DEF Directory
<1> HIDE DEF d
<1>5. Becomes(Old, New, r)
  BY <1>2, <1>3, <1>4, StatementDoes DEF Becomes
<1>. QED BY <1>5 DEF r

\* The password of the renamed role, and the role that the init SQL creates.
LEMMA RoleDoes ==
  ASSUME TypeOK, NEW from, NEW to, NEW w \in Password,
         Statement(from, to, [live EXCEPT !.role["objecten"] = w])
  PROVE  Becomes(Old, New, [live.role EXCEPT !["objecten"] = w])
<1> DEFINE d == [live EXCEPT !.role["objecten"] = w]
<1>1. live \in Directory
  BY DEF TypeOK
<1>2. d \in Directory
  BY <1>1 DEF Directory
<1>3. d.used = live.used /\ d.role = [live.role EXCEPT !["objecten"] = w] /\ d.db = live.db
  BY <1>1 DEF Directory
<1> HIDE DEF d
<1>. QED BY <1>2, <1>3, StatementDoes DEF Becomes, d

LEMMA SetPasswordDoes ==
  ASSUME TypeOK, SetPassword
  PROVE  Becomes(Old, New, [live.role EXCEPT !["objecten"] = "objecten"])
  BY RoleDoes DEF SetPassword, Password, Name

LEMMA CreateRoleDoes ==
  ASSUME TypeOK, CreateRole
  PROVE  /\ Becomes(Old, New, dir'[major].role)
         /\ dir'[major].role["objecten"] =
              IF live.role["objecten"] = "none" THEN "objecten" ELSE live.role["objecten"]
         /\ dir'[major].role["objects"] = live.role["objects"]
<1> DEFINE w == IF live.role["objecten"] = "none" THEN "objecten" ELSE live.role["objecten"]
<1>1. w \in Password /\ live.role \in [Name -> Password]
  BY DEF TypeOK, Directory, Password, Name
<1>2. Statement("create role", "create database", [live EXCEPT !.role["objecten"] = w])
  BY DEF CreateRole, TypeOK, Directory, Name
<1> HIDE DEF w
<1>3. Becomes(Old, New, [live.role EXCEPT !["objecten"] = w])
  BY <1>1, <1>2, RoleDoes
<1>. QED BY <1>1, <1>3 DEF Becomes, Name, w

\* A new database of the init SQL, without its grants yet.
LEMMA CreateDatabaseDoes ==
  ASSUME TypeOK, CreateDatabase
  PROVE  Becomes(Old, [Empty EXCEPT !.granted = FALSE], live.role)
<1> DEFINE e == [Empty EXCEPT !.granted = FALSE]
           d == [live EXCEPT !.db["objecten"] = e]
<1>1. live \in Directory /\ e \in Database
  BY LiveTypes, DatabaseTypes, FieldTypes
<1>2. Statement("create database", "grant new", d)
  BY DEF CreateDatabase
<1> HIDE DEF e
<1>3. d \in Directory
  BY <1>1 DEF Directory
<1>4. d.used = live.used /\ d.role = live.role /\ d.db["objects"] = Old /\ d.db["objecten"] = e
  BY <1>1 DEF Directory, Name
<1> HIDE DEF d
<1>5. Becomes(Old, e, live.role)
  BY <1>2, <1>3, <1>4, StatementDoes DEF Becomes
<1>. QED BY <1>5 DEF e

LEMMA GrantNewDoes ==
  ASSUME TypeOK, GrantNew
  PROVE  Becomes(Old, [New EXCEPT !.granted = TRUE], live.role)
<1> DEFINE b == [live.db["objecten"] EXCEPT !.granted = TRUE]
           d == [live EXCEPT !.db["objecten"] = b]
<1>1. b \in Database /\ live \in Directory /\ "objecten" \in Name
  BY LiveTypes, FieldTypes DEF Name
<1>2. Statement("grant new", "align", d)
  BY DEF GrantNew
<1> HIDE DEF b
<1>3. /\ d \in Directory /\ d.used = live.used /\ d.role = live.role /\ d.db["objecten"] = b
      /\ d.db["objects"] = live.db["objects"]
  BY <1>1, WithDatabase DEF Name
<1> HIDE DEF d
<1>. QED BY <1>2, <1>3, StatementDoes DEF Becomes, b

\* align_with_azure's statements and an application's write change one database.
LEMMA GiveDoes ==
  ASSUME TypeOK, NEW n \in Name, dir' = [dir EXCEPT ![major].db[n].owner = "postgres"], major' = major
  PROVE  Alters(n, [live.db[n] EXCEPT !.owner = "postgres"])
<1> DEFINE b == [live.db[n] EXCEPT !.owner = "postgres"]
           d == [live EXCEPT !.db[n] = b]
<1>1. b \in Database /\ live \in Directory
  BY LiveTypes, FieldTypes
<1>2. dir' = [dir EXCEPT ![major] = d]
  OBVIOUS
<1> HIDE DEF b
<1>3. d \in Directory /\ d.used = live.used /\ d.role = live.role /\ d.db[n] = b
      /\ \A k \in Name : k # n => d.db[k] = live.db[k]
  BY <1>1, WithDatabase
<1> HIDE DEF d
<1>. QED BY <1>2, <1>3 DEF Alters, TypeOK, b

LEMMA GrantDoes ==
  ASSUME TypeOK, NEW n \in Name, dir' = [dir EXCEPT ![major].db[n].granted = TRUE], major' = major
  PROVE  Alters(n, [live.db[n] EXCEPT !.granted = TRUE])
<1> DEFINE b == [live.db[n] EXCEPT !.granted = TRUE]
           d == [live EXCEPT !.db[n] = b]
<1>1. b \in Database /\ live \in Directory
  BY LiveTypes, FieldTypes
<1>2. dir' = [dir EXCEPT ![major] = d]
  OBVIOUS
<1> HIDE DEF b
<1>3. d \in Directory /\ d.used = live.used /\ d.role = live.role /\ d.db[n] = b
      /\ \A k \in Name : k # n => d.db[k] = live.db[k]
  BY <1>1, WithDatabase
<1> HIDE DEF d
<1>. QED BY <1>2, <1>3 DEF Alters, TypeOK, b

LEMMA WriteDoes ==
  ASSUME TypeOK, Write
  PROVE  /\ Alters(appName, [live.db[appName] EXCEPT !.rows = written + 1])
         /\ written' = written + 1 /\ written' \in 0 .. MaxWrites + 1
<1> DEFINE b == [live.db[appName] EXCEPT !.rows = written + 1]
           d == [live EXCEPT !.db[appName] = b]
<1>1. written + 1 \in 0 .. MaxWrites + 1
  BY DEF Write, TypeOK
<1>2. b \in Database /\ live \in Directory /\ appName \in Name
  BY <1>1, LiveTypes, FieldTypes DEF TypeOK
<1>3. dir' = [dir EXCEPT ![major] = d]
  BY DEF Write
<1> HIDE DEF b
<1>4. d \in Directory /\ d.used = live.used /\ d.role = live.role /\ d.db[appName] = b
      /\ \A k \in Name : k # appName => d.db[k] = live.db[k]
  BY <1>2, WithDatabase
<1> HIDE DEF d
<1>. QED BY <1>1, <1>3, <1>4 DEF Alters, TypeOK, Write, b

\* Whichever statement it was.
LEMMA BecomesTypes ==
  ASSUME TypeOK, NEW a, NEW b, NEW r, Becomes(a, b, r)
  PROVE  dir' \in [Major -> Directory] /\ major' \in Major
  BY DEF Becomes, TypeOK

\* The data directories at first: an application's database and role with the name it
\* has, or none, in the first major's.
LEMMA StartIs ==
  ASSUME Init
  PROVE  \E n \in StartNames, e \in Database :
           /\ e.exists /\ e.open /\ e.rows = 1 /\ (e.owner = "postgres" => e.granted)
           /\ written = IF n = "none" THEN 0 ELSE 1
           /\ initSql = n /\ appName = IF n = "none" THEN "objecten" ELSE n
           /\ major = First /\ n \in Name \cup {"none"}
           /\ dir \in [Major -> Directory] /\ dir[First].used
           /\ \A m \in Major : m # First => dir[m] = NoDirectory
           /\ \A k \in Name : /\ dir[First].db[k] = IF k = n THEN e ELSE NoDatabase
                              /\ dir[First].role[k] = IF k = n THEN n ELSE "none"
<1>1. PICK n \in StartNames :
        /\ written = IF n = "none" THEN 0 ELSE 1
        /\ initSql = n /\ appName = IF n = "none" THEN "objecten" ELSE n
        /\ dir = [k \in Major |->
             IF k # First THEN NoDirectory
             ELSE IF n = "none" THEN Fresh(n)
             ELSE [Fresh(n) EXCEPT !.db[n] = [Empty EXCEPT !.rows = 1, !.owner = StartOwner,
                                                           !.granted = (StartOwner = "postgres")]]]
  BY DEF Init
<1> DEFINE g == StartOwner = "postgres"
           e == [Empty EXCEPT !.rows = 1, !.owner = StartOwner, !.granted = g]
<1>2. e.exists /\ e.open /\ e.rows = 1 /\ (e.owner = "postgres" => e.granted)
  BY DEF Empty
<1>3. e \in Database
  <2>1. 1 \in 0 .. MaxWrites + 1 /\ g \in BOOLEAN
    OBVIOUS
  <2> HIDE DEF g
  <2>. QED BY <2>1, DatabaseTypes DEF Database
<1>4. /\ dir = [k \in Major |-> IF k # First THEN NoDirectory
                               ELSE IF n = "none" THEN Fresh(n) ELSE [Fresh(n) EXCEPT !.db[n] = e]]
      /\ n \in Name \cup {"none"}
  BY <1>1
<1> HIDE DEF e
<1>5. /\ Fresh(n) \in Directory /\ NoDirectory \in Directory
      /\ n # "none" => [Fresh(n) EXCEPT !.db[n] = e] \in Directory
  BY <1>3, <1>4, FreshParts, NoDirectoryParts, WithDatabase
<1>6. /\ dir[First].used
      /\ \A k \in Name : /\ dir[First].db[k] = IF k = n THEN e ELSE NoDatabase
                         /\ dir[First].role[k] = IF k = n THEN n ELSE "none"
  BY <1>3, <1>4, <1>5, FreshParts, WithDatabase DEF Name
<1>7. dir \in [Major -> Directory] /\ \A m \in Major : m # First => dir[m] = NoDirectory
  BY <1>4, <1>5
<1>. QED BY <1>1, <1>2, <1>3, <1>4, <1>6, <1>7 DEF Init

-----------------------------------------------------------------------------
(* Type correctness. *)

\* Every variable keeps its type, wherever deploys end.
THEOREM TypeCorrect == Spec => []TypeOK
<1>1. Init => TypeOK
  <2> SUFFICES ASSUME Init PROVE TypeOK
    OBVIOUS
  <2>1. /\ dir \in [Major -> Directory] /\ written \in 0 .. MaxWrites + 1
        /\ initSql \in Name \cup {"none"} /\ appName \in Name
    BY StartIs DEF Name
  <2>2. kept \in 0 .. MaxWrites + 1 /\ interrupts \in 0 .. MaxInterrupts
    BY DEF Init
  <2>. QED BY <2>1, <2>2, NoDirectoryParts DEF Init, TypeOK, Labels
<1>2. TypeOK /\ [Next]_vars => TypeOK'
  <2> SUFFICES ASSUME TypeOK, [Next]_vars PROVE TypeOK'
    OBVIOUS
  <2>1. live \in Directory /\ NoDirectory \in Directory
    BY NoDirectoryParts DEF TypeOK
  <2>2. ASSUME NEW m \in Major, Start(m) PROVE TypeOK'
    BY <2>2 DEF Start, TypeOK, Labels
  <2>3. CASE Write
    BY <2>3, WriteDoes DEF Write, Alters, TypeOK
  <2>4. CASE Check
    BY <2>4 DEF Check, TypeOK, Labels
  <2>5. CASE Dump
    <3>1. Dumped(live) \in Directory
      BY <2>1, DumpedParts
    <3>2. dump' \in Directory
      BY <2>5, <3>1 DEF Dump
    <3>3. kept' \in 0 .. MaxWrites + 1
      BY <2>5, <3>2, LatestIs DEF Dump, TypeOK
    <3>. QED BY <2>5, <3>2, <3>3 DEF Dump, TypeOK, Labels
  <2>6. CASE Apply
    <3>1. Fresh(initSql) \in Directory
      BY FreshParts DEF TypeOK
    <3>. QED BY <2>6, <3>1 DEF Apply, TypeOK, Labels
  <2>7. CASE Restore
    <3>1. dir' \in [Major -> Directory]
      BY <2>7, RestoredParts DEF Restore, TypeOK
    <3>. QED BY <2>1, <2>7, <3>1 DEF Restore, End, TypeOK, Labels
  <2>8. CASE Clean
    BY <2>1, <2>8 DEF Clean, TypeOK, Labels
  <2>9. CASE Names
    BY <2>9 DEF Names, TypeOK, Labels
  <2>10. CASE Close
    BY <2>10, CloseDoes, BecomesTypes DEF Close, Statement, TypeOK, Labels
  <2>11. CASE Rename
    BY <2>11, RenameDoes, BecomesTypes DEF Rename, Statement, TypeOK, Labels
  <2>12. CASE Open
    BY <2>12, OpenDoes, BecomesTypes DEF Open, Statement, TypeOK, Labels
  <2>13. CASE RenameRole
    BY <2>13, RenameRoleDoes, BecomesTypes DEF RenameRole, Statement, TypeOK, Labels
  <2>14. CASE SetPassword
    BY <2>14, SetPasswordDoes, BecomesTypes DEF SetPassword, Statement, TypeOK, Labels
  <2>15. CASE Missing
    BY <2>15 DEF Missing, TypeOK, Labels
  <2>16. CASE CreateRole
    BY <2>16, CreateRoleDoes, BecomesTypes DEF CreateRole, Statement, TypeOK, Labels
  <2>17. CASE CreateDatabase
    BY <2>17, CreateDatabaseDoes, BecomesTypes DEF CreateDatabase, Statement, TypeOK, Labels
  <2>18. CASE GrantNew
    BY <2>18, GrantNewDoes, BecomesTypes DEF GrantNew, Statement, TypeOK, Labels
  <2>19. CASE Align
    BY <2>1, <2>19 DEF Align, End, TypeOK, Labels
  <2>20. CASE Give
    <3>1. CASE todo = {}
      BY <2>20, <3>1 DEF Give, TypeOK, Labels
    <3>2. CASE todo # {}
      <4>1. PICK n \in todo : dir' = [dir EXCEPT ![major].db[n].owner = "postgres"]
        BY <2>20, <3>2 DEF Give
      <4>2. dir' \in [Major -> Directory]
        BY <2>20, <4>1, GiveDoes DEF Give, Alters, TypeOK
      <4>. QED BY <2>20, <3>2, <4>2 DEF Give, TypeOK, Labels
    <3>. QED BY <3>1, <3>2
  <2>21. CASE Grant
    <3>1. PICK n \in todo : /\ dir' = [dir EXCEPT ![major].db[n].granted = TRUE]
                            /\ todo' = todo \ {n}
      BY <2>21 DEF Grant
    <3>2. dir' \in [Major -> Directory]
      BY <2>21, <3>1, GrantDoes DEF Grant, Alters, TypeOK
    <3>. QED BY <2>21, <3>1, <3>2 DEF Grant, TypeOK, Labels
  <2>22. CASE Upgrade
    BY <2>1, <2>22 DEF Upgrade, End, TypeOK, Labels, Name
  <2>23. CASE Interrupt
    <3>1. interrupts' \in 0 .. MaxInterrupts
      BY <2>23 DEF Interrupt, TypeOK
    <3>. QED BY <2>1, <2>23, <3>1 DEF Interrupt, End, TypeOK, Labels
  <2>24. CASE UNCHANGED vars
    BY <2>24 DEF TypeOK
  <2>. QED
    BY <2>2, <2>3, <2>4, <2>5, <2>6, <2>7, <2>8, <2>9, <2>10, <2>11, <2>12, <2>13, <2>14,
       <2>15, <2>16, <2>17, <2>18, <2>19, <2>20, <2>21, <2>22, <2>23, <2>24 DEF Next, Step
<1>. QED BY <1>1, <1>2, PTL DEF Spec
-----------------------------------------------------------------------------
(* Which databases exist. *)

\* Where there is no database there is nothing of one.
Absent(d) == \A n \in Name : ~d.db[n].exists => d.db[n] = NoDatabase
AbsentInv == Absent(dump) /\ \A m \in Major : Absent(dir[m])

\* What the deploy found out about the names still holds at its next statement.
NamesInv ==
  /\ pc \in {"close", "rename"} => Old.exists /\ ~New.exists
  /\ pc \in {"create role", "create database"} => ~New.exists
  /\ pc \in {"open", "role", "password", "grant new", "align", "give", "grant", "upgrade"} => New.exists
  /\ pc \in {"give", "grant"} => \A n \in todo : live.db[n].exists

ShapeInv == TypeOK /\ AbsentInv /\ NamesInv

\* A database with one field changed keeps the others.
LEMMA Opened ==
  ASSUME NEW b \in Database, NEW v \in BOOLEAN
  PROVE  LET c == [b EXCEPT !.open = v]
         IN  /\ c.exists = b.exists /\ c.open = v /\ c.rows = b.rows
             /\ c.owner = b.owner /\ c.granted = b.granted
  BY DEF Database

LEMMA Granted ==
  ASSUME NEW b \in Database, NEW v \in BOOLEAN
  PROVE  LET c == [b EXCEPT !.granted = v]
         IN  /\ c.exists = b.exists /\ c.open = b.open /\ c.rows = b.rows
             /\ c.owner = b.owner /\ c.granted = v
  BY DEF Database

LEMMA Given ==
  ASSUME NEW b \in Database
  PROVE  LET c == [b EXCEPT !.owner = "postgres"]
         IN  /\ c.exists = b.exists /\ c.open = b.open /\ c.rows = b.rows
             /\ c.owner = "postgres" /\ c.granted = b.granted
  BY DEF Database

LEMMA Wrote ==
  ASSUME NEW b \in Database, NEW r
  PROVE  LET c == [b EXCEPT !.rows = r]
         IN  /\ c.exists = b.exists /\ c.open = b.open /\ c.rows = r
             /\ c.owner = b.owner /\ c.granted = b.granted
  BY DEF Database

LEMMA ShapeHolds == Spec => []ShapeInv
<1>1. Init => AbsentInv /\ NamesInv
  <2> SUFFICES ASSUME Init PROVE AbsentInv /\ NamesInv
    OBVIOUS
  <2>1. Absent(NoDirectory)
    BY NoDirectoryParts DEF Absent
  <2>2. ASSUME NEW m \in Major PROVE Absent(dir[m])
    BY <2>1, StartIs DEF Absent
  <2>. QED BY <2>1, <2>2 DEF Init, AbsentInv, NamesInv
<1>2. TypeOK /\ AbsentInv /\ NamesInv /\ [Next]_vars => AbsentInv' /\ NamesInv'
  <2> SUFFICES ASSUME TypeOK, AbsentInv, NamesInv, [Next]_vars PROVE AbsentInv' /\ NamesInv'
    OBVIOUS
  <2>1. /\ live \in Directory /\ Old \in Database /\ New \in Database
        /\ \A n \in Name : live.db[n] \in Database
        /\ Absent(live) /\ Absent(NoDirectory) /\ Absent(Fresh(initSql))
        /\ major \in Major
    BY LiveTypes, NoDirectoryParts, FreshParts, DatabaseTypes DEF TypeOK, AbsentInv, Absent, Name
  <2>2. ASSUME NEW m \in Major, Start(m) PROVE AbsentInv' /\ NamesInv'
    BY <2>2 DEF Start, AbsentInv, NamesInv, Absent
  <2>3. CASE Write
    BY <2>1, <2>3, WriteDoes, Wrote DEF Write, Alters, AbsentInv, NamesInv, Absent, Usable, TypeOK
  <2>4. CASE Check
    BY <2>4 DEF Check, AbsentInv, NamesInv, Absent
  <2>5. CASE Dump
    BY <2>1, <2>5, DumpedParts DEF Dump, AbsentInv, NamesInv, Absent
  <2>6. CASE Apply
    BY <2>1, <2>6 DEF Apply, AbsentInv, NamesInv, TypeOK
  <2>7. CASE Restore
    <3>1. Absent(Restored)
      BY RestoredParts, <2>1 DEF Absent, AbsentInv
    <3>. QED BY <2>1, <2>7, <3>1 DEF Restore, End, AbsentInv, NamesInv, TypeOK
  <2>8. CASE Clean
    BY <2>1, <2>8 DEF Clean, AbsentInv, NamesInv, TypeOK
  <2>9. CASE Names
    BY <2>9 DEF Names, AbsentInv, NamesInv, Absent
  <2>10. CASE Close
    BY <2>1, <2>10, CloseDoes, Opened DEF Close, Statement, Becomes, AbsentInv, NamesInv, Absent, Name
  <2>11. CASE Rename
    BY <2>1, <2>11, RenameDoes, DatabaseTypes
    DEF Rename, Statement, Becomes, AbsentInv, NamesInv, Absent, Name
  <2>12. CASE Open
    BY <2>1, <2>12, OpenDoes, Opened DEF Open, Statement, Becomes, AbsentInv, NamesInv, Absent, Name
  <2>13. CASE RenameRole
    BY <2>1, <2>13, RenameRoleDoes DEF RenameRole, Statement, Becomes, AbsentInv, NamesInv, Absent, Name
  <2>14. CASE SetPassword
    BY <2>1, <2>14, SetPasswordDoes DEF SetPassword, Statement, Becomes, AbsentInv, NamesInv, Absent, Name
  <2>15. CASE Missing
    BY <2>15 DEF Missing, AbsentInv, NamesInv, Absent
  <2>16. CASE CreateRole
    BY <2>1, <2>16, CreateRoleDoes DEF CreateRole, Statement, Becomes, AbsentInv, NamesInv, Absent, Name
  <2>17. CASE CreateDatabase
    <3> DEFINE e == [Empty EXCEPT !.granted = FALSE]
    <3>1. Becomes(Old, e, live.role)
      BY <2>17, CreateDatabaseDoes
    <3>2. e.exists
      BY DatabaseTypes, Granted
    <3> HIDE DEF e
    <3>. QED BY <2>1, <2>17, <3>1, <3>2
             DEF CreateDatabase, Statement, Becomes, AbsentInv, NamesInv, Absent, Name
  <2>18. CASE GrantNew
    <3> DEFINE b == [New EXCEPT !.granted = TRUE]
    <3>1. Becomes(Old, b, live.role)
      BY <2>18, GrantNewDoes
    <3>2. b.exists = New.exists
      BY <2>1, Granted
    <3> HIDE DEF b
    <3>. QED BY <2>1, <2>18, <3>1, <3>2
             DEF GrantNew, Statement, Becomes, AbsentInv, NamesInv, Absent, Name
  <2>19. CASE Align
    BY <2>1, <2>19 DEF Align, End, AbsentInv, NamesInv, Absent
  <2>20. CASE Give
    <3>1. CASE todo = {}
      BY <2>20, <3>1 DEF Give, AbsentInv, NamesInv, Absent
    <3>2. CASE todo # {}
      <4>1. PICK n \in todo : dir' = [dir EXCEPT ![major].db[n].owner = "postgres"]
        BY <2>20, <3>2 DEF Give
      <4>2. n \in Name /\ live.db[n].exists /\ Alters(n, [live.db[n] EXCEPT !.owner = "postgres"])
        BY <2>20, <4>1, GiveDoes DEF Give, TypeOK, NamesInv
      <4> DEFINE b == [live.db[n] EXCEPT !.owner = "postgres"]
      <4>3. b.exists
        BY <2>1, <4>2, Given
      <4> HIDE DEF b
      <4>4. \A k \in Name : dir'[major].db[k] = IF k = n THEN b ELSE live.db[k]
        BY <4>2 DEF Alters, b
      <4>5. \A k \in Major : k # major => dir'[k] = dir[k]
        BY <4>2 DEF Alters
      <4>6. major' = major /\ dump' = dump /\ todo' = todo /\ pc' = "grant"
        BY <2>20, <3>2 DEF Give
      <4>7. AbsentInv'
        BY <2>1, <4>3, <4>4, <4>5, <4>6 DEF AbsentInv, Absent
      <4>8. NamesInv'
        BY <2>20, <4>3, <4>4, <4>6 DEF Give, NamesInv, Name, TypeOK
      <4>. QED BY <4>7, <4>8
    <3>. QED BY <3>1, <3>2
  <2>21. CASE Grant
    <3>1. PICK n \in todo : /\ dir' = [dir EXCEPT ![major].db[n].granted = TRUE]
                            /\ todo' = todo \ {n}
      BY <2>21 DEF Grant
    <3>2. n \in Name /\ live.db[n].exists /\ Alters(n, [live.db[n] EXCEPT !.granted = TRUE])
      BY <2>21, <3>1, GrantDoes DEF Grant, TypeOK, NamesInv
    <3>. QED BY <2>1, <2>21, <3>1, <3>2, Granted
             DEF Grant, Alters, AbsentInv, NamesInv, Absent, Name, TypeOK
  <2>22. CASE Upgrade
    BY <2>1, <2>22 DEF Upgrade, End, AbsentInv, NamesInv, Absent
  <2>23. CASE Interrupt
    BY <2>1, <2>23 DEF Interrupt, End, AbsentInv, NamesInv, Absent
  <2>24. CASE UNCHANGED vars
    BY <2>24 DEF AbsentInv, NamesInv, Absent
  <2>. QED
    BY <2>2, <2>3, <2>4, <2>5, <2>6, <2>7, <2>8, <2>9, <2>10, <2>11, <2>12, <2>13, <2>14,
       <2>15, <2>16, <2>17, <2>18, <2>19, <2>20, <2>21, <2>22, <2>23, <2>24 DEF Next, Step
<1>. QED BY <1>1, <1>2, TypeCorrect, PTL DEF Spec, ShapeInv
-----------------------------------------------------------------------------
(* The statements' effects on one database of the running directory. *)

Turns(n, exists, open, rows, owner, granted) ==
  /\ \A m \in Major : m # major => dir'[m] = dir[m]
  /\ dir'[major].used = live.used /\ dir'[major].role = live.role
  /\ \A k \in Name : k # n => dir'[major].db[k] = live.db[k]
  /\ dir'[major].db[n].exists = exists /\ dir'[major].db[n].open = open
  /\ dir'[major].db[n].rows = rows /\ dir'[major].db[n].owner = owner
  /\ dir'[major].db[n].granted = granted

LEMMA CloseTurns ==
  ASSUME TypeOK, Close
  PROVE  Turns("objects", Old.exists, FALSE, Old.rows, Old.owner, Old.granted)
<1> DEFINE b == [Old EXCEPT !.open = FALSE]
<1>1. Becomes(b, New, live.role)
  BY CloseDoes
<1>2. b.exists = Old.exists /\ b.open = FALSE /\ b.rows = Old.rows /\ b.owner = Old.owner
      /\ b.granted = Old.granted
  BY LiveTypes, Opened DEF Name
<1> HIDE DEF b
<1>. QED BY <1>1, <1>2 DEF Becomes, Turns, Name

LEMMA OpenTurns ==
  ASSUME TypeOK, Open
  PROVE  Turns("objecten", New.exists, TRUE, New.rows, New.owner, New.granted)
<1> DEFINE b == [New EXCEPT !.open = TRUE]
<1>1. Becomes(Old, b, live.role)
  BY OpenDoes
<1>2. b.exists = New.exists /\ b.open = TRUE /\ b.rows = New.rows /\ b.owner = New.owner
      /\ b.granted = New.granted
  BY LiveTypes, Opened DEF Name
<1> HIDE DEF b
<1>. QED BY <1>1, <1>2 DEF Becomes, Turns, Name

LEMMA CreateDatabaseTurns ==
  ASSUME TypeOK, CreateDatabase
  PROVE  Turns("objecten", TRUE, TRUE, 0, "postgres", FALSE)
<1> DEFINE b == [Empty EXCEPT !.granted = FALSE]
<1>1. Becomes(Old, b, live.role)
  BY CreateDatabaseDoes
<1>2. b.exists = TRUE /\ b.open = TRUE /\ b.rows = 0 /\ b.owner = "postgres" /\ b.granted = FALSE
  BY DEF Empty
<1> HIDE DEF b
<1>. QED BY <1>1, <1>2 DEF Becomes, Turns, Name

LEMMA GrantNewTurns ==
  ASSUME TypeOK, GrantNew
  PROVE  Turns("objecten", New.exists, New.open, New.rows, New.owner, TRUE)
<1> DEFINE b == [New EXCEPT !.granted = TRUE]
<1>1. Becomes(Old, b, live.role)
  BY GrantNewDoes
<1>2. b.exists = New.exists /\ b.open = New.open /\ b.rows = New.rows /\ b.owner = New.owner
      /\ b.granted = TRUE
  BY LiveTypes, Granted DEF Name
<1> HIDE DEF b
<1>. QED BY <1>1, <1>2 DEF Becomes, Turns, Name

LEMMA GiveTurns ==
  ASSUME TypeOK, Give, todo # {}
  PROVE  \E n \in todo : n \in Name /\ LET b == live.db[n] IN
           Turns(n, b.exists, b.open, b.rows, "postgres", b.granted)
<1>1. PICK n \in todo : dir' = [dir EXCEPT ![major].db[n].owner = "postgres"]
  BY DEF Give
<1> DEFINE b == [live.db[n] EXCEPT !.owner = "postgres"]
<1>2. n \in Name /\ Alters(n, b)
  BY <1>1, GiveDoes DEF Give, TypeOK
<1>3. b.exists = live.db[n].exists /\ b.open = live.db[n].open /\ b.rows = live.db[n].rows
      /\ b.owner = "postgres" /\ b.granted = live.db[n].granted
  BY <1>2, LiveTypes, Given
<1> HIDE DEF b
<1>. QED BY <1>2, <1>3 DEF Alters, Turns

LEMMA GrantTurns ==
  ASSUME TypeOK, Grant
  PROVE  \E n \in todo : n \in Name /\ live.db[n].owner = "postgres" /\ todo' = todo \ {n} /\
           LET b == live.db[n] IN Turns(n, b.exists, b.open, b.rows, b.owner, TRUE)
<1>1. PICK n \in todo : /\ live.db[n].owner = "postgres" /\ todo' = todo \ {n}
                        /\ dir' = [dir EXCEPT ![major].db[n].granted = TRUE]
  BY DEF Grant
<1> DEFINE b == [live.db[n] EXCEPT !.granted = TRUE]
<1>2. n \in Name /\ Alters(n, b)
  BY <1>1, GrantDoes DEF Grant, TypeOK
<1>3. b.exists = live.db[n].exists /\ b.open = live.db[n].open /\ b.rows = live.db[n].rows
      /\ b.owner = live.db[n].owner /\ b.granted = TRUE
  BY <1>2, LiveTypes, Granted
<1> HIDE DEF b
<1>. QED BY <1>1, <1>2, <1>3 DEF Alters, Turns

LEMMA WriteTurns ==
  ASSUME TypeOK, Write
  PROVE  LET b == live.db[appName] IN
           Turns(appName, b.exists, b.open, written + 1, b.owner, b.granted)
<1> DEFINE b == [live.db[appName] EXCEPT !.rows = written + 1]
<1>1. Alters(appName, b)
  BY WriteDoes
<1>2. b.exists = live.db[appName].exists /\ b.open = live.db[appName].open /\ b.rows = written + 1
      /\ b.owner = live.db[appName].owner /\ b.granted = live.db[appName].granted
  BY LiveTypes, Wrote DEF TypeOK
<1> HIDE DEF b
<1>. QED BY <1>1, <1>2 DEF Alters, Turns

\* What every directory and every database is, by its fields.
LEMMA Fields ==
  ASSUME TypeOK
  PROVE  /\ major \in Major /\ live \in Directory /\ dump \in Directory /\ appName \in Name
         /\ written \in Nat /\ kept \in Nat /\ todo \subseteq Name
         /\ \A m \in Major : dir[m] \in Directory
         /\ \A m \in Major, n \in Name :
              dir[m].db[n].rows \in Nat /\ dir[m].db[n].exists \in BOOLEAN
              /\ dir[m].db[n].open \in BOOLEAN /\ dir[m].db[n].granted \in BOOLEAN
         /\ \A n \in Name : dump.db[n].rows \in Nat /\ dump.db[n].exists \in BOOLEAN
  BY DirectoryParts DEF TypeOK
-----------------------------------------------------------------------------
(* Nothing is gone, where no deploy ends with the renamed database closed. *)

\* No deploy ends between a database's closing and its opening.
NotWhileClosed == InterruptAt \cap {"rename", "open"} = {}

\* Every database accepts connections, but the one being renamed: pg_dumpall sees all.
OpenInv ==
  /\ \A m \in Major, n \in Name : m # major /\ dir[m].db[n].exists => dir[m].db[n].open
  /\ Old.exists /\ ~Old.open => pc = "rename"
  /\ New.exists /\ ~New.open => pc = "open"
  /\ \A n \in Name : dump.db[n].exists => dump.db[n].open

LEMMA OpenHolds == NotWhileClosed => (Spec => []OpenInv)
<1> SUFFICES ASSUME NotWhileClosed PROVE Spec => []OpenInv
  OBVIOUS
<1>1. Init => OpenInv
  <2> SUFFICES ASSUME Init PROVE OpenInv
    OBVIOUS
  <2>1. \A m \in Major, k \in Name : dir[m].db[k].exists => dir[m].db[k].open
    BY StartIs, NoDirectoryParts, DatabaseTypes
  <2>2. \A k \in Name : ~dump.db[k].exists
    BY NoDirectoryParts, DatabaseTypes DEF Init
  <2>. QED BY <2>1, <2>2 DEF Init, OpenInv, Name
<1>2. ShapeInv /\ OpenInv /\ [Next]_vars => OpenInv'
  <2> SUFFICES ASSUME ShapeInv, OpenInv, [Next]_vars PROVE OpenInv'
    OBVIOUS
  <2>. USE DEF Name
  <2>1. /\ TypeOK /\ NamesInv
        /\ \A n \in Name : ~NoDirectory.db[n].exists
        /\ \A n \in Name : Fresh(initSql).db[n].exists => Fresh(initSql).db[n].open
    BY NoDirectoryParts, FreshParts, DatabaseTypes DEF ShapeInv, TypeOK
  <2>2. ASSUME NEW m \in Major, Start(m) PROVE OpenInv'
    BY <2>2 DEF Start, OpenInv
  <2>3. CASE Write
    <3>1. /\ major' = major /\ dump' = dump /\ pc' = pc
          /\ \A m \in Major : m # major => dir'[m] = dir[m]
      BY <2>1, <2>3, WriteTurns DEF Write, Turns
    <3>2. \A k \in Name : /\ dir'[major].db[k].exists = live.db[k].exists
                          /\ dir'[major].db[k].open = live.db[k].open
      BY <2>1, <2>3, WriteTurns, Fields DEF Turns
    <3>. QED BY <2>1, <3>1, <3>2, Fields DEF OpenInv
  <2>4. CASE Check
    BY <2>4 DEF Check, OpenInv
  <2>5. CASE Dump
    BY <2>1, <2>5, DumpedParts, DatabaseTypes, Fields DEF Dump, OpenInv
  <2>6. CASE Apply
    BY <2>1, <2>6, Fields DEF Apply, OpenInv, TypeOK
  <2>7. CASE Restore
    <3>1. \A n \in Name : Restored.db[n].exists => Restored.db[n].open
      BY <2>1, <2>7, RestoredParts DEF OpenInv, Restore
    <3>2. \A n \in Name : dump'.db[n].exists => dump'.db[n].open
      BY <2>1, <2>7 DEF Restore, End, OpenInv
    <3>3. /\ major' = major /\ \A m \in Major : dir'[m] = IF m = major THEN Restored ELSE dir[m]
      BY <2>1, <2>7, Fields DEF Restore, TypeOK
    <3>. QED BY <2>1, <3>1, <3>2, <3>3, Fields DEF OpenInv
  <2>8. CASE Clean
    BY <2>1, <2>8, Fields DEF Clean, OpenInv
  <2>9. CASE Names
    BY <2>9 DEF Names, OpenInv
  <2>10. CASE Close
    BY <2>1, <2>10, CloseTurns, Fields DEF Close, Statement, Turns, OpenInv
  <2>11. CASE Rename
    BY <2>1, <2>11, RenameDoes, DatabaseTypes, Fields DEF Rename, Statement, Becomes, OpenInv
  <2>12. CASE Open
    <3>1. /\ major' = major /\ dump' = dump /\ pc = "open" /\ pc' = "role"
          /\ \A m \in Major : m # major => dir'[m] = dir[m]
          /\ dir'[major].db["objects"] = Old /\ dir'[major].db["objecten"].open
      BY <2>1, <2>12, OpenTurns DEF Open, Statement, Turns
    <3>. QED BY <2>1, <3>1, Fields DEF OpenInv, NamesInv
  <2>13. CASE RenameRole
    BY <2>1, <2>13, RenameRoleDoes, Fields DEF RenameRole, Statement, Becomes, OpenInv
  <2>14. CASE SetPassword
    BY <2>1, <2>14, SetPasswordDoes, Fields DEF SetPassword, Statement, Becomes, OpenInv
  <2>15. CASE Missing
    BY <2>15 DEF Missing, OpenInv
  <2>16. CASE CreateRole
    BY <2>1, <2>16, CreateRoleDoes, Fields DEF CreateRole, Statement, Becomes, OpenInv
  <2>17. CASE CreateDatabase
    <3>1. /\ major' = major /\ dump' = dump /\ pc = "create database" /\ pc' = "grant new"
          /\ \A m \in Major : m # major => dir'[m] = dir[m]
          /\ dir'[major].db["objects"] = Old /\ dir'[major].db["objecten"].open
      BY <2>1, <2>17, CreateDatabaseTurns DEF CreateDatabase, Statement, Turns
    <3>. QED BY <2>1, <3>1, Fields DEF OpenInv, NamesInv
  <2>18. CASE GrantNew
    <3>1. /\ major' = major /\ dump' = dump /\ pc = "grant new" /\ pc' = "align"
          /\ \A m \in Major : m # major => dir'[m] = dir[m]
          /\ dir'[major].db["objects"] = Old /\ dir'[major].db["objecten"].open = New.open
      BY <2>1, <2>18, GrantNewTurns DEF GrantNew, Statement, Turns
    <3>. QED BY <2>1, <3>1, Fields DEF OpenInv, NamesInv
  <2>19. CASE Align
    BY <2>1, <2>19 DEF Align, End, OpenInv
  <2>20. CASE Give
    <3>1. CASE todo = {}
      BY <2>20, <3>1 DEF Give, OpenInv
    <3>2. CASE todo # {}
      BY <2>1, <2>20, <3>2, GiveTurns, Fields DEF Give, Turns, OpenInv
    <3>. QED BY <3>1, <3>2
  <2>21. CASE Grant
    BY <2>1, <2>21, GrantTurns, Fields DEF Grant, Turns, OpenInv
  <2>22. CASE Upgrade
    BY <2>1, <2>22 DEF Upgrade, End, OpenInv
  <2>23. CASE Interrupt
    BY <2>1, <2>23 DEF Interrupt, End, OpenInv, NotWhileClosed
  <2>24. CASE UNCHANGED vars
    BY <2>24 DEF OpenInv
  <2>. QED
    BY <2>2, <2>3, <2>4, <2>5, <2>6, <2>7, <2>8, <2>9, <2>10, <2>11, <2>12, <2>13, <2>14,
       <2>15, <2>16, <2>17, <2>18, <2>19, <2>20, <2>21, <2>22, <2>23, <2>24 DEF Next, Step
<1>. QED BY <1>1, <1>2, ShapeHolds, PTL DEF Spec
\* The steps of migrate_major, and the others' statements that leave all rows alone.
Migrates == {"idle", "check", "dump", "apply", "restore", "clean"}
Quiet == \/ Close \/ Open \/ RenameRole \/ SetPassword \/ CreateRole \/ CreateDatabase
         \/ GrantNew \/ Give \/ Grant

LEMMA QuietKeepsRows ==
  ASSUME ShapeInv, Quiet
  PROVE  /\ major' = major /\ dump' = dump /\ kept' = kept /\ UNCHANGED app
         /\ pc \notin Migrates /\ pc' \notin Migrates
         /\ \A m \in Major : dir'[m].used = dir[m].used
         /\ \A m \in Major, n \in Name : dir'[m].db[n].rows = dir[m].db[n].rows
<1>. USE DEF Name
<1>1. TypeOK /\ NamesInv /\ AbsentInv
  BY DEF ShapeInv
<1>2. CASE Close
  BY <1>1, <1>2, CloseTurns DEF Close, Statement, Turns, Migrates
<1>3. CASE Open
  BY <1>1, <1>3, OpenTurns DEF Open, Statement, Turns, Migrates
<1>4. CASE RenameRole
  BY <1>1, <1>4, RenameRoleDoes DEF RenameRole, Statement, Becomes, Migrates
<1>5. CASE SetPassword
  BY <1>1, <1>5, SetPasswordDoes DEF SetPassword, Statement, Becomes, Migrates
<1>6. CASE CreateRole
  BY <1>1, <1>6, CreateRoleDoes DEF CreateRole, Statement, Becomes, Migrates
<1>7. CASE CreateDatabase
  <2>1. New.rows = 0
    BY <1>1, <1>7, DatabaseTypes, Fields DEF CreateDatabase, Statement, NamesInv, AbsentInv, Absent
  <2>. QED BY <1>1, <1>7, <2>1, CreateDatabaseTurns DEF CreateDatabase, Statement, Turns, Migrates
<1>8. CASE GrantNew
  BY <1>1, <1>8, GrantNewTurns DEF GrantNew, Statement, Turns, Migrates
<1>9. CASE Give /\ todo = {}
  BY <1>1, <1>9 DEF Give, Migrates
<1>10. CASE Give /\ todo # {}
  <2>1. PICK n \in Name : LET b == live.db[n] IN
          Turns(n, b.exists, b.open, b.rows, "postgres", b.granted)
    BY <1>1, <1>10, GiveTurns
  <2>. QED BY <1>1, <1>10, <2>1 DEF Give, Turns, Migrates
<1>11. CASE Grant
  <2>1. PICK n \in Name : LET b == live.db[n] IN
          Turns(n, b.exists, b.open, b.rows, b.owner, TRUE)
    BY <1>1, <1>11, GrantTurns
  <2>. QED BY <1>1, <1>11, <2>1 DEF Grant, Turns, Migrates
<1>. QED BY <1>2, <1>3, <1>4, <1>5, <1>6, <1>7, <1>8, <1>9, <1>10, <1>11 DEF Quiet

\* No row is newer than the last write; the last one is in the running directory or
\* in a dump file, and in a file while the databases move to another directory.
GoneInv ==
  /\ \A m \in Major, n \in Name : dir[m].db[n].rows <= written
  /\ \A n \in Name : dump.db[n].rows <= written
  /\ written <= kept \/ Old.rows = written \/ New.rows = written
  /\ pc \in {"apply", "restore", "clean"} => written <= kept

LEMMA StartRows ==
  ASSUME Init
  PROVE  \E n \in StartNames :
           /\ written = IF n = "none" THEN 0 ELSE 1
           /\ initSql = n /\ appName = IF n = "none" THEN "objecten" ELSE n
           /\ \A m \in Major : m # First => dir[m] = NoDirectory
           /\ dir[First].used /\ major = First
           /\ \A k \in Name : /\ dir[First].db[k].exists <=> k = n
                              /\ dir[First].db[k].rows = IF k = n THEN 1 ELSE 0
  BY StartIs, DatabaseTypes

LEMMA GoneHolds == NotWhileClosed => (Spec => []GoneInv)
<1> SUFFICES ASSUME NotWhileClosed PROVE Spec => []GoneInv
  OBVIOUS
<1>1. Init => GoneInv
  <2> SUFFICES ASSUME Init PROVE GoneInv
    OBVIOUS
  <2>1. \A n \in Name : NoDirectory.db[n].rows = 0
    BY NoDirectoryParts, DatabaseTypes
  <2>2. PICK n \in StartNames :
          /\ written = IF n = "none" THEN 0 ELSE 1
          /\ \A m \in Major : m # First => dir[m] = NoDirectory
          /\ \A k \in Name : dir[First].db[k].rows = IF k = n THEN 1 ELSE 0
    BY StartRows
  <2>3. dump = NoDirectory /\ kept = 0 /\ pc = "idle" /\ major = First
    BY DEF Init
  <2>4. n = "none" \/ n = "objects" \/ n = "objecten"
    BY DEF Name
  <2>5. \A m \in Major, k \in Name : dir[m].db[k].rows <= written
    BY <2>1, <2>2, <2>4 DEF Name
  <2>6. written <= kept \/ Old.rows = written \/ New.rows = written
    BY <2>2, <2>3, <2>4 DEF Name
  <2>. QED BY <2>1, <2>2, <2>3, <2>5, <2>6 DEF GoneInv
<1>2. ShapeInv /\ OpenInv /\ GoneInv /\ [Next]_vars => GoneInv'
  <2> SUFFICES ASSUME ShapeInv, OpenInv, GoneInv, [Next]_vars PROVE GoneInv'
    OBVIOUS
  <2>. USE DEF Name
  <2>1. /\ TypeOK /\ NamesInv /\ AbsentInv
        /\ \A n \in Name : NoDirectory.db[n].rows = 0
        /\ \A n \in Name : Fresh(initSql).db[n].rows = 0
    BY NoDirectoryParts, FreshParts, DatabaseTypes DEF ShapeInv, TypeOK
  <2>2. ASSUME NEW m \in Major, Start(m) PROVE GoneInv'
    BY <2>2 DEF Start, GoneInv
  <2>3. CASE Write
    <3>1. /\ major' = major /\ dump' = dump /\ pc' = "idle" /\ written' = written + 1
          /\ \A m \in Major : m # major => dir'[m] = dir[m]
          /\ \A k \in Name : dir'[major].db[k].rows = IF k = appName THEN written + 1 ELSE live.db[k].rows
      BY <2>1, <2>3, WriteTurns DEF Write, Turns
    <3>. QED BY <2>1, <3>1, Fields DEF GoneInv
  <2>4. CASE Check
    BY <2>4 DEF Check, GoneInv
  <2>5. CASE Dump
    <3>1. \A n \in Name : dump'.db[n].rows = live.db[n].rows
      BY <2>1, <2>5, DumpedParts, DatabaseTypes, Fields DEF Dump, OpenInv, AbsentInv, Absent
    <3>2. /\ \A n \in Name : dump'.db[n].rows <= kept' /\ kept <= kept'
      BY <2>1, <2>5, <3>1, LatestIs, DumpedParts, Fields DEF Dump
    <3>3. UNCHANGED <<dir, major, written>> /\ kept' \in Nat
      BY <2>1, <2>5, <3>2, LatestIs, DumpedParts, Fields DEF Dump
    <3>4. written <= kept'
      BY <2>1, <3>1, <3>2, <3>3, Fields DEF GoneInv
    <3>. QED BY <2>1, <3>1, <3>3, <3>4, Fields DEF GoneInv
  <2>6. CASE Apply
    BY <2>1, <2>6, Fields DEF Apply, GoneInv, TypeOK
  <2>7. CASE Restore
    <3>1. \A n \in Name : Restored.db[n].rows <= written
      BY <2>1, <2>7, RestoredParts, Fields DEF GoneInv
    <3>2. \A n \in Name : dump'.db[n].rows <= written
      BY <2>1, <2>7, Fields DEF Restore, End, GoneInv
    <3>3. /\ major' = major /\ \A m \in Major : dir'[m] = IF m = major THEN Restored ELSE dir[m]
      BY <2>1, <2>7, Fields DEF Restore, TypeOK
    <3>. QED BY <2>1, <2>7, <3>1, <3>2, <3>3, Fields DEF Restore, GoneInv
  <2>8. CASE Clean
    BY <2>1, <2>8, Fields DEF Clean, GoneInv
  <2>9. CASE Names
    BY <2>9 DEF Names, GoneInv
  <2>10. CASE Quiet
    BY <2>1, <2>10, QuietKeepsRows, Fields DEF GoneInv, Migrates
  <2>11. CASE Rename
    <3>1. New.rows = 0
      BY <2>1, <2>11, DatabaseTypes, Fields DEF Rename, Statement, NamesInv, AbsentInv, Absent
    <3>2. /\ major' = major /\ \A m \in Major : m # major => dir'[m] = dir[m]
          /\ dir'[major].db["objects"].rows = 0 /\ dir'[major].db["objecten"].rows = Old.rows
      BY <2>1, <2>11, RenameDoes, DatabaseTypes DEF Becomes
    <3>. QED BY <2>1, <2>11, <3>1, <3>2, Fields DEF Rename, Statement, GoneInv
  <2>12. CASE Missing
    BY <2>12 DEF Missing, GoneInv
  <2>13. CASE Align
    BY <2>1, <2>13, Fields DEF Align, End, GoneInv
  <2>14. CASE Upgrade
    BY <2>1, <2>14, Fields DEF Upgrade, End, GoneInv
  <2>15. CASE Interrupt
    BY <2>1, <2>15, Fields DEF Interrupt, End, GoneInv
  <2>16. CASE UNCHANGED vars
    BY <2>16 DEF GoneInv
  <2>. QED
    BY <2>2, <2>3, <2>4, <2>5, <2>6, <2>7, <2>8, <2>9, <2>10, <2>11, <2>12, <2>13, <2>14,
       <2>15, <2>16 DEF Next, Step, Quiet
<1>. QED BY <1>1, <1>2, ShapeHolds, OpenHolds, PTL DEF Spec

\* Wherever deploys end but between a database's closing and its opening, the last
\* write that the application was told of is in a data directory or a kept dump.
THEOREM NothingIsGone == NotWhileClosed => (Spec => []NothingGone)
<1> SUFFICES ASSUME NotWhileClosed PROVE Spec => []NothingGone
  OBVIOUS
<1>1. TypeOK /\ GoneInv => NothingGone
  <2> SUFFICES ASSUME TypeOK, GoneInv, ~(written <= kept)
               PROVE  \E m \in Major : Latest(dir[m]) = written
    BY DEF NothingGone
  <2>1. \A n \in Name : live.db[n].rows <= Latest(live)
    BY LatestIs, Fields
  <2>2. \E n \in Name : live.db[n].rows = Latest(live)
    BY LatestIs, Fields
  <2>3. \A n \in Name : live.db[n].rows <= written
    BY Fields DEF GoneInv
  <2>4. \E n \in Name : live.db[n].rows = written
    BY DEF GoneInv, Name
  <2>5. Latest(live) <= written /\ written <= Latest(live) /\ Latest(live) \in Nat
    BY <2>1, <2>2, <2>3, <2>4, Fields, LatestIs
  <2>6. Latest(live) = written
    BY <2>5, Fields
  <2>. QED BY <2>6, Fields
<1>. QED BY <1>1, GoneHolds, TypeCorrect, PTL
-----------------------------------------------------------------------------
(* Removed directories were copies, where no deploy ends within the move either. *)

\* ... nor between the Deployment of the other major and the old directory's removal.
NotWhileMoved == InterruptAt \cap {"restore", "clean", "rename", "open"} = {}

\* Only the running major has a directory, but while the databases move to another;
\* that one is new, and what the others hold is in the dump and then in it.
SoleInv ==
  /\ pc \notin {"restore", "clean"} => \A m \in Major : dir[m].used => m = major
  /\ pc \in {"dump", "apply"} => want # major
  /\ pc = "apply" => \A n \in Name : dump.db[n].rows = live.db[n].rows
  /\ pc = "restore" => \A n \in Name :
       /\ live.db[n].rows = 0
       /\ \A m \in Major : m # major /\ dir[m].used => dir[m].db[n].rows <= dump.db[n].rows
  /\ pc = "clean" => \A m \in Major, n \in Name : dir[m].used => dir[m].db[n].rows <= live.db[n].rows

LEMMA NotMoved == NotWhileMoved => NotWhileClosed
  BY DEF NotWhileMoved, NotWhileClosed

\* A full dump of a directory has its rows.
LEMMA DumpsAllRows ==
  ASSUME ShapeInv, OpenInv, Dump
  PROVE  \A n \in Name : dump'.db[n].rows = live.db[n].rows
  BY DumpedParts, DatabaseTypes, Fields DEF Dump, OpenInv, AbsentInv, Absent, ShapeInv, Name

LEMMA SoleHolds == NotWhileMoved => (Spec => []SoleInv)
<1> SUFFICES ASSUME NotWhileMoved PROVE Spec => []SoleInv
  OBVIOUS
<1>1. Init => SoleInv
  BY StartRows, NoDirectoryParts DEF Init, SoleInv
<1>2. ShapeInv /\ OpenInv /\ SoleInv /\ [Next]_vars => SoleInv'
  <2> SUFFICES ASSUME ShapeInv, OpenInv, SoleInv, [Next]_vars PROVE SoleInv'
    OBVIOUS
  <2>. USE DEF Name
  <2>1. /\ TypeOK /\ NamesInv /\ AbsentInv
        /\ \A n \in Name : NoDirectory.db[n].rows = 0
        /\ ~NoDirectory.used
        /\ \A n \in Name : Fresh(initSql).db[n].rows = 0
    BY NoDirectoryParts, FreshParts, DatabaseTypes DEF ShapeInv, TypeOK
  <2>2. ASSUME NEW m \in Major, Start(m) PROVE SoleInv'
    BY <2>2 DEF Start, SoleInv
  <2>3. CASE Write
    <3>1. major' = major /\ pc = "idle" /\ pc' = "idle" /\ \A m \in Major : dir'[m].used = dir[m].used
      BY <2>1, <2>3, WriteTurns DEF Write, Turns
    <3>. QED BY <3>1 DEF SoleInv
  <2>4. CASE Check
    BY <2>4 DEF Check, SoleInv
  <2>5. CASE Dump
    BY <2>5, DumpsAllRows DEF Dump, SoleInv
  <2>6. CASE Apply
    <3>1. /\ want # major /\ want \in Major /\ major' = want /\ dump' = dump /\ pc' = "restore"
          /\ \A m \in Major : dir[m].used => m = major
          /\ \A n \in Name : dump.db[n].rows = live.db[n].rows
      BY <2>1, <2>6 DEF Apply, SoleInv, TypeOK
    <3>2. dir'[want] = Fresh(initSql) /\ \A m \in Major : m # want => dir'[m] = dir[m]
      BY <2>1, <2>6, <3>1 DEF Apply, TypeOK
    <3>. QED BY <2>1, <3>1, <3>2, Fields DEF SoleInv
  <2>7. CASE Restore
    <3>1. /\ \A n \in Name : live.db[n].rows = 0
          /\ \A m \in Major, n \in Name : m # major /\ dir[m].used => dir[m].db[n].rows <= dump.db[n].rows
      BY <2>7 DEF Restore, SoleInv
    <3>2. ~Clashes
      BY <3>1, Fields DEF Clashes
    <3>3. /\ major' = major /\ pc' = "clean"
          /\ \A m \in Major : dir'[m] = IF m = major THEN Restored ELSE dir[m]
      BY <2>1, <2>7, <3>2 DEF Restore, TypeOK
    <3>4. \A n \in Name : ~dump.db[n].exists => dump.db[n].rows = 0
      BY <2>1, DatabaseTypes DEF AbsentInv, Absent
    <3>5. \A n \in Name : Restored.db[n].rows = dump.db[n].rows
      BY <2>1, <3>1, <3>4, RestoredParts
    <3>. QED BY <2>1, <3>1, <3>3, <3>5, Fields DEF SoleInv
  <2>8. CASE Clean
    BY <2>1, <2>8, Fields DEF Clean, SoleInv
  <2>9. CASE Names
    BY <2>9 DEF Names, SoleInv
  <2>10. CASE Quiet
    BY <2>10, QuietKeepsRows DEF SoleInv, Migrates
  <2>11. CASE Rename
    <3>1. major' = major /\ \A m \in Major : dir'[m].used = dir[m].used
      BY <2>1, <2>11, RenameDoes DEF Becomes
    <3>. QED BY <2>11, <3>1 DEF Rename, Statement, SoleInv
  <2>12. CASE Missing
    BY <2>12 DEF Missing, SoleInv
  <2>13. CASE Align
    BY <2>13 DEF Align, End, SoleInv
  <2>14. CASE Upgrade
    BY <2>14 DEF Upgrade, End, SoleInv
  <2>15. CASE Interrupt
    BY <2>15 DEF Interrupt, End, SoleInv, NotWhileMoved
  <2>16. CASE UNCHANGED vars
    BY <2>16 DEF SoleInv
  <2>. QED
    BY <2>2, <2>3, <2>4, <2>5, <2>6, <2>7, <2>8, <2>9, <2>10, <2>11, <2>12, <2>13, <2>14,
       <2>15, <2>16 DEF Next, Step, Quiet
<1>. QED BY <1>1, <1>2, ShapeHolds, OpenHolds, NotMoved, PTL DEF Spec

\* Wherever deploys end but within the move and the renaming, migrate_major removes a
\* data directory only when the running one has its last write.
THEOREM OnlyCopiesRemoved == NotWhileMoved => (Spec => RemovesOnlyCopies)
<1> SUFFICES ASSUME NotWhileMoved PROVE Spec => RemovesOnlyCopies
  OBVIOUS
<1> DEFINE Copies ==
      \A m \in Major : dir[m].used /\ ~dir'[m].used => Latest(dir'[major']) >= Latest(dir[m])
<1>1. ShapeInv /\ SoleInv /\ [Next]_vars => [Copies]_vars
  <2> SUFFICES ASSUME ShapeInv, SoleInv, Next, NEW m \in Major, dir[m].used, ~dir'[m].used
               PROVE  Latest(dir'[major']) >= Latest(dir[m])
    OBVIOUS
  <2>1. TypeOK
    BY DEF ShapeInv
  <2>2. Clean
    <3>1. ~Quiet
      BY QuietKeepsRows
    <3>2. ~Write /\ ~Rename
      BY <2>1, WriteTurns, RenameDoes DEF Turns, Becomes
    <3>3. ~Apply
      BY <2>1, FreshParts DEF Apply, TypeOK
    <3>4. ~Restore
      BY <2>1, RestoredParts DEF Restore, TypeOK
    <3>. QED BY <2>1, <3>1, <3>2, <3>3, <3>4
             DEF Next, Step, Quiet, Start, Check, Dump, Names, Missing, Align, Upgrade, Interrupt
  <2>3. dir'[major'] = live /\ pc = "clean"
    BY <2>1, <2>2 DEF Clean, TypeOK
  <2>4. \A n \in Name : dir[m].db[n].rows <= live.db[n].rows
    BY <2>3 DEF SoleInv
  <2>5. \A n \in Name : live.db[n].rows <= Latest(live)
    BY <2>1, LatestIs, Fields
  <2>6. PICK n \in Name : dir[m].db[n].rows = Latest(dir[m])
    BY <2>1, LatestIs, Fields
  <2>7. Latest(dir[m]) \in Nat /\ Latest(live) \in Nat /\ live.db[n].rows \in Nat
    BY <2>1, LatestIs, Fields
  <2>. QED BY <2>3, <2>4, <2>5, <2>6, <2>7
<1>. QED BY <1>1, ShapeHolds, SoleHolds, PTL DEF Spec, RemovesOnlyCopies
-----------------------------------------------------------------------------
(* A deployed application can connect. *)

\* No deploy ends between the renaming of a database and its role's new password,
\* nor between a database's creation or its new owner and the grants.
NotWhileGranting == InterruptAt \cap {"role", "password", "grant new", "grant"} = {}

\* The role of an open database with the new name can log in.
RoleOK(d) ==
  /\ d.role["objecten"] \in {"none", "objecten"}
  /\ d.db["objecten"].exists /\ d.db["objecten"].open => d.role["objecten"] = "objecten"

\* A database that postgres owns is granted to its role.
GrantsOK(d) == \A n \in Name : d.db[n].exists /\ d.db[n].owner = "postgres" => d.db[n].granted

RolesInv ==
  /\ RoleOK(dump) /\ \A m \in Major : m # major => RoleOK(dir[m])
  /\ pc \notin {"role", "password"} => RoleOK(live)
  /\ pc = "role" => live.role["objecten"] \in {"none", "objecten"}
  /\ pc = "rename" => ~Old.open
  /\ pc = "create database" => live.role["objecten"] = "objecten"

GrantsInv ==
  /\ GrantsOK(dump) /\ \A m \in Major : m # major => GrantsOK(dir[m])
  /\ pc \notin {"grant new", "grant"} => GrantsOK(live)
  /\ pc = "grant new" => (Old.exists /\ Old.owner = "postgres" => Old.granted)
  /\ pc = "give" => \A n \in todo : live.db[n].owner # "postgres"
  /\ pc = "grant" =>
       /\ \A n \in Name : live.db[n].exists /\ live.db[n].owner = "postgres" =>
            live.db[n].granted \/ n \in todo
       /\ \A n, k \in todo : live.db[n].owner = "postgres" /\ live.db[k].owner = "postgres" => n = k

\* align_with_azure goes on only with every database open; what upgrades can connect.
ConnInv ==
  /\ pc \in {"give", "grant", "upgrade"} => \A n \in Name : live.db[n].exists => live.db[n].open
  /\ result = "deployed" => pc = "idle" /\ appName = "objecten" /\ Usable("objecten")

LEMMA StartGrants ==
  ASSUME Init
  PROVE  /\ \A m \in Major : RoleOK(dir[m]) /\ GrantsOK(dir[m])
         /\ RoleOK(dump) /\ GrantsOK(dump)
<1>1. RoleOK(NoDirectory) /\ GrantsOK(NoDirectory)
  BY NoDirectoryParts, DatabaseTypes DEF RoleOK, GrantsOK, Name
<1>2. RoleOK(dir[First]) /\ GrantsOK(dir[First])
  BY StartIs, DatabaseTypes DEF RoleOK, GrantsOK, Name
<1>. QED BY <1>1, <1>2, StartIs DEF Init

\* Roles are restored with their databases.
LEMMA RestoredRoles ==
  ASSUME TypeOK, RoleOK(dump), RoleOK(live)
  PROVE  RoleOK(Restored)
<1>1. "objecten" \in Name
  BY DEF Name
<1>. QED BY <1>1, RestoredParts DEF RoleOK

LEMMA RolesHold == NotWhileGranting => (Spec => []RolesInv)
<1> SUFFICES ASSUME NotWhileGranting PROVE Spec => []RolesInv
  OBVIOUS
<1>1. Init => RolesInv
  BY StartGrants DEF Init, RolesInv
<1>2. ShapeInv /\ RolesInv /\ [Next]_vars => RolesInv'
  <2> SUFFICES ASSUME ShapeInv, RolesInv, [Next]_vars PROVE RolesInv'
    OBVIOUS
  <2>. USE DEF Name
  <2>1. /\ TypeOK /\ NamesInv
        /\ RoleOK(NoDirectory) /\ RoleOK(Fresh(initSql))
    BY NoDirectoryParts, FreshParts, DatabaseTypes DEF ShapeInv, TypeOK, RoleOK
  <2>2. ASSUME NEW m \in Major, Start(m) PROVE RolesInv'
    BY <2>2 DEF Start, RolesInv, RoleOK
  <2>3. CASE Write
    <3>1. /\ major' = major /\ dump' = dump /\ pc = "idle" /\ pc' = pc
          /\ \A m \in Major : m # major => dir'[m] = dir[m]
          /\ dir'[major].role = live.role
          /\ \A k \in Name : /\ dir'[major].db[k].exists = live.db[k].exists
                             /\ dir'[major].db[k].open = live.db[k].open
      BY <2>1, <2>3, WriteTurns DEF Write, Turns
    <3>. QED BY <3>1 DEF RolesInv, RoleOK
  <2>4. CASE Check
    BY <2>4 DEF Check, RolesInv, RoleOK
  <2>5. CASE Dump
    <3>1. RoleOK(live)
      BY <2>5 DEF Dump, RolesInv
    <3>2. RoleOK(Dumped(live))
      BY <2>1, <3>1, DumpedParts, DatabaseTypes, Fields DEF RoleOK
    <3>. QED BY <2>5, <3>1, <3>2 DEF Dump, RolesInv, RoleOK
  <2>6. CASE Apply
    <3>1. \A m \in Major : RoleOK(dir[m])
      BY <2>6 DEF Apply, RolesInv
    <3>. QED BY <2>1, <2>6, <3>1, Fields DEF Apply, RolesInv, TypeOK
  <2>7. CASE Restore
    <3>1. RoleOK(Restored)
      BY <2>1, <2>7, RestoredRoles DEF Restore, RolesInv
    <3>2. /\ major' = major /\ \A m \in Major : dir'[m] = IF m = major THEN Restored ELSE dir[m]
          /\ pc' \in {"idle", "clean"} /\ RoleOK(dump')
      BY <2>1, <2>7, Fields DEF Restore, End, TypeOK, RolesInv
    <3>. QED BY <2>1, <3>1, <3>2, Fields DEF RolesInv
  <2>8. CASE Clean
    <3>1. \A m \in Major : RoleOK(dir[m])
      BY <2>8 DEF Clean, RolesInv
    <3>. QED BY <2>1, <2>8, <3>1, Fields DEF Clean, RolesInv
  <2>9. CASE Names
    BY <2>9 DEF Names, RolesInv, RoleOK
  <2>10. CASE Close
    <3>1. /\ major' = major /\ dump' = dump /\ pc = "close" /\ pc' = "rename"
          /\ \A m \in Major : m # major => dir'[m] = dir[m]
          /\ dir'[major].role = live.role /\ dir'[major].db["objecten"] = New
          /\ ~dir'[major].db["objects"].open
      BY <2>1, <2>10, CloseTurns DEF Close, Statement, Turns
    <3>. QED BY <3>1 DEF RolesInv, RoleOK
  <2>11. CASE Rename
    <3>1. /\ major' = major /\ dump' = dump /\ pc = "rename" /\ pc' = "open"
          /\ \A m \in Major : m # major => dir'[m] = dir[m]
          /\ dir'[major].role = live.role /\ dir'[major].db["objecten"] = Old
      BY <2>1, <2>11, RenameDoes DEF Rename, Statement, Becomes
    <3>. QED BY <3>1 DEF RolesInv, RoleOK
  <2>12. CASE Open
    <3>1. /\ major' = major /\ dump' = dump /\ pc = "open" /\ pc' = "role"
          /\ \A m \in Major : m # major => dir'[m] = dir[m]
          /\ dir'[major].role = live.role
      BY <2>1, <2>12, OpenTurns DEF Open, Statement, Turns
    <3>. QED BY <3>1 DEF RolesInv, RoleOK
  <2>13. CASE RenameRole
    <3>1. /\ major' = major /\ dump' = dump /\ pc' = "password"
          /\ \A m \in Major : m # major => dir'[m] = dir[m]
      BY <2>1, <2>13, RenameRoleDoes DEF RenameRole, Statement, Becomes
    <3>. QED BY <3>1 DEF RolesInv, RoleOK
  <2>14. CASE SetPassword
    <3>1. /\ major' = major /\ dump' = dump /\ pc' = "missing"
          /\ \A m \in Major : m # major => dir'[m] = dir[m]
          /\ dir'[major].role["objecten"] = "objecten"
      BY <2>1, <2>14, SetPasswordDoes, Fields DEF SetPassword, Statement, Becomes, Directory
    <3>. QED BY <3>1 DEF RolesInv, RoleOK
  <2>15. CASE Missing
    BY <2>15 DEF Missing, RolesInv, RoleOK
  <2>16. CASE CreateRole
    <3>1. /\ major' = major /\ dump' = dump /\ pc = "create role" /\ pc' = "create database"
          /\ \A m \in Major : m # major => dir'[m] = dir[m]
          /\ dir'[major].role["objecten"] = IF live.role["objecten"] = "none" THEN "objecten"
                                            ELSE live.role["objecten"]
      BY <2>1, <2>16, CreateRoleDoes DEF CreateRole, Statement, Becomes
    <3>. QED BY <3>1 DEF RolesInv, RoleOK
  <2>17. CASE CreateDatabase
    <3>1. /\ major' = major /\ dump' = dump /\ pc = "create database" /\ pc' = "grant new"
          /\ \A m \in Major : m # major => dir'[m] = dir[m]
          /\ dir'[major].role = live.role
      BY <2>1, <2>17, CreateDatabaseTurns DEF CreateDatabase, Statement, Turns
    <3>. QED BY <3>1 DEF RolesInv, RoleOK
  <2>18. CASE GrantNew
    <3>1. /\ major' = major /\ dump' = dump /\ pc = "grant new" /\ pc' = "align"
          /\ \A m \in Major : m # major => dir'[m] = dir[m]
          /\ dir'[major].role = live.role
          /\ dir'[major].db["objecten"].exists = New.exists
          /\ dir'[major].db["objecten"].open = New.open
      BY <2>1, <2>18, GrantNewTurns DEF GrantNew, Statement, Turns
    <3>. QED BY <3>1 DEF RolesInv, RoleOK
  <2>19. CASE Align
    BY <2>1, <2>19 DEF Align, End, RolesInv, RoleOK
  <2>20. CASE Give
    <3>1. CASE todo = {}
      BY <2>20, <3>1 DEF Give, RolesInv, RoleOK
    <3>2. CASE todo # {}
      <4>1. /\ major' = major /\ dump' = dump /\ pc = "give" /\ pc' = "grant"
            /\ \A m \in Major : m # major => dir'[m] = dir[m]
            /\ dir'[major].role = live.role
            /\ \A k \in Name : /\ dir'[major].db[k].exists = live.db[k].exists
                               /\ dir'[major].db[k].open = live.db[k].open
        BY <2>1, <2>20, <3>2, GiveTurns DEF Give, Turns
      <4>. QED BY <4>1 DEF RolesInv, RoleOK
    <3>. QED BY <3>1, <3>2
  <2>21. CASE Grant
    <3>1. /\ major' = major /\ dump' = dump /\ pc = "grant" /\ pc' = "give"
          /\ \A m \in Major : m # major => dir'[m] = dir[m]
          /\ dir'[major].role = live.role
          /\ \A k \in Name : /\ dir'[major].db[k].exists = live.db[k].exists
                             /\ dir'[major].db[k].open = live.db[k].open
      BY <2>1, <2>21, GrantTurns DEF Grant, Turns
    <3>. QED BY <3>1 DEF RolesInv, RoleOK
  <2>22. CASE Upgrade
    BY <2>1, <2>22 DEF Upgrade, End, RolesInv
  <2>23. CASE Interrupt
    BY <2>1, <2>23 DEF Interrupt, End, RolesInv, NotWhileGranting
  <2>24. CASE UNCHANGED vars
    BY <2>24 DEF RolesInv, RoleOK
  <2>. QED
    BY <2>2, <2>3, <2>4, <2>5, <2>6, <2>7, <2>8, <2>9, <2>10, <2>11, <2>12, <2>13, <2>14,
       <2>15, <2>16, <2>17, <2>18, <2>19, <2>20, <2>21, <2>22, <2>23, <2>24 DEF Next, Step
<1>. QED BY <1>1, <1>2, ShapeHolds, PTL DEF Spec
LEMMA GrantsHold == NotWhileGranting => (Spec => []GrantsInv)
<1> SUFFICES ASSUME NotWhileGranting PROVE Spec => []GrantsInv
  OBVIOUS
<1>1. Init => GrantsInv
  BY StartGrants DEF Init, GrantsInv
<1>2. ShapeInv /\ GrantsInv /\ [Next]_vars => GrantsInv'
  <2> SUFFICES ASSUME ShapeInv, GrantsInv, [Next]_vars PROVE GrantsInv'
    OBVIOUS
  <2>. USE DEF Name
  <2>1. /\ TypeOK /\ NamesInv
        /\ GrantsOK(NoDirectory) /\ GrantsOK(Fresh(initSql))
    BY NoDirectoryParts, FreshParts, DatabaseTypes DEF ShapeInv, TypeOK, GrantsOK
  <2>2. ASSUME NEW m \in Major, Start(m) PROVE GrantsInv'
    BY <2>2 DEF Start, GrantsInv, GrantsOK
  <2>3. CASE Write
    <3>1. /\ major' = major /\ dump' = dump /\ pc = "idle" /\ pc' = pc
          /\ \A m \in Major : m # major => dir'[m] = dir[m]
          /\ \A k \in Name : /\ dir'[major].db[k].exists = live.db[k].exists
                             /\ dir'[major].db[k].owner = live.db[k].owner
                             /\ dir'[major].db[k].granted = live.db[k].granted
      BY <2>1, <2>3, WriteTurns DEF Write, Turns
    <3>. QED BY <3>1 DEF GrantsInv, GrantsOK
  <2>4. CASE Check
    BY <2>4 DEF Check, GrantsInv, GrantsOK
  <2>5. CASE Dump
    <3>1. GrantsOK(live)
      BY <2>5 DEF Dump, GrantsInv
    <3>2. GrantsOK(Dumped(live))
      BY <2>1, <3>1, DumpedParts, DatabaseTypes, Fields DEF GrantsOK
    <3>. QED BY <2>5, <3>1, <3>2 DEF Dump, GrantsInv, GrantsOK
  <2>6. CASE Apply
    <3>1. \A m \in Major : GrantsOK(dir[m])
      BY <2>6 DEF Apply, GrantsInv
    <3>. QED BY <2>1, <2>6, <3>1, Fields DEF Apply, GrantsInv, TypeOK
  <2>7. CASE Restore
    <3>1. GrantsOK(Restored)
      BY <2>1, <2>7, RestoredParts DEF Restore, GrantsInv, GrantsOK
    <3>2. /\ major' = major /\ \A m \in Major : dir'[m] = IF m = major THEN Restored ELSE dir[m]
          /\ pc' \in {"idle", "clean"} /\ GrantsOK(dump')
      BY <2>1, <2>7, Fields DEF Restore, End, TypeOK, GrantsInv
    <3>. QED BY <2>1, <3>1, <3>2, Fields DEF GrantsInv
  <2>8. CASE Clean
    <3>1. \A m \in Major : GrantsOK(dir[m])
      BY <2>8 DEF Clean, GrantsInv
    <3>. QED BY <2>1, <2>8, <3>1, Fields DEF Clean, GrantsInv
  <2>9. CASE Names
    BY <2>9 DEF Names, GrantsInv, GrantsOK
  <2>10. CASE Close
    <3>1. /\ major' = major /\ dump' = dump /\ pc = "close" /\ pc' = "rename"
          /\ \A m \in Major : m # major => dir'[m] = dir[m]
          /\ \A k \in Name : /\ dir'[major].db[k].exists = live.db[k].exists
                             /\ dir'[major].db[k].owner = live.db[k].owner
                             /\ dir'[major].db[k].granted = live.db[k].granted
      BY <2>1, <2>10, CloseTurns DEF Close, Statement, Turns
    <3>. QED BY <3>1 DEF GrantsInv, GrantsOK
  <2>11. CASE Rename
    <3>1. /\ major' = major /\ dump' = dump /\ pc = "rename" /\ pc' = "open"
          /\ \A m \in Major : m # major => dir'[m] = dir[m]
          /\ dir'[major].db["objects"] = NoDatabase /\ dir'[major].db["objecten"] = Old
      BY <2>1, <2>11, RenameDoes DEF Rename, Statement, Becomes
    <3>. QED BY <3>1, DatabaseTypes DEF GrantsInv, GrantsOK
  <2>12. CASE Open
    <3>1. /\ major' = major /\ dump' = dump /\ pc = "open" /\ pc' = "role"
          /\ \A m \in Major : m # major => dir'[m] = dir[m]
          /\ \A k \in Name : /\ dir'[major].db[k].exists = live.db[k].exists
                             /\ dir'[major].db[k].owner = live.db[k].owner
                             /\ dir'[major].db[k].granted = live.db[k].granted
      BY <2>1, <2>12, OpenTurns DEF Open, Statement, Turns
    <3>. QED BY <3>1 DEF GrantsInv, GrantsOK
  <2>13. CASE RenameRole
    <3>1. /\ major' = major /\ dump' = dump /\ pc = "role" /\ pc' = "password"
          /\ \A m \in Major : m # major => dir'[m] = dir[m]
          /\ \A k \in Name : /\ dir'[major].db[k].exists = live.db[k].exists
                             /\ dir'[major].db[k].owner = live.db[k].owner
                             /\ dir'[major].db[k].granted = live.db[k].granted
      BY <2>1, <2>13, RenameRoleDoes DEF RenameRole, Statement, Becomes
    <3>. QED BY <3>1 DEF GrantsInv, GrantsOK
  <2>14. CASE SetPassword
    <3>1. /\ major' = major /\ dump' = dump /\ pc = "password" /\ pc' = "missing"
          /\ \A m \in Major : m # major => dir'[m] = dir[m]
          /\ \A k \in Name : /\ dir'[major].db[k].exists = live.db[k].exists
                             /\ dir'[major].db[k].owner = live.db[k].owner
                             /\ dir'[major].db[k].granted = live.db[k].granted
      BY <2>1, <2>14, SetPasswordDoes DEF SetPassword, Statement, Becomes
    <3>. QED BY <3>1 DEF GrantsInv, GrantsOK
  <2>15. CASE Missing
    BY <2>15 DEF Missing, GrantsInv, GrantsOK
  <2>16. CASE CreateRole
    <3>1. /\ major' = major /\ dump' = dump /\ pc = "create role" /\ pc' = "create database"
          /\ \A m \in Major : m # major => dir'[m] = dir[m]
          /\ \A k \in Name : /\ dir'[major].db[k].exists = live.db[k].exists
                             /\ dir'[major].db[k].owner = live.db[k].owner
                             /\ dir'[major].db[k].granted = live.db[k].granted
      BY <2>1, <2>16, CreateRoleDoes DEF CreateRole, Statement, Becomes
    <3>. QED BY <3>1 DEF GrantsInv, GrantsOK
  <2>17. CASE CreateDatabase
    <3>1. /\ major' = major /\ dump' = dump /\ pc = "create database" /\ pc' = "grant new"
          /\ \A m \in Major : m # major => dir'[m] = dir[m]
          /\ dir'[major].db["objects"] = Old
      BY <2>1, <2>17, CreateDatabaseTurns DEF CreateDatabase, Statement, Turns
    <3>. QED BY <3>1 DEF GrantsInv, GrantsOK
  <2>18. CASE GrantNew
    <3>1. /\ major' = major /\ dump' = dump /\ pc = "grant new" /\ pc' = "align"
          /\ \A m \in Major : m # major => dir'[m] = dir[m]
          /\ dir'[major].db["objects"] = Old /\ dir'[major].db["objecten"].granted
      BY <2>1, <2>18, GrantNewTurns DEF GrantNew, Statement, Turns
    <3>. QED BY <3>1 DEF GrantsInv, GrantsOK
  <2>19. CASE Align
    BY <2>1, <2>19 DEF Align, End, GrantsInv, GrantsOK
  <2>20. CASE Give
    <3>1. CASE todo = {}
      BY <2>20, <3>1 DEF Give, GrantsInv, GrantsOK
    <3>2. CASE todo # {}
      <4>1. PICK n \in todo : n \in Name /\ LET b == live.db[n] IN
              Turns(n, b.exists, b.open, b.rows, "postgres", b.granted)
        BY <2>1, <2>20, <3>2, GiveTurns
      <4>2. /\ major' = major /\ dump' = dump /\ pc = "give" /\ pc' = "grant" /\ todo' = todo
            /\ \A m \in Major : m # major => dir'[m] = dir[m]
            /\ \A k \in Name : /\ dir'[major].db[k].exists = live.db[k].exists
                               /\ dir'[major].db[k].owner = IF k = n THEN "postgres" ELSE live.db[k].owner
                               /\ dir'[major].db[k].granted = live.db[k].granted
        BY <2>1, <2>20, <3>2, <4>1 DEF Give, Turns
      <4>. QED BY <2>1, <4>1, <4>2, Fields DEF GrantsInv, GrantsOK
    <3>. QED BY <3>1, <3>2
  <2>21. CASE Grant
    <3>1. PICK n \in todo :
            /\ n \in Name /\ live.db[n].owner = "postgres" /\ todo' = todo \ {n}
            /\ LET b == live.db[n] IN Turns(n, b.exists, b.open, b.rows, b.owner, TRUE)
      BY <2>1, <2>21, GrantTurns
    <3>2. /\ major' = major /\ dump' = dump /\ pc = "grant" /\ pc' = "give"
          /\ \A m \in Major : m # major => dir'[m] = dir[m]
          /\ \A k \in Name : /\ dir'[major].db[k].exists = live.db[k].exists
                             /\ dir'[major].db[k].owner = live.db[k].owner
                             /\ dir'[major].db[k].granted = IF k = n THEN TRUE ELSE live.db[k].granted
      BY <2>1, <2>21, <3>1 DEF Grant, Turns
    <3>3. \A k \in Name : k \in todo /\ live.db[k].owner = "postgres" => k = n
      BY <3>1, <3>2 DEF GrantsInv
    <3>4. GrantsOK(live)'
      BY <3>1, <3>2, <3>3 DEF GrantsInv, GrantsOK
    <3>5. \A k \in todo' : dir'[major].db[k].owner # "postgres"
      BY <2>1, <3>1, <3>2, <3>3, Fields
    <3>. QED BY <3>2, <3>4, <3>5 DEF GrantsInv, GrantsOK
  <2>22. CASE Upgrade
    BY <2>1, <2>22 DEF Upgrade, End, GrantsInv
  <2>23. CASE Interrupt
    BY <2>1, <2>23 DEF Interrupt, End, GrantsInv, NotWhileGranting
  <2>24. CASE UNCHANGED vars
    BY <2>24 DEF GrantsInv, GrantsOK
  <2>. QED
    BY <2>2, <2>3, <2>4, <2>5, <2>6, <2>7, <2>8, <2>9, <2>10, <2>11, <2>12, <2>13, <2>14,
       <2>15, <2>16, <2>17, <2>18, <2>19, <2>20, <2>21, <2>22, <2>23, <2>24 DEF Next, Step
<1>. QED BY <1>1, <1>2, ShapeHolds, PTL DEF Spec

LEMMA ConnHolds == NotWhileGranting => (Spec => []ConnInv)
<1> SUFFICES ASSUME NotWhileGranting PROVE Spec => []ConnInv
  OBVIOUS
<1>1. Init => ConnInv
  BY DEF Init, ConnInv
<1>2. ShapeInv /\ RolesInv /\ GrantsInv /\ ConnInv /\ [Next]_vars => ConnInv'
  <2> SUFFICES ASSUME ShapeInv, RolesInv, GrantsInv, ConnInv, [Next]_vars PROVE ConnInv'
    OBVIOUS
  <2>. USE DEF Name
  <2>1. TypeOK /\ NamesInv
    BY DEF ShapeInv
  <2>2. ASSUME NEW m \in Major, Start(m) PROVE ConnInv'
    BY <2>2 DEF Start, ConnInv
  <2>3. CASE Write
    <3>1. /\ major' = major /\ pc = "idle" /\ pc' = pc /\ UNCHANGED <<result, appName>>
          /\ dir'[major].role = live.role
          /\ \A k \in Name : /\ dir'[major].db[k].exists = live.db[k].exists
                             /\ dir'[major].db[k].open = live.db[k].open
                             /\ dir'[major].db[k].owner = live.db[k].owner
                             /\ dir'[major].db[k].granted = live.db[k].granted
      BY <2>1, <2>3, WriteTurns DEF Write, Turns
    <3>. QED BY <3>1 DEF ConnInv, Usable
  <2>4. CASE Align
    BY <2>4 DEF Align, End, ConnInv
  <2>5. CASE Give
    <3>1. CASE todo = {}
      BY <2>5, <3>1 DEF Give, ConnInv
    <3>2. CASE todo # {}
      <4>1. /\ major' = major /\ pc = "give" /\ pc' = "grant" /\ result' = result
            /\ \A k \in Name : /\ dir'[major].db[k].exists = live.db[k].exists
                               /\ dir'[major].db[k].open = live.db[k].open
        BY <2>1, <2>5, <3>2, GiveTurns DEF Give, Turns
      <4>. QED BY <4>1 DEF ConnInv
    <3>. QED BY <3>1, <3>2
  <2>6. CASE Grant
    <3>1. /\ major' = major /\ pc = "grant" /\ pc' = "give" /\ result' = result
          /\ \A k \in Name : /\ dir'[major].db[k].exists = live.db[k].exists
                             /\ dir'[major].db[k].open = live.db[k].open
      BY <2>1, <2>6, GrantTurns DEF Grant, Turns
    <3>. QED BY <3>1 DEF ConnInv
  <2>7. CASE Upgrade
    <3>1. New.exists /\ New.open /\ RoleOK(live) /\ GrantsOK(live)
      BY <2>1, <2>7 DEF Upgrade, NamesInv, ConnInv, RolesInv, GrantsInv
    <3>2. New.owner = "app" \/ New.owner = "postgres"
      BY <2>1, LiveTypes DEF Database, Owner
    <3>3. Usable("objecten")
      BY <3>1, <3>2 DEF Usable, RoleOK, GrantsOK
    <3>. QED BY <2>7, <3>3 DEF Upgrade, End, ConnInv, Usable
  <2>8. CASE Interrupt
    BY <2>8 DEF Interrupt, End, ConnInv
  <2>9. CASE Restore
    BY <2>9 DEF Restore, End, ConnInv
  <2>10. CASE UNCHANGED vars
    BY <2>10 DEF ConnInv, Usable
  <2>11. CASE \/ Check \/ Dump \/ Apply \/ Clean \/ Names \/ Close \/ Rename \/ Open \/ RenameRole
              \/ SetPassword \/ Missing \/ CreateRole \/ CreateDatabase \/ GrantNew
    <3>1. /\ pc # "idle" /\ pc' \notin {"idle", "give", "grant", "upgrade"} /\ result' = result
      BY <2>11 DEF Check, Dump, Apply, Clean, Names, Close, Rename, Open, RenameRole, SetPassword,
                   Missing, CreateRole, CreateDatabase, GrantNew, Statement
    <3>. QED BY <3>1 DEF ConnInv
  <2>. QED
    BY <2>2, <2>3, <2>4, <2>5, <2>6, <2>7, <2>8, <2>9, <2>10, <2>11 DEF Next, Step
<1>. QED BY <1>1, <1>2, ShapeHolds, RolesHold, GrantsHold, PTL DEF Spec

\* Wherever deploys end but between the renaming and its password, or between a new
\* owner and its grants, the application a deploy leaves can use its database.
THEOREM ApplicationCanConnect == NotWhileGranting => (Spec => []AppCanConnect)
<1> SUFFICES ASSUME NotWhileGranting PROVE Spec => []AppCanConnect
  OBVIOUS
<1>1. ConnInv => AppCanConnect
  BY DEF ConnInv, AppCanConnect
<1>. QED BY <1>1, ConnHolds, PTL
-----------------------------------------------------------------------------
(* A deployed application finds its last write. *)

\* Deploys end early at most once, or never between the renaming and the upgrade.
HalfRenamedOnce ==
  \/ MaxInterrupts <= 1
  \/ InterruptAt \subseteq {"check", "dump", "apply", "names", "close",
                            "create role", "create database", "grant new"}

\* The steps after the renaming.
Late == {"open", "role", "password", "missing", "create role", "create database", "grant new",
         "align", "give", "grant", "upgrade"}

\* Where the application's rows are: in the dump while the new directory is empty.
Data == IF pc = "restore" THEN dump ELSE live

\* Renamed, for an application that still uses the old name.
Half(d) == appName = "objects" /\ d.db["objecten"].exists

\* The database with the application's rows; no other has any.
Home(d) == IF appName = "objects" /\ ~d.db["objecten"].exists THEN "objects" ELSE "objecten"
Holds(d) == \A n \in Name : d.db[n].rows = IF n = Home(d) THEN written ELSE 0

\* A deploy that begins half renamed runs to its end, and the application cannot write
\* to the old database that a new directory's init SQL makes in the meantime.
HalfInv(d) ==
  Half(d) =>
    /\ pc \notin Late => interrupts >= MaxInterrupts
    /\ d.db["objects"].exists =>
         interrupts >= MaxInterrupts /\ pc \notin {"idle", "check", "dump", "apply", "restore"}

RowsInv ==
  /\ Holds(Data) /\ HalfInv(Data)
  /\ initSql \in {appName, "none"} /\ (initSql = "none" => appName = "objecten")
  /\ appName = "objecten" /\ Data.db["objects"].exists => Data.db["objecten"].exists
  /\ appName = "objects" => Data.db["objects"].exists \/ Data.db["objecten"].exists
  /\ pc = "apply" => \A n \in Name : dump.db[n] = live.db[n]
  /\ pc = "restore" => live = Fresh(initSql)
  /\ pc = "missing" => New.exists \/ ~Old.exists
  /\ pc \in {"create role", "create database", "grant new"} => appName = "objecten"
  /\ result = "deployed" => pc = "idle" /\ appName = "objecten"

\* The statements that create and drop no database.
LEMMA QuietKeepsDatabases ==
  ASSUME ShapeInv, Quiet, ~CreateDatabase
  PROVE  /\ \A n \in Name : dir'[major].db[n].exists = live.db[n].exists
         /\ (pc \in Late <=> pc' \in Late) /\ UNCHANGED <<result, interrupts>>
         /\ pc' \notin {"create role", "grant new"}
         /\ pc' = "create database" => pc = "create role"
         /\ pc' = "missing" => pc = "password"
<1>. USE DEF Name, Late
<1>1. TypeOK
  BY DEF ShapeInv
<1>2. CASE Close
  BY <1>1, <1>2, CloseTurns DEF Close, Statement, Turns
<1>3. CASE Open
  BY <1>1, <1>3, OpenTurns DEF Open, Statement, Turns
<1>4. CASE RenameRole
  BY <1>1, <1>4, RenameRoleDoes DEF RenameRole, Statement, Becomes
<1>5. CASE SetPassword
  BY <1>1, <1>5, SetPasswordDoes DEF SetPassword, Statement, Becomes
<1>6. CASE CreateRole
  BY <1>1, <1>6, CreateRoleDoes DEF CreateRole, Statement, Becomes
<1>7. CASE GrantNew
  BY <1>1, <1>7, GrantNewTurns DEF GrantNew, Statement, Turns
<1>8. CASE Give /\ todo = {}
  BY <1>1, <1>8 DEF Give
<1>9. CASE Give /\ todo # {}
  BY <1>1, <1>9, GiveTurns DEF Give, Turns
<1>10. CASE Grant
  BY <1>1, <1>10, GrantTurns DEF Grant, Turns
<1>. QED BY <1>2, <1>3, <1>4, <1>5, <1>6, <1>7, <1>8, <1>9, <1>10 DEF Quiet

LEMMA RowsHold == NotWhileMoved /\ HalfRenamedOnce => (Spec => []RowsInv)
<1> SUFFICES ASSUME NotWhileMoved, HalfRenamedOnce PROVE Spec => []RowsInv
  OBVIOUS
<1>1. Init => RowsInv
  <2> SUFFICES ASSUME Init PROVE RowsInv
    OBVIOUS
  <2>1. PICK n \in StartNames :
           /\ written = IF n = "none" THEN 0 ELSE 1
           /\ initSql = n /\ appName = IF n = "none" THEN "objecten" ELSE n
           /\ major = First
           /\ \A k \in Name : /\ dir[First].db[k].exists <=> k = n
                              /\ dir[First].db[k].rows = IF k = n THEN 1 ELSE 0
    BY StartRows
  <2>2. n \in {"none", "objects", "objecten"} /\ pc = "idle" /\ result = "none"
    BY DEF Init, Name
  <2>3. Data = dir[First]
    BY <2>1, <2>2 DEF Data
  <2>. QED BY <2>1, <2>2, <2>3 DEF RowsInv, Holds, Home, HalfInv, Half, Name
<1>2. ShapeInv /\ OpenInv /\ SoleInv /\ RowsInv /\ [Next]_vars => RowsInv'
  <2> SUFFICES ASSUME ShapeInv, OpenInv, SoleInv, RowsInv, [Next]_vars PROVE RowsInv'
    OBVIOUS
  <2>. USE DEF Name, Late
  <2>1. TypeOK /\ NamesInv /\ AbsentInv
    BY DEF ShapeInv
  <2>2. ASSUME NEW m \in Major, Start(m) PROVE RowsInv'
    BY <2>2 DEF Start, RowsInv, Data, Holds, Home, HalfInv, Half
  <2>3. CASE Write
    <3>1. /\ major' = major /\ dump' = dump /\ pc = "idle" /\ pc' = pc /\ written' = written + 1
          /\ UNCHANGED <<result, interrupts, appName, initSql>>
          /\ live.db[appName].exists
      BY <2>3 DEF Write, Usable
    <3>2. \A k \in Name : /\ dir'[major].db[k].exists = live.db[k].exists
                          /\ dir'[major].db[k].rows = IF k = appName THEN written + 1 ELSE live.db[k].rows
      BY <2>1, <2>3, WriteTurns DEF Turns
    <3>3. appName = Home(live) /\ appName \in Name
      BY <2>1, <3>1, Fields DEF RowsInv, Data, HalfInv, Half, Home
    <3>. QED BY <3>1, <3>2, <3>3 DEF RowsInv, Data, Holds, Home, HalfInv, Half
  <2>4. CASE Check
    BY <2>4 DEF Check, RowsInv, Data, Holds, Home, HalfInv, Half
  <2>5. CASE Dump
    <3>1. \A n \in Name : dump'.db[n] = live.db[n]
      BY <2>1, <2>5, DumpedParts, Fields DEF Dump, OpenInv, AbsentInv, Absent
    <3>. QED BY <2>5, <3>1 DEF Dump, RowsInv, Data, Holds, Home, HalfInv, Half
  <2>6. CASE Apply
    <3>1. ~dir[want].used /\ want \in Major
      BY <2>1, <2>6 DEF Apply, SoleInv, TypeOK
    <3>2. /\ dir'[major'] = Fresh(initSql) /\ dump' = dump /\ pc' = "restore" /\ pc = "apply"
          /\ UNCHANGED <<written, result, interrupts, appName, initSql>>
      BY <2>1, <2>6, <3>1 DEF Apply, TypeOK
    <3>3. \A n \in Name : dump.db[n] = live.db[n]
      BY <3>2 DEF RowsInv
    <3>. QED BY <3>2, <3>3 DEF RowsInv, Data, Holds, Home, HalfInv, Half
  <2>7. CASE Restore
    <3>1. pc = "restore" /\ live = Fresh(initSql) /\ \A n \in Name : live.db[n].rows = 0
      BY <2>7 DEF Restore, RowsInv, SoleInv
    <3>2. ~Clashes
      BY <3>1, Fields DEF Clashes
    <3>3. /\ major' = major /\ pc' = "clean" /\ dir'[major] = Restored
          /\ UNCHANGED <<written, result, interrupts, appName, initSql>>
      BY <2>1, <2>7, <3>2 DEF Restore, TypeOK
    <3>4. \A n \in Name : live.db[n].exists <=> n = initSql
      BY <2>1, <3>1, FreshParts, DatabaseTypes DEF TypeOK
    <3>5. \A n \in Name : ~dump.db[n].exists => dump.db[n].rows = 0
      BY <2>1, DatabaseTypes DEF AbsentInv, Absent
    <3>6. \A n \in Name : /\ Restored.db[n].rows = dump.db[n].rows
                          /\ Restored.db[n].exists <=> dump.db[n].exists \/ n = initSql
      <4> SUFFICES ASSUME NEW n \in Name
                   PROVE  /\ Restored.db[n].rows = dump.db[n].rows
                          /\ Restored.db[n].exists <=> dump.db[n].exists \/ n = initSql
        OBVIOUS
      <4>1. Restored.db[n].rows = dump.db[n].rows
        BY <2>1, <3>1, <3>5, RestoredParts
      <4>2. Restored.db[n].exists = (dump.db[n].exists \/ live.db[n].exists)
        BY <2>1, RestoredParts
      <4>. QED BY <3>4, <4>1, <4>2
    <3>. QED BY <3>1, <3>3, <3>6 DEF RowsInv, Data, Holds, Home, HalfInv, Half
  <2>8. CASE Clean
    BY <2>1, <2>8, Fields DEF Clean, RowsInv, Data, Holds, Home, HalfInv, Half
  <2>9. CASE Names
    BY <2>9 DEF Names, RowsInv, Data, Holds, Home, HalfInv, Half
  <2>10. CASE Quiet /\ ~CreateDatabase
    <3>1. /\ major' = major /\ UNCHANGED <<result, interrupts, appName, initSql, written>>
          /\ pc \notin Migrates /\ pc' \notin Migrates
          /\ \A n \in Name : dir'[major].db[n].rows = live.db[n].rows
      BY <2>1, <2>10, QuietKeepsRows, QuietKeepsDatabases, Fields
    <3>2. pc' = "missing" => New.exists
      BY <2>10, QuietKeepsDatabases DEF NamesInv, ShapeInv
    <3>. QED BY <2>10, <3>1, <3>2, QuietKeepsDatabases
             DEF RowsInv, Data, Holds, Home, HalfInv, Half, Migrates
  <2>11. CASE CreateDatabase
    <3>1. pc = "create database" /\ ~New.exists
      BY <2>1, <2>11 DEF CreateDatabase, Statement, NamesInv
    <3>2. New.rows = 0
      BY <2>1, <3>1, DatabaseTypes, Fields DEF AbsentInv, Absent
    <3>3. /\ major' = major /\ pc' = "grant new" /\ dir'[major].db["objects"] = Old
          /\ UNCHANGED <<result, interrupts, appName, initSql, written>>
          /\ dir'[major].db["objecten"].exists /\ dir'[major].db["objecten"].rows = 0
      BY <2>1, <2>11, CreateDatabaseTurns DEF CreateDatabase, Statement, Turns
    <3>. QED BY <3>1, <3>2, <3>3 DEF RowsInv, Data, Holds, Home, HalfInv, Half
  <2>12. CASE Rename
    <3>1. Old.exists /\ ~New.exists /\ pc = "rename"
      BY <2>1, <2>12 DEF Rename, Statement, NamesInv
    <3>2. /\ major' = major /\ pc' = "open"
          /\ UNCHANGED <<result, interrupts, appName, initSql, written>>
          /\ dir'[major].db["objects"] = NoDatabase /\ dir'[major].db["objecten"] = Old
      BY <2>1, <2>12, RenameDoes DEF Rename, Statement, Becomes
    <3>3. appName = "objects"
      BY <2>1, <3>1 DEF RowsInv, Data, TypeOK
    <3>. QED BY <3>1, <3>2, <3>3, DatabaseTypes DEF RowsInv, Data, Holds, Home, HalfInv, Half
  <2>13. CASE Missing
    <3>1. ~New.exists => appName = "objecten"
      BY <2>1, <2>13 DEF Missing, RowsInv, Data, TypeOK
    <3>. QED BY <2>13, <3>1 DEF Missing, RowsInv, Data, Holds, Home, HalfInv, Half
  <2>14. CASE Align
    <3>1. ~\E n \in Name : live.db[n].exists /\ ~live.db[n].open
      BY <2>14 DEF Align, OpenInv
    <3>2. pc = "align" /\ pc' = "give"
          /\ UNCHANGED <<dir, major, appName, initSql, written, result, interrupts>>
      BY <2>14, <3>1 DEF Align
    <3>. QED BY <3>2 DEF RowsInv, Data, Holds, Home, HalfInv, Half
  <2>15. CASE Upgrade
    <3>1. New.exists
      BY <2>1, <2>15 DEF Upgrade, NamesInv
    <3>. QED BY <2>15, <3>1 DEF Upgrade, End, RowsInv, Data, Holds, Home, HalfInv, Half
  <2>16. CASE Interrupt
    <3>1. /\ pc' = "idle" /\ result' = "failed" /\ interrupts' = interrupts + 1
          /\ pc \in InterruptAt /\ interrupts < MaxInterrupts /\ pc # "restore"
          /\ interrupts \in Nat /\ MaxInterrupts \in Nat
          /\ UNCHANGED <<dir, major, appName, initSql, written>>
      BY <2>1, <2>16 DEF Interrupt, End, NotWhileMoved, TypeOK
    <3>2. Half(live) => pc \in Late /\ ~Old.exists
      <4>1. HalfInv(live)
        BY <3>1 DEF RowsInv, Data
      <4>2. ~(interrupts >= MaxInterrupts)
        BY <3>1
      <4>. QED BY <4>1, <4>2 DEF HalfInv
    <3>3. Half(live) => interrupts' >= MaxInterrupts
      <4>1. CASE MaxInterrupts <= 1
        BY <3>1, <4>1
      <4>2. CASE InterruptAt \subseteq {"check", "dump", "apply", "names", "close",
                                       "create role", "create database", "grant new"}
        <5>1. Half(live) => pc \in {"create role", "create database", "grant new"}
          BY <3>1, <3>2, <4>2
        <5>2. pc \in {"create role", "create database", "grant new"} => appName = "objecten"
          BY DEF RowsInv
        <5>. QED BY <5>1, <5>2 DEF Half
      <4>. QED BY <4>1, <4>2 DEF HalfRenamedOnce
    <3>. QED BY <3>1, <3>2, <3>3 DEF RowsInv, Data, Holds, Home, HalfInv, Half
  <2>17. CASE UNCHANGED vars
    BY <2>17 DEF RowsInv, Data, Holds, Home, HalfInv, Half
  <2>. QED
    BY <2>2, <2>3, <2>4, <2>5, <2>6, <2>7, <2>8, <2>9, <2>10, <2>11, <2>12, <2>13, <2>14,
       <2>15, <2>16, <2>17 DEF Next, Step, Quiet
<1>. QED BY <1>1, <1>2, ShapeHolds, OpenHolds, SoleHolds, NotMoved, PTL DEF Spec

\* Wherever a deploy ends but within the move and the renaming, the application finds
\* its last write after the next deploy; the same for any number of deploys that end
\* early before the renaming or after the upgrade.
THEOREM RowsAreKept == NotWhileMoved /\ HalfRenamedOnce => (Spec => []RowsKept)
<1> SUFFICES ASSUME NotWhileMoved, HalfRenamedOnce PROVE Spec => []RowsKept
  OBVIOUS
<1>1. RowsInv => RowsKept
  BY DEF RowsInv, RowsKept, Data, Holds, Home, Name
<1>. QED BY <1>1, RowsHold, PTL
=============================================================================
