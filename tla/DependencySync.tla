-------------------------- MODULE DependencySync --------------------------
(***************************************************************************)
(* dependency.sync and versions.select: which podiumd and                  *)
(* monitoring-logging the chart is built on, a published version or a      *)
(* local checkout, and the tarballs in charts/ that must match it.         *)
(*                                                                         *)
(* set-podiumd-version takes no lock, so two commands may run at a time;   *)
(* a command may be killed between any two steps, helm may fail, and a     *)
(* checkout is edited, or moved to another commit, in between.             *)
(***************************************************************************)
EXTENDS Naturals, FiniteSets

CONSTANTS
  Command,      \* processes
  Chart,        \* DEPENDENCIES
  Selection(_), \* what a chart can be selected at: a published version, or its checkout ("path")
  Declared,     \* the version that the checkouts' Chart.yaml declares
  MaxCommands,  \* bound: commands started
  MaxEdits,     \* bound: changes to a checkout
  MaxKills      \* bound

ASSUME DependencySyncAssumption ==
  /\ "podiumd" \in Chart /\ Declared # "path"
  /\ \A c \in Chart : Selection(c) \cap {"none", "placeholder"} = {}
  /\ MaxCommands \in Nat /\ MaxEdits \in Nat /\ MaxKills \in Nat

Selections == UNION {Selection(c) : c \in Chart}
Checkout == {c \in Chart : "path" \in Selection(c)}

VARIABLES
  versions,   \* .podiumd-versions.yaml
  yaml,       \* Chart.yaml's entries: "placeholder", or a selection
  tarballs,   \* charts/*.tgz
  checkout,   \* each chart's checkout: its revision, and its subcharts in charts/
  pc, chosen, got, todo, at, backup,  \* each command's progress; at: the chart it packages
  found,      \* the Chart.yaml it found
  alone,      \* no other command was active since it began
  mixed,      \* commands were active at a time since a command alone replaced all tarballs
  commands, edits, kills

files == <<versions, yaml, tarballs, checkout>>
local == <<chosen, got, todo, at, backup>>
bounds == <<commands, edits, kills>>
vars == <<versions, yaml, tarballs, checkout, pc, chosen, got, todo, at, backup, found,
          alone, mixed, commands, edits, kills>>

Placeholders == [c \in Chart |-> "placeholder"]
Unset == [c \in Chart |-> "none"]

\* What a tarball has: a published chart, or a checkout's files with the subcharts beside them.
Published(c, v) == [chart |-> c, name |-> v, rev |-> 0, subcharts |-> "ok"]
PackageOf(c) ==
  [chart |-> c, name |-> Declared, rev |-> checkout[c].rev, subcharts |-> checkout[c].subcharts]

Init ==
  /\ versions = Unset /\ yaml = Placeholders /\ tarballs = {}
  /\ checkout = [c \in Chart |-> [rev |-> 1, subcharts |-> "missing", lock |-> "in sync"]]
  /\ pc = [p \in Command |-> "idle"] /\ chosen = [p \in Command |-> Unset]
  /\ got = [p \in Command |-> Unset] /\ todo = [p \in Command |-> {}]
  /\ at = [p \in Command |-> "none"] /\ backup = [p \in Command |-> Placeholders]
  /\ found = [p \in Command |-> Placeholders]
  /\ alone = [p \in Command |-> FALSE] /\ mixed = FALSE
  /\ commands = 0 /\ edits = 0 /\ kills = 0

Goto(p, label) == pc' = [pc EXCEPT ![p] = label]
Sets(variable, p, value) == [variable EXCEPT ![p] = value]
Busy(p) == pc[p] \notin {"idle", "done", "failed"}

Begin(p) ==
  /\ pc[p] = "idle" /\ commands < MaxCommands /\ commands' = commands + 1
  /\ alone' = [q \in Command |-> q = p /\ \A r \in Command : ~Busy(r)]
  /\ found' = Sets(found, p, yaml)
  /\ mixed' = (mixed \/ \E r \in Command : Busy(r))
  /\ UNCHANGED <<versions, yaml, tarballs, checkout, got, at, backup, edits, kills>>

\* versions.select: both dependencies, or podiumd alone when monitoring-logging is recorded.
Select(p) ==
  /\ Begin(p)
  /\ \E choice \in [Chart -> Selections \cup {"none"}] :
       /\ \A c \in Chart :
            choice[c] \in Selection(c) \/ (choice[c] = "none" /\ c # "podiumd" /\ versions[c] # "none")
       /\ chosen' = Sets(chosen, p, choice)
       /\ todo' = Sets(todo, p, {c \in Chart : choice[c] # "none"})
  /\ Goto(p, "load")

\* deploy or provision-cluster.
Sync(p) ==
  /\ Begin(p)
  /\ chosen' = Sets(chosen, p, Unset) /\ todo' = Sets(todo, p, {}) /\ Goto(p, "read")

\* write: the file is read, and written with the one entry changed.
LoadFile(p) ==
  /\ pc[p] = "load" /\ Goto(p, "write")
  /\ got' = Sets(got, p, versions)
  /\ UNCHANGED <<chosen, todo, at, backup, found, alone, mixed>> /\ UNCHANGED files /\ UNCHANGED bounds

WriteEntry(p) ==
  /\ pc[p] = "write" /\ Goto(p, IF Cardinality(todo[p]) = 1 THEN "read" ELSE "load")
  /\ \E c \in todo[p] :
       /\ versions' = [got[p] EXCEPT ![c] = chosen[p][c]]
       /\ todo' = Sets(todo, p, todo[p] \ {c})
  /\ UNCHANGED <<yaml, tarballs, checkout, chosen, got, at, backup, found, alone, mixed>> /\ UNCHANGED bounds

-----------------------------------------------------------------------------
(* sync *)

\* Mutant: any tarball of the chart will do.
Fetched_Any(p) ==
  \A c \in Chart : got'[p][c] = "path" \/ \E t \in tarballs : t.chart = c

\* Selection.tarball: charts/<chart>-<version>.tgz is there, for each published one.
Fetched(p) ==
  \A c \in Chart : got'[p][c] = "path" \/ \E t \in tarballs : t.chart = c /\ t.name = got'[p][c]

Read(p) ==
  /\ pc[p] = "read" /\ got' = Sets(got, p, versions)
  /\ todo' = Sets(todo, p, {c \in Chart : versions[c] = "path"})
  /\ Goto(p, IF \E c \in Chart : versions[c] = "none" THEN "failed"
             ELSE IF ~Fetched(p) THEN "build" ELSE IF todo'[p] = {} THEN "done" ELSE "package")
  /\ UNCHANGED <<chosen, at, backup, found, alone, mixed>> /\ UNCHANGED files /\ UNCHANGED bounds

\* _build_subcharts: nothing when they are as Chart.yaml says, else helm dependency build,
\* or update when Chart.lock is out of sync with it.
Built(c) ==
  [rev |-> checkout[c].rev, subcharts |-> "ok",
   lock |-> IF checkout[c].subcharts = "ok" THEN checkout[c].lock ELSE "in sync"]

\* _package, one checkout at a time: its subcharts,
BuildOne(p) ==
  /\ pc[p] = "package"
  /\ \E c \in todo[p] :
       /\ checkout' = [checkout EXCEPT ![c] = Built(c)]
       /\ todo' = Sets(todo, p, todo[p] \ {c}) /\ at' = Sets(at, p, c)
  /\ Goto(p, "unlink")
  /\ UNCHANGED <<versions, yaml, tarballs, chosen, got, backup, found, alone, mixed>> /\ UNCHANGED bounds

\* ... its earlier tarballs,
Unlink(p) ==
  /\ pc[p] = "unlink" /\ Goto(p, "helm package")
  /\ tarballs' = {t \in tarballs : t.chart # at[p]}
  /\ UNCHANGED <<versions, yaml, checkout, found, alone, mixed>> /\ UNCHANGED local /\ UNCHANGED bounds

\* ... and helm package.
Package(p) ==
  /\ pc[p] = "helm package" /\ Goto(p, IF todo[p] = {} THEN "done" ELSE "package")
  /\ tarballs' = {t \in tarballs : t.chart # at[p] \/ t.name # Declared} \cup {PackageOf(at[p])}
  /\ UNCHANGED <<versions, yaml, checkout, found, alone, mixed>> /\ UNCHANGED local /\ UNCHANGED bounds

\* Before an update, the subcharts of every checkout.
BuildAll(p) ==
  /\ pc[p] = "build" /\ Goto(p, "backup")
  /\ checkout' = [c \in Chart |-> IF c \in todo[p] THEN Built(c) ELSE checkout[c]]
  /\ UNCHANGED <<versions, yaml, tarballs, found, alone, mixed>> /\ UNCHANGED local /\ UNCHANGED bounds

\* _update: Chart.yaml is backed up,
Backup(p) ==
  /\ pc[p] = "backup" /\ Goto(p, "edit")
  /\ backup' = Sets(backup, p, yaml)
  /\ UNCHANGED <<chosen, got, todo, at, found, alone, mixed>> /\ UNCHANGED files /\ UNCHANGED bounds

\* ... pointed at the selections,
Edit(p) ==
  /\ pc[p] = "edit" /\ Goto(p, "update")
  /\ yaml' = got[p]
  /\ UNCHANGED <<versions, tarballs, checkout, found, alone, mixed>> /\ UNCHANGED local /\ UNCHANGED bounds

\* helm dependency update: charts/ is as Chart.yaml says, or left alone when helm fails,
\* as it does on a placeholder.
Resolved(c) == IF yaml[c] = "path" THEN PackageOf(c) ELSE Published(c, yaml[c])

\* Mutant: Chart.yaml is restored only when the update succeeds.
Update_NoFinally(p) ==
  /\ pc[p] = "update"
  /\ \/ tarballs' = {Resolved(c) : c \in Chart} /\ Goto(p, "restore")
        /\ \A c \in Chart : yaml[c] # "placeholder"
        /\ mixed' = (mixed /\ ~alone[p])
     \/ UNCHANGED <<tarballs, mixed>> /\ Goto(p, "failed")
  /\ UNCHANGED <<versions, yaml, checkout, found, alone>> /\ UNCHANGED local /\ UNCHANGED bounds

Update(p) ==
  /\ pc[p] = "update"
  /\ \/ tarballs' = {Resolved(c) : c \in Chart} /\ Goto(p, "restore")
        /\ \A c \in Chart : yaml[c] # "placeholder"
        /\ mixed' = (mixed /\ ~alone[p])
     \/ UNCHANGED <<tarballs, mixed>> /\ Goto(p, "restore failed")
  /\ UNCHANGED <<versions, yaml, checkout, found, alone>> /\ UNCHANGED local /\ UNCHANGED bounds

\* ... and restored, whether or not helm succeeded.
Restore(p) ==
  /\ pc[p] \in {"restore", "restore failed"}
  /\ yaml' = backup[p]
  /\ Goto(p, IF pc[p] = "restore" THEN "done" ELSE "failed")
  /\ UNCHANGED <<versions, tarballs, checkout, found, alone, mixed>> /\ UNCHANGED local /\ UNCHANGED bounds

\* The command goes on with the tarballs (the deploy renders), or has failed; it ends.
End(p) ==
  /\ pc[p] \in {"done", "failed"} /\ Goto(p, "idle")
  /\ got' = Sets(got, p, Unset) /\ chosen' = Sets(chosen, p, Unset) /\ todo' = Sets(todo, p, {})
  /\ at' = Sets(at, p, "none") /\ backup' = Sets(backup, p, Placeholders)
  /\ found' = Sets(found, p, Placeholders) /\ alone' = Sets(alone, p, FALSE)
  /\ UNCHANGED mixed /\ UNCHANGED files /\ UNCHANGED bounds

-----------------------------------------------------------------------------
\* SIGKILL, or a failing helm dependency build or helm package: the command is over.
Kill(p) ==
  /\ Busy(p) /\ kills < MaxKills /\ kills' = kills + 1 /\ Goto(p, "failed")
  /\ alone' = Sets(alone, p, FALSE)
  /\ UNCHANGED <<found, mixed, commands, edits>> /\ UNCHANGED files /\ UNCHANGED local

\* Between commands, the developer edits a checkout, or checks out a commit with other
\* subcharts, whose gitignored Chart.lock and charts/ stay behind.
Develop(c) ==
  /\ \A p \in Command : pc[p] = "idle"
  /\ edits < MaxEdits /\ edits' = edits + 1
  /\ \E edited \in {[checkout[c] EXCEPT !.rev = @ + 1],
                     [rev |-> checkout[c].rev + 1, subcharts |-> "old", lock |-> "stale"]} :
       checkout' = [checkout EXCEPT ![c] = edited]
  /\ UNCHANGED <<versions, yaml, tarballs, pc, found, alone, mixed, commands, kills>> /\ UNCHANGED local

Step(p) ==
  \/ Select(p) \/ Sync(p) \/ LoadFile(p) \/ WriteEntry(p) \/ Read(p) \/ BuildOne(p) \/ Unlink(p)
  \/ Package(p) \/ BuildAll(p) \/ Backup(p) \/ Edit(p) \/ Update(p) \/ Restore(p)
  \/ End(p) \/ Kill(p)

Next == (\E p \in Command : Step(p)) \/ \E c \in Checkout : Develop(c)

Spec == Init /\ [][Next]_vars

-----------------------------------------------------------------------------
Entry == Selections \cup {"none", "placeholder"}
Label == {"idle", "load", "write", "read", "build", "backup", "edit", "update", "restore", "restore failed",
          "package", "unlink", "helm package", "done", "failed"}

\* Every variable has its type.
TypeOK ==
  /\ versions \in [Chart -> Entry] /\ yaml \in [Chart -> Entry]
  /\ checkout \in [Chart -> [rev : Nat, subcharts : {"missing", "old", "ok"}, lock : {"in sync", "stale"}]]
  /\ pc \in [Command -> Label]
  /\ chosen \in [Command -> [Chart -> Entry]] /\ got \in [Command -> [Chart -> Entry]]
  /\ backup \in [Command -> [Chart -> Entry]] /\ found \in [Command -> [Chart -> Entry]]
  /\ todo \in [Command -> SUBSET Chart] /\ at \in [Command -> Chart \cup {"none"}]
  /\ \A p \in Command : pc[p] \in {"unlink", "helm package"} => at[p] \in Chart
  /\ \A t \in tarballs : t.chart \in Chart /\ (t.name # Declared => t = Published(t.chart, t.name))
  /\ alone \in [Command -> BOOLEAN] /\ mixed \in BOOLEAN

\* "Makes charts/*.tgz match .podiumd-versions.yaml": a command that ran on its own leaves
\* exactly one tarball of each chart, with what the selection says: the published chart, or
\* the checkout as it is now with the subcharts its Chart.yaml asks for, whatever killed and
\* failed commands left behind, and overlapping ones up to a later update.
Wanted(c) == IF versions[c] = "path" THEN PackageOf(c) ELSE Published(c, versions[c])

SyncMatches ==
  \A p \in Command : pc[p] = "done" /\ alone[p] /\ ~mixed =>
    /\ tarballs = {Wanted(c) : c \in Chart}
    /\ \A c \in Chart : versions[c] = "path" => checkout[c].subcharts = "ok"

\* A personal version choice never becomes a shared diff: a command that ran on its own and
\* was not killed leaves Chart.yaml as it found it, also when helm fails.
YamlAsFound ==
  \A p \in Command : pc[p] \in {"done", "failed"} /\ alone[p] => yaml = found[p]

=============================================================================
