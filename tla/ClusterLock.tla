---------------------------- MODULE ClusterLock ----------------------------
(***************************************************************************)
(* The lock on the shared minikube cluster (lock.py, and the cluster-lock  *)
(* command of cli.py): a file, created exclusively, that holds one line    *)
(* "<who> <what> <start time>".  A process that took the lock keeps the    *)
(* line in its environment, and so do the commands it starts.              *)
(*                                                                         *)
(* The file is read, created, written and removed in separate steps, and   *)
(* any process may be killed between two of them.  A file is a directory   *)
(* entry: a process that still has to write its line writes into the file  *)
(* it created, also when that entry has been removed meanwhile.            *)
(*                                                                         *)
(* `what' and the time matter only through equality of lines, so a line is *)
(* its holder and the second it was taken in.                              *)
(***************************************************************************)
EXTENDS Naturals

CONSTANTS
  Proc,         \* processes that run a podiumd-minikube command
  NoProc,       \* none of them
  Who,          \* people that lock by hand (cluster-lock's --who, default: the user)
  Holder,       \* the holder name of the commands that lock themselves
  MaxDepth,     \* nesting of held blocks (teardown-cluster calls setup-tunnel stop)
  MaxClock,     \* bound: seconds a behaviour lasts
  MaxKills,     \* bound: processes killed
  Coordinated,  \* people remove a hold one at a time, and break only one that is dead when shown
  ReleaseAnyway \* people also release when they hold nothing (their take was refused)

ASSUME LockAssumption ==
  /\ NoProc \notin Proc
  /\ "unknown" \notin Who \cup {Holder}    \* parse: the holder of an empty file
  /\ Holder \notin Who
  /\ MaxDepth \in Nat \ {0}
  /\ MaxClock \in Nat
  /\ MaxKills \in Nat
  /\ Coordinated \in BOOLEAN
  /\ ReleaseAnyway \in BOOLEAN

NoLine == [who |-> "unknown", at |-> 0]
Line == [who : Who \cup {Holder}, at : 0 .. MaxClock]
File == [by : Proc, line : Line \cup {NoLine}]
NoFile == [by |-> NoProc, line |-> NoLine]

Locking == {"command", "run", "take"}    \* commands that call lock.take
Removing == {"release", "break"}         \* commands that remove another process' hold

VARIABLES
  file,    \* the lock file, NoFile when there is none
  clock,   \* the current second
  pc,      \* where each process is
  cmd,     \* the command it runs
  who,     \* its --who
  env,     \* HOLD_ENV in its environment
  depth,   \* held blocks it is in
  took,    \* those of them that took the lock, and release it when they end
  hold,    \* the hold it is about to write, or was shown
  parent,  \* the `cluster-lock run' that waits for it
  hand,    \* the line under which a person changes the cluster by hand
  kills    \* processes killed so far

vars == <<file, clock, pc, cmd, who, env, depth, took, hold, parent, hand, kills>>
world == <<clock, kills>>

-----------------------------------------------------------------------------

\* The file's line is the one in the process' environment.
Ours(p) == env[p] # NoLine /\ file # NoFile /\ file.line = env[p]

\* A live process has the line in its environment, or a person works under it.
Carried(l) == (\E p \in Proc : env[p] = l) \/ (\E w \in Who : hand[w] = l)

\* The holder of f is gone: nobody works under its line; an empty file has only
\* the process that created it.
Gone(f) == IF f.line = NoLine THEN pc[f.by] = "off" /\ file = f ELSE ~Carried(f.line)

Changing(p) == depth[p] > 0

Init ==
  /\ file = NoFile
  /\ clock = 0
  /\ pc = [p \in Proc |-> "off"]
  /\ cmd = [p \in Proc |-> "none"]
  /\ who = [p \in Proc |-> Holder]
  /\ env = [p \in Proc |-> NoLine]
  /\ depth = [p \in Proc |-> 0]
  /\ took = [p \in Proc |-> {}]
  /\ hold = [p \in Proc |-> NoFile]
  /\ parent = [p \in Proc |-> NoProc]
  /\ hand = [w \in Who |-> NoLine]
  /\ kills = 0

Goto(p, label) == pc' = [pc EXCEPT ![p] = label]

\* The process ends, and its environment with it.
Exit(p) ==
  /\ Goto(p, "off")
  /\ cmd' = [cmd EXCEPT ![p] = "none"]
  /\ env' = [env EXCEPT ![p] = NoLine]
  /\ depth' = [depth EXCEPT ![p] = 0]
  /\ took' = [took EXCEPT ![p] = {}]
  /\ hold' = [hold EXCEPT ![p] = NoFile]

-----------------------------------------------------------------------------
(* Starting a command. *)

Launch(p, c, w, inherited, q) ==
  /\ pc[p] = "off"
  /\ Goto(p, IF c \in Locking THEN "check" ELSE "read")
  /\ cmd' = [cmd EXCEPT ![p] = c]
  /\ who' = [who EXCEPT ![p] = w]
  /\ env' = [env EXCEPT ![p] = inherited]
  /\ parent' = [parent EXCEPT ![p] = q]
  /\ UNCHANGED <<file, depth, took, hold, hand>> /\ UNCHANGED world

\* deploy, provision-cluster, reset-namespace, ...: @lock.holding
StartCommand(p) == Launch(p, "command", Holder, NoLine, NoProc)

StartRun(p, w) == Launch(p, "run", w, NoLine, NoProc)

StartTake(p, w) == hand[w] = NoLine /\ Launch(p, "take", w, NoLine, NoProc)

\* Nobody else is removing a hold now.
MayRemove == Coordinated => \A q \in Proc : cmd[q] \notin Removing

\* "release a lock you took", once.
StartRelease(p, w) ==
  /\ hand[w] # NoLine \/ ReleaseAnyway
  /\ \A q \in Proc : ~(cmd[q] = "release" /\ who[q] = w)
  /\ MayRemove
  /\ Launch(p, "release", w, NoLine, NoProc)

StartBreak(p, w) ==
  /\ MayRemove
  /\ Launch(p, "break", w, NoLine, NoProc)

\* `cluster-lock run' starts a locking command, which sees the hold as its own.
StartChild(q, p) ==
  /\ cmd[q] = "run" /\ pc[q] = "work"
  /\ \A c \in Proc : parent[c] # q
  /\ Launch(p, "command", Holder, env[q], q)

-----------------------------------------------------------------------------
(* take *)

\* Is the lock ours already?  Then this block does not take it.
Check(p) ==
  /\ pc[p] = "check"
  /\ IF Ours(p)
     THEN /\ Goto(p, "work")
          /\ depth' = [depth EXCEPT ![p] = @ + 1]
          /\ UNCHANGED hold
     ELSE /\ Goto(p, "create")
          /\ hold' = [hold EXCEPT ![p] =
                        [by |-> p, line |-> [who |-> who[p], at |-> clock]]]
          /\ UNCHANGED depth
  /\ UNCHANGED <<file, cmd, who, env, took, parent, hand>> /\ UNCHANGED world

\* Mutant: the file is opened without O_EXCL.
Create_NotExclusive(p) ==
  /\ pc[p] = "create"
  /\ file' = [by |-> p, line |-> NoLine]
  /\ Goto(p, "write")
  /\ UNCHANGED <<cmd, who, env, depth, took, hold, parent, hand>> /\ UNCHANGED world

\* os.open(O_CREAT | O_EXCL): the new file is empty until its line is written.
Create(p) ==
  /\ pc[p] = "create"
  /\ file = NoFile
  /\ file' = [by |-> p, line |-> NoLine]
  /\ Goto(p, "write")
  /\ UNCHANGED <<cmd, who, env, depth, took, hold, parent, hand>> /\ UNCHANGED world

\* FileExistsError: UserError, through the block around this one if there is one.
Refuse(p) ==
  /\ pc[p] = "create"
  /\ file # NoFile
  /\ IF depth[p] = 0
     THEN Exit(p) /\ parent' = [parent EXCEPT ![p] = NoProc]
     ELSE /\ Goto(p, "leave")
          /\ hold' = [hold EXCEPT ![p] = NoFile]
          /\ UNCHANGED <<cmd, env, depth, took, parent>>
  /\ UNCHANGED <<file, who, hand>> /\ UNCHANGED world

\* The write goes to the file this process created, removed or not.
\* `cluster-lock take' ends here: the file outlives it.
Write(p) ==
  /\ pc[p] = "write"
  /\ file' = IF file = [by |-> p, line |-> NoLine] THEN hold[p] ELSE file
  /\ IF cmd[p] = "take"
     THEN /\ Exit(p)
          /\ hand' = [hand EXCEPT ![who[p]] = hold[p].line]
     ELSE /\ Goto(p, "work")
          /\ env' = [env EXCEPT ![p] = hold[p].line]
          /\ depth' = [depth EXCEPT ![p] = @ + 1]
          /\ took' = [took EXCEPT ![p] = @ \cup {depth[p] + 1}]
          /\ hold' = [hold EXCEPT ![p] = NoFile]
          /\ UNCHANGED <<cmd, hand>>
  /\ UNCHANGED <<who, parent>> /\ UNCHANGED world

-----------------------------------------------------------------------------
(* The held block, and release. *)

\* A held block inside a held block of the same process.
Nest(p) ==
  /\ pc[p] = "work" /\ cmd[p] = "command"
  /\ depth[p] < MaxDepth
  /\ Goto(p, "check")
  /\ UNCHANGED <<file, cmd, who, env, depth, took, hold, parent, hand>> /\ UNCHANGED world

\* The block ends, normally or by an exception; `run' has waited for its command.
Finish(p) ==
  /\ pc[p] = "work"
  /\ \A c \in Proc : parent[c] # p
  /\ Goto(p, "leave")
  /\ UNCHANGED <<file, cmd, who, env, depth, took, hold, parent, hand>> /\ UNCHANGED world

\* The block has been left: the process ends, or goes on in the block around it.
Left(p) ==
  IF depth[p] = 1
  THEN Exit(p) /\ parent' = [parent EXCEPT ![p] = NoProc]
  ELSE /\ Goto(p, "work")
       /\ depth' = [depth EXCEPT ![p] = @ - 1]
       /\ took' = [took EXCEPT ![p] = @ \ {depth[p]}]
       /\ env' = [env EXCEPT ![p] = IF depth[p] \in took[p] THEN NoLine ELSE @]
       /\ UNCHANGED <<cmd, hold, parent>>

\* Mutant: a nested block, which took nothing, releases its outer block's lock.
Leave_ReleasesNested(p) ==
  /\ pc[p] = "leave"
  /\ IF Ours(p)
     THEN /\ Goto(p, "unlink")
          /\ UNCHANGED <<cmd, env, depth, took, hold, parent>>
     ELSE Left(p)
  /\ UNCHANGED <<file, who, hand>> /\ UNCHANGED world

\* Mutant: the lock is released only after a normal return, without finally.
Leave_NoFinally(p) ==
  /\ pc[p] = "leave"
  /\ Left(p)
  /\ UNCHANGED <<file, who, hand>> /\ UNCHANGED world

\* finally: a block that took the lock looks whether it is still ours.
Leave(p) ==
  /\ pc[p] = "leave"
  /\ IF depth[p] \in took[p] /\ Ours(p)
     THEN /\ Goto(p, "unlink")
          /\ UNCHANGED <<cmd, env, depth, took, hold, parent>>
     ELSE Left(p)
  /\ UNCHANGED <<file, who, hand>> /\ UNCHANGED world

\* path.unlink(missing_ok=True): whatever file is there now.
Unlink(p) ==
  /\ pc[p] = "unlink"
  /\ file' = NoFile
  /\ Left(p)
  /\ UNCHANGED <<who, hand>> /\ UNCHANGED world

-----------------------------------------------------------------------------
(* Removing a hold by hand. *)

\* release_held_by: only who is compared.
ReadRelease(p) ==
  /\ pc[p] = "read" /\ cmd[p] = "release"
  /\ IF file # NoFile /\ file.line.who = who[p]
     THEN /\ Goto(p, "remove")
          /\ hold' = [hold EXCEPT ![p] = file]
          /\ UNCHANGED <<cmd, env, depth, took, hand>>
     ELSE Exit(p) /\ hand' = [hand EXCEPT ![who[p]] = NoLine]
  /\ UNCHANGED <<file, who, parent>> /\ UNCHANGED world

\* cluster-lock break shows the hold and asks.
ReadBreak(p) ==
  /\ pc[p] = "read" /\ cmd[p] = "break"
  /\ IF file # NoFile /\ (Coordinated => Gone(file))
     THEN /\ Goto(p, "prompt")
          /\ hold' = [hold EXCEPT ![p] = file]
          /\ UNCHANGED <<cmd, env, depth, took>>
     ELSE Exit(p)
  /\ UNCHANGED <<file, who, parent, hand>> /\ UNCHANGED world

\* The person answers yes only when the holder they were shown is gone.
Confirm(p) ==
  /\ pc[p] = "prompt"
  /\ Gone(hold[p])
  /\ Goto(p, "remove")
  /\ UNCHANGED <<file, cmd, who, env, depth, took, hold, parent, hand>> /\ UNCHANGED world

Decline(p) ==
  /\ pc[p] = "prompt"
  /\ Exit(p)
  /\ UNCHANGED <<file, who, parent, hand>> /\ UNCHANGED world

\* unlink: whatever file is there now.
Remove(p) ==
  /\ pc[p] = "remove"
  /\ file' = NoFile
  /\ hand' = IF cmd[p] = "release" THEN [hand EXCEPT ![who[p]] = NoLine] ELSE hand
  /\ Exit(p)
  /\ UNCHANGED <<who, parent>> /\ UNCHANGED world

-----------------------------------------------------------------------------
\* SIGKILL or a reboot: no finally runs; the commands it started go on.
Kill(p) ==
  /\ pc[p] # "off"
  /\ kills < MaxKills
  /\ kills' = kills + 1
  /\ Exit(p)
  /\ parent' = [c \in Proc |-> IF c = p \/ parent[c] = p THEN NoProc ELSE parent[c]]
  /\ UNCHANGED <<file, clock, who, hand>>

Tick ==
  /\ clock < MaxClock
  /\ clock' = clock + 1
  /\ UNCHANGED <<file, pc, cmd, who, env, depth, took, hold, parent, hand, kills>>

\* What a process does by itself once it runs.
Step(p) ==
  \/ Check(p) \/ Create(p) \/ Refuse(p) \/ Write(p)
  \/ Finish(p) \/ Leave(p) \/ Unlink(p)
  \/ ReadRelease(p) \/ ReadBreak(p) \/ Remove(p)

Next ==
  \/ \E p \in Proc :
       \/ Step(p)
       \/ StartCommand(p)
       \/ \E w \in Who :
            StartRun(p, w) \/ StartTake(p, w) \/ StartRelease(p, w) \/ StartBreak(p, w)
       \/ \E q \in Proc : StartChild(q, p)
       \/ Nest(p) \/ Confirm(p) \/ Decline(p) \/ Kill(p)
  \/ Tick

Spec == Init /\ [][Next]_vars

\* Every running process keeps running, and its outermost block ends (its body is
\* a finite sequence of steps).  Nothing is assumed of people.
FairSpec ==
  /\ Spec
  /\ \A p \in Proc : WF_vars(Step(p)) /\ SF_vars(Finish(p) /\ depth[p] = 1)

-----------------------------------------------------------------------------
Labels == {"off", "check", "create", "write", "work", "leave", "unlink",
           "read", "prompt", "remove"}

\* Every variable has its type.
TypeOK ==
  /\ file \in File \cup {NoFile}
  /\ clock \in 0 .. MaxClock
  /\ pc \in [Proc -> Labels]
  /\ cmd \in [Proc -> Locking \cup Removing \cup {"none"}]
  /\ who \in [Proc -> Who \cup {Holder}]
  /\ env \in [Proc -> Line \cup {NoLine}]
  /\ depth \in [Proc -> 0 .. MaxDepth]
  /\ took \in [Proc -> SUBSET (1 .. MaxDepth)]
  /\ hold \in [Proc -> File \cup {NoFile}]
  /\ parent \in [Proc -> Proc \cup {NoProc}]
  /\ hand \in [Who -> Line \cup {NoLine}]
  /\ kills \in 0 .. MaxKills

\* "whoever changes it holds the lock file first" (README, lock.py): everybody
\* who changes the cluster does so under the line that is in the file.
HoldsTheLock ==
  /\ \A p \in Proc : Changing(p) => Ours(p)
  /\ \A w \in Who : hand[w] # NoLine => file # NoFile /\ file.line = hand[w]

\* Two that change the cluster at a time belong to one hold: only one of them
\* took the lock, and nobody else works by hand.
MutualExclusion ==
  /\ \A p, q \in Proc : took[p] # {} /\ took[q] # {} => p = q
  /\ \A p, q \in Proc : Changing(p) /\ Changing(q) => env[p] = env[q]
  /\ \A w \in Who : hand[w] # NoLine =>
       /\ \A p \in Proc : ~Changing(p)
       /\ \A v \in Who : hand[v] # NoLine => v = w

\* A hold is left behind without anybody to release it only by a kill: every
\* return, exception and refused nested take gives the lock back.
StaleOnlyByKill == kills = 0 /\ file # NoFile => ~Gone(file)

\* A hold ends by the process that took it, by the person who took it by hand
\* (release_held_by: "taken by hand, in another process"), or because a dead one is
\* broken: no step removes or replaces the hold of somebody at work.
LiveHoldStays ==
  [][file # NoFile /\ file' # file /\ file.line # NoLine
       => \/ \E p \in Proc : env[p] = file.line /\ pc[p] = "unlink"
          \/ \E p \in Proc : pc[p] = "remove" /\ cmd[p] = "release" /\ hand[who[p]] = file.line
          \/ \E p \in Proc : pc[p] = "remove" /\ cmd[p] = "break" /\ ~Carried(file.line)]_vars

\* A command that holds the lock gives it back, unless something was killed.
HoldEnds ==
  \A p \in Proc : took[p] # {} ~> (file = NoFile \/ file.by # p \/ kills > 0)

-----------------------------------------------------------------------------
(* Why the lock excludes: the inductive invariant, for people who coordinate. *)

\* A process about to enter a block has room for it; one in a block is in one.
DepthInv ==
  \A p \in Proc :
    /\ pc[p] \in {"check", "create", "write"} => depth[p] < MaxDepth
    /\ pc[p] \in {"work", "leave", "unlink"} => depth[p] > 0
    /\ pc[p] = "off" => depth[p] = 0

\* What a process has at each of its labels.
Frame(p) ==
  /\ pc[p] \in {"off", "read", "prompt", "remove"} =>
       env[p] = NoLine /\ depth[p] = 0 /\ parent[p] = NoProc
  /\ pc[p] \in {"create", "write"} => env[p] = NoLine /\ depth[p] = 0
  /\ pc[p] = "check" /\ cmd[p] # "command" => env[p] = NoLine
  /\ pc[p] = "unlink" => depth[p] = 1 /\ 1 \in took[p]
  /\ depth[p] > 0 => env[p] # NoLine /\ cmd[p] \in {"command", "run"}
  /\ took[p] \subseteq {1} /\ (took[p] # {} => depth[p] > 0)
  /\ cmd[p] \in Removing <=> pc[p] \in {"read", "prompt", "remove"}
  /\ cmd[p] = "none" <=> pc[p] = "off"
  /\ cmd[p] = "take" => who[p] \in Who
  /\ cmd[p] # "command" => parent[p] = NoProc

Frames == \A p \in Proc : Frame(p)

\* The file belongs to whoever writes it, carries its line or works under it.
FileOwner ==
  /\ \A p \in Proc : pc[p] = "write" =>
       /\ file = [by |-> p, line |-> NoLine]
       /\ hold[p].by = p /\ hold[p].line \in Line
  /\ \A p \in Proc : pc[p] = "create" => hold[p].by = p /\ hold[p].line \in Line
  /\ \A p \in Proc : env[p] # NoLine => file # NoFile /\ file.line = env[p]
  /\ \A w \in Who : hand[w] # NoLine =>
       /\ file # NoFile /\ file.line = hand[w]
       /\ \A p \in Proc : env[p] = NoLine
       /\ \A v \in Who : hand[v] # NoLine => v = w

\* Who carries a line without having taken the lock is a child of who took it.
Family ==
  /\ \A p, q \in Proc : took[p] # {} /\ took[q] # {} => p = q
  /\ \A c \in Proc : parent[c] # NoProc => cmd[parent[c]] = "run" /\ pc[parent[c]] = "work"
  /\ \A c, q \in Proc :
       env[c] # NoLine /\ took[c] = {} /\ took[q] # {} => parent[c] = q

\* The one process that removes a hold removes a dead one, or its person's own.
Removal ==
  /\ \A p, q \in Proc : cmd[p] \in Removing /\ cmd[q] \in Removing => p = q
  /\ \A p \in Proc : cmd[p] = "release" =>
       who[p] \in Who /\ hand[who[p]] # NoLine
  /\ \A p \in Proc : pc[p] \in {"prompt", "remove"} => hold[p] = file /\ file # NoFile
  /\ \A p \in Proc : pc[p] \in {"prompt", "remove"} /\ cmd[p] = "break" =>
       IF file.line = NoLine THEN pc[file.by] # "write" ELSE ~Carried(file.line)

\* Inductive for people who coordinate: the code's steps keep each family under
\* the line of the file it created.
LockInv == DepthInv /\ Frames /\ FileOwner /\ Family /\ Removal

\* Somebody will write the file's line, works under it, or holds it by hand.
Attended ==
  IF file.line = NoLine
  THEN \E p \in Proc : pc[p] = "write"
  ELSE (\E p \in Proc : took[p] # {}) \/ (\E w \in Who : hand[w] # NoLine)

\* Who holds by hand finds their own name in the file, and is not sent away by
\* release; as long as nothing is killed, every file is attended.
AttendedInv ==
  /\ \A w \in Who : hand[w] # NoLine => hand[w].who = w
  /\ \A p \in Proc : cmd[p] = "take" /\ pc[p] \in {"create", "write"} =>
       hold[p].line.who = who[p]
  /\ kills = 0 /\ file # NoFile => Attended

-----------------------------------------------------------------------------
(* The hold the lock implements. *)

Users == {p \in Proc : Changing(p)} \cup {w \in Who : hand[w] # NoLine}

Exclusive == INSTANCE ExclusiveHold WITH
  User <- Proc \cup Who,
  Hold <- Line,
  Nobody <- NoLine,
  holder <- file.line,
  users <- Users

\* The lock file implements an exclusive hold: nobody starts to change the
\* cluster while somebody else does, and the line stays until the last one stops.
IsExclusive == Exclusive!Spec
=============================================================================
