------------------------- MODULE ClusterLockProofs -------------------------
(***************************************************************************)
(* What holds of the cluster lock for any processes, people and bounds.    *)
(***************************************************************************)
EXTENDS ClusterLock, TLAPS

USE DEF vars, world

-----------------------------------------------------------------------------
(* Types. *)

\* A process that ends leaves every variable in its type and is in no block.
LEMMA ExitTypes ==
  ASSUME TypeOK, DepthInv, NEW p \in Proc, Exit(p)
  PROVE  /\ pc' \in [Proc -> Labels]
         /\ cmd' \in [Proc -> Locking \cup Removing \cup {"none"}]
         /\ env' \in [Proc -> Line \cup {NoLine}]
         /\ depth' \in [Proc -> 0 .. MaxDepth]
         /\ took' \in [Proc -> SUBSET (1 .. MaxDepth)]
         /\ hold' \in [Proc -> File \cup {NoFile}]
         /\ DepthInv'
  BY LockAssumption DEF Exit, Goto, TypeOK, DepthInv, Labels

\* Leaving a block, likewise.
LEMMA LeftTypes ==
  ASSUME TypeOK, DepthInv, NEW p \in Proc, pc[p] \in {"leave", "unlink"}, Left(p)
  PROVE  /\ pc' \in [Proc -> Labels]
         /\ cmd' \in [Proc -> Locking \cup Removing \cup {"none"}]
         /\ env' \in [Proc -> Line \cup {NoLine}]
         /\ depth' \in [Proc -> 0 .. MaxDepth]
         /\ took' \in [Proc -> SUBSET (1 .. MaxDepth)]
         /\ hold' \in [Proc -> File \cup {NoFile}]
         /\ parent' \in [Proc -> Proc \cup {NoProc}]
         /\ DepthInv'
<1>1. CASE depth[p] = 1
  BY <1>1, ExitTypes DEF Left, TypeOK
<1>2. CASE depth[p] # 1
  <2>1. depth[p] \in 2 .. MaxDepth
    BY <1>2, LockAssumption DEF TypeOK, DepthInv
  <2>. QED
    BY <1>2, <2>1, LockAssumption DEF Left, Goto, TypeOK, DepthInv, Labels
<1>. QED BY <1>1, <1>2

\* Starting a command, likewise.
LEMMA LaunchTypes ==
  ASSUME TypeOK, DepthInv, NEW p \in Proc, NEW c \in Locking \cup Removing,
         NEW w \in Who \cup {Holder}, NEW l \in Line \cup {NoLine},
         NEW q \in Proc \cup {NoProc}, Launch(p, c, w, l, q)
  PROVE  (TypeOK /\ DepthInv)'
  BY LockAssumption DEF Launch, Goto, TypeOK, DepthInv, Labels

\* Every step keeps every variable in its type, and the depth within its bound.
LEMMA NextTypes == TypeOK /\ DepthInv /\ [Next]_vars => (TypeOK /\ DepthInv)'
<1> SUFFICES ASSUME TypeOK, DepthInv, [Next]_vars
             PROVE  (TypeOK /\ DepthInv)'
  OBVIOUS
<1> USE LockAssumption
<1>1. ASSUME NEW p \in Proc, Check(p) PROVE (TypeOK /\ DepthInv)'
  <2>1. [by |-> p, line |-> [who |-> who[p], at |-> clock]] \in File
    BY DEF TypeOK, File, Line
  <2>. QED BY <1>1, <2>1 DEF Check, Goto, TypeOK, DepthInv, Labels
<1>2. ASSUME NEW p \in Proc, Create(p) PROVE (TypeOK /\ DepthInv)'
  BY <1>2 DEF Create, Goto, TypeOK, DepthInv, Labels, File
<1>3. ASSUME NEW p \in Proc, Refuse(p) PROVE (TypeOK /\ DepthInv)'
  <2>1. CASE depth[p] = 0
    BY <1>3, <2>1, ExitTypes DEF Refuse, TypeOK
  <2>2. CASE depth[p] # 0
    BY <1>3, <2>2 DEF Refuse, Goto, TypeOK, DepthInv, Labels
  <2>. QED BY <2>1, <2>2
<1>4. ASSUME NEW p \in Proc, Write(p) PROVE (TypeOK /\ DepthInv)'
  <2>1. file' \in File \cup {NoFile}
    BY <1>4 DEF Write, TypeOK
  <2>2. hold[p].line \in Line \cup {NoLine}
    BY DEF TypeOK, File, NoFile
  <2>3. CASE cmd[p] = "take"
    BY <1>4, <2>1, <2>2, <2>3, ExitTypes DEF Write, TypeOK
  <2>4. CASE cmd[p] # "take"
    BY <1>4, <2>1, <2>2, <2>4 DEF Write, Goto, TypeOK, DepthInv, Labels
  <2>. QED BY <2>3, <2>4
<1>5. ASSUME NEW p \in Proc, Nest(p) PROVE (TypeOK /\ DepthInv)'
  BY <1>5 DEF Nest, Goto, TypeOK, DepthInv, Labels
<1>6. ASSUME NEW p \in Proc, Finish(p) PROVE (TypeOK /\ DepthInv)'
  BY <1>6 DEF Finish, Goto, TypeOK, DepthInv, Labels
<1>7. ASSUME NEW p \in Proc, Leave(p) PROVE (TypeOK /\ DepthInv)'
  <2>1. CASE depth[p] \in took[p] /\ Ours(p)
    BY <1>7, <2>1 DEF Leave, Goto, TypeOK, DepthInv, Labels
  <2>2. CASE ~(depth[p] \in took[p] /\ Ours(p))
    BY <1>7, <2>2, LeftTypes DEF Leave, TypeOK
  <2>. QED BY <2>1, <2>2
<1>8. ASSUME NEW p \in Proc, Unlink(p) PROVE (TypeOK /\ DepthInv)'
  BY <1>8, LeftTypes DEF Unlink, TypeOK
<1>9. ASSUME NEW p \in Proc, ReadRelease(p) PROVE (TypeOK /\ DepthInv)'
  <2>1. hand' \in [Who -> Line \cup {NoLine}]
    BY <1>9 DEF ReadRelease, TypeOK
  <2>2. CASE file # NoFile /\ file.line.who = who[p]
    BY <1>9, <2>1, <2>2 DEF ReadRelease, Goto, TypeOK, DepthInv, Labels
  <2>3. CASE ~(file # NoFile /\ file.line.who = who[p])
    BY <1>9, <2>1, <2>3, ExitTypes DEF ReadRelease, TypeOK
  <2>. QED BY <2>2, <2>3
<1>10. ASSUME NEW p \in Proc, ReadBreak(p) PROVE (TypeOK /\ DepthInv)'
  <2>1. CASE file # NoFile /\ (Coordinated => Gone(file))
    BY <1>10, <2>1 DEF ReadBreak, Goto, TypeOK, DepthInv, Labels
  <2>2. CASE ~(file # NoFile /\ (Coordinated => Gone(file)))
    BY <1>10, <2>2, ExitTypes DEF ReadBreak, TypeOK
  <2>. QED BY <2>1, <2>2
<1>11. ASSUME NEW p \in Proc, Confirm(p) PROVE (TypeOK /\ DepthInv)'
  BY <1>11 DEF Confirm, Goto, TypeOK, DepthInv, Labels
<1>12. ASSUME NEW p \in Proc, Decline(p) PROVE (TypeOK /\ DepthInv)'
  BY <1>12, ExitTypes DEF Decline, TypeOK
<1>13. ASSUME NEW p \in Proc, Remove(p) PROVE (TypeOK /\ DepthInv)'
  <2>1. hand' \in [Who -> Line \cup {NoLine}]
    BY <1>13 DEF Remove, TypeOK
  <2>. QED BY <1>13, <2>1, ExitTypes DEF Remove, TypeOK
<1>14. ASSUME NEW p \in Proc, Kill(p) PROVE (TypeOK /\ DepthInv)'
  <2>1. kills' \in 0 .. MaxKills
    BY <1>14 DEF Kill, TypeOK
  <2>2. parent' \in [Proc -> Proc \cup {NoProc}]
    BY <1>14 DEF Kill, TypeOK
  <2>. QED BY <1>14, <2>1, <2>2, ExitTypes DEF Kill, TypeOK
<1>15. CASE Tick
  BY <1>15 DEF Tick, TypeOK, DepthInv
<1>16. ASSUME NEW p \in Proc,
              \/ StartCommand(p)
              \/ \E w \in Who :
                   StartRun(p, w) \/ StartTake(p, w) \/ StartRelease(p, w) \/ StartBreak(p, w)
              \/ \E q \in Proc : StartChild(q, p)
       PROVE  (TypeOK /\ DepthInv)'
  BY <1>16, LaunchTypes
  DEF StartCommand, StartRun, StartTake, StartRelease, StartBreak, StartChild,
      Locking, Removing, TypeOK
<1>17. CASE UNCHANGED vars
  BY <1>17 DEF TypeOK, DepthInv
<1>. QED
  BY <1>1, <1>2, <1>3, <1>4, <1>5, <1>6, <1>7, <1>8, <1>9, <1>10, <1>11, <1>12,
     <1>13, <1>14, <1>15, <1>16, <1>17 DEF Next, Step

LEMMA InitTypes == Init => TypeOK /\ DepthInv
  BY LockAssumption DEF Init, TypeOK, DepthInv, Labels

\* Every variable always has its type, however people use the lock.
THEOREM TypeCorrect == Spec => []TypeOK
<1>1. Spec => [](TypeOK /\ DepthInv)
  BY InitTypes, NextTypes, PTL DEF Spec
<1>. QED BY <1>1, PTL

-----------------------------------------------------------------------------
(* The lock excludes, for people who coordinate. *)

Careful == Coordinated /\ ~ReleaseAnyway

\* The step leaves process q as it is.
Same(q) ==
  /\ pc'[q] = pc[q] /\ cmd'[q] = cmd[q] /\ who'[q] = who[q] /\ env'[q] = env[q]
  /\ depth'[q] = depth[q] /\ took'[q] = took[q] /\ hold'[q] = hold[q]
  /\ parent'[q] = parent[q]

\* A step of p: the other processes, and the hands of people, stay as they are.
StepOf(p) == hand' = hand /\ \A q \in Proc : q # p => Same(q)

\* p goes on with the line it had, or drops it.
KeepsLine(p) == env'[p] \in {NoLine, env[p]} /\ pc'[p] # "write"

LEMMA DepthNat == TypeOK => \A p \in Proc : depth[p] \in Nat
  BY LockAssumption DEF TypeOK

LEMMA FramesKept ==
  ASSUME Frames, NEW p \in Proc, \A q \in Proc : q # p => Same(q), Frame(p)'
  PROVE  Frames'
  BY DEF Frames, Frame, Same

LEMMA FileOwnerKept ==
  ASSUME FileOwner, NEW p \in Proc, StepOf(p), KeepsLine(p), file' = file,
         pc'[p] = "create" => hold'[p].by = p /\ hold'[p].line \in Line
  PROVE  FileOwner'
  BY DEF FileOwner, StepOf, Same, KeepsLine, Line

LEMMA FamilyKept ==
  ASSUME TypeOK, Family, NEW p \in Proc, StepOf(p), KeepsLine(p),
         took'[p] \subseteq took[p],
         env'[p] # NoLine => took'[p] = took[p] /\ parent'[p] = parent[p],
         parent'[p] \in {parent[p], NoProc},
         \/ \A c \in Proc : parent'[c] # p
         \/ pc'[p] = "work" /\ cmd'[p] = "run"
  PROVE  Family'
<1>1. \A q \in Proc : took'[q] # {} => took[q] # {}
  BY DEF StepOf, Same
<1>2. \A c, q \in Proc : took'[c] # {} /\ took'[q] # {} => c = q
  BY <1>1 DEF Family
<1>3. ASSUME NEW c \in Proc, parent'[c] # NoProc
      PROVE  cmd'[parent'[c]] = "run" /\ pc'[parent'[c]] = "work"
  <2>1. parent'[c] = parent[c]
    BY <1>3 DEF StepOf, Same
  <2>2. parent[c] \in Proc /\ cmd[parent[c]] = "run" /\ pc[parent[c]] = "work"
    BY <1>3, <2>1 DEF Family, TypeOK
  <2>. QED BY <1>3, <2>1, <2>2 DEF StepOf, Same
<1>4. ASSUME NEW c \in Proc, NEW q \in Proc,
             env'[c] # NoLine, took'[c] = {}, took'[q] # {}
      PROVE  parent'[c] = q
  <2>1. env[c] # NoLine /\ took[c] = {} /\ parent'[c] = parent[c]
    BY <1>4 DEF StepOf, Same, KeepsLine
  <2>. QED BY <1>1, <1>4, <2>1 DEF Family
<1>. QED BY <1>2, <1>3, <1>4 DEF Family

LEMMA RemovalKept ==
  ASSUME TypeOK, Removal, NEW p \in Proc, StepOf(p), KeepsLine(p), file' = file,
         pc'[p] \notin {"prompt", "remove"},
         cmd'[p] \in Removing => cmd'[p] = cmd[p] /\ who'[p] = who[p]
  PROVE  Removal'
<1>1. \A q, r \in Proc : cmd'[q] \in Removing /\ cmd'[r] \in Removing => q = r
  BY DEF Removal, StepOf, Same
<1>2. \A q \in Proc : cmd'[q] = "release" => who'[q] \in Who /\ hand'[who'[q]] # NoLine
  BY DEF Removal, StepOf, Same, Removing
<1>3. \A q \in Proc : pc'[q] \in {"prompt", "remove"} => q # p /\ Same(q)
  BY DEF StepOf
<1>4. \A q \in Proc : pc'[q] \in {"prompt", "remove"} => hold'[q] = file' /\ file' # NoFile
  BY <1>3 DEF Removal, Same
<1>5. ASSUME NEW q \in Proc, pc'[q] \in {"prompt", "remove"}, cmd'[q] = "break"
      PROVE  IF file'.line = NoLine THEN pc'[file'.by] # "write" ELSE ~Carried(file.line)'
  <2>1. file # NoFile /\ IF file.line = NoLine THEN pc[file.by] # "write" ELSE ~Carried(file.line)
    BY <1>3, <1>5 DEF Removal, Same
  <2>2. CASE file.line = NoLine
    <3>1. file.by \in Proc
      BY <2>1 DEF TypeOK, File
    <3>. QED BY <2>1, <2>2, <3>1 DEF StepOf, Same, KeepsLine
  <2>3. CASE file.line # NoLine
    BY <2>1, <2>3 DEF Carried, StepOf, Same, KeepsLine
  <2>. QED BY <2>2, <2>3
<1>. QED BY <1>1, <1>2, <1>4, <1>5 DEF Removal

-----------------------------------------------------------------------------
(* One lemma per action. *)

LEMMA CheckLock ==
  ASSUME Careful, TypeOK, LockInv, NEW p \in Proc, Check(p)
  PROVE  LockInv'
<1> USE LockAssumption DEF LockInv
<1>1. DepthInv'
  BY NextTypes DEF Next, Step
<1>2. StepOf(p) /\ KeepsLine(p) /\ file' = file
  BY DEF Check, Goto, TypeOK, StepOf, Same, KeepsLine
<1>3. /\ pc'[p] \in {"work", "create"} /\ took' = took /\ parent' = parent
      /\ cmd'[p] = cmd[p] /\ who'[p] = who[p] /\ env'[p] = env[p]
  BY DEF Check, Goto, TypeOK
<1>4. Frame(p)'
  <2>1. CASE Ours(p)
    BY <1>3, <2>1 DEF Frames, Frame, Check, Goto, TypeOK, Ours, Locking, Removing
  <2>2. CASE ~Ours(p)
    <3>1. env[p] = NoLine /\ depth[p] = 0
      BY <2>2, DepthNat DEF Ours, FileOwner, Frames, Frame
    <3>. QED BY <1>3, <2>2, <3>1 DEF Frames, Frame, Check, Goto, TypeOK
  <2>. QED BY <2>1, <2>2
<1>5. Frames'
  BY <1>2, <1>4, FramesKept DEF StepOf
<1>6. FileOwner'
  <2>1. pc'[p] = "create" => hold'[p].by = p /\ hold'[p].line \in Line
    BY DEF Check, Goto, TypeOK, Line
  <2>. QED BY <1>2, <2>1, FileOwnerKept
<1>7. Family'
  <2>1. \A c \in Proc : parent'[c] # p
    BY <1>3 DEF Family, Check
  <2>. QED BY <1>2, <1>3, <2>1, FamilyKept
<1>8. Removal'
  BY <1>2, <1>3, RemovalKept
<1>. QED BY <1>1, <1>5, <1>6, <1>7, <1>8

LEMMA CreateLock ==
  ASSUME Careful, TypeOK, LockInv, NEW p \in Proc, Create(p)
  PROVE  LockInv'
<1> USE LockAssumption DEF LockInv
<1>1. DepthInv'
  BY NextTypes DEF Next, Step
<1>2. StepOf(p)
  BY DEF Create, Goto, TypeOK, StepOf, Same
<1>3. Frame(p)'
  BY DEF Frames, Frame, Create, Goto, TypeOK
<1>4. Frames'
  BY <1>2, <1>3, FramesKept DEF StepOf
<1>5. FileOwner'
  BY DEF FileOwner, Create, Goto, TypeOK, NoFile
<1>6. Family'
  BY DEF Family, Create, Goto
<1>7. Removal'
  BY DEF Removal, Create, Goto
<1>. QED BY <1>1, <1>4, <1>5, <1>6, <1>7

\* Whoever writes its line is alone: nobody else is under a line.
LEMMA WriteLock ==
  ASSUME Careful, TypeOK, LockInv, NEW p \in Proc, Write(p)
  PROVE  LockInv'
<1> USE LockAssumption DEF LockInv
<1>1. DepthInv'
  BY NextTypes DEF Next, Step
<1>2. /\ file = [by |-> p, line |-> NoLine] /\ pc[p] = "write"
      /\ hold[p].by = p /\ hold[p].line \in Line
  BY DEF Write, FileOwner
<1>3. file # NoFile /\ file' = hold[p] /\ hold[p].line # NoLine /\ hold[p] # NoFile
  BY <1>2 DEF Write, NoFile, Line, NoLine
<1>4. /\ \A q \in Proc : env[q] = NoLine /\ depth[q] = 0 /\ took[q] = {}
      /\ \A w \in Who : hand[w] = NoLine
  <2>1. \A q \in Proc : env[q] = NoLine
    BY <1>2 DEF FileOwner
  <2>2. ASSUME NEW q \in Proc PROVE depth[q] = 0 /\ took[q] = {}
    <3>1. depth[q] \in Nat /\ Frame(q)
      BY DepthNat DEF Frames
    <3>. QED BY <2>1, <3>1 DEF Frame
  <2>. QED BY <1>2, <2>1, <2>2 DEF FileOwner
<1>5. \A q \in Proc : cmd[q] # "release" /\ pc[q] \notin {"prompt", "remove"}
  <2>1. \A q \in Proc : cmd[q] # "release"
    BY <1>4 DEF Removal
  <2>2. \A q \in Proc : pc[q] \in {"prompt", "remove"} => cmd[q] = "break"
    BY <2>1 DEF Frames, Frame, Removing
  <2>. QED BY <1>2, <2>1, <2>2 DEF Removal
<1>6. \A q \in Proc : q # p => Same(q)
  BY DEF Write, Goto, Exit, TypeOK, Same
<1>7. CASE cmd[p] = "take"
  <2>1. /\ pc'[p] = "off" /\ cmd'[p] = "none" /\ env'[p] = NoLine
        /\ depth'[p] = 0 /\ took'[p] = {}
    BY <1>7 DEF Write, Exit, Goto, TypeOK
  <2>2. parent' = parent /\ who[p] \in Who /\ hand' = [hand EXCEPT ![who[p]] = hold[p].line]
    BY <1>7 DEF Write, Frames, Frame
  <2>a. parent[p] = NoProc
    BY <1>7 DEF Frames, Frame
  <2>3. Frame(p)'
    BY <1>4, <2>1, <2>2, <2>a DEF Frame, Removing
  <2>4. FileOwner'
    <3>1. \A q \in Proc : env'[q] = NoLine /\ pc'[q] \notin {"write"}
      BY <1>2, <1>4, <1>6, <2>1 DEF FileOwner, Same
    <3>2. \A w \in Who : hand'[w] = IF w = who[p] THEN hold[p].line ELSE NoLine
      BY <1>4, <2>2 DEF TypeOK
    <3>3. \A q \in Proc : pc'[q] = "create" => hold'[q].by = q /\ hold'[q].line \in Line
      BY <1>6, <2>1 DEF FileOwner, Same
    <3>. QED BY <1>3, <3>1, <3>2, <3>3 DEF FileOwner
  <2>5. Family'
    <3>1. \A q \in Proc : env'[q] = NoLine /\ took'[q] = {}
      BY <1>4, <1>6, <2>1 DEF Same
    <3>2. \A c \in Proc : parent[c] # p
      BY <1>2 DEF Family
    <3>. QED BY <1>6, <2>2, <3>1, <3>2 DEF Family, Same, TypeOK
  <2>6. Removal'
    BY <1>5, <1>6, <2>1 DEF Removal, Same, Removing
  <2>. QED BY <1>1, <1>6, <2>3, <2>4, <2>5, <2>6, FramesKept
<1>8. CASE cmd[p] # "take"
  <2>1. /\ pc'[p] = "work" /\ cmd' = cmd /\ env'[p] = hold[p].line /\ depth'[p] = 1
        /\ took'[p] = {1} /\ parent' = parent /\ hand' = hand
    BY <1>4, <1>8 DEF Write, Goto, TypeOK
  <2>2. Frame(p)'
    BY <1>2, <1>3, <1>8, <2>1 DEF Frames, Frame, Removing, Locking, TypeOK
  <2>3. FileOwner'
    BY <1>2, <1>3, <1>4, <1>6, <2>1 DEF FileOwner, Same
  <2>4. Family'
    BY <1>2, <1>4, <1>6, <2>1 DEF Family, Same, TypeOK
  <2>5. Removal'
    BY <1>5, <1>6, <2>1 DEF Removal, Same, Removing
  <2>. QED BY <1>1, <1>6, <2>2, <2>3, <2>4, <2>5, FramesKept
<1>. QED BY <1>7, <1>8

LEMMA RefuseLock ==
  ASSUME Careful, TypeOK, LockInv, NEW p \in Proc, Refuse(p)
  PROVE  LockInv'
<1> USE LockAssumption DEF LockInv
<1>1. DepthInv'
  BY NextTypes DEF Next, Step
<1>2. depth[p] = 0 /\ env[p] = NoLine
  BY DEF Refuse, Frames, Frame
<1>3. /\ StepOf(p) /\ file' = file /\ pc'[p] = "off" /\ cmd'[p] = "none"
      /\ env'[p] = NoLine /\ depth'[p] = 0 /\ took'[p] = {} /\ parent'[p] = NoProc
  BY <1>2 DEF Refuse, Exit, Goto, TypeOK, StepOf, Same
<1>4. KeepsLine(p)
  BY <1>3 DEF KeepsLine
<1>5. Frames'
  <2>1. Frame(p)'
    BY <1>3 DEF Frame, Removing
  <2>. QED BY <1>3, <2>1, FramesKept DEF StepOf
<1>6. FileOwner'
  BY <1>3, <1>4, FileOwnerKept
<1>7. Family'
  <2>1. \A c \in Proc : parent'[c] # p
    BY <1>3 DEF Family, Refuse, StepOf, Same
  <2>. QED BY <1>3, <1>4, <2>1, FamilyKept
<1>8. Removal'
  BY <1>3, <1>4, RemovalKept DEF Removing
<1>. QED BY <1>1, <1>5, <1>6, <1>7, <1>8

\* Entering a nested block and ending one change only where the process is.
LEMMA WorkLock ==
  ASSUME Careful, TypeOK, LockInv, NEW p \in Proc, Nest(p) \/ Finish(p)
  PROVE  LockInv'
<1> USE LockAssumption DEF LockInv
<1>1. DepthInv'
  BY NextTypes DEF Next, Step
<1>2. /\ StepOf(p) /\ KeepsLine(p) /\ file' = file /\ took' = took /\ parent' = parent
      /\ pc'[p] \in {"check", "leave"} /\ (pc'[p] = "check" => cmd[p] = "command")
      /\ cmd' = cmd /\ who' = who /\ env' = env /\ depth' = depth /\ pc[p] = "work"
  BY DEF Nest, Finish, Goto, TypeOK, StepOf, Same, KeepsLine
<1>3. Frames'
  <2>1. Frame(p)'
    BY <1>2 DEF Frames, Frame
  <2>. QED BY <1>2, <2>1, FramesKept DEF StepOf
<1>4. FileOwner'
  BY <1>2, FileOwnerKept
<1>5. Family'
  <2>1. \A c \in Proc : parent[c] # p
    BY <1>2 DEF Family, Nest, Finish, TypeOK
  <2>. QED BY <1>2, <2>1, FamilyKept
<1>6. Removal'
  BY <1>2, RemovalKept
<1>. QED BY <1>1, <1>3, <1>4, <1>5, <1>6

LEMMA LeaveLock ==
  ASSUME Careful, TypeOK, LockInv, NEW p \in Proc, Leave(p)
  PROVE  LockInv'
<1> USE LockAssumption DEF LockInv
<1>1. DepthInv'
  BY NextTypes DEF Next, Step
<1>2. /\ pc[p] = "leave" /\ depth[p] \in Nat /\ depth[p] > 0
      /\ cmd[p] \in {"command", "run"} /\ took[p] \subseteq {1}
  BY DepthNat DEF Leave, DepthInv, Frames, Frame
<1>3. env[p] # NoLine /\ Ours(p)
  BY <1>2 DEF Frames, Frame, FileOwner, Ours
<1>4. \A c \in Proc : parent[c] # p
  BY <1>2 DEF Family
<1>5. CASE depth[p] \in took[p]
  <2>1. /\ StepOf(p) /\ KeepsLine(p) /\ file' = file /\ took' = took /\ parent' = parent
        /\ pc'[p] = "unlink" /\ depth[p] = 1
        /\ cmd' = cmd /\ who' = who /\ env' = env /\ depth' = depth
    BY <1>2, <1>3, <1>5 DEF Leave, Goto, TypeOK, StepOf, Same, KeepsLine
  <2>2. Frame(p)'
    BY <1>2, <1>3, <1>5, <2>1 DEF Frames, Frame, Removing
  <2>3. Frames' /\ FileOwner'
    BY <2>1, <2>2, FramesKept, FileOwnerKept DEF StepOf
  <2>4. Family' /\ Removal'
    BY <1>4, <2>1, FamilyKept, RemovalKept
  <2>. QED BY <1>1, <2>3, <2>4
<1>6. CASE depth[p] \notin took[p] /\ depth[p] = 1
  <2>1. /\ StepOf(p) /\ file' = file /\ pc'[p] = "off" /\ cmd'[p] = "none"
        /\ env'[p] = NoLine /\ depth'[p] = 0 /\ took'[p] = {} /\ parent'[p] = NoProc
    BY <1>6 DEF Leave, Left, Exit, Goto, TypeOK, StepOf, Same
  <2>2. KeepsLine(p) /\ Frame(p)' /\ \A c \in Proc : parent'[c] # p
    BY <1>4, <2>1 DEF KeepsLine, Frame, Removing, StepOf, Same
  <2>3. Frames' /\ FileOwner'
    BY <2>1, <2>2, FramesKept, FileOwnerKept DEF StepOf
  <2>4. Family' /\ Removal'
    BY <2>1, <2>2, FamilyKept, RemovalKept DEF Removing
  <2>. QED BY <1>1, <2>3, <2>4
<1>7. CASE depth[p] \notin took[p] /\ depth[p] # 1
  <2>1. /\ StepOf(p) /\ KeepsLine(p) /\ file' = file /\ pc'[p] = "work" /\ cmd' = cmd
        /\ env'[p] = env[p] /\ depth'[p] = depth[p] - 1 /\ took'[p] = took[p]
        /\ parent' = parent /\ who' = who
    <3>1. /\ pc' = [pc EXCEPT ![p] = "work"]
          /\ depth' = [depth EXCEPT ![p] = depth[p] - 1]
          /\ took' = [took EXCEPT ![p] = took[p] \ {depth[p]}]
          /\ env' = [env EXCEPT ![p] = env[p]]
          /\ UNCHANGED <<file, cmd, who, hold, parent, hand>>
      BY <1>7 DEF Leave, Left, Goto
    <3>2. took[p] \ {depth[p]} = took[p]
      BY <1>7
    <3>3. /\ pc'[p] = "work" /\ depth'[p] = depth[p] - 1 /\ took'[p] = took[p]
          /\ env'[p] = env[p]
      BY <3>1, <3>2 DEF TypeOK
    <3>4. \A q \in Proc : q # p => Same(q)
      BY <3>1 DEF TypeOK, Same
    <3>. QED BY <3>1, <3>3, <3>4 DEF StepOf, KeepsLine
  <2>2. Frame(p)'
    BY <1>2, <1>3, <1>7, <2>1 DEF Frames, Frame, Removing
  <2>3. Frames' /\ FileOwner'
    BY <2>1, <2>2, FramesKept, FileOwnerKept DEF StepOf
  <2>4. Family' /\ Removal'
    BY <1>4, <2>1, FamilyKept, RemovalKept
  <2>. QED BY <1>1, <2>3, <2>4
<1>. QED BY <1>5, <1>6, <1>7

\* Whoever unlinks the file is the last one under its line.
LEMMA UnlinkLock ==
  ASSUME Careful, TypeOK, LockInv, NEW p \in Proc, Unlink(p)
  PROVE  LockInv'
<1> USE LockAssumption DEF LockInv
<1>1. DepthInv'
  BY NextTypes DEF Next, Step
<1>2. depth[p] = 1 /\ took[p] # {} /\ env[p] # NoLine /\ file.line = env[p] /\ pc[p] = "unlink"
  BY DEF Unlink, Frames, Frame, FileOwner
<1>3. /\ StepOf(p) /\ file' = NoFile /\ pc'[p] = "off" /\ cmd'[p] = "none"
      /\ env'[p] = NoLine /\ depth'[p] = 0 /\ took'[p] = {} /\ parent'[p] = NoProc
  BY <1>2 DEF Unlink, Left, Exit, Goto, TypeOK, StepOf, Same
<1>4. \A c \in Proc : parent[c] # p
  BY <1>2 DEF Family
<1>5. \A q \in Proc : q # p => env[q] = NoLine
  BY <1>2, <1>4 DEF Family
<1>6. \A w \in Who : hand[w] = NoLine
  BY <1>2 DEF FileOwner
<1>7. \A q \in Proc : pc[q] \notin {"write", "prompt", "remove"}
  <2>1. file.line # NoLine /\ Carried(file.line)
    BY <1>2 DEF Carried
  <2>2. \A q \in Proc : pc[q] # "write"
    BY <2>1 DEF FileOwner
  <2>3. \A q \in Proc : pc[q] \in {"prompt", "remove"} => cmd[q] = "break"
    BY <1>6 DEF Removal, Frames, Frame, Removing
  <2>. QED BY <2>1, <2>2, <2>3 DEF Removal
<1>8. Frames'
  <2>1. Frame(p)'
    BY <1>3 DEF Frame, Removing
  <2>. QED BY <1>3, <2>1, FramesKept DEF StepOf
<1>9. FileOwner'
  BY <1>3, <1>5, <1>6, <1>7 DEF FileOwner, StepOf, Same
<1>10. Family'
  <2>1. \A c \in Proc : parent'[c] # p
    BY <1>3, <1>4 DEF StepOf, Same, TypeOK
  <2>2. KeepsLine(p)
    BY <1>3 DEF KeepsLine
  <2>. QED BY <1>3, <2>1, <2>2, FamilyKept
<1>11. Removal'
  BY <1>3, <1>7 DEF Removal, StepOf, Same, Removing
<1>. QED BY <1>1, <1>8, <1>9, <1>10, <1>11

-----------------------------------------------------------------------------
(* Removing a hold by hand. *)

\* A removing process, or one not started yet, has neither line nor children.
LEMMA Outside ==
  ASSUME TypeOK, LockInv, NEW p \in Proc,
         pc[p] \in {"off", "read", "prompt", "remove"}
  PROVE  /\ env[p] = NoLine /\ depth[p] = 0 /\ took[p] = {} /\ parent[p] = NoProc
         /\ \A c \in Proc : parent[c] # p
<1>1. env[p] = NoLine /\ depth[p] = 0 /\ parent[p] = NoProc /\ took[p] = {}
  BY DepthNat DEF LockInv, Frames, Frame
<1>2. \A c \in Proc : parent[c] # p
  BY LockAssumption DEF LockInv, Family
<1>. QED BY <1>1, <1>2

\* Ending such a process changes nothing that the others rely on.
LEMMA OutsideExit ==
  ASSUME Careful, TypeOK, LockInv, NEW p \in Proc,
         pc[p] \in {"off", "read", "prompt", "remove"},
         Exit(p), parent' = parent, who' = who
  PROVE  /\ \A q \in Proc : q # p => Same(q)
         /\ pc'[p] = "off" /\ cmd'[p] = "none" /\ env'[p] = NoLine /\ depth'[p] = 0
         /\ took'[p] = {} /\ parent'[p] = NoProc
         /\ Frames' /\ Family' /\ DepthInv'
<1>1. /\ \A q \in Proc : q # p => Same(q)
      /\ pc'[p] = "off" /\ cmd'[p] = "none" /\ env'[p] = NoLine /\ depth'[p] = 0
      /\ took'[p] = {} /\ parent'[p] = NoProc
  BY Outside DEF Exit, Goto, TypeOK, Same
<1>2. Frame(p)'
  BY <1>1 DEF Frame, Removing
<1>3. Frames'
  BY <1>1, <1>2, FramesKept DEF LockInv
<1>4. Family'
  BY <1>1, Outside DEF LockInv, Family, Same, TypeOK
<1>5. DepthInv'
  BY ExitTypes DEF LockInv
<1>. QED BY <1>1, <1>3, <1>4, <1>5

LEMMA ReadReleaseLock ==
  ASSUME Careful, TypeOK, LockInv, NEW p \in Proc, ReadRelease(p)
  PROVE  LockInv'
<1>1. DepthInv'
  BY NextTypes DEF Next, Step, LockInv
<1>2. CASE file # NoFile /\ file.line.who = who[p]
  <2>1. /\ StepOf(p) /\ KeepsLine(p) /\ file' = file /\ hold'[p] = file /\ pc'[p] = "remove"
        /\ cmd' = cmd /\ who' = who /\ env' = env /\ depth' = depth /\ took' = took
        /\ parent' = parent /\ hand' = hand /\ pc[p] = "read" /\ cmd[p] = "release"
    BY <1>2 DEF ReadRelease, Goto, TypeOK, StepOf, Same, KeepsLine
  <2>2. Frame(p)'
    BY <2>1 DEF LockInv, Frames, Frame, Removing
  <2>3. Frames' /\ FileOwner'
    BY <2>1, <2>2, FramesKept, FileOwnerKept DEF StepOf, LockInv
  <2>4. Family'
    BY <2>1, Outside, FamilyKept DEF LockInv
  <2>5. Removal'
    <3>1. \A q \in Proc : q # p => cmd'[q] \notin Removing
      BY <2>1 DEF LockInv, Removal, Removing
    <3>2. \A q \in Proc : q # p => pc'[q] \notin {"prompt", "remove"}
      BY <2>3, <3>1 DEF Frames, Frame
    <3>3. who'[p] \in Who /\ hand'[who'[p]] # NoLine
      BY <2>1 DEF LockInv, Removal
    <3>. QED BY <1>2, <2>1, <3>1, <3>2, <3>3 DEF Removal, Removing
  <2>. QED BY <1>1, <2>3, <2>4, <2>5 DEF LockInv
<1>3. CASE ~(file # NoFile /\ file.line.who = who[p])
  <2>1. /\ Exit(p) /\ parent' = parent /\ who' = who /\ file' = file
        /\ hand' = [hand EXCEPT ![who[p]] = NoLine] /\ pc[p] = "read" /\ cmd[p] = "release"
    BY <1>3 DEF ReadRelease
  <2>2. /\ \A q \in Proc : q # p => Same(q)
        /\ pc'[p] = "off" /\ cmd'[p] = "none" /\ env'[p] = NoLine
        /\ Frames' /\ Family'
    BY <2>1, OutsideExit
  <2>3. FileOwner'
    BY <2>1, <2>2 DEF LockInv, FileOwner, Same, TypeOK
  <2>4. \A q \in Proc : cmd'[q] \notin Removing /\ pc'[q] \notin {"prompt", "remove"}
    <3>1. \A q \in Proc : q # p => cmd[q] \notin Removing
      BY <2>1 DEF LockInv, Removal, Removing
    <3>2. \A q \in Proc : cmd'[q] \notin Removing
      BY <2>2, <3>1 DEF Same, Removing
    <3>. QED BY <2>2, <3>2 DEF Frames, Frame
  <2>5. Removal'
    BY <2>4 DEF Removal, Removing
  <2>. QED BY <1>1, <2>2, <2>3, <2>5 DEF LockInv
<1>. QED BY <1>2, <1>3

LEMMA ReadBreakLock ==
  ASSUME Careful, TypeOK, LockInv, NEW p \in Proc, ReadBreak(p)
  PROVE  LockInv'
<1>1. DepthInv'
  BY NextTypes DEF Next, Step, LockInv
<1>2. pc[p] = "read" /\ cmd[p] = "break" /\ Coordinated
  BY DEF ReadBreak, Careful
<1>3. \A q \in Proc : q # p => cmd[q] \notin Removing
  BY <1>2 DEF LockInv, Removal, Removing
<1>4. CASE file # NoFile /\ Gone(file)
  <2>1. /\ StepOf(p) /\ KeepsLine(p) /\ file' = file /\ hold'[p] = file /\ pc'[p] = "prompt"
        /\ cmd' = cmd /\ who' = who /\ env' = env /\ depth' = depth /\ took' = took
        /\ parent' = parent /\ hand' = hand
    BY <1>2, <1>4 DEF ReadBreak, Goto, TypeOK, StepOf, Same, KeepsLine
  <2>2. Frame(p)'
    BY <1>2, <2>1 DEF LockInv, Frames, Frame, Removing
  <2>3. Frames' /\ FileOwner'
    BY <2>1, <2>2, FramesKept, FileOwnerKept DEF StepOf, LockInv
  <2>4. Family'
    BY <1>2, <2>1, Outside, FamilyKept DEF LockInv
  <2>5. Removal'
    <3>1. \A q \in Proc : q # p => pc'[q] \notin {"prompt", "remove"} /\ cmd'[q] \notin Removing
      BY <1>3, <2>1, <2>3 DEF Frames, Frame
    <3>2. IF file'.line = NoLine THEN pc'[file'.by] # "write" ELSE ~Carried(file.line)'
      <4>1. CASE file.line = NoLine
        <5>1. file.by \in Proc /\ pc[file.by] = "off"
          BY <1>4, <4>1 DEF TypeOK, File, Gone
        <5>2. pc'[file.by] # "write"
          BY <2>1, <5>1 DEF StepOf, Same
        <5>. QED BY <2>1, <4>1, <5>2
      <4>2. CASE file.line # NoLine
        BY <1>4, <2>1, <4>2 DEF Gone, Carried
      <4>. QED BY <4>1, <4>2
    <3>. QED BY <1>2, <1>4, <2>1, <3>1, <3>2 DEF Removal, Removing
  <2>. QED BY <1>1, <2>3, <2>4, <2>5 DEF LockInv
<1>5. CASE ~(file # NoFile /\ Gone(file))
  <2>1. Exit(p) /\ parent' = parent /\ who' = who /\ file' = file /\ hand' = hand
    BY <1>2, <1>5 DEF ReadBreak
  <2>2. /\ \A q \in Proc : q # p => Same(q)
        /\ pc'[p] = "off" /\ cmd'[p] = "none" /\ env'[p] = NoLine
        /\ Frames' /\ Family'
    BY <1>2, <2>1, OutsideExit
  <2>3. StepOf(p) /\ KeepsLine(p)
    BY <2>1, <2>2 DEF StepOf, KeepsLine
  <2>4. FileOwner' /\ Removal'
    BY <2>1, <2>2, <2>3, FileOwnerKept, RemovalKept DEF LockInv, Removing
  <2>. QED BY <1>1, <2>2, <2>4 DEF LockInv
<1>. QED BY <1>4, <1>5

LEMMA PromptLock ==
  ASSUME Careful, TypeOK, LockInv, NEW p \in Proc, Confirm(p) \/ Decline(p)
  PROVE  LockInv'
<1>1. DepthInv'
  BY NextTypes DEF Next, Step, LockInv
<1>2. CASE Confirm(p)
  <2>1. /\ StepOf(p) /\ KeepsLine(p) /\ file' = file /\ pc[p] = "prompt" /\ pc'[p] = "remove"
        /\ cmd' = cmd /\ who' = who /\ env' = env /\ depth' = depth /\ took' = took
        /\ parent' = parent /\ hand' = hand /\ hold' = hold
    BY <1>2 DEF Confirm, Goto, TypeOK, StepOf, Same, KeepsLine
  <2>2. Frame(p)'
    BY <2>1 DEF LockInv, Frames, Frame, Removing
  <2>3. Frames' /\ FileOwner'
    BY <2>1, <2>2, FramesKept, FileOwnerKept DEF StepOf, LockInv
  <2>4. Family'
    BY <2>1, Outside, FamilyKept DEF LockInv
  <2>5. Removal'
    <3>1. \A q \in Proc : pc'[q] \in {"prompt", "remove"} => pc[q] \in {"prompt", "remove"}
      BY <2>1 DEF StepOf, Same
    <3>2. \A q \in Proc : pc'[q] = "write" => pc[q] = "write"
      BY <2>1 DEF StepOf, Same
    <3>3. file.line = NoLine /\ file # NoFile => file.by \in Proc
      BY DEF TypeOK, File
    <3>. QED BY <2>1, <3>1, <3>2, <3>3 DEF LockInv, Removal, Carried
  <2>. QED BY <1>1, <2>3, <2>4, <2>5 DEF LockInv
<1>3. CASE Decline(p)
  <2>1. /\ Exit(p) /\ parent' = parent /\ who' = who /\ file' = file /\ hand' = hand
        /\ pc[p] = "prompt"
    BY <1>3 DEF Decline
  <2>2. /\ \A q \in Proc : q # p => Same(q)
        /\ pc'[p] = "off" /\ cmd'[p] = "none" /\ env'[p] = NoLine
        /\ Frames' /\ Family'
    BY <2>1, OutsideExit
  <2>3. StepOf(p) /\ KeepsLine(p)
    BY <2>1, <2>2 DEF StepOf, KeepsLine
  <2>4. FileOwner' /\ Removal'
    BY <2>1, <2>2, <2>3, FileOwnerKept, RemovalKept DEF LockInv, Removing
  <2>. QED BY <1>1, <2>2, <2>4 DEF LockInv
<1>. QED BY <1>2, <1>3

\* What is removed protects nobody: a dead hold, or the person's own.
LEMMA RemoveLock ==
  ASSUME Careful, TypeOK, LockInv, NEW p \in Proc, Remove(p)
  PROVE  LockInv'
<1>1. /\ pc[p] = "remove" /\ Exit(p) /\ parent' = parent /\ who' = who /\ file' = NoFile
      /\ hand' = IF cmd[p] = "release" THEN [hand EXCEPT ![who[p]] = NoLine] ELSE hand
  BY DEF Remove
<1>2. /\ \A q \in Proc : q # p => Same(q)
      /\ pc'[p] = "off" /\ cmd'[p] = "none" /\ env'[p] = NoLine
      /\ Frames' /\ Family' /\ DepthInv'
  BY <1>1, OutsideExit
<1>3. cmd[p] \in Removing /\ \A q \in Proc : q # p => cmd[q] \notin Removing
  BY <1>1 DEF LockInv, Frames, Frame, Removal
<1>4. /\ \A q \in Proc : env[q] = NoLine /\ pc[q] # "write"
      /\ \A w \in Who : hand'[w] = NoLine
  <2>1. CASE cmd[p] = "release"
    <3>1. who[p] \in Who /\ hand[who[p]] # NoLine
      BY <2>1 DEF LockInv, Removal
    <3>2. /\ file.line # NoLine /\ \A q \in Proc : env[q] = NoLine
          /\ \A v \in Who : hand[v] # NoLine => v = who[p]
      BY <3>1 DEF LockInv, FileOwner
    <3>3. \A w \in Who : hand'[w] = NoLine
      BY <1>1, <2>1, <3>2 DEF TypeOK
    <3>. QED BY <3>2, <3>3 DEF LockInv, FileOwner
  <2>2. CASE cmd[p] = "break"
    <3>1. IF file.line = NoLine THEN pc[file.by] # "write" ELSE ~Carried(file.line)
      BY <1>1, <2>2 DEF LockInv, Removal
    <3>2. \A q \in Proc : env[q] = NoLine
      BY <3>1 DEF LockInv, FileOwner, Carried
    <3>3. \A w \in Who : hand[w] = NoLine
      BY <3>1 DEF LockInv, FileOwner, Carried
    <3>4. \A q \in Proc : pc[q] # "write"
      BY <3>1 DEF LockInv, FileOwner
    <3>. QED BY <1>1, <2>2, <3>2, <3>3, <3>4
  <2>. QED BY <1>3, <2>1, <2>2 DEF Removing
<1>5. FileOwner'
  BY <1>2, <1>4 DEF LockInv, FileOwner, Same
<1>6. Removal'
  <2>1. \A q \in Proc : cmd'[q] \notin Removing
    BY <1>2, <1>3 DEF Same, Removing
  <2>2. \A q \in Proc : pc'[q] \notin {"prompt", "remove"}
    BY <1>2, <2>1 DEF Frames, Frame
  <2>. QED BY <2>1, <2>2 DEF Removal, Removing
<1>. QED BY <1>2, <1>5, <1>6 DEF LockInv

-----------------------------------------------------------------------------
(* Kills, the clock and new commands. *)

LEMMA KillLock ==
  ASSUME Careful, TypeOK, LockInv, NEW p \in Proc, Kill(p)
  PROVE  LockInv'
<1> USE LockAssumption
<1>1. DepthInv'
  BY NextTypes DEF Next, LockInv
<1>2. /\ pc'[p] = "off" /\ cmd'[p] = "none" /\ env'[p] = NoLine /\ depth'[p] = 0
      /\ took'[p] = {} /\ parent'[p] = NoProc
      /\ file' = file /\ who' = who /\ hand' = hand
  BY DEF Kill, Exit, Goto, TypeOK
<1>3. \A q \in Proc : q # p =>
        /\ pc'[q] = pc[q] /\ cmd'[q] = cmd[q] /\ env'[q] = env[q] /\ depth'[q] = depth[q]
        /\ took'[q] = took[q] /\ hold'[q] = hold[q]
        /\ parent'[q] = IF parent[q] = p THEN NoProc ELSE parent[q]
  BY DEF Kill, Exit, Goto, TypeOK
<1>4. Frames'
  <2>1. Frame(p)'
    BY <1>2 DEF Frame, Removing
  <2>2. ASSUME NEW q \in Proc, q # p PROVE Frame(q)'
    BY <1>2, <1>3, <2>2 DEF LockInv, Frames, Frame
  <2>. QED BY <2>1, <2>2 DEF Frames
<1>5. FileOwner'
  BY <1>2, <1>3 DEF LockInv, FileOwner
<1>6. Family'
  <2>1. \A q \in Proc : took'[q] # {} => q # p /\ took[q] # {}
    BY <1>2, <1>3
  <2>2. \A c, q \in Proc : took'[c] # {} /\ took'[q] # {} => c = q
    BY <2>1 DEF LockInv, Family
  <2>3. ASSUME NEW c \in Proc, parent'[c] # NoProc
        PROVE  cmd'[parent'[c]] = "run" /\ pc'[parent'[c]] = "work"
    <3>1. c # p /\ parent'[c] = parent[c] /\ parent[c] # p
      BY <1>2, <1>3, <2>3
    <3>2. parent[c] \in Proc /\ cmd[parent[c]] = "run" /\ pc[parent[c]] = "work"
      BY <2>3, <3>1 DEF LockInv, Family, TypeOK
    <3>. QED BY <1>3, <3>1, <3>2
  <2>4. ASSUME NEW c \in Proc, NEW q \in Proc,
               env'[c] # NoLine, took'[c] = {}, took'[q] # {}
        PROVE  parent'[c] = q
    <3>1. c # p /\ q # p /\ parent[c] = q
      BY <1>2, <1>3, <2>1, <2>4 DEF LockInv, Family
    <3>. QED BY <1>3, <3>1
  <2>. QED BY <2>2, <2>3, <2>4 DEF Family
<1>7. Removal'
  <2>1. \A q \in Proc : cmd'[q] \in Removing => q # p /\ cmd[q] = cmd'[q]
    BY <1>2, <1>3 DEF Removing
  <2>2. \A q \in Proc : pc'[q] \in {"prompt", "remove"} =>
          q # p /\ pc[q] = pc'[q] /\ hold'[q] = hold[q] /\ cmd'[q] = cmd[q]
    BY <1>2, <1>3
  <2>3. file # NoFile => file.by \in Proc
    BY DEF TypeOK, File
  <2>4. \A q \in Proc : pc'[q] = "write" => pc[q] = "write"
    BY <1>2, <1>3
  <2>5. \A l : l # NoLine /\ ~Carried(l) => ~Carried(l)'
    BY <1>2, <1>3 DEF Carried
  <2>6. /\ \A q, r \in Proc : cmd'[q] \in Removing /\ cmd'[r] \in Removing => q = r
        /\ \A q \in Proc : cmd'[q] = "release" => who'[q] \in Who /\ hand'[who'[q]] # NoLine
    BY <1>2, <2>1 DEF LockInv, Removal, Removing
  <2>7. \A q \in Proc : pc'[q] \in {"prompt", "remove"} => hold'[q] = file' /\ file' # NoFile
    BY <1>2, <2>2 DEF LockInv, Removal
  <2>8. ASSUME NEW q \in Proc, pc'[q] \in {"prompt", "remove"}, cmd'[q] = "break"
        PROVE  IF file'.line = NoLine THEN pc'[file'.by] # "write" ELSE ~Carried(file.line)'
    <3>1. file # NoFile /\ IF file.line = NoLine THEN pc[file.by] # "write" ELSE ~Carried(file.line)
      BY <2>2, <2>8 DEF LockInv, Removal
    <3>. QED BY <1>2, <2>3, <2>4, <2>5, <3>1
  <2>. QED BY <2>6, <2>7, <2>8 DEF Removal
<1>. QED BY <1>1, <1>4, <1>5, <1>6, <1>7 DEF LockInv

\* A new command brings no line of its own; a child the one of its parent.
LEMMA LaunchLock ==
  ASSUME Careful, TypeOK, LockInv, NEW p \in Proc, NEW c \in Locking \cup Removing,
         NEW w \in Who \cup {Holder}, NEW l \in Line \cup {NoLine},
         NEW q \in Proc \cup {NoProc}, Launch(p, c, w, l, q),
         c # "command" => l = NoLine /\ q = NoProc /\ w \in Who,
         q = NoProc => l = NoLine,
         q # NoProc => /\ l = env[q] /\ cmd[q] = "run" /\ pc[q] = "work",
         c \in Removing => \A r \in Proc : cmd[r] \notin Removing,
         c = "release" => hand[w] # NoLine
  PROVE  LockInv'
<1> USE LockAssumption
<1>1. DepthInv'
  BY LaunchTypes DEF LockInv
<1>2. /\ pc[p] = "off" /\ pc'[p] = IF c \in Locking THEN "check" ELSE "read"
      /\ cmd'[p] = c /\ who'[p] = w /\ env'[p] = l /\ parent'[p] = q
      /\ UNCHANGED <<file, depth, took, hold, hand>>
  BY DEF Launch, Goto, TypeOK
<1>3. \A r \in Proc : r # p => Same(r)
  BY DEF Launch, Goto, TypeOK, Same
<1>4. depth[p] = 0 /\ took[p] = {} /\ \A r \in Proc : parent[r] # p
  BY <1>2, Outside
<1>5. Frames'
  <2>1. Frame(p)'
    BY <1>2, <1>4 DEF Frame, Locking, Removing
  <2>. QED BY <1>3, <2>1, FramesKept DEF LockInv
<1>6. FileOwner'
  <2>1. env'[p] # NoLine => file # NoFile /\ file.line = env'[p]
    BY <1>2 DEF LockInv, FileOwner
  <2>2. \A v \in Who : hand[v] # NoLine => env'[p] = NoLine
    BY <1>2 DEF LockInv, FileOwner
  <2>. QED BY <1>2, <1>3, <2>1, <2>2 DEF LockInv, FileOwner, Same
<1>7. Family'
  <2>1. \A r \in Proc : took'[r] = took[r] /\ (took[r] # {} => r # p)
    BY <1>2, <1>4
  <2>2. ASSUME NEW r \in Proc, parent'[r] # NoProc
        PROVE  cmd'[parent'[r]] = "run" /\ pc'[parent'[r]] = "work"
    <3>1. CASE r = p
      BY <1>2, <1>3, <2>2, <3>1 DEF Same
    <3>2. CASE r # p
      <4>1. parent'[r] = parent[r] /\ parent[r] # p
        BY <1>3, <1>4, <3>2 DEF Same
      <4>2. parent[r] \in Proc /\ cmd[parent[r]] = "run" /\ pc[parent[r]] = "work"
        BY <2>2, <4>1 DEF LockInv, Family, TypeOK
      <4>. QED BY <1>3, <4>1, <4>2 DEF Same
    <3>. QED BY <3>1, <3>2
  <2>3. ASSUME NEW r \in Proc, NEW s \in Proc,
               env'[r] # NoLine, took'[r] = {}, took'[s] # {}
        PROVE  parent'[r] = s
    <3>1. CASE r = p
      <4>1. q \in Proc /\ env[q] # NoLine /\ pc[q] = "work" /\ cmd[q] = "run"
        <5>1. q # NoProc
          BY <1>2, <2>3, <3>1
        <5>. QED BY <1>2, <2>3, <3>1, <5>1
      <4>2. parent[q] = NoProc
        BY <4>1 DEF LockInv, Frames, Frame
      <4>3. took[q] # {} => q = s
        BY <2>1, <2>3, <4>1 DEF LockInv, Family
      <4>4. took[q] = {} => parent[q] = s
        BY <2>1, <2>3, <4>1 DEF LockInv, Family
      <4>5. s # NoProc
        OBVIOUS
      <4>. QED BY <1>2, <3>1, <4>2, <4>3, <4>4, <4>5
    <3>2. CASE r # p
      BY <1>3, <2>1, <2>3, <3>2 DEF LockInv, Family, Same
    <3>. QED BY <3>1, <3>2
  <2>. QED BY <2>1, <2>2, <2>3 DEF LockInv, Family
<1>8. Removal'
  <2>1. \A r \in Proc : pc'[r] \in {"prompt", "remove"} =>
          r # p /\ Same(r)
    BY <1>2, <1>3 DEF Locking
  <2>2. file # NoFile => file.by \in Proc
    BY DEF TypeOK, File
  <2>3. \A r \in Proc : pc'[r] = "write" => pc[r] = "write"
    BY <1>2, <1>3 DEF Same
  <2>4. \A m : m # NoLine /\ ~Carried(m) => ~Carried(m)'
    BY <1>2, <1>3 DEF Carried, Same
  <2>5. \A r, t \in Proc : cmd'[r] \in Removing /\ cmd'[t] \in Removing => r = t
    BY <1>2, <1>3 DEF LockInv, Removal, Same
  <2>6. \A r \in Proc : cmd'[r] = "release" => who'[r] \in Who /\ hand'[who'[r]] # NoLine
    BY <1>2, <1>3 DEF LockInv, Removal, Same
  <2>7. \A r \in Proc : pc'[r] \in {"prompt", "remove"} => hold'[r] = file' /\ file' # NoFile
    BY <1>2, <2>1 DEF LockInv, Removal, Same
  <2>8. ASSUME NEW r \in Proc, pc'[r] \in {"prompt", "remove"}, cmd'[r] = "break"
        PROVE  IF file'.line = NoLine THEN pc'[file'.by] # "write" ELSE ~Carried(file.line)'
    <3>1. file # NoFile /\ IF file.line = NoLine THEN pc[file.by] # "write" ELSE ~Carried(file.line)
      BY <2>1, <2>8 DEF LockInv, Removal, Same
    <3>. QED BY <1>2, <2>2, <2>3, <2>4, <3>1
  <2>. QED BY <2>5, <2>6, <2>7, <2>8 DEF Removal
<1>. QED BY <1>1, <1>5, <1>6, <1>7, <1>8 DEF LockInv

-----------------------------------------------------------------------------

LEMMA InitLock == Init => LockInv
  BY LockAssumption
  DEF Init, LockInv, DepthInv, Frames, Frame, FileOwner, Family, Removal, Removing, NoFile

LEMMA NextLock == Careful /\ TypeOK /\ LockInv /\ [Next]_vars => LockInv'
<1> SUFFICES ASSUME Careful, TypeOK, LockInv, [Next]_vars
             PROVE  LockInv'
  OBVIOUS
<1> USE LockAssumption
<1>1. ASSUME NEW p \in Proc, Step(p) PROVE LockInv'
  BY <1>1, CheckLock, CreateLock, RefuseLock, WriteLock, WorkLock, LeaveLock, UnlinkLock,
     ReadReleaseLock, ReadBreakLock, RemoveLock DEF Step
<1>2. ASSUME NEW p \in Proc, Nest(p) \/ Confirm(p) \/ Decline(p) \/ Kill(p) PROVE LockInv'
  BY <1>2, WorkLock, PromptLock, KillLock
<1>3. ASSUME NEW p \in Proc, StartCommand(p) PROVE LockInv'
  BY <1>3, LaunchLock DEF StartCommand, Locking, Removing
<1>4. ASSUME NEW p \in Proc, NEW w \in Who,
             StartRun(p, w) \/ StartTake(p, w) \/ StartRelease(p, w) \/ StartBreak(p, w)
      PROVE  LockInv'
  <2>1. CASE StartRun(p, w)
    BY <2>1, LaunchLock DEF StartRun, Locking, Removing
  <2>2. CASE StartTake(p, w)
    BY <2>2, LaunchLock DEF StartTake, Locking, Removing
  <2>3. CASE StartRelease(p, w)
    BY <2>3, LaunchLock DEF StartRelease, MayRemove, Careful, Removing
  <2>4. CASE StartBreak(p, w)
    BY <2>4, LaunchLock DEF StartBreak, MayRemove, Careful, Removing
  <2>. QED BY <1>4, <2>1, <2>2, <2>3, <2>4
<1>5. ASSUME NEW p \in Proc, NEW q \in Proc, StartChild(q, p) PROVE LockInv'
  <2>1. env[q] \in Line \cup {NoLine}
    BY DEF TypeOK
  <2>. QED BY <1>5, <2>1, LaunchLock DEF StartChild, Locking, Removing
<1>6. CASE Tick \/ UNCHANGED vars
  BY <1>6
  DEF Tick, LockInv, DepthInv, Frames, Frame, FileOwner, Family, Removal, Carried
<1>. QED BY <1>1, <1>2, <1>3, <1>4, <1>5, <1>6 DEF Next

LEMMA LockInvHolds == Careful => (Spec => []LockInv)
<1> SUFFICES ASSUME Careful PROVE Spec => []LockInv
  OBVIOUS
<1>1. LockInv /\ TypeOK /\ [Next]_vars => LockInv'
  BY NextLock
<1>. QED BY <1>1, InitLock, TypeCorrect, PTL DEF Spec

\* "whoever changes it holds the lock file first": everybody who changes the
\* cluster does so under the line in the file, as long as people coordinate
\* what they remove by hand.
THEOREM ChangersHoldTheLock == Careful => (Spec => []HoldsTheLock)
<1> SUFFICES ASSUME Careful PROVE Spec => []HoldsTheLock
  OBVIOUS
<1>1. LockInv /\ TypeOK => HoldsTheLock
  BY DEF LockInv, HoldsTheLock, Frames, Frame, FileOwner, Changing, Ours
<1>. QED BY <1>1, LockInvHolds, TypeCorrect, PTL

\* Two that change the cluster at a time belong to one hold, however many
\* processes run, nest, start each other and are killed.
THEOREM MutuallyExclusive == Careful => (Spec => []MutualExclusion)
<1> SUFFICES ASSUME Careful PROVE Spec => []MutualExclusion
  OBVIOUS
<1>1. LockInv /\ TypeOK => MutualExclusion
  BY DepthNat DEF LockInv, MutualExclusion, Frames, Frame, FileOwner, Family, Changing
<1>. QED BY <1>1, LockInvHolds, TypeCorrect, PTL

\* No step removes or replaces the hold of somebody at work.
THEOREM LiveHoldsStay == Careful => (Spec => LiveHoldStays)
<1> SUFFICES ASSUME Careful PROVE Spec => LiveHoldStays
  OBVIOUS
<1> DEFINE Removed ==
      file # NoFile /\ file' # file /\ file.line # NoLine
        => \/ \E p \in Proc : env[p] = file.line /\ pc[p] = "unlink"
           \/ \E p \in Proc : pc[p] = "remove" /\ cmd[p] = "release" /\ hand[who[p]] = file.line
           \/ \E p \in Proc : pc[p] = "remove" /\ cmd[p] = "break" /\ ~Carried(file.line)
<1>1. LockInv /\ TypeOK /\ [Next]_vars => [Removed]_vars
  <2> SUFFICES ASSUME LockInv, TypeOK, Next, file # NoFile, file' # file, file.line # NoLine
               PROVE  Removed
    OBVIOUS
  <2>1. PICK p \in Proc : Create(p) \/ Write(p) \/ Unlink(p) \/ Remove(p)
    BY DEF Next, Step, Check, Refuse, Finish, Leave, ReadRelease, ReadBreak, Nest, Confirm,
           Decline, Kill, Tick, StartCommand, StartRun, StartTake, StartRelease, StartBreak,
           StartChild, Launch
  <2>2. ~Create(p)
    BY DEF Create
  <2>3. ~Write(p)
    BY DEF Write, LockInv, FileOwner
  <2>4. CASE Unlink(p)
    BY <2>4 DEF Unlink, LockInv, Frames, Frame, FileOwner
  <2>5. CASE Remove(p)
    <3>1. cmd[p] \in Removing /\ pc[p] = "remove"
      BY <2>5 DEF Remove, LockInv, Frames, Frame
    <3>2. CASE cmd[p] = "release"
      BY <3>1, <3>2 DEF LockInv, Removal, FileOwner
    <3>3. CASE cmd[p] = "break"
      BY <3>1, <3>3 DEF LockInv, Removal
    <3>. QED BY <3>1, <3>2, <3>3 DEF Removing
  <2>. QED BY <2>1, <2>2, <2>3, <2>4, <2>5
<1>. QED BY <1>1, LockInvHolds, TypeCorrect, PTL DEF Spec, LiveHoldStays

-----------------------------------------------------------------------------
(* A hold is left behind only by a kill. *)

\* A step of p that leaves file and hands alone keeps the file attended, unless p
\* attended it and stops to.
LEMMA AttendedKept ==
  ASSUME AttendedInv, NEW p \in Proc, StepOf(p), file' = file, kills' = kills,
         took[p] # {} => took'[p] # {},
         pc[p] # "write",
         cmd'[p] = "take" /\ pc'[p] \in {"create", "write"} => hold'[p].line.who = who'[p]
  PROVE  AttendedInv'
<1>1. Attended => Attended'
  <2>1. \A q \in Proc : pc[q] = "write" => pc'[q] = "write"
    BY DEF StepOf, Same
  <2>2. \A q \in Proc : took[q] # {} => took'[q] # {}
    BY DEF StepOf, Same
  <2>. QED BY <2>1, <2>2 DEF Attended, StepOf
<1>2. \A q \in Proc : cmd'[q] = "take" /\ pc'[q] \in {"create", "write"} =>
        hold'[q].line.who = who'[q]
  BY DEF AttendedInv, StepOf, Same
<1>. QED BY <1>1, <1>2 DEF AttendedInv, StepOf

\* A process that ends without a hold leaves the file to whoever attends it.
LEMMA AttendedExit ==
  ASSUME TypeOK, LockInv, AttendedInv, NEW p \in Proc, Exit(p),
         parent' = parent \/ parent' = [parent EXCEPT ![p] = NoProc],
         file' = file, hand' = hand, who' = who, kills' = kills,
         pc[p] # "write", took[p] = {}
  PROVE  AttendedInv'
<1>1. StepOf(p) /\ pc'[p] = "off"
  BY DEF Exit, Goto, TypeOK, StepOf, Same
<1>. QED BY <1>1, AttendedKept

LEMMA CheckAttended ==
  ASSUME TypeOK, LockInv, AttendedInv, NEW p \in Proc, Check(p)
  PROVE  AttendedInv'
<1>1. /\ StepOf(p) /\ file' = file /\ kills' = kills /\ took' = took /\ pc[p] # "write"
      /\ who' = who /\ cmd' = cmd
  BY DEF Check, Goto, TypeOK, StepOf, Same
<1>2. pc'[p] \in {"create", "write"} => hold'[p].line.who = who[p]
  BY DEF Check, Goto, TypeOK
<1>. QED BY <1>1, <1>2, AttendedKept

LEMMA CreateAttended ==
  ASSUME TypeOK, LockInv, AttendedInv, NEW p \in Proc, Create(p)
  PROVE  AttendedInv'
<1>1. /\ StepOf(p) /\ pc'[p] = "write" /\ pc[p] = "create" /\ file'.line = NoLine
      /\ hold' = hold /\ who' = who /\ cmd' = cmd
  BY DEF Create, Goto, TypeOK, StepOf, Same
<1>. QED BY <1>1 DEF AttendedInv, Attended, StepOf, Same

LEMMA WriteAttended ==
  ASSUME TypeOK, LockInv, AttendedInv, NEW p \in Proc, Write(p)
  PROVE  AttendedInv'
<1>1. /\ file = [by |-> p, line |-> NoLine] /\ file' = hold[p] /\ hold[p].line \in Line
      /\ pc[p] = "write" /\ who' = who /\ kills' = kills
  BY DEF Write, LockInv, FileOwner
<1>2. file'.line # NoLine
  BY <1>1, LockAssumption DEF Line, NoLine
<1>3. CASE cmd[p] = "take"
  <2>1. /\ hand' = [hand EXCEPT ![who[p]] = hold[p].line] /\ pc'[p] = "off"
        /\ \A q \in Proc : q # p => pc'[q] = pc[q] /\ cmd'[q] = cmd[q] /\ hold'[q] = hold[q]
    BY <1>3 DEF Write, Exit, Goto, TypeOK
  <2>2. hold[p].line.who = who[p] /\ who[p] \in Who
    BY <1>1, <1>3 DEF AttendedInv, LockInv, Frames, Frame
  <2>3. hand'[who[p]] = hold[p].line /\ hand'[who[p]] # NoLine
    BY <1>1, <1>2, <2>1, <2>2 DEF TypeOK
  <2>4. \A w \in Who : hand'[w] # NoLine => hand'[w].who = w
    BY <2>1, <2>2 DEF AttendedInv, TypeOK
  <2>5. \A q \in Proc : cmd'[q] = "take" /\ pc'[q] \in {"create", "write"} =>
          hold'[q].line.who = who'[q]
    BY <1>1, <2>1 DEF AttendedInv
  <2>6. Attended'
    BY <1>2, <2>2, <2>3 DEF Attended
  <2>. QED BY <2>4, <2>5, <2>6 DEF AttendedInv
<1>4. CASE cmd[p] # "take"
  <2>1. /\ hand' = hand /\ took'[p] # {} /\ pc'[p] = "work"
        /\ \A q \in Proc : q # p => pc'[q] = pc[q] /\ cmd'[q] = cmd[q] /\ hold'[q] = hold[q]
    BY <1>4 DEF Write, Goto, TypeOK
  <2>2. Attended'
    BY <1>2, <2>1 DEF Attended
  <2>3. \A q \in Proc : cmd'[q] = "take" /\ pc'[q] \in {"create", "write"} =>
          hold'[q].line.who = who'[q]
    BY <1>1, <2>1 DEF AttendedInv
  <2>. QED BY <2>1, <2>2, <2>3 DEF AttendedInv
<1>. QED BY <1>3, <1>4

\* A refused process has taken nothing: it gives up, in an outer block or not.
LEMMA RefuseAttended ==
  ASSUME TypeOK, LockInv, AttendedInv, NEW p \in Proc, Refuse(p)
  PROVE  AttendedInv'
<1>1. depth[p] = 0 /\ took[p] = {} /\ pc[p] = "create"
  BY DepthNat DEF Refuse, LockInv, Frames, Frame
<1>. QED BY <1>1, AttendedExit DEF Refuse

LEMMA WorkAttended ==
  ASSUME TypeOK, LockInv, AttendedInv, NEW p \in Proc,
         Nest(p) \/ Finish(p) \/ Confirm(p)
  PROVE  AttendedInv'
<1>1. /\ StepOf(p) /\ file' = file /\ kills' = kills /\ took' = took /\ pc[p] # "write"
      /\ pc'[p] \in {"check", "leave", "remove"}
  BY DEF Nest, Finish, Confirm, Goto, TypeOK, StepOf, Same
<1>. QED BY <1>1, AttendedKept

\* A block that took the lock never leaves without removing its file.
LEMMA LeaveAttended ==
  ASSUME TypeOK, LockInv, AttendedInv, NEW p \in Proc, Leave(p)
  PROVE  AttendedInv'
<1>1. pc[p] = "leave" /\ file' = file /\ hand' = hand /\ who' = who /\ kills' = kills
  BY DEF Leave
<1>2. CASE depth[p] \in took[p] /\ Ours(p)
  BY <1>1, <1>2, AttendedKept DEF Leave, Goto, TypeOK, StepOf, Same
<1>3. CASE ~(depth[p] \in took[p] /\ Ours(p)) /\ depth[p] = 1
  <2>1. Exit(p) /\ parent' = [parent EXCEPT ![p] = NoProc]
    BY <1>3 DEF Leave, Left
  <2>2. Ours(p)
    BY <1>3 DEF LockInv, Frames, Frame, FileOwner, Ours
  <2>3. took[p] = {}
    BY <1>3, <2>2 DEF LockInv, Frames, Frame
  <2>. QED BY <1>1, <2>1, <2>3, AttendedExit
<1>4. CASE ~(depth[p] \in took[p] /\ Ours(p)) /\ depth[p] # 1
  <2>1. /\ StepOf(p) /\ pc'[p] = "work" /\ took'[p] = took[p] \ {depth[p]}
    BY <1>1, <1>4 DEF Leave, Left, Goto, TypeOK, StepOf, Same
  <2>2. took[p] \subseteq {1}
    BY DEF LockInv, Frames, Frame
  <2>. QED BY <1>1, <1>4, <2>1, <2>2, AttendedKept
<1>. QED BY <1>2, <1>3, <1>4

\* Without a file there is nothing to attend.
LEMMA NobodysAttended ==
  ASSUME AttendedInv, file' = NoFile, who' = who,
         \A w \in Who : hand'[w] \in {hand[w], NoLine},
         \A q \in Proc : pc'[q] \in {"create", "write"} =>
           pc'[q] = pc[q] /\ cmd'[q] = cmd[q] /\ hold'[q] = hold[q]
  PROVE  AttendedInv'
  BY DEF AttendedInv

LEMMA UnlinkAttended ==
  ASSUME TypeOK, LockInv, AttendedInv, NEW p \in Proc, Unlink(p)
  PROVE  AttendedInv'
  BY NobodysAttended DEF Unlink, Left, Exit, Goto, TypeOK

LEMMA RemoveAttended ==
  ASSUME TypeOK, LockInv, AttendedInv, NEW p \in Proc, Remove(p)
  PROVE  AttendedInv'
  BY NobodysAttended DEF Remove, Exit, Goto, TypeOK

\* release finds the hold of its person: it never forgets one that is in the file.
LEMMA ReadReleaseAttended ==
  ASSUME TypeOK, LockInv, AttendedInv, NEW p \in Proc, ReadRelease(p)
  PROVE  AttendedInv'
<1>1. /\ pc[p] = "read" /\ cmd[p] = "release" /\ file' = file /\ who' = who
      /\ kills' = kills
  BY DEF ReadRelease
<1>2. file # NoFile /\ file.line.who = who[p]
  <2>1. who[p] \in Who /\ hand[who[p]] # NoLine
    BY <1>1 DEF LockInv, Removal
  <2>. QED BY <2>1 DEF LockInv, FileOwner, AttendedInv
<1>. QED BY <1>1, <1>2, AttendedKept DEF ReadRelease, Goto, TypeOK, StepOf, Same

LEMMA ReadBreakAttended ==
  ASSUME TypeOK, LockInv, AttendedInv, NEW p \in Proc, ReadBreak(p) \/ Decline(p)
  PROVE  AttendedInv'
<1>1. /\ pc[p] \in {"read", "prompt"} /\ file' = file /\ hand' = hand /\ who' = who
      /\ kills' = kills /\ parent' = parent
  BY DEF ReadBreak, Decline
<1>2. took[p] = {}
  BY <1>1, Outside
<1>3. CASE Exit(p)
  BY <1>1, <1>2, <1>3, AttendedExit
<1>4. CASE ~Exit(p)
  BY <1>1, <1>4, AttendedKept DEF ReadBreak, Decline, Goto, TypeOK, StepOf, Same
<1>. QED BY <1>3, <1>4

LEMMA KillAttended ==
  ASSUME TypeOK, LockInv, AttendedInv, NEW p \in Proc, Kill(p)
  PROVE  AttendedInv'
<1>1. kills' # 0
  BY LockAssumption DEF Kill, TypeOK
<1>. QED BY <1>1 DEF Kill, Exit, Goto, TypeOK, AttendedInv

LEMMA LaunchAttended ==
  ASSUME TypeOK, LockInv, AttendedInv, NEW p \in Proc, NEW c, NEW w, NEW l, NEW q,
         Launch(p, c, w, l, q)
  PROVE  AttendedInv'
<1>1. /\ StepOf(p) /\ file' = file /\ kills' = kills /\ took' = took /\ pc[p] = "off"
      /\ pc'[p] \in {"check", "read"}
  BY DEF Launch, Goto, TypeOK, StepOf, Same
<1>. QED BY <1>1, AttendedKept

LEMMA NextAttended ==
  TypeOK /\ LockInv /\ AttendedInv /\ [Next]_vars => AttendedInv'
<1> SUFFICES ASSUME TypeOK, LockInv, AttendedInv, [Next]_vars
             PROVE  AttendedInv'
  OBVIOUS
<1>1. ASSUME NEW p \in Proc, Step(p) PROVE AttendedInv'
  BY <1>1, CheckAttended, CreateAttended, RefuseAttended, WriteAttended, WorkAttended,
     LeaveAttended, UnlinkAttended, ReadReleaseAttended, ReadBreakAttended, RemoveAttended
  DEF Step
<1>2. ASSUME NEW p \in Proc, Nest(p) \/ Confirm(p) \/ Decline(p) \/ Kill(p) PROVE AttendedInv'
  BY <1>2, WorkAttended, ReadBreakAttended, KillAttended
<1>3. ASSUME NEW p \in Proc,
             \/ StartCommand(p)
             \/ \E w \in Who :
                  StartRun(p, w) \/ StartTake(p, w) \/ StartRelease(p, w) \/ StartBreak(p, w)
             \/ \E q \in Proc : StartChild(q, p)
      PROVE  AttendedInv'
  BY <1>3, LaunchAttended
  DEF StartCommand, StartRun, StartTake, StartRelease, StartBreak, StartChild
<1>4. CASE Tick \/ UNCHANGED vars
  BY <1>4 DEF Tick, AttendedInv, Attended
<1>. QED BY <1>1, <1>2, <1>3, <1>4 DEF Next

LEMMA AttendedInvHolds == Careful => (Spec => []AttendedInv)
<1> SUFFICES ASSUME Careful PROVE Spec => []AttendedInv
  OBVIOUS
<1>1. Init => AttendedInv
  BY DEF Init, AttendedInv
<1>. QED BY <1>1, NextAttended, LockInvHolds, TypeCorrect, PTL DEF Spec

\* A hold is left behind without anybody to release it only by a kill: every
\* return, exception and refused nested take gives the lock back.
THEOREM StaleOnlyAfterKill == Careful => (Spec => []StaleOnlyByKill)
<1> SUFFICES ASSUME Careful PROVE Spec => []StaleOnlyByKill
  OBVIOUS
<1>1. TypeOK /\ LockInv /\ AttendedInv => StaleOnlyByKill
  <2> SUFFICES ASSUME TypeOK, LockInv, AttendedInv, kills = 0, file # NoFile
               PROVE  ~Gone(file)
    BY DEF StaleOnlyByKill
  <2>1. Attended
    BY DEF AttendedInv
  <2>2. CASE file.line = NoLine
    BY <2>1, <2>2 DEF Attended, Gone, LockInv, FileOwner
  <2>3. CASE file.line # NoLine
    <3>1. Carried(file.line)
      BY <2>1, <2>3 DEF Attended, LockInv, FileOwner, Frames, Frame, Carried
    <3>. QED BY <2>3, <3>1 DEF Gone
  <2>. QED BY <2>2, <2>3
<1>. QED BY <1>1, AttendedInvHolds, LockInvHolds, TypeCorrect, PTL

-----------------------------------------------------------------------------
(* The lock file implements an exclusive hold. *)

\* Who changes the cluster does so under the file's line; by hand, alone.
LEMMA UsersHold ==
  ASSUME TypeOK, LockInv
  PROVE  /\ \A p \in Proc : Changing(p) =>
              file # NoFile /\ file.line = env[p] /\ env[p] # NoLine
         /\ \A w \in Who : hand[w] # NoLine =>
              /\ file # NoFile /\ file.line = hand[w]
              /\ Users = {w}
         /\ file.line = NoLine => Users = {}
<1>1. \A p \in Proc : Changing(p) => file # NoFile /\ file.line = env[p] /\ env[p] # NoLine
  BY DepthNat DEF Changing, LockInv, Frames, Frame, FileOwner
<1>2. \A w \in Who : hand[w] # NoLine =>
        /\ file # NoFile /\ file.line = hand[w]
        /\ \A p \in Proc : ~Changing(p)
        /\ \A v \in Who : hand[v] # NoLine => v = w
  BY <1>1 DEF LockInv, FileOwner
<1>3. \A w \in Who : hand[w] # NoLine => Users = {w}
  BY <1>2 DEF Users
<1>4. file.line = NoLine => Users = {}
  BY <1>1, <1>2 DEF Users
<1>. QED BY <1>1, <1>2, <1>3, <1>4

\* A step that changes neither who is in a block nor whose hand holds.
LEMMA SameUsers ==
  ASSUME \A q \in Proc : Changing(q)' = Changing(q), hand' = hand
  PROVE  Users' = Users
  BY DEF Users

\* A process in a block leaves it, and only it.
LEMMA ProcessLeaves ==
  ASSUME TypeOK, LockInv, NEW p \in Proc, Changing(p), ~Changing(p)',
         \A q \in Proc : q # p => Changing(q)' = Changing(q), hand' = hand
  PROVE  p \in Users /\ Users' = Users \ {p}
<1>1. \A w \in Who : hand[w] = NoLine
  BY DepthNat DEF LockInv, Frames, Frame, FileOwner, Changing
<1>. QED BY <1>1 DEF Users

\* The process that removes its own file is the last one under it.
LEMMA LastUser ==
  ASSUME TypeOK, LockInv, NEW p \in Proc, pc[p] = "unlink"
  PROVE  Users = {p} /\ \A w \in Who : hand[w] = NoLine
<1>1. depth[p] = 1 /\ took[p] # {} /\ env[p] # NoLine /\ file.line = env[p]
  BY DEF LockInv, Frames, Frame, FileOwner
<1>2. ASSUME NEW q \in Proc, Changing(q), q # p PROVE FALSE
  <2>1. env[q] # NoLine
    BY <1>2, UsersHold
  <2>2. took[q] = {}
    BY <1>1, <1>2 DEF LockInv, Family
  <2>3. parent[q] = p
    BY <1>1, <2>1, <2>2 DEF LockInv, Family
  <2>4. pc[p] = "work"
    BY <2>3, LockAssumption DEF LockInv, Family
  <2>. QED BY <2>4
<1>3. Changing(p)
  BY <1>1 DEF Changing
<1>4. \A w \in Who : hand[w] = NoLine
  BY <1>1 DEF LockInv, FileOwner
<1>. QED BY <1>2, <1>3, <1>4 DEF Users

(* What the hold may do, in the terms of the lock. *)

LEMMA Acquires ==
  ASSUME NEW u \in Proc \cup Who, NEW h \in Line,
         file.line = NoLine, Users = {}, file'.line = h, Users' = {u}
  PROVE  Exclusive!Next
  BY DEF Exclusive!Next, Exclusive!Acquire

LEMMA Joins ==
  ASSUME NEW u \in Proc \cup Who,
         file.line # NoLine, Users' = Users \cup {u}, file'.line = file.line
  PROVE  Exclusive!Next
  BY DEF Exclusive!Next, Exclusive!Join

LEMMA Leaves ==
  ASSUME NEW u \in Users, Users' = Users \ {u},
         file'.line = file.line \/ (Users' = {} /\ file'.line = NoLine)
  PROVE  Exclusive!Next
<1>1. u \in Proc \cup Who
  BY DEF Users
<1>. QED BY <1>1 DEF Exclusive!Next, Exclusive!Leave

LEMMA Frees ==
  ASSUME Users = {}, Users' = {}, file'.line = NoLine
  PROVE  Exclusive!Next
  BY DEF Exclusive!Next, Exclusive!Free

\* A process that ends leaves the hold if it was in a block.
LEMMA ExitHold ==
  ASSUME TypeOK, LockInv, NEW p \in Proc, Exit(p), hand' = hand, file' = file
  PROVE  Exclusive!Next \/ UNCHANGED <<file.line, Users>>
<1>1. ~Changing(p)' /\ \A q \in Proc : q # p => Changing(q)' = Changing(q)
  BY DEF Exit, Changing, TypeOK
<1>2. CASE Changing(p)
  BY <1>1, <1>2, ProcessLeaves, Leaves
<1>3. CASE ~Changing(p)
  BY <1>1, <1>3, SameUsers DEF Changing
<1>. QED BY <1>2, <1>3

\* Leaving a block inside another one leaves nothing; the outermost leaves the hold.
LEMMA LeftHold ==
  ASSUME TypeOK, LockInv, NEW p \in Proc, pc[p] \in {"leave", "unlink"}, Left(p),
         hand' = hand, file' = file
  PROVE  Exclusive!Next \/ UNCHANGED <<file.line, Users>>
<1>1. CASE depth[p] = 1
  BY <1>1, ExitHold DEF Left
<1>2. CASE depth[p] # 1
  <2>1. depth[p] \in Nat /\ depth[p] > 0
    BY DepthNat DEF LockInv, DepthInv
  <2>2. Changing(p) /\ Changing(p)'
    BY <1>2, <2>1 DEF Left, Changing, TypeOK
  <2>3. \A q \in Proc : Changing(q)' = Changing(q)
    BY <1>2, <2>2 DEF Left, Changing, TypeOK
  <2>. QED BY <2>3, SameUsers
<1>. QED BY <1>1, <1>2

\* A block that finds its line in the file joins; one that does not waits to create it.
LEMMA CheckHold ==
  ASSUME TypeOK, LockInv, NEW p \in Proc, Check(p)
  PROVE  Exclusive!Next \/ UNCHANGED <<file.line, Users>>
<1>1. file' = file /\ hand' = hand
  BY DEF Check
<1>2. CASE Ours(p)
  <2>1. Changing(p)' /\ \A q \in Proc : q # p => Changing(q)' = Changing(q)
    BY <1>2, DepthNat DEF Check, Changing, TypeOK
  <2>2. \A w \in Who : hand[w] = NoLine
    BY <1>2 DEF Ours, LockInv, FileOwner
  <2>3. Users' = Users \cup {p}
    BY <1>1, <2>1, <2>2 DEF Users
  <2>4. file.line # NoLine
    BY <1>2 DEF Ours
  <2>. QED BY <1>1, <2>3, <2>4, Joins
<1>3. CASE ~Ours(p)
  BY <1>1, <1>3, SameUsers DEF Check, Changing
<1>. QED BY <1>2, <1>3

\* Writing the line takes the hold, which nobody has.
LEMMA WriteHold ==
  ASSUME TypeOK, LockInv, NEW p \in Proc, Write(p)
  PROVE  Exclusive!Next
<1>1. file.line = NoLine /\ file' = hold[p] /\ hold[p].line \in Line
  BY DEF Write, LockInv, FileOwner
<1>2. Users = {}
  BY <1>1, UsersHold
<1>3. hold[p].line # NoLine
  BY <1>1, LockAssumption DEF Line, NoLine
<1>4. CASE cmd[p] = "take"
  <2>1. who[p] \in Who
    BY <1>4 DEF LockInv, Frames, Frame
  <2>2. hand'[who[p]] # NoLine /\ \A w \in Who : w # who[p] => hand'[w] = hand[w]
    BY <1>3, <1>4, <2>1 DEF Write, TypeOK
  <2>3. \A q \in Proc : ~Changing(q)'
    BY <1>2, <1>4 DEF Write, Exit, Changing, Users, TypeOK
  <2>4. Users' = {who[p]}
    BY <1>2, <2>1, <2>2, <2>3 DEF Users
  <2>. QED BY <1>1, <1>2, <2>1, <2>4, Acquires
<1>5. CASE cmd[p] # "take"
  <2>1. Changing(p)' /\ \A q \in Proc : q # p => Changing(q)' = Changing(q)
    BY <1>5, DepthNat DEF Write, Changing, TypeOK
  <2>2. hand' = hand
    BY <1>5 DEF Write
  <2>3. Users' = {p}
    BY <1>2, <2>1, <2>2 DEF Users
  <2>. QED BY <1>1, <1>2, <2>3, Acquires
<1>. QED BY <1>4, <1>5

\* unlink gives the hold up, and its last user is the process that does it.
LEMMA UnlinkHold ==
  ASSUME TypeOK, LockInv, NEW p \in Proc, Unlink(p)
  PROVE  Exclusive!Next
<1>1. pc[p] = "unlink" /\ file' = NoFile /\ hand' = hand /\ depth[p] = 1
  BY DEF Unlink, LockInv, Frames, Frame
<1>2. Users = {p} /\ \A w \in Who : hand[w] = NoLine
  BY <1>1, LastUser
<1>3. ~Changing(p)' /\ \A q \in Proc : q # p => Changing(q)' = Changing(q)
  BY <1>1 DEF Unlink, Left, Exit, Changing, TypeOK
<1>4. Users' = {}
  BY <1>1, <1>2, <1>3 DEF Users
<1>5. Users' = Users \ {p}
  BY <1>2, <1>4
<1>. QED BY <1>1, <1>2, <1>4, <1>5, Leaves DEF NoFile

\* A person that stops holding by hand was the hold's only user.
LEMMA HandHold ==
  ASSUME TypeOK, LockInv, NEW p \in Proc, cmd[p] = "release", Exit(p),
         hand' = [hand EXCEPT ![who[p]] = NoLine],
         file' = file \/ file' = NoFile
  PROVE  Exclusive!Next
<1>1. who[p] \in Who /\ hand[who[p]] # NoLine
  BY DEF LockInv, Removal
<1>2. Users = {who[p]}
  BY <1>1, UsersHold
<1>3. \A q \in Proc : ~Changing(q)
  <2>1. \A q \in Proc : env[q] = NoLine
    BY <1>1 DEF LockInv, FileOwner
  <2>. QED BY <2>1, UsersHold
<1>4. \A q \in Proc : ~Changing(q)'
  BY <1>3 DEF Exit, Changing, TypeOK
<1>5. \A w \in Who : hand'[w] = NoLine
  BY <1>1, <1>2 DEF Users, TypeOK
<1>6. Users' = {}
  BY <1>4, <1>5 DEF Users
<1>7. Users' = Users \ {who[p]}
  BY <1>2, <1>6
<1>. QED BY <1>2, <1>6, <1>7, Leaves DEF NoFile

\* What break removes has no user left.
LEMMA RemoveHold ==
  ASSUME TypeOK, LockInv, NEW p \in Proc, Remove(p)
  PROVE  Exclusive!Next
<1>1. pc[p] = "remove" /\ file' = NoFile /\ Exit(p)
  BY DEF Remove
<1>2. cmd[p] \in {"release", "break"}
  BY <1>1 DEF LockInv, Frames, Frame, Removing
<1>3. CASE cmd[p] = "release"
  BY <1>1, <1>3, HandHold DEF Remove
<1>4. CASE cmd[p] = "break"
  <2>1. hand' = hand
    BY <1>4 DEF Remove
  <2>2. Users = {}
    <3>1. CASE file.line = NoLine
      BY <3>1, UsersHold
    <3>2. CASE file.line # NoLine
      <4>1. ~Carried(file.line)
        BY <1>1, <1>4, <3>2 DEF LockInv, Removal
      <4>. QED BY <4>1, UsersHold DEF Carried, Users
    <3>. QED BY <3>1, <3>2
  <2>3. \A q \in Proc : ~Changing(q)'
    BY <1>1, <2>2 DEF Exit, Changing, Users, TypeOK
  <2>4. Users' = {}
    BY <2>1, <2>2, <2>3 DEF Users
  <2>. QED BY <1>1, <2>2, <2>4, Frees DEF NoFile
<1>. QED BY <1>2, <1>3, <1>4

\* Every step of the lock is a step of the exclusive hold, or changes neither its
\* holder nor its users.
LEMMA NextHold ==
  TypeOK /\ LockInv /\ [Next]_vars => [Exclusive!Next]_<<file.line, Users>>
<1> SUFFICES ASSUME TypeOK, LockInv, [Next]_vars
             PROVE  Exclusive!Next \/ UNCHANGED <<file.line, Users>>
  OBVIOUS
<1>1. ASSUME NEW p \in Proc, Create(p) PROVE UNCHANGED <<file.line, Users>>
  BY <1>1, SameUsers DEF Create, Changing, NoFile
<1>2. ASSUME NEW p \in Proc, Refuse(p)
      PROVE  Exclusive!Next \/ UNCHANGED <<file.line, Users>>
  <2>1. depth[p] = 0
    BY <1>2 DEF Refuse, LockInv, Frames, Frame
  <2>. QED BY <1>2, <2>1, ExitHold DEF Refuse
<1>3. ASSUME NEW p \in Proc, Finish(p) \/ Nest(p) \/ Confirm(p)
      PROVE  UNCHANGED <<file.line, Users>>
  BY <1>3, SameUsers DEF Finish, Nest, Confirm, Changing
<1>4. ASSUME NEW p \in Proc, Leave(p)
      PROVE  Exclusive!Next \/ UNCHANGED <<file.line, Users>>
  <2>1. CASE depth[p] \in took[p] /\ Ours(p)
    BY <1>4, <2>1, SameUsers DEF Leave, Changing
  <2>2. CASE ~(depth[p] \in took[p] /\ Ours(p))
    BY <1>4, <2>2, LeftHold DEF Leave
  <2>. QED BY <2>1, <2>2
<1>5. ASSUME NEW p \in Proc, ReadRelease(p)
      PROVE  Exclusive!Next \/ UNCHANGED <<file.line, Users>>
  <2>1. CASE file # NoFile /\ file.line.who = who[p]
    BY <1>5, <2>1, SameUsers DEF ReadRelease, Changing
  <2>2. CASE ~(file # NoFile /\ file.line.who = who[p])
    BY <1>5, <2>2, HandHold DEF ReadRelease
  <2>. QED BY <2>1, <2>2
<1>6. ASSUME NEW p \in Proc, ReadBreak(p) \/ Decline(p)
      PROVE  Exclusive!Next \/ UNCHANGED <<file.line, Users>>
  <2>1. CASE Exit(p)
    BY <1>6, <2>1, ExitHold DEF ReadBreak, Decline
  <2>2. CASE ~Exit(p)
    BY <1>6, <2>2, SameUsers DEF ReadBreak, Decline, Changing
  <2>. QED BY <2>1, <2>2
<1>7. ASSUME NEW p \in Proc, Kill(p)
      PROVE  Exclusive!Next \/ UNCHANGED <<file.line, Users>>
  BY <1>7, ExitHold DEF Kill
<1>8. ASSUME NEW p \in Proc,
             \/ StartCommand(p)
             \/ \E w \in Who :
                  StartRun(p, w) \/ StartTake(p, w) \/ StartRelease(p, w) \/ StartBreak(p, w)
             \/ \E q \in Proc : StartChild(q, p)
      PROVE  UNCHANGED <<file.line, Users>>
  BY <1>8, SameUsers
  DEF StartCommand, StartRun, StartTake, StartRelease, StartBreak, StartChild, Launch, Changing
<1>9. CASE Tick \/ UNCHANGED vars
  BY <1>9, SameUsers DEF Tick, Changing
<1>. QED
  BY <1>1, <1>2, <1>3, <1>4, <1>5, <1>6, <1>7, <1>8, <1>9,
     CheckHold, WriteHold, UnlinkHold, RemoveHold DEF Next, Step

\* The lock file implements an exclusive hold: nobody starts to change the cluster
\* while somebody else does, and the line stays until the last one stops.
THEOREM LockIsExclusive == Careful => (Spec => IsExclusive)
<1> SUFFICES ASSUME Careful PROVE Spec => IsExclusive
  OBVIOUS
<1>1. Init => Exclusive!Init
  BY DEF Init, Exclusive!Init, Users, Changing, NoFile
<1>. QED
  BY <1>1, NextHold, LockInvHolds, TypeCorrect, PTL DEF Spec, IsExclusive, Exclusive!Spec
=============================================================================
