-------------------------- MODULE WaitReadyProofs --------------------------
(***************************************************************************)
(* What holds of deploy's last wait for any Jobs and outages.              *)
(***************************************************************************)
EXTENDS WaitReady, TLAPS

USE DEF vars, zac, poll

-----------------------------------------------------------------------------
(* Types. *)

LEMMA InitTypes == Init => TypeOK
<1> SUFFICES ASSUME Init PROVE TypeOK
  OBVIOUS
<1>1. log \in BOOLEAN
  BY Zenon DEF Init
<1>2. replicas \in {0, 1}
  BY Zenon DEF Init
<1>3. outages \in 0 .. MaxOutages
  <2>1. outages = 0
    BY DEF Init
  <2>. QED BY <2>1, WaitReadyAssumption
<1>4. job \in [Job -> {"runs", "complete", "failed", "gone", "lost"}]
  BY DEF Init
<1>5. /\ openzaak \in BOOLEAN /\ observed \in BOOLEAN /\ held \in BOOLEAN
      /\ pod \in {"none", "boots", "ready", "gave up"}
  BY DEF Init
<1>6. /\ pc = "jobs" /\ restarted = FALSE /\ result = "polling"
      /\ running = {} /\ failed = {} /\ waiting = {}
  BY DEF Init
<1>. QED BY <1>1, <1>2, <1>3, <1>4, <1>5, <1>6 DEF TypeOK

LEMMA PollTypes == TypeOK /\ Poll => TypeOK'
<1> SUFFICES ASSUME TypeOK, Poll PROVE TypeOK'
  OBVIOUS
<1>1. CASE Jobs
  BY <1>1 DEF Jobs, Goto, TypeOK
<1>2. CASE Scale
  BY <1>2 DEF Scale, Goto, TypeOK
<1>3. CASE ReadStuck
  BY <1>3 DEF ReadStuck, Goto, Stuck, TypeOK
<1>4. CASE ReadLog
  BY <1>4 DEF ReadLog, Goto, TypeOK
<1>5. CASE Restart
  BY <1>5 DEF Restart, Goto, TypeOK
<1>6. CASE Done
  BY <1>6 DEF Done, Goto, TypeOK
<1>. QED BY <1>1, <1>2, <1>3, <1>4, <1>5, <1>6 DEF Poll

LEMMA ClusterTypes == TypeOK /\ Cluster => TypeOK'
<1> SUFFICES ASSUME TypeOK, Cluster PROVE TypeOK'
  OBVIOUS
<1>1. ASSUME NEW j \in Job, JobEnds(j) PROVE TypeOK'
  BY <1>1 DEF JobEnds, TypeOK
<1>2. ASSUME NEW j \in Job, JobRemoved(j) PROVE TypeOK'
  <2>1. job' \in [Job -> {"runs", "complete", "failed", "gone", "lost"}]
    BY <1>2 DEF JobRemoved, TypeOK
  <2>. QED BY <1>2, <2>1 DEF JobRemoved, TypeOK
<1>3. CASE OpenZaakUp \/ OpenZaakDown
  <2>1. openzaak' \in BOOLEAN
    BY <1>3 DEF OpenZaakUp, OpenZaakDown
  <2>2. outages' \in 0 .. MaxOutages
    <3>1. outages' = outages \/ (outages < MaxOutages /\ outages' = outages + 1)
      BY <1>3 DEF OpenZaakUp, OpenZaakDown
    <3>2. outages \in 0 .. MaxOutages /\ MaxOutages \in Nat
      BY WaitReadyAssumption DEF TypeOK
    <3>. QED BY <3>1, <3>2
  <2>3. UNCHANGED <<job, replicas, observed, pod, log, pc, held, restarted,
                    running, failed, waiting, result>>
    BY <1>3 DEF OpenZaakUp, OpenZaakDown
  <2>. QED BY <2>1, <2>2, <2>3 DEF TypeOK
<1>4. CASE Observe \/ Create
  BY <1>4 DEF Observe, Create, TypeOK
<1>5. CASE Boot
  BY <1>5 DEF Boot, TypeOK
<1>6. CASE Probe
  BY <1>6 DEF Probe, TypeOK
<1>. QED BY <1>1, <1>2, <1>3, <1>4, <1>5, <1>6 DEF Cluster

\* Every reachable state of the wait is well typed, whichever Jobs are rendered.
THEOREM TypeCorrect == Spec => []TypeOK
<1>1. TypeOK /\ [Next]_vars => TypeOK'
  <2>1. TypeOK /\ UNCHANGED vars => TypeOK'
    BY DEF TypeOK
  <2>. QED BY <2>1, PollTypes, ClusterTypes DEF Next
<1>. QED BY <1>1, InitTypes, PTL DEF Spec

-----------------------------------------------------------------------------
(* What a poll has read, against what has happened since. *)

LEMMA InitPoll == Init => PollInv
<1> SUFFICES ASSUME Init PROVE PollInv
  OBVIOUS
<1>1. pc = "jobs" /\ result = "polling"
  BY DEF Init
<1>2. \A j \in Job : job[j] # "lost"
  BY DEF Init
<1>3. held <=> replicas = 0
  <2>1. (held => replicas = 0) /\ (~held => replicas = 1)
    BY Zenon DEF Init
  <2>. QED BY <2>1
<1>. QED BY <1>1, <1>2, <1>3 DEF PollInv, JobsRead, ZacRead

LEMMA PollPoll == TypeOK /\ PollInv /\ Poll => PollInv'
<1> SUFFICES ASSUME TypeOK, PollInv, Poll PROVE PollInv'
  OBVIOUS
<1>1. CASE Jobs
  BY <1>1 DEF Jobs, Goto, TypeOK, PollInv, JobsRead, ZacRead
<1>2. CASE Scale
  <2>1. /\ pc = "scale" /\ pc' = "stuck"
        /\ UNCHANGED <<job, running, failed, waiting, result>>
    BY <1>2 DEF Scale, Goto
  <2>2. CASE held /\ Prepared
    <3>1. replicas' = 1 /\ ~held'
      BY <1>2, <2>2 DEF Scale
    <3>. QED BY <2>1, <3>1 DEF PollInv, JobsRead, ZacRead
  <2>3. CASE ~(held /\ Prepared)
    <3>1. replicas' = replicas /\ (held' <=> held)
      BY <1>2, <2>3 DEF Scale
    <3>. QED BY <2>1, <2>3, <3>1 DEF PollInv, JobsRead, ZacRead, Prepared
  <2>. QED BY <2>2, <2>3
<1>3. CASE ReadStuck
  BY <1>3 DEF ReadStuck, Goto, Stuck, ZacRolledOut, Workload, TypeOK, PollInv, JobsRead,
              ZacRead, Prepared
<1>4. CASE ReadLog
  BY <1>4 DEF ReadLog, Goto, TypeOK, PollInv, JobsRead, ZacRead, Prepared
<1>5. CASE Restart
  BY <1>5 DEF Restart, Goto, TypeOK, PollInv, JobsRead, ZacRead, Prepared
<1>6. CASE Done
  BY <1>6 DEF Done, Goto, TypeOK, PollInv, JobsRead, ZacRead, Prepared
<1>. QED BY <1>1, <1>2, <1>3, <1>4, <1>5, <1>6 DEF Poll

LEMMA ClusterPoll == TypeOK /\ PollInv /\ Cluster => PollInv'
<1> SUFFICES ASSUME TypeOK, PollInv, Cluster PROVE PollInv'
  OBVIOUS
<1>1. ASSUME NEW j \in Job, JobEnds(j) PROVE PollInv'
  BY <1>1 DEF JobEnds, TypeOK, PollInv, JobsRead, ZacRead, Prepared
<1>2. ASSUME NEW j \in Job, JobRemoved(j) PROVE PollInv'
  BY <1>2 DEF JobRemoved, TypeOK, PollInv, JobsRead, ZacRead, Prepared
<1>3. CASE OpenZaakUp \/ OpenZaakDown
  BY <1>3 DEF OpenZaakUp, OpenZaakDown, PollInv, JobsRead, ZacRead, Prepared
<1>4. CASE Observe
  BY <1>4 DEF Observe, TypeOK, PollInv, JobsRead, ZacRead, Prepared
<1>5. CASE Create \/ Boot \/ Probe
  <2>1. pod # "ready"
    BY <1>5 DEF Create, Boot, Probe
  <2>2. UNCHANGED <<job, replicas, observed, pc, held, restarted, running, failed, waiting, result>>
    BY <1>5 DEF Create, Boot, Probe
  <2>. QED BY <2>1, <2>2 DEF PollInv, JobsRead, ZacRead, Prepared
<1>. QED BY <1>1, <1>2, <1>3, <1>4, <1>5 DEF Cluster

LEMMA PollInvHolds == Spec => []PollInv
<1>1. TypeOK /\ PollInv /\ [Next]_vars => PollInv'
  <2>1. TypeOK /\ PollInv /\ UNCHANGED vars => PollInv'
    BY DEF PollInv, JobsRead, ZacRead, Prepared
  <2>. QED BY <2>1, PollPoll, ClusterPoll DEF Next
<1>. QED BY <1>1, InitPoll, TypeCorrect, PTL DEF Spec

\* "All workloads rolled out, all Jobs completed." is true when it is printed, although
\* Jobs and workloads are read one after the other, unless the TTL removes failed Jobs.
THEOREM ReadyMeansReady == ~FailedExpire => (Spec => []ReadyIsReady)
<1> SUFFICES ASSUME ~FailedExpire PROVE Spec => []ReadyIsReady
  OBVIOUS
<1>1. TypeOK /\ PollInv => ReadyIsReady
  BY DEF TypeOK, PollInv, JobsRead, ZacRead, Prepared, ReadyIsReady
<1>. QED BY <1>1, PollInvHolds, TypeCorrect, PTL

\* ZAC gets its replicas only after its Jobs have ended.
THEOREM ZacWaitsForJobs == Spec => ZacAfterJobs
<1>1. TypeOK /\ PollInv /\ [Next]_vars
        => [replicas = 0 /\ replicas' = 1 => \A j \in ZacJob : job[j] # "runs"]_vars
  <2> SUFFICES ASSUME TypeOK, PollInv, Next, replicas = 0, replicas' = 1
               PROVE  \A j \in ZacJob : job[j] # "runs"
    OBVIOUS
  <2>1. Scale /\ Prepared
    BY DEF Next, Poll, Cluster, Jobs, Scale, ReadStuck, ReadLog, Restart, Done, JobEnds,
           JobRemoved, OpenZaakUp, OpenZaakDown, Observe, Create, Boot, Probe
  <2>. QED BY <2>1, WaitReadyAssumption DEF Scale, Prepared, PollInv, JobsRead
<1>. QED BY <1>1, PollInvHolds, TypeCorrect, PTL DEF Spec, ZacAfterJobs

\* The one restart comes when ZAC's Jobs have ended, and is not spent before.
THEOREM RestartsOnce == Spec => RestartHelps
<1>1. TypeOK /\ PollInv /\ [Next]_vars
        => [Restart => ~restarted /\ ~held /\ \A j \in ZacJob : job[j] # "runs"]_vars
  <2> SUFFICES ASSUME TypeOK, PollInv, Restart
               PROVE  ~restarted /\ ~held /\ \A j \in ZacJob : job[j] # "runs"
    OBVIOUS
  <2>. QED BY WaitReadyAssumption DEF Restart, Prepared, PollInv, JobsRead, ZacRead
<1>. QED BY <1>1, PollInvHolds, TypeCorrect, PTL DEF Spec, RestartHelps
=============================================================================
