----------------------------- MODULE WaitReady -----------------------------
(***************************************************************************)
(* deploy's last wait (deploy.py, _wait_ready, on polling.py's wait_until): *)
(* it polls the Jobs and the workloads until all Jobs have ended and every *)
(* workload has rolled out, starts a held ZAC once the Jobs its boot needs *)
(* have ended, and restarts it once when its boot failed.                  *)
(*                                                                         *)
(* Each poll reads the cluster in several kubectl calls, while Jobs end,   *)
(* the Deployment controller acts and ZAC boots.                           *)
(***************************************************************************)
EXTENDS Naturals

CONSTANTS
  Job,         \* the rendered Jobs
  ZacJob,      \* ZAC_JOBS: what ZAC's boot reads is made by these
  JobsMayFail, \* a Job may fail for good
  FailedExpire,\* ... and be removed by its TTL within the wait
  MayTimeOut,  \* READY_TIMEOUT may be reached
  MaxOutages   \* bound: outages of Open Zaak, which ZAC's boot calls

ASSUME WaitReadyAssumption ==
  /\ ZacJob \subseteq Job
  /\ JobsMayFail \in BOOLEAN /\ FailedExpire \in BOOLEAN /\ MayTimeOut \in BOOLEAN
  /\ MaxOutages \in Nat

VARIABLES
  job,         \* what each Job does; "gone" and "lost": completed or failed, and removed
  openzaak,    \* Open Zaak answers, and has rolled out
  outages,
  replicas,    \* ZAC's spec.replicas, which the Deployment controller has yet
  observed,    \* to observe, or has (status.observedGeneration)
  pod,         \* ZAC's pod
  log,         \* its boot's log shows BOOT_FAILED
  pc, held, restarted,
  running, failed,  \* the Jobs that ran, and had failed, in this poll
  waiting,          \* the workloads that had not rolled out in this poll
  result

zac == <<replicas, observed, pod, log>>
poll == <<running, failed, waiting>>
vars == <<job, openzaak, outages, replicas, observed, pod, log, pc, held, restarted,
          running, failed, waiting, result>>

Workload == {"openzaak", "zac"}

\* Helm has just upgraded: a held ZAC at 0 replicas, or one that was there before.
Init ==
  /\ job \in [Job -> {"runs", "complete", "gone"}]
  /\ openzaak \in BOOLEAN /\ outages = 0
  /\ held \in BOOLEAN
  /\ replicas = (IF held THEN 0 ELSE 1)
  /\ observed \in BOOLEAN
  /\ pod \in (IF held THEN {"none"} ELSE {"none", "boots", "ready", "gave up"})
  /\ log \in BOOLEAN /\ (log <=> pod = "gave up")
  /\ pc = "jobs" /\ restarted = FALSE
  /\ running = {} /\ failed = {} /\ waiting = {}
  /\ result = "polling"

Goto(label) == pc' = label

\* Mutant: a Deployment counts as rolled out by its pods alone.
ZacRolledOut_Unobserved == replicas = 0 \/ pod = "ready" \/ ~observed

\* deploy.rolled_out, of ZAC: no old pods, and as many ready ones as it wants.
ZacRolledOut == observed /\ (replicas = 0 \/ pod = "ready")

Stuck == {w \in Workload : IF w = "zac" THEN ~ZacRolledOut ELSE ~openzaak}

-----------------------------------------------------------------------------
(* One poll: settled. *)

\* Mutant: a missing Job is still to run.
Jobs_MissingRuns ==
  /\ pc = "jobs"
  /\ running' = {j \in Job : job[j] \in {"runs", "gone", "lost"}}
  /\ failed' = {j \in Job : job[j] = "failed"}
  /\ Goto("scale")
  /\ UNCHANGED <<job, openzaak, outages, held, restarted, waiting, result>> /\ UNCHANGED zac

\* unfinished_jobs: a missing Job has finished.
Jobs ==
  /\ pc = "jobs"
  /\ running' = {j \in Job : job[j] = "runs"}
  /\ failed' = {j \in Job : job[j] = "failed"}
  /\ Goto("scale")
  /\ UNCHANGED <<job, openzaak, outages, held, restarted, waiting, result>> /\ UNCHANGED zac

Prepared == running \cap ZacJob = {}

\* Mutant: ZAC is started before its Jobs have ended.
Scale_Unprepared ==
  /\ pc = "scale"
  /\ IF held
     THEN replicas' = 1 /\ observed' = FALSE /\ held' = FALSE
     ELSE UNCHANGED <<replicas, observed, held>>
  /\ Goto("stuck")
  /\ UNCHANGED <<job, openzaak, outages, pod, log, restarted, result>> /\ UNCHANGED poll

\* ZAC's Jobs have finished; starting ZAC.
Scale ==
  /\ pc = "scale"
  /\ IF held /\ Prepared
     THEN replicas' = 1 /\ observed' = FALSE /\ held' = FALSE
     ELSE UNCHANGED <<replicas, observed, held>>
  /\ Goto("stuck")
  /\ UNCHANGED <<job, openzaak, outages, pod, log, restarted, result>> /\ UNCHANGED poll

\* stuck: the workloads that have not rolled out.
ReadStuck ==
  /\ pc = "stuck"
  /\ waiting' = Stuck
  /\ Goto("log")
  /\ UNCHANGED <<job, openzaak, outages, held, restarted, running, failed, result>> /\ UNCHANGED zac

\* Mutant: each poll may restart ZAC.
ReadLog_Again ==
  /\ pc = "log"
  /\ Goto(IF "zac" \in waiting /\ Prepared /\ log THEN "restart" ELSE "done")
  /\ UNCHANGED <<job, openzaak, outages, held, restarted, result>> /\ UNCHANGED zac /\ UNCHANGED poll

\* zac_boot_failed, when ZAC waits and no restart has been tried.
ReadLog ==
  /\ pc = "log"
  /\ Goto(IF "zac" \in waiting /\ Prepared /\ ~restarted /\ log THEN "restart" ELSE "done")
  /\ UNCHANGED <<job, openzaak, outages, held, restarted, result>> /\ UNCHANGED zac /\ UNCHANGED poll

\* restart_zac: kubectl rollout restart, a new generation of the Deployment.
Restart ==
  /\ pc = "restart"
  /\ observed' = FALSE
  /\ restarted' = TRUE
  /\ Goto("done")
  /\ UNCHANGED <<job, openzaak, outages, replicas, pod, log, held, result>> /\ UNCHANGED poll

\* Settled, out of time, or another poll.
Done ==
  /\ pc = "done"
  /\ \/ /\ running = {} /\ waiting = {}
        /\ result' = (IF failed = {} THEN "ready" ELSE "failed jobs")
        /\ Goto("end")
     \/ /\ running \cup waiting # {} /\ MayTimeOut
        /\ result' = "timeout"
        /\ Goto("end")
     \/ /\ running \cup waiting # {}
        /\ Goto("jobs") /\ UNCHANGED result
  /\ UNCHANGED <<job, openzaak, outages, held, restarted>> /\ UNCHANGED zac /\ UNCHANGED poll

Poll == Jobs \/ Scale \/ ReadStuck \/ ReadLog \/ Restart \/ Done

-----------------------------------------------------------------------------
(* The cluster. *)

JobEnds(j) ==
  /\ job[j] = "runs"
  /\ \E outcome \in {"complete"} \cup (IF JobsMayFail THEN {"failed"} ELSE {}) :
       job' = [job EXCEPT ![j] = outcome]
  /\ UNCHANGED <<openzaak, outages, pc, held, restarted, result>> /\ UNCHANGED zac /\ UNCHANGED poll

\* ttlSecondsAfterFinished
JobRemoved(j) ==
  /\ \/ job[j] = "complete" /\ job' = [job EXCEPT ![j] = "gone"]
     \/ job[j] = "failed" /\ FailedExpire /\ job' = [job EXCEPT ![j] = "lost"]
  /\ UNCHANGED <<openzaak, outages, pc, held, restarted, result>> /\ UNCHANGED zac /\ UNCHANGED poll

OpenZaakUp ==
  /\ ~openzaak /\ openzaak' = TRUE
  /\ UNCHANGED <<job, outages, pc, held, restarted, result>> /\ UNCHANGED zac /\ UNCHANGED poll

OpenZaakDown ==
  /\ openzaak /\ outages < MaxOutages
  /\ openzaak' = FALSE /\ outages' = outages + 1
  /\ UNCHANGED <<job, pc, held, restarted, result>> /\ UNCHANGED zac /\ UNCHANGED poll

\* The Deployment controller sees the new spec, and replaces ZAC's pod.
Observe ==
  /\ ~observed /\ observed' = TRUE
  /\ pod' = (IF replicas = 0 THEN "none" ELSE "boots")
  /\ log' = FALSE
  /\ UNCHANGED <<job, openzaak, outages, replicas, pc, held, restarted, result>> /\ UNCHANGED poll

\* The first pod of a Deployment observed before the wait.
Create ==
  /\ observed /\ replicas = 1 /\ pod = "none"
  /\ pod' = "boots"
  /\ UNCHANGED <<job, openzaak, outages, replicas, observed, log, pc, held, restarted, result>>
  /\ UNCHANGED poll

\* ZAC's boot reads what its Jobs made, from Open Zaak, and gives up when it cannot.
Made == \A j \in ZacJob : job[j] \in {"complete", "gone"}

Boot ==
  /\ pod = "boots"
  /\ pod' = (IF Made /\ openzaak THEN "ready" ELSE "gave up")
  /\ log' = (pod' = "gave up")
  /\ UNCHANGED <<job, openzaak, outages, replicas, observed, pc, held, restarted, result>>
  /\ UNCHANGED poll

\* The liveness probe's 16 x 30 s are over: the container starts again.
Probe ==
  /\ pod = "gave up"
  /\ pod' = "boots" /\ log' = FALSE
  /\ UNCHANGED <<job, openzaak, outages, replicas, observed, pc, held, restarted, result>>
  /\ UNCHANGED poll

Cluster ==
  \/ \E j \in Job : JobEnds(j) \/ JobRemoved(j)
  \/ OpenZaakUp \/ OpenZaakDown \/ Observe \/ Create \/ Boot \/ Probe

Next == Poll \/ (result = "polling" /\ Cluster)

Spec == Init /\ [][Next]_vars

\* The poll goes on; Jobs end, Open Zaak comes up, the controller, ZAC's boot and its
\* liveness probe go on.
FairSpec ==
  /\ Spec
  /\ WF_vars(Poll)
  /\ \A j \in Job : WF_vars(JobEnds(j))
  /\ WF_vars(Probe) /\ WF_vars(OpenZaakUp) /\ WF_vars(Observe) /\ WF_vars(Create) /\ WF_vars(Boot)

-----------------------------------------------------------------------------
\* Every variable has its type.
TypeOK ==
  /\ job \in [Job -> {"runs", "complete", "failed", "gone", "lost"}]
  /\ openzaak \in BOOLEAN /\ outages \in 0 .. MaxOutages
  /\ replicas \in {0, 1} /\ observed \in BOOLEAN /\ log \in BOOLEAN
  /\ pod \in {"none", "boots", "ready", "gave up"}
  /\ pc \in {"jobs", "scale", "stuck", "log", "restart", "done", "end"}
  /\ held \in BOOLEAN /\ restarted \in BOOLEAN
  /\ running \subseteq Job /\ failed \subseteq Job /\ waiting \subseteq Workload
  /\ result \in {"polling", "ready", "failed jobs", "timeout"}
  /\ (result # "polling" <=> pc = "end")

\* "All workloads rolled out, all Jobs completed.": although a poll reads them one
\* after the other, and ZAC at 0 replicas counts as rolled out.
ReadyIsReady ==
  result = "ready" =>
    /\ \A j \in Job : job[j] \in {"complete", "gone"}
    /\ ~held /\ replicas = 1 /\ pod = "ready"

\* "ZAC starts only once openzaak-config and create-required-catalogi-job have
\* finished": a held ZAC gets its replica after the Jobs ended, not after a poll
\* that did not see them.
ZacAfterJobs == [][replicas = 0 /\ replicas' = 1 => \A j \in ZacJob : job[j] # "runs"]_vars

\* ZAC is restarted at most once, and only when the restart can help: a boot that
\* gave up before its Jobs had ended is not restarted until they have.
RestartHelps ==
  [][Restart => ~restarted /\ ~held /\ \A j \in ZacJob : job[j] # "runs"]_vars

\* The wait ends without its timeout, whatever ZAC's boots met: no Job that is gone, no
\* held ZAC and no boot that gave up leaves it polling for what no longer happens; only
\* a failed Job of ZAC's does, without which ZAC cannot boot.
Settles == <>(result # "polling" \/ \E j \in ZacJob : job[j] \in {"failed", "lost"})
-----------------------------------------------------------------------------
(* Why a settled poll is right: the inductive invariant. *)

\* Since a poll read the Jobs, none that had ended runs again, and none fails but
\* those that ran.
JobsRead ==
  pc # "jobs" => \A j \in Job :
    /\ job[j] = "runs" => j \in running
    /\ job[j] = "failed" => j \in running \cup failed

\* ZAC has no replica as long as it is held; once its Jobs were seen to have ended it is
\* not held, and once seen rolled out it stays so until the poll restarts it.
ZacRead ==
  /\ held <=> replicas = 0
  /\ pc \in {"stuck", "log", "restart", "done", "end"} /\ Prepared => ~held
  /\ pc \in {"log", "done", "end"} /\ "zac" \notin waiting /\ ~held => observed /\ pod = "ready"
  /\ pc = "restart" => "zac" \in waiting /\ Prepared /\ ~restarted

PollInv ==
  /\ JobsRead
  /\ ZacRead
  /\ ~FailedExpire => \A j \in Job : job[j] # "lost"
  /\ result = "ready" => pc = "end" /\ running = {} /\ failed = {} /\ waiting = {}
=============================================================================
