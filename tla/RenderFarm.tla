------------------------------ MODULE RenderFarm ------------------------------
(***************************************************************************)
(* The coordinator of the render farm: class RenderFarmService in          *)
(* apps/api/src/services/renderfarm.service.ts with the handlers of the    *)
(* agents' sockets in apps/api/src/websocket/index.ts.  Every handler runs *)
(* to its end without an await, so each is one step; a handler is an       *)
(* operator from the farm it finds to the set of farms it may leave.       *)
(*                                                                         *)
(* Ids are random in the code.  Here workers and jobs are numbered in the  *)
(* order they are registered and submitted, which is the order of the      *)
(* code's Maps.                                                            *)
(*                                                                         *)
(* A farm is a record f with                                               *)
(*   status    of each worker ("new": not registered yet, "removed": no    *)
(*             longer)                                                     *)
(*   current   currentJobId of each worker                                 *)
(*   job       the status of each job ("new": not submitted yet)           *)
(*   assigned  assignedNodeIds of each job                                 *)
(*   created   createdAt of each job, from the start: when it is submitted *)
(*             never depends on what happens before                        *)
(*   outbox    the job:assign messages of the handler: pairs <<w, j>>      *)
(* Left out: progress, segments, metrics, artifacts and the broadcasts to  *)
(* the user interface; "draining" and "concatenating", which nothing in    *)
(* the program sets (drainWorker and handleSegmentComplete have no caller).*)
(***************************************************************************)
EXTENDS Integers, FiniteSets

CONSTANTS
  Workers,    \* bound: the workers ever registered, 1..n
  Jobs,       \* bound: the jobs ever submitted, 1..n
  Priority,   \* JOB_PRIORITY_WEIGHT of each job's priority
  SubmittedAt,\* Date.now() when each job is submitted
  Matches,    \* matchesWorkerToJob: the pairs <<w, j>> it holds for
  NoJob       \* null

ASSUME FarmAssumption ==
  /\ Workers \subseteq Nat /\ Jobs \subseteq Nat
  /\ Priority \in [Jobs -> Int] /\ SubmittedAt \in [Jobs -> Int]
  /\ \A j, k \in Jobs : j < k => SubmittedAt[j] <= SubmittedAt[k]
  /\ Matches \subseteq Workers \X Jobs
  /\ NoJob \notin Jobs

Present  == {"idle", "busy", "offline", "error"}
Active   == {"queued", "encoding", "paused"}
Finished == {"completed", "failed", "cancelled"}

FarmType ==
  [ status : [Workers -> Present \cup {"new", "removed"}],
    current : [Workers -> Jobs \cup {NoJob}],
    job : [Jobs -> Active \cup Finished \cup {"new"}],
    assigned : [Jobs -> SUBSET Workers],
    created : [Jobs -> Int],
    outbox : SUBSET (Workers \X Jobs) ]

EmptyFarm ==
  [ status |-> [w \in Workers |-> "new"], current |-> [w \in Workers |-> NoJob],
    job |-> [j \in Jobs |-> "new"], assigned |-> [j \in Jobs |-> {}],
    created |-> SubmittedAt, outbox |-> {} ]

Registered(f) == { w \in Workers : f.status[w] \in Present }
IdleWorkers(f) == { w \in Workers : f.status[w] = "idle" }
PendingJobs(f) == { j \in Jobs : f.job[j] = "queued" }

-----------------------------------------------------------------------------
(* Scheduling *)

\* Mutant of Before: the order of submission only.
BeforeBySubmission(f, j, k) == j < k

\* The order of getJobs(): a stable sort of the Map's order.
Before(f, j, k) ==
  \/ Priority[j] > Priority[k]
  \/ /\ Priority[j] = Priority[k]
     /\ \/ f.created[j] < f.created[k]
        \/ f.created[j] = f.created[k] /\ j < k

\* j is the first of the jobs P that worker w can do.
IsFirst(f, j, w, P) ==
  /\ j \in P /\ <<w, j>> \in Matches
  /\ \A k \in P \ {j} : <<w, k>> \in Matches => Before(f, j, k)

\* What scheduleNext() gives to each idle worker (there is one such function):
\* the first pending job it can do that no worker before it has taken.
Plans(f) ==
  { A \in [IdleWorkers(f) -> PendingJobs(f) \cup {NoJob}] :
      \A w \in IdleWorkers(f) :
        LET P == PendingJobs(f) \ { A[v] : v \in { u \in IdleWorkers(f) : u < w } }
        IN  IF \E j \in P : <<w, j>> \in Matches
            THEN IsFirst(f, A[w], w, P)
            ELSE A[w] = NoJob }

\* Mutant of Assigned: the job is not taken off the queue.
AssignedStillQueued(f, A) ==
  LET W == { w \in DOMAIN A : A[w] # NoJob }
  IN  [f EXCEPT
         !.assigned = [j \in Jobs |-> @[j] \cup { w \in W : A[w] = j }],
         !.status = [w \in Workers |-> IF w \in W THEN "busy" ELSE @[w]],
         !.current = [w \in Workers |-> IF w \in W THEN A[w] ELSE @[w]],
         !.outbox = @ \cup { <<w, A[w]>> : w \in W }]

\* assignJobToAgent() for every worker the plan A has a job for.
Assigned(f, A) ==
  LET W == { w \in DOMAIN A : A[w] # NoJob }
  IN  [f EXCEPT
         !.job = [j \in Jobs |-> IF \E w \in W : A[w] = j THEN "encoding" ELSE @[j]],
         !.assigned = [j \in Jobs |-> @[j] \cup { w \in W : A[w] = j }],
         !.status = [w \in Workers |-> IF w \in W THEN "busy" ELSE @[w]],
         !.current = [w \in Workers |-> IF w \in W THEN A[w] ELSE @[w]],
         !.outbox = @ \cup { <<w, A[w]>> : w \in W }]

ScheduleNext(f) == { Assigned(f, A) : A \in Plans(f) }

-----------------------------------------------------------------------------
(* Jobs *)

\* The workers that the end of job j sets free.
Holders(f, j) == { w \in f.assigned[j] \cap Registered(f) : f.current[w] = j }

Freed(f, S) ==
  [f EXCEPT !.status = [w \in Workers |-> IF w \in S THEN "idle" ELSE @[w]],
            !.current = [w \in Workers |-> IF w \in S THEN NoJob ELSE @[w]]]

SubmitJob(f, j) == ScheduleNext([f EXCEPT !.job[j] = "queued"])

\* Mutants of JobEnded: a job that has left the map is ended again; its workers
\* are not set free.
JobEndedAgain(f, j, outcome) ==
  ScheduleNext([Freed(f, Holders(f, j)) EXCEPT !.job[j] = outcome])

JobEndedUnfreed(f, j, outcome) ==
  IF f.job[j] \in Active THEN ScheduleNext([f EXCEPT !.job[j] = outcome]) ELSE {f}

\* handleJobComplete() and handleJobFailed(): nothing for a job that is no longer
\* (or never was) in the map `jobs`.
JobEnded(f, j, outcome) ==
  IF f.job[j] \in Active
  THEN ScheduleNext([Freed(f, Holders(f, j)) EXCEPT !.job[j] = outcome])
  ELSE {f}

\* cancelJob(): neither the agent nor the scheduler hears of it.
CancelJob(f, j) ==
  [Freed(f, Holders(f, j)) EXCEPT !.job[j] = "cancelled", !.assigned[j] = {}]

PauseJob(f, j) == [f EXCEPT !.job[j] = "paused"]

ResumeJob(f, j) == ScheduleNext([f EXCEPT !.job[j] = "queued"])

\* The message render:queue:pause.
PauseQueue(f) ==
  [f EXCEPT !.job = [j \in Jobs |-> IF @[j] = "queued" THEN "paused" ELSE @[j]]]

\* Job j has index i in getJobs().
IsAt(f, j, i) ==
  /\ f.job[j] \in Active
  /\ Cardinality({ k \in Jobs \ {j} : f.job[k] \in Active /\ Before(f, k, j) }) = i

\* The createdAt that PUT /queue/reorder computes for index i, when there are n jobs
\* (one value: each index is some job's).  The job that moves is counted as well.
MomentOf(f, i, n) ==
  IF i <= 0 THEN { f.created[k] - 1 : k \in { k \in Jobs : IsAt(f, k, 0) } }
  ELSE IF i >= n - 1 THEN { f.created[k] + 1 : k \in { k \in Jobs : IsAt(f, k, n - 1) } }
  ELSE { (f.created[p[1]] + f.created[p[2]]) \div 2 :
           p \in { p \in Jobs \X Jobs : IsAt(f, p[1], i - 1) /\ IsAt(f, p[2], i) } }

\* PUT /queue/reorder of job j to index i.  Nothing is scheduled.
ReorderJob(f, j, i) ==
  { [f EXCEPT !.created[j] = t] :
      t \in MomentOf(f, i, Cardinality({ k \in Jobs : f.job[k] \in Active })) }

-----------------------------------------------------------------------------
(* Workers *)

RegisterWorker(f, w) == ScheduleNext([f EXCEPT !.status[w] = "idle"])

Heartbeat(f, w, s) ==
  IF w \in Registered(f) THEN [f EXCEPT !.status[w] = s] ELSE f

\* Ending the job of worker w, if it has one.
JobOfWorkerFailed(f, w) ==
  IF f.current[w] = NoJob THEN {f} ELSE JobEnded(f, f.current[w], "failed")

\* removeWorker(): what the worker's job leaves behind is scheduled while the
\* worker is still in the map.
RemoveWorker(f, w) ==
  { [g EXCEPT !.status[w] = "removed", !.current[w] = NoJob] : g \in JobOfWorkerFailed(f, w) }

\* checkStaleWorkers() for a worker it finds stale.  The code goes through all
\* workers in one step; finding one after the other is the same as finding each
\* in a run of the timer of its own, between which nothing else happened.
StaleWorker(f, w) ==
  { [g EXCEPT !.current[w] = NoJob] :
      g \in JobOfWorkerFailed([f EXCEPT !.status[w] = "offline"], w) }

\* job:complete, job:failed, job:cancelled and job:reject from the socket of w.
EndReported(f, w, j, outcome) ==
  { Heartbeat(g, w, "idle") : g \in JobEnded(f, j, outcome) }

\* job:started, job:queued and job:retrying; health.
BusyReported(f, w) == Heartbeat(f, w, "busy")

\* Mutant of HealthReported: a status the coordinator does not know.
HealthReportedRaw(f, w, healthy) == Heartbeat(f, w, IF healthy THEN "idle" ELSE "unhealthy")

HealthReported(f, w, healthy) == Heartbeat(f, w, IF healthy THEN "idle" ELSE "error")

=============================================================================
