------------------------------ MODULE RenderAgent ------------------------------
(***************************************************************************)
(* The render agent (class RenderAgent in                                  *)
(* packages/render-agent/src/index.ts): one process that takes jobs from   *)
(* the coordinator over a WebSocket, keeps them in a JobQueue and runs     *)
(* them on its workers.                                                    *)
(*                                                                         *)
(* The agent is one JavaScript thread, so a step here is what runs between *)
(* two awaits.  startJob() awaits twice: for its pre-flight health check   *)
(* and for the worker it dispatches to; a call of startJob() is an attempt *)
(* that is first in "preflight" and then in "dispatch", and everything     *)
(* else may happen in between.  Health, outcomes of the workers, the       *)
(* network and the coordinator's messages are the environment.             *)
(*                                                                         *)
(* All jobs are of the kinds RenderWorker takes, the only kinds the        *)
(* coordinator assigns.  The one RenderWorker is shared by all of them,    *)
(* and so is its flag `cancelled`.  Progress reports, currentJobId and the *)
(* age boost (StarvationThreshold = 0; see JobQueueMachine) are left out.  *)
(***************************************************************************)
EXTENDS JobQueue, Sequences

CONSTANTS
  MaxConcurrent,   \* config.maxConcurrentJobs
  Supported,       \* jobs whose type is enabled on this node
  HealthReports,   \* what health checks may find: a subset of BOOLEAN
  MemoryPressure,  \* whether the memory monitor of a render may ever act
  Slots            \* bound: how many attempts of one job can be under way

ASSUME AgentAssumption ==
  /\ MaxConcurrent \in Nat /\ Supported \subseteq Jobs
  /\ HealthReports \subseteq BOOLEAN /\ MemoryPressure \in BOOLEAN
  /\ Slots \subseteq Nat \ {0} /\ IsFiniteSet(Slots)

VARIABLES
  q,            \* jobQueue
  phase,        \* the attempts (calls of startJob) of each job
  active,       \* the keys of activeJobs
  controller,   \* router.activeAbortControllers: the attempt each job's entry is of
  cancelled,    \* renderWorker.cancelled
  status,       \* nodeInfo.status
  conn,         \* the WebSocket: "closed", "connecting" or "open"
  disposed,     \* the flag of that name
  down,         \* disconnect() has run to its end
  sent          \* the messages sent by the last step

agentVars == <<q, phase, active, controller, cancelled, status, conn,
               disposed, down, sent>>

MessageType ==
  {"register", "unregister", "health", "job:queued", "job:started", "job:retrying",
   "job:complete", "job:failed", "job:cancelled", "job:reject"}

\* Of messages that are about no job (jobs are not numbered 0).
NoJob == 0

AgentTypeOK ==
  /\ q \in QueueType
  /\ phase \in [Jobs -> [Slots -> {"free", "preflight", "dispatch"}]]
  /\ active \subseteq Jobs
  /\ controller \in [Jobs -> Slots \cup {0}]
  /\ cancelled \in BOOLEAN
  /\ status \in {"offline", "idle", "busy", "error"}
  /\ conn \in {"closed", "connecting", "open"}
  /\ disposed \in BOOLEAN /\ down \in BOOLEAN
  /\ sent \in Seq([type : MessageType, job : Jobs \cup {NoJob}, healthy : BOOLEAN])

AgentInit ==
  /\ q = EmptyQueue
  /\ phase = [j \in Jobs |-> [n \in Slots |-> "free"]]
  /\ active = {} /\ controller = [j \in Jobs |-> 0]
  /\ cancelled = FALSE /\ status = "offline" /\ conn = "closed"
  /\ disposed = FALSE /\ down = FALSE /\ sent = <<>>

-----------------------------------------------------------------------------
(* Messages and attempts *)

About(type, j) == [type |-> type, job |-> j, healthy |-> TRUE]

\* send(): nothing leaves unless the socket is open.
Send(m) == sent' = IF conn = "open" THEN <<m>> ELSE <<>>

Free(ph, j) == { n \in Slots : ph[j][n] = "free" }

\* The attempts once startJob() has been called for every job of S.
Started(ph, S) ==
  [j \in Jobs |->
     IF j \in S
     THEN [ph[j] EXCEPT ![CHOOSE n \in Free(ph, j) : \A m \in Free(ph, j) : n <= m] = "preflight"]
     ELSE ph[j]]

\* The bound Slots leaves room for one more attempt of every job of S.
Room(ph, S) == \A j \in S : Free(ph, j) # {}

Ended(j, n) == [phase EXCEPT ![j][n] = "free"]

\* dequeue() of every job of S in turn.
DequeueEach(x, S) ==
  [x EXCEPT !.st = [j \in Jobs |-> IF j \in S THEN "running" ELSE @[j]],
            !.timer = [j \in Jobs |-> IF j \in S THEN j \in TimedJobs ELSE @[j]],
            !.pendingCount = @ - Cardinality(S), !.runningCount = @ + Cardinality(S)]

\* Mutant of ProcessNextQueued: nothing is started.
ProcessNothing(x, ph, act, stat) == q' = x /\ phase' = ph

\* processNextQueued() on queue x, attempts ph, active jobs act and status stat.
\* The attempts it starts enter activeJobs only after their health check, so the
\* loop's bound on activeJobs.size never stops it before the queue is empty.
ProcessNextQueued(x, ph, act, stat) ==
  LET S == IF Cardinality(act) < MaxConcurrent /\ stat # "error" /\ ~ disposed
           THEN Queued(x) ELSE {}
  IN  /\ Room(ph, S)
      /\ q' = DequeueEach(x, S)
      /\ phase' = Started(ph, S)

-----------------------------------------------------------------------------
(* Messages from the coordinator *)

Reject(j) ==
  /\ Send(About("job:reject", j))
  /\ UNCHANGED <<q, phase>>

\* enqueueOrStart(): reject, start at once (the queue chooses what), or queue.
Assign(j) ==
  /\ conn = "open"
  /\ IF j \notin Supported \/ q.draining \/ ~ CanEnqueue(q, j) THEN Reject(j)
     ELSE LET x == Enqueue(q, j, 0)
          IN  IF Cardinality(active) < MaxConcurrent
              THEN \E k \in Jobs :
                     /\ IsNext(x, k, 0) /\ Room(phase, {k})
                     /\ q' = Dequeue(x, k)
                     /\ phase' = Started(phase, {k})
                     /\ sent' = <<>>
              ELSE /\ q' = x /\ UNCHANGED phase
                   /\ Send(About("job:queued", j))
  /\ UNCHANGED <<active, controller, cancelled, status, conn, disposed, down>>

\* router.cancelJob() for the jobs of S: abort the controllers there are, which were new
\* when their attempts began; the abort listener is RenderWorker.cancel().
Abort(S) == cancelled' = (cancelled \/ \E j \in S : controller[j] # 0)

\* job:cancel with a job id.
CancelMessage(j) ==
  /\ conn = "open"
  /\ IF j \in active
     THEN Abort({j}) /\ UNCHANGED q
     ELSE q' = Cancel(q, j) /\ UNCHANGED cancelled
  /\ sent' = <<>>
  /\ UNCHANGED <<phase, active, controller, status, conn, disposed, down>>

\* job:cancel without one: everything that is active.
CancelAllMessage ==
  /\ conn = "open" /\ active # {}
  /\ Abort(active)
  /\ sent' = <<>>
  /\ UNCHANGED <<q, phase, active, controller, status, conn, disposed, down>>

-----------------------------------------------------------------------------
(* startJob() *)

\* The pre-flight health check comes back.
Preflight(j, n) ==
  /\ phase[j][n] = "preflight"
  /\ \E healthy \in HealthReports :
       \/ /\ ~ healthy
          /\ q' = MarkFailed(q, j, TRUE)
          /\ phase' = Ended(j, n)
          /\ Send(About("job:retrying", j))
          /\ UNCHANGED <<active, controller, cancelled, status>>
       \/ /\ healthy
          /\ active' = active \cup {j}
          /\ status' = "busy"
          /\ phase' = [phase EXCEPT ![j][n] = "dispatch"]
          /\ controller' = [controller EXCEPT ![j] = n]
          /\ cancelled' = FALSE
          /\ Send(About("job:started", j))
          /\ UNCHANGED q
  /\ UNCHANGED <<conn, disposed, down>>

\* The `finally` of startJob(), on what the try or catch has left.
Finally(j, n, x, stat) ==
  LET act == active \ {j}
      s   == IF act = {} /\ stat \in {"busy", "error"} THEN "idle" ELSE stat
  IN  /\ active' = act
      /\ controller' = [controller EXCEPT ![j] = 0]
      /\ status' = s
      /\ ProcessNextQueued(x, Ended(j, n), act, s)

\* Mutant of DispatchCancelled: the entry is cancelled only if it is still queued.
DispatchCancelledQueued(j, n) ==
  /\ phase[j][n] = "dispatch" /\ cancelled
  /\ Send(About("job:cancelled", j))
  /\ Finally(j, n, Cancel(q, j), status)
  /\ UNCHANGED <<cancelled, conn, disposed, down>>

\* Mutant of DispatchFailed: what markFailed() returns is not looked at.
DispatchFailedUnread(j, n) ==
  /\ phase[j][n] = "dispatch"
  /\ \E retryable \in BOOLEAN :
       /\ Send(About("job:failed", j))
       /\ Finally(j, n, MarkFailed(q, j, retryable), "error")
  /\ UNCHANGED <<cancelled, conn, disposed, down>>

\* The worker returns, throws that it was cancelled, or throws anything else.
DispatchCompleted(j, n) ==
  /\ phase[j][n] = "dispatch" /\ ~ cancelled
  /\ Send(About("job:complete", j))
  /\ Finally(j, n, MarkCompleted(q, j), status)
  /\ UNCHANGED <<cancelled, conn, disposed, down>>

DispatchCancelled(j, n) ==
  /\ phase[j][n] = "dispatch" /\ cancelled
  /\ Send(About("job:cancelled", j))
  /\ Finally(j, n, CancelRunning(q, j), status)
  /\ UNCHANGED <<cancelled, conn, disposed, down>>

DispatchFailed(j, n) ==
  /\ phase[j][n] = "dispatch"
  /\ \E retryable \in BOOLEAN :
       IF WillRetry(q, j, retryable)
       THEN /\ Send(About("job:retrying", j))
            /\ Finally(j, n, MarkFailed(q, j, retryable), status)
       ELSE /\ Send(About("job:failed", j))
            /\ Finally(j, n, MarkFailed(q, j, retryable), "error")
  /\ UNCHANGED <<cancelled, conn, disposed, down>>

\* The memory monitor of the worker cancels whatever the worker runs.
MemoryMonitor ==
  /\ MemoryPressure
  /\ \E j \in Jobs, n \in Slots : phase[j][n] = "dispatch"
  /\ cancelled' = TRUE
  /\ sent' = <<>>
  /\ UNCHANGED <<q, phase, active, controller, status, conn, disposed, down>>

-----------------------------------------------------------------------------
(* Timers *)

\* handleJobTimeout() with the agent's handler, router.cancelJob().
JobTimer(j) ==
  /\ q.timer[j] /\ q.st[j] = "running"
  /\ q' = TimeoutEntry(q, j)
  /\ Abort({j})
  /\ sent' = <<>>
  /\ UNCHANGED <<phase, active, controller, status, conn, disposed, down>>

\* runHealthCheck(), with what it finds.
HealthTimer(healthy) ==
  /\ ~ disposed
  /\ healthy \in HealthReports
  /\ Send([type |-> "health", job |-> NoJob, healthy |-> healthy])
  /\ IF healthy /\ status = "error" /\ active = {}
     THEN /\ status' = "idle"
          /\ ProcessNextQueued(q, phase, active, "idle")
     ELSE /\ status' = IF ~ healthy /\ status = "idle" THEN "error" ELSE status
          /\ UNCHANGED <<q, phase>>
  /\ UNCHANGED <<active, controller, cancelled, conn, disposed, down>>

FairScheduler ==
  /\ \A d \in Drains : q.drain[d] # "resolved"
  /\ q' = [q EXCEPT !.ahead = Reordered(q, 0)]
  /\ sent' = <<>>
  /\ UNCHANGED <<phase, active, controller, cancelled, status, conn, disposed, down>>

-----------------------------------------------------------------------------
(* Connection and shutdown *)

\* establishConnection(), called by connect() and by the reconnect timer.
Connect ==
  /\ conn = "closed" /\ ~ disposed
  /\ conn' = "connecting"
  /\ sent' = <<>>
  /\ UNCHANGED <<q, phase, active, controller, cancelled, status, disposed, down>>

\* Mutant of Open: after a reconnection the node says idle whatever it runs.
OpenIdle ==
  /\ conn = "connecting"
  /\ conn' = "open"
  /\ status' = "idle"
  /\ sent' = <<About("register", NoJob)>>
  /\ UNCHANGED <<q, phase, active, controller, cancelled, disposed, down>>

\* onOpen(), of the first connection and of every reconnection; it does not look
\* at the flag `disposed`.
Open ==
  /\ conn = "connecting"
  /\ conn' = "open"
  /\ status' = IF active # {} THEN "busy" ELSE "idle"
  /\ sent' = <<About("register", NoJob)>>
  /\ UNCHANGED <<q, phase, active, controller, cancelled, disposed, down>>

\* The connection is lost or never made: onClose().  What runs keeps running.
Close ==
  /\ conn # "closed"
  /\ conn' = "closed"
  /\ status' = IF disposed THEN status ELSE "offline"
  /\ sent' = <<>>
  /\ UNCHANGED <<q, phase, active, controller, cancelled, disposed, down>>

\* disconnect() up to its await: the queue drains.
Disconnect(d) ==
  /\ ~ disposed
  /\ disposed' = TRUE
  /\ q' = Drain(q, d)
  /\ sent' = <<>>
  /\ UNCHANGED <<phase, active, controller, cancelled, status, conn, down>>

SafetyTimer(d) ==
  /\ q.safety[d]
  /\ q' = SafetyTimeout(q, d)
  /\ sent' = <<>>
  /\ UNCHANGED <<phase, active, controller, cancelled, status, conn, disposed, down>>

\* disconnect() once the drain has resolved.  cancelAll() reaches RenderWorker
\* twice, through the controllers and directly.
Disconnected(d) ==
  /\ q.drain[d] = "resolved" /\ ~ down
  /\ down' = TRUE
  /\ q' = Dispose(q)
  /\ IF active # {}
     THEN cancelled' = TRUE
     ELSE UNCHANGED cancelled
  /\ Send(About("unregister", NoJob))
  /\ conn' = "closed"
  /\ status' = "offline"
  /\ UNCHANGED <<phase, active, controller, disposed>>

-----------------------------------------------------------------------------

\* The steps of the agent itself, as opposed to its environment's.
AttemptStep(j, n) ==
  \/ Preflight(j, n)
  \/ DispatchCompleted(j, n) \/ DispatchCancelled(j, n) \/ DispatchFailed(j, n)

TimerStep ==
  \/ \E j \in Jobs : JobTimer(j)
  \/ \E healthy \in BOOLEAN : HealthTimer(healthy)
  \/ FairScheduler
  \/ MemoryMonitor

ShutdownStep(d) == SafetyTimer(d) \/ Disconnected(d)

ConnectionStep == Connect \/ Open \/ Close

AgentNext ==
  \/ \E j \in Jobs, n \in Slots : AttemptStep(j, n)
  \/ TimerStep
  \/ \E d \in Drains : Disconnect(d) \/ ShutdownStep(d)
  \/ ConnectionStep

=============================================================================
