--------------------------- MODULE RenderFarmProofs ----------------------------
(***************************************************************************)
(* What RenderFarmMachine keeps for any number of workers and jobs.  The   *)
(* handlers are compositions of few operators, so the lemmas follow those: *)
(* what a change of the farm before scheduling must respect (Prepared),    *)
(* what scheduling adds to it (Good), and what may be done afterwards.     *)
(***************************************************************************)
EXTENDS RenderFarmMachine, FiniteSetTheorems, TLAPS

Waiting == {"new", "queued"}

\* The inductive strengthening of CurrentIsAssigned: it holds of every worker, and
\* only workers in the map have a job.
FarmOK(f) ==
  /\ f \in FarmType
  /\ \A w \in Workers :
       f.current[w] # NoJob =>
         /\ f.status[w] \in Present
         /\ f.job[f.current[w]] \in Active
         /\ w \in f.assigned[f.current[w]]

\* From farm f to farm g no job leaves a final state, and none but those of R starts
\* to wait again.
Progress(f, g, R) ==
  \A j \in Jobs :
    /\ f.job[j] \in Finished => g.job[j] = f.job[j]
    /\ g.job[j] \in Waiting => f.job[j] \in Waiting \/ j \in R

\* The assignments sent from f to g are of jobs that waited, do not wait any more,
\* and go to one worker each.
Deliveries(f, g, R) ==
  /\ \A w \in Workers, j \in Jobs :
       <<w, j>> \in g.outbox =>
         /\ f.job[j] \in Waiting \/ j \in R
         /\ g.job[j] \notin Waiting
  /\ \A v, w \in Workers, j \in Jobs :
       <<v, j>> \in g.outbox /\ <<w, j>> \in g.outbox => v = w

\* No job is started from f to g, nor its place in the order changed.
Unstarted(f, g) ==
  /\ g.created = f.created
  /\ \A j \in Jobs : g.job[j] = "encoding" => f.job[j] = "encoding"

\* A job j that is started from f to g has no job k before it that still waits in g,
\* but those that a worker of j cannot do.
InOrder(f, g) ==
  \A j, k \in Jobs :
    f.job[j] # "encoding" /\ g.job[j] = "encoding" /\ g.job[k] = "queued" =>
      \/ Priority[j] > Priority[k]
      \/ Priority[j] = Priority[k] /\ f.created[j] <= f.created[k]
      \/ \E w \in g.assigned[j] : <<w, k>> \notin Matches

Prepared(f, g, R) ==
  FarmOK(g) /\ g.outbox = {} /\ Progress(f, g, R) /\ Unstarted(f, g)

Good(f, g, R) ==
  FarmOK(g) /\ Progress(f, g, R) /\ Deliveries(f, g, R) /\ InOrder(f, g)

-----------------------------------------------------------------------------
(* Scheduling *)

\* Scheduling keeps FarmOK, touches waiting jobs only, gives each to one worker, and
\* passes over no job that a worker can do: such a job is either taken by a worker
\* before it, or behind the one it takes.
LEMMA ScheduleGood ==
  ASSUME NEW f, FarmOK(f), f.outbox = {}, NEW g \in ScheduleNext(f)
  PROVE  Good(f, g, {})
<1>1. PICK A \in Plans(f) : g = Assigned(f, A)
  BY DEF ScheduleNext
<1> DEFINE W == { w \in DOMAIN A : A[w] # NoJob }
<1>2. f \in FarmType
  BY DEF FarmOK
<1>3. /\ g = [status |-> g.status, current |-> g.current, job |-> g.job,
              assigned |-> g.assigned, created |-> g.created, outbox |-> g.outbox]
      /\ g.created = f.created
      /\ g.job = [j \in Jobs |-> IF \E w \in W : A[w] = j THEN "encoding" ELSE f.job[j]]
      /\ g.assigned = [j \in Jobs |-> f.assigned[j] \cup { w \in W : A[w] = j }]
      /\ g.status = [w \in Workers |-> IF w \in W THEN "busy" ELSE f.status[w]]
      /\ g.current = [w \in Workers |-> IF w \in W THEN A[w] ELSE f.current[w]]
      /\ g.outbox = f.outbox \cup { <<w, A[w]>> : w \in W }
  BY <1>1, <1>2 DEF Assigned, FarmType
<1>4. W \subseteq Workers /\ \A w \in W : A[w] \in PendingJobs(f)
  BY DEF Plans, IdleWorkers
<1>5. \A w \in W : A[w] \in Jobs /\ f.job[A[w]] = "queued"
  BY <1>4 DEF PendingJobs
<1>6. \A v, w \in W : A[v] = A[w] => v = w
  <2>0. W \subseteq Nat
    BY <1>4, FarmAssumption
  <2> SUFFICES ASSUME NEW v \in W, NEW w \in W, v < w PROVE A[v] # A[w]
    <3> HIDE DEF W
    <3>1. \A v, w \in W : v < w \/ w < v \/ v = w
      BY <2>0
    <3> QED
      BY <3>1
  <2>1. v \in IdleWorkers(f) /\ w \in IdleWorkers(f)
    BY DEF Plans
  <2> DEFINE P == PendingJobs(f) \ { A[u] : u \in { x \in IdleWorkers(f) : x < w } }
  <2>2. A[w] \in P
    BY <2>1 DEF Plans, IsFirst
  <2> QED
    BY <2>1, <2>2
<1> HIDE DEF W
<1>7. g \in FarmType
  <2>1. g.job \in [Jobs -> Active \cup Finished \cup {"new"}]
    BY <1>2, <1>3 DEF FarmType, Active
  <2>2. g.assigned \in [Jobs -> SUBSET Workers]
    BY <1>2, <1>3, <1>4 DEF FarmType
  <2>3. g.status \in [Workers -> Present \cup {"new", "removed"}]
    BY <1>2, <1>3 DEF FarmType, Present
  <2>4. g.current \in [Workers -> Jobs \cup {NoJob}]
    BY <1>2, <1>3, <1>5 DEF FarmType
  <2>5. g.outbox \in SUBSET (Workers \X Jobs)
    BY <1>2, <1>3, <1>4, <1>5 DEF FarmType
  <2>6. g.created \in [Jobs -> Int]
    BY <1>2, <1>3 DEF FarmType
  <2> QED
    BY <1>3, <2>1, <2>2, <2>3, <2>4, <2>5, <2>6 DEF FarmType
<1>8. ASSUME NEW w \in Workers, g.current[w] # NoJob
      PROVE  /\ g.status[w] \in Present
             /\ g.job[g.current[w]] \in Active
             /\ w \in g.assigned[g.current[w]]
  <2>1. CASE w \in W
    <3>1. g.current[w] = A[w] /\ A[w] \in Jobs
      BY <1>3, <1>5, <2>1
    <3> QED
      BY <1>3, <2>1, <3>1 DEF Present, Active
  <2>2. CASE w \notin W
    <3>1. g.current[w] = f.current[w] /\ g.status[w] = f.status[w]
      BY <1>3, <2>2
    <3>2. f.current[w] \in Jobs
      BY <1>2, <1>8, <3>1 DEF FarmType
    <3>3. f.status[w] \in Present /\ f.job[f.current[w]] \in Active /\ w \in f.assigned[f.current[w]]
      BY <1>8, <3>1 DEF FarmOK
    <3> QED
      BY <1>3, <3>1, <3>2, <3>3 DEF Active
  <2> QED
    BY <2>1, <2>2
<1>9. Progress(f, g, {})
  BY <1>3, <1>5 DEF Progress, Finished, Waiting
<1>10. Deliveries(f, g, {})
  <2>1. \A w \in Workers, j \in Jobs : <<w, j>> \in g.outbox => w \in W /\ A[w] = j
    BY <1>3
  <2> QED
    BY <1>3, <1>5, <1>6, <2>1 DEF Deliveries, Waiting
<1>11. InOrder(f, g)
  <2> SUFFICES ASSUME NEW j \in Jobs, NEW k \in Jobs, f.job[j] # "encoding",
                      g.job[j] = "encoding", g.job[k] = "queued"
      PROVE  \/ Priority[j] > Priority[k]
             \/ Priority[j] = Priority[k] /\ f.created[j] <= f.created[k]
             \/ \E w \in g.assigned[j] : <<w, k>> \notin Matches
    BY DEF InOrder
  <2>1. PICK w \in W : A[w] = j
    BY <1>3
  <2>2. w \in g.assigned[j]
    BY <1>3, <2>1
  <2>3. f.job[k] = "queued" /\ (\A v \in W : A[v] # k) /\ k # j
    BY <1>3
  <2> DEFINE P == PendingJobs(f) \ { A[v] : v \in { u \in IdleWorkers(f) : u < w } }
  <2>4. \A v \in IdleWorkers(f) : A[v] # k
    <3>1. \A v \in IdleWorkers(f) : A[v] = k => v \in W
      BY FarmAssumption DEF W, Plans
    <3> QED
      BY <2>3, <3>1
  <2>5. k \in P \ {j}
    BY <2>3, <2>4 DEF PendingJobs
  <2>6. w \in IdleWorkers(f) /\ A[w] # NoJob
    BY <2>1 DEF W, Plans
  <2>7. IsFirst(f, j, w, P)
    BY <2>1, <2>6 DEF Plans
  <2>8. <<w, k>> \in Matches => Before(f, j, k)
    BY <2>5, <2>7 DEF IsFirst
  <2>9. f.created \in [Jobs -> Int]
    BY <1>2 DEF FarmType
  <2> QED
    BY <2>2, <2>8, <2>9 DEF Before
<1> QED
  BY <1>7, <1>8, <1>9, <1>10, <1>11 DEF Good, FarmOK

\* A prepared farm may be scheduled.
LEMMA PreparedSchedule ==
  ASSUME NEW f, NEW h, NEW R, Prepared(f, h, R), NEW g \in ScheduleNext(h)
  PROVE  Good(f, g, R)
<1>1. Good(h, g, {})
  BY ScheduleGood DEF Prepared
<1>2. Progress(f, g, R) /\ Deliveries(f, g, R)
  BY <1>1 DEF Good, Prepared, Progress, Deliveries
<1>3. InOrder(f, g)
  BY <1>1 DEF Good, Prepared, Unstarted, InOrder
<1> QED
  BY <1>1, <1>2, <1>3 DEF Good

\* A prepared farm may be left as it is.
LEMMA PreparedGood ==
  ASSUME NEW f, NEW h, NEW R, Prepared(f, h, R)
  PROVE  Good(f, h, R)
BY DEF Prepared, Good, Deliveries, Unstarted, InOrder

-----------------------------------------------------------------------------
(* Changes before and after scheduling *)

\* The end of a job frees exactly the workers that pointed at it.
LEMMA FreedPrepared ==
  ASSUME NEW f, FarmOK(f), f.outbox = {}, NEW j \in Jobs, f.job[j] \in Active,
         NEW outcome \in Finished, NEW B \in {{}, f.assigned[j]}, NEW h,
         h = [Freed(f, Holders(f, j)) EXCEPT !.job[j] = outcome, !.assigned[j] = B]
  PROVE  Prepared(f, h, {})
<1> DEFINE S == Holders(f, j)
<1>1. f \in FarmType
  BY DEF FarmOK
<1>2. /\ h = [status |-> h.status, current |-> h.current, job |-> h.job,
              assigned |-> h.assigned, created |-> h.created, outbox |-> h.outbox]
      /\ h.created = f.created
      /\ h.job = [f.job EXCEPT ![j] = outcome]
      /\ h.assigned = [f.assigned EXCEPT ![j] = B]
      /\ h.status = [w \in Workers |-> IF w \in S THEN "idle" ELSE f.status[w]]
      /\ h.current = [w \in Workers |-> IF w \in S THEN NoJob ELSE f.current[w]]
      /\ h.outbox = {}
  BY <1>1 DEF Freed, FarmType
<1>3. \A w \in Workers : f.current[w] = j => w \in S
  <2> SUFFICES ASSUME NEW w \in Workers, f.current[w] = j PROVE w \in S
    OBVIOUS
  <2>1. f.current[w] # NoJob
    BY FarmAssumption
  <2> QED
    BY <2>1 DEF FarmOK, Holders, Registered
<1> HIDE DEF S
<1>4. h \in FarmType
  <2>0. /\ f.job \in [Jobs -> Active \cup Finished \cup {"new"}]
        /\ f.assigned \in [Jobs -> SUBSET Workers]
    BY <1>1 DEF FarmType
  <2>1. h.job \in [Jobs -> Active \cup Finished \cup {"new"}]
    <3>1. h.job = [f.job EXCEPT ![j] = outcome]
      BY <1>2
    <3> QED
      BY <2>0, <3>1
  <2>2. h.assigned \in [Jobs -> SUBSET Workers]
    <3>1. h.assigned = [f.assigned EXCEPT ![j] = B]
      BY <1>2
    <3>2. B \in SUBSET Workers
      BY <2>0
    <3> QED
      BY <2>0, <3>1, <3>2
  <2>3. h.status \in [Workers -> Present \cup {"new", "removed"}]
    BY <1>1, <1>2 DEF FarmType, Present
  <2>4. h.current \in [Workers -> Jobs \cup {NoJob}]
    BY <1>1, <1>2 DEF FarmType
  <2>5. h.created \in [Jobs -> Int]
    BY <1>1, <1>2 DEF FarmType
  <2> QED
    BY <1>2, <2>1, <2>2, <2>3, <2>4, <2>5 DEF FarmType
<1>5. ASSUME NEW w \in Workers, h.current[w] # NoJob
      PROVE  /\ h.status[w] \in Present
             /\ h.job[h.current[w]] \in Active
             /\ w \in h.assigned[h.current[w]]
  <2>1. w \notin S /\ h.current[w] = f.current[w] /\ h.status[w] = f.status[w]
    BY <1>2, <1>5
  <2>2. f.current[w] \in Jobs /\ f.current[w] # j
    BY <1>1, <1>3, <1>5, <2>1 DEF FarmType
  <2>3. f.status[w] \in Present /\ f.job[f.current[w]] \in Active /\ w \in f.assigned[f.current[w]]
    BY <1>5, <2>1 DEF FarmOK
  <2>4. f.job \in [Jobs -> Active \cup Finished \cup {"new"}] /\ f.assigned \in [Jobs -> SUBSET Workers]
    BY <1>1 DEF FarmType
  <2> QED
    BY <1>2, <2>1, <2>2, <2>3, <2>4
<1>6. Progress(f, h, {})
  BY <1>1, <1>2 DEF Progress, Finished, Active, Waiting, FarmType
<1>7. Unstarted(f, h)
  BY <1>1, <1>2 DEF Unstarted, Finished, FarmType
<1> QED
  BY <1>2, <1>4, <1>5, <1>6, <1>7 DEF Prepared, FarmOK

\* A farm that is left alone is good.
LEMMA SameGood ==
  ASSUME NEW f, FarmOK(f), f.outbox = {}
  PROVE  Good(f, f, {}) /\ Prepared(f, f, {})
BY DEF Good, Prepared, Progress, Deliveries, Unstarted, InOrder

\* handleJobComplete and handleJobFailed.
LEMMA JobEndedGood ==
  ASSUME NEW f, FarmOK(f), f.outbox = {}, NEW j \in Jobs, NEW outcome \in Finished,
         NEW g \in JobEnded(f, j, outcome)
  PROVE  Good(f, g, {})
<1>1. CASE f.job[j] \in Active
  <2> DEFINE h == [Freed(f, Holders(f, j)) EXCEPT !.job[j] = outcome]
  <2>1. g \in ScheduleNext(h)
    BY <1>1 DEF JobEnded
  <2>2. h = [Freed(f, Holders(f, j)) EXCEPT !.job[j] = outcome, !.assigned[j] = f.assigned[j]]
    <3>1. f.assigned = [f.assigned EXCEPT ![j] = f.assigned[j]]
      BY DEF FarmOK, FarmType
    <3>2. f \in FarmType
      BY DEF FarmOK
    <3> QED
      BY <3>1, <3>2 DEF Freed, FarmType
  <2>3. Prepared(f, h, {})
    BY <1>1, <2>2, FreedPrepared
  <2> QED
    BY <2>1, <2>3, PreparedSchedule
<1>2. CASE f.job[j] \notin Active
  BY <1>2, SameGood DEF JobEnded
<1> QED
  BY <1>1, <1>2

\* A heartbeat changes nothing but the status of a worker in the map.
LEMMA HeartbeatOK ==
  ASSUME NEW g, FarmOK(g), NEW w \in Workers, NEW s \in Present, NEW k, k = Heartbeat(g, w, s)
  PROVE  /\ FarmOK(k) /\ k.job = g.job /\ k.outbox = g.outbox
         /\ k.assigned = g.assigned /\ k.created = g.created
<1>1. g \in FarmType
  BY DEF FarmOK
<1>2. CASE w \in Registered(g)
  <2>1. /\ k = [g EXCEPT !.status[w] = s]
        /\ k.job = g.job /\ k.outbox = g.outbox /\ k.current = g.current
        /\ k.assigned = g.assigned /\ k.created = g.created
        /\ k.status = [g.status EXCEPT ![w] = s]
    BY <1>1, <1>2 DEF Heartbeat, FarmType
  <2>2. k \in FarmType
    BY <1>1, <2>1 DEF FarmType
  <2>3. \A v \in Workers : g.status[v] \in Present => k.status[v] \in Present
    BY <1>1, <2>1 DEF FarmType
  <2> QED
    BY <2>1, <2>2, <2>3 DEF FarmOK
<1>3. CASE w \notin Registered(g)
  BY <1>3 DEF Heartbeat
<1> QED
  BY <1>2, <1>3

\* Neither does taking a worker's job away, and then the worker may be removed.
LEMMA DetachedOK ==
  ASSUME NEW g, FarmOK(g), NEW w \in Workers, NEW k,
         \/ k = [g EXCEPT !.current[w] = NoJob]
         \/ k = [g EXCEPT !.status[w] = "removed", !.current[w] = NoJob]
  PROVE  FarmOK(k) /\ k.job = g.job /\ k.outbox = g.outbox /\ k.assigned = g.assigned
<1>1. g \in FarmType
  BY DEF FarmOK
<1>2. /\ k.job = g.job /\ k.outbox = g.outbox /\ k.assigned = g.assigned
      /\ k.current = [g.current EXCEPT ![w] = NoJob]
      /\ k.status = g.status \/ k.status = [g.status EXCEPT ![w] = "removed"]
      /\ k = [status |-> k.status, current |-> k.current, job |-> k.job,
              assigned |-> k.assigned, created |-> k.created, outbox |-> k.outbox]
      /\ k.created = g.created
  BY <1>1 DEF FarmType
<1>3. k \in FarmType
  <2>1. k.status \in [Workers -> Present \cup {"new", "removed"}]
    BY <1>1, <1>2 DEF FarmType
  <2>2. k.current \in [Workers -> Jobs \cup {NoJob}]
    BY <1>1, <1>2 DEF FarmType
  <2> QED
    BY <1>1, <1>2, <2>1, <2>2 DEF FarmType
<1>4. \A v \in Workers : k.current[v] # NoJob =>
        v # w /\ k.current[v] = g.current[v] /\ k.status[v] = g.status[v]
  BY <1>1, <1>2 DEF FarmType
<1> QED
  BY <1>2, <1>3, <1>4 DEF FarmOK

\* What keeps the jobs and the assignments of a good farm is good.
LEMMA GoodKept ==
  ASSUME NEW f, NEW g, NEW R, Good(f, g, R), NEW k, FarmOK(k), k.job = g.job,
         k.outbox = g.outbox, k.assigned = g.assigned
  PROVE  Good(f, k, R)
BY DEF Good, Progress, Deliveries, InOrder

-----------------------------------------------------------------------------
(* The handlers *)

\* What an agent reports of the end of a job.
LEMMA EndReportedGood ==
  ASSUME NEW f, FarmOK(f), f.outbox = {}, NEW w \in Workers, NEW j \in Jobs,
         NEW outcome \in Finished, NEW k \in EndReported(f, w, j, outcome)
  PROVE  Good(f, k, {})
<1>1. PICK g \in JobEnded(f, j, outcome) : k = Heartbeat(g, w, "idle")
  BY DEF EndReported
<1>2. Good(f, g, {})
  BY <1>1, JobEndedGood
<1>3. FarmOK(k) /\ k.job = g.job /\ k.outbox = g.outbox /\ k.assigned = g.assigned
  <2>1. FarmOK(g) /\ "idle" \in Present
    BY <1>2 DEF Good, Present
  <2> QED
    BY <1>1, <2>1, HeartbeatOK
<1> QED
  BY <1>2, <1>3, GoodKept

\* The job of a lost worker fails.
LEMMA JobOfWorkerFailedGood ==
  ASSUME NEW f, FarmOK(f), f.outbox = {}, NEW w \in Workers, NEW g \in JobOfWorkerFailed(f, w)
  PROVE  Good(f, g, {})
<1>1. CASE f.current[w] = NoJob
  BY <1>1, SameGood DEF JobOfWorkerFailed
<1>2. CASE f.current[w] # NoJob
  <2>1. f.current[w] \in Jobs
    BY <1>2 DEF FarmOK, FarmType
  <2>2. g \in JobEnded(f, f.current[w], "failed")
    BY <1>2 DEF JobOfWorkerFailed
  <2> QED
    BY <2>1, <2>2, JobEndedGood DEF Finished
<1> QED
  BY <1>1, <1>2

\* A worker is removed, with the job it had.
LEMMA RemoveWorkerGood ==
  ASSUME NEW f, FarmOK(f), f.outbox = {}, NEW w \in Workers, NEW k \in RemoveWorker(f, w)
  PROVE  Good(f, k, {})
<1>1. PICK g \in JobOfWorkerFailed(f, w) :
        k = [g EXCEPT !.status[w] = "removed", !.current[w] = NoJob]
  BY DEF RemoveWorker
<1>2. Good(f, g, {})
  BY <1>1, JobOfWorkerFailedGood
<1>3. FarmOK(g)
  BY <1>2 DEF Good
<1>4. FarmOK(k) /\ k.job = g.job /\ k.outbox = g.outbox /\ k.assigned = g.assigned
  BY <1>1, <1>3, DetachedOK
<1> QED
  BY <1>2, <1>4, GoodKept

\* A worker is found stale.
LEMMA StaleWorkerGood ==
  ASSUME NEW f, FarmOK(f), f.outbox = {}, NEW w \in Workers, w \in Registered(f),
         NEW k \in StaleWorker(f, w)
  PROVE  Good(f, k, {})
<1> DEFINE h == [f EXCEPT !.status[w] = "offline"]
<1>1. FarmOK(h) /\ h.job = f.job /\ h.outbox = f.outbox /\ h.created = f.created
  <2>1. h = Heartbeat(f, w, "offline")
    BY DEF Heartbeat
  <2>2. "offline" \in Present
    BY DEF Present
  <2> HIDE DEF h
  <2> QED
    BY <2>1, <2>2, HeartbeatOK
<1>2. PICK g \in JobOfWorkerFailed(h, w) : k = [g EXCEPT !.current[w] = NoJob]
  BY DEF StaleWorker
<1> HIDE DEF h
<1>3. Good(h, g, {})
  BY <1>1, <1>2, JobOfWorkerFailedGood
<1>4. Good(f, g, {})
  BY <1>1, <1>3 DEF Good, Progress, Deliveries, InOrder
<1>5. FarmOK(g)
  BY <1>3 DEF Good
<1>6. FarmOK(k) /\ k.job = g.job /\ k.outbox = g.outbox /\ k.assigned = g.assigned
  BY <1>2, <1>5, DetachedOK
<1> QED
  BY <1>4, <1>6, GoodKept

-----------------------------------------------------------------------------
(* Steps *)

\* A job outside R that some agent holds does not wait, and one agent holds it.
HeldOK(h, f, R) ==
  \A j \in Jobs \ R :
    /\ \A w \in Workers : j \in h[w] => f.job[j] \notin Waiting
    /\ \A v, w \in Workers : j \in h[v] /\ j \in h[w] => v = w

\* The inductive invariant.
IInv ==
  /\ FarmOK(farm) /\ farm.outbox = {}
  /\ held \in [Workers -> SUBSET Jobs]
  /\ open \subseteq Workers /\ resumed \subseteq Jobs
  /\ HeldOK(held, farm, resumed)

\* What a step does to the jobs.
FinalStays == \A j \in Jobs : farm.job[j] \in Finished => farm'.job[j] = farm.job[j]

\* A step of which every result is good keeps the invariant.
LEMMA LeadsOK ==
  ASSUME IInv, NEW R \in SUBSET Jobs, NEW results, NEW h \in [Workers -> SUBSET Jobs],
         NEW o \in SUBSET Workers, HeldOK(h, farm, resumed),
         \A g \in results : Good(farm, g, R),
         Leads(results, h, o), resumed' = resumed \cup R
  PROVE  IInv' /\ FinalStays /\ InOrder(farm, farm')
<1>1. PICK g \in results :
        /\ farm' = [g EXCEPT !.outbox = {}]
        /\ held' = [w \in Workers |->
                      h[w] \cup { j \in Jobs : w \in o /\ <<w, j>> \in g.outbox }]
        /\ open' = o
  BY DEF Leads
<1>2. FarmOK(g) /\ Progress(farm, g, R) /\ Deliveries(farm, g, R) /\ InOrder(farm, g)
  BY <1>1 DEF Good
<1>3. FarmOK(farm') /\ farm'.outbox = {} /\ farm'.job = g.job /\ farm'.assigned = g.assigned
  <2>1. g \in FarmType
    BY <1>2 DEF FarmOK
  <2>2. /\ farm'.job = g.job /\ farm'.status = g.status /\ farm'.current = g.current
        /\ farm'.assigned = g.assigned /\ farm'.outbox = {}
    BY <1>1, <2>1 DEF FarmType
  <2>3. farm' \in FarmType
    BY <1>1, <2>1 DEF FarmType
  <2> QED
    BY <1>2, <2>2, <2>3 DEF FarmOK
<1>4. held' \in [Workers -> SUBSET Jobs] /\ open' \subseteq Workers /\ resumed' \subseteq Jobs
  BY <1>1 DEF IInv
<1>5. FinalStays
  BY <1>2, <1>3 DEF FinalStays, Progress
<1>6. HeldOK(held', farm', resumed')
  <2> SUFFICES ASSUME NEW j \in Jobs, j \notin resumed, j \notin R
      PROVE  /\ \A w \in Workers : j \in held'[w] => farm'.job[j] \notin Waiting
             /\ \A v, w \in Workers : j \in held'[v] /\ j \in held'[w] => v = w
    BY DEF HeldOK
  <2>1. \A w \in Workers : j \in held'[w] => j \in h[w] \/ <<w, j>> \in g.outbox
    BY <1>1
  <2>2. \A w \in Workers : j \in h[w] => farm.job[j] \notin Waiting
    BY DEF HeldOK
  <2>3. \A w \in Workers : <<w, j>> \in g.outbox => farm.job[j] \in Waiting /\ g.job[j] \notin Waiting
    BY <1>2 DEF Deliveries
  <2>4. farm.job[j] \notin Waiting => g.job[j] \notin Waiting
    BY <1>2 DEF Progress
  <2>5. \A v, w \in Workers : <<v, j>> \in g.outbox /\ <<w, j>> \in g.outbox => v = w
    BY <1>2 DEF Deliveries
  <2>6. \A v, w \in Workers : j \in h[v] /\ j \in h[w] => v = w
    BY DEF HeldOK
  <2>7. \A w \in Workers : j \in held'[w] => farm'.job[j] \notin Waiting
    BY <1>3, <2>1, <2>2, <2>3, <2>4
  <2>8. \A v, w \in Workers : j \in held'[v] /\ j \in held'[w] => v = w
    BY <2>1, <2>2, <2>3, <2>5, <2>6
  <2> QED
    BY <2>7, <2>8
<1>7. InOrder(farm, farm')
  BY <1>2, <1>3 DEF InOrder
<1> QED
  BY <1>3, <1>4, <1>5, <1>6, <1>7 DEF IInv

\* The same, of a step in which no user resumes a job.
LEMMA LeadsOKUnresumed ==
  ASSUME IInv, NEW results, NEW h \in [Workers -> SUBSET Jobs], NEW o \in SUBSET Workers,
         HeldOK(h, farm, resumed), \A g \in results : Good(farm, g, {}),
         Leads(results, h, o), UNCHANGED resumed
  PROVE  IInv' /\ FinalStays /\ InOrder(farm, farm')
<1>1. resumed' = resumed \cup {}
  OBVIOUS
<1> QED
  BY <1>1, LeadsOK

\* Changing the status of jobs only, and none that points a worker at a finished job.
LEMMA JobStatusPrepared ==
  ASSUME NEW f, FarmOK(f), f.outbox = {}, NEW R,
         NEW s \in [Jobs -> Active \cup Finished \cup {"new"}],
         \A j \in Jobs : /\ f.job[j] \in Active => s[j] \in Active
                         /\ f.job[j] \in Finished => s[j] = f.job[j]
                         /\ s[j] \in Waiting => f.job[j] \in Waiting \/ j \in R
                         /\ s[j] = "encoding" => f.job[j] = "encoding",
         NEW h, h = [f EXCEPT !.job = s]
  PROVE  Prepared(f, h, R)
<1>1. f \in FarmType
  BY DEF FarmOK
<1>2. /\ h.job = s /\ h.status = f.status /\ h.current = f.current
      /\ h.assigned = f.assigned /\ h.outbox = f.outbox /\ h.created = f.created
      /\ h \in FarmType
  BY <1>1 DEF FarmType
<1>3. ASSUME NEW w \in Workers, f.current[w] # NoJob
      PROVE  /\ f.status[w] \in Present
             /\ s[f.current[w]] \in Active
             /\ w \in f.assigned[f.current[w]]
  <2>1. f.current[w] \in Jobs
    BY <1>1, <1>3 DEF FarmType
  <2> QED
    BY <1>3, <2>1 DEF FarmOK
<1>4. FarmOK(h)
  BY <1>2, <1>3 DEF FarmOK
<1> QED
  BY <1>2, <1>4 DEF Prepared, Progress, Unstarted

\* Putting one job in the queue that waits for the first time, or that R allows.
LEMMA QueuedPrepared ==
  ASSUME NEW f, FarmOK(f), f.outbox = {}, NEW R, NEW j \in Jobs,
         f.job[j] = "new" \/ (f.job[j] = "paused" /\ j \in R),
         NEW h, h = [f EXCEPT !.job[j] = "queued"]
  PROVE  Prepared(f, h, R)
<1> DEFINE s == [f.job EXCEPT ![j] = "queued"]
<1>1. f.job \in [Jobs -> Active \cup Finished \cup {"new"}]
  BY DEF FarmOK, FarmType
<1>2. s \in [Jobs -> Active \cup Finished \cup {"new"}]
  BY <1>1 DEF Active
<1>3. \A k \in Jobs : /\ f.job[k] \in Active => s[k] \in Active
                      /\ f.job[k] \in Finished => s[k] = f.job[k]
                      /\ s[k] \in Waiting => f.job[k] \in Waiting \/ k \in R
                      /\ s[k] = "encoding" => f.job[k] = "encoding"
  BY <1>1 DEF Active, Finished, Waiting
<1>4. h = [f EXCEPT !.job = s]
  OBVIOUS
<1> HIDE DEF s
<1> QED
  BY <1>2, <1>3, <1>4, JobStatusPrepared

\* A job that is paused, alone or with the others.
LEMMA PausedGood ==
  ASSUME NEW f, FarmOK(f), f.outbox = {}, NEW S \in SUBSET Jobs,
         \A j \in S : f.job[j] \in Active,
         NEW h, h = [f EXCEPT !.job = [j \in Jobs |-> IF j \in S THEN "paused" ELSE f.job[j]]]
  PROVE  Good(f, h, {})
<1> DEFINE s == [j \in Jobs |-> IF j \in S THEN "paused" ELSE f.job[j]]
<1>1. f.job \in [Jobs -> Active \cup Finished \cup {"new"}]
  BY DEF FarmOK, FarmType
<1>2. s \in [Jobs -> Active \cup Finished \cup {"new"}]
  BY <1>1 DEF Active
<1>3. \A k \in Jobs : /\ f.job[k] \in Active => s[k] \in Active
                      /\ f.job[k] \in Finished => s[k] = f.job[k]
                      /\ s[k] \in Waiting => f.job[k] \in Waiting \/ k \in {}
                      /\ s[k] = "encoding" => f.job[k] = "encoding"
  BY <1>1 DEF Active, Finished, Waiting
<1>4. h = [f EXCEPT !.job = s]
  OBVIOUS
<1> HIDE DEF s
<1>5. Prepared(f, h, {})
  BY <1>2, <1>3, <1>4, JobStatusPrepared
<1> QED
  BY <1>5, PreparedGood

\* A job that is moved.
LEMMA ReorderGood ==
  ASSUME NEW f, FarmOK(f), f.outbox = {}, NEW j \in Jobs, NEW i, NEW g \in ReorderJob(f, j, i)
  PROVE  Good(f, g, {})
<1> DEFINE n == Cardinality({ k \in Jobs : f.job[k] \in Active })
<1>1. PICK t \in MomentOf(f, i, n) : g = [f EXCEPT !.created[j] = t]
  BY DEF ReorderJob
<1>2. f \in FarmType
  BY DEF FarmOK
<1>3. f.created \in [Jobs -> Int]
  BY <1>2 DEF FarmType
<1> HIDE DEF n
<1>4. t \in Int
  BY <1>1, <1>3 DEF MomentOf
<1>5. /\ g.status = f.status /\ g.current = f.current /\ g.job = f.job
      /\ g.assigned = f.assigned /\ g.outbox = f.outbox /\ g \in FarmType
  BY <1>1, <1>2, <1>4 DEF FarmType
<1>6. FarmOK(g)
  BY <1>5 DEF FarmOK
<1> QED
  BY <1>5, <1>6 DEF Good, Progress, Deliveries, InOrder

\* A worker that enters the map idle.
LEMMA RegisteredPrepared ==
  ASSUME NEW f, FarmOK(f), f.outbox = {}, NEW w \in Workers, NEW h,
         h = [f EXCEPT !.status[w] = "idle"]
  PROVE  Prepared(f, h, {})
<1>1. f \in FarmType
  BY DEF FarmOK
<1>2. /\ h.job = f.job /\ h.current = f.current /\ h.assigned = f.assigned /\ h.outbox = {}
      /\ h.created = f.created
      /\ h.status = [f.status EXCEPT ![w] = "idle"]
  BY <1>1 DEF FarmType
<1>3. h \in FarmType
  BY <1>1 DEF FarmType, Present
<1>4. \A v \in Workers : f.status[v] \in Present => h.status[v] \in Present
  BY <1>1, <1>2 DEF FarmType, Present
<1>5. FarmOK(h)
  BY <1>2, <1>3, <1>4 DEF FarmOK
<1> QED
  BY <1>2, <1>5 DEF Prepared, Progress, Unstarted

-----------------------------------------------------------------------------
(* The actions *)

\* Submitting, cancelling, pausing, resuming and moving one job.
LEMMA JobStepOK ==
  ASSUME IInv, NEW j \in Jobs, JobStep(j)
  PROVE  IInv' /\ FinalStays /\ InOrder(farm, farm')
<1> USE DEF IInv
<1>1. CASE Submit(j)
  <2>1. \A g \in SubmitJob(farm, j) : Good(farm, g, {})
    <3>1. farm.job[j] = "new"
      BY <1>1 DEF Submit, IsNextNew
    <3>2. Prepared(farm, [farm EXCEPT !.job[j] = "queued"], {})
      BY <3>1, QueuedPrepared
    <3> QED
      BY <3>2, PreparedSchedule DEF SubmitJob
  <2> QED
    BY <1>1, <2>1, LeadsOKUnresumed DEF Submit
<1>2. CASE Cancel(j)
  <2>1. farm.job[j] \in Active /\ "cancelled" \in Finished
    BY <1>2 DEF Cancel, Finished
  <2> DEFINE h == CancelJob(farm, j)
  <2>2. h = [Freed(farm, Holders(farm, j)) EXCEPT !.job[j] = "cancelled", !.assigned[j] = {}]
    BY DEF CancelJob
  <2>3. Leads({h}, held, open) /\ UNCHANGED resumed
    BY <1>2 DEF Cancel
  <2> HIDE DEF h
  <2>4. Prepared(farm, h, {})
    BY <2>1, <2>2, FreedPrepared
  <2>5. Good(farm, h, {})
    BY <2>4, PreparedGood
  <2>6. \A g \in {h} : Good(farm, g, {})
    BY <2>5
  <2> QED
    BY <2>3, <2>6, LeadsOKUnresumed
<1>3. CASE Pause(j)
  <2> DEFINE h == PauseJob(farm, j)
  <2>1. farm.job \in [Jobs -> Active \cup Finished \cup {"new"}]
    BY DEF FarmOK, FarmType
  <2>2. h = [farm EXCEPT !.job = [k \in Jobs |-> IF k \in {j} THEN "paused" ELSE farm.job[k]]]
    <3>1. [farm.job EXCEPT ![j] = "paused"] = [k \in Jobs |-> IF k \in {j} THEN "paused" ELSE farm.job[k]]
      BY <2>1
    <3> QED
      BY <3>1 DEF PauseJob
  <2>3. Leads({h}, held, open) /\ UNCHANGED resumed /\ \A k \in {j} : farm.job[k] \in Active
    BY <1>3 DEF Pause
  <2> HIDE DEF h
  <2>4. \A g \in {h} : Good(farm, g, {})
    BY <2>2, <2>3, PausedGood
  <2> QED
    BY <2>3, <2>4, LeadsOKUnresumed
<1>4. CASE Resume(j)
  <2>1. \A g \in ResumeJob(farm, j) : Good(farm, g, {j})
    <3>1. farm.job[j] = "paused"
      BY <1>4 DEF Resume
    <3>2. Prepared(farm, [farm EXCEPT !.job[j] = "queued"], {j})
      BY <3>1, QueuedPrepared
    <3> QED
      BY <3>2, PreparedSchedule DEF ResumeJob
  <2> QED
    BY <1>4, <2>1, LeadsOK DEF Resume
<1>5. ASSUME NEW i \in Indices, Reorder(j, i) PROVE IInv' /\ FinalStays /\ InOrder(farm, farm')
  <2> DEFINE G == { g \in ReorderJob(farm, j, i) : g.created[j] \in Moments }
  <2>1. \A g \in G : Good(farm, g, {})
    BY ReorderGood
  <2>2. Leads(G, held, open) /\ UNCHANGED resumed
    BY <1>5 DEF Reorder
  <2> HIDE DEF G
  <2> QED
    BY <2>1, <2>2, LeadsOKUnresumed
<1> QED
  BY <1>1, <1>2, <1>3, <1>4, <1>5 DEF JobStep

\* Pausing and starting the queue.
LEMMA QueueStepOK ==
  ASSUME IInv, QueueStep
  PROVE  IInv' /\ FinalStays /\ InOrder(farm, farm')
<1> USE DEF IInv
<1>1. CASE QueuePause
  <2> DEFINE h == PauseQueue(farm)
             S == PendingJobs(farm)
  <2>1. h = [farm EXCEPT !.job = [k \in Jobs |-> IF k \in S THEN "paused" ELSE farm.job[k]]]
    BY DEF PauseQueue, PendingJobs
  <2>2. Leads({h}, held, open) /\ UNCHANGED resumed
    BY <1>1 DEF QueuePause
  <2>3. S \in SUBSET Jobs /\ \A k \in S : farm.job[k] \in Active
    BY DEF PendingJobs, Active
  <2> HIDE DEF h, S
  <2>4. \A g \in {h} : Good(farm, g, {})
    BY <2>1, <2>3, PausedGood
  <2>5. held \in [Workers -> SUBSET Jobs] /\ open \in SUBSET Workers
        /\ HeldOK(held, farm, resumed)
    OBVIOUS
  <2> QED
    BY ONLY IInv, <2>2, <2>4, <2>5, LeadsOKUnresumed
<1>2. CASE QueueStart
  <2>1. \A g \in ScheduleNext(farm) : Good(farm, g, {})
    BY ScheduleGood
  <2> QED
    BY <1>2, <2>1, LeadsOKUnresumed DEF QueueStart
<1> QED
  BY <1>1, <1>2 DEF QueueStep

\* Whatever a worker or its agent does.
LEMMA WorkerStepOK ==
  ASSUME IInv, NEW w \in Workers, WorkerStep(w)
  PROVE  IInv' /\ FinalStays /\ InOrder(farm, farm')
<1> USE DEF IInv
<1>0. \A g \in RegisterWorker(farm, w) : Good(farm, g, {})
  <2>1. Prepared(farm, [farm EXCEPT !.status[w] = "idle"], {})
    BY RegisteredPrepared
  <2> QED
    BY <2>1, PreparedSchedule DEF RegisterWorker
<1>1. CASE AddWorker(w)
  BY <1>0, <1>1, LeadsOKUnresumed DEF AddWorker
<1>2. CASE Remove(w)
  <2>1. \A g \in RemoveWorker(farm, w) : Good(farm, g, {})
    BY RemoveWorkerGood
  <2> QED
    BY <1>2, <2>1, LeadsOKUnresumed DEF Remove
<1>3. CASE Connect(w)
  <2>0. open \cup {w} \in SUBSET Workers /\ UNCHANGED resumed
    BY <1>3 DEF Connect
  <2>1. PICK v \in Workers, S \in SUBSET Jobs :
          /\ S \subseteq held[v]
          /\ Leads(RegisterWorker(farm, w), [held EXCEPT ![w] = S, ![v] = @ \ S],
                   open \cup {w})
    BY <1>3 DEF Connect
  <2> DEFINE h == [held EXCEPT ![w] = S, ![v] = @ \ S]
  <2>2. h \in [Workers -> SUBSET Jobs]
    OBVIOUS
  <2>3. HeldOK(h, farm, resumed)
    <3>1. \A u \in Workers : u # w => h[u] \subseteq held[u]
      OBVIOUS
    <3>2. h[w] \subseteq held[v] /\ (v # w => h[v] \cap h[w] = {})
      BY <2>1
    <3>3. \A u, x \in Workers, j \in Jobs \ resumed :
            j \in h[u] /\ j \in h[x] => u = x
      BY <2>1, <3>1, <3>2 DEF HeldOK
    <3>4. \A u \in Workers, j \in Jobs \ resumed : j \in h[u] => farm.job[j] \notin Waiting
      BY <2>1, <3>1, <3>2 DEF HeldOK
    <3> QED
      BY <3>3, <3>4 DEF HeldOK
  <2>4. Leads(RegisterWorker(farm, w), h, open \cup {w})
    BY <2>1
  <2> HIDE DEF h
  <2> QED
    BY <1>0, <2>0, <2>2, <2>3, <2>4, LeadsOKUnresumed
<1>4. CASE Disconnect(w)
  <2> DEFINE G == IF w \in Registered(farm) THEN RemoveWorker(farm, w) ELSE {farm}
  <2>1. \A g \in G : Good(farm, g, {})
    BY RemoveWorkerGood, SameGood
  <2>2. Leads(G, held, open \ {w}) /\ UNCHANGED resumed
    BY <1>4 DEF Disconnect
  <2> HIDE DEF G
  <2> QED
    BY <2>1, <2>2, LeadsOKUnresumed
<1>5. ASSUME NEW j \in Jobs, ReportEnd(w, j) PROVE IInv' /\ FinalStays /\ InOrder(farm, farm')
  <2>1. PICK outcome \in {"completed", "failed"}, S \in {{}, {j}} :
          Leads(EndReported(farm, w, j, outcome), [held EXCEPT ![w] = @ \ S], open)
    BY <1>5 DEF ReportEnd
  <2> DEFINE h == [held EXCEPT ![w] = @ \ S]
             G == EndReported(farm, w, j, outcome)
  <2>2. outcome \in Finished
    BY DEF Finished
  <2>3. \A g \in G : Good(farm, g, {})
    BY <2>2, EndReportedGood
  <2>4. h \in [Workers -> SUBSET Jobs] /\ HeldOK(h, farm, resumed)
    BY DEF HeldOK
  <2>5. Leads(G, h, open) /\ UNCHANGED resumed
    BY <1>5, <2>1 DEF ReportEnd
  <2> HIDE DEF h, G
  <2> QED
    BY <2>3, <2>4, <2>5, LeadsOKUnresumed
<1>6. ASSUME NEW s \in Present, Leads({Heartbeat(farm, w, s)}, held, open), UNCHANGED resumed
      PROVE  IInv' /\ FinalStays /\ InOrder(farm, farm')
  <2> DEFINE h == Heartbeat(farm, w, s)
  <2>1. FarmOK(h) /\ h.job = farm.job /\ h.outbox = farm.outbox /\ h.assigned = farm.assigned
    <3> HIDE DEF h
    <3>1. h = Heartbeat(farm, w, s)
      BY DEF h
    <3> QED
      BY <3>1, HeartbeatOK
  <2>2. Good(farm, farm, {})
    BY SameGood
  <2>3. Leads({h}, held, open)
    BY <1>6
  <2> HIDE DEF h
  <2>4. Good(farm, h, {})
    BY <2>1, <2>2, GoodKept
  <2>5. \A g \in {h} : Good(farm, g, {})
    BY <2>4
  <2> QED
    BY <1>6, <2>3, <2>5, LeadsOKUnresumed
<1>7. CASE ReportBusy(w)
  <2>1. "busy" \in Present
    BY DEF Present
  <2> QED
    BY <1>6, <1>7, <2>1 DEF ReportBusy, BusyReported
<1>8. CASE ReportHealth(w)
  <2>1. PICK healthy \in BOOLEAN : Leads({HealthReported(farm, w, healthy)}, held, open)
    BY <1>8 DEF ReportHealth
  <2>2. (IF healthy THEN "idle" ELSE "error") \in Present
    BY DEF Present
  <2>3. UNCHANGED resumed
    BY <1>8 DEF ReportHealth
  <2> QED
    BY <1>6, <2>1, <2>2, <2>3 DEF HealthReported
<1>9. CASE Stale(w)
  <2>1. w \in Registered(farm)
    BY <1>9 DEF Stale
  <2>2. \A g \in StaleWorker(farm, w) : Good(farm, g, {})
    BY <2>1, StaleWorkerGood
  <2> QED
    BY <1>9, <2>2, LeadsOKUnresumed DEF Stale
<1>10. CASE Forget(w)
  <2>1. PICK S \in SUBSET Jobs : held' = [held EXCEPT ![w] = @ \ S]
    BY <1>10 DEF Forget
  <2>2. farm' = farm /\ open' = open /\ resumed' = resumed
    BY <1>10 DEF Forget
  <2>3. held' \in [Workers -> SUBSET Jobs] /\ \A u \in Workers : held'[u] \subseteq held[u]
    BY <2>1
  <2> QED
    BY <2>2, <2>3 DEF HeldOK, FinalStays, InOrder
<1> QED
  BY <1>1, <1>2, <1>3, <1>4, <1>5, <1>7, <1>8, <1>9, <1>10 DEF WorkerStep

\* The invariant is inductive, final states stay, and jobs are started in order.
LEMMA StepOK ==
  ASSUME IInv, [Next]_vars
  PROVE  IInv' /\ FinalStays /\ InOrder(farm, farm')
<1>1. CASE UNCHANGED vars
  BY <1>1 DEF vars, IInv, FinalStays, FarmOK, HeldOK, InOrder
<1>2. CASE Next
  BY <1>2, JobStepOK, QueueStepOK, WorkerStepOK DEF Next
<1> QED
  BY <1>1, <1>2

\* The invariant holds at first.
LEMMA InitOK ==
  ASSUME Init
  PROVE  IInv
<1>1. /\ farm.status = [w \in Workers |-> "new"] /\ farm.current = [w \in Workers |-> NoJob]
      /\ farm.job = [j \in Jobs |-> "new"] /\ farm.outbox = {} /\ farm \in FarmType
  BY FarmAssumption DEF Init, EmptyFarm, FarmType
<1> QED
  BY <1>1 DEF Init, IInv, FarmOK, HeldOK

\* The invariant always holds.
LEMMA Invariance == Spec => []IInv
<1>1. Init => IInv
  BY InitOK
<1>2. IInv /\ [Next]_vars => IInv'
  BY StepOK
<1> QED
  BY <1>1, <1>2, PTL DEF Spec

-----------------------------------------------------------------------------

\* The state is always of its type, for any number of workers and jobs.
THEOREM FarmTypeCorrect == Spec => []TypeOK
<1>1. IInv => TypeOK
  BY DEF IInv, FarmOK, TypeOK
<1> QED
  BY <1>1, Invariance, PTL

\* A worker in the map only ever points at a job that is not over and that was given
\* to it, whatever late messages the coordinator handles.
THEOREM CurrentCorrect == Spec => []CurrentIsAssigned
<1>1. IInv => CurrentIsAssigned
  BY DEF IInv, FarmOK, CurrentIsAssigned, Registered
<1> QED
  BY <1>1, Invariance, PTL

\* No step changes a job that is completed, failed or cancelled.
THEOREM OutcomeCorrect == Spec => OutcomeIsFinal
<1>1. IInv /\ [Next]_vars => [FinalStays]_vars
  BY StepOK
<1>2. OutcomeIsFinal <=> [][FinalStays]_vars
  BY DEF OutcomeIsFinal, FinalStays
<1> QED
  BY <1>1, <1>2, Invariance, PTL DEF Spec

\* A job is started before another that waits only if it has the higher priority or
\* the earlier createdAt, or a worker it is given to cannot do the other, whatever
\* removals, resumptions, reorderings and lost workers came before.
THEOREM UrgentCorrect == Spec => UrgentFirst
<1> DEFINE Urgent ==
      \A j, k \in Jobs :
        ( /\ farm.job[j] = "queued" /\ farm'.job[j] = "encoding"
          /\ farm.job[k] = "queued" /\ farm'.job[k] = "queued" )
        => \/ Priority[j] > Priority[k]
           \/ Priority[j] = Priority[k] /\ farm.created[j] <= farm.created[k]
           \/ \E w \in farm'.assigned[j] : <<w, k>> \notin Matches
<1>1. IInv /\ [Next]_vars => [Urgent]_vars
  <2>1. InOrder(farm, farm') => Urgent
    BY DEF InOrder
  <2> QED
    BY <2>1, StepOK
<1>2. UrgentFirst <=> [][Urgent]_vars
  BY DEF UrgentFirst
<1> QED
  BY <1>1, <1>2, Invariance, PTL DEF Spec

\* No job is held by two agents unless a user has resumed it.
THEOREM GivenOnceCorrect == Spec => []GivenOnce
<1>1. ASSUME IInv PROVE GivenOnce
  <2> SUFFICES ASSUME NEW j \in Jobs \ resumed
      PROVE  Cardinality({ w \in Workers : j \in held[w] }) <= 1
    BY DEF GivenOnce
  <2> DEFINE S == { w \in Workers : j \in held[w] }
  <2>1. \A v, w \in S : v = w
    BY <1>1 DEF IInv, HeldOK
  <2>2. CASE S = {}
    BY <2>2, FS_EmptySet
  <2>3. CASE S # {}
    <3>1. PICK w : w \in S
      BY <2>3
    <3>2. S = {w}
      BY <2>1, <3>1
    <3> QED
      BY <3>2, FS_Singleton
  <2> QED
    BY <2>2, <2>3
<1> QED
  BY <1>1, Invariance, PTL

=============================================================================
