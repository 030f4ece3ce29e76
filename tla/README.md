# A verification of The Avid

The Avid is a collaborative media editor: a browser and desktop editor, an API server, a
distributed render farm, an orchestrator of AI agents with a token wallet, and a mesh of
knowledge nodes. This directory holds TLA+ models of the parts with protocols of their own,
the TLC configurations that check them and the TLAPS proofs about them: the render farm, alone and
as a whole, the orchestrator of agents, the token wallet, the replicated project document, the
editor's timeline with its undo history, and the mesh of knowledge nodes with its searches.

Contents: [inventory](#inventory), [plan](#plan), [modules](#modules-and-code),
[runs](#runs), [findings](#what-comments-promise-and-the-code-does-not-do),
[fairness and deadlock](#fairness-and-deadlock), [proofs](#proofs),
[limits](#what-is-not-modelled).

## Inventory

Components, what they keep, who they talk to, what is hard about them, and what makes them
correct. `PROJECT.json` lists the sources of each, and the parts without protocols.

| Component | State and operations | Interacts with | Hard behaviour | Correct when |
|---|---|---|---|---|
| Job queue (`packages/render-agent/src/JobQueue.ts`) | array of entries with status, retries, age, time limit; tracked counters; bounded history; a drain and its resolver. Enqueue, dequeue by aged priority, complete, fail and retry, cancel, drain, dispose | the agent's handlers; its own timers | time limits, fair scheduler and drain timer between any two calls; retries during a drain | counters equal the entries, nothing is lost, ageing beats starvation, drains end |
| Render agent (`packages/render-agent/src/index.ts`) | jobs that run, abort controllers, node status, WebSocket, flag `disposed` | coordinator by messages; queue and workers by calls and callbacks | two awaits in `startJob`; cancellation, time-outs, loss of the connection and shutdown in between | each entry has one attempt, what was reported over is over, an idle node is idle, jobs settle, shutdown ends |
| Render workers (`.../workers/`) | child process, flag `cancelled`, memory monitor | agent | one object shared by all renders | a cancellation reaches the job it names |
| Coordinator (`apps/api/src/services/renderfarm.service.ts`, `websocket/index.ts`, `routes/render`) | workers, jobs, history, sockets of agents | agents by messages, users by socket and HTTP | late and repeated reports, lost and stale workers, agents that return under a new id | a worker points at a live job of its own, a job goes to one agent, outcomes are final, urgent jobs first |
| Token wallet and metering (`services/agent-orchestrator/src/wallet`) | balance, held total, holds by job, usage; jobs in flight | its callers: nothing in the repository drives it yet but tests and examples | settlements above the hold, stale holds of live jobs, monthly resets | held is the sum of the holds, each job is charged at most once, only overruns overdraw |
| Orchestrator (`OrchestratorService.ts`, `CompensationManager.ts`, `ToolCallRouter.ts`) | plans, steps, cancelled ids, compensations, circuit breakers | adapters of tools, requests by users through `server.ts` | four awaits with requests, time limit and three compensating callers in between | destructive tools run once, nothing is stranded, compensated means undone, executions end |
| Project document (`packages/core/src/collab/ProjectDocument.ts`) | clock, registers of metadata, tracks and clips, change log, change counter | other replicas, by snapshots | merges in any order and of any age, wall clocks that differ and go back | same changes, same document; an edit takes effect where it is made |
| Editor timeline (`packages/editor/src/store`, `engine`, `components/TimelinePanel`) | tracks, clips; undo and redo stacks | the user's drags and keys; two engines that both write the store | edits with and without a command, previews during drags, inverse edits on a timeline that has changed | undo leads back exactly, segments replace what they cover, tracks stay in sync |
| Mesh discovery and search (`services/knowledge-node/src/mesh`) | map of connections by the id of the peer; requests with timers; searches that fan out | other nodes by WebSocket messages: `identify`, `heartbeat`, `search`, `search:response` | nodes that dial each other, ids that change, connections that replace and outlive each other, stops and restarts | the map leads to live connections, a connected peer is found, searches wait for nothing that is gone |
| Shard leases and replication (`services/knowledge-node/src/mesh`) | leases with expiry; change logs in rings; versions by vector clock | peers | expiry between check and use, gaps after a trimmed log, equal clocks | one writer per shard, replicas converge or notice the gap |
| Bin locks (`packages/core/src/collab/BinLockManager.ts`) | lock and waiting list of each bin | users' sessions | expiry by inactivity against activity, steal and release | one holder, nobody waits for a free bin |
| Session synchronisation (`SyncProtocol.ts`) | vector clock, pending and sent operations of a peer | transport | lost and repeated messages, handshakes crossing | peers that have exchanged everything agree |
| Editor collaboration (`packages/editor/src/collab`) | an operation-based CRDT of bins, and its transport | peers | re-adding what was removed, compaction | replicas converge |
| Versions, diffs, the rest of the editor | documents and media state | user interface | large, mostly sequential | algorithms agree with their reference definitions |
| API routes, desktop, mobile, web, adapters, contracts, updates | persistence, drivers, plumbing | — | input and output | outside a model's reach |

Coordinator and agents exchange: `register`, `unregister`, `health`, `job:started`,
`job:queued`, `job:retrying`, `job:complete`, `job:failed`, `job:cancelled`, `job:reject` one way,
`job:assign` and `job:cancel` the other. (The coordinator never sends `job:cancel` or `ping`; the
agent answers both.)

## Plan

Done, in order of importance:

1. `JobQueue`, `JobQueueMachine`: the data type and an arbitrary client. Proofs: type, counters,
   timers, history, array, drains, bounded overtaking: every property but those under fairness.
2. `RenderAgent`, `RenderAgentMachine`: the agent, composed of the queue's operators. Proofs: every
   invariant.
3. `RenderFarm`, `RenderFarmMachine`: the coordinator, with abstract agents. Proofs: every property.
4. `RenderSystem`: `RenderFarm` and `RenderAgent` over WebSockets, shown to implement
   `RenderFarmMachine`. Proofs: every property, the implementation included.
5. `Orchestrator`, `OrchestratorMachine`: a plan, its execution and its compensation. Proofs: every
   property but the one under fairness.
6. `TokenWallet`, which implements `TokenAccount`. Proofs: every property.
7. `ProjectDocument`, `ProjectDocumentMachine`: replicas that merge. Proofs: the documents are what
   their logs say, convergence, edits take effect.
8. `Timeline`, `TimelineMachine`: edits, and the history some of them go through. Proofs: every property.
9. `Mesh`: connections and searches of knowledge nodes. Proofs: type, live entries, peers listed,
   nothing awaited that is gone.

To come: `ShardLease` and `Replication` over `Mesh` (nothing in the program asks for a lease or starts a
pull yet); `BinLock`; `SyncSession` over the project
document's log; the bins' CRDT; trim sessions of the editor, whose undo command joins those of
`TimelineMachine`. Every safety property of the runs is a theorem; further theorems come with these
modules.

## Modules and code

A component is a module of operators on its state, where its handlers are composed of smaller
ones, and a machine that drives it. `MC*` modules only hold the values of constants. The `map` of
`PROJECT.json` gives the lines of every definition. Definitions called "Mutant of ..." are the
component's definitions with a plausible bug, each placed before the definition it replaces; no
specification uses them.

### JobQueue, JobQueueMachine

A queue is a record; every public method of the class is an operator from queue to queue. The
array is kept as a relation, `ahead`: the pairs of entries of which the first has the lower index.
That is all of the array the code looks at, it makes the insertion (`AheadOfNew`) and the
fair scheduler's sort (`Reordered`) one set each, and a wrong splice shows as an order that is not
total. An absent entry has its other fields at their initial values, so states do not remember
jobs that are gone. Ids may be enqueued again once their entry has left, as in the code.

`drain()` is called by name: each call has its promise (`drain[d]`), its own safety timer, and
possibly the one `resolver` of the queue, which the next call overwrites. The machine lets any
method be called at any time; timers fire whenever armed. Ages matter in multiples of the
starvation threshold, so the clock counts ticks.

### RenderAgent, RenderAgentMachine

The agent is one JavaScript thread: a step is what runs between two awaits. `startJob()` has two,
so an attempt is in `preflight`, then in `dispatch`; everything else may come in between. A job may
have several attempts at once after a time-out (that is the code's behaviour), hence `Slots`.
`Finally` is the whole `finally` block including the call of `processNextQueued()`, whose loop
empties the queue: the jobs it starts enter `activeJobs` only after their own health check.

`controller[j]` is the entry of the router's map, which two attempts of one job share. `cancelled` is
the flag of the one `RenderWorker`. How a render ends is free, except that it ends as cancelled
exactly if the flag is set when it ends, or fails. The age boost is off here (threshold 0), as
`JobQueueMachine` covers it.

### RenderFarm, RenderFarmMachine

All handlers of the coordinator are synchronous, so each is one step, including the scheduling it
ends in. A handler is an operator from a farm to the set of farms it may leave: `scheduleNext()` is
stated by what it gives to each idle worker (`Plans`), which is a single function, and the
set keeps the definitions free of recursion. Workers and jobs are numbered in the order they come,
which is the order of the JavaScript maps. `matchesWorkerToJob` is a relation, `Matches`.

The machine adds users, and agents reduced to what their messages can be. An agent reports the end
of jobs it was given (and may keep them, as one that refuses a second copy does), says that it is
busy or how healthy it is at any time, and may forget jobs. When its socket closes it may come back
under a new id with any of the jobs it had, before or after the coordinator notices. A worker may be
found stale at any moment. This environment is as weak as `RenderSystem` needs it: a stronger one
would leave out what the real agent does.

### RenderSystem

`RenderAgent` and `RenderFarm` in one state, with a queue of messages each way on every socket. The
agent's next step sends its messages (`OnTheWire`), the coordinator's handlers take them one by one
(`Handled` is the `switch` of the socket), and their assignments go down the worker's socket. The agent may
lose a connection at any time and connect again while its jobs run on; what was in transit arrives
or is lost; the coordinator notices later. `ImplementsFarm` maps this to `RenderFarmMachine`: `held` is
what is in transit to the agent, at the agent, or an end in transit back; `open` is what the
coordinator takes for open. `dropped` remembers the one way in which a job is lost without a word:
the pre-flight check fails for the last time and the agent reports a retry.

### Orchestrator, OrchestratorMachine

One plan; plans share nothing that matters but the limit on how many execute. What runs between two
awaits is an operator from plan to plan: `Begun` is `executeSingleStep()` up to its await, `ToolSucceeded`
and `ToolFailed` are what follows it, and return through `StepEnded` to the loop of the execution mode
(`ProceedSequential`, `ProceedConditional`, `ProceedParallel`) if that is who waits. The race against the time
limit is the field `main`: an execution that has lost it goes on, as in the code, and `Concluded` finds
nobody listening. `late` is the moment in which the time is up and the timer has yet to fire, when
`isPlanCancelled()` looks at the clock itself. Three callers may be inside `compensatePlan()`, each with
its own list of steps and its own await. The machine lets every request come at any time, as
`server.ts` checks nothing, and tools fail, succeed or never return. The registered compensations are
empty functions in the code, so they always succeed.

### TokenAccount, TokenWallet

Every method of the wallet and of the metering service is synchronous, hence an action; one that
throws is no step. Quotes are numbered in the order they come (job ids are random), ages of holds
follow that order. `TokenAccount` is what a customer is promised: money comes in by credits and
refunds and goes out by charging an open job, once. Its bills are the mapping of the jobs' statuses.

### ProjectDocument, ProjectDocumentMachine

A register is named by the pair of an element and "value", "data" or "deleted", so that the three
kinds of last-writer-wins registers are one function. A method is the set of registers it writes,
given those it finds (`SetMetadata` to `SplitClip`); the machine stamps them and records the change, as
`recordChange()` does. Replicas merge the documents of others as of their last snapshots, which may be
as old as one likes. Wall clocks read any moment at any time.

`Advances` is wider than the code: of the stamps that `merge()` receives one after the other, it takes
the last as it is and lets those before it have moved the clock anywhere further. The order in which
they come is that of three maps and a log, and what is proved does not depend on it.

### Timeline, TimelineMachine

`Timeline` has the edits as operators from timeline to timeline: those of the store and the segment moves
of the edit operations engine, with the order of clips in their arrays kept, because
`rippleDelete()` and `insertEdit()` depend on it. `Array.sort()` is the stable sort by a key (`PlaceOf`
counts the elements that come before one), `filter()` the concatenation of what it keeps of each element
(`With`, `Without`), and the loop of a segment move over its clips a recursive function (`Placed`), each clip
placed on what those before it have left. `TimelineMachine` adds the history: `Command` is what the
timeline's drags and buttons do through the edit engine, `Direct` the edits that go past it. A drag is
one step, which first puts the clip back (at the end of its track's array) as the code does on
release. `lived` is a ghost: the contents the history leads through, as far as no edit went past it.

Assumed: the timeline has a sequence (the branch that creates one is left out), sources are used
from their beginning, and times are multiples of the shortest length of a clip. The timeline that is
opened (`Initial`) has tracks with ids of their own that stand in their order; its clips are arbitrary.

### Mesh

Both ends of every connection are in the state, since each node knows only its own: a `PeerConnection` is
an end, `ws` the state of its WebSocket, `id` its `nodeId`. An end has a temporary id until the other side
identifies itself, then the id of that node, and `identify` moves its entry in the map `peers`, over
whatever has that key. Sockets are attempted in turn. Messages arrive in order, or are lost with their
connection; either side may find out at any time. `Stop` is `stop()` up to its await, `Restart` a process
that comes back with nothing. `Close` deletes two keys whichever connections they stand for, as the code
does. A request has two timers, its own (`RequestTimeout`), which takes it off the connection, and the
search's (`SearchTimeout`), which only stops waiting; they have the same length, and the model lets either
come first. Assumed: the address a node is dialled by is the one it identifies itself with, so that
`connectToPeer()` recognises it.

## Runs

| Run | Instance | States | Shows |
|---|---|---|---|
| `jobqueue` | 3 jobs of 2 priorities, one with a time limit, queue of 2, one retry, history of 2, 2 drains, 4 accepted jobs, clock to 2 | 80 thousand | type, `CountersExact`, `ArrayIsLinear`, `TimerArmedWhileRunning`, `NothingLostUntilTrimmed`, `OvertakingBounded`, `DrainResolvesWithNothingRunning`, `DrainTerminates` |
| `agent_safety` | 3 jobs, 1 at a time, queue of 1, one retry, health may fail, connection may be lost, no time limits, no shutdown | 557 thousand | type, `RunningHasOneAttempt`, `TerminalMeansGone`, `IdleMeansNoActive` |
| `agent_progress` | 2 jobs, one with a time limit, 2 attempts each, memory pressure, shutdown, healthy node | 62 thousand | `EveryJobSettles`, `ShutdownTerminates` |
| `farm_safety` | 2 workers, 2 jobs of 2 priorities submitted in the same millisecond, worker 1 cannot do job 2, users pause, resume and move jobs | 689 thousand | type, `CurrentIsAssigned`, `GivenOnce`, `OutcomeIsFinal`, `UrgentFirst` |
| `system` | an agent with 2 sockets in turn, 2 jobs, no retries, job 1 may be cancelled, worker 2 removed or found stale, one message in transit from the agent at a time | 700 thousand | `NobodyForgets`, `CompletedWasRendered`, `ImplementsFarm` |
| `orchestrator` | 3 steps, the first and the last destructive, three modes, batches of 2, 2 attempts, calls that cost 1 or 2 of 3 tokens | 362 thousand | type, `DestructiveOnce`, `NothingStranded`, `CompensatedIsUndone`, `CompletedHonestly`, `ExecutionEnds` |
| `wallet` | 4 jobs whose quotes do not all fit the balance of 3, consumptions 0, 1 and 3, refunds and credits | 39 thousand | type, `HeldIsHolds`, `NeverOverdrawn`, `ImplementsAccount` |
| `document` | 2 replicas, 1 metadata key, 1 track, 2 clips (symmetric), 3 changes, wall clocks 1 and 2, counters to 2 | 382 thousand | `SameChangesSameDocument`, `EditsTakeEffect` |
| `timeline` | 2 tracks with a clip each, one sync-locked, 3 edits, a history of 2, any number of undos and redos | 527 thousand | `HistoryExact`, `SegmentLands`, `InsertShifts` |
| `mesh` | 2 nodes that may dial each other, 2 connections, 1 search, 1 restart, any number of stops | 1.26 million | `EntriesAreLive`, `ListedUntilClosed`, `AwaitedIsPending` |

What the properties mean is said with each of them, at the end of its module. The type invariants of
`RenderSystem`, `Timeline`, `ProjectDocument` and `Mesh` are no questions of their own; they were checked
with the others, and that of `Mesh` is proved. What the proofs of `Timeline` need of its type is part of
their invariant (`HistoryIsChain`); that clips have ids of their own is not, and is only model-checked.

Why the bounds are enough. *Queue*: three entries are the fewest for an order to be wrong without
two being swapped, and for a retried entry to stand ahead of two equals; two drains are what it
takes to overwrite the resolver; a history of two overflows with four accepted jobs; one retry has
both outcomes of `markFailed`. *Agent*: with one place and three jobs there is one running, one
queued and one rejected or overrunning; two attempts of a job are the most a time-out makes before
the first must end or the retries (one) run out. *Farm*: two workers are an agent and the id it
comes back under, or one who is lost and one who takes over; two jobs are one to lose and one to
schedule in the same step. `Moments` bounds the creation times that moves may lead to. *System*: two
sockets are a connection and the one after it, whose registration may overtake the loss of the
first; a failed pre-flight check drops a job at once, without retries to go through. The bound of
one message in transit from the agent still lets it stand against any number of assignments and the
closing of the socket; registrations are handled in the order of the sockets, and are not lost.
*Orchestrator*: two steps make a batch and the third the next one; destructive steps stand in both;
costs above the estimate meet the budget. *Wallet*: three holds can be old while the fourth is
young. *Document*: three changes are one on each replica and one that has seen both. *Timeline*: a
clip across the place of every edit and one that starts there; one position and one length make
edits meet. `Horizon` bounds the ends of clips that undo and redo reach: a trim and a move undone
across an edit that went past the history lengthen the clip each time.

*Mesh*: two connections are the two that cross when two nodes dial each other, or one and its successor;
a restart makes a successor to a connection one side still believes in. The proofs have no bounds.

`agent_safety` has no time limits because the code's behaviour after a time-out contradicts
`RunningHasOneAttempt` and `TerminalMeansGone` as stated: an entry that timed out is put back while its
attempt still runs. The time-outs are in `agent_progress` and `jobqueue`. `EveryJobSettles` needs health
checks that succeed, for the reason below.

## What comments promise and the code does not do

Two runs each check one statement quoted from the code and find a behaviour that breaks it.

- `agent_concurrency`: "Maximum concurrent jobs running on this node". The limit is tested before an
  awaited health check and taken after it. Two assignments in a row overrun it.
- `orchestrator_cancel`: "Signal cancellation so in-flight steps stop at the next checkpoint". The flag
  is taken back before any step in flight can reach a checkpoint. Such a step is tried again, and in
  parallel mode the next batch of a plan that was cancelled or out of time is started.

Met while modelling, in the model as they are in the code, and stated by no property:

- `drain()` is to "resolve when all running and pending jobs have finished or been cancelled"
  (`JobQueue.ts:504`); a job that fails during the drain is queued again, where nobody starts or cancels
  it, and the safety timer resolves with the job in the queue.
- A job put back "for later" by an unhealthy pre-flight check (`index.ts:846`) is started only when
  another job ends.
- Cancelling one render sets the one flag of the one worker (`RenderWorker.ts:491`): another render
  that ends meanwhile ends as cancelled.
- A job that times out is put back for a retry and reported as cancelled (`index.ts:901`), which the
  coordinator takes for its end.
- Failing the job of a worker that is being removed, or is stale, schedules the next job onto that
  worker (`renderfarm.service.ts:204`, 771), and the job stays `encoding` with nobody to render it.
- A job moved down the queue lands one place early, and with neighbours of the same millisecond not
  at all (`routes/render/index.ts:119`).
- Rejecting or cancelling a plan does not end its execution, which writes `completed` or `failed` over
  whatever the status has become (`OrchestratorService.ts:747`); the lifecycle drawn in
  `docs/adr/ADR-005-orchestration-safety.md:29` has no way on from cancelled. `CompletedHonestly` says how far
  such a plan may stray: the steps that were not done are those its users took back.
- A stale hold that was released leaves its job unable to complete or fail: it is never charged.
- The tail of a clip across an overwrite edit is lost, that of one across an insert edit moved twice
  (`editor.store.ts:1734`, 1823); split and razor show the second piece from the source's start.
- Undoing a segment move puts back the tracks as they were before it (`commands.ts:183`), and with them
  takes back every edit made since that did not go through the history, which most edits of the store
  do not.
- When two nodes dial each other, each connection identifies itself under the same id and the later
  takes the entry of the earlier (`PeerDiscovery.ts:498`). `stop()` closes only what is listed
  (`MeshService.ts:223`), so the other connection stays open. An answer is sent on the connection listed
  (`PeerDiscovery.ts:591`), so it may arrive on the one that was not asked, where it is ignored; the search
  then runs into its time limit and counts the node as silent.
- The close of a connection deletes its node's entry even if a later connection has taken it
  (`PeerDiscovery.ts:216`, 449): the node is connected, and neither found nor searched, until it is dialled
  again.
- A document restored from a snapshot reuses change ids (`ProjectDocument.ts:676`).

## Fairness and deadlock

Safety runs use `Init /\ [][Next]_vars`. The liveness runs assume, and only assume:

- *Queue*: armed timers fire (`TimerFairness`). Nothing is assumed of the client; `DrainTerminates`
  rests on the safety timer alone, which nothing clears.
- *Agent*: an attempt's await returns (a health check reads system counters, a child process ends
  or is killed by its own watchdog), the periodic health check keeps running (`setInterval`), the
  drain's timer fires and `disconnect()` goes on after its await. All of these are the event loop's
  doing. Weak fairness is enough: once enabled they stay enabled until they or an alternative of
  the same attempt happen. Nothing is assumed of the network or the coordinator, and not that a
  render succeeds.
- *Orchestrator*: the timer of the plan's time limit fires (it stays armed until the race is over), and
  a compensation's await returns (each is bounded by a time limit of its own). Nothing is assumed of
  the tools: `ExecutionEnds` holds when they never return.

`CHECK_DEADLOCK FALSE` is set throughout: the systems do stop. All bounded calls may be used up,
drained queues refuse work, an agent that has shut down does nothing more, and archived plans are
done.

## Proofs

TLAPS checks the following for every value of the constants that meets the named assumptions
(`JobQueueAssumption`, `FarmAssumption`, `MachineAssumption`, `WalletAssumption`,
`DocumentAssumption`, `ClipsAssumption`, `BoundsAssumption`, `InitialAssumption`, `MeshAssumption`,
`OrchestratorAssumption`, `SystemAssumption`: finite sets, ranges, submission times that do not decrease,
and that the timeline that is opened has tracks with ids of their own, in their order; and
`NothingAssumption`, that the mark for "no message" is no type of message).

`JobQueueLemmas` says what the operators of the queue do to it. It is apart from `JobQueueProofs`
because the agent owns a queue, too: `RenderAgentProofs` rests on the same lemmas.

`JobQueueProofs`
- `TypeCorrect`, `CountersCorrect`. `CountersExact` is not inductive: adding one to a cardinality
  needs the status it was taken from, and the finiteness of the sets. The invariant is `QueueOK`: the
  type and both counters. Each operator of the queue has a lemma that it keeps `QueueOK`; they
  compose as the methods do (`FinishOK` from `RetireAll` and `CheckDrainComplete`, `MarkFailedOK` from
  `RequeueOK` and `FinishOK`, `TimeoutEntryOK` from `MarkFailedOK`).
- `OvertakingCorrect`: only `dequeue` starts a job (`OnlyDequeueStarts`), it starts one of the
  greatest effective priority, and a boost of `n` bounds an age between `n` and `n + 1` thresholds
  (`BoostBound`, by linear bounds on integer division).

- `TimersCorrect`, `HistoryCorrect`, `ArrayCorrect`, `DrainCorrect`. Every step adds an entry, starts one,
  puts one back, removes a set of them, reorders the array or leaves the queue alone (`StepKinds`), and
  the first three theorems go by these kinds. `HistoryCorrect` counts: a set that leaves is recorded whole
  unless the history is cut, after which it stays full. `ArrayCorrect` says that `ahead` orders the live
  entries totally and relates nothing else; a splice keeps that because what a new entry goes behind is a
  prefix (`AheadIsPrefix`), and the fair reordering because equal priorities keep the order they
  had. `DrainCorrect`: drains are resolved where the tracked number of running jobs is seen to be zero, or by
  the safety timer, which removes all that runs; the first needs `CountersExact`.

`RenderAgentProofs`
- `TypeCorrect`, `IdleCorrect`: for any configuration. `IdleMeansNoActive` is inductive with the type:
  every handler that makes a job active sends a status afterwards or leaves one that is not idle.
- `AttemptsCorrect`, `TerminalCorrect`: these two have the hypothesis `TimedJobs = {}`, that
  no job has a time limit, as their properties' run has: with time limits a second attempt may start beside
  the first (see the hazards), and that run checks something else. The invariant `Settled` says for each job that
  its entry runs exactly if one of its slots is taken, and then only one (`Lone`); that a job not yet
  assigned, or of which it was said that it is over, has no entry; and that no timer is armed. It holds until
  shutdown, whose safety timer lets go of running attempts.
- `RenderedCorrect`, `ForgetsCorrect`, `SystemImplementsFarm`: agent and coordinator together
  (`RenderSystem`), for any number of sockets, jobs and messages in transit. `SystemAssumption` is what
  `RenderFarm` assumes of the same constants: workers and jobs are numbered from one in the order they
  come, and submission times do not decrease. The invariant is `SystemInv`:
  the agent is of its type and each entry that runs has its one attempt (`Agents`); the coordinator
  points only at live jobs and has nothing left to send (`Quiet`); what the coordinator has closed is
  empty (`Sockets`); what is said on a socket is true, its registration comes first, and nothing goes
  down to a worker not registered yet (`Wires`); a job that was given out is in one place only, on its
  way down one socket, at the agent, or with its end on its way back on one (`Places`); and what the
  worker of the open socket points at is in one of these places or was dropped (`Remembered`).
  - `CompletedWasRendered` needs that what is said on a socket is true. `NobodyForgets` and the mapping need
    the places: otherwise a late end on an old socket could end a job that is elsewhere by then.
  - The coordinator's side: `Onward` says of a handler which jobs may be over, sent and pointed at after it
    (`JobEndedOnward`, `StaleOnward`, ...), `FarmStepKeeps` turns this into the invariant for every one of them.
  - The agent's side: what each step takes from its jobs it says on the wire (`AttemptSays`, `AssignTakes`),
    so the job moves from one place to the next (`SaysKeeps`, `SilentKeeps`).
  - The mapping: `Held` is worked out from the places (`HeldIs`); a message taken off the wire, or lost
    with its socket, is what the abstract agent does not hold any more (`EndHolding`, `LoseHolding`), an assignment
    what it is given (`SentHolding`), a new socket the same jobs under a new id (`ConnectHolding`). A step of the
    agent is the abstract agent's `Forget` or no step. What is proved of `RenderFarmMachine` thereby holds of
    the coordinator with the real agent.

`RenderFarmProofs`
- `FarmTypeCorrect`, `CurrentCorrect`, `OutcomeCorrect`, `GivenOnceCorrect`. `CurrentIsAssigned`
  speaks of registered workers only; its strengthening `FarmOK` adds that only those have a job.
  `GivenOnce` speaks of what agents hold, which the coordinator does not know: the invariant `HeldOK`
  says that a job that waits for its first assignment is held by nobody. The argument is about
  one handler at a time: what is done before scheduling is `Prepared` (no job leaves a final state,
  none starts to wait again but those resumed), scheduling makes it `Good` (what is sent waited, waits
  no more, and goes to one worker), and what some handlers do after scheduling keeps `Good`.
  `LeadsOK` then turns `Good` into the invariant of the machine.
- `UrgentCorrect`: what handlers do before scheduling starts nothing and moves nobody in the order
  (`Unstarted`); scheduling gives the idle workers, in their order, the first waiting job that each can do,
  so a job that still waits afterwards was passed over only by a worker that cannot do it (`InOrder`).

`ProjectDocumentProofs`
- `DocumentsFaithful`: the inductive invariant `IInv`. `SameChangesSameDocument` is not inductive: it needs
  that a document is what its log says. `Faithful` says that every register holds what some change in
  the log wrote, and none in the log wrote later; `ChangesUnique` that a change is determined by its id
  and by its stamp, wherever it is known; `OwnChanges` and `ClocksReached` that clocks have reached every
  stamp they have met and every stamp of their own, so that the next one is new and later.
- `Convergence`: two faithful documents with the same changes have the same latest write in every
  register, as stamps are totally ordered (`StampsOrdered`).
- `EditsHold`: the next stamp is later than all in the log (`TickLater`, `ReceiveReaches`), so every write
  of the edit wins.

`MeshProofs`
- `EntriesCorrect`, `ListedCorrect`, `AwaitedCorrect`, `MeshTypeCorrect`, from one inductive invariant. To
  `EntriesAreLive` it adds that sockets not in use are blank (`SocketsOK`), that a connection being dialled
  still has its temporary id (`DialsOK`), and that nodes say who they are: an id that is a node's, and
  every identification in transit, is that of the other side (`IdsOK`). Without the last, a second
  identification could move an entry away from the id it was found under. All ways for a connection to end
  (a failed dial, a close, a stop, a restart) share one lemma, `EndsCloseKeeps`. What is awaited was asked
  by the searching node over an end of its own (`AwaitedByOwner`), so a restart loses both together.

`OrchestratorProofs`, the plan and the wallet of the agent orchestrator (which share neither state nor lemmas)
- The plan: all from one inductive invariant, `TypeOK`, `Safe` and `UnderWay`, for any plan, mode, batch size, number of
  attempts and budget. Each operator from plan to plan has a lemma that it keeps a plan so.
- `PlanCorrect`: the type.
- `DestructiveCorrect`: the parallel loop begins the steps of a list made when the plan was approved,
  without looking at them again, so it has to be shown that none of them can be called by another way
  meanwhile: `Safe` says that a destructive step that is pending or approved has not been called
  (`CallOK`), and that those in the list have not been called either and are not pending
  (`ListOK`), so that they cannot be approved one by one. A destructive step never waits for a
  retry.
- `StrandedCorrect`, `CompensatedCorrect`: what is so once nothing is under way follows from who is to see to
  it while something is: an approved step is on the list of an execution that goes on (`ListOK`), a step that
  executes awaits its tool (`CallOK`), what has been undone and is not marked yet is so by a
  compensation under way (`EntryOK`), and the flag is taken back by the cancellation that set it
  (`WholeOK`).
- `HonestCorrect`: an execution may outlive the plan's status, which users set to cancelled under it, so
  the invariant follows the execution (`main`) and not the status. As long as it goes on and nothing
  has gone wrong, each step is awaited, approved (and so on the list), done, or, in a plan taken back,
  cancelled (`Racing`); so a loop that ends with nothing left to await leaves each step done or taken
  back (`EndsHonestly`). Rejections and cancellations share one lemma (`TakenBackFine`).
- `WalletImplementsAccount`: each method maps to a charge, a waived bill, a payment or nothing. All the
  mapping needs of the state is that the balance is an integer and the statuses are statuses
  (`Shape`): the wallet's bookkeeping may be wrong in every other way and still charge each job once,
  because the metering service takes a job off its list when it settles it.
- `WalletTypeCorrect`, `HeldCorrect`, `OverdraftCorrect`. The last two are about totals over finite sets of
  jobs, which the library defines by a fold, and its recursion by a CHOOSE. That a function with that
  recursion exists is proved by the least size of a set for which it would not (`LeastNumber`, a case of
  well-founded minima, which needs no operator as a parameter); then totals do not depend on the order
  of adding (`TotalSplit`), and change with one of their terms (`TotalExcept`). `HeldCorrect`
  needs that a hold is what was quoted for its job (`Quoted`), since settling takes the quote off `held`.
  `OverdraftCorrect` has the hypothesis `Initial >= 0`: a wallet is not created in debt.

`TimelineProofs`
- `UndoIsExact`, `SegmentsLand`, `InsertsShift`: all three from the invariant `HistoryIsChain`, which is the
  theorem `OneHistory`. `HistoryExact` is not inductive: it speaks of where the timeline stands, and undo
  goes where the next command leads. The invariant says that the two stacks are one chain: there
  are outlines (the tracks' ids and order) such that each command bridges two neighbours (`Bridges`:
  executed on any timeline of the first outline it makes one of the second, undone it leads back), and
  does the same with what is known of the contents there (`Leads`); and that the timeline stands where the
  stacks meet (`Standing`). Edits past the history make the contents unknown, but not the outlines: each of
  them keeps the tracks (`SameTracks`, a lemma for each edit), which is why commands can still be
  undone after them and why nothing has to be said about the clips.
- A command joins the chain because it is `Reversible` when it is made: `MoveReversible`, `TrimReversible`,
  `SegmentReversible`, `AddReversible`, `RemoveReversible`. Moves come back because the preview puts the clip at the
  end of its array first (`MoveAgain`, `MoveBack`), so arrays may differ in order and contents may not;
  added tracks because their place by a stable sort is a place by order (`AddTrackIs`), which `InOrder` keeps;
  removed ones because they are put back at the index they had (`RemoveInserted`, `InsertRemoved`). What
  falls off the end of a full history leaves a shorter chain (`ChoppedChain`).
- `SegmentsLand`: clearing a region leaves what is shown beside it (`ClearedClears`, by the ways a clip
  may lie to a region, and `ClearRegionClears`), so placing a clip shows that clip and otherwise what was
  shown (`PlacePlaces`); by induction on the clips moved (`PlacedReplaces`), which must not overlap each other.
- `InsertsShift`: on a target and beside it, an insert leaves the clips of before, each pushed or not, and the
  new one (`InsertEditIs`); what is shown follows (`PushedShows`).
- Recursion: `Placed`, `LengthOf` and the library's `FlattenSeq` are recursive functions. That a function with
  the recursion exists is proved from `LeastNumber`, as for the wallet (`Recursion`); the operators are then
  known by their steps (`FlattenHolds`, `LengthChoice`, `PlacedChoice`). A sort permutes because each element has
  a place of its own and all places are taken (`PlacesAreTaken`, `SortedByHolds`).

Only model-checked: liveness (`DrainTerminates`, `EveryJobSettles`, `ShutdownTerminates`, `ExecutionEnds`),
because fairness and `ENABLED` are beyond the prover, and the two properties that the code violates, of which
there is nothing to prove.

## What is not modelled

Within the modelled parts.
*Render farm*: progress and its estimates, segments, artifacts, metrics, history contents, broadcasts
to the user interface, queue statistics, reconnection back-off and giving up, hardware detection,
ffmpeg itself, and process signals. `drainWorker` and `handleSegmentComplete` have no caller in the
program, so the statuses only they set do not occur. Real time is abstracted: a worker may be found
stale, a job time out or memory run short at any moment. The composition leaves out the agent's time
limits and shutdown, and pausing and reordering; each is in the module of its own side.
*Orchestrator*: the limit on concurrent plans, dead letters, the router's retries and circuit breakers
(inside the outcome of a call), `WorkflowRunner`. *Wallet*: the ledger, tiers, categories and prices.
*Project document*: restoring from a snapshot. *Timeline*: trim sessions, drags that are interrupted,
the edit operations without a command, effects, selection, the creation of a first sequence.

Beyond them, the rest of the inventory. Most of the repository is feature code (panels, codecs, audio,
sports and news connectors, publishing, native bridges) that keeps local state and has no protocol:
thousands of lines of data handling whose correctness is a matter of values. The plan says which parts
with protocols come next, and the components of `PROJECT.json` why the others are left aside.
