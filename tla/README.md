# Qualixar OS: TLA+ models and proofs

Qualixar OS runs a user's task through a pipeline of LLM agents: it designs a team, runs it
as a swarm, has judges review the result, redesigns the team when they reject it, and
delivers the output. Tasks can be paused, resumed, redirected and cancelled while they run,
and are recovered after a crash. Workflows can be deployed to run on a schedule or on events, and
tasks can be delegated to agents on other machines. This directory models that core, from the
orchestrator down to the model calls, and proves what it promises.

## The system

### Parts and how they interact

| Part (src/src/...) | State | Operations | Talks to |
|---|---|---|---|
| Orchestrator, engine/orchestrator.ts | maps activeStatuses, workingMemories, redirectCounts; per run(): redesignCount, options | run (12 steps), pause, resume, redirect, cancel, getStatus, recoverIncompleteTasks | everything below |
| Steering, engine/steering.ts | states and redirectPayloads, per task | registerTask, deregisterTask, request*, event handlers | event bus (subscribes to its own events) |
| Durability, engine/durability.ts | checkpoint:saved rows of the events table | checkpoint, clearCheckpoints, getIncompleteTaskIds | database |
| Heartbeat, engine/heartbeat.ts | one interval per task | start, stop, getStaleTaskIds | database (last_heartbeat) |
| Event bus, events/event-bus.ts | handlers; events table | emit (synchronous delivery), on, off, replay | all parts |
| HTTP server, channels/ | none of its own for tasks | POST /api/tasks (inserts the row, then run()), steering routes, a recovery sweep every five minutes | orchestrator |
| Other channels: CLI, MCP, Discord, Telegram | none | run() without a taskId | orchestrator |
| Workflow deployments, deploy/ | deployments rows; cron jobs; listeners on the bus | deploy, cancel, execution on a minute, an event or at once | event bus, orchestrator |
| A2A, compatibility/ | server: map of tasks; client: none | submit, status; delegate and poll | orchestrator, other servers |
| Degradation, engine/degradation.ts | failure count and tier per topology | recordFailure, recordSuccess, suggestDegradation | orchestrator |
| Budget and cost, cost/ | cost rows and totals | check, record | orchestrator, router |
| Agents, agents/ | registry of agents and their states; message hub subscriptions and history; scheduler tasks | spawn, transition, send, schedule | swarm engine, transports |
| Transports, agents/transport/ | locations, latencies | send with retry and fallback | remote A2A agents |
| Swarm engine, agents/swarm-engine.ts, topologies/ | none beyond a run | run: spawn, subscribe, call by topology, clean up | registry, hub, router, orchestrator |
| Retry and circuit breaker, utils/retry.ts | breaker state and failures of each provider | call | model calls |
| Judges, quality/ | issue history, drift and strategy statistics | evaluate, consensus | orchestrator |
| Router, router/ | catalogue, discovered models, beliefs, Q table | route, stream | budget, breakers, providers |
| Memory, memory/ | four layers in SQLite, beliefs | autoInvoke, promote, store | orchestrator |
| Security, security/ and enterprise/ | policies, audit rows, rate windows | evaluate | orchestrator, HTTP |
| Plugins, marketplace/ | plugins rows and directories | install, enable, disable, uninstall | tool, agent and skill registries |
| Workflows, builder/ | workflow_runs rows, node states | execute | swarm engine, event bus |

### What is hard

* **Interleaving.** Node runs one synchronous segment at a time, from await to await. Between
  two segments anything may happen: another task, a command, the sweep. What a segment reads
  of shared maps and rows may have changed since the last one.
* **Two invocations of one task.** The sweep re-executes every incomplete task, also one that
  is being executed. Rows, checkpoints, heartbeat and steering are keyed by the task, the
  local variables of run() by the invocation: the first to end cleans up under the other.
* **Events that call back.** Steering emits events and handles them itself, before emit
  returns; the orchestrator emits one of them too, for another purpose.
* **Crashes** between two writes of one segment, and what recovery makes of the rest.
* **Answers that come late.** A call is admitted in one state of a breaker and answers in
  another; a request is given up and arrives; a run ends after its deployment was cancelled.
* **Check, then act.** The budget is compared before calls that spend it later; the list of
  fallbacks is computed once and then awaited one by one; discovery is awaited by one of many.
* **Clean-up that is best effort.** A swarm deregisters agent by agent what the transition
  table lets it, on success otherwise than on failure, and some branches go on after it.
* **Limits.** Redesigns, the length of a pause, retries, active deployments, the budget.

### What makes each part correct

* Orchestrator: an outcome is final; an accepted cancellation is never answered by
  completed; a pause holds; a task that has started always gets an outcome; nothing stays
  behind in memory; a crash loses no task that has its first checkpoint, an ended one is not run
  again.
* Steering: every request ends in a settled state, and a command for an active task works.
* Deployments: one run at a time; nothing runs after a cancellation; the limit holds; a
  failure does not stop a schedule.
* Circuit breaker: it opens at the threshold and not before; while it rests nobody new gets
  through, and a stale answer does not close it.
* Router: a request fails only when nothing can answer it; it always ends; what is spent
  beyond the budget is bounded.
* Swarms: map and table of the registry agree; what a swarm leaves behind is known and is not
  at work; handlers and calls belong to a swarm that runs.
* Transport, A2A: a message that the remote agent did not get reaches the local one; what a
  client is told is true; a task reported as running is being run; everything comes to an end.

## Modules

| Module | What it is |
|---|---|
| Steering | engine/steering.ts: the state of each task and its pending redirect |
| Orchestrator | run(), commands, recovery and crashes, on top of Steering; all properties |
| TaskContract | the abstract task: opened once, ends once, cancel respected |
| SharedTaskContract | what is left of it when several invocations work on one task: taken up only without an outcome, left with one |
| MCOrchestrator | instances for TLC |
| Orchestrator_proofs | SafetyInv is inductive; theorems for every process |
| OrchestratorContract_proofs | EmbeddedInv is inductive and the orchestrator implements TaskContract, in a process that does not sweep |
| OrchestratorShared_proofs | in every process the orchestrator implements SharedTaskContract, and what follows for the rows |
| OrchestratorProgress_proofs | every invocation only moves towards its end, in a bounded number of moves |
| CircuitBreaker | utils/retry.ts: the breaker of each provider, as operators on its state |
| ModelRouter | route() with discovery, budget, retries, fallback, on top of CircuitBreaker |
| MCModelRouter | the models, providers and catalogues of its run |
| ModelRouter_proofs | breakers, budget, discovery, failover and the length of a route for any callers and models |
| DeploymentContract | the abstract deployment: begins, finishes, stops, is lost |
| Deployments | deploy/workflow-deployer.ts with the cron scheduler and the event bus |
| Deployments_proofs | the row's lock, the limit, cancellation, and the refinement of the contract |
| Swarms | swarm engine, registry, handlers at the hub, topologies, degradation |
| MCSwarms | teams, topologies and dependencies of its runs |
| Swarms_proofs | what is left behind, who is called and when, and how much is left to do, for any teams |
| RemoteTasks | A2A transport, client and server with the network between them |
| RemoteTasks_proofs | what a sender may conclude and how much may still happen, for any number of messages and attempts |

The models meet where the code calls: the swarm of Swarms is the awaited step "run" of
Orchestrator, a call of its agents is a route of ModelRouter, a run of Deployments or of
RemoteTasks is an invocation of Orchestrator. Each takes of the other only that an awaited
answer comes, well or badly. That is proved or checked on the other side (EveryRouteEnds,
EverySwarmQuiets, EveryRunEnds), so the models are not multiplied into one state space.

### Orchestrator: state and actions

An invocation of run() is an element of Run; TaskOf says which task it executes. `pc[r]` is
the await it is at: a step of the pipeline ("memory", "forge", "simulate", "security", "run",
"judge", the five awaits of the redesign loop, "save"), or "idle". With `held[r]` it polls a
pause in front of step `pc[r]`. `status`, `prompt` and `checkpoints` are in SQLite and survive
a crash; the rest is memory. `options[r]` keeps the prompt and whether the caller gave a
taskId.

A segment is one action: the awaited result arrives (MemoryDone, ForgeDone, ..., one action
for each way it can turn out), run() reacts and reaches its next gate. `Gate` is
handleSteering and everything run() does with its answer: buildCancelledResult, starting to
poll, starting over, or going on. Only two segments are cut where a crash between two of
their writes matters: the creation ("start", "inserted"/"updated", "mark") and the end
("finalise", "clear"). No command, timer or other run moves while a run is at such a cut
(`LoopFree`), but the process can die there. Handlers of promises that are already settled
(the catch of the HTTP route or of the sweep, which repeats the write of failed) run in
microtasks at the end of the same segment and change nothing that the segment has not set.

`Sweep` and `Recover` are recoverIncompleteTasks: its loop is synchronous, and each run() it
calls gets to its first await before the loop continues. Which running tasks without a
heartbeat are stale is left open, since it depends on clocks: any subset.

The redirect branch is in the model (StartOver) and cannot be reached: SteeringSettled says
that no gate ever sees the redirecting state. Redirect depth (MAX_REDIRECT_DEPTH) is
therefore not modelled.

Abstracted: what steps compute; prompts are model values. A budget check, a security
evaluation or a verdict may turn out either way at any time. The swarm loop of step 6 is one
await: its retry on another topology is never taken (finding 4), so that the first failure fails
the task. Awaited calls are assumed to settle in the end (providers
have timeouts). workingMemories only feeds the contents of checkpoints. A write to SQLite is
assumed to succeed.

The spawn of a redesign is modelled with its foreign key: without a taskId in the options the
agents' rows are rejected, so RedesignRunDone needs `options[r].taskId`.

What a crash can lose is stated by LostOnlyInCreation for every task, the ones over HTTP too. The
order differs: run() inserts a row as pending, writes the init checkpoint (orchestrator.ts:256) and
then says running; a row that POST /api/tasks has inserted is set to running first (line 214).
A process that dies before line 256 leaves a pending row, or a running one, without a checkpoint,
and no sweep finds it. Past the first checkpoint nothing is lost, and an escalated task never is.

### ModelRouter and CircuitBreaker: state and actions

A caller is one invocation of route() at a time; `pc[c]` is its await: "discovering" (the
discovery it started), "ready" (the synchronous part from the budget check on, cut off
because other callers may come in after a discovery), "calling", "backoff" (the sleep of
retry()). `model[c]` is the model called, `rest[c]` what is left of the fallback loop. The
action that ends a call is the whole segment: GiveUp counts the failure, takes the next fallback
whose breaker admits it (CallFailed, FallsBack) or throws (Fails). `rested` says that the
breaker's reset time has passed since its last failure; the code looks at its clock in the open
state only. ConfigChanged is the config:changed handler. A strategy picks any model it is
offered; Rank is the quality score by which fallbacks are sorted.

Every caller of route() leaves the task out, so that `WithinBudget` is the global check: what
a task has spent is the sum of no rows. Money is counted in units; a call costs at most MaxCost.

Abstracted: the text of requests and answers, providers' protocols, learning of strategies,
streaming. `Healthy` providers answer every call; the others may fail at any time.

### Deployments: state and actions

`status` and `trigger` are the row, which survives a crash; `jobs`, `listeners` and
`inFlight` are memory. Executes is _executeDeployment() up to its await for a set of
deployments: an active row is locked, others return. An emitted event reaches every listener
inside emit(), so that Deploy, Cancel and Finish execute in the same step whoever waits for
the event they emit, be it the deployment that has just finished. cancel() forgets a listener
but leaves it on the bus, hence `listeners` never shrinks but by a crash. After Crash nothing is
registered again, because only deploy() does that: an active row of the process before never runs
again. No property says this, since it would only repeat that Tick asks for a job; what a
crash does to the promise of one run at a time is in the contract. `cancelled` and `hitRun` are history.

The contract: a deployment is none, ready, busy, stopped, or lost (a crash has interrupted it).
It promises one run at a time and none once stopped or lost. A cancellation of a busy one
promises nothing, because the end of its run makes the row active again.

### Swarms: state and actions

A swarm is one SwarmEngine.run(). `calls` are the visits whose executeAgent() is awaited; when
one settles, the topology makes the following calls in the same step (Continues), the swarm
succeeds (Completes), or it fails and the orchestrator hears of it (Breaks, Failure).
The transition table is the code's: an idle agent can only go to work, so clean-up leaves it
where it is. `registry` is the map, `row` the table; SpawnFails is a register() whose insert is
rejected. Completes includes what the orchestrator does in the same continuation: it writes the
status of each agent's result over its row (orchestrator.ts:507), completed or failed, and leaves
the map alone. After a redesign it writes nothing.

A visit is a swarm with a path of its agents. For a sequence, a parallel swarm or a debate the
path is one agent. ForestTopology reads each agent's DEPENDS_ON list, which nothing validates,
and executeTree() walks from every root to the dependents: an agent is called once for each path
that leads to it. `Paths` are those paths up to StackDepth. Follows gives the calls that may come
after an answer: the next of a sequence, the other side of a debate or its end, in a forest the
visit above if all the others below it have returned. So

* an agent that two others depend on is called twice;
* agents that depend on each other and that no root leads to have no visit: they are never called,
  and the swarm succeeds without them;
* a cycle below a root exhausts the stack, at a depth StackDepth stands for (Overflows): the
  agents nobody depends on have been called by then, the swarm fails, and their calls go on
  (Misfit).

Parallel tolerates failures (Promise.allSettled); forest does not (Promise.all), and its other
branches go on. The further topologies await calls in one of these three ways.

`failures` and `tier` are the degradation engine's, per topology. Failure is the loop of
orchestrator.ts:429-480: a degraded swarm would be tried on a simpler topology. A swarm of a
redesign (`Redesigned`) runs without this loop; one whose caller gave no taskId (`Orphaned`)
fails to spawn. Its second attempt after two seconds is another such swarm.

Abstracted: a role named twice in one DEPENDS_ON list counts once; the time that two cyclic children
take to use up the stack, which grows exponentially; what the results are. A parallel branch that
was rejected has its error as an output, so that its agent is recorded as completed, as in the
code.

### RemoteTasks: state and actions

The sender's side is the transport for a Message (send() with its breaker and attempts) and
delegate() for a Delegation. A request is an attempt on its way; it may be accepted at any time
later, also when its sender has given it up, or never (lost). An answer stays readable until its
sender no longer waits for it (lost or late). The server keeps `entry`, its map of tasks, and
starts a run for each request it accepts; a repeated one replaces the entry, and both runs write
their end to whatever the map has. Restart empties the map: _persistTaskState() updates a row
with the task's identifier, and run() gives its row another one. The transport's breaker differs
from CircuitBreaker: any success closes it, and an attempt under way does not look at it again.

A send ends "delivered", "undelivered" (all attempts failed: a result with delivered: false, no
exception) or "local" (the breaker is open: an exception, which the hybrid transport catches).
The documentation promises the third also where the code does the second.

## Runs

| Run | Question | Instance | Properties |
|---|---|---|---|
| embedded | Is the contract kept in a process without the sweep (CLI, MCP), and what can a crash lose? | 2 tasks, one with a pre-inserted row, 2 prompts, 3 redesigns, 2 crashes | TypeOK, LostOnlyInCreation, ContractSpec, EscalatedNeverCompletes, PauseHoldsAtGates |
| server | What survives when the sweep runs a task twice at once, and does everything end? | 1 task, 2 invocations, 1 crash, 2 redesigns, fairness | SteeringSettled, NothingLeaks, EndedIsNotReexecuted, SharedContractSpec, Settles, EveryRunEnds |
| redirect_ignored | "Change a task's prompt mid-execution" | as embedded | RedirectTakesEffect, violated |
| pause_in_redesign | "Agents stop at their next checkpoint" | as embedded | PauseStopsRedesign, violated |
| sweep_double_run | the sweep is for stuck tasks | 1 task, 2 invocations, no crash | OneRunPerTask, violated |
| router | Do breakers, budget, discovery and failover hold with concurrent routes? | 2 callers, 3 models of 2 providers of which one answers, 1 retry, threshold 2, 2 catalogues, 1 change, fairness | TypeOK, OverrunBounded, DiscoveryShared, FailoverReachesHealthy, OpenHolds, EveryRouteEnds |
| deployments | Does the lock of the row hold against events, minutes, cancellation, crash? | 3 deployments, limit 2, 3 events, 1 crash, fairness | TypeOK, OneRunAtATime, LimitHolds, ContractSpec, CancelIsFinal, CancelQuiets, ScheduledRunsAgain |
| swarms | What do swarms leave behind, however they end, and whom do they call? | any 3 of 8 swarms: each topology, a forest of five agents in which one depends on two and one on itself alone, one with a cycle below its root, a debate with one agent, redesigns with and without a task; StackDepth 4, 2 rounds, fairness | TypeOK, LeftBehindIsIdle, RegistryMatchesTable, HandlersOfTheLiving, CallsBelong, CalledInTurn, EverySwarmQuiets |
| never_degrades | "automatically retries with simpler topologies" | 2 swarms, one failure below the next tier | FailureDegrades, violated |
| remote_tasks | What may a sender conclude from what it hears? | 2 messages, 2 attempts each, threshold 1, 1 delegated task, 1 restart, fairness | TypeOK, FallbackMeansFailures, CompletionIsTrue, RunningMeansRun, FinalStatus, EverythingSettles |
| no_local_fallback | "fallback to local on failure" | as remote_tasks | FallsBackOnFailure, violated |
| forgotten_after_restart | "survives server restarts" | as remote_tasks | CompletedIsNotForgotten, violated |

**Bounds.** Run, the invocations live at once, stands for the memory and time of a server: the
code has no limit. Sweep waits for a free invocation of each task it read, so a larger Run only
adds more of the same; two show one that starts or ends while the other is at any await or paused,
and the theorems hold for any number. MaxRedesigns is 5 in the code: 2 and 3 include the first, an
inner and the last rejection. MaxCrashes 2 includes a crash during recovery. Two tasks only share
the process. The proofs drop all these bounds.

Router: two callers are enough for a late answer to meet a breaker that another has opened, and
for the last call within the budget to be two calls. Threshold 2 and one retry tell attempts from
failures. The spending is cut by the budget itself, since nothing is called beyond it.
Deployments: with a limit of two, a third is refused, and exceeds it only after a cancellation
during a run. Swarms: the forest of five has a root with two visits below it, each of which waits
for a visit of the same agent, so that branches return in any order and a failure in one leaves
agents to the other; its fifth agent has no visit. The debate of three has an agent that is never
called. Swarms influence each other only through the tiers of degradation, so that the constraint FewStarted lets
any three of the eight begin; their interleavings are all explored. A StackDepth of 4 is more than
the depth of the forest that is no cycle. Every topology has failed once before (PastFailures), so
that another failure reaches a tier's threshold. Remote: with threshold 1 either message opens the
breaker for the other; two attempts make one that is given up and arrives.

**Deadlock** is off in the runs without a sweep: there, once every task has ended or been
orphaned by a crash and the crashes are used up, nothing is left to do. It is off in
deployments (everything cancelled), swarms (all have ended) and remote_tasks (all are settled)
for the same reason; router checks it.

**Fairness** (server). Weak fairness of each invocation's steps: a pending promise settles, a
timer fires, and a segment runs to its end because nothing preempts it. A user who pauses and
resumes forever cannot starve an invocation: PauseTimeout or Wake is always enabled for a
held one between two commands, and it is one of its steps that the fairness asks for. Weak
fairness of Sweep, an interval that is never cleared while the server lives. No fairness of
commands, submissions or crashes. The choice between approve and reject is not fair either:
the loop ends because it counts.

Router: weak fairness of each caller's steps; answers come because requests have a timeout.
Nothing is assumed of configuration changes, of the rest of a breaker, or of success.
Deployments: weak fairness of the end of each deployment's run (EveryRunEnds, in the orchestrator)
and of each job's minute, which comes round again. Swarms: of some call settling, the weakest that
ends anything. Remote: of each sender, whose fetches, delays and polls have timeouts, and of
the end of runs; the network and restarts owe nothing.

## Findings

Each of the following is a run that expects a violation, and TLC prints the steps.

1. **Redirect is ignored.** The handler of steering:redirected moves the task back to running
   inside requestRedirect; no gate sees redirecting. (redirect_ignored)
2. **A pause does not stop the redesign loop.** A task that is paused while its verdict is awaited
   goes on into forge.redesign, a security evaluation and a swarm. Only a task without a caller's
   taskId can be paused, and the redesign swarm of such a task fails (below): it is tried once
   more two seconds later, and the paused task fails. (pause_in_redesign)
3. **The sweep runs live tasks twice.** (sweep_double_run)
4. **A failed swarm is never retried on a simpler topology.** recordFailure() has already moved the
   tier when suggestDegradation() is asked, so `changed` is false also at the failure that reaches
   a threshold, against docs/guides/cost-optimization.md:109. (never_degrades)
5. **A message that cannot be delivered is not delivered locally.** _handleFailure() returns
   delivered: false, the fallbacks wait for an exception, and A2AMsgHub emits the event of a success
   for it. (no_local_fallback)
6. **A completed A2A task is forgotten by a restart.** Its state is written only to a row of its own
   identifier, which run() does not create; the client gets 404 and reports a failure, against
   docs/protocols/a2a.md:77. (forgotten_after_restart)

Three more follow from one line each, are part of the models, and have no run of their own:

* **HTTP and recovered tasks cannot be steered** (orchestrator.ts:228). Only a row that run()
  inserts is registered with steering; docs/reference/api-endpoints.md:39 says "Pause a running
  task" of POST /api/tasks/:id/pause.
* **Redesigns of CLI, MCP and deployed tasks always fail** (orchestrator.ts:673). The redesign's swarm gets
  options without the taskId, and the foreign key of agents rejects its agents;
  db/migrations/phase14b.ts:42 says that the row exists before agents are spawned.
* **A task over HTTP can be lost while it says running** (orchestrator.ts:214, 256): see
  LostOnlyInCreation.

What the other models say of the code, where its text promises nothing different or nothing at
all: the properties are stated so that they hold, and name the exception.

* The end of a run undoes a cancellation that came during it: the row is active again, counts
  towards the limit, and runs again if it waits for an event (CancelIsFinal, LimitHolds).
* A deployment that runs once stays active after its run and counts towards the limit until it is
  cancelled. After a restart neither jobs nor listeners are registered again, and it runs no more.
* An agent that was not called before its swarm ended stays in the registry, and the handlers of a
  failed swarm stay at the hub (LeftBehindIsIdle, HandlersOfTheLiving). A failed forest can put
  such an agent to work, and nobody ends that.
* After a success the table says failed of an agent that was never called, while the map keeps it
  idle (RegistryMatchesTable).
* A forest calls an agent once for every path to it, forgets agents whose dependencies form a
  cycle no root leads to, and fails on one below a root (CalledInTurn speaks of visits).
* retry() runs inside the breaker, so a call goes on with its attempts while the breaker is open;
  several callers can probe a half-open one, where retry.ts:128 speaks of one probe (OpenHolds
  says nothing of how many).
* docs/guides/cost-optimization.md:55 speaks of a hard global limit; it is checked before calls
  that spend later, and overrun by up to one call for each caller (OverrunBounded).
* The limit per task of the budget never binds, since no caller of route() says its task.
* The breaker of the A2A transport is closed by any success, whatever its state. Nothing in
  bootstrap.ts registers remote agents or creates the A2A server and client.

Not covered by a property: a status pending_human_review that the same invocation overwrites with
failed; recovery that drops budget and working directory and starts from the first step; a
discovery that ends after a change of the configuration and fills the list the change has emptied
(failover makes up for it); _currentStrategy, one field for all routes, so that a reward may be
credited to another route's strategy; discovery that asks the providers of start-up whatever the
configuration has become; the handoff router, which picks the first agent with the role across all
tasks, and broadcasts that reach every swarm's agents, both of which only change statistics.

## Proofs

Everything in this section is checked by TLAPS, for all values of the constants that satisfy
ConstantsAssumption (TaskOf is a function from Run to Task, HttpTask a set of tasks, MaxRedesigns a
positive number) and NoPromptAssumption (NoPrompt is not a prompt). Task and Run may be infinite.

**SafetyInv** (Orchestrator_proofs). The properties of the server run are not inductive:
whether an invocation that starts finds a checkpoint, or whether the sweep's list is still
true when it gets to its end, depends on where the invocations are. SafetyInv adds

* OneSegment: at most one invocation is inside a synchronous segment;
* RunInv: what is known of an invocation from its position. One that is about to mark its row
  running has its init checkpoint; one about to clear the checkpoints has an outcome; none
  inside a segment belongs to a task the sweep has still to visit;
* SweepReadsIncomplete: what is left of the sweep's list is incomplete and checkpointed.

GatePreserves proves once, for any row, checkpoints and counter a segment can have prepared, that
reaching a gate preserves the invariant; every action that ends at a gate cites it. From
it follow TypeCorrect, SteeringAlwaysSettled, NothingEverLeaks, LossIsInCreation, and the action
properties EndedNeverReexecuted and PauseHolds, which use StepIsLocal (a step of an
invocation touches only its own task) and StepKinds. They hold with any number of concurrent
invocations of one task.

**EmbeddedInv and the refinement** (OrchestratorContract_proofs). With ~Sweeping a task has one
invocation (OneRunPerTask), and its row follows from the position of that invocation
(RowFollows). StepFollows shows that each step keeps this and that it opens the task, ends
it as the contract allows, or leaves the contract's view alone; with that, ImplementsContract
proves Spec => ContractSpec under the refinement mapping of `Contract`: a row that is missing
is absent, an incomplete row is open, and a cancellation is asked while the row is incomplete
and the steering state cancelled. EscalatedNeverCompleted follows from the same lemma. The
contract does not hold in a sweeping process: two invocations can end one task differently.

**The shared contract** (OrchestratorShared_proofs). What does hold in every process is that work
is taken up only on a task without an outcome, that whoever works last leaves an outcome, and that
nobody touches a task nobody works on; only the death of the process, which the contract counts,
leaves work undone. The mapping `Shared` makes a task busy while any invocation of it is live. An
invocation that is the last to leave has not necessarily written the outcome itself, so the step
needs UndecidedIsOwned: an undecided task that is being executed has an invocation that is not yet
past its final write. With it ImplementsSharedContract proves Spec => SharedContractSpec.
OutcomeAlwaysStands is then a consequence of the contract alone: an outcome that a client reads
while nobody executes the task is final. So is NothingIsAbandoned: only a crash leaves an
undecided row that nobody works on, and LossIsInCreation says that it has a checkpoint, so that the
sweep finds it, unless the process died while the task was being created.

**Deployments** (Deployments_proofs; Deployment finite, any limit, any events). Every step
but a crash writes some row and then executes a set of deployments; ExecutesEach says what
that does to each. RowsInv adds to OneRunAtATime that a cancelled deployment that is not at rest was
hit during a run, and that an absent row has nothing; without the first, LimitHolds and
CancelIsFinal are not inductive. LiveStep bounds what a step can add to the deployments that count.
For ContractHolds, ExecutesBegins shows that Executes is BeginsFrom of the contract under the
mapping PhaseOf, and each action is then one action of the contract: a minute or an event
Begins, the end of a run Finishes and begins, a crash maps busy to lost or stopped.
NoJobAfterCancel, that no job outlives the cancellation of its deployment, is stated by its
theorem alone.

**ModelRouter** (ModelRouter_proofs; finitely many callers and models, any providers and limits).
What a segment of a caller comes to is a call that is admitted or the end of the route
(CallsOrFails); Sound and Moves say what that, an answer and time may do to a breaker. From them
OpenHolds and TripsAtThreshold. OverrunBounded needs BudgetInv, which sets the cost of the calls
in flight aside: a call is admitted below the limit and then moves its share from the calls to
what is spent. FailoverReachesHealthy needs FailoverInv: healthy providers' breakers are closed,
and a caller whose loop calls another has a healthy one left to try. TripsAtThreshold, that a closed
breaker opens with the failure that reaches the threshold and with no earlier one, is stated by
its theorem alone.

**Swarms** (Swarms_proofs; any swarms, sizes, topologies, dependencies; SwarmsAssumption only says
that dependencies name agents of the team). AgentInv says what is known of an agent from the state
of its swarm; an agent that is idle was never called, and one at work belongs to a swarm that runs
or a forest that failed; VisitInv says the same of its calls. DepthInv, that no swarm runs whose
recursion has no end, lets the arguments about forests leave cycles aside: an agent without a
dependent ends every path. SingleInv, that a sequence and a debate make one call at a time, is
needed for CallsBelong: their failure leaves no call behind. OthersKeep reduces each step to the
team of one swarm.

Whom a swarm calls is one invariant for the three topologies whose visits are fixed beforehand
(TurnInv): a visit that was called has the answers it waits for, and one whose answers
are there has been called. FollowsInTurn says that the calls that follow an answer are those that
waited for it last; SettleKeepsTurns is then the same argument for every topology, also for
the branches of a forest that has failed. CalledInTurnHolds follows at once. SuccessMeansAllHolds is
an induction over the visits: were one of a swarm that succeeded without an answer, take the
first of them in a sequence, one with a longest path in a forest; all it waits for have answered,
so it was called, and nothing is awaited any more. Least, that a set of numbers has a least one,
comes from the library's well-founded relations.

**RemoteTasks** (RemoteTasks_proofs; any messages, delegations, attempts, restarts). PostedInv
relates the position of a sender to what it has posted; from it OneDelivery, that the fallback for
an open breaker never delivers a message twice, which is stated by its theorem alone. OnceInv says
that an identifier posted once is accepted once and run once, from which an answer completed is
true and a final status stays; that an answer failed is true is refuted (finding 6). BreakerInv
ties the count of the breaker to the messages that were not delivered.

**Measures.** Liveness itself is out of the prover's reach, but half of it is not: that nothing runs in
circles. For each component a number says how much is left, and it is proved that every step
which concerns the invocation, route, swarm or message lowers it, whatever the others do, and that
the number is bounded:

| Theorems | What gets less | At most |
|---|---|---|
| OnlyEverAdvances, MovesAreBounded | moves of an invocation of run(), over its steps, redesigns and pauses | 27 + 10 * MaxRedesigns |
| OnlyAdvancesHolds, RouteIsBounded (ModelRouter) | attempts, sleeps and fallbacks of a route | (2 * MaxRetries + 2) * (models + 1) + 1 |
| OnlyQuietsHolds, CallsAreBounded (Swarms) | answers of visits that are missing, turns of a debate | visits + 2 * MaxRounds + 3 |
| OnlySettlesHolds, SettlingIsBounded (RemoteTasks) | steps of a sender, requests under way, runs | 6 * MaxAttempts + 3 |

What is left of the liveness properties is that a step comes at all, which is the fairness the
specifications state, and that one is possible, which the runs check. The measure of a debate needs
SpeakersInv (only its two sides are called) and SingleInv, that of a forest the turns.

Only model-checked: the liveness properties Settles, EveryRunEnds, EveryRouteEnds, CancelQuiets,
ScheduledRunsAgain, EverySwarmQuiets, EverythingSettles, which need fairness and ENABLED. The
measures are their safety half; Settles, CancelQuiets and ScheduledRunsAgain have none, since crashes,
sweeps and events begin work again. Every invariant and action property of a passing run is proved.

## Not modelled, and why

Most lines of the repository are user interfaces (dashboard, CLI and its commands, HTTP routes
that read), connectors (providers, channels, tools, containers, credentials) and computations on
text and numbers. They keep no state that concurrent steps share, or their state is outside the
process. The map therefore covers a small share of the lines, and the parts where order,
failure and limits matter in full.

* **Forge, simulation, judges, memory, security**: to the models each is an awaited answer that
  may turn out either way. What they compute (prompts, scores, consensus as sums and medians,
  beliefs, policies) is numeric or stochastic; Q-learning and strategy weights likewise.
* **Scheduler**: not wired into the program (bootstrap.ts:158). A task added after its
  dependencies have completed would never become ready.
* **Message delivery and handoffs**: they count messages and emit events; only who has a
  handler matters to others and is modelled.
* **Further topologies**: built from the three ways of awaiting calls that the four modelled have.
* **Plugins**: downloads, directories and one table, operated by hand. Two installs of one plugin at
  once insert two rows over one directory.
* **Workflow builder**: one call of the swarm engine; two executions of one workflow at once
  mark each other's nodes, in the display only.
* **Recovery's contents**: what a checkpoint holds beyond its existence.
* **Enterprise**: tables, encryption, single sign-on; the rate limiter is a counter without await.
* **Database**: each write of the models is one synchronous statement and is assumed to succeed,
  except the insert of an agent whose task has no row.
