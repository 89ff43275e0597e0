# Verification of comuki: orchestration core and command-line client

TLA+ models of the two halves of comuki in which the order of events decides what
is right: the orchestration core of the platform, where several hosts and many
workers write the same rows, and the command-line client, where a user, the wire
and the disk act on one kernel.  With them come the TLC instances that check them
and TLAPS proofs of their main properties.  Paths below are relative to the
repository; `OE` is `platform/src/engine/Comuki.Engine.Orchestration`, `CE` is
`platform/src/engine/Comuki.Engine.Compute`, `H` is `platform/src/host/Comuki.Host`,
`T` is `platform/src/host/Comuki.Host.Translator`, `M` is `platform/src/modules`,
`C` is `cli/src`.

## 1. Inventory

comuki turns tickets, chat requests and schedules into *runs*.  A run is a plan:
a graph of *work items* executed by agent workers (Translator processes) that
pull items from a queue kept in PostgreSQL.  The host serves the worker API, the
operator's decisions and the background loops.  Users talk to it through the
dashboard and the client, a terminal program with several chat sessions (tabs).

| Component | State | Operations | Interacts with |
|---|---|---|---|
| Work-item queue (`OE/Infrastructure/Queue`) | `runs`, `work_items`, `work_item_dependencies`, outbox, journal | claim, heartbeat, complete, fail; unblock dependents; finalize the run | workers (HTTP, retried), reaper, cancel, steer: shared rows |
| Lease reaper (`OE/Infrastructure/Leases`) | the same rows | requeue or fail expired items, finalize runs | runs every `ReapInterval` in every host |
| Run lifecycle (`OE/Domain`) | `runs.status`, `runs.generation` | transition table, aggregate guard | everything that changes a run |
| Operator cancel (`H/Runs/HostCancelRunAdapter.cs`) | run and items, row locks | read, lock the items, rewrite them, compare-and-swap the run, retry up to five times | queue, steer, other cancels |
| Operator steer (`H/Runs/HostSteerRunAdapter.cs`) | a follow-up item | lock and re-check the run, insert | cancel, queue |
| Operator approve (`H/Runs/HostApproveRunAdapter.cs`) | `runs.status` | read, check, save by id | queue, cancel |
| Budget hard stop (`H/Costs/OrchestrationBudgetGate.cs`) | `runs.status`, journal | read, save, journal | proxy metering of model calls |
| Escalation sweeper (`OE/Infrastructure/EscalationTimeout`) | `runs.status` | archive old Escalated runs | |
| Run launchers (`H/Chat`, `H/Integration`, `H/Scheduler`) | run with items, inbox | insert in one transaction, deduplicate messages | |
| Outbox and inbox (`OE/Infrastructure/OutboxDispatch`, `Inbox`) | messages, attempts | claim, publish, mark, dead-letter | Work module |
| Merge queue (`OE/Application/MergeQueue`) | entries | enqueue, claim, merge, abandon, release | operators |
| Verification gate (`OE/Infrastructure/Verification`) | records | evaluated inside the completing transaction | queue |
| Scale supervisor and pool (`CE/Supervisor`, `CE/Pool`, `CE/Scaling`) | in-memory registry of workers | sync, decide, start, stop; busy and idle marks | worker API, compute provider |
| Worker API, keys, command hub (`H/Workers`) | minted keys, command channels | claim to complete endpoints, mint, revoke, send | queue, pool, proxy |
| Translator (`T/Execution`) | the claim it holds | claim, run the session, heartbeat, complete or fail | worker API |
| Scheduler (`M/Scheduler`) | jobs, next fire time | poll, dispatch, stamp | launcher |
| Work module (`M/Work`) | tasks, attempts, watermarks | launch attempt, ingest terminated runs | outbox |
| Ticket bridge (`M/Integrations`) | tickets, sync jobs | release tickets of ended runs, report to trackers, retry | run statuses |
| Procedures (`M/Procedures`), costs, proxy, and the CRUD modules | their own stores | | |
| Client kernel (`C/kernel/kernel.ts`) and reducer (`C/harness/reducer.ts`, `intents.ts`, `state.ts`) | sessions with turn, queue and draft; outbound log; applied outcomes; dispatch gate | submit, stop, approve, open, close, focus; reduce the events of the ports | everything else of the client, through events and effects |
| Client effects and HTTP port (`C/harness/effect-runner.ts`, `C/kernel/adapters/http.ts`) | requests in flight, abort controllers by key | create a session, submit, cancel, decide, persist | the platform's chat API |
| Client live feed (`C/lib/signalr.ts`, `C/kernel/adapters/signalr.ts`, `C/kernel/reconnect.ts`) | the hub connection and its retry gate, joined groups, last chunk number per session | start, retry, join and leave groups, drop repeated chunks | SignalR library, kernel |
| Client workspace document (`C/harness/workspace.ts`, `C/lib/json.ts`, `C/harness/engine-adapter.ts`) | `sessions.json`, the lane of writes | load at the start, write with every change of the sessions | kernel; the second engine of the Ink shell |
| Client durable stores (`C/kernel/receipts.ts`, `cursors.ts`, `sessions.ts`, `drafts.ts`, `telemetry.ts`) | append-only files | append, read at the start | kernel |
| Client hosts (`C/commands/opentui.ts`, `C/tui`, `C/commands/chat.tsx`) | composer, panels, key bindings | turn keys into intents; start and stop the kernel | kernel |
| Dashboard (`dashboard/src`) | cached queries of the API | views | platform API and hub |

What is hard: several hosts and many workers act on the same rows; worker calls
are retried and arrive late or twice; workers die holding leases; a cancel spans
several statements; two operators' decisions go through the ORM without a
concurrency token; a run must be finalized by whichever transaction closes its
last item, exactly once.  What must hold, per component: one lessee per item and
no attempt handed out twice (queue); prerequisites first (queue); no finalized
run with open items, no active run without any (queue, reaper, steer); exactly
one terminated message (queue, outbox); a cancelled run's workers are powerless
(cancel); terminal is terminal (lifecycle); every run ends and every lease comes
back (reaper); no project above its cap, no worker stopped with an item in hand,
no useless worker kept for ever (supervisor).

In the client one thread runs the kernel, and what is hard is what happens between
its events: the user types, stops and closes while requests are in flight; answers
come late, twice, or after their turn was stopped; the connection drops and comes
back under a new id without its groups; a workspace write takes time and the process
may end in it; a second engine writes the same file.  What must hold: what the user
typed is posted once and in order, one turn lives per tab and the screen does not
think without a request, an outcome and a decision count once (kernel); open
sessions hear their chunks, once each (live feed); a restart finds what the user
had open (workspace).
`PROJECT.json` lists each hazard at its line with the property
that covers it or the reason none does yet.

## 2. Modules

| Module | Contents |
|---|---|
| `WorkItemQueue` | queue, reaper, cancel, steer and launch, their properties and fairness |
| `RunDecisions` | extends it with approve and the budget hard stop |
| `QueueContract` | the abstract promise: runs open and close once, items are finished once by whoever holds them |
| `WorkItemRefinement` | the mapping under which the queue implements `QueueContract` |
| `WorkerPool` | the scale supervisor's pass, the registry of workers, containers, tokens and the marks of the worker endpoints |
| `PoolContract` | the abstract promise of the pool: who may be started, who may be stopped, and that the rest is a counted fault |
| `ClientTurns` | the client's kernel, reducer and HTTP port: sessions, turns, queues, approvals, requests in flight |
| `ConversationContract` | the abstract promise of the client: one request at a time, the oldest message first, served and ended once, a turn ended by its own end or a stop |
| `ClientWorkspace` | the client's document of open sessions: its writers, exits, crashes and restarts |
| `ClientFeed` | the client's live connection: retries, chat groups, subscriptions, chunks |
| `MCQueue`, `MCDecisions`, `MCPool`, `MCTurns`, `MCWorkspace`, `MCFeed` | small instances for TLC |
| `WorkItemQueueProofs` | theorems about runs, plans and the outbox |
| `WorkItemLeaseProofs` | theorems about leases, fences and results |
| `WorkItemRefinementProofs` | the proof of the refinement |
| `RunDecisionsProofs` | what survives approve and hard stop |
| `WorkerPoolProofs` | theorems about the caps and the adopted workers, and the refinement of `PoolContract` |
| `ClientTurnsProofs`, `ClientWorkspaceProofs`, `ClientFeedProofs` | theorems about the client, with the refinement of `ConversationContract` in the first |

### WorkItemQueue against the code

State.  `runStatus`, `runGen` are the columns of `runs`; `itemStatus`, `itemGen`,
`leasedBy`, `attempt`, `createdAt` those of `work_items`.  `"Absent"` is a row not
inserted yet.  `lease[i]` is `lease_until` minus now: `Tick` lets every running
lease lose a tick, and it is not followed below `-ReapGrace`, past which no guard
of the code tells values apart.  `createdAt` is a counter, `stamp`; equal stamps
are the items of one plan, between which the claim's order is left open.
`outbox[r]` counts the terminated rows of a run.  `claims` is the set of replies
workers were ever sent and `result[i]` the reply whose call wrote the item's
journalled result: history, read by properties and used as the source of calls.
`cancel[o]` is the local state of one cancel request with the rows it has locked.

Atomicity.  A store transaction is one action, because each locks the rows it
decides on before it decides (`FOR UPDATE`, guarded `UPDATE`) and PostgreSQL
re-evaluates a guard after waiting for a lock.  The finalization locks the run row
first (`LockRunForFinalizationSql`), so two of one run do not overlap.  The cancel
is the exception: it locks items at its start and touches the run row at its end,
and a steer, which locks the run row only, or a finalization through rows it does
not hold can commit in between.  It is modelled as read (`CancelRead`), lock
(`CancelItems`), and commit or miss (`CancelCommit`, `CancelMiss`, `CancelRetry`),
with `Locked` holding everyone else off the rows: a claim skips them (`SKIP
LOCKED`), the other calls wait.  Its item updates are folded into the commit since
nobody sees them earlier.  `CancelAbort` is the death of the host or the request.

Workers.  Heartbeat, complete and fail may quote any reply in `claims`, at any
time and repeatedly: that is a slow worker, a retried request, a duplicate, a late
one; a worker that died is one that quotes nothing any more.  `Claim` adds a reply
even if it never reaches the worker, which is a lost response.

| Action | Code |
|---|---|
| `Launch` | `ChatRunStarter.StartAsync`: run, items, edges in one transaction; generation 1 |
| `Steer` | `StageFollowUpAsync` with its re-check under the lock |
| `Claim` | `ClaimSql`, `RunActivationSql`, journal, commit |
| `Heartbeat` | `HeartbeatSql` |
| `Complete`, `Fail` | `ApplyAsync`: guarded update, unblock, finalize, outbox, commit |
| `Reap` | `LeaseReaper.ReapAsync` |
| `CancelRead` ... `CancelAbort` | `HostCancelRunAdapter.CancelAsync`, `ApplyWithFencingAsync`, `TryCancelOnceAsync` |

Left out: journal rows other than the result, the verification verdict (a failing
evaluation rolls the whole completion back, which is the completion not having
happened), labels beyond "this worker serves this item" (`Serves`), the best-effort
stop sent over live streams after a cancel.

### RunDecisions against the code

Approve and hard stop load the run, check what they loaded, and let the ORM write
the row by id.  Each is a read step and a save step; the hard stop journals in a
third.  `ApproveLost` and `StopLost` are the host dying in between.  A hard stop
needs a claim of the run, since it is triggered by a metered model call of one of
its workers.  `MaxStops` bounds how often it is triggered.  The status a hard stop
finds must allow `Cancelled`: for Succeeded and Cancelled the code returns early,
for Failed `TransitionTo` throws.

### QueueContract and the refinement

The contract knows neither leases nor generations: a run is absent, open or
closed; an item has a holder or none, and an author once it is finished.  The
mapping calls the worker of the latest claim the holder while the item is Running
*and* the claim still carries the item's generation, so the fence of a cancel,
which changes only a number, is a revocation.  The contract then says that a
finish comes from the holder, that conclusions are announced in the same step and
leave nothing held, and that withdrawing a run takes away its plan's items.

### WorkerPool against the code

State.  `up` are the running containers, `project` and `profile` their labels;
`token` the workers whose process holds a token the issuer accepts; `pool`, `busy`
and `age` are `WorkerPoolState`, `age` being now minus `LastActiveAt`.  `call[w]`
is where the endpoint that serves worker `w` is between the queue's answer and the
end of its mark; `working` and `leased` say whether the process works on an item
and whether the queue agrees.  The rest is the local state of the pass: one
supervisor runs in one host, one pass at a time.

Steps.  The pass moves from await to await (`GetCapacityAsync`, `ListAsync`,
`CountQueuedAsync`, `StartAsync`, `StopAsync`) and everything else moves in between:
`Decide` reads the registry after the count has come back, `Register` follows the
start, `StopWorker` acts on what `PickStale` read.  A mark is a read and a write of
the dictionary (`ReadEntry`, `WriteEntry`), as in `MarkBusy`, `MarkIdle` and `Touch`.

| Action | Code |
|---|---|
| `BeginPass`, `ListProject`, `CountQueued`, `Decide`, `NextProfile`, `NextProject`, `EndPass` | `ScaleSupervisorCycle.RunAsync`, `ScalePolicy.Decide` |
| `SyncFromProvider` | the rest of `SyncFromProviderAsync` after `ListAsync` |
| `StartWorker`, `Register` | `Issue`, `StartAsync`; `Register` |
| `PickStale`, `StopWorker`, `RemoveWorker` | list of the stale; `StopAsync`; `Revoke`, `Remove` |
| `AbortPass` | an awaited call throws, before or after it took effect |
| `ClaimItem`, `HeartbeatItem`, `FinishItem`, `DropItem` | the worker endpoints and the translator that calls them |
| `ReadEntry`, `WriteEntry` | `MarkBusy`, `MarkIdle`, `Touch` |
| `Die`, `ExpireToken`, `RestartHost` | a container that exits, a token past its TTL, the host with its in-memory stores gone |

Abstractions.  Projects and profiles are visited in any order.  A worker id that
nothing refers to is used again.  The queue is a count per project and profile: an
item whose worker died or lost the lease comes back through `Arrive`, as from the
reaper.  A worker call that fails on its way counts as the lease lost, which is how
`HeartbeatMonitor` treats it.  A claim matches the profile and not the project, as
`ClaimSql` does.  Ages are not followed above the TTL, so which of several stale
workers goes first is open.  All projects share one environment class, the scale
settings stay as they are, and the provider is the Docker one.  The two loops of
`SyncFromProviderAsync` are one step.

Contract.  `PoolContract` sees where a worker runs (`runsFor`: the project of a worker
that is up), what the registry says of it (`marked`, `rest`) and who is to be stopped
(`condemned`); it knows neither the pass nor the provider nor tokens.  A start whose
answer is lost is a `Start` all the same, an aborted pass a `Relent`, a restart of the
host a `Forget`, a synchronisation a `Hear` of whoever it enters or drops.  The
contract asks for room at the moment of the start, where the code compared numbers it
took several awaits before.

### ClientTurns against the code

State.  `tab` is `HarnessState.sessions`: the identity of a session, its turn with
the request it is about, and its queue.  `outbound` is the log of tracked commands
(which tab each belongs to), `applied` the outcome keys the kernel has accepted
(`appliedServerEvents`), `online` the gate `canDispatch()`, `creating` the sessions
whose `create-remote-session` runs.  `wire[r]` is the life of the effect of a
request, `controllers` the map of abort controllers of `HttpConversationPort`, by
the key they were filed under.  `asked`, `posted`, `cancelled`, `planned`, `shown`
are history, read by properties only.

Atomicity.  The kernel is single-threaded.  It takes an event, reduces it, commits
the state and starts the effects, each of which runs up to its first await, before
it takes the next event; one action is one such step, with everything the reducer
emits in it.  What interleaves is the user, the answers of the wire, and the link.

| Action | Code |
|---|---|
| `OpenTab`, `CloseTab` | `pending-session-opened`, `session-closed` |
| `SubmitTurn` | `translateIntent`, then `turn-queued`, `thinking-started` and their effects |
| `CancelTurn` | `turn-cancel-requested` with `cancelTurn` of the port |
| `DecideApproval` | `approval-decision-sent` with the decision's effect |
| `ServerAnswers`, `RequestBreaks` | what `runSubmitTurn` and `runDecideApproval` get back |
| `SessionCreated`, `CreateFailed` | `remote-session-adopted` with the first queued message, `remote-session-create-failed` |
| `OutcomeArrives` | `turn-completed`, `turn-failed`: the stale check, `completeTurn`, `continueQueue`, the `finally` of the port |
| `OutcomeRepeats` | the same outcome accepted again |
| `LinkChanges` | `applyOrchestratorTransition` |

Abstractions.  A local id and the server's id name one tab, because adoption moves
everything from the one to the other.  An answer is with or without a plan to
approve, or an error; what it says is left out.  The port files a request under its
command id when the effect carries one and under the session otherwise - the code
does the latter for a message taken from the queue - and both keys are kept, so a
stop may find nothing to abort.  Left out: transcripts beyond how often an outcome
was appended, titles, drafts, unread flags, telemetry, slash commands that only
change the view, the version handshake.

Contract.  `ConversationContract` sees the stage of a session, its inbox (the queue),
the request it serves (that of a thinking turn), whether it is held (awaiting), who
owns a request, and which were served (put on the wire), stopped (`cancelled`) and
ended (`applied`).  The wire, the abort controllers, the session's identity and the
connection are not there.  An adoption is a `Begin`; a stop is a `Stop`, after which the
session serves nothing while its request may still be on the wire.  The outcome of the
turn that is served is an `End`.  That of any other request is possible only for one
that was stopped: an `Ignore` while something else is served, an `EndLate` when the
session is free, and an `Overtake` when a plan waits there for the user.  The last is
what the code does and its comment rules out (`LateEndClobbers` below); it is an action
of its own so that the contract says where the client promises less than it should.

### ClientWorkspace against the code

State.  `open` is the kernel's sessions; `lane` the chain of promises through which
the kernel reads the document (`Load`) and writes it; `writing` its first link being
written; `file` the content of `sessions.json`, `Torn` when it does not parse;
`engine` and `mixed` the writes of the Ink shell's second engine and whether they
overlapped.  `host` tells the OpenTUI host, which takes keys before it starts the
kernel and waits for the lane when it exits, from the Ink shell.  `wanted`, `used`,
`handed` and `spoiled` are history: `spoiled` records what makes a restart find less
(a key before the document was read, a write that failed or was cut, the engine).

Every event that opens, closes, adopts, renames or focuses a session hands the lane
a copy of the state it leaves (`Persist`), which is written in order (`WriteBegins`,
`WriteEnds`, `WriteFails`).  `writeJsonFile` writes in place, so the file is torn in
between, and a `Crash` or a write that fails midway leaves it so: `WriteFails` is
enabled before the write has touched the file and after, and what is in the file by
then stays.  The error is swallowed and the lane goes on.  `EngineFocus`,
`EngineWrites` and `EngineWriteFails` are the adapter's own reducer answering the focus
of a tab in the Ink shell, whose write fails in the same ways.  A document is the set
of its session references; what rides along is left out.

### ClientFeed against the code

State.  `hub` is the connection and its retry gate, `groups` what the server knows of
it, `joined` and `rejoin` what the adapter believes and still has to do after a
start, `feed` the events on their way to the kernel, `lane` and `sub` the
`set-subscriptions` effects that wait and the one that runs, `lastSeq` the last
chunk number by session, `stream` the server's side of a streaming turn.  `rendered`,
`twice` and `lost` are history: the chunks the kernel was handed, those it was handed
again, and those dropped as repeats that it never had been handed.

| Action | Code |
|---|---|
| `Attempt`, `HubStarts`, `HubFails`, `HubRefused`, `Stop` | `attemptStart` with its timeout and retry gate, `stopAll` |
| `HubDrops`, `HubReturns`, `HubCloses` | the SignalR library, and the callbacks assigned to it |
| `RejoinOne` | `rejoinChatGroups`, one await per session |
| `KernelHears`, `Restore`, `OpenTab`, `CloseTab` | `connection-established`, the end of the load, adoption and close |
| `SubBegins`, `SubJoins`, `SubLeaves`, `SubEnds` | `setSubscriptions`, one await per session |
| `NextTurn`, `ChunkArrives`, `ChunkRepeats` | the brain's numbering and `handleChunk` |

The library is not part of the repository and is modelled from its use: it
reconnects by itself under a new id, and an id has no groups.  The client assigns
functions to `onreconnected` and `onclose`, where the dashboard calls them to
register a callback; whether the assigned functions are ever called is left open
(`hooked`), and what is proved holds in both cases.  `lapses` records why a group
may be missing although all is settled: memberships lost by a drop, a join that
failed, a workspace read after the connection had been announced.

## 3. What is checked

Deadlock checking is off in every run but `Pool`, whose supervisor always has a
next pass: when every run has ended, the queue has nothing to do, and a client
whose tabs are closed or whose process is down with all ids used may stop.

| Run | Instance | Shows |
|---|---|---|
| `Diamond` | one run, a and b before d, a follow-up, a worker for everything and one for a only, one cancel, two attempts, a lease of one tick, fairness, no symmetry | every property of the queue: type, leases, prerequisites, closing, nothing active that waits for nothing, outbox, fence, results, frozen terminal runs, powerless workers, the refinement of `QueueContract`; the run settles and the leases of fenced items come back |
| `Decisions` | a before b, a follow-up, one worker, one cancel, approve and one hard stop | what survives decisions that overwrite each other: dependents are released, finished items and finalized runs stay |
| `Pool` | one project, one profile, two worker ids, cap of one, two slots, TTL of zero ticks, backlog of one, one fault | the cap, the time an adopted worker gets, the refinement of `PoolContract`, and that a useless worker is reaped |
| `Turns` | one tab, three messages and two decisions of which four are used, fairness | no message lost or overtaken, one live turn, outcomes shown and plans decided once, approvals kept, no queue that waits for nothing, the refinement of `ConversationContract`, waiting messages sent |
| `Workspace` | three sessions, a lane of three links, both hosts | what a restart finds, the newest document wins, and the only ways to a torn file |
| `Feed` | two sessions of which one streams, two turns of two chunks, one waiting event, fairness | groups of the open sessions, chunks once, no gap inside a turn, the start not given up |

Bounds.  Two attempts are the least with a requeue and an exhausted item; two
workers the least for an item to change hands; a diamond the least plan in which a
dependent has two prerequisites that finish concurrently, and a follow-up the
least an operator can add; two cancel attempts the least with a retry, for which
another transaction has to change the status the request had read (the claim that
starts the run does).  The second worker carries the label of one item only: that item
still changes hands, labels matter, and the state space leaves room for liveness,
for which symmetry would be unsound.  Runs share no rows, so that one is enough;
two runs and two cancels at once are left to the theorems, which remove all of these
bounds for the safety properties and the refinement.

`Pool` has two ids so that one worker can be replaced while another runs, and a cap
of one with two slots so that the cap binds: the second start is what must not
happen.  A TTL of zero ticks makes a worker stale after one tick, the least that
tells fresh from stale.  One fault (an aborted pass, a dead container or a restart)
puts every one of them at every point of a pass; two in a row are left to the
theorems.

`Turns` has three messages, the least for one that runs, one that waits and one that
overtakes, and two decisions, the least for approve to be pressed twice on one plan,
before and after its request has ended.  `FourRequests` follows three messages with one
decision and two messages with two; all five at once are left to the theorems.  Tabs
share nothing but the gate, which opens and closes at will, so that
one is enough, and the theorems are about any number.  Ids are fresh, so the
constraint also follows only the behaviours that draw them in one order, in
place of a symmetry, which liveness does not allow.  `Workspace` has three sessions,
so that a document can lack one and have one too many at the same time, and three
links: one that is written, one that waits, one that comes.  `Feed` has one session that streams
beside one that is only joined and left; `MaxChunks = 1` numbers the chunks of a turn 0
and 1, the least in which a later turn can lose its first chunk and show its second,
or show its first and repeat it; longer turns are covered by the theorems.

Fairness (`Fairness` in `WorkItemQueue`).  Time passes.  The reaper is a periodic
loop of the host, and a cancel request is driven by the host: both get strong
fairness because the row locks they wait for come and go.  Some worker keeps
claiming: the scale supervisor starts workers for any backlog.  The heartbeats on
an item end eventually: the translator gives every session a wall-clock deadline
(`T/Runtime/DeadlinePolicy.cs`).  Nothing assumes that a worker completes or fails
anything.

Fairness in `WorkerPool`: the registry of background workers runs passes for as long
as the host lives, a mark does not stop between its halves, and time passes - weak
fairness for each, since nobody disables them.  Work need not arrive or finish, and
workers need not claim.  `UselessReaped` leaves two cases out because the code does
not deliver them: a worker marked busy whose last call was refused stays busy, and a
warm floor keeps workers whose token has expired.

Fairness in `ClientTurns`: a request is answered, refused or cut off in the end
(`fetch` settles every promise), and the event loop gets to what came back.  Nothing
assumes that the connection is up or that a user does anything.  In `ClientFeed`
timers fire and promises are continued.  Strong fairness of `HubStarts` is an
assumption about the server: a start that is tried again and again is answered;
what the property says is that the client does try again and again.  Strong fairness
of `KernelHears` makes up for the bound of the lane, which a user could keep full;
the kernel's own queue has none.

### Where the code and its texts disagree

Each of these is a run that ends in a counterexample.

- `FollowUpUnfenced`: a steer that commits between a cancel's item lock and its
  compare-and-swap leaves a follow-up item that the cancel neither cancels nor
  fences.
- `ApproveResurrects`: an approve in flight overwrites a terminal status, and so does a
  hard stop.
- `QueueStuck`: messages typed behind a turn that fails stay in the queue, although
  the client says that they are sent when the turn ends.
- `LateEndClobbers`: the outcome of a stopped request arrives while a plan of the same
  tab waits for the user, and wipes it: the reducer ignores another request's outcome
  only while the tab is thinking, although its comment says that no such completion
  changes the state.  A message that went out from the queue gets there, because
  the stop does not find its controller.
- `FocusForgets`: in the Ink shell the focus of a tab writes a document without
  sessions.
- `DropLosesGroups`: after a reconnect the adapter still believes its groups joined,
  and joins none on the new connection.

Others are stated in the modules and have no run of their own; a configuration with
that one property refutes each:

- `TerminalRunsAnnounced` (`WorkItemQueue`): `openspec/specs/runs/spec.md:198` asks for
  a message in the outbox with every terminal status; the cancel enqueues none, and
  neither does a hard stop.  `OutboxExactlyOnce` is about the runs their items end.
- `OnlyRepeatsDropped` (`ClientFeed`): the adapter says that it drops what was already
  counted.  The numbers of chunks start again with every turn while the number it
  remembers does not, so the first chunks of a second turn are dropped unseen.
  `NoGapInTurn` is what does hold: a turn loses chunks from its start only.
- `ResultFromLatestClaim` (`WorkItemQueue`): generations belong to runs, so a worker
  that re-claims its own reaped item gets the same one, and a late complete of its
  first claim is taken for the second.  `ResultFromHolder` is what does hold.
- `RunsTerminate` (under `FairSpec`): a failed prerequisite leaves its dependents
  Blocked and the run open for good; the failure policy the documents speak of does
  not exist.  `RunsSettle` says that this is the only way for a run to stay open.
- `CancelledRunFenced` (`RunDecisions`): a hard stop changes the run row only.
- `NotReapedMidRun` (`WorkerPool`): a worker that claims after the supervisor listed
  the stale workers is stopped with the item in hand.

Also seen while modelling, and stated by the models: the reaper requeues a fenced item
under its cancelled run, where it can never be claimed (`PlanItemsFenced`); approve
accepts Queued and Waiting runs (`ApproveRead`); a hard stop that dies between its save
and its journal row leaves no `budget.exceeded` entry (`StopLost`); a workspace write
that fails midway leaves a file that restores nothing, and the event that reports it
changes nothing (`WriteFails`); a key pressed before the OpenTUI host has read its document acts on a
state the load then replaces (`SessionsSurvive` leaves it out as `"early"`).

## 4. What is proved

For every value of the constants that meets the named assumptions: `Prereqs` is
acyclic and stays within a run, plans are not empty, `MaxAttempts`, `LeaseTtl` and
`MaxCancelAttempts` are positive, and `None` is not a worker, a run or a record.
The queue's theorems assume no set finite.  For the client: tabs, messages and
decisions are disjoint sets (`IdsDisjoint`), the bounds of the lane, the turns and
the chunks are any natural numbers (`MaxLaneIsPositive`, `Bounds`), and `NoSub` is no
subscription (`NoSubIsNone`).

| Theorem | Statement |
|---|---|
| `TypeCorrect` | `Spec => []TypeOK` |
| `PrerequisitesHold` | `Spec => []PrerequisitesFirst` |
| `RunsClosed`, `RunsFinalized`, `OutboxOnce` | `TerminalRunClosed`, `NoRunLeftOpen`, `OutboxExactlyOnce` |
| `DependentsAreReleased` | `Spec => []DependentsReleased` |
| `TerminalFrozen` | `Spec => TerminalRunFrozen` |
| `LeasesConsistent` | `Spec => []LeaseConsistent` |
| `PlanFenced`, `FencedPowerless` | `PlanItemsFenced`, `FencedWorkerPowerless` |
| `ResultsFromHolder` | `Spec => []ResultFromHolder` |
| `QueueImplementsContract` | `Spec => ImplementsContract` |
| `DecisionsTypeCorrect`, `DecisionsKeepOrder`, `DecisionsKeepReleased`, `DecisionsKeepLeases`, `DecisionsKeepResults`, `DecisionsKeepClosed` | `DecisionsSpec` implies `[]` of `DecisionsTypeOK`, `PrerequisitesFirst`, `DependentsReleased`, `LeaseConsistent`, `ResultFromHolder`, `TerminalRunClosed` |
| `FinishedFrozen` | `DecisionsSpec => FinishedItemsFrozen` |
| `PoolTypeCorrect` | `Spec => [](TypeOK /\ CursorOK)` of `WorkerPool` |
| `CapHolds`, `CapacityHolds` | `CapRespected`, `CapacityRespected` |
| `AdoptedSpared` | `Spec => AdoptedGetFullTtl` |
| `PoolKeepsContract` | `Spec => KeepsContract` of `WorkerPool` |
| `TurnsTypeCorrect` | `Spec => [](TypeOK /\ LogOK /\ TurnOK)` of `ClientTurns` |
| `MessagesInOrder`, `OneLiveTurnHolds`, `OutcomesShownOnce`, `PlansDecidedOnce` | `NothingLost`, `OneLiveTurn`, `ShownOnce`, `OneDecisionPerPlan` |
| `ApprovalsKept` | `Spec => AwaitingKept` |
| `QueuesAreServed` | `Spec => []NoQueueStranded` |
| `ClientKeepsContract` | `Spec => KeepsContract` of `ClientTurns` |
| `WorkspaceTypeCorrect` | `Spec => [](TypeOK /\ WritersOK)` of `ClientWorkspace` |
| `SessionsKept`, `LastWriteHolds`, `TornExplained` | `SessionsSurvive`, `LastWriteWins`, `TornOnlyWhenCut` |
| `FeedTypeCorrect` | `Spec => []TypeOK` of `ClientFeed` |
| `OpenStaysSubscribed`, `ChunksRenderedOnce`, `TurnsStreamOn` | `OpenIsSubscribed`, `RenderedOnce`, `NoGapInTurn` |

For `WorkerPool` the assumptions are that the set of worker ids is finite and that
the settings are natural numbers; projects and profiles are any sets.

The argument.

- `RunInv` joins the three run properties and adds that an absent run has no
  items and a Queued run nothing Running.  The three need each other: a
  finalization preserves `TerminalRunClosed` because it reads what is open, and
  the outbox count is exact because only an active run is finalized, and a
  cancelled one never.
  The proof that a run has an open item at its launch needs a plan that is not
  empty.  Completions, failures
  and sweeps are taken together as `Closing`: a finalization of some runs in which
  only open items move.
- `PlanInv` is `DependentsReleased` with the two facts it needs about runs: items are
  cancelled with their run only, and the plan of a launched run is there as a whole.
  `ActiveRunsMove` derives `NoRunLeftOpen` from it and `RunInv`: an active run has an
  open item; if all of those are Blocked, one of them has no open prerequisite, since
  plans are acyclic, and the prerequisite it still waits for can only have failed.  It
  is the one place that needs the acyclicity, and it makes `NoRunLeftOpen` the safety half of `RunsSettle`:
  what is left to fairness is that somebody claims, answers or reaps what is there.
- `CancelInv` says what a cancel request may rely on across its steps: its run
  was launched, the status it read can be cancelled, and its locks cover every
  open *planned* row of the run.  They do not cover follow-ups, which is where the
  claim of the documents fails.
- `LeaseInv` strengthens `LeaseConsistent` with the bounds on attempt numbers
  that make the next one fresh.
- `GenerationInv` orders generations: no claim is above its item, no item above its
  run, and later attempts carry no smaller generation; so bumping an item's
  generation invalidates every claim at once, which is `FenceInv`.
- `DecidedInv` is what is left of all this when decisions overwrite statuses:
  an overwrite (`QueueOrOverwrite`) writes Running or Cancelled and touches no item,
  so the parts that know a run only as launched or not, or as finalized, survive
  (`CancelInv`, `LeaseInv`, `GenerationInv`, `ResultInv`, `TerminalRunClosed`), and
  those that know more (`NoRunLeftOpen`, `OutboxExactlyOnce`, `PlanItemsFenced`) do not.
- `ResultInv`: `OwnsLatest` derives from the order that whoever passes the guard
  is the worker and generation of the latest claim.
- The refinement maps each step run by run (`RunMove`) and item by item
  (`ItemMove`) from the conjunction `QueueInv` of the above.
- `CapInv` carries the cap through a pass.  `Covered`: from the synchronisation on,
  the registry holds every running worker of the project at hand, except the one
  being registered, and no running worker is the one being removed - so the count
  the policy takes is no smaller than the truth, however stale its flags are.
  `Reserved`: what is still to be started fits under the cap and into the slots
  left.  Workers that die only make room; a pass cut short forgets its reservations.
- `PoolInv` is what the refinement of `PoolContract` rests on: `TypeOK`, `CursorOK`,
  `CapInv` and `LabelOK`, that what runs carries the label of a project.  `StartMapped`
  turns the reservation of the pass into the room the contract asks for, `PickMapped`
  what was listed as stale into the condemned; the other lemmas map one step each.
- `AgeInv`: no entry is older than the host and victims only exist once the host is
  older than the TTL.

- `TypeInv` of `ClientTurns` adds who may be where: what waits in a tab was taken for
  it, only sessions of the server have turns, nothing unknown is on the wire.
  `LiveInv` adds to `OneLiveTurn` that what waits has never been sent and waits once
  (so the head of the queue is never in flight, and `SubmitHead` always submits) and
  that `applied` is what is over.  `ShownOK` and `PlansOK` count: a tab that awaits the
  user has one plan more than it has sent decisions.  `OrderOK` is `NothingLost` for
  tabs that were opened; `MoveHead` and `AppendBehind` are the two ways a step moves
  a message.
- `IdleOK` strengthens `NoQueueStranded`: an idle tab with messages is being created, or
  one of its own requests is in flight - the one that was stopped, since nothing else
  leaves a tab idle with a queue (`ContinueServes` uses `HeadUnsent` for that).  A
  thinking tab has its request in flight by `OneLiveTurn`.  Either outcome, when it
  comes, applies and goes on with the queue; so this is `WaitingMessagesGoOut` but for
  the fairness.
- `SentOK` carries the refinement of `ConversationContract` together with the types and
  `LiveInv`: whatever was sent belongs to a session of the server or to a closed one,
  so an outcome that is dropped meets a session that is gone or serves something else.
  What comes for a session that serves something else, or nothing, was stopped: by
  `OneLiveTurn` a request in flight that its tab does not show is in `cancelled`, which
  is what `EndLate`, `Overtake` and `Ignore` ask for.
  `HeadServed` is `continueQueue` seen from the contract; the second arrival of an
  outcome is a stutter (`RepeatsNothing`).
- `Pending` in `ClientWorkspace`: the newest document is the last one the lane still
  writes, or the file holds it.  `Faithful` follows the lane of an undisturbed process
  through its three stages: document still to read, documents to write of which the
  last is what the user has open, all written.
- `GroupInv` in `ClientFeed`: until memberships are lost, a session the kernel wants is
  in its group, about to be joined, or in a set that waits.  `StreamOK` ties the
  remembered number to a chunk of the last turn that has been rendered, and keeps every
  rendered and every lost one no higher; what a turn shows after it has lost chunks is
  then above them, which is `NoGapInTurn`.

Only model-checked: `RunsSettle`, `FencedItemReclaimed`, `UselessReaped`,
`WaitingMessagesGoOut` and `KeepsTrying` (liveness under fairness is out of the
prover's reach).  Every invariant, action property and refinement the passing runs
check is a theorem.  `CapacityHolds` is the one property that is proved and not run.

## 5. Plan

Done: `WorkItemQueue`, `RunDecisions`, `QueueContract`, `WorkerPool`, `PoolContract`,
`ClientTurns`, `ConversationContract`, `ClientWorkspace`, `ClientFeed`, each with its
instance, mutants and theorems.  What is left, in order:

1. `ClientStores`: receipts, cursors and the session list as append-only files, with
   a failed append and a restart; an append that fails rejects a promise nobody
   handles (`C/kernel/receipts.ts:176`), and cursors are refreshed at the start only.
2. `WorkTasks` with `OutboxDelivery`: dispatch, watermark, dedupe receipt and
   attempt stamp as separate commits, crashes in between; abstract specification:
   an attempt is closed exactly once.  Theorems: at most one stamp per attempt.
3. `RunLocks`: complete, cancel and reap statement by statement with row locks,
   to check the lock order and justify the transaction-atomic model.
4. `MergeQueue`: load and save decisions of two operators.
5. `WorkerLoop` and `WorkerSessions`: the translator's loop, heartbeat monitor,
   deadline, keys (revoked before the queue checks ownership) and command channel.
6. `TicketBridge`, `Schedule` (dispatch and stamp in two transactions), the inbox of
   the launchers, the escalation sweeper, and the composition of the pool with the
   queue's items, to follow the items the backlog counts and no claim takes.
7. An inventory of the procedures runtime.

### Not modelled

Planned as above: the components marked `not_modelled` or `partly` in `PROJECT.json`
with a module named in their note; their hazards join the list with their modules.
Not planned: the inside of the compute providers, the CRUD modules, the dashboard
(views over cached queries; its hub connection retries by the library's own policy),
the panels and rendering of the client, the agent libraries, deployment and scripts,
which add no protocol between actors.

## 6. Running it

    tlc -config Diamond.cfg MCQueue.tla            # FollowUpUnfenced likewise
    tlc -config Decisions.cfg MCDecisions.tla      # ApproveResurrects
    tlc -config Pool.cfg MCPool.tla
    tlc -config Turns.cfg MCTurns.tla              # QueueStuck, LateEndClobbers
    tlc -config Workspace.cfg MCWorkspace.tla      # FocusForgets
    tlc -config Feed.cfg MCFeed.tla                # DropLosesGroups

`tlapm` checks each of the eight modules whose name ends in `Proofs`, for instance
`tlapm RunDecisionsProofs.tla`.
