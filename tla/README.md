# Dline: the journaled task kernel, modelled

Dline is a coding agent for VS Code, written in TypeScript. A *task* is one
conversation with a model: it calls the provider, runs tools, asks the user,
waits, and has to survive a cancel at any moment, a failed write and a closed
window. In `src/src/core/task` a task is a journaled state machine. A pure
*kernel* turns an event into the next state and a list of commands; a *durable
runtime* writes the state and then publishes the commands; *executors* carry
the commands out and answer with events; a *shell* gives the controller its
use cases (submit, cancel, terminate, open).

This directory models that core in TLA+, model-checks it with TLC on small
instances and proves the central invariants with TLAPS for every instance.

| Module | What it is | Checked by | Proved |
|---|---|---|---|
| `WriteAhead` | what the runtime promises about its effects, 4 actions | as `KeepsWriteAhead` | the refinement |
| `TaskRuntime` | event loop, commit pipeline, outbox, command lanes, reopening | `runtime_*` | `TaskRuntimeProofs`, `TaskRuntimeOrderProofs` |
| `HaltBarrier` | kernel halt slice, halt executor, shell cancel and terminate | `halt_*` | `HaltBarrierProofs` |
| `ToolTurn` (`ToolTurnMC`) | tool calls of one turn: kernel turn, scheduler, pool, executor | `tool_*` | `ToolTurnProofs` |
| `InputQueue` (`InputQueueMC`) | retained input: queue, compose rounds, journal, settlement | `queue_*` | `InputQueueProofs` |
| `BackgroundDelivery` (`BackgroundDeliveryMC`) | background results: ledger, room, background box, releases | `background` | `BackgroundDeliveryProofs` |
| `SubagentJobs` | background subagents: gate, jobs, activity rows, publication | `subagents*` | `SubagentJobsProofs` |
| `AwayMode` | away mode: settings, gate, configuration of a task, deadlines, the timer | `away` | `AwayModeProofs` |

Paths below are relative to `src/src/core/task/` unless they start with `src/`.

Contents: 1 inventory, 2 plan, 3 the modules, 4 the runs, 5 fairness, 6 proofs,
7 findings, 8 what the checks do not show.

## 1. Inventory

### The parts and how they meet

```
 controller ──▶ shell ──submit──▶ event loop ──▶ kernel (pure transition)
                  ▲                   │              state + commands
                  │                   ▼
                view ◀─────── commit pipeline ──▶ vault (snapshot + outbox)
                                      │ receipt of durability
                                      ▼
                              durable outbox, one lane per domain
                                      │ publications.has / mark
                                      ▼
          executors: compose, provider, tool, dialog, halt, policy, ...
                                      │ feedback events
                                      └───────────▶ event loop
```

Everything runs on one JavaScript thread, so a step is what the code does
between two awaits. The concurrency is real all the same: every await is a
place where another commit, another lane, a cancel or a late result comes in.

| Part | State it keeps | Operations | Interactions |
|---|---|---|---|
| Event loop (`runtime/EventLoop.ts`, `TaskRuntime.ts`) | kernel state, queue of submissions, bootstrap barrier | submit, drain, retry a failed commit, allow restored commands | kernel, commit pipeline, outbox |
| Commit pipeline (`runtime/CommitPipeline.ts`) | waiting batch, write in flight, failed batch, waiters | commit, drain, fail, retry | vault, view, receipts read by the outbox |
| Durable outbox (`runtime/DurableCommandOutbox.ts`) | a queue per domain, effects in flight, held commands, fences | persistable, enqueue, restore, fence, drain, track | publication store, router |
| Command router (`runtime/CommandRouter.ts`) | running dispatches per domain | dispatch, wait for quiescence | executors |
| Kernel (`kernel/transition.ts`, `kernel/machines/*`) | flow, turn, dialog, halt, intake, background slices, revision, generation | one reducer per event | none: it is pure |
| Hydration (`kernel/hydrate.ts`, `kernel/recovery.ts`) | none | snapshot to opened state and recovery commands | vault, journal |
| Halt executor (`executors/halt/`) | the run of each halt, forced-closed halts | stop and fence, drain with deadline, late settlement, rearm | every participant |
| Shell (`shell/TaskShell.ts`, `TaskShellFactory.ts`) | none but the calls under way | submit, cancel, terminate, finish a timed-out halt, offer resume, settle the queue | event loop, halt executor, journal |
| Tool executor and pool (`executors/tool/`) | scheduler of released blocks, pool of registered blocks, permits | run, cancel, fence, retire, set the ceiling | kernel by feedback, tool handlers |
| Compose executor (`executors/compose/`) | the round it composes | take, freeze, append rows, stage, prepare, roll back | journal, kernel |
| Provider executor (`executors/provider/`) | the request it streams | start, journal the result, retry, withdraw | provider client, journal |
| Dialog executor (`executors/dialog/`) | the dialog it prepares | prepare, reveal, supersede | view, journal |
| Input queue application (`session/CanonicalInputQueueApplication.ts`) | the turn-end delivery under way | enqueue, edit, toggle, remove, deliver at turn end | kernel, dialogs |
| Journal (`stores/`) | rows, tombstones, checkpoints, batches | idempotent append, retract, discard, project | compose, provider, shell |
| Background ingress owner (`session/TaskBackgroundIngressOwner.ts`) | results being published, the chain of releases | publish, release what is held | ledger (`stores/sqlite/TaskJournalStores.ts`), context budget, kernel |
| Context budget (`src/src/core/context/context-management/context-budget-ledger.ts`) | room staged since the last count, checkpoint | reserve, release, mark, retire | ingress owner, rounds, compaction |
| Bounded gate (`runtime/concurrency/BoundedGate.ts`) | waiters in order, permits, limit, withheld allowance | acquire, release, withhold, set the limit | subagent handler |
| Subagent jobs (`tools/subagent/SubagentJobManager.ts`, `SubagentRunner.ts`, `tools/handlers/SubagentToolHandler.ts`) | job and batch records, runners with abandoned tools | start, run, cancel, retry, settle, publish | gate, activity rows, ingress owner |
| Away settings (`src/src/core/controller/state/awaySettings.ts`, `src/src/core/storage/settings/`) | settings document with revocation numbers, gate, pending revocation | switch a preference, adopt a commit, close the gate, persist a revocation, reconcile | settings file shared by windows, configuration binding |
| Configuration binding (`session/TaskAwayConfigurationBinding.ts`) | queue of configurations, whether timers are permitted | publish, reconcile, enqueue, activate | away settings, kernel, timer |
| Deadline scheduler (`runtime/TaskDeadlineScheduler.ts`, `kernel/away.ts`) | the one timer; deadlines in the kernel | refresh, deliver; arm, revoke, accept | runtime, kernel, binding |
| Activity rows (`activity/TaskActivityStore.ts`) | a row per job, its canceller and retrier | update, cancel, cancel all, retry | panel, subagent jobs |

### What is hard, and what makes each part correct

- **Write-ahead order.** A command may start only when the snapshot that issued
  it is on disk; writes are batched, fail, are merged and retried; a process
  dies between any two of these. Correct when no effect is unknown to the
  snapshot, none disappears from the outbox before it settles, none runs twice
  at once, and lanes do not wait for one another.
- **Stopping.** A cancel fences every participant, aborts what runs, waits with
  a deadline, pauses, lets late participants report, rearms and offers a
  resume, while the user submits, cancels again or terminates. Correct when the
  barrier counts each receipt once, always ends, pauses only quiet tasks, and a
  rearm never lets work of before the stop start after it.
- **Running the tools of a turn.** The model returns several calls; some need
  approval, some share lanes (the diff view, the fan-out of subagents), some
  end the turn; the user moves the ceiling meanwhile; kernel and pool learn of
  each other only through messages. Correct when lanes are exclusive, ending
  calls are last and alone, the kernel's phases are the truth about effects,
  nobody starves, and the turn settles.
- **Delivering what the user typed meanwhile.** A message is queued, edited,
  reserved by one of two deliveries, written into the journal row by row, sent,
  and settled from the journal after a cancel or a crash. Correct when it
  reaches the conversation exactly once, is never lost, and is never sent while
  it is being edited.
- **Reopening.** Hydration turns whatever snapshot a crash left into a state
  that can go on. Correct when every reopened state has a way forward and a
  recovery command is not taken for one that already ran.
- **Handing over background results.** A result is staged in a ledger, waits for
  room, is submitted, waits for the snapshot and is acknowledged; its producer
  and a release may both work on it, and the process may die between any two of
  these. Correct when the ledger or the snapshot always holds it, one of the two
  deliverers hands it over, and a held result is delivered in the end.
- **Background subagents.** Jobs share a budget; a cancelled run may leave a tool
  behind that still uses what the budget protects; a retry runs on the same
  runner; progress, results and callbacks of earlier attempts come late. Correct
  when what works stays within the limit and each escaped tool is charged once,
  nobody waits beside room, a row does not come back to life by itself, and what
  is published of a job is its last word.
- **Answering for an absent user.** A question, or the approval of a command,
  gets a deadline under a permission that the user, another window or a gate may
  withdraw, which the kernel learns later than the host, and which a crash must
  not bring back. One timer serves all deadlines. Correct when no deadline
  answers whose permission was ever withdrawn, and a deadline that stands is
  answered in the end.
- **Exclusive resources.** Task locks are waited for, taken over and released;
  not modelled.

`PROJECT.json` lists every component with its status, and under `hazards`
every place of this code that is hard to test, at its line, with the
properties that would catch it going wrong.

### What is not modelled, and why

Worth a module, and not modelled (section 2): the kernel reducer as a whole,
hydration of all forms, the delivery of timed answers, the retry schedule of a
request, compaction against a halt, the approval policy, co-task arrivals,
journal projections and rewind, task locks, buffered stores, checkpoints. The
subruntimes and the resource broker have no user but their tests.

Out of reach or without state of their own: the provider clients (`src/src/core/api`, network I/O behind one
stream interface), the tools' own work and the terminal, editor, MCP and host
integrations (I/O), context management and prompts (data transformation), the
view projection (a pure function for display), hooks, metrics, trajectory and
the model registry (observers and catalogues), the webview, generated protocol
code and docs. The controller and the orchestrator call the shell; what the
models assume of them is said in section 3.

## 2. Plan

Order: the behaviour every other part stands on first.

1. **`WriteAhead`, `TaskRuntime`, `TaskRuntimeProofs`, `TaskRuntimeOrderProofs`**
   (done). The abstract specification of the outbox, the runtime that implements
   it; type correctness, write-ahead order, true receipts, the refinement, single
   effects and the order of publication proved.
2. **`HaltBarrier`, `HaltBarrierProofs`** (done). Stopping a task, over an
   abstraction of the lanes `TaskRuntime` has in full.
3. **`ToolTurn`, `ToolTurnProofs`** (done). One turn's tool calls.
4. **`InputQueue`, `InputQueueProofs`** (done). Retained input, with the order of writes
   taken from `TaskRuntime` and the drain of a halt from `HaltBarrier`.
5. **`BackgroundDelivery`, `BackgroundDeliveryProofs`** (done). Background
   results from their producer to the kernel's box, with the rounds, halts and
   snapshots reduced to what they do to the box.
6. **`SubagentJobs`, `SubagentJobsProofs`** (done). The budget of background
   subagents over the bounded gate, with what the user and late callbacks do.
7. **`AwayMode`, `AwayModeProofs`** (done). Deadlines and the permission they
   stand on, from the settings file to the accepted answer; its delivery is the
   outbox's and not composed with it.
8. **Kernel and hydration** (open). The reducer with its flow, turn, dialog and
   intake slices, every form of `hydrate`, the delivery of timed answers.
   Properties: every reachable and every reopened state has a way forward (a
   command under way, a dialog that can be answered, or a submission the kernel
   takes). Two turns side by side, which `ToolTurn` leaves out, belong here.
9. **Task locks** (open). `src/src/core/locks`: two instances, a lock file,
   stale detection and takeover. Property: two instances never both believe
   they own a task while both are alive.
10. **Journal rewind, compaction against a halt, checkpoints, co-task arrivals,
   buffered stores** (open), as far as they keep state of their own.

Proofs worth adding: that compose and provider never overlap without the
exception for overtaken commands, once the lanes are awaited before a rearm.

## 3. The modules

`PROJECT.json` maps each definition to the lines it models. The definitions
under a comment `Mutant:` are not part of the model: each is the code with one
plausible mistake, kept to show that a property would notice it.

### `TaskRuntime`

The kernel is its revision, its generation and the commands a transition
issues; a command is the record of its revision, generation and domain and
stands for itself where the code compares effect keys.

| Variable | In the code |
|---|---|
| `rev`, `gen` | `state.revision`, `state.generation` |
| `pending`, `writing`, `failed` | the batches of `CommitPipeline`, with the commits each absorbed |
| `resolved`, `rejected` | the receipts of durability |
| `queue`, `at` | a domain's queue in the outbox, and which await of the drain it is in |
| `inFlight`, `held`, `released` | `publicationsInFlight`, `heldRestored`, `restoredReleaseAllowed` |
| `disk`, `published` | the vault's snapshot with its outbox; the publication store |
| `told` | the revisions the view got, in order |
| `started`, `owed` | history: what was started; what was accepted and is neither settled nor fenced |
| `skipped` | history: commands a restore passed over because a refused entry of theirs was queued |

| Action | In the code |
|---|---|
| `Submit(D)`, `Cancel` | one accepted event of `EventLoop.drain`: transition, commit, enqueue; a cancel also fences |
| `SaveLands`, `SaveFails`, `RetryLands` | the three ends of a `vault.save` |
| `AwaitDurability`, `LookUp`, `DropRejected`, `Dispatch` | the drain of one domain, one action per await |
| `EffectCompletes`, `Marked`, `EffectFails` | `trackPublication` |
| `Reopen(D)`, `AllowRestored` | crash, `hydrate` with derived commands, and the bootstrap barrier |

Simplifications. A commit issues at most one command per domain. `dialog.prepare`
is dispatched at once and never stored, so it is left out. `RetryLands` waits
until every drain that can has reached its publication lookup
(`DrainsAwaitStore`): the write is the slowest of these awaits. A restart bumps the
generation and filters the stored commands of the old one, so of what it finds
it keeps only what hydration derives anew; the outbox on disk serves the
restore after a failed write. `close()`,
`whenAdmitted`, `whenIdle`, a router that throws synchronously and a failing
`publications.has` are left out.

### `WriteAhead`

Accept, land, start, reopen, over three variables. `TaskRuntime` maps
`accepted <- rev`, `landed <- disk.rev`, `started <- started`. A command derived
while reopening belongs to the revision after the snapshot, hence the
exception in `MayStart`: the code starts those before that revision is written.

### `HaltBarrier`

Compose and provider run one round between them; the dialog executor prepares
dialogs. What remains of a lane is its queue and the lookup before a dispatch.

| Variable | In the code |
|---|---|
| `gen`, `phase`, `halt`, `owner`, `primary` | `generation`, `flow.phase`, the halt slice, `flow.compose`/`flow.provider`/the dialog owner, `dialog.primary` |
| `queued`, `lookup`, `stops` | the lanes, and the `halt.stop` commands not dispatched |
| `fence`, `active`, `run`, `awaited`, `forceClosed` | `fencedHaltId`, the running effects, and the halt executor's records |
| `call` | where each `cancel()` or `terminate()` of the shell stands |
| `overtaken` | history: what the lanes held when a call that missed a deadline lifted the fences, or when an escalation came behind lifted ones, until the next stop is dispatched |

Actions: `Submit`; `LookUp`, `Dispatch`, `ComposeCompletes`, `EffectCompletes`,
`RoundFails`, `EffectReturns` for the work; `Cancel`, `Terminate` for the
calls; `DispatchStop`, `Acknowledge`, `TimeOut`, `ReportLate` for the halt
executor; `StopReturns`, `StopThrows`, `BecomesQuiet`, `CancelStopped`,
`TerminateStopped`, `Rearm`, `Offer` for the awaits of `haltTask`, `cancel` and
`finishTimedOutHalt`.

`waitForQuiescence` is a `Promise.all` over the dispatches under way, so a
`halt.stop` that is refused a receipt rejects it for every call that waits: such
a call is `threw` at once, with nothing it would have done afterwards
(`Refused`). Which of the calls had already taken the dispatch into their
`Promise.all` is a choice of the model.

Assumed of the controller: it sends one cancel at a time
(`src/src/core/controller/index.ts:2449-2463`); `StartsCurrent` depends on it.
Simplifications: `prepare` and `reveal` of a dialog are one piece of work; the
answer to an open dialog is one step with the submission it leads to;
durability is `TaskRuntime`'s, and so are the writes that fail in the flush before
quiescence; of the dispatches only `halt.stop` rejects; a failed fence or a
`halt.failed` counts like an acknowledgement, as the kernel counts it; a
participant misses its deadline once per halt, and what it reports late is
observed before the lanes are found quiet; a rejection
reaches a call only while the lanes are idle (that a call which found them idle
still waits when a later round runs takes three calls, and is left out); a
checkpoint's stop, compaction, policy, tools, the wake-up
dialogs of background arrivals and the interruption of timed dialogs are left
out.

### `ToolTurn`

A block is its index in assistant order. The kernel keeps `phase`; the executor
and its pool keep `stage`, from `unreleased` over `queued`, `granted` (holds a
slot, awaits the permit), `starting` (awaits the receipt of `tool.started`),
`accepted`, `effect`, `reporting` and `leaving` to `done`, or `dropped` when the
pool gives it up unrun. `runs` holds the `tool.run` commands under way,
`closing` is `turnEndingIndex`, `closed` says the pool was cancelled by a fence
or by `tool.retire`, `stopped` that the generation is over.

The pool's scheduling pass is the operator `Decision`: the one set of waiting
blocks that is consistent with `Admissible` for each of them. The code finds it
by walking the blocks in order (`kernel/turn/pool-admission.ts`); stated so, it
can be proved about without recursion.

Actions: `Approve`, `Deny`, `Cancel` of the kernel; `RunTools`, `Begin`,
`Started`, `Handle`, `EffectEnds`, `Report`, `Leave`, `ReportUnrun`, `Fence`,
`Retire`, `SetLimit` of the executor. Assumed: the blocks that end the turn come
last in the plan, as the provider service orders them.

Simplifications: a failed block is a completed one; the gate behind the pool is
asked only for slots the pool already counted, so it never queues; the blocks
of one `tool.run` are admitted together, which gives the same outcome as one by
one in index order; the single-block cancel has no caller; serial mode is a
ceiling of one; the mistake-limit dialog and the overlap of two turns are left
out.

### `InputQueue`

`task` is the kernel's state as far as the queue reads it: an entry per message
(`accepted`, `reserved`, `included`, `uncertain`, `released`, `consumed`,
`removed`, with steering and editing flags and the delivery that holds it), the
feedback that waits for the next round, the compose and provider slices, the
phase and what the turn waits for. `saved` is the snapshot on disk. `rows`,
`batch`, `prepared` and `final` are the journal: the live rows of each round's
material plan, its staged batch, its prepared draft, its provider result.
`leftover` is history: what was still `included` when a round was opened.

| Actions | In the code |
|---|---|
| `Enqueue`, `Toggle`, `StartEdit`, `EndEdit`, `Remove` | `input_queue.*` events |
| `Submit`, `ToolsSettle`, `Retry` | what opens a round or sends a draft again |
| `ReserveTurnEnd`, `Materialize`, `Respond`, `GiveBack`, `AnswerByHand` | `tryTurnEndDelivery`, an action per await |
| `Take`, `Freeze`, `AppendRow`, `Stage`, `Prepare`, `CompleteRound` | the compose executor |
| `RefuseRound`, `FailRound`, `WithdrawRound`, `StopRound` | its ways out |
| `Send`, `JournalResult`, `TurnReady`, `FailRequest`, `StopRequest` | the provider executor |
| `Cancel`, `Stop`, `HaltDone`, `Reconcile`, `Decide` | a halt and the settlement that follows |
| `Crash`, `Save` | reopening from a snapshot; a snapshot reaching the disk |

Simplifications: an effect has the guard that its command is in `saved`, the
write-ahead order `TaskRuntime` proves; `Save` copies the present kernel state,
and the snapshots leave out the edit in progress, which hydration clears;
the turn-end delivery takes any one queued message, which stands for any order
the user dragged them into; direct submissions carry no entry of their own and
only open rounds; the box of 32 entries is never full; a rollback that fails
itself (`queueDisposition` uncertain, `ComposeCommandExecutor.ts:233`,
`intake.ts:326`) is left out, so a failed round always takes its rows back;
read-only openings and a submission between a halt and the end of its settlement
are left out.

### `BackgroundDelivery`

A *deliverer* is a producer's `publish` call or the one release that runs at a
time (`Release`). Room is counted in units; `Window` is the room above the
level at which the owner yields.

| Variable | In the code |
|---|---|
| `records`, `acked` | the ledger's rows in insertion order, and those with `acknowledged_at` |
| `phase`, `got` | where each call stands between two awaits, and the room it reserved |
| `list`, `item`, `due` | the rows the running release has listed, the one in its hands, and a release that waits in the chain |
| `box`, `saved` | the kernel's background box, and that of the snapshot on disk |
| `occupied`, `staged`, `checkpoint` | the context indicator; room taken since; the part the round carries |
| `round`, `fenced` | the stage of the current round; the ingress fence of a halt |

| Action | In the code |
|---|---|
| `Publish` | `stageAndPublish` up to its first await after the reservation |
| `SubmitAccepted`, `SubmitDuplicate`, `SubmitRefused`, `PutFails` | the payload write and the submission, with its three answers |
| `Acknowledge` | `ledger.acknowledge`, after the durable receipt |
| `StartRelease`, `NextHeld` | `releaseHeld` and `deliverPending`, one row at a time |
| `Save` | a snapshot reaches the disk |
| `OpenRound`, `ReachBarrier`, `OpenRequest`, `TurnReady`, `GiveUpRound` | what a round does to the box and to the room |
| `Rearm`, `CompactionLands`, `Reopen` | the end of a halt, a landed compaction, a crash and the activation after it |

Simplifications. An entry's payload reference is the size its text was cut to:
the text and its cut are the same whenever the room is the same. One waiting
release stands for all that wait in the chain. A crash is a restart, and the
activation's release follows it. A second call of `publish` for a result whose
first call has ended is left out (see section 8). `Save` always succeeds: a
snapshot write that fails rejects `submission.durable`, leaves the entry in the
kernel's box, and lets a later `publish` be acknowledged as a duplicate before
the entry is on disk; `AckedIsHeld` does not cover that.

### `SubagentJobs`

| Variable | In the code |
|---|---|
| `job`, `batch` | the manager's records |
| `run`, `outcome`, `aborted`, `tool` | the runner's current attempt |
| `leftover`, `claimed` | tools the runner abandoned: not charged, and charged to the gate |
| `waiters`, `withheld`, `limit` | the gate |
| `row`, `cancels`, `retrier` | the activity rows, cancellations that await their canceller, rows with Retry |
| `notices`, `published` | status callbacks that await their message, and the entries published |

| Action | In the code |
|---|---|
| `StartJob`, `StartBatch`, `SetLimit` | `use_subagent` in the background, and the setting |
| `StartTool`, `ToolReturns`, `RunEnds`, `RunCancelled` | a run, up to its result |
| `ToolStops` | an abandoned tool returns, with the allowance it withheld |
| `Settle`, `GiveUpWaiting` | the wait for abandoned tools ends, or its thirty seconds do; the permit goes back, the record settles, the callback runs up to its message |
| `Publish` | the callback after its message |
| `Cancel`, `CancelReturns`, `Retry` | the panel, and the close of the task, which cancels all rows |

Simplifications. A run makes one tool call, the last of its transcript. Finish,
timeouts and context pressure are ways for a run to end. The permit's return,
`finishJob` and the callback up to its `say` are one chain of microtasks, and so
is the return of withheld allowance after a tool stops. The callback of a result
that can be retried does nothing after its message and is not kept. Closing a
task is `Cancel` of every running row; the interrupt and the disposal that
follow are left out, and so are foreground jobs with their handoff to the
background. Nested fan-outs exist in the budget but no handler starts one.

### `AwayMode`

An *item* is a follow-up question or the approval of an external command. Its
status is where the interaction stands: `absent`, `planned` (armed, not shown),
`stranded` (planned when a cancel fenced the executors), `awaiting`,
`resolving` (answered by the user), `timed_out` (answered for the user),
`closed`.

| Variable | In the code |
|---|---|
| `file` | the settings document: both preferences, both revocation numbers |
| `host`, `revoking` | `AwaySettings`: its snapshot, the gate, `pendingRevocation`; a call of `persistRevocation` is queued |
| `facts`, `configuring`, `behind`, `window` | the binding's queue, the durability it awaits, what the opening still waits for, how far it is |
| `kernel`, `disk`, `store` | `state.away`, the flow's activity, the generation and the items, in memory and in the snapshot; the commit pipeline |
| `timer`, `delivering` | the scheduler's timer, and its deadline events on their way |
| `now`, `spent` | the clock, and the bound on events |
| `unseen`, `withdrawn`, `forgettable`, `missed` | history, for the properties only |

| Action | In the code |
|---|---|
| `WriteSettings`, `Adopt`, `SettingsFail` | a switch of a preference by any window, its arrival here, a write that fails |
| `MoveGate`, `PersistRevocation`, `RevocationFails` | the feature gate and the revocation it leaves to be recorded |
| `Reconcile`, `Release` | opening a task: read the file, wait for the kernel, permit timers |
| `Configure`, `ConfigureThrows` | one entry of the binding's queue: `away.configured`, or its failure |
| `AskQuestion`, `PlanCommands` | `reduceAway` arms a question or a batch of approvals |
| `Present`, `Answer`, `Reopen`, `Settle` | the interaction is shown, answered by the user, handed back, over |
| `EnterAway`, `LeaveAway` | the mode of the task, and the button that stops it |
| `Cancel`, `Halted`, `Resume` | a stop, its end, and the way back |
| `Tick`, `Fire` | the clock and the timer |
| `AcceptDeadline`, `RefuseDeadline`, `DeadlineThrows` | the three ends of a deadline event |
| `Save`, `SaveFails`, `Recover`, `Crash` | the snapshot, its failure and repair, a crash with the reopening |

The permission of a deadline is two numbers: the revocations of the mode and of
its automatic entry that the kernel knew when it was armed. The host is ahead of
the kernel while its queue is not empty; timers run only while the two agree
(`Permitted`), and a deadline is good only while its numbers are the kernel's
(`Valid`).

Simplifications. How an accepted answer reaches its receiver is left out: the
command goes through the outbox of `TaskRuntime`. The phases initializing,
running and waiting are one, `active`. Settings storage that cannot be reached
shows as a pending revocation, which the code has in every such state.
`PersistRevocation` publishes once where the code publishes twice with the same
outcome. A configuration that arrives while the task opens is kept in the queue.
An event accepted while a write is in flight joins that write. `delivering` is a
set, so two deliveries of one deadline under way at once are one. A cancel
during `recoverDurability` can make the kernel refuse a queued configuration by
its generation (`TaskAwayConfigurationBinding.ts:117`); `Configure` leaves this
out, it keeps the host's numbers ahead and the timers withheld. The review of
a compaction that interrupts a question, and the closing of a window, which only
stops timers, are left out.

## 4. The runs

The inputs of the modules are bounded (revisions, rounds, attempts, cancels,
crashes), so a behaviour may stop in the end: deadlock checking is off, and
what must not stop early is a liveness property.

| Run | Question | Bounds | Distinct states |
|---|---|---|---|
| `runtime_faults` | Is one lane right under every fault? Does the outbox lose a command? | 1 domain, revision 4, 1 failed write, 1 failed effect, 1 crash | 324,821 |
| `runtime_lanes` | Do lanes wait for each other? | 2 domains, revision 3, 1 failed write, 1 crash | 921,966 |
| `halt_barrier` | Does stopping work? | 2 calls, 2 rounds, all three executors slow | 378,948 |
| `halt_no_resume` | Is a resume offered after a cancel? | 1 call, 1 round | violation |
| `tool_turn` | Are the pool and the kernel safe? | 3 blocks, two lanes (symmetric), up to 2 ending, ceilings 1 and 3 | 2,588,767 |
| `tool_settles` | Does a turn settle? | 3 blocks, one lane, up to 1 ending, ceilings 1 and 2 | 524,602 |
| `queue_delivery` | Is a message delivered once, and never lost? | 2 messages (symmetric), 2 rounds, 1 cancel, 1 crash, 1 disturbance | 1,722,715 |
| `queue_resent` | The same over three rounds | 1 message, 3 rounds, 1 cancel, 1 disturbance | violation |
| `background` | Is a result held, handed over by one, and delivered? | 2 results of 1 and 2 units, room for 2, box of 2, 1 crash or failed payload write | 1,060,178 |
| `subagents` | Do jobs stay in their budget, report once and last, and stay cancelled? | 1 single job, a batch of 1, limits 1 and 2, 2 attempts | 62,188 |
| `subagents_cancelled` | Does a job cancelled before it starts stay unstarted? | 2 single jobs, limit 1, 1 attempt | violation |
| `away` | Does a withdrawn permission stay withdrawn? Is what is due answered? | 1 question (2 ticks), 1 command (1 tick), 2 ticks, 3 events | 627,454 |

A *disturbance* is a failed or withdrawn round, a failed request, or the removal
of a message a delivery already holds.

An *event* of `away` is an ask, a return of the user, an answer that failed, a
write of the settings (that fails, too), a move of the gate, a revocation that
fails, a cancel, a crash or a failed snapshot: three of them, of any kinds in
any order, beside the unbounded rest.

**What the passing runs show**

- `runtime_faults`: no effect before its snapshot (`StartedIsDurable`), receipts
  that speak the truth also when a later write absorbed theirs
  (`ReceiptsAreTrue`), a view that gets each revision once, in order and only
  when it is on disk, retried batches included (`ViewInOrder`), no second start
  of a running effect across the await of the publication store
  (`OneEffectPerKey`), and the refinement of `WriteAhead`.
  Through a failed and retried write, until it settles or is fenced, every
  accepted command is somewhere it can still be published from, the failed
  snapshot included (`CommandsAccounted`), and the snapshot on disk carries
  each one it owes (`SnapshotCarriesOwed`). Both except the commands in
  `skipped`, which the code loses (section 8).
- `runtime_lanes`: with fair writes and drains, every command is started, fenced
  or settled although no effect has to complete, unless a failed write stands
  (`LanesAreIndependent`): the reveal of a dialog never waits for the tool that
  waits for the dialog. A failed write stops the lanes until the next event
  retries it, and nothing promises that event.
- `halt_barrier`: the kernel waits for exactly the receipts still owed
  (`PendingIsOutstanding`); an aborted effect that still runs is behind a fence
  (`AbortedIsFenced`); a paused task is quiet (`PausedIsQuiet`); compose and
  provider never overlap (`OneRoundRuns`) and nothing issued before a stop starts
  once its command was dispatched (`StartsCurrent`), except for commands in
  `overtaken`, which the code does let start (section 8); every stop ends
  (`StopsEnd`), and every call does, in an error only after an escalation
  (`CallsFinish`; what such an error leaves behind is in section 8). Any of the
  three executors may miss the deadline.
- `tool_turn`: lane exclusion, ending calls last, their effects alone, and
  followed by nothing (`LanesExclusive`, `EndingIsLast`, `NothingAfterEnding`); effects and the kernel's `executing` agree
  (`EffectsAreExecuting`); no block waits that its own rules would admit
  (`NoMissedWakeup`); nobody is overtaken by a block it conflicts with
  (`NoOvertaking`); the ceiling in force is never exceeded by an admission
  (`WithinLimit`).
- `tool_settles`: a turn with at most one ending call settles once its approvals
  are answered and its effects return (`TurnSettles`).
- `queue_delivery`: within its bounds a message is in the conversation at most
  once and not while it is also waiting to be sent (`SentOnce`), none disappears
  (`NothingLost`), what a tool round holds belongs to the round in flight
  (`HeldByTheRound`), a message under edit is out of reach (`EditedIsHeldBack`),
  and a reopened task has decided what the crash interrupted
  (`OpeningDecides`).
- `background`: an acknowledged result is in the snapshot on disk
  (`AckedIsHeld`); no result is handed over by two at once (`OneSubmitter`); and
  every staged result is delivered if compactions keep landing, turns keep
  completing and halts end, unless one of two obstacles stays: a box filled by
  entries that were given up, or an entry submitted before a crash under another
  cut (`HeldIsDelivered`; both obstacles are observations of section 8).
- `subagents`: a job starts only while runs and escaped tools together stay
  within the limit (`WorkWithinLimit`); the gate withholds exactly as much as
  charged tools still work (`ChargedForLiveTools`); nobody waits beside room
  (`NobodyWaitsBesideRoom`); a published entry is its job's last word
  (`PublishedIsLast`); a cancelled row is revived by Retry only
  (`OnlyRetryRevives`); every job ends published or retryable
  (`EveryJobReports`).
- `away`: no item is answered for the user once the permission it was armed
  under was withdrawn, although the mode be permitted again, configurations
  arrive late, revocations fail to be written and the task be reopened
  (`WithdrawnNeverAnswers`; a crash before any file records the withdrawal forgets
  it, section 8); between the saves the timer of the earliest deadline
  is set or its event is on the way (`WakeupIsKept`); and what is due is answered,
  unless its user, a withdrawal, a stop or a failing disk comes first
  (`DueIsAnswered`).

**Why the bounds are enough.** Each bound lets the case it is about happen and
one thing go wrong around it. In `TaskRuntime` four revisions are a write in
flight, a batch waiting behind it, a halt and a retry; faults of different
kinds meet in one run.
`HaltBarrier` needs two calls for an escalation and for a rearm of an older
halt, several slow participants for receipts that come in any order and for a
deadline missed by any of them, and two rounds for a submission beside the old
round's executors. `ToolTurn` needs three
blocks for an overtaking and for an ending call behind two others, and two
lanes for a block that needs both; ceilings of one and three are serial and
unbounded. `InputQueue` needs two messages for a batch that loses a member, and
two rounds for a message that comes back and is sent again, and a third for what
a failed request leaves behind.
`BackgroundDelivery` needs two results whose sizes do not both fit, so that one
is cut or waits, a full box, and a crash after a submission. `SubagentJobs`
needs one job that holds the permit and one that waits for it, a limit that moves
both ways, and a second attempt on a runner that abandoned a tool in its first:
one single job, a batch of one, limits 1 and 2, two attempts; with three jobs and
one attempt the same properties hold over 235,000 states. `AwayMode` needs an ask
and two events around it: off and on again, the gate and a crash, a failed write
and a switch, a stop and a reopening; and a deadline of each kind, the shorter one
armed while the longer runs.

`SentOnce` is one property in two runs, with different answers. It holds over
two rounds, and over three as long as no request fails (one message, three
rounds, one cancel and one crash without a disturbance: 116,955 states). It
fails over three rounds when a request fails and a cancel or a crash follows in
the next round; `queue_resent` is that counterexample. `OnlyLeftAreResent` says
that this is the only way: it exempts exactly the messages that were `included`
when a round was opened, and nothing else in their batch. `EachIsSentOnce`
(section 6) proves it for any number of messages, rounds and faults. Over two
rounds, the bound of `queue_delivery`, it says less than `SentOnce`; over three,
with the two messages, the cancel, the crash and the disturbance of that run, TLC
finds it to hold in 8,357,392 states, in four minutes, too long for a run that is
repeated often.

**Mutants.** For each property of each passing run, `PROJECT.json` names a
definition and a mutated form of it (a receipt not awaited, a fence not read, a
rollback left out); under the run's own configuration the mutant violates the
property.

## 5. Fairness

- `TaskRuntime`: weak fairness of `SaveLands`, `AllowRestored` and each domain's
  `Drain`. These are the process's own continuations: a settled write or await
  resumes, and the session factory opens the barrier. Submissions, effects,
  failures and crashes are the environment's and get none, so
  `LanesAreIndependent` holds with effects that never return. Nor does
  `RetryLands`: only a later event retries a failed write.
- `HaltBarrier`: weak fairness of the event loop, the lanes, the timers and the
  continuations of the shell's calls. Executors outside `Hung` return from an
  aborted or finished effect; `Hung` is empty in every run, see section 8.
  No fairness of user actions: `Submit`, `Cancel`, `Terminate`.
- `ToolTurn`: weak fairness of every piece of executor work. `TurnSettles` is
  conditional on what is not the executor's to give: approvals answered and
  effects returned for good. `SetLimit` has none.
- `InputQueue`: none; its properties are safety.
- `BackgroundDelivery`: weak fairness of the deliverers' steps after their
  payload write, of the release chain, of the snapshot and of the end of a halt:
  continuations of the process. Compactions, turns and new releases have none;
  `HeldIsDelivered` says what it needs of them.
- `AwayMode`: weak fairness of the clock and the timer, of the delivery of each
  item's deadline event, of the snapshot in flight and of the steps of the
  binding: queue, reconciliation, release, pending revocation. All are promises of
  the process. None of the user, of the gate or of the repair of a failed store.
- `SubagentJobs`: weak fairness of a run and its settlement (a run ends; the
  thirty-second timer fires), of a tool that outlived its run (it stops in the
  end) and of the message a callback awaits. No fairness of the user.

Strong fairness is used nowhere: every continuation stays enabled until it runs,
or until a failure that the property excepts.

## 6. Proofs

TLAPS proves these theorems for all values of the constants, 14932
obligations in all. Type correctness is proved and not run.

**`TaskRuntimeProofs`**, from `RuntimeAssumption` (finitely many domains, natural
bounds): `TypeCorrect`, `WriteAheadOrder` (`StartedIsDurable`), `ReceiptsTrue`
(`ReceiptsAreTrue`) and `Refinement` (`Spec => KeepsWriteAhead`).

`StartedIsDurable` is not inductive: that a dispatched command is durable follows
from where it was queued. The inductive invariant `IInv` adds

- `PipelineOrdered`: the batch in flight is ahead of the disk and the waiting
  one ahead of it, or a failed one stands alone, and all are at most the
  kernel's revision, so every save moves the disk forward;
- `ReceiptsAreTrue`: a resolved receipt is of a landed revision, which makes the
  drain's wait mean something;
- `CommandsSafe`: every command that is held, restored to a queue, past the
  receipt at the head of its queue, or in flight is of a landed revision, or was
  derived by hydration for the next.

Each action has one step in the preservation proof; the queue operators
(`Pushed`, `Listings`, `Fresh`) have lemmas on what they add and keep. The
refinement follows from `IInv` at both ends of a step: a save is `Land`, a
dispatch is `Start` with `MayStart` from `CommandsSafe`, a crash is `Reopen`, a
commit is `Accept`, everything else stutters.

**`TaskRuntimeOrderProofs`**, on top of the same invariant: `StartsOnce`
(`OneEffectPerKey`), `ViewFollowsTheDisk` (`ViewInOrder`), `NothingAcceptedIsLost`
(`Spec => []CommandsAccounted`) and `SnapshotsAreComplete`
(`Spec => []SnapshotCarriesOwed`).

A lane looks a command up in flight and dispatches it one step later. `OneLane`
says that nothing starts the same command in between, because a queue holds only
the commands of its own domain. `ViewInOrder` is carried by `Unbroken`: the batch in
flight, the waiting one and a failed one each hold an uninterrupted run of
revisions and begin where the one before ends, so merging them for a retry loses
and repeats nothing.

The last two hold in every state, for any number of failed writes, retries, halts
and reopenings. They speak of the commands that are *due*: owed, not done, and not
in `skipped`, which is what a restore passes over because a refused entry of the same
command is queued. Without `skipped` neither holds (section 8). The invariant `Accounted` says where a due command can be: it is
held, in flight, or queued behind no fence and no refused receipt, or else the
failed snapshot has it (`DueIsKept`), and the disk and every snapshot on its way
carries it from its revision on (`DueIsCarried`). A failed write refuses the
receipts of what its batch holds, and that this batch carries them is what
`Unbroken` and `DueIsCarried` give; the restore of the retry then brings back all it
carried, because what is owed was issued by the generation that runs and the
newest batch is of that generation (`OwedIsCurrent`, `NewestIsCurrent`), except
where an entry is refused already. `FencedIsFree` (nothing behind a fence is owed)
and `RefusedIsIssued` (a refused revision was accepted, so a new command is never
born refused) complete it.

**`ToolTurnProofs`**, from `TurnAssumption`: `TypeCorrect`, `LanesAreExclusive`,
`EndingIsAlone`, `ExecutingIsTrue`, `EndingRunsLast`, `NothingFollowsEnding`,
`NobodyOvertakes`, `CeilingIsKept` (`WithinLimit`), `DecisionUnique`,
`DecisionExists` and `NobodyIsStranded` (`NoMissedWakeup`), for any number of blocks,
lanes and ceilings.

Its `IInv` adds to the types: `PoolOK` (exclusive lanes, an ending block alone,
nothing begun behind the block that closed the turn, a drained and, once
cancelled, emptied pool), `RunsFresh` (a block is in one `tool.run` at most and
was not released before), `Matched` (which stages go with which kernel phases),
`ClosedForGood` (a pool is cancelled only for a turn that is over), and
`EndingAfterAll` (the kernel holds an ending block `executing` only after every
earlier block ended). The last one is
the reason for `Matched`: the pool decides that an ending call is last from its
own stages, and only the correspondence carries that to the kernel. The
scheduling pass enters the proofs through its fixpoint, in lemmas on
`Decision`.

`Decision` is stated as the set of grants that agree with `decideAdmission`. That
it has exactly one member is a pair of theorems: two decisions would differ first
at a block that met the same blocks before it, and a decision exists because what
is decided of the blocks up to one extends to the next. So no scheduling step of
the model is disabled for want of a decision. `CeilingIsKept` looks at the last
block a decision grants: it found a slot, and those granted before it are all it
had to share the ceiling with. `NobodyIsStranded` says that a pool at rest would
decide to admit nobody: the first block a second decision let in was already
admissible in the first, and each event that can change the answer (a submission,
a release, a new ceiling) schedules again.

**`HaltBarrierProofs`**, from `BarrierAssumption`: `BarrierHolds` (types and
invariant), `ReceiptsAreCounted` (`PendingIsOutstanding`), `FencesOutlive`
(`AbortedIsFenced`), `PausedTaskIsQuiet` (`PausedIsQuiet`) and `ForcedStayClosed`
(`ForcedFencesHold`), for any number of calls, rounds and generations and any
set of slow executors; and `OneRoundAtATime` (`OneRoundRuns`) and `StartsAreCurrent`
(`StartsCurrent`) from the invariant of `RoundsHold`, without a hypothesis on who
misses the deadline.

`AbortedIsFenced` is the difficult one: a rearm lifts a participant's fence
when the effect it waited for has ended, and must not do so when a later halt has
put up its own fence or another aborted effect still runs. Its `IInv` therefore
ties three records of the same thing together: what an executor awaits is the
aborted effect behind its fence (`AbortedIsAwaited`, `EffectsAreReal`), the halt of the
kernel's barrier is the one that fences (`BarrierFences`, `StopIsCurrent`,
`StopIsWhole`), and who has reported has nothing running (`ReportedIsQuiet`).
`UnusedIsFresh` says that a call not yet made has left nothing behind, and
`TerminatedIsFinal` that only a terminated task holds force-closed halts.

That requests do not overlap is a fact about owners. The fences of all participants
go up and down together (`OneFence`), so there are two situations: behind a fence
nothing runs that was not told to stop (`FencedIsStopped`), and once the fences are
lifted, or the call that will lift them has waited for the lanes (`Lifted`), what
the lanes hold is of the present generation (`LanesAreCurrent`), what waits or runs
as provider is the command its owner waits for (`ProviderIsOwned`), and while that
is so nothing waits or runs as compose (`ComposeIsOver`). Each of the three
excepts `overtaken`. A stop empties the queues and its dispatch fences
everybody; a call that then goes on without a missed deadline has its halt behind it
(`SettledIsOver`) and found the lanes idle, so `Lifted` begins with nothing in
them. A call that missed a deadline rearms with whatever the lanes still hold:
that, and only that, becomes `overtaken`, and while its halt still waits for
receipts nothing else can be provider work (`EarlyIsOvertaken`, `HaltIsFenced`). The rest
is order: commands are issued, queued, looked up and run in the order of their
numbers (`InOrder`) and the round that composes is the newest (`OwnerIsNewest`), so
a completed compose has nothing behind it. A terminated task is left out of `OneRoundRuns` for what
section 8 says of terminate.

**`InputQueueProofs`**: `Invariance`, `TypeCorrect`, `NothingDisappears`
(`NothingLost`), `HeldByItsRound` (`HeldByTheRound`), `EditedIsOutOfReach`
(`EditedIsHeldBack`), `OpeningSettles` (`OpeningDecides`) and `EachIsSentOnce`
(`Spec => []OnlyLeftAreResent`), for any messages and any number of rounds, cancels,
crashes and disturbances.

A crash takes the kernel's state back to the last snapshot and leaves the journal
where it is. So what the proof knows of a kernel state it has to know of the
snapshot as well, and `Sound` is a predicate of a state and a journal, asked once
of `task` and once of `saved`: a delivery holds its whole batch, as admitted and as
staged, but for what was removed (`Carried`), a prepared round has its plan in the
journal (`Journaled`), and a consumed message waits as an answer or was conveyed
(`Kept`). A round is *fixed* (`FixedRounds`) once its draft is prepared and no
composer works on it; a message is consumed only when a fixed round has its row, which is why
the journal cannot lose it under either state. The other parts say who is at work
when (`Lanes`), how far the journal of the round being composed has come
(`Composing`, `Batched`), what the snapshot knows of that round (`Linked`), where the
deliveries of a task that is not being stopped are (`InFlight`), and what is
under edit (`Editing`).

The steps come in kinds, with a lemma each. The kernel moves messages (`Moves`:
out of a delivery together, or one by one when they are removed), the journal
grows under a fixed state (a row, a batch, a draft), or a round is given up and its
messages are given back (`GivenBack`, `Undone`).
`OpeningDecides` is then the part of `InFlight` about a reopened task: a message may
be left undecided only if its batch was staged and lost a member.

`SentOnce` does not hold of the code (section 7), and `EachIsSentOnce` says how much
of it does, in every behaviour: only a message that was still `included` when a round
was opened can be sent again. A user brings that about by answering a failed
request with text; `leftover` is the set of messages to which it happened. Its
invariant `Once(M)` is about a set `M` of messages, and adds to `IInv` where a live row
of a member can be (`Placed`, again of a state and a journal, for `task` and for
`saved`). What has a row and is held is held by the round of that row, and that round
is either one whose batch a settlement finds (`Backed`) or one a removal has made
undecidable (`Stuck`). What has a row and is yet to be sent is in the plan of a round
given up before its draft, whose rows the next settlement discards. From there
`DecisionPlaced` shows that a settlement never gives back a message with a row of
a prepared round. `NextOnce` keeps `Once(M)` over a step that leaves no member of
`M` behind, whatever it does to the others; `EachIsSentOnce` is that lemma for
each `{m}` with `m` not in `leftover`, which only grows (`LeftStays`). Messages meet in
one place: a settlement retracts a whole batch, and if one member is left over the
others must not lose theirs. `RetractedPlaced` shows that they do not, because a
batch has all its round holds (`HeldIsStaged`); it is needed of the snapshot at a
crash as much as of memory at a cancel.

**`BackgroundDeliveryProofs`**, from `ResultsAssumption`: `DeliveryStaysConsistent`,
`AckedResultsAreHeld` (`AckedIsHeld`) and `OneHandsOver` (`OneSubmitter`), for any
results, sizes, window and box.

A submission that the kernel answers as a duplicate is acknowledged at once,
without a receipt of its own. This is right only if the entry it met is already on
disk, and it is because nobody else can be waiting for the snapshot of that entry.
So the two properties need each other: `BoxRunsAhead` says that an entry in the
box and not in the snapshot has a deliverer that waits for the snapshot, and
`OneSubmitter` makes that deliverer the only one. `ReleaseIsAlone`,
`ProducersAreStaged` and `DeliverersAreReady` say whom the release can meet. The
amounts of room play no part in the proof.

**`SubagentJobsProofs`**, from the three assumptions of the module:
`JobsStayConsistent` (types and invariant), `NobodyWaits` (`NobodyWaitsBesideRoom`),
`ChargesAreRight` (`ChargedForLiveTools`), `WorkStaysWithinLimit` (`WorkWithinLimit`),
`LastWord` (`PublishedIsLast`) and `RetryAlone` (`OnlyRetryRevives`), for any jobs,
batches, limits and attempts.

`IInv` joins `Gate` (the queue has no repetition, holds exactly the runs that wait,
and leaves no room beside a waiter), `Begun` (the records agree on how far a job
is), `NoticesAreLast` and `PublishedIsLast`.
The gate admits several waiters in one step, so its lemmas are about a prefix of
the queue: who is admitted, who stays, and that the rest is full or empty after.
`PublishedIsLast` alone is not inductive, because what is published was decided
when the callback began to await its message: `NoticesAreLast` says the same of
each notice on its way.

The two theorems on the budget need sums. `SumFunction` of the community modules
is a recursion on sets with an arbitrary choice of the next element; the lemmas
unfold it, by a least counterexample on the size of the set, into what is used: a
change at one place changes the sum by as much (`SumChange`), and a function that
is 0 or 1 counts its ones (`SumCounts`). `ChargesAreRight` is then one step per
action. For `WorkStaysWithinLimit`, a tool nobody is charged for belongs to a run
that keeps its permit until it settles (the last part of `Begun`), so runs and
uncharged tools are at most the permits held, charged tools are what the gate
withholds, and an admission leaves both together within the limit
(`AdmittedWithin`).

**`AwayModeProofs`**, from `AwayAssumption` (natural times, items of two kinds):
`AwayStaysConsistent` (types and invariant), `WakeupKept` (`WakeupIsKept`) and
`WithdrawalIsFinal` (`WithdrawnNeverAnswers`), for any questions, commands, times
and number of events.

The argument is about numbers that only grow. `NobodyIsAhead` and `FactsAreSeen`
say that no deadline, task, snapshot or queued configuration has a revocation
number the window has not seen, and `FileIsAhead` that the file is ahead of the
window exactly where something was switched off. So a deadline armed before a
withdrawal carries a smaller number than the window once the withdrawal is
seen, for ever: `WithdrawnIsRefused`, with the exception of deadlines whose
withdrawal no file records yet, which the pending revocation withholds. The
transitions of the kernel enter through one lemma, that what they leave armed was
armed before with the same numbers (`Inherits`); only `Arm` makes a new deadline,
and only for an item nobody had asked before. That the disk may be older than
memory makes the action property need one invariant more (`AnswersStand`): an
answer on disk is not awaited in memory. `WakeupIsKept` holds because each step
that changes what is due either renews the timer, or leaves a write in flight
that will, or has failed; that there is an earliest deadline at all rests on the
well-founded order of the naturals (`WakeupTyped`).

**Only model-checked.** `SentOnce` without the exception, which holds over the two
rounds of `queue_delivery` and not over three. Liveness under fairness
(`LanesAreIndependent`, `StopsEnd`, `CallsFinish`, `TurnSettles`,
`HeldIsDelivered`, `EveryJobReports`, `DueIsAnswered`) and `ENABLED` are out of this
prover's reach and stay with TLC. Induction by a theorem that takes an operator is,
too; where a proof needs one (`DecisionExists`, the sums of `SubagentJobs`, the
earliest deadline of `AwayMode`) it goes by a least counterexample, a set of
natural numbers that has a least element or is empty.

## 7. Findings

Each violation run states what a comment or changelog of the repository says, and
TLC finds a behaviour of the code that breaks it. Quotes and lines are in
`PROJECT.json`.

1. `halt_no_resume`: a cancel that interrupts the preparation of a dialog leaves
   it `planned`, and no resume is offered because a primary dialog exists.
2. `queue_resent`: a message sent with a failed request is put back in the queue
   by the cancel of the following round, its rows still in the conversation.
3. `subagents_cancelled`: a job cancelled while it waits for its permit runs all
   the same once it gets one, because the run's first statement resets the
   abort request (`tools/subagent/SubagentRunner.ts`).

## 8. What the checks do not show

Observations made while modelling which no run decides, for whoever works on
this code or extends the models:

- `runtime/DurableCommandOutbox.ts:235`: the fence of an entry is read before
  the await of `publications.has` and not after, so a halt in between lets the
  old command go on to its participant. The participants' own fences catch it,
  until they are lifted, and a cancel with a participant that missed the deadline
  lifts all of them as soon as the drains settle and waits for quiescence only
  afterwards (`shell/TaskShell.ts:237-238`; a test, `TaskExecutorAssembly.test.ts:71`,
  says "rearms real participants only after cancel reaches quiescence"). The old
  command then starts under the new generation or beside the next round: without
  their exception for `overtaken`, `StartsCurrent` and `OneRoundRuns` are both
  violated with the dialog executor alone late, in 17 states and, with two calls, 30. With the
  exception the run and the theorems show that nothing else slips through. For
  policy and tool commands, whose lanes are not in `HaltBarrier`, nothing is shown
  either way.
- `shell/TaskShell.ts:217`: a terminate that escalates a halt before its receipts are
  in makes the kernel refuse them. `halt.stop` rejects, `waitForQuiescence` with it
  (`runtime/CommandRouter.ts:84`), and the terminate throws before it force-closes
  the halt at 220 (`ExecutorLoopIntegration.test.ts:364` escalates after the deadline
  only). "A call that ended has its escalated halt in `forceClosed`" is violated by
  this with two calls and one round; `CallsFinish` allows the error after an
  escalation and no other.
- `runtime/DurableCommandOutbox.ts:98`: `restore` skips a command whose key is
  still queued, and does not look at its receipt. When a write fails and its retry
  lands while the drain awaits `publications.has` for an earlier entry, that queued
  entry is the rejected one and is dropped (239-249): the command is lost and no
  later snapshot carries it. With `Due == owed \ published` and one failed write
  TLC violates `CommandsAccounted` in 8 states, the last one the retry that
  passes the command over.
- `shell/TaskShell.ts:230`: a submission between the pause and the rearm meets a
  fenced compose executor, which resolves the command without running it. The
  model has the step; whether the interface lets a user submit then is open.
- `shell/TaskShell.ts:237`: when a terminate ends a task whose timed-out cancel
  is still being finished, that cancel lifts the fences of the terminated task,
  and until the terminate's own stop is dispatched old and new work may run
  together. `OneRoundRuns` therefore speaks of tasks that are not terminated.
- `shell/TaskShell.ts:217`: a terminate waits for the dispatch of an executor
  that ignores its abort; with a member in `Hung` `CallsFinish` fails.
- `executors/compose/ComposeCommandExecutor.ts:157`: when the only message of a
  delivery was removed before the round took it, the executor returns without
  feedback and the round stays `running`.
- `executors/compose/RetainedQueueSettlement.ts:98`: a cancel between the staging
  of a batch and its prepared draft can leave a message `uncertain`, invisible
  until the next halt or reopening; a batch that lost a member stays so for
  good, which is the exception in `OpeningDecides`.
- `kernel/machines/intake.ts:12`: released direct inputs keep their place in the
  box of 32 for the life of the task.
- `kernel/hydrate.ts:301`: reopening twice from one snapshot derives the same
  effect keys, and the first reopening marked them published (the comment at
  567-570 says otherwise). Such a command counts as done in `TaskRuntime`, and
  `CommandsAccounted` does not ask for it.
- `kernel/hydrate.ts:384`: a crash while the round that answers an error is in
  flight restores it as running; nobody runs it (comment at 618).
- `session/TaskBackgroundIngressOwner.ts:65`: a release lists the pending rows at
  once and asks whether a producer works on one only when it reaches it (67). A
  producer that finished meanwhile leaves its row in the list: it is submitted
  again, its room is counted twice, and if the room has changed its text is cut
  elsewhere, the kernel refuses it, and the release fails with the landed
  compaction that asked for it. The model follows the list (`list`, `item`); the
  refusal ends that release, and the properties say what survives it.
- The same file, 69: held results are meant to be delivered in order, but a
  producer that finds room overtakes them.
- The same file: a crash between the snapshot and the acknowledgement, with
  another amount of room after it, makes every activation submit the row under
  another cut, and the task does not open
  (`src/src/core/controller/index.ts:1440`). This is an exception of
  `HeldIsDelivered`.
- The same file: a second `publish` of a result whose snapshot write failed is
  answered as a duplicate and acknowledged before the entry is on disk; a publish
  fenced by a halt leaves its row pending until the next compaction or reopening.
- `kernel/machines/intake.ts`: a background entry that a withdrawn round held is
  released, is never taken again and keeps its place of 32, the other exception
  of `HeldIsDelivered`.
- `composition/TaskSessionCompositionService.ts:972`: the checkpoint of a round marks
  the room of results accepted while it ran, which it does not carry.
- `tools/handlers/SubagentToolHandler.ts:1093`: a foreground job handed to the
  background is marked before its message is awaited; a result in between is
  both answered inline and published.
- The same file, 1418: the callback of a batch awaits its message with the settled
  batch in hand. A retry in that time publishes the batch with an item that
  still runs, and its real result is refused later under the same entry id: with a
  batch of two, a limit of two and two attempts, "no entry is made of an item that
  runs" is violated in 8 states. `PublishedIsLast` therefore speaks of single jobs
  only. A batch with an item that can be retried publishes nothing until it is.
- The same file: a cancellation that returns late marks a row cancelled that has
  completed or was retried; a change of the limit reaches the gate of the task
  whose controller made it, no other.
- `executors/tool/ToolCommandExecutor.ts:135`: when the model ends a turn twice in
  one reply, the pool drops the second ending call and its report is refused by
  the kernel, where the block is still `ready` (`kernel/transition.ts:205`). The
  turn then settles only when the user submits something. `TurnSettles` is thus
  checked for a turn with at most one ending call; with `MaxEndings = 2`, two blocks
  and a ceiling of one, it fails.
- `shell/TaskShell.ts:258`: `offerResume` parks a primary dialog that a timeout
  answered. An approval so answered and then cancelled stays as it is, without a
  resume, until the task is reopened.
- `kernel/away.ts:254`: after a cancel and a resume the approvals of before keep
  their deadlines; a timeout that is accepted for one has nobody to deliver it to.
- `runtime/TaskDeadlineScheduler.ts:60`: a deadline that meets a failing disk is
  reported and sets no timer again; the next event that becomes durable does. This
  is `missed` in `WakeupIsKept` and `DueIsAnswered`.
- `runtime/CommitPipeline.ts:138`: a user's answer whose write fails stands in
  memory and is reported to the user as refused; it cannot be given again before
  the task is reopened or cancelled.
- `src/src/core/controller/state/awaySettings.ts:134`: a gate that closes, or a
  settings write that fails, and is not on file when the process dies, is
  forgotten if the next process finds the gate open. This is `forgettable` in
  `AwayMode`, and the one withdrawal `WithdrawnNeverAnswers` does not cover.
- `kernel/hydrate.ts:421`: restorable approvals take the place of an open
  question, which is gone; one that a timeout had answered stays `interrupted`
  with no dialog to resume it.
