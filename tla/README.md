# A verification of DSXU Code in TLA+

This directory holds TLA+ models of the parts of DSXU Code whose behaviour
depends on interleavings, failures and restarts, the TLC configurations that
check them on small instances, and proofs that TLAPS checks for every value of
the constants. Paths below are relative to the root of the source tree
(`src/...`); `PROJECT.json` maps every definition to the lines it stands for.

The program is a command-line agent in TypeScript. One process runs one event
loop, so inside a process code is interleaved only where it awaits; several
processes (sessions of one project, agents of a swarm) share files below the
project and the user's configuration directory, with no server between them
but the file system. The hard parts are accordingly of two kinds:

1. suspended computations of one process that read state before an `await` and
   use it after: the tool executor, the query loop, the command queue and its
   guard, the uploaders and the socket transport, the scheduler's own writes;
2. processes that share files: the task list, the inboxes of a team, the
   scheduler's lock, the file of scheduled tasks, in which every `writeFile` is a
   truncation followed by a filling and every read may fall between the two.

## 1. Inventory

| Component | Source | State | Operations | Hard behaviour | What makes it correct |
|---|---|---|---|---|---|
| Streaming tool executor and its driver | `services/tools/StreamingToolExecutor.ts`, `query.ts`, `utils/handlePromptSubmit.ts` | the tracked tools with status, results and progress; the flags of errors and discards; the abort controllers; the query loop's position | `addTool`, `processQueue`, `executeTool`, `getCompletedResults`, `getRemainingResults`, `discard`, `discardAndSettle`; interrupt, cancel, permission rejection, batch gate, fallback | suspended calls of `processQueue` that resume at their own positions; a drain that decides whether to wait; aborts at any point | unsafe tools run alone and in order; every tool_use gets one result; the drain ends; the interrupt flag is current |
| Shared task list | `utils/tasks.ts` | one file per task, a high water mark, a list lock and one lock per task | create, update, delete, block, claim (two protocols), unassign, reset, list | several agents' file operations interleave, an agent dies in a call, lock retries run out, unlocked reads of torn files | ids are unique; no update is lost; one agent per task; blockers are respected; edges agree on both sides |
| Scheduler lock | `utils/cronTasksLock.ts`, probe and stop in `utils/cronScheduler.ts` | the lock file, each scheduler's ownership | acquire, re-acquire, recover a stale lock, probe, release | recovery of a stale lock by two sessions, a stop during an acquisition, deaths | at most one owner; a live session takes over from a dead one; no lock is left behind |
| Scheduled tasks | `utils/cronTasks.ts`, `utils/cronScheduler.ts` | the file of tasks, the scheduler's copy, `nextFireAt`, `inFlight`, `missedAsked` | `CronCreate`, `CronDelete`, load, check, remove, mark, missed tasks, ageing | unlocked read-modify-write of one file by several actors, a copy older than the file, failed writes, restarts | a one-shot task runs once or is asked about; a recurring one at most once a period; no task is lost or revived; each is handled in the end |
| Event uploader | `cli/transports/SerialBatchEventUploader.ts` | the pending queue, the drain loop, waiting callers | enqueue with backpressure, flush, close, retry, drop | callers that do not await, failed batches put back, close during a send | order; flush means sent; no lost wake-up; bounded queue |
| Worker state uploader | `cli/transports/WorkerStateUploader.ts`, used by `ccrClient.ts` | the patch in flight, the pending patch | enqueue (coalescing), retry (absorbing), close | an answer lost after the server has merged the body | the server's copy goes through reported states, in order, to the last |
| Query guard, command queue and prompt submission | `utils/QueryGuard.ts`, `utils/messageQueueManager.ts`, `utils/queueProcessor.ts`, `utils/handlePromptSubmit.ts`, the drain in `query.ts`, `onQuery` and cancel in `screens/REPL.tsx` | idle, dispatching or running, a generation; one queue with priorities; the calls of `executeUserInput` | reserve, start, end, forced end; enqueue, dequeue, batches by mode, attach during a turn, Escape, pop into the input | a stale `finally` after a newer turn has begun; commands chosen before an await and removed after it | one live turn; no command is forgotten; the queue never stalls |
| Query loop | `query.ts`, `services/compact/autoCompact.ts` | the `State` that every continue site writes whole, the failure count of compaction, the gates' marker in the conversation | compact, call, withhold, recover (reactive compaction, escalation, resume), stop hooks, gates, tools, turn limit | recoveries that hand over to each other, a remote gate that flips during a call, aborts anywhere | recoveries never spiral; no error is swallowed; the turn limit holds; the loop ends |
| Permissions | `hooks/toolPermission`, `utils/permissions` | pending decisions | dialog, hooks, classifier and leader race for one decision | late answers, aborts | one decision per request (planned) |
| Inbox of a teammate | `utils/teammateMailbox.ts`, `utils/swarm/inProcessRunner.ts`, `hooks/useInboxPoller.ts`, the loop of `cli/print.ts` | one file per agent under a lock, what each reader has in hand | append, mark one, mark all, poll, route, deliver, shut down, kill | reads without the lock, marks by an index found earlier, a dead or slow lock holder, crashes in a write | nothing written is lost or reordered; each message is taken once; a shutdown does not starve |
| Life cycle of teammates | `utils/swarm` | panes, runners, permission requests | spawn, idle, shut down, kill | a claim and a status in two updates | (planned) |
| Consolidation of memories | `services/autoDream` | a lock whose modification time is also the time of the last consolidation | acquire, roll back, reclaim | two reclaimers, a rollback of another's lock | one consolidation at a time (planned) |
| Socket transport | `cli/transports/WebSocketTransport.ts`, `utils/CircularBuffer.ts` | state, socket, reconnection timer and budget, ring buffer, the last id sent | connect, open, replay, write, error, ping, close | messages sent on a connection that breaks, dead connections without an event, close at any await | one attempt at a time; no gap, no reordering; closed stays closed |
| Other transports | `cli/transports` | posts, streams, heartbeats, epochs | connect, resume, heartbeat | loss and duplication across reconnections | nothing lost, order kept (planned) |
| MCP and LSP clients | `services/mcp`, `services/lsp` | connections, restart counters | connect, reconnect, crash recovery | crash during start, time-outs | bounded restarts (planned) |
| API retries | `services/api` | attempts, fallback model | retry, back-off, abort | limits and aborts | bounded attempts (planned) |
| Storage and history | `utils/sessionStorage.ts`, `utils/fileHistory.ts` | write queues, snapshots | append, drain, rewind | a timer against a flush | nothing lost (planned) |
| DSXU engine, control plane, HITL, coordinator | `dsxu/*`, `coordinator` | task queue, circuit breaker, approvals with time-outs, dependency graph | | time-outs against late answers | (planned in part) |
| Interface, commands, tools, skills, shell parsing, settings, telemetry, native replacements, scripts, documents | the rest of the tree | | | rendering, text and pure functions | not modelled, see section 8 |

Interactions. The query loop feeds the executor as blocks stream in, polls it
between stream events and drains it at the end of the turn; a submitted prompt
reads the executor's interrupt flag, and either starts a turn through the guard or
waits in the command queue, from which the query loop also attaches what arrives
during a turn. Agents of a swarm write to each other's inboxes and take work from
the task list; the leader unassigns the tasks of an agent that leaves. The scheduler
owns the scheduled tasks only while it owns its lock; tools of any session
write the same file without it. `HybridTransport` and `CCRClient` put the
messages of a session through the event uploader, `WebSocketTransport` buffers and
replays them itself, and `CCRClient` reports
state and metadata through the worker state uploader.

`PROJECT.json` lists the components with their status, and under `hazards` what
is hard to test, each at its line with the properties that would catch it.

## 2. Modules

| Module | Role |
|---|---|
| `StreamingToolExecutor` | the executor and the part of the query loop that drives it |
| `StreamingToolExecutorProofs` | its theorems |
| `TaskList` | the shared task list, at the grain of one file operation |
| `TaskListProofs` | its theorems |
| `CronLock` | the scheduler lock, at the grain of one file operation |
| `CronScheduler` | the file of scheduled tasks, the scheduler and other sessions |
| `CronProofs` | the theorems about the scheduled tasks and about the lock |
| `SerialBatchEventUploader` | the event uploader with its callers |
| `WorkerState` | abstract: what reporting a worker's state promises |
| `WorkerStateUploader` | the uploader that implements `WorkerState` |
| `UploaderProofs` | the theorems about both uploaders, the refinement of `WorkerState` among them |
| `CommandQueue` | the query guard, the queue of commands, prompt submission, the drain in a turn |
| `CommandQueueProofs` | its theorems |
| `QueryLoop` | one run of `queryLoop`: every continue site and every exit |
| `QueryLoopProofs` | its theorems |
| `TeammateMailbox` | an inbox file, its writers and the three readers, at the grain of one file operation |
| `TeammateMailboxProofs` | its theorems |
| `WebSocketTransport` | the socket transport with its network and server |
| `WebSocketTransportProofs` | its theorems |
| `MCStreamingToolExecutor`, `MCTaskList`, `MCSerialBatchEventUploader`, `MCWorkerStateUploader`, `MCTeammateMailbox` | small instances: kinds of blocks, scenarios, programs of calls, reports, messages |

Every module of a component has the same layout: constants with named assumptions, one
comment per variable, the operators the code computes with, one action per step of the
code, `Next`, `Spec`, its fairness (in a `FairSpec` of its own where some runs need
none), and the properties. A run whose constants are plain values checks the component's
module itself. `CronLock` and `WorkerStateUploader` have names of their own for what the
other modules call `Init`, `Next` and so on (`LockInit`, `StateInit`), so that
`CronProofs` and `UploaderProofs` can each extend two components. An operator named
"Mutant of X" is what X would be after a plausible slip in the code; `PROJECT.json`
pairs each property with the mutant that breaks it.

### StreamingToolExecutor

A step is the code between two suspension points. `status`, `results`,
`progress`, `hasErrored`, `discarded` are the fields of the class; `body[t]` is
the position of `collectResults` for tool t; `loops` holds the positions of the
suspended calls of `processQueue`, `wake` the settled tools whose `finally` has
not run; `cursor`, `open` and `left` are the suspended generator
`getCompletedResults`; `pc` is the query loop: streaming, polling between two
stream events, draining (`head`, `queue`, `pass`, `parked`, `final`), adding the
missing results (`finish`), settling after a refused batch, or over. Messages
are abstracted to what the code tells apart: the kind of the result, and how
many progress messages are pending. Kinds of blocks differ in the four answers
the code asks for: refused, concurrency-safe, Bash, interruptible. The controller of
a tool is a child of the query's: a tool that starts when the query is aborted for a
reason that does not concern it (a blocking one after an interrupt) is `barred`
(`StartedAs`): `runToolUse` refuses it with one error result.

### TaskList

Each process makes one call at a time; `call[p].at` is the point between two
file operations. `updateTask` is a procedure of the other calls (`todo`), and
reads that run in parallel (`Promise.all`) happen in any order (`left`). A
file is a task, `Gone`, or `Torn` between the truncation and the filling of a
write; `Read` is what `getTask` makes of it. The locks of `proper-lockfile` are
external: `LockTask` and `LockList` wait, and `LockFails` is a target that is
gone or retries that have run out. A crash of a process frees its locks, as
the staleness limit of the library does. What is filled into a file that has been
deleted since its truncation is lost (`Filled`). `made`, `holder`, `resolved` and
`edges` are history for the properties: `holder` is the agent whose claim wrote the
task last, and `Told` the step after which a claim reports success, whether its update
wrote the task or returned null. A scenario says what each process may
call, how many calls it makes, and what tasks there are at first; a run takes a
set of scenarios and begins in any of them.

### CronLock

`Create` is the exclusive creation of an empty file, `Fill` the write of the
body: `writeFile(..., 'wx')` is two operations. `ReadMine`, `ReadBlocked`,
`ReadStale` are the three outcomes of reading the existing lock, then
`UnlinkStale` and the second creation. `Enable`, `Probe`, `Stop` and `Returned`
are the scheduler's side: a stop during an acquisition is only seen when it has
returned. A process (a pid) starts once, with an id of a session that no, an earlier or
a live process may have had (`Enable`), and `/clear` and `/resume` give it another one
while its scheduler goes on (`SwitchSession`): `sessionNow` is `getSessionId()`, and
`sessionId` what the call under way read of it at its start (`TakesId`). `Exit` is the
end of a process whose scheduler was stopped, `Die` any other; both leave the lock.

### CronScheduler

`file` is the file of tasks; `io` the changes under way, each a read, a truncation and a
filling without a lock, started by the scheduler (`fired`, `mark`, `missed`) or by other
sessions (`create`, `delete`). `Check` is one run of the timer, the whole loop over the
tasks in one step; `LoadRead` and `Load` are the two halves of a reload. The cases of
`Check` exclude each other: a task that is in flight but not seen (deleted or aged out
of the copy, `cronScheduler.ts:371`) loses its place in the schedule like every task
that is not seen. Time counts periods of the schedules; a one-shot task is due one
period after its creation. What a run fixes about the relation of timers and disk is a
constant: `PromptWrites` and `PromptReloads` keep checks away from a change under way
and from a reload that is due; without them the disk may be slow.

### SerialBatchEventUploader

`Program` is what each caller calls; the callers in `Awaits` await a call before
they make the next. `phase` is where each call stands, `jobs` the calls whose
resolver has been called and whose continuation has not run. `Loop` is the head
of the drain loop with `takeBatch`: `Cut` is where the batch ends, by the number
of events and their `Bytes`, and `Taken` what it holds, without what cannot be
serialized (`Bad`). A batch that was put back is cut again from its first event,
so it grows or stays as it was; `Bounded` depends on that. `entered`, `acked`, `lost` and
`before` are history.

### WorkerState and WorkerStateUploader

A patch gives some keys a value; the keys of the metadata are keys like the
others, because both levels merge key by key. `Arrive` is the server's merge; a
send may fail before or after it. `WorkerState` has three actions, `Report`,
`Publish` and `Close`; the uploader maps to it with `reported` and `published`,
two history variables, and the server's copy.

### CommandQueue

A slot of `exec` is one call of `executeUserInput`: `processing` while it awaits
`processUserInput`, `querying` while its turn runs, `draining` between the choice
of the commands to attach and their removal. Calls overlap because Escape ends the
guard by force while a call is still under way; its late `finally` then finds a
newer generation. `ctl` is the slot that created the abort controller the REPL
holds. Inputs, the effect of the queue's processor (`Effect`, with its render) and
the subagent's loop are actions; a command that needs no model call is done in one.
Of a command the model keeps its kind: what it is, its priority, whether it may be
attached, edited or batched, and whom it is for.

### QueryLoop

`state` is the `State` of the loop; each of its continue sites is an action that
writes it whole, as the code does, and each exit gives `reason`. The conversation is
reduced to what the gates look for: results of tools, and the marker that
reserves the last turn for an answer; a compaction may drop the marker, and so may the
view of the conversation that an iteration takes when the last prompt stops the work or
asks about something else (`TakeView`). With streaming execution the tools of an answer
run before the gates see it (`Reply`), without it in `RunTools`. The model
may answer with any error for ever, but with no more than `Answers` answers that
do not end the loop. Hooks and gates decide at will, the abort and the flip of the
remote gate may come between any two steps. `compacts`, `failures`, `batches` (of tools
that the gates let through), `overrun` (tools ran beyond the limit), `forgot` and
`lateCalls` are history.

### TeammateMailbox

A step is the code between two file operations; the lock and the read under it
are one, since `proper-lockfile` gives the lock to one caller and only lock
holders write, except for the creation of the file. A file that is emptied or
damaged is read as no messages. `runner` is an in-process teammate, which takes one
message at a time, shutdown requests before the leader's mail before the mail of
peers, and marks it by its index; `repl` is the poller of an interactive session,
which delivers or queues all it has read and marks the whole file; `print` is the
loop of a headless leader, which does so between turns. Writers, prompts of the user
and kills are free; a lock may not be had, and a writer may die at any point and
leave a stale lock, an empty file or both.

### WebSocketTransport

A step is one callback: `Connect` up to the import of the socket library, `Imported`,
the two ways to open (`OpenOnly`, `OpenAndReplay`), an error or a close from the socket,
a timer, a ping interval, a `write`, a `close`. Under Bun all that is buffered is sent
again when the socket opens; under Node what comes after the last id the server names in
its answer, and nothing if it names none. A connection may die without an event, and
then only a missing pong shows it. What was sent on a broken connection may still arrive
(`stray`), be lost, or have arrived; the server is assumed to drop the messages whose
uuid it knows. `overflowed` and `blind` say that a message the server had not got left
the ring, or that a connection opened without a replay of such a message.

## 3. Runs

Every run has the constants it needs and no more; the bounds are the
constants `Max...` of the modules.

| Run | Shows | Bounds and why they are enough |
|---|---|---|
| `executor_user` | `ObserversAreCurrent`, `ResultsSound`, `DiscardStopsQueue`: results, spinner, interrupt flag, progress, sibling errors and discards stay consistent under every event | two blocks of four kinds: one that acts and one that is acted on; one progress message |
| `executor_order` | `RunsInOrder`, `UnsafeIsBarrier`, `WaitsEnd`: exclusive access, start order, barriers of unsafe tools; the drain and `discardAndSettle` end | three blocks, so that a queue can form behind and before an unsafe tool; none of them refused |
| `tasks_agents` | `FilesSound`, `ClaimExclusive`, `CallsEnd`: no id is given out twice, no field of a concurrent update is lost, no claim takes a task that another has written, an agent that is told it has a task has written it, every call ends | three scenarios: three processes that create and reset; two that claim beside one that updates, deletes or adds an edge; a leader that deletes, unassigns and resets beside an agent. At most two tasks, two calls a process, deaths at any point, exhausted retries |
| `lock_sessions` | `LockSound`, `TakeOver`: only a process that died, or was stopped in another session than it had when it took the lock, leaves its lock behind; a live scheduler does not wait for ever behind an owner that is gone | three processes (an owner and two that recover), two ids that they share and switch between, deaths at any point |
| `cron_once` | `RunOrAsk`, `EveryTaskHandled`: a process fires a one-shot task once and never one it has asked about; in the end the task is fired or asked about | one task created at any time, slow changes of the file, prompt reloads, three starts, six periods |
| `cron_many` | `FileSound`, `OncePerPeriod`: a recurring task fires once a period; no task is lost before it has fired | a one-shot and a recurring task that ages out, three periods; removals, marks and deletions overlap and fail; an owner and a scheduler that becomes one later |
| `uploader_calls` | `QueueSound`, `WaitersSound`, `ClosedSendsNothing`, `CallsReturn`: nothing misplaced, flush means sent, no lost wake-up, bounded queue, a closed uploader is quiet, every call returns | a caller that awaits and one that does not, five calls for a queue of two events, one event that cannot be serialized and one that fills a batch, two failures, a close |
| `worker_all` | `PatchesLeadToLatest`, `KeepsPromise`, `Delivered`: the patches lead to the latest report; refinement of `WorkerState`; the last report arrives | three keys of two kinds, three reports |
| `queue_turns` | `CallsSound`, `OneLiveTurn`, `NothingForgotten`, `QueueMoves`: one live turn that Escape reaches, nothing for a subagent in the main conversation, no command forgotten, no stall | three commands of any of seven kinds, one Escape, three calls: a cancelled one, the one that overtakes it and a third that meets both |
| `query_loop` | `LoopSound`, `NoSpiral`, `TurnLimit`, `AbortStops`, `LoopEnds`: every withheld error is accounted for, one reactive compaction between two stretches of work, failed compactions stop at the breaker, the gates let tools through in at most so many turns, at most one call after an abort, the loop ends | every combination of features; limits of two turns and two failures, so that each counter is met below, at and above its limit, and one recovery of a cut answer; three real answers; any number of errors |
| `mailbox_mail` | `InboxSound`, `EachOnce`, `ShutdownFirst`, `EventuallyTaken`: no message lost or reordered, none taken twice after its mark, a shutdown next, every message taken | a shutdown request, mail of the leader and of a peer; an inbox that does not exist yet; one death, kill or prompt of the user; any number of failed locks; each of the three readers; one marking call at a time |
| `socket_link` | `ConnectionSound`, `NoGap`, `StaysClosed`, `Delivered`: exactly one attempt at a time, the server's messages without a gap, a closed transport is quiet, what was written arrives | four messages for a ring of three, so that it overflows; three faults of any kind: one that breaks the connection, one that disturbs its replacement and one its replay; both runtimes, with and without reconnection |

The passing runs leave out what the disagreements of the next table need:
`executor_order` has no refused block: its result would overtake an unsafe tool that
is still queued, so `UnsafeIsBarrier` speaks of the unsafe tools that no refused block
precedes. In `tasks_agents` no process creates beside one that
deletes, and none claims with the busy check beside one that claims without; a busy
claim that is told of a success without a write, because it found the task's file in
the middle of another's, is an exception of `ClaimExclusive`. `OneRecovery` and
`StableKey` are no properties of `lock_sessions`, and `cron_once` has one task.
`TurnLimit` speaks of the gates, and of the time before the conversation lost the
marker (`forgot`).
In `cron_many`, where a process may start as a bystander, `AskedIsNotRun` is not
checked. `OneLiveTurn` speaks of the time before an Escape hits a call that is
still preparing its input (`late`), the properties of the inbox of the time before a
late creator or a crash has damaged the file (`spoiled`), `EachOnce` of the readers
that wait for their mark, and `NoGap` of the time before the ring dropped a message
or a replay was not made (`overflowed`, `blind`); `StaysClosed` is about Bun.

Some properties have several parts, which can be checked one at a time:
`ResultsSound` is `InterruptSparesRunning`, `SiblingErrorBlame` and
`NoOrphanToolUse`; `ObserversAreCurrent` `InterruptibleIsCurrent`,
`InProgressIsCurrent`, `ProgressDelivered` and `SettledMeansQuiet`; `RunsInOrder`
`ExclusiveAccess` and `StartOrder`; `CallsSound` and the other `...Sound` properties
of the later modules take the module's types with its structural invariants.

### Further disagreements

Where the code does something else than a comment of it says, the difference is a
property of its own. The configurations of this table are kept beside the runs and
can be run by hand (`tlc -config <cfg> <module>`, with the module of the run of
the same prefix); each is violated.

| Configuration | Property | What TLC finds | Against |
|---|---|---|---|
| `MCSTE_spin` | `DrainEnds` | a refused block behind a running unsafe tool: the drain loops over microtasks and never waits for the tool (`StreamingToolExecutor.ts:532`) | "If we still have executing tools but nothing completed, wait for any to complete" (`StreamingToolExecutor.ts:532`) |
| `MCSTE_inorder` | `ResultsInOrder` | two safe tools are yielded in the order of completion (`StreamingToolExecutor.ts:508`) | "emitted in the order tools were received" (`StreamingToolExecutor.ts:46`) |
| `MCSTE_missing` | `MissingMeansMissing` | a turn cancelled while streaming adds a "missing" result to a tool that has one (`query.ts:4977`) | "tool_result_missing_internal_error" (`query.ts:212`) |
| `MCTL_reuse` | `UniqueIds` | `deleteTask` writes the mark and unlinks the file without the list lock; a creation that reads the mark before and the directory after gives the id out again (`tasks.ts:413`) | "Update high water mark before deleting to prevent ID reuse" (`tasks.ts:410`) |
| `MCTL_busy` | `ClaimExclusive` | a busy-check claim (list lock) and a plain claim (task lock) of one task both succeed | "performed atomically with the claim" (`tasks.ts:538`) |
| `MCTL_torn` | `BlockersRespected` | a blocker that is being written is read as absent (`tasks.ts:595`) | "open or in_progress tasks block" (`tasks.ts:594`) |
| `MCTL_edges` | `EdgesKept` | two `blockTask` calls: one edge is lost (`tasks.ts:490`) | "Update target task: B is blockedBy A" (`tasks.ts:488`) |
| `MCTL_dangling` | `NoDangling` | the cascade of `deleteTask` misses a task that is being written (`tasks.ts:431`) | "Remove references to this task from other tasks" (`tasks.ts:430`) |
| `MCTL_dropped` | `CallersWait` | an update of a task that is being written is dropped, as of no task (`tasks.ts:389`) | "wait for the lock instead of failing immediately" (`tasks.ts:100`) |
| `MCCL_stale` | `OneRecovery` | the unlink does not look at what it unlinks: a slow recovery removes the fresh lock of a fast one, and both creates succeed (`cronTasksLock.ts:157`) | "If two sessions race to recover a stale lock, only one create succeeds" (`cronTasksLock.ts:106`) |
| `MCCL_torn` | `OneOwner` | the empty file of an exclusive creation is taken for stale: two owners (`cronTasksLock.ts:140`) | "Uses O_EXCL ('wx') for atomic test-and-set" (`cronTasksLock.ts:101`) |
| `MCCS_pair` | `FireOnce` | the removals of two tasks due in one check overlap; the later write puts the other task back, and it fires again (`cronScheduler.ts:319`) | "fire once, then auto-delete" (`cronTasks.ts:5`) |
| `MCCS_missed` | `AskedIsNotRun` | a check of a session that does not own the lock forgets that a task has been asked about, and runs it once the session is the owner (`cronScheduler.ts:365`) | "Prevent check() from re-firing the raw prompt" (`cronScheduler.ts:191`) |
| `MCCS_lost` | `KeptUntilFired` | a `CronCreate` beside a removal is lost (`cronTasks.ts:217`) | "Append a task. Returns the generated id." (`cronTasks.ts:185`) |
| `MCCS_deleted` | `DeletedStaysDeleted` | a mark writes a deleted task back (`cronTasks.ts:275`) | "No-op if none of the ids match" (`cronTasks.ts:252`) |
| `MCSB_burst` | `SerialOrder` | a blocked call is overtaken by a smaller later one of the same caller (`SerialBatchEventUploader.ts:106`) | "Serial ordered event uploader" (`SerialBatchEventUploader.ts:4`) |
| `MCSB_closed` | `ClosedCallsReturn` | a batch put back after `close()` makes a later flush wait for ever (`SerialBatchEventUploader.ts:183`) | "Resolves any blocked enqueue() and flush() callers" (`SerialBatchEventUploader.ts:136`) |
| `MCSB_poison` | `CallsReturn` | without a byte limit an event that cannot be serialized blocks the queue (`SerialBatchEventUploader.ts:214`) | "Un-serializable items ... are dropped in place" (`SerialBatchEventUploader.ts:208`) |
| `MCCQ_escape` | `AlwaysInterruptible` | a bash command that Escape hit while it ran takes the reservation of a newer dispatch and clears the controller; the turn that then starts cannot be interrupted (`REPL.tsx:3586`) | "so users can always interrupt DSXU" (`useCancelRequest.ts:96`) |
| `MCQL_escalate` | `EscalatesOnce` | the resume site clears the override, so the next cut of the turn escalates again (`query.ts:5243`) | "This fires once per turn (guarded by the override check)" (`query.ts:5164`), "retry max-output once" (`query.ts:869`) |
| `MCTM_unseen` | `MarkedAfterDelivery` | a message written between the poll's read and `markMessagesAsRead` is marked and never shown (`useInboxPoller.ts:200`, `teammateMailbox.ts:317`) | "Mark messages as read only after they have been successfully delivered or reliably queued in AppState. This prevents permanent message loss" (`useInboxPoller.ts:860`) |
| `MCWT_reopen` | `ClosedForGood` | `close()` during the import of the socket library under Node: the import goes on, opens a socket, and the transport is connected again (`WebSocketTransport.ts:169`) | the states closing and closed, which `close()` sets (`WebSocketTransport.ts:555`) |

Reading the code for the models showed more of the kind, which no property states
or no configuration of its own shows:

* A tool that blocks interrupts and is queued when one comes does not run: the
  executor has no reason to cancel it ("'block' tools shouldn't reach here (abort
  isn't fired)", `StreamingToolExecutor.ts:260`), but its controller is aborted from
  the start, and `runToolUse` cancels it (`toolExecution.ts:541`). A Bash among them
  counts as failed and cancels the rest as its siblings. `InterruptSparesBlocking`
  states the comment; `MCSTE_user` with this invariant in the place of its own shows it
  violated.

* `FireOnce` also fails by a removal that fails, when the task fires at every check
  (`cronScheduler.ts:320`), and by a check between a removal and the reload
  (`cronScheduler.ts:325`): `MCCS_pair` with `MayFail` or without `PromptReloads`, and
  with one task.
* `ClaimExclusive` also fails by an unassignment from an old list, which takes a task
  from its new owner (`tasks.ts:843`): `MCTL_busy` with three processes
  and `Unassigning` of `MCTaskList` as the scenarios.
* A claim reports success also when its update returned null (`task: updated!`,
  `tasks.ts:610` and `690`). A plain claim holds the lock of the task, and this happens
  only when the task is deleted under it. The busy check holds the lock of the list
  only: when its update looks for the task while another call is writing it, nothing is
  written, the agent is told that it has the task, and the next agent claims it too.
  `ToldHasWritten` states "performed atomically with the claim" (`tasks.ts:538`);
  `MCTL_agents` with this property in the place of its own shows it violated.
* The lock of the scheduler is given back by the session's id, which is not the "stable
  owner key" of `cronTasksLock.ts:113`: after `/clear` or `/resume` the owner, stopped in
  order, does not know the lock as its own and leaves it (`cronTasksLock.ts:178`); the
  others get it when its process has ended. `StableKey` states the comment; `MCCL_torn`
  with it in the place of `OneOwner` shows it violated. A process that resumes a session
  which is live elsewhere takes the lock from it, and both run the tasks
  (`cronTasksLock.ts:129`); `OneOwner` does not count this.
* The order within one priority is not "FIFO" (`messageQueueManager.ts:50`): a
  batch for the conversation passes over slash commands, which stay. The first
  command of a batch decides for all whether the model is asked, and a prompt
  submitted while nothing runs does not look at the queue.
* The reserved last turn is not "exactly one" (`query.ts:2099`): a stop hook or a
  gate that blocks it leads to another. When the last prompt stops the work or asks about
  something else, every iteration keeps only this prompt (`query.ts:4373`); the marker
  goes with the rest, and a model that uses tools in the reserved turn gets a further
  one (`query.ts:6276`), as after a compaction. With streaming execution the tools of a
  turn run before a gate refuses it, also in the reserved turn, whose nudge says "do not
  call tools" (`query.ts:2101`). `NoToolsPastLimit` states this; `MCQL_loop` with it in
  the place of its own properties shows it violated, with and without streaming. With the context collapse enabled and reactive
  compaction off an error of length is shown twice; when the reserved turn
  completes, no `max_turns` attachment is emitted; an output limit that is
  withheld behind tool uses, and any error withheld when the user aborts, is
  never shown.
* The first writer to an inbox creates it with an empty list and no lock: its late
  write wipes what another has stored meanwhile. A writer that dies between the
  truncation and the filling loses the inbox. A lock that cannot be had drops
  the message, and the tool that sent it still reports success (`SendMessageTool.ts`,
  `handleMessage`); a mark that cannot be made delivers it again.
* Under Node the replay starts from an id that the server names in a header, which the
  code reads from a field of the socket (`upgradeReq`, `WebSocketTransport.ts:254`). Without
  the field, or before the server has an id, the messages "buffered for replay when
  connected" (`write()`) are not replayed (`blind`).

`CHECK_DEADLOCK FALSE` stands in the configurations of `CronLock`,
`CronScheduler`, the two uploaders, `CommandQueue`, `TeammateMailbox` and
`WebSocketTransport`: starts, the clock, the calls, the reports, the commands and
the messages are bounded, a killed teammate and a closed transport stop, and a
system that has used them up has nothing left to do.
The executor, the query loop and the task list have an action of their own for a
finished turn (`Over`), a loop that has returned (`Ended`) and processes that have
made their calls (`Done`), so there a deadlock would be a real one, and TLC looks
for it.

## 4. Fairness

* `StreamingToolExecutor`: the microtask queue is served before any I/O. The
  generator, the suspended loops and the callbacks are weakly fair; a tool's
  next step only while the thread is free, that is while no suspended
  computation is ready and the query loop itself waits. Every tool is assumed to
  end; the user is not assumed to do anything.
* `TaskList`: a process goes on with its call; no process is obliged to call,
  deaths are not fair, and a lock whose retries run out is possible but never
  assumed: the calls end without it.
* `CronLock`: the steps of a process and its probe timer are fair, and a process whose
  scheduler was stopped ends: the REPL and print mode stop it on their way out
  (`useScheduledTasks.ts:122`, `print.ts:4226`).
* `CronScheduler`: the clock, the file operations, the reloads and the check
  timer are fair. Fairness of `Check` says that the session becomes idle again
  and again, since checks are skipped while a query runs.
* Uploaders: continuations and timers are weakly fair, a send ends, and a send
  that is tried for ever succeeds at some time (strong fairness of `SendOk`).
  `MCSB_poison` shows what happens when it cannot.
* `CommandQueue`: renders run their effects, a local interface is closed, input
  processing ends, and a turn ends (strong fairness of `TurnEnds`, which drains
  may put off). Nobody has to type or press Escape.
* `QueryLoop`: the loop goes on (`WF_vars(Step)`), since calls, hooks and tools are
  bounded by time-outs. That the model ends the loop at some time is not assumed
  as fairness but as the bound `Answers`; errors are not bounded.
* `TeammateMailbox`: file operations end, also by running out of retries, the
  library removes the lock of a dead process, turns end, timers and effects run.
  Nobody has to write, and no lock has to be had by a given call.
* `WebSocketTransport`: timers fire, the import and each attempt end, pings and
  pongs are made, a live connection delivers. Nobody has to write or to close, and
  connections need not break.

## 5. Proofs

`StreamingToolExecutorProofs`, for any number of tools, any set of kinds and
any events:

* `TypeCorrect`: `TypeOK` holds in every state.
* `Exclusivity`: an executing unsafe tool is the only executing one. A start is
  only made by `Picked`, which asks `CanExecute` in the state in which it
  starts the tool, whatever positions the other suspended loops have.
* `StartsInOrder` and `UnsafeStartsLast`: no tool starts while an earlier one is
  queued; `OrderOfRuns` puts this and `Exclusivity` together as the `RunsInOrder` that
  TLC checks. `UnsafeStartsLast` states its consequence `UnsafeSeesEarlier`, which no run
  checks. The property alone is not inductive: a loop that resumes at its
  own position does not look at the tools before it. The invariant adds that
  no queued tool that could execute lies behind the position of a suspended
  loop, and how `status` and `body` of a tool go together.
* `ObserversSeeTheState`: the interrupt flag is refreshed at every change of the set of
  executing tools, except by a step that has just shown it to be right; the spinner
  goes by where the generator stands (`OpenIsYielded`); and `discardAndSettle` waits
  for all that executes, since nothing starts after `discard` (`SettleWaits`).
* `DiscardIsFinal`: a tool that is idle at a discard can only be settled.
* `ResultsAreSound`: the reason of a synthetic result is one that is still true when
  the tool looks (`ResultsTell`), an interrupt comes only when all that runs can be
  cancelled and bars what starts later (`Spared`, from `InterruptibleIsCurrent`), and
  every block of the turn is counted as collected, missing or still to come
  (`Accounted`).
* `BarrierHolds`: an unsafe tool behind the position of the generator was yielded, if no
  refused block precedes it (`PassedAreYielded`). That nothing can be yielded beyond
  one that was not rests on the order of the starts.

`UploaderProofs`, about the worker state uploader, for any keys, values, reports and bound:

* `PatchesAreInductive`: `StateTypeOK` and `PatchesLeadToLatest`, which are inductive
  together: the patch in flight leads from the server's copy to the state it stands for,
  the pending patch from there to the latest report. Two lemmas carry it: a coalesced
  patch does what its parts do one after the other (`ApplyCoalesce`), and a patch
  applied twice does no more than once (`ApplyTwice`), so that a lost answer does no
  harm.
* `StateIsKept`: with this invariant every step of the uploader is a step of
  `WorkerState` or changes none of its variables, under the mapping of
  `Abstract == INSTANCE WorkerState WITH ...` in the uploader's module. TLC checks the
  same formula as the property `KeepsPromise`.

`QueryLoopProofs`, for any limits of turns, recoveries and failures:

* `TypeCorrect`: the types, among them that recoveries stay within their limit,
  and `LoopIsSound` with the account of the errors.
* `RecoveriesDoNotSpiral`: every continue site writes the whole state, so the
  invariant is that the guard `attempted` is set whenever a compaction
  was made since work progressed, and that the failure count in `tracking` is
  the true one wherever the iteration reads it.
* `TurnsAreLimited`: while neither a compaction nor a view dropped the marker, the gates
  let fewer batches of tools through than turns are counted; a loop past its limit has
  the marker and its gates refuse all tools, so that only streaming execution runs any.
* `AbortIsHeeded`: after a call that starts after the abort, the loop is never again
  where another could start.
* `NoErrorIsSwallowed`: what is withheld is one of the errors that a site behind the
  stream accounts for, whatever the gate says by then.

`TeammateMailboxProofs`, for any agents, messages and kinds of reader:

* `InboxIsSound`: its invariant `FileInv` adds that a call past the lock holds it
  (`Exclusive`), and that what it has read under the lock is what was written
  (`HoldsWritten`), so that the file can be empty only while its holder has the rest.
* `EachIsTakenOnce`: the index of a mark was found in a read without the lock; since
  messages are only appended, it names the same message for as long as the file is not
  damaged (`MarksItsOwn`), and the reader does not read again before the
  mark has ended (`WaitsForMark`, `MarksLast`).
* `ShutdownIsFirst`: what the teammate has chosen was the most urgent of what it
  had read (`Urgent`), so one ordinary message at most comes before a shutdown request
  that was stored since.

`WebSocketTransportProofs`, for any number of messages and faults and any ring:

* `ConnectionIsSound` and `ClosedStaysClosed`: `StateInv` ties the state, the
  socket, the timer and the budget together, and says that a closed transport has
  neither timer nor attempt under Bun.
* `ServerHasNoGap`: `GapInv` says that the ring, what is under way and what is left
  of the connection before are runs of consecutive messages, that each begins no
  later than the first message the server lacks, and that the ring ends
  with the last one written. A dozen lemmas say what appending, dropping the
  first, cutting after an id and arriving do to a run.

`CommandQueueProofs`, for any number of commands, calls and Escapes:

* `CallsAreSound` and `OneTurnIsAlive`: the guard is not a lock that is held by a
  call, but a status and a generation. The invariant says that no two live turns have the
  same generation and none a later one than the guard (`OwnGeneration`), that a guard
  that is not idle has a call that will release it (`HasHolder`), and that, until an Escape
  hits a call that prepares its input, the call in control is that of the
  guard (`HolderInControl`).
* `NothingIsForgotten`: where each command is after each step (`Kept`); what `Taken`
  takes and leaves of the queue is its members, so that nothing falls between. A
  scheduled prompt is dropped by a running turn only late (`OvertakenIsLate`).

`TaskListProofs`, for any processes, ids, scenarios and starting tasks, any number of calls,
deaths at any point and any exhausted retries:

* `TypeCorrect`: `TypeOK`, without a hypothesis. The invariant `Sections` goes with it:
  which call is at which point and what it then has planned (`Shapes`), the locks, and
  that a process makes only the calls of its scenario.
* `LocksAreExclusive`: a call that is in the section of the list's lock has it, and a call
  between the read and the write of a task has the lock of that task (`LocksExclude`).
* `FilesAreSound`, in the scenarios without a deletion beside a creation
  (`NoDeletionBesideCreation`): `UniqueIds` is not inductive, because the id that is
  given out next is computed from the mark and the directory, read in either order. The
  invariant `Disk` says that whatever was given out is below the mark or below a file
  (`HighestOnDisk`), that a creation or a reset that has looked knows as much
  (`KnowsHighest`), also when the process of a reset dies between the mark and the
  unlinks, and that what any call remembers of a task is of one that was given out
  (`KnownAreGiven`). `WriteIsCurrent` follows from the lock of the task: nobody writes
  between the reread and the filling.
* `ClaimsAreExclusive`, where moreover all claims of a scenario take the same lock
  (`OneLockOfClaims`) and at most one agent unassigns, with no update that sets an owner
  beside it (`OneReassigner`): who has written its claim of a task is its owner on the
  disk or was unassigned (`HolderOwns`), an update that will set an owner still stands
  when it is written (`ClaimsStand`, `UnassignsStand`), and a plain claim that has the
  lock of its task never finds it in the middle of a write (`FindsWhole`).

The three hypotheses speak of the constants only, and the scenarios of `tasks_agents`
satisfy them. None can be dropped: `MCTL_reuse` breaks `FilesSound` where processes
delete and create, `MCTL_busy` breaks `ClaimExclusive` by claims under two locks, and
with the scenarios `Unassigning` by an unassignment that was computed from an old list.

`CronProofs`, about the scheduler, for any tasks, ages, clock and number of starts:

* `TypeCorrect`: `TypeOK`, without a hypothesis.
* `FileIsSound`: changes may overlap in any way, fail, and be overtaken by checks and
  reloads: a task that is still owed is in the file and in whatever an open change
  has read (`FileInv`), because a removal takes only tasks that have
  fired or were asked about, and any other change writes back what it has read. Its
  hypotheses exclude the two ways in which the code does lose tasks: all tasks
  exist from the beginning (`NoCreation`; `MCCS_lost` is the counterexample with a
  creation), and one process, which does not die between the truncation and the
  filling (`OneProcess`; with two starts TLC finds that loss).
* `FiresOncePerPeriod`: when checks wait for changes and reloads (`Prompt`), with
  creations, deletions, failures and deaths. The copy of the tasks is what the file says
  whenever a check may look (`UpToDate`); no copy knows a
  task before it is created, once (`Creations`); and after a fire the next time of the task lies beyond it,
  or the task is too old (`Periods`). The last case matters: a failing removal of an
  aged task leaves it due.
* `RunsOrAsks`: for one task, created at any time, with changes that are as slow as they
  like, deaths and restarts. After a fire the schedule has forgotten the task, and only
  `inFlight` and its absence from the file keep it from firing again; so the invariant
  says that its removal is the only change under way or has ended (`Fired`), that a task
  that was asked about has no next time or is gone (`Asked`), and that a file that is
  being filled does not show it (`Truncated`). Its hypotheses are those of `cron_once`:
  with two tasks (`MCCS_pair`), with a removal that fails, with a reload that is late,
  or with a session that becomes the owner later (`MCCS_missed`) the property is false.

`CronProofs`, about the lock, for any processes and sessions:

* `LockIsSound`: a lock on the disk is that of a process that died, or its process is
  still between the creation and the end of the release, or has released in another
  session (`LockIsCared`), whichever recoveries interleave and sessions are switched; so
  a process that stays in its session leaves none when it is down. It is needed for
  every point of a call, not only for the schedulers that are down.

`UploaderProofs`, about the event uploader, for any callers, programs, sizes of events
and limits:

* `QueueIsSound`: no event enters twice and none without its call (`Once`, `Placed`),
  so that a batch that is put back is not one of those that came meanwhile. What
  `Taken` cuts fits a batch (`Driven`), and what was put back fits again, so that the loop
  takes all of it and the queue is never longer than its limit and one batch
  (`Ready`): `Bounded` rests on that.
* `WaitersAreSound`: the open uploader's loop is idle only when nothing is pending, and
  then nobody waits. A flush waits for what has entered (`Began`), and that is
  acknowledged or lost once nothing is pending or under way.
* `ClosedIsQuiet`: the loop looks at `closed` in the step in which it begins a send.

The proofs about the command queue and the event uploader need facts about recursive
functions (`Taken`, `Only`, `Cut`) for every queue. They are proved by a least
counterexample, with the well-foundedness of the numbers (`LeastNumber`), because the
theorems of the library that state induction have an operator as parameter.

The assumptions are the named `ASSUME`s of the modules; TLC evaluates them in
every run. TLC checks the same formulas on the instances of section 3 first.

Only model-checked: the liveness properties (`WaitsEnd`, `CallsEnd`, `TakeOver`,
`EveryTaskHandled`, `CallsReturn`, the two `Delivered`, `QueueMoves`, `LoopEnds`,
`EventuallyTaken`), which are out of this prover's reach, and the absence of deadlock
where TLC looks for it. Every other property that a run checks, the invariants and the
properties of steps alike, is stated by a theorem. Where a theorem has a hypothesis (the
task list, the scheduler), it is a formula about the constants that the run of the
property satisfies. `StateTypeOK`, `LocksExclude` and `UnsafeSeesEarlier` are proved and
in no run.

## 6. What the models leave out

* `StreamingToolExecutor`: model calls, recovery turns, stop hooks and what a
  tool does; permission dialogs are one event. Two executors of one process (a
  subagent's and the main one's) are not composed.
* `TaskList`: subjects, descriptions and metadata; hooks of a completed task;
  `listTasks` of a caller that only shows it; the notification of listeners.
* `CronLock`: a pid that another program has got since; two acquisitions of one
  session beside each other (a probe that overtakes a slow one), which are
  idempotent.
* `CronScheduler`: cron expressions and jitter; session-only and permanent
  tasks; the filter of assistant mode; the watcher's `unlink`, which clears
  the copy of the tasks. `FireOnce`, `AskedIsNotRun` and `OncePerPeriod` speak of
  one process: a task whose process dies between the fire and the removal
  fires again, or is asked about, after the restart, and neither a comment nor
  a test says otherwise. `OncePerPeriod` ends with the age of a task: an aged
  task whose removal fails fires at every check, as `FireOnce` does not allow either.
  `cron_many` has no deaths: a process that dies between truncating and filling
  the file loses all its tasks.
* `SerialBatchEventUploader`: delays, and calls larger than the queue
  (`ProgramAssumption`), which would wait for ever as `HybridTransport.ts:76`
  says.
* `CommandQueue`: the command that kills all agents and with it empties the queue,
  the rewinding of a cancelled prompt, the prompt of an automatic continuation.
* `QueryLoop`: the drain of the context collapse, whose module is a stub that commits
  nothing; reactive compaction is a module that is missing from the tree and modelled
  from its use; model fallback and tombstones, which are in `StreamingToolExecutor`; the
  summary of the last batch of tools; the texts of the nudges.
* `TeammateMailbox`: the reader for internal builds that attaches mail to a turn;
  a poll that outlasts its interval; `clearMailbox`, which nothing calls; what a
  routed message does to its session; the shutdown prompt of a headless leader; the
  poll of an in-process teammate for permissions; the death of a reader.
* `WebSocketTransport`: inbound messages; messages without a uuid, keep-alives
  among them; back-off delays; the refresh of headers after a refusal, folded into
  whether a close is permanent; a second `connect` by the owner; connections older than
  the last broken one.
* `WorkerStateUploader`: a PUT that timed out and is processed by the server
  after its successor; the heartbeat and the change of the epoch in `CCRClient`.

## 7. Plan

Built so far: the executor, the task list, the scheduler and its lock, the two
uploaders, the command queue, the query loop, the inbox and the socket transport.
What comes next, most important first.

Proofs: what the scheduler keeps when deaths fall between writes only, or creations wait
for the scheduler's own changes, which would replace the hypotheses of `FileIsSound` by
weaker ones; the refinements of the modules below.

Modules:

1. The teammate's life cycle (`inProcessRunner`, `spawnInProcess`) over
   `TeammateMailbox` and an abstract task list: a claim and its status in two
   updates, a kill between them.
2. `ToolBatch`: an abstract specification of running the blocks of a turn
   (batches of safe tools, unsafe ones alone) that `toolOrchestration.runTools`
   and `StreamingToolExecutor` both implement.
3. `CronSessions`: `CronLock` over `CronScheduler` with several sessions, against
   an abstract scheduler that fires each task once a period.
4. `HybridTransport` and `CCRClient` over the event uploader, the stream transport
   with resumption.
5. `ConsolidationLock` and the lock of computer use, against one abstract lock.
6. Permission decisions, API retries, LSP server restarts, MCP reconnection,
   storage queues, approvals with time-outs.

## 8. Not modelled, and why

Rendering, key handling, settings, command parsers, prices, evidence boards and
documents are functions of text or of JSON: their correctness is about wording or
layout, and a unit test reaches it. Drivers of external tools, protocol clients
and native replacements are adapters around code that is not in this tree.
Telemetry is written and not read. `PROJECT.json` names each of these components.
