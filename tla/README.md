# A verification of SciRust Hub in TLA+

SciRust Hub registers scientific components, runs them as child processes and
chains them into workflows.  A daemon (`scirust-hubd`) serves an HTTP API; every
handler calls one `Orchestrator` on a blocking thread, so any two operations may
overlap.  State is kept in a store (SQLite or memory) whose `put` replaces whole
records, and in three in-memory maps that a restart forgets.

This directory holds TLA+ models of the parts where threads, stale copies and
crashes meet, the TLC configurations that check them on small instances, and
TLAPS proofs of their central invariants for every value of the constants.
`PROJECT.json` lists components, runs, mutants, theorems, findings and hazards,
and maps definitions to source lines.  A definition marked `Mutant` is a wrong
version of the one after it; with it in place the named run must fail, which
shows that the property depends on that piece of code.

## The system and its models

| part | source | module |
|---|---|---|
| run records, lifecycle, events | `hub-core/src/{run,exec,event}.rs` | `RunStates` |
| submit, execute and cancel a run | `hub-core/src/orchestrator.rs` | `RunExecution` |
| workflow records, fences as values | `hub-core/src/workflow.rs`, `hub-store-sqlite` | `WorkflowStates` |
| scheduler, step threads, cancellation, recovery | `hub-core/src/orchestrator.rs` | `Workflow` |
| what publication promises its readers | trait in `hub-core/src/publication.rs` | `AuthoritativeOutput` |
| the two publication repositories | both `publication.rs` | `PublicationFence` |
| shared local execution slots | `hub-executor/src/local_capacity.rs` | `LocalCapacity` |

`Workflow` is composed with `RunExecution` (`Run == INSTANCE RunExecution`): an
attempt of a step is a run, and step threads, the scheduler and
`cancel_workflow` calls execute and cancel it by that module's actions.
`PublicationFence` shares its record and row operators with `Workflow` and
implements `AuthoritativeOutput`.  `MCWorkflow` adds the graphs that the
configurations choose from; modules named `...Proofs` hold theorems.

### RunExecution

`runs` and `events` are the tables, `active` is the `active_cancels` map (vacant,
or the state of the run's token), and each thread has a program counter, a
target and its own copy of the record.  A step is one critical section, one
transaction, or the start or return of the executor call.  `execute_run` is
`ClaimRun`, `LoadRun`, `MarkRunning`, `LaunchProcess`, `ExecutorReturns`,
`Finalize`, `Release`, with `PrepareFails`, `BuildRequestFails`,
`BuildRequestUnstored` (the put of that failed record fails as well),
`ExecutorFails` and `PersistFails` for its error returns.  `cancel_run` is `SignalCancel`, or
`MissActive`, `CancelLoad`, `CancelPut`: the lock is dropped between the lookup
and the read, and again nothing guards the put.  `Restart` empties the map and
the threads.  The ghost `started` counts executor calls.

### Workflow

`wf` is the workflow's row, `shared` the copy the scheduler and its step threads
put under one mutex, `token` and `activeRuns` are the two workflow maps.  The
scheduler (`spc`) polls the persisted intent, admits ready steps in key order,
receives results and concludes.  A step thread (`tpc`) submits, records, fences,
registers, rechecks cancellation, executes, records the result, and publishes,
retries or reports.  `cancel_workflow` (`apc`) persists the intent first.
`Deps` are all the steps a step waits for; `Consumes` are those among them that
it takes an input from, whose publications admission reads.  The others are its
`after` steps, of which only completion is asked.  Error returns are actions of
their own, one for each place the error leads to: `StartFails`,
`SchedulerFails` and `FinishFails` for the scheduler before, in and after its
loop, `AttemptFails` and `ResultFails` for a step thread before and after the
execution, `CancelWorkflowFails` for `cancel_workflow`.  An error of a
`cancel_run` call is part of the action of its caller: the scheduler leaves its
loop and does not cancel the rest of its list, a step thread leaves its run
registered, `cancel_workflow` returns.
`Restart` is followed by `recover_workflow_cancellations` and
`recover_interrupted_workflows` before anything else may happen.  A step is one
transaction or critical section; setting a token and listing the active runs
right after it is one step, since a thread that registers in between rechecks
the token afterwards.  The model has one workflow: workflows share nothing but
the maps, which are keyed by workflow, and the executor.

### PublicationFence

One workflow row, a fence row per step, every token ever issued and everything
ever committed.  Tokens stay in `issued`, so an advance or a publication may
arrive late, repeatedly and in any order.  `Durable` selects `SqliteStore`, which
checks the workflow and the current attempt in the transaction, or
`InMemoryPublicationFences`, which has neither at hand.

### LocalCapacity

`active` and `quarantined` are the mutex-protected state; each caller has a place
in `execute`, a token, a budget and its slot's `completed` flag.  The ghosts
`alive` and `holders` say whose child may still run and who has not given a slot
back.  The process executor is modelled by what its callers rely on: it returns
an outcome only for a child that is gone, and otherwise nothing is known.

## The runs

| run | instance | distinct states | shows |
|---|---|---|---|
| `RunSafety` | 1 run, 2 executors, 2 cancellers, all faults, 2 restarts, fair | 19,482 | one launch, legal histories, one verdict, claims given back |
| `WorkflowGraph` | 3 independent steps and one that consumes one and comes after another, 2 at a time, run and step faults | 387,213 | fail-fast reaches every process, concurrency bound, no stall, dependencies published, success complete |
| `WorkflowCancel` | a chain of 2 steps, 2 attempts, 1 canceller, 1 restart, all faults | 824,910 | retries, recorded launches, lifecycle, kept intent |
| `WorkflowRecovery` | 1 step, 1 canceller, 2 restarts, fair | 69,146 | executions, started or cancelled workflows and running runs end; a terminal workflow leaves nothing running |
| `Publication` | durable, 2 steps, 2 attempts, 3 generations, 2 outputs | 234,425 | unique tokens and outputs, refinement |
| `Capacity` | 3 callers, 2 slots, fair | 63,936 | bounded children, quarantine, every call ends |

Why the bounds are enough.  A race on a run needs an executor and a canceller
with copies of different age; a second of each lets two of a kind race, and one
run suffices because no operation relates two runs.  Two restarts reach a crash
during the recovery from another.  Three ready steps with two slots are the
fewest in which admission is refused; a join makes a step wait for two others
while a third is in flight; two attempts are the fewest with a retry.  Three
generations are the fewest that leave a superseded token of an attempt that is
itself superseded.  Deadlock is checked in every run.

Fairness.  A thread that is inside a call takes its next step: OS threads are
scheduled, mutexes are held for bounded work, and the executor call returns
because every request carries a wall-clock timeout that it enforces.  Nobody is
obliged to make a call.  In `LocalCapacity` budgets also run out.  All of it is
weak fairness per thread.

`WorkflowRecovery` injects fewer errors on purpose.  After a store error in the
scheduler a workflow does stay `running` until the next restart, and after a
backend error a run stays `running` for good (`RunStranded`);
`RunningIsAttended`, `TerminalWorkflowIsQuiet`, `StartedOrCancelledEnds` and
`RunningIsResolved` are stated for executions without those errors.
`TerminalWorkflowIsQuiet` is what makes it safe that start-up recovery skips
terminal workflows: whoever closes a workflow, the scheduler, a
`cancel_workflow` that found no live token, or either recovery pass after any
number of crashes, no run of it is executing or stored `running` by then.  The
attempts in the workflow's record are no guide to that, since they show `queued`
until the run has ended; the code reads the runs.

### Where the documents and the code part

Six runs show a property, taken from a comment or a document, violated:

* `RunTerminalOverwritten`: a direct cancel and an execution overwrite each
  other's terminal record, since `put` is unconditional (`TerminalIsFinal`).
  `SingleVerdict` states what remains true.
* `RunEventLost`: the record that overwrites has as many transitions as the one
  it replaces, so its last one gets no event (`EventsFollowStore`).
* `RunStranded`: a backend error leaves a run `running` (`NoStrandedRunning`).
* `WorkflowCancelMissed`: `cancel_workflow` cancels a registered run before it is
  claimed, through a copy that the execution then overwrites
  (`CancelReachesRuns`).  A step that failed closes the same gap for its
  siblings, since the scheduler then signals twice (`FailFastReachesSiblings`).
* `WorkflowAttemptLeftOpen`: recovery of a cancelled workflow leaves its attempts
  shown as queued or running (`RecoveryClosesAttempts`).
* `PublicationAfterCancel`: the in-memory fences publish after a cancellation
  (`ClosedAfterCancel`).

## The proofs

The theorems hold for all sets of runs, threads, steps, outputs and callers and
for all limits; they assume only the named `ASSUME`s of each module.

`RunExecutionProofs`.  That a run is launched once is not inductive.  The
invariant adds: a thread inside `execute_run` has its run on the map, and no two
threads are inside the same run's claim (`ClaimInv`); nothing was launched before
the launching thread's launch, and from its first put on the stored record is
never `queued` again, whatever a stale copy overwrites (`LaunchInv`); during an
execution the stored record has no outcome and is queued, running or directly
cancelled (`VerdictInv`); every copy and every stored record has a legal history,
and a copy has the state its thread's position implies (`CopyInv`).  One lemma
per action preserves each part; `LaunchAtMostOnce`, `HistoryIsLegal`,
`TypeCorrect` and the action property `VerdictIsSingle` follow.

`PublicationFenceProofs`.  Every issued token is at most as recent as its row, a
row that was ever advanced was issued (`IssuedInv`), and what the current token
has committed is what the row shows (`CommitInv`).  Hence an advance is newer
than all tokens of its step, and a publication that finds the row empty is its
token's first.  The invariants hold for both repositories, the in-memory one
included, which only `PublicationAfterCancel` runs in TLC.  `FencesImplementAuthority` proves, for the durable repository,
that every transaction is a step of `AuthoritativeOutput` or a stutter.

`LocalCapacityProofs`.  `active` counts the holders, every child that may run is
a holder's, and a holder that is not in a call means quarantine.  So the
children never exceed the limit and the counter never underflows.

Only model-checked: liveness; the workflow properties; the deliberately violated
properties.

## Not modelled, and why

Data that no property tells apart is left out: specifications, artifacts'
contents, digests, timestamps, log texts, event numbering.  A poisoned mutex is
not modelled: it needs a panic inside a critical section.  A fork with retries
and a concurrent `cancel_workflow` is beyond the time a run should take.
Authentication, HTTP rendering, the command line, the read-only MCP server,
validators of documents and the adapter scripts have no shared state.

## Plan

1. Remote execution: the worker's lease book with repeated creates, cancellation,
   heartbeat, result commit and drain; the remote executor's submit, poll and give
   up over a channel that loses and repeats calls; their composition; the pool's
   placement and in-flight counters.  Properties: one process per attempt, a lease
   verdict is final, a drained worker goes quiet, counters return to zero.
2. Tasks and sandboxes: append-only task snapshots under stale writers, sandbox
   reservation, ownership and confirmed absence across crashes, the gVisor backend
   that drives them.
3. Process supervision: termination and reaping of the group, capture limits, as
   the implementation of what `LocalCapacity` assumes.
4. Algorithms: cycle rejection and topological order of `dag.rs` against reference
   definitions; event sequences and paging.
5. Proofs: kept cancellation intent and lifecycle of `Workflow`; lease finality;
   append-only snapshots; reservation exclusivity.
