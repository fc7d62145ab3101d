------------------------------ MODULE Workflow ------------------------------
(***************************************************************************)
(* One workflow in the orchestrator: execute_workflow's scheduler, the     *)
(* step threads it spawns, cancel_workflow called by request threads, and  *)
(* daemon restarts with start-up recovery.  It is composed with            *)
(* RunExecution: every attempt is a run, executed and cancelled by that    *)
(* module's actions.                                                       *)
(*                                                                         *)
(* A step is one critical section, one store transaction or one change of  *)
(* a thread's locals.  The scheduler and the step threads share one copy   *)
(* of the workflow record under a mutex and put it whole.                  *)
(***************************************************************************)
EXTENDS WorkflowStates, FiniteSets

CONSTANTS
  Steps,        \* step keys, in key order
  Deps,         \* the dependencies of each step: `after` and the inputs' steps
  Consumes,     \* those of them that the step takes an input from (FromStep)
  Concurrency,  \* max_concurrency
  MaxAttempts,  \* the retry policy's max_attempts, of every step
  RetryOn,      \* the outcomes the retry policy allows a retry on
  ApiThreads,   \* threads inside cancel_workflow
  RunFaults,    \* RunExecution's faults; "cancel" strikes cancel_workflow's
                \* own store calls as well
  Faults,       \* "step": a step thread's store or admission call fails;
                \* "scheduler": one of the scheduler's fails
  MaxCrashes

ASSUME WorkflowAssumption ==
  /\ Steps \subseteq Nat \ {0}
  /\ Deps \in [Steps -> SUBSET Steps]
  /\ Consumes \in [Steps -> SUBSET Steps]
  /\ \A s \in Steps : Consumes[s] \subseteq Deps[s]
  /\ \E rank \in [Steps -> 1 .. Cardinality(Steps)] :
       \A s \in Steps : \A d \in Deps[s] : rank[d] < rank[s]
  /\ Concurrency \in Nat \ {0}
  /\ MaxAttempts \in Nat \ {0}
  /\ RetryOn \subseteq {"unclean", "timed_out", "missing_output"}
  /\ ApiThreads \subseteq Nat
  /\ RunFaults \subseteq {"prepare", "backend", "persist", "cancel"}
  /\ Faults \subseteq {"step", "scheduler"}
  /\ MaxCrashes \in Nat

(* The run of attempt n of step s, and the threads that execute and cancel
   runs on behalf of the workflow. *)
RunOf(s, n) == <<s, n>>
Runs == Steps \X (1 .. MaxAttempts)
NoRun == <<0, 0>>
StepExecutor(s) == <<"execute", s>>
StepCanceller(s) == <<"recheck", s>>
ApiCanceller(k) == <<"api", k>>
Scheduler == <<"scheduler", 0>>
Executors == {StepExecutor(s) : s \in Steps}
Cancellers ==
  {StepCanceller(s) : s \in Steps} \cup {ApiCanceller(k) : k \in ApiThreads} \cup {Scheduler}

VARIABLES
  runs, events, active, pc, tgt, rec, report, started, crashes, \* RunExecution
  wf,          \* the workflows table: the record of this workflow
  fence,       \* workflow_publication_fences: one row per step
  token,       \* active_workflow_cancels: "vacant", or the state of the token
  activeRuns,  \* active_workflow_runs
  shared,      \* shared_record, or the record a recovery works on
  spc,         \* where the scheduler is
  pending, completed, inFlight,   \* the scheduler's sets of steps
  failure, reason,                \* first_failure and cancellation_reason are set
  verdict,     \* the state the scheduler is about to store
  channel,     \* step results on their way to the scheduler
  tpc,         \* where each step thread is
  attempt,     \* attempt_number of each step thread
  issued,      \* the generation of each step thread's publication fence
  finished,    \* what execute_run returned to each step thread
  apc,         \* where each cancel_workflow call is
  copy,        \* each cancel_workflow call's record
  todo,        \* the runs a cancelling thread has still to cancel
  recovery     \* "no", or the recovery pass the starting daemon is in

runVars == <<runs, events, active, pc, tgt, rec, report, started, crashes>>
schedVars == <<spc, pending, completed, inFlight, failure, reason, verdict>>
stepVars == <<tpc, attempt, issued, finished>>
apiVars == <<apc, copy>>
vars == <<runVars, wf, fence, token, activeRuns, shared, schedVars, channel,
          stepVars, apiVars, todo, recovery>>

Run == INSTANCE RunExecution WITH Faults <- RunFaults

NotReturned == [ok |-> FALSE, state |-> "absent", outcome |-> "none"]
CancellingThreads == {ApiCanceller(k) : k \in ApiThreads} \cup {Scheduler}

Init ==
  /\ Run!Init
  /\ wf = NoWorkflow(Steps)
  /\ fence = [s \in Steps |-> NoFence]
  /\ token = "vacant"
  /\ activeRuns = {}
  /\ shared = NoWorkflow(Steps)
  /\ spc = "idle"
  /\ pending = {} /\ completed = {} /\ inFlight = {}
  /\ failure = FALSE /\ reason = FALSE
  /\ verdict = "absent"
  /\ channel = <<>>
  /\ tpc = [s \in Steps |-> "none"]
  /\ attempt = [s \in Steps |-> 0]
  /\ issued = [s \in Steps |-> 0]
  /\ finished = [s \in Steps |-> NotReturned]
  /\ apc = [k \in ApiThreads |-> "idle"]
  /\ copy = [k \in ApiThreads |-> NoWorkflow(Steps)]
  /\ todo = [t \in CancellingThreads |-> {}]
  /\ recovery = "no"

-----------------------------------------------------------------------------
(* Shared pieces. *)

PutWorkflow(record) == wf' = PutKeepsIntent(wf, record)

ThisRun(s) == RunOf(s, attempt[s])

(* workflow_cancel_requested, or the token: what a step thread polls. *)
CancelSeen == token = "cancelled" \/ wf.cancel

(* Mutant: NonterminalAttemptRuns that goes by the attempt's recorded state,
   which still says queued while the run executes. *)
AttemptsRecordedRunning(record) ==
  {r \in Runs : /\ r[2] <= Len(record.attempts[r[1]])
                /\ record.attempts[r[1]][r[2]] = "running"}

(* The runs of recorded attempts that are not terminal. *)
NonterminalAttemptRuns(record) ==
  {r \in Runs : r[2] <= Len(record.attempts[r[1]]) /\ ~IsTerminal(runs[r].state)}

(* cancel_run for one run of the thread's list; the list itself was taken
   under the lock before. *)
CancelNextRun(t) ==
  \E r \in todo[t] :
    /\ pc[t] = "idle"
    /\ todo' = [todo EXCEPT ![t] = @ \ {r}]
    /\ Run!SignalCancel(t, r) \/ Run!MissActive(t, r)
    /\ UNCHANGED <<wf, fence, token, activeRuns, shared, schedVars, channel,
                   stepVars, apiVars, recovery>>

CancelRunStep(t) ==
  /\ Run!CancelLoad(t) \/ Run!CancelPut(t)
  /\ UNCHANGED <<wf, fence, token, activeRuns, shared, schedVars, channel,
                 stepVars, apiVars, todo, recovery>>

Cancelled(t) == todo[t] = {} /\ pc[t] = "idle"

-----------------------------------------------------------------------------
(* submit_workflow, and execute_workflow's scheduler thread. *)

SubmitWorkflow ==
  /\ recovery = "no"
  /\ wf.state = "absent"
  /\ wf' = CreatedWorkflow(Steps)
  /\ UNCHANGED <<runVars, fence, token, activeRuns, shared, schedVars, channel,
                 stepVars, apiVars, todo, recovery>>

(* The claim under the lock; an occupied entry is an error return.  A caller
   has the id from submit_workflow. *)
ClaimWorkflow ==
  /\ recovery = "no"
  /\ wf.state # "absent"
  /\ spc = "idle" /\ token = "vacant"
  /\ token' = "live"
  /\ spc' = "load"
  /\ UNCHANGED <<runVars, wf, fence, activeRuns, shared, pending, completed, inFlight,
                 failure, reason, verdict, channel, stepVars, apiVars, todo, recovery>>

(* Mutant: LoadWorkflow without the state check. *)
LoadAnyWorkflow ==
  /\ spc = "load"
  /\ spc' = "refresh"
  /\ shared' = wf
  /\ UNCHANGED <<runVars, wf, fence, token, activeRuns, pending, completed, inFlight,
                 failure, reason, verdict, channel, stepVars, apiVars, todo, recovery>>

(* Only a created workflow is executed. *)
LoadWorkflow ==
  /\ spc = "load"
  /\ spc' = IF wf.state = "created" THEN "refresh" ELSE "release"
  /\ shared' = wf
  /\ UNCHANGED <<runVars, wf, fence, token, activeRuns, pending, completed, inFlight,
                 failure, reason, verdict, channel, stepVars, apiVars, todo, recovery>>

(* A cancellation that came first ends the execution before it starts. *)
RefreshBeforeStart ==
  LET fresh == Refreshed(shared, wf)
      stop == token = "cancelled" \/ fresh.cancel IN
  /\ spc = "refresh"
  /\ shared' = fresh
  /\ spc' = IF stop THEN "finish" ELSE "start"
  /\ verdict' = IF stop THEN "cancelled" ELSE verdict
  /\ UNCHANGED <<runVars, wf, fence, token, activeRuns, pending, completed, inFlight,
                 failure, reason, channel, stepVars, apiVars, todo, recovery>>

StartWorkflow ==
  /\ spc = "start"
  /\ spc' = "poll"
  /\ shared' = [shared EXCEPT !.state = "running"]
  /\ PutWorkflow(shared')
  /\ pending' = Steps
  /\ UNCHANGED <<runVars, fence, token, activeRuns, completed, inFlight,
                 failure, reason, verdict, channel, stepVars, apiVars, todo, recovery>>

(* The token is cancelled and the active runs are listed for cancellation. *)
StopAndCancel(next) ==
  /\ token' = "cancelled"
  /\ todo' = [todo EXCEPT ![Scheduler] = activeRuns]
  /\ spc' = next

(* The head of the scheduler loop: persisted cancellation intent. *)
PollCancel ==
  LET fresh == Refreshed(shared, wf) IN
  /\ spc = "poll"
  /\ shared' = fresh
  /\ IF fresh.cancel
     THEN reason' = TRUE /\ StopAndCancel("cancel_admit")
     ELSE spc' = "admit" /\ UNCHANGED <<reason, token, todo>>
  /\ UNCHANGED <<runVars, wf, fence, activeRuns, pending, completed, inFlight,
                 failure, verdict, channel, stepVars, apiVars, recovery>>

(* A list of runs has been worked off. *)
SchedulerCancelled ==
  /\ spc \in {"cancel_poll", "cancel_admit", "cancel_await"}
  /\ Cancelled(Scheduler)
  /\ spc' = CASE spc = "cancel_poll"  -> "poll"
              [] spc = "cancel_admit" -> "admit"
              [] spc = "cancel_await" -> "await"
  /\ UNCHANGED <<runVars, wf, fence, token, activeRuns, shared, pending, completed, inFlight,
                 failure, reason, verdict, channel, stepVars, apiVars, todo, recovery>>

Ready == {s \in pending : Deps[s] \subseteq completed}

(* Mutant: MayAdmit without the concurrency limit. *)
MayAdmitUnbounded ==
  /\ ~failure /\ ~reason /\ token # "cancelled"
  /\ Ready # {}

MayAdmit ==
  /\ ~failure /\ ~reason /\ token # "cancelled"
  /\ Cardinality(inFlight) < Concurrency
  /\ Ready # {}

FirstReady == CHOOSE s \in Ready : \A q \in Ready : s <= q

(* One turn of the admission loop: the first ready step in key order, its
   inputs resolved from the authoritative publications of the steps it takes
   them from. *)
AdmitStep ==
  LET s == FirstReady IN
  /\ spc = "admit" /\ MayAdmit
  /\ \A d \in Consumes[s] : fence[d].outputs # NoOutputs
  /\ pending' = pending \ {s}
  /\ inFlight' = inFlight \cup {s}
  /\ tpc' = [tpc EXCEPT ![s] = "submit"]
  /\ attempt' = [attempt EXCEPT ![s] = 1]
  /\ UNCHANGED <<runVars, wf, fence, token, activeRuns, shared, spc, completed,
                 failure, reason, verdict, channel, issued, finished, apiVars, todo, recovery>>

(* An input artifact is unknown, or a publication lacks the named output:
   the first failure, and the runs in flight are cancelled. *)
ResolveFails ==
  /\ spc = "admit" /\ MayAdmit
  /\ failure' = TRUE
  /\ StopAndCancel("cancel_await")
  /\ UNCHANGED <<runVars, wf, fence, activeRuns, shared, pending, completed, inFlight,
                 reason, verdict, channel, stepVars, apiVars, recovery>>

(* The admission loop ends; a stopped workflow signals its runs again before
   it waits. *)
AdmitDone ==
  /\ spc = "admit" /\ ~MayAdmit
  /\ IF failure \/ reason \/ token = "cancelled"
     THEN StopAndCancel("cancel_await")
     ELSE spc' = "await" /\ UNCHANGED <<token, todo>>
  /\ UNCHANGED <<runVars, wf, fence, activeRuns, shared, pending, completed, inFlight,
                 failure, reason, verdict, channel, stepVars, apiVars, recovery>>

(* Mutant: CompletedWith that forgets the step. *)
CompletedForgotten(s, result) == completed

(* A step that succeeded unblocks its dependents. *)
CompletedWith(s, result) ==
  IF result = "succeeded" THEN completed \cup {s} ELSE completed

(* A step result: the first failure, or else the first cancellation, stops
   the workflow and cancels the runs in flight. *)
ReceiveResult ==
  LET s == channel[1][1]
      result == channel[1][2]
      fails == result \in {"failed", "error"} /\ ~failure
      cancels == result = "cancelled" /\ ~failure /\ ~reason IN
  /\ spc = "await" /\ inFlight # {} /\ channel # <<>>
  /\ channel' = Tail(channel)
  /\ inFlight' = inFlight \ {s}
  /\ completed' = CompletedWith(s, result)
  /\ failure' = (failure \/ fails)
  /\ reason' = (reason \/ cancels)
  /\ IF fails \/ cancels
     THEN StopAndCancel("cancel_poll")
     ELSE spc' = "poll" /\ UNCHANGED <<token, todo>>
  /\ UNCHANGED <<runVars, wf, fence, activeRuns, shared, pending, verdict,
                 stepVars, apiVars, recovery>>

(* The loop ends when nothing is in flight and nothing will be admitted. *)
LoopEnds ==
  /\ spc = "await" /\ inFlight = {}
  /\ pending = {} \/ failure \/ reason \/ token = "cancelled"

(* Cancellation before failure before incompleteness before success. *)
Conclude ==
  LET fresh == Refreshed(shared, wf) IN
  /\ LoopEnds
  /\ shared' = fresh
  /\ verdict' = IF fresh.cancel \/ reason THEN "cancelled"
                ELSE IF failure \/ completed # Steps THEN "failed"
                ELSE "succeeded"
  /\ spc' = "finish"
  /\ UNCHANGED <<runVars, wf, fence, token, activeRuns, pending, completed, inFlight,
                 failure, reason, channel, stepVars, apiVars, todo, recovery>>

(* The terminal record is put; an intent persisted since Conclude read the
   store is kept by the put but no longer changes the verdict. *)
FinishWorkflow ==
  /\ spc = "finish"
  /\ PutWorkflow(IF verdict = "cancelled" THEN CancelledCopy(shared)
                 ELSE [shared EXCEPT !.state = verdict])
  /\ spc' = "release"
  /\ UNCHANGED <<runVars, fence, token, activeRuns, shared, pending, completed, inFlight,
                 failure, reason, verdict, channel, stepVars, apiVars, todo, recovery>>

(* A store call before the first thread is spawned fails: the error leaves
   execute_workflow with the record as it was. *)
StartFails ==
  /\ "scheduler" \in Faults
  /\ spc \in {"load", "refresh", "start"}
  /\ spc' = "release"
  /\ UNCHANGED <<runVars, wf, fence, token, activeRuns, shared, pending, completed, inFlight,
                 failure, reason, verdict, channel, stepVars, apiVars, todo, recovery>>

(* A store call of the scheduler loop fails, or a cancel_run it makes: the
   runs left on the list are not cancelled and the scope waits for its
   threads. *)
SchedulerFails ==
  /\ \/ /\ "scheduler" \in Faults
        /\ spc = "poll" \/ (spc = "admit" /\ MayAdmit)
        /\ UNCHANGED runVars
     \/ Run!CancelFails(Scheduler)
  /\ spc' = "join"
  /\ todo' = [todo EXCEPT ![Scheduler] = {}]
  /\ UNCHANGED <<wf, fence, token, activeRuns, shared, pending, completed, inFlight,
                 failure, reason, verdict, channel, stepVars, apiVars, recovery>>

(* A store call on the way to the terminal record fails: the workflow stays
   stored running. *)
FinishFails ==
  /\ "scheduler" \in Faults
  /\ spc = "finish"
  /\ spc' = "release"
  /\ UNCHANGED <<runVars, wf, fence, token, activeRuns, shared, pending, completed, inFlight,
                 failure, reason, verdict, channel, stepVars, apiVars, todo, recovery>>

(* The end of the thread scope, after an error in the loop. *)
JoinSteps ==
  /\ spc = "join"
  /\ \A s \in Steps : tpc[s] = "none"
  /\ spc' = "release"
  /\ UNCHANGED <<runVars, wf, fence, token, activeRuns, shared, pending, completed, inFlight,
                 failure, reason, verdict, channel, stepVars, apiVars, todo, recovery>>

SchedulerGone ==
  /\ spc' = "idle"
  /\ shared' = NoWorkflow(Steps)
  /\ pending' = {} /\ completed' = {} /\ inFlight' = {}
  /\ failure' = FALSE /\ reason' = FALSE /\ verdict' = "absent"
  /\ channel' = <<>>

(* Mutant: ReleaseWorkflow that leaves the token on the map. *)
ReleaseKeepingToken ==
  /\ spc = "release"
  /\ SchedulerGone
  /\ activeRuns' = {}
  /\ UNCHANGED <<runVars, wf, fence, token, stepVars, apiVars, todo, recovery>>

(* Both map entries are removed, whatever execute_workflow_inner returned. *)
ReleaseWorkflow ==
  /\ spc = "release"
  /\ SchedulerGone
  /\ activeRuns' = {}
  /\ token' = "vacant"
  /\ UNCHANGED <<runVars, wf, fence, stepVars, apiVars, todo, recovery>>

SchedulerStep ==
  \/ LoadWorkflow \/ RefreshBeforeStart \/ StartWorkflow \/ PollCancel
  \/ SchedulerCancelled \/ AdmitStep \/ ResolveFails \/ AdmitDone
  \/ ReceiveResult \/ Conclude \/ FinishWorkflow
  \/ StartFails \/ SchedulerFails \/ FinishFails \/ JoinSteps \/ ReleaseWorkflow
  \/ CancelNextRun(Scheduler) \/ CancelRunStep(Scheduler)

-----------------------------------------------------------------------------
(* execute_parallel_step: the thread of step s. *)

StepGoto(s, from, to) ==
  /\ tpc[s] = from
  /\ tpc' = [tpc EXCEPT ![s] = to]

(* The thread's result goes to the scheduler and the thread ends. *)
Send(s, result) ==
  /\ tpc' = [tpc EXCEPT ![s] = "none"]
  /\ attempt' = [attempt EXCEPT ![s] = 0]
  /\ issued' = [issued EXCEPT ![s] = 0]
  /\ finished' = [finished EXCEPT ![s] = NotReturned]
  /\ channel' = Append(channel, <<s, result>>)

SchedSide == <<schedVars, apiVars, todo, recovery>>

(* The run is submitted right after the check: nobody can see it before it is
   recorded. *)
SubmitAttempt(s) ==
  /\ tpc[s] = "submit"
  /\ IF CancelSeen
     THEN Send(s, "cancelled") /\ UNCHANGED runVars
     ELSE /\ StepGoto(s, "submit", "record")
          /\ Run!SubmitRun(ThisRun(s))
          /\ UNCHANGED <<attempt, issued, finished, channel>>
  /\ UNCHANGED <<wf, fence, token, activeRuns, shared, SchedSide>>

(* The shared record gains the attempt and is put under its mutex. *)
RecordNewAttempt(s) ==
  /\ StepGoto(s, "record", "fence")
  /\ shared' = RecordAttempt(shared, s)
  /\ PutWorkflow(shared')
  /\ UNCHANGED <<runVars, fence, token, activeRuns, attempt, issued, finished,
                 channel, SchedSide>>

(* Mutant: AdvanceFence that clears every step's publication. *)
AdvanceClearingOthers(s) ==
  /\ tpc[s] = "fence"
  /\ IF Publishable(wf) /\ IsCurrentAttempt(wf, s, attempt[s])
     THEN /\ StepGoto(s, "fence", "register")
          /\ fence' = [q \in Steps |-> IF q = s THEN AdvancedFence(fence[s], attempt[s])
                                        ELSE [fence[q] EXCEPT !.outputs = NoOutputs]]
          /\ issued' = [issued EXCEPT ![s] = fence'[s].generation]
          /\ UNCHANGED <<attempt, finished, channel>>
     ELSE Send(s, "error") /\ UNCHANGED fence
  /\ UNCHANGED <<runVars, wf, token, activeRuns, shared, SchedSide>>

(* advance_publication_fence; a refusal ends the step with an error and
   leaves the attempt's run queued. *)
AdvanceFence(s) ==
  /\ tpc[s] = "fence"
  /\ IF Publishable(wf) /\ IsCurrentAttempt(wf, s, attempt[s])
     THEN /\ StepGoto(s, "fence", "register")
          /\ fence' = [fence EXCEPT ![s] = AdvancedFence(@, attempt[s])]
          /\ issued' = [issued EXCEPT ![s] = fence'[s].generation]
          /\ UNCHANGED <<attempt, finished, channel>>
     ELSE Send(s, "error") /\ UNCHANGED fence
  /\ UNCHANGED <<runVars, wf, token, activeRuns, shared, SchedSide>>

RegisterRun(s) ==
  /\ StepGoto(s, "register", "recheck")
  /\ activeRuns' = activeRuns \cup {ThisRun(s)}
  /\ UNCHANGED <<runVars, wf, fence, token, shared, attempt, issued, finished,
                 channel, SchedSide>>

(* Mutant: RecheckCancel without the check. *)
NoRecheck(s) ==
  /\ StepGoto(s, "recheck", "execute")
  /\ UNCHANGED <<runVars, wf, fence, token, activeRuns, shared, attempt, issued, finished,
                 channel, SchedSide>>

(* A cancellation that missed the registration is noticed here, before
   anybody can have claimed the run. *)
RecheckCancel(s) ==
  /\ tpc[s] = "recheck"
  /\ IF CancelSeen
     THEN /\ StepGoto(s, "recheck", "cancel")
          /\ Run!MissActive(StepCanceller(s), ThisRun(s))
     ELSE StepGoto(s, "recheck", "execute") /\ UNCHANGED runVars
  /\ UNCHANGED <<wf, fence, token, activeRuns, shared, attempt, issued, finished,
                 channel, SchedSide>>

CancelOwnRun(s) ==
  \/ CancelRunStep(StepCanceller(s))
  \/ /\ StepGoto(s, "cancel", "execute")
     /\ pc[StepCanceller(s)] = "idle"
     /\ UNCHANGED <<runVars, wf, fence, token, activeRuns, shared, attempt, issued, finished,
                    channel, SchedSide>>

ExecuteAttempt(s) ==
  /\ StepGoto(s, "execute", "executing")
  /\ Run!ClaimRun(StepExecutor(s), ThisRun(s))
  /\ UNCHANGED <<wf, fence, token, activeRuns, shared, attempt, issued, finished,
                 channel, SchedSide>>

ExecuteStep(s) ==
  LET e == StepExecutor(s) IN
  /\ \/ Run!LoadRun(e) \/ Run!PrepareFails(e) \/ Run!MarkRunning(e)
     \/ Run!BuildRequestFails(e) \/ Run!BuildRequestUnstored(e) \/ Run!LaunchProcess(e)
     \/ Run!ExecutorReturns(e) \/ Run!ExecutorFails(e)
     \/ Run!PersistFails(e) \/ Run!Finalize(e)
  /\ UNCHANGED <<wf, fence, token, activeRuns, shared, stepVars, channel, SchedSide>>

(* execute_run returns its record, or an error if it stored no outcome, and
   the run is unregistered. *)
ExecuteReturns(s) ==
  LET e == StepExecutor(s)
      ok == rec[e].outcome # "none" IN
  /\ StepGoto(s, "executing", IF ok THEN "finish" ELSE "reread")
  /\ Run!Release(e)
  /\ activeRuns' = activeRuns \ {ThisRun(s)}
  /\ finished' = [finished EXCEPT ![s] =
       [ok |-> ok, state |-> rec[e].state, outcome |-> rec[e].outcome]]
  /\ UNCHANGED <<wf, fence, token, shared, attempt, issued, channel, SchedSide>>

(* After an error the run's stored state is what the attempt will show. *)
RereadRun(s) ==
  /\ StepGoto(s, "reread", "finish")
  /\ finished' = [finished EXCEPT ![s].state = runs[ThisRun(s)].state]
  /\ UNCHANGED <<runVars, wf, fence, token, activeRuns, shared, attempt, issued,
                 channel, SchedSide>>

(* Mutant: FinishRecordedAttempt that retries after an error of execute_run. *)
FinishRetryingErrors(s) ==
  /\ tpc[s] = "finish"
  /\ shared' = FinishAttempt(shared, s, attempt[s], finished[s].state)
  /\ PutWorkflow(shared')
  /\ StepGoto(s, "finish", IF finished[s].ok \/ attempt[s] = MaxAttempts
                           THEN "decide" ELSE "backoff")
  /\ UNCHANGED <<runVars, fence, token, activeRuns, attempt, issued, finished,
                 channel, SchedSide>>

FinishRecordedAttempt(s) ==
  /\ tpc[s] = "finish"
  /\ shared' = FinishAttempt(shared, s, attempt[s], finished[s].state)
  /\ PutWorkflow(shared')
  /\ IF finished[s].ok
     THEN /\ StepGoto(s, "finish", "decide")
          /\ UNCHANGED <<attempt, issued, finished, channel>>
     ELSE Send(s, "error")
  /\ UNCHANGED <<runVars, fence, token, activeRuns, SchedSide>>

(* Mutant: RetryAllowed with one attempt too many. *)
RetryAllowedPastLimit(s) == finished[s].outcome \in RetryOn

(* Cancellation first, then success, then a retry the policy allows. *)
RetryAllowed(s) ==
  attempt[s] < MaxAttempts /\ finished[s].outcome \in RetryOn

DecideStep(s) ==
  LET cancelled == wf.cancel \/ finished[s].state = "cancelled"
      succeeded == ~cancelled /\ finished[s].state = "succeeded"
      retry == ~cancelled /\ ~succeeded /\ RetryAllowed(s) IN
  /\ tpc[s] = "decide"
  /\ CASE cancelled -> Send(s, "cancelled")
       [] succeeded -> /\ StepGoto(s, "decide", "publish")
                       /\ UNCHANGED <<attempt, issued, finished, channel>>
       [] retry     -> /\ StepGoto(s, "decide", "backoff")
                       /\ UNCHANGED <<attempt, issued, finished, channel>>
       [] OTHER     -> Send(s, "failed")
  /\ UNCHANGED <<runVars, wf, fence, token, activeRuns, shared, SchedSide>>

(* publish_authoritative_outputs: the workflow, the attempt and the fence
   are checked in the transaction that publishes. *)
PublishOutputs(s) ==
  /\ tpc[s] = "publish"
  /\ IF /\ Publishable(wf)
        /\ IsCurrentAttempt(wf, s, attempt[s])
        /\ FenceMatches(fence[s], attempt[s], issued[s])
     THEN /\ fence' = [fence EXCEPT ![s].outputs = "published"]
          /\ Send(s, "succeeded")
     ELSE Send(s, "error") /\ UNCHANGED fence
  /\ UNCHANGED <<runVars, wf, token, activeRuns, shared, SchedSide>>

(* wait_retry_backoff, then the next attempt. *)
RetryBackoff(s) ==
  /\ tpc[s] = "backoff"
  /\ IF CancelSeen
     THEN Send(s, "cancelled")
     ELSE /\ StepGoto(s, "backoff", "submit")
          /\ attempt' = [attempt EXCEPT ![s] = @ + 1]
          /\ issued' = [issued EXCEPT ![s] = 0]
          /\ finished' = [finished EXCEPT ![s] = NotReturned]
          /\ UNCHANGED channel
  /\ UNCHANGED <<runVars, wf, fence, token, activeRuns, shared, SchedSide>>

(* A store or admission call before the execution fails, or the cancel_run
   after the recheck.  The shared record was changed before the put that
   failed; a registered run stays registered. *)
AttemptFails(s) ==
  /\ \/ /\ "step" \in Faults
        /\ tpc[s] \in {"submit", "record", "fence", "recheck"}
        /\ UNCHANGED runVars
     \/ Run!CancelFails(StepCanceller(s))
  /\ shared' = IF tpc[s] = "record" THEN RecordAttempt(shared, s) ELSE shared
  /\ Send(s, "error")
  /\ UNCHANGED <<wf, fence, token, activeRuns, SchedSide>>

(* A store call after the execution fails, the put of the finished attempt
   included. *)
ResultFails(s) ==
  /\ "step" \in Faults
  /\ tpc[s] \in {"reread", "finish", "decide", "publish", "backoff"}
  /\ shared' = IF tpc[s] = "finish"
               THEN FinishAttempt(shared, s, attempt[s], finished[s].state)
               ELSE shared
  /\ Send(s, "error")
  /\ UNCHANGED <<runVars, wf, fence, token, activeRuns, SchedSide>>

StepThread(s) ==
  \/ SubmitAttempt(s) \/ RecordNewAttempt(s) \/ AdvanceFence(s)
  \/ RegisterRun(s) \/ RecheckCancel(s) \/ CancelOwnRun(s) \/ ExecuteAttempt(s)
  \/ ExecuteStep(s) \/ ExecuteReturns(s) \/ RereadRun(s) \/ FinishRecordedAttempt(s)
  \/ DecideStep(s) \/ PublishOutputs(s) \/ RetryBackoff(s)
  \/ AttemptFails(s) \/ ResultFails(s)

-----------------------------------------------------------------------------
(* cancel_workflow: request thread k. *)

StepSide == <<schedVars, stepVars, channel, shared, recovery>>

(* Mutant: RequestCancel that keeps the intent in memory. *)
RequestUnpersisted(k) ==
  /\ recovery = "no"
  /\ apc[k] = "idle" /\ wf.state # "absent" /\ ~WorkflowIsTerminal(wf.state)
  /\ copy' = [copy EXCEPT ![k] = RequestedCancel(wf)]
  /\ apc' = [apc EXCEPT ![k] = "lookup"]
  /\ UNCHANGED <<runVars, wf, fence, token, activeRuns, todo, StepSide>>

(* The intent is persisted before anything is signalled. *)
RequestCancel(k) ==
  /\ recovery = "no"
  /\ apc[k] = "idle" /\ wf.state # "absent" /\ ~WorkflowIsTerminal(wf.state)
  /\ wf' = RequestedCancel(wf)
  /\ copy' = [copy EXCEPT ![k] = wf']
  /\ apc' = [apc EXCEPT ![k] = "lookup"]
  /\ UNCHANGED <<runVars, fence, token, activeRuns, todo, StepSide>>

(* The token of a live execution is cancelled. *)
LookupToken(k) ==
  /\ apc[k] = "lookup"
  /\ apc' = [apc EXCEPT ![k] = IF token = "vacant" THEN "list_inactive" ELSE "list"]
  /\ token' = IF token = "vacant" THEN token ELSE "cancelled"
  /\ UNCHANGED <<runVars, wf, fence, activeRuns, copy, todo, StepSide>>

(* The active runs are listed, then cancelled one by one. *)
ListActive(k) ==
  /\ apc[k] \in {"list", "list_inactive"}
  /\ apc' = [apc EXCEPT ![k] = IF @ = "list" THEN "cancel" ELSE "cancel_inactive"]
  /\ todo' = [todo EXCEPT ![ApiCanceller(k)] = activeRuns]
  /\ UNCHANGED <<runVars, wf, fence, token, activeRuns, copy, StepSide>>

(* A live execution finishes the workflow itself.  Otherwise the recorded
   attempts' runs are cancelled next. *)
ListAttempts(k) ==
  /\ apc[k] \in {"cancel", "cancel_inactive"}
  /\ Cancelled(ApiCanceller(k))
  /\ IF apc[k] = "cancel"
     THEN /\ apc' = [apc EXCEPT ![k] = "idle"]
          /\ copy' = [copy EXCEPT ![k] = NoWorkflow(Steps)]
          /\ UNCHANGED todo
     ELSE /\ apc' = [apc EXCEPT ![k] = "cancel_attempts"]
          /\ todo' = [todo EXCEPT ![ApiCanceller(k)] = NonterminalAttemptRuns(copy[k])]
          /\ UNCHANGED copy
  /\ UNCHANGED <<runVars, wf, fence, token, activeRuns, StepSide>>

ReloadWorkflow(k) ==
  /\ apc[k] = "cancel_attempts"
  /\ Cancelled(ApiCanceller(k))
  /\ apc' = [apc EXCEPT ![k] = "put"]
  /\ copy' = [copy EXCEPT ![k] = wf]
  /\ UNCHANGED <<runVars, wf, fence, token, activeRuns, todo, StepSide>>

(* finish_workflow_cancelled on the reloaded copy. *)
PutCancelled(k) ==
  /\ apc[k] = "put"
  /\ PutWorkflow(CancelledCopy(copy[k]))
  /\ apc' = [apc EXCEPT ![k] = "idle"]
  /\ copy' = [copy EXCEPT ![k] = NoWorkflow(Steps)]
  /\ UNCHANGED <<runVars, fence, token, activeRuns, todo, StepSide>>

(* A cancel_run of cancel_workflow fails, or its own store call: an error
   return that keeps what was stored and signalled so far. *)
CancelWorkflowFails(k) ==
  /\ \/ Run!CancelFails(ApiCanceller(k))
     \/ /\ "cancel" \in RunFaults
        /\ apc[k] \in {"cancel_inactive", "cancel_attempts", "put"}
        /\ Cancelled(ApiCanceller(k))
        /\ UNCHANGED runVars
  /\ apc' = [apc EXCEPT ![k] = "idle"]
  /\ copy' = [copy EXCEPT ![k] = NoWorkflow(Steps)]
  /\ todo' = [todo EXCEPT ![ApiCanceller(k)] = {}]
  /\ UNCHANGED <<wf, fence, token, activeRuns, StepSide>>

ApiThread(k) ==
  \/ LookupToken(k) \/ ListActive(k) \/ ListAttempts(k) \/ ReloadWorkflow(k) \/ PutCancelled(k)
  \/ CancelNextRun(ApiCanceller(k)) \/ CancelRunStep(ApiCanceller(k))
  \/ CancelWorkflowFails(k)

-----------------------------------------------------------------------------
(* The daemon restarts and recovers before it serves requests. *)

Restart ==
  /\ Run!Restart
  /\ SchedulerGone
  /\ token' = "vacant"
  /\ activeRuns' = {}
  /\ tpc' = [s \in Steps |-> "none"]
  /\ attempt' = [s \in Steps |-> 0]
  /\ issued' = [s \in Steps |-> 0]
  /\ finished' = [s \in Steps |-> NotReturned]
  /\ apc' = [k \in ApiThreads |-> "idle"]
  /\ copy' = [k \in ApiThreads |-> NoWorkflow(Steps)]
  /\ todo' = [t \in CancellingThreads |-> {}]
  /\ recovery' = "cancellations"
  /\ UNCHANGED <<wf, fence>>

RecoverySide == <<fence, token, activeRuns, schedVars, channel, stepVars, apiVars, todo>>

(* A run's record is put in a new state, nobody else being awake. *)
StoreRun(r, state) ==
  /\ Run!Put(r, Transition(runs[r], state))
  /\ UNCHANGED <<active, pc, tgt, rec, report, started, crashes>>

CancelPending == ~WorkflowIsTerminal(wf.state) /\ wf.cancel

(* recover_workflow_cancellations: the runs first, then the workflow. *)
RecoverCancelledRun ==
  /\ recovery = "cancellations" /\ CancelPending
  /\ \E r \in NonterminalAttemptRuns(wf) : StoreRun(r, "cancelled")
  /\ UNCHANGED <<wf, shared, recovery, RecoverySide>>

RecoverCancellation ==
  /\ recovery = "cancellations"
  /\ CancelPending => NonterminalAttemptRuns(wf) = {}
  /\ wf' = IF CancelPending THEN PutKeepsIntent(wf, CancelledCopy(wf)) ELSE wf
  /\ shared' = wf'
  /\ recovery' = "interruptions"
  /\ UNCHANGED <<runVars, RecoverySide>>

Interrupted == wf.state = "running" /\ ~wf.cancel

(* recover_interrupted_workflows: runs are failed one by one, the record
   that shows them failed is put at the end. *)
RecoverInterruptedRun ==
  /\ recovery = "interruptions" /\ Interrupted
  /\ \E r \in NonterminalAttemptRuns(shared) :
       /\ StoreRun(r, "failed")
       /\ shared' = FinishAttempt(shared, r[1], r[2], "failed")
  /\ UNCHANGED <<wf, recovery, RecoverySide>>

(* Mutant: RecoverInterruption that does nothing. *)
SkipInterruption ==
  /\ recovery = "interruptions"
  /\ shared' = NoWorkflow(Steps)
  /\ recovery' = "no"
  /\ UNCHANGED <<runVars, wf, RecoverySide>>

(* Mutant: RecoverInterruption that leaves the runs alone. *)
RecoverWorkflowOnly ==
  /\ recovery = "interruptions"
  /\ IF Interrupted THEN PutWorkflow([shared EXCEPT !.state = "failed"]) ELSE UNCHANGED wf
  /\ shared' = NoWorkflow(Steps)
  /\ recovery' = "no"
  /\ UNCHANGED <<runVars, RecoverySide>>

RecoverInterruption ==
  /\ recovery = "interruptions"
  /\ Interrupted => NonterminalAttemptRuns(shared) = {}
  /\ IF Interrupted THEN PutWorkflow([shared EXCEPT !.state = "failed"]) ELSE UNCHANGED wf
  /\ shared' = NoWorkflow(Steps)
  /\ recovery' = "no"
  /\ UNCHANGED <<runVars, RecoverySide>>

RecoveryStep ==
  \/ RecoverCancelledRun \/ RecoverCancellation
  \/ RecoverInterruptedRun \/ RecoverInterruption

-----------------------------------------------------------------------------
Next ==
  \/ SubmitWorkflow
  \/ ClaimWorkflow
  \/ SchedulerStep
  \/ \E s \in Steps : StepThread(s)
  \/ \E k \in ApiThreads : RequestCancel(k) \/ ApiThread(k)
  \/ Restart
  \/ RecoveryStep

Spec == Init /\ [][Next]_vars

(* Every thread inside a call keeps going, and so does the starting daemon;
   nobody is obliged to make a call. *)
Fairness ==
  /\ WF_vars(SchedulerStep)
  /\ \A s \in Steps : WF_vars(StepThread(s))
  /\ \A k \in ApiThreads : WF_vars(ApiThread(k))
  /\ WF_vars(RecoveryStep)

FairSpec == Spec /\ Fairness

-----------------------------------------------------------------------------
(* Properties. *)

SchedulerPc == {"idle", "load", "refresh", "start", "poll", "cancel_admit", "admit",
                "cancel_await", "await", "cancel_poll", "finish", "join", "release"}
StepPc == {"none", "submit", "record", "fence", "register", "recheck", "cancel",
           "execute", "executing", "reread", "finish", "decide", "publish", "backoff"}
ApiPc == {"idle", "lookup", "list", "list_inactive", "cancel", "cancel_inactive",
          "cancel_attempts", "put"}

TypeOK ==
  /\ Run!TypeOK
  /\ wf \in WorkflowRecord(Steps) /\ shared \in WorkflowRecord(Steps)
  /\ \A s \in Steps : /\ fence[s].generation \in Nat
                      /\ fence[s].attempt \in 0 .. MaxAttempts
                      /\ fence[s].outputs \in {NoOutputs, "published"}
                      /\ finished[s].outcome \in Outcome \cup {"none"}
  /\ token \in {"vacant", "live", "cancelled"}
  /\ activeRuns \subseteq Runs
  /\ spc \in SchedulerPc
  /\ pending \subseteq Steps /\ completed \subseteq Steps /\ inFlight \subseteq Steps
  /\ failure \in BOOLEAN /\ reason \in BOOLEAN
  /\ verdict \in {"absent", "succeeded", "failed", "cancelled"}
  /\ channel \in Seq(Steps \X {"succeeded", "failed", "cancelled", "error"})
  /\ tpc \in [Steps -> StepPc]
  /\ attempt \in [Steps -> 0 .. MaxAttempts]
  /\ issued \in [Steps -> Nat]
  /\ apc \in [ApiThreads -> ApiPc]
  /\ copy \in [ApiThreads -> WorkflowRecord(Steps)]
  /\ todo \in [CancellingThreads -> SUBSET Runs]
  /\ recovery \in {"no", "cancellations", "interruptions"}

(* The stored workflow moves only along WorkflowState::can_transition_to,
   so it never leaves a terminal state, although the scheduler, its step
   threads, cancel_workflow calls and recovery all put whole copies. *)
FollowsLifecycle ==
  [][wf'.state # wf.state =>
       \/ wf.state = "absent" /\ wf'.state = "created"
       \/ WorkflowCanTransitionTo(wf.state, wf'.state)]_vars

(* Persisted cancellation intent is never cleared by a writer whose copy
   predates it. *)
CancelIntentKept == [][wf.cancel => wf'.cancel]_vars

(* A workflow is recorded succeeded only if every step's last attempt is
   recorded succeeded and holds the step's authoritative publication. *)
SucceededIsComplete ==
  wf.state = "succeeded" =>
    \A s \in Steps :
      LET last == Len(wf.attempts[s]) IN
      /\ last > 0 /\ wf.attempts[s][last] = "succeeded"
      /\ fence[s].outputs = "published" /\ fence[s].attempt = last

(* A run exists for a step only when all the step's dependencies have an
   authoritative publication, and no later advance takes it away. *)
DependenciesPublished ==
  \A r \in Runs : runs[r].state # "absent" =>
    \A d \in Deps[r[1]] : fence[d].outputs = "published"

(* A retry is submitted only after the run of every earlier attempt is
   stored terminal. *)
RetryAfterVerdict ==
  \A r, q \in Runs :
    r[1] = q[1] /\ r[2] < q[2] /\ runs[q].state # "absent" => IsTerminal(runs[r].state)

(* No more executions than max_concurrency are in progress at a time. *)
ConcurrencyBounded ==
  Cardinality({e \in Executors : pc[e] # "idle"}) <= Concurrency

(* The scheduler never waits with nothing in flight and work left: the error
   branch "workflow scheduler stalled" is unreachable. *)
NeverStalls ==
  spc = "await" /\ inFlight = {} =>
    pending = {} \/ failure \/ reason \/ token = "cancelled"

(* Unless the scheduler met a store error, a workflow stored running is being
   executed or recovered. *)
RunningIsAttended == wf.state = "running" => spc # "idle" \/ recovery # "no"

(* The steps whose thread ended without success. *)
EndedWithoutSuccess == Steps \ (pending \cup inFlight \cup completed)

SiblingsSignalled ==
  \A e \in Executors : pc[e] = "executing" => active[tgt[e]] = "cancelled"

(* Once the scheduler waits after a step ended without success, the token of
   every process in flight has been set: the two run lists that
   cancel_active_workflow_runs works off and the recheck after registration
   leave no gap. *)
FailFastReachesSiblings ==
  spc = "await" /\ EndedWithoutSuccess # {} => SiblingsSignalled

(* Every process ever launched for the workflow is one of the attempts its
   stored record lists: the attempt is durable before its run executes, and
   no later put of an older copy drops it. *)
LaunchesAreRecorded ==
  \A r \in Runs : started[r] > 0 => r[2] <= Len(wf.attempts[r[1]])

(* A workflow stored terminal is quiet: no execution of one of its runs is
   under way and no run of it is stored running, although the scheduler,
   cancel_workflow calls without a live token and both recovery passes close
   workflows, and the record they go by shows an attempt as queued while its
   run executes.  Nothing resolves a run of a closed workflow later: start-up
   recovery looks at workflows that are not terminal only. *)
TerminalWorkflowIsQuiet ==
  WorkflowIsTerminal(wf.state) =>
    /\ \A e \in Executors : pc[e] = "idle"
    /\ \A r \in Runs : runs[r].state # "running"

(* An execution of the workflow ends. *)
ExecutionEnds == token # "vacant" ~> token = "vacant"

(* A workflow that was started, or whose cancellation was persisted, becomes
   terminal, restarts included. *)
StartedOrCancelledEnds ==
  (wf.state = "running" \/ wf.cancel) ~> WorkflowIsTerminal(wf.state)

(* A run that was stored running becomes terminal, by its execution or by
   the recovery after a restart. *)
RunningIsResolved ==
  \A r \in Runs : runs[r].state = "running" ~> IsTerminal(runs[r].state)

(* "Active sibling runs are cancelled when a parallel workflow fails fast or
   is cancelled": when the cancel_workflow calls have returned, the token of
   every process in flight has been set. *)
CancelReachesRuns ==
  wf.cancel /\ (\A k \in ApiThreads : apc[k] = "idle") => SiblingsSignalled

(* "Any recorded non-terminal attempt is terminalized before the workflow":
   the record that recovery puts for a cancelled workflow shows no attempt
   that is still queued or running. *)
RecoveryClosesAttempts ==
  [][recovery = "cancellations" /\ wf'.state # wf.state =>
       \A s \in Steps : \A i \in DOMAIN wf'.attempts[s] : IsTerminal(wf'.attempts[s][i])]_vars
==============================================================================
