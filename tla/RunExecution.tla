---------------------------- MODULE RunExecution ----------------------------
(***************************************************************************)
(* Runs in the orchestrator: submit_run, execute_run and cancel_run called *)
(* by concurrent request threads, over a durable runs table whose put is   *)
(* an unconditional upsert.                                                *)
(*                                                                         *)
(* A step is what the code does atomically: one critical section of the    *)
(* active_cancels mutex, one store transaction, or one executor call's     *)
(* start or return.  Each thread works on its own copy of the record       *)
(* between a get and a put, so every interleaving of those copies is       *)
(* explored.                                                               *)
(***************************************************************************)
EXTENDS RunStates, FiniteSets

CONSTANTS
  Runs,        \* run ids
  Executors,   \* threads inside execute_run
  Cancellers,  \* threads inside cancel_run
  NoRun,       \* the target of a thread that is not in a call
  Faults,      \* the kinds of error the environment injects
  MaxCrashes   \* how many times the daemon may die and restart

(* "prepare": an error before the running record is stored; "backend": the
   executor cannot confirm how the process ended; "persist": storing streams,
   outputs or a terminal record fails; "cancel": cancel_run's store fails. *)
FaultKinds == {"prepare", "backend", "persist", "cancel"}

ASSUME RunExecutionAssumption ==
  /\ Executors \cap Cancellers = {}
  /\ NoRun \notin Runs
  /\ Faults \subseteq FaultKinds
  /\ MaxCrashes \in Nat

VARIABLES
  runs,     \* the runs table: one record per run
  events,   \* the lifecycle events of each run, oldest first
  active,   \* active_cancels: "vacant", or the state of the run's CancelToken
  pc,       \* where each thread is
  tgt,      \* the run each thread works on
  rec,      \* each thread's local copy of the record
  report,   \* what the executor reported to each executor thread
  started,  \* how many times an executor call was made for each run
  crashes   \* restarts so far

vars == <<runs, events, active, pc, tgt, rec, report, started, crashes>>

Threads == Executors \cup Cancellers

(* execute_run is inside its exclusive claim at every pc but "idle". *)
ExecutorPc == {"idle", "load", "start", "launch", "executing", "persist", "release"}
CancellerPc == {"idle", "cancel_load", "cancel_put"}

TypeOK ==
  /\ runs \in [Runs -> Record]
  /\ events \in [Runs -> Seq(RunState)]
  /\ active \in [Runs -> {"vacant", "live", "cancelled"}]
  /\ pc \in [Threads -> ExecutorPc \cup CancellerPc]
  /\ \A e \in Executors : pc[e] \in ExecutorPc
  /\ \A c \in Cancellers : pc[c] \in CancellerPc
  /\ tgt \in [Threads -> Runs \cup {NoRun}]
  /\ \A t \in Threads : pc[t] # "idle" => tgt[t] \in Runs
  /\ rec \in [Threads -> Record]
  /\ report \in [Executors -> Report]
  /\ started \in [Runs -> Nat]
  /\ crashes \in 0 .. MaxCrashes

Init ==
  /\ runs = [r \in Runs |-> NoRecord]
  /\ events = [r \in Runs |-> <<>>]
  /\ active = [r \in Runs |-> "vacant"]
  /\ pc = [t \in Threads |-> "idle"]
  /\ tgt = [t \in Threads |-> NoRun]
  /\ rec = [t \in Threads |-> NoRecord]
  /\ report = [e \in Executors |-> "clean"]
  /\ started = [r \in Runs |-> 0]
  /\ crashes = 0

-----------------------------------------------------------------------------
(* Helpers. *)

(* RunRepository::put: upsert the record and append its derived events in
   one transaction. *)
Put(r, record) ==
  /\ runs' = [runs EXCEPT ![r] = record]
  /\ events' = [events EXCEPT ![r] = @ \o DeriveRunEvents(runs[r], record)]

Goto(t, from, to) ==
  /\ pc[t] = from
  /\ pc' = [pc EXCEPT ![t] = to]

(* The thread's call returns: its locals are gone. *)
Return(t) ==
  /\ pc' = [pc EXCEPT ![t] = "idle"]
  /\ tgt' = [tgt EXCEPT ![t] = NoRun]
  /\ rec' = [rec EXCEPT ![t] = NoRecord]

Store == <<runs, events>>

-----------------------------------------------------------------------------
(* submit_run: after validation the record is stored queued. *)
SubmitRun(r) ==
  /\ runs[r].state = "absent"
  /\ Put(r, QueuedRecord)
  /\ UNCHANGED <<active, pc, tgt, rec, report, started, crashes>>

-----------------------------------------------------------------------------
(* execute_run. *)

(* The claim under the active_cancels lock.  An occupied entry is an error
   return that changes nothing.  A caller has the id from submit_run. *)
ClaimRun(e, r) ==
  /\ runs[r].state # "absent"
  /\ active[r] = "vacant"
  /\ Goto(e, "idle", "load")
  /\ tgt' = [tgt EXCEPT ![e] = r]
  /\ active' = [active EXCEPT ![r] = "live"]
  /\ UNCHANGED <<Store, rec, report, started, crashes>>

(* Mutant: LoadRun without the queued check. *)
LoadAny(e) ==
  /\ Goto(e, "load", "start")
  /\ rec' = [rec EXCEPT ![e] = runs[tgt[e]]]
  /\ UNCHANGED <<Store, active, tgt, report, started, crashes>>

(* Reading the record: only a queued run goes on. *)
LoadRun(e) ==
  LET stored == runs[tgt[e]] IN
  /\ pc[e] = "load"
  /\ IF stored.state = "queued"
     THEN /\ Goto(e, "load", "start")
          /\ rec' = [rec EXCEPT ![e] = stored]
     ELSE /\ Goto(e, "load", "release")
          /\ UNCHANGED rec
  /\ UNCHANGED <<Store, active, tgt, report, started, crashes>>

(* The manifest, an input, the working directory or the put of the running
   record fails: the stored record stays queued. *)
PrepareFails(e) ==
  /\ "prepare" \in Faults
  /\ Goto(e, "start", "release")
  /\ UNCHANGED <<Store, active, tgt, rec, report, started, crashes>>

(* Mutant: MarkRunning that does not store the record. *)
MarkRunningQuietly(e) ==
  LET running == Transition(rec[e], "running") IN
  /\ Goto(e, "start", "launch")
  /\ rec' = [rec EXCEPT ![e] = running]
  /\ UNCHANGED <<Store, active, tgt, report, started, crashes>>

(* The running record is stored before the process is requested. *)
MarkRunning(e) ==
  LET running == Transition(rec[e], "running") IN
  /\ Goto(e, "start", "launch")
  /\ rec' = [rec EXCEPT ![e] = running]
  /\ Put(tgt[e], running)
  /\ UNCHANGED <<active, tgt, report, started, crashes>>

(* The component declares no executable binding: the run is stored failed
   and the call returns an error. *)
BuildRequestFails(e) ==
  LET failed == Transition(rec[e], "failed") IN
  /\ Goto(e, "launch", "release")
  /\ rec' = [rec EXCEPT ![e] = failed]
  /\ Put(tgt[e], failed)
  /\ UNCHANGED <<active, tgt, report, started, crashes>>

(* The put of that failed record fails too: the run stays stored running. *)
BuildRequestUnstored(e) ==
  /\ "persist" \in Faults
  /\ Goto(e, "launch", "release")
  /\ UNCHANGED <<Store, active, tgt, rec, report, started, crashes>>

LaunchProcess(e) ==
  /\ Goto(e, "launch", "executing")
  /\ started' = [started EXCEPT ![tgt[e]] = @ + 1]
  /\ UNCHANGED <<Store, active, tgt, rec, report, crashes>>

(* The executor returns a report; it reports a cancellation only when it saw
   the run's token set. *)
ExecutorReturns(e) ==
  /\ Goto(e, "executing", "persist")
  /\ \E o \in Report :
       /\ o = "cancelled" => active[tgt[e]] = "cancelled"
       /\ report' = [report EXCEPT ![e] = o]
  /\ UNCHANGED <<Store, active, tgt, rec, started, crashes>>

(* ExecutorFailure::Backend leaves execute_run with an error before anything
   is stored. *)
ExecutorFails(e) ==
  /\ "backend" \in Faults
  /\ Goto(e, "executing", "release")
  /\ UNCHANGED <<Store, active, tgt, rec, report, started, crashes>>

(* Storing the captured streams, a declared output or the final record
   fails. *)
PersistFails(e) ==
  /\ "persist" \in Faults
  /\ Goto(e, "persist", "release")
  /\ UNCHANGED <<Store, active, tgt, rec, report, started, crashes>>

(* Declared outputs are looked for after a clean exit only. *)
IngestedOutcome(o) ==
  IF o = "clean" THEN {"clean", "missing_output"} ELSE {o}

(* The outcome and the verdict are stored in one put. *)
Finalize(e) ==
  /\ Goto(e, "persist", "release")
  /\ \E o \in IngestedOutcome(report[e]) :
       LET final == Transition(WithOutcome(rec[e], o), FinalState(o)) IN
       /\ rec' = [rec EXCEPT ![e] = final]
       /\ Put(tgt[e], final)
  /\ UNCHANGED <<active, tgt, report, started, crashes>>

(* Mutant: Release that leaves the claim on the map. *)
ReleaseWithoutRemove(e) ==
  /\ pc[e] = "release"
  /\ Return(e)
  /\ report' = [report EXCEPT ![e] = "clean"]
  /\ UNCHANGED <<Store, active, started, crashes>>

(* Whatever execute_run_inner returned, the claim is removed. *)
Release(e) ==
  /\ pc[e] = "release"
  /\ active' = [active EXCEPT ![tgt[e]] = "vacant"]
  /\ Return(e)
  /\ report' = [report EXCEPT ![e] = "clean"]
  /\ UNCHANGED <<Store, started, crashes>>

-----------------------------------------------------------------------------
(* cancel_run. *)

(* An active execution is signalled through its token, under the lock. *)
SignalCancel(c, r) ==
  /\ pc[c] = "idle"
  /\ active[r] # "vacant"
  /\ active' = [active EXCEPT ![r] = "cancelled"]
  /\ UNCHANGED <<Store, pc, tgt, rec, report, started, crashes>>

(* No active execution: the lock is dropped before the record is read. *)
MissActive(c, r) ==
  /\ runs[r].state # "absent"
  /\ active[r] = "vacant"
  /\ Goto(c, "idle", "cancel_load")
  /\ tgt' = [tgt EXCEPT ![c] = r]
  /\ UNCHANGED <<Store, active, rec, report, started, crashes>>

(* Mutant: CancelLoad without the terminal check. *)
CancelLoadUnchecked(c) ==
  /\ pc[c] = "cancel_load"
  /\ runs[tgt[c]].state # "absent"
  /\ Goto(c, "cancel_load", "cancel_put")
  /\ rec' = [rec EXCEPT ![c] = Transition(runs[tgt[c]], "cancelled")]
  /\ UNCHANGED <<Store, tgt, active, report, started, crashes>>

(* A terminal or unknown run is left alone; any other is cancelled on the
   local copy. *)
CancelLoad(c) ==
  LET stored == runs[tgt[c]] IN
  /\ pc[c] = "cancel_load"
  /\ IF stored.state = "absent" \/ IsTerminal(stored.state)
     THEN Return(c)
     ELSE /\ Goto(c, "cancel_load", "cancel_put")
          /\ rec' = [rec EXCEPT ![c] = Transition(stored, "cancelled")]
          /\ UNCHANGED tgt
  /\ UNCHANGED <<Store, active, report, started, crashes>>

CancelPut(c) ==
  /\ pc[c] = "cancel_put"
  /\ Put(tgt[c], rec[c])
  /\ Return(c)
  /\ UNCHANGED <<active, report, started, crashes>>

(* The store fails under cancel_run: an error return. *)
CancelFails(c) ==
  /\ "cancel" \in Faults
  /\ pc[c] \in {"cancel_load", "cancel_put"}
  /\ Return(c)
  /\ UNCHANGED <<Store, active, report, started, crashes>>

-----------------------------------------------------------------------------
(* The daemon dies and restarts: threads and the in-memory map are gone, the
   tables survive, and start-up recovery looks at workflows only. *)
Restart ==
  /\ crashes < MaxCrashes
  /\ crashes' = crashes + 1
  /\ active' = [r \in Runs |-> "vacant"]
  /\ pc' = [t \in Threads |-> "idle"]
  /\ tgt' = [t \in Threads |-> NoRun]
  /\ rec' = [t \in Threads |-> NoRecord]
  /\ report' = [e \in Executors |-> "clean"]
  /\ UNCHANGED <<Store, started>>

(* The steps of a call that is under way. *)
ExecutorStep(e) ==
  \/ LoadRun(e) \/ PrepareFails(e) \/ MarkRunning(e)
  \/ BuildRequestFails(e) \/ BuildRequestUnstored(e) \/ LaunchProcess(e)
  \/ ExecutorReturns(e) \/ ExecutorFails(e)
  \/ PersistFails(e) \/ Finalize(e) \/ Release(e)

CancellerStep(c) == CancelLoad(c) \/ CancelPut(c) \/ CancelFails(c)

Next ==
  \/ \E r \in Runs : SubmitRun(r)
  \/ \E e \in Executors, r \in Runs : ClaimRun(e, r)
  \/ \E e \in Executors : ExecutorStep(e)
  \/ \E c \in Cancellers, r \in Runs : SignalCancel(c, r) \/ MissActive(c, r)
  \/ \E c \in Cancellers : CancellerStep(c)
  \/ Restart

Spec == Init /\ [][Next]_vars

(* A thread inside a call keeps going; the executor call returns because
   every request carries a wall-clock timeout the executor enforces.  Nobody
   is obliged to make a call. *)
Fairness ==
  /\ \A e \in Executors : WF_vars(ExecutorStep(e))
  /\ \A c \in Cancellers : WF_vars(CancellerStep(c))

FairSpec == Spec /\ Fairness

-----------------------------------------------------------------------------
(* Properties. *)

(* A process is launched at most once for a run, whatever calls of
   execute_run and cancel_run overlap and wherever the daemon crashes: the
   claim and the queued check together keep execute_run from being replayed. *)
AtMostOneLaunch == \A r \in Runs : started[r] <= 1

(* Every stored record, a stale writer's included, retains a path that
   RunState::can_transition_to allows and that ends in its state, so the
   error branch of RunRecord::transition is never taken. *)
LegalHistory == \A r \in Runs : runs[r] # NoRecord => LegalRecord(runs[r])

(* A direct cancel stores no outcome. *)
DirectlyCancelled(record) == record.state = "cancelled" /\ record.outcome = "none"

(* A run gets at most one verdict from execution: a stored terminal record
   gives way only to, or only if it is, the outcome-less record a direct
   cancel_run wrote.  Two executions never disagree about a run. *)
SingleVerdict ==
  [][\A r \in Runs :
       IsTerminal(runs[r].state) /\ runs'[r] # runs[r]
         => DirectlyCancelled(runs[r]) \/ DirectlyCancelled(runs'[r])]_vars

(* A claim on a run is always given back, so a failed call never blocks the
   run for good. *)
ClaimIsReleased ==
  \A r \in Runs : active[r] # "vacant" ~> active[r] = "vacant"

(* "Terminal states transition nowhere": once stored, a terminal state is
   never replaced. *)
TerminalIsFinal ==
  [][\A r \in Runs :
       IsTerminal(runs[r].state) => runs'[r].state = runs[r].state]_vars

(* "Events cover ... run creation/state transitions": the last event of a
   run announces the state its stored record is in. *)
EventsFollowStore ==
  \A r \in Runs :
    events[r] # <<>> => events[r][Len(events[r])] = runs[r].state

(* "Process-level failures become `Failed` records, not error returns", "the
   record can never be stranded in `running`": a run stored running is held
   by the execute_run call that will finish it. *)
NoStrandedRunning ==
  \A r \in Runs :
    runs[r].state = "running" =>
      \E e \in Executors : tgt[e] = r /\ pc[e] \in {"launch", "executing", "persist"}
==============================================================================
