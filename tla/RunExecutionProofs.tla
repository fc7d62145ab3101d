------------------------- MODULE RunExecutionProofs -------------------------
(***************************************************************************)
(* Proofs about RunExecution, for every set of runs and threads, every     *)
(* choice of faults and every number of restarts.                          *)
(***************************************************************************)
EXTENDS RunExecution, Integers, TLAPS

(* The leaves that need arithmetic, records or sequences name SMT. *)
USE ZenonT(30)

-----------------------------------------------------------------------------
(* Facts about records. *)

(* Everything past a position of a sequence is a sequence over the same set,
   the position lying past the end included: what DeriveRunEvents appends
   when a stale, shorter history replaces a longer one. *)
LEMMA SuffixType ==
  ASSUME NEW S, NEW s \in Seq(S), NEW m \in Nat
  PROVE  SubSeq(s, m + 1, Len(s)) \in Seq(S)
<1>1. /\ m + 1 \in Int /\ Len(s) \in Int
      /\ \A i \in m + 1 .. Len(s) : s[i] \in S
  BY SMTT(30)
<1>2. QED
  BY ONLY <1>1

(* The events of a put are run states. *)
LEMMA DeriveRunEventsType ==
  ASSUME NEW previous \in Record, NEW current \in Record
  PROVE  DeriveRunEvents(previous, current) \in Seq(RunState)
<1>1. /\ previous.transitions \in Seq(RunState)
      /\ current.transitions \in Seq(RunState)
      /\ Len(previous.transitions) \in Nat
  BY SMTT(30) DEF Record
<1>2. SubSeq(current.transitions, Len(previous.transitions) + 1,
             Len(current.transitions)) \in Seq(RunState)
  BY <1>1, SuffixType
<1>3. <<"created">> \in Seq(RunState) /\ <<>> \in Seq(RunState)
  BY SMTT(30) DEF RunState
<1>4. \A s, t \in Seq(RunState) : s \o t \in Seq(RunState)
  BY SMTT(30)
<1>5. QED
  BY <1>2, <1>3, <1>4 DEF DeriveRunEvents

(* RunRecord::transition keeps the record's type and records its argument. *)
LEMMA TransitionType ==
  ASSUME NEW record \in Record, NEW to \in RunState
  PROVE  /\ Transition(record, to) \in Record
         /\ Transition(record, to).state = to
         /\ Transition(record, to).outcome = record.outcome
         /\ Transition(record, to).transitions = Append(record.transitions, to)
<1>1. Append(record.transitions, to) \in Seq(RunState)
  BY SMTT(30) DEF Record
<1>2. /\ Transition(record, to).state = to
      /\ Transition(record, to).transitions = Append(record.transitions, to)
      /\ Transition(record, to).outcome = record.outcome
  BY DEF Transition, Record
<1>3. Transition(record, to) \in Record
  BY <1>1 DEF Transition, Record
<1>4. QED
  BY <1>2, <1>3

(* RunRecord::transition extends a legal path by an edge the guard allows. *)
LEMMA TransitionLegal ==
  ASSUME NEW record \in Record, NEW to \in RunState,
         LegalRecord(record), CanTransitionTo(record.state, to)
  PROVE  LegalRecord(Transition(record, to))
<1> DEFINE ts == record.transitions
           path == <<"created">> \o ts
           longer == <<"created">> \o Append(ts, to)
<1>1. /\ ts \in Seq(RunState)
      /\ path \in Seq(RunState)
      /\ longer \in Seq(RunState)
      /\ Len(path) = Len(ts) + 1
      /\ Len(longer) = Len(ts) + 2
      /\ Len(ts) \in Nat
  BY SMTT(30) DEF Record, RunState
<1>2. \A i \in 1 .. Len(path) : longer[i] = path[i]
  BY <1>1, SMTT(30)
<1>3. longer[Len(longer)] = to
  BY <1>1, SMTT(30)
<1>4. /\ record.state = path[Len(path)]
      /\ \A i \in 1 .. Len(path) - 1 : CanTransitionTo(path[i], path[i + 1])
  BY DEF LegalRecord
<1>5. ASSUME NEW i \in 1 .. Len(longer) - 1
      PROVE  CanTransitionTo(longer[i], longer[i + 1])
  <2> HIDE DEF path, longer
  <2>1. CASE i = Len(path)
    <3>1. longer[i] = record.state /\ longer[i + 1] = to
      BY <1>1, <1>2, <1>3, <1>4, <2>1, SMTT(30)
    <3> QED
      BY <3>1
  <2>2. CASE i < Len(path)
    <3>1. /\ i \in 1 .. Len(path) - 1
          /\ i \in 1 .. Len(path)
          /\ i + 1 \in 1 .. Len(path)
      BY <1>1, <2>2, SMTT(30)
    <3>2. longer[i] = path[i] /\ longer[i + 1] = path[i + 1]
      BY <1>2, <3>1
    <3> QED
      BY <3>1, <3>2, <1>4
  <2>3. QED
    BY <1>1, <2>1, <2>2, SMTT(30)
<1>6. QED
  BY <1>3, <1>5, TransitionType DEF LegalRecord

(* An outcome does not touch the lifecycle of the record. *)
LEMMA WithOutcomeKeeps ==
  ASSUME NEW record \in Record, NEW o \in Outcome
  PROVE  /\ WithOutcome(record, o) \in Record
         /\ WithOutcome(record, o).state = record.state
         /\ WithOutcome(record, o).outcome = o
         /\ LegalRecord(record) => LegalRecord(WithOutcome(record, o))
BY DEF WithOutcome, Record, LegalRecord

(* The record submit_run stores. *)
LEMMA QueuedRecordFacts ==
  /\ QueuedRecord \in Record
  /\ QueuedRecord.state = "queued"
  /\ QueuedRecord.outcome = "none"
  /\ LegalRecord(QueuedRecord)
<1> DEFINE validated == Transition(CreatedRecord, "validated")
<1>1. CreatedRecord \in Record /\ CreatedRecord.state = "created"
      /\ CreatedRecord.outcome = "none"
  BY SMTT(30) DEF CreatedRecord, Record, RunState
<1>2. LegalRecord(CreatedRecord)
  BY SMTT(30) DEF LegalRecord, CreatedRecord
<1>3. "validated" \in RunState /\ "queued" \in RunState
  BY DEF RunState
<1>4. /\ CanTransitionTo("created", "validated")
      /\ CanTransitionTo("validated", "queued")
  BY DEF CanTransitionTo
<1>5. validated \in Record /\ validated.state = "validated" /\ validated.outcome = "none"
  BY <1>1, <1>3, TransitionType
<1>6. LegalRecord(validated)
  BY <1>1, <1>2, <1>3, <1>4, TransitionLegal
<1> HIDE DEF validated
<1>7. LegalRecord(Transition(validated, "queued"))
  BY <1>3, <1>4, <1>5, <1>6, TransitionLegal
<1>8. QED
  BY <1>3, <1>5, <1>7, TransitionType DEF QueuedRecord, validated

-----------------------------------------------------------------------------
(* The inductive invariant. *)

(* An execute_run call under way holds its run's entry, alone. *)
ClaimInv ==
  /\ \A e \in Executors : pc[e] # "idle" => active[tgt[e]] # "vacant"
  /\ \A e, f \in Executors :
       pc[e] # "idle" /\ pc[f] # "idle" /\ tgt[e] = tgt[f] => e = f

(* Before the launch nothing was launched; from the running put on, the
   stored record is past queued for good, so the run is never loaded again. *)
LaunchInv ==
  /\ \A r \in Runs : started[r] <= 1
  /\ \A r \in Runs : started[r] # 0 => runs[r].state \notin {"absent", "queued"}
  /\ \A e \in Executors : pc[e] \in {"start", "launch"} => started[tgt[e]] = 0
  /\ \A e \in Executors :
       pc[e] \in {"launch", "executing", "persist"} => runs[tgt[e]].state # "queued"

(* While an execution is in progress the stored record is its own or the one
   a direct cancel left. *)
VerdictInv ==
  /\ \A e \in Executors :
       pc[e] \in {"start", "launch", "executing", "persist"} =>
         /\ runs[tgt[e]].state \in {"queued", "running", "cancelled"}
         /\ runs[tgt[e]].outcome = "none"
  /\ \A c \in Cancellers : pc[c] = "cancel_put" => DirectlyCancelled(rec[c])
  /\ \A r \in Runs : ~IsTerminal(runs[r].state) => runs[r].outcome = "none"

(* What the local copies hold. *)
CopyInv ==
  /\ \A e \in Executors :
       /\ pc[e] = "start" => rec[e].state = "queued"
       /\ pc[e] \in {"launch", "executing", "persist"} => rec[e].state = "running"
       /\ pc[e] \in {"start", "launch", "executing", "persist"} =>
            rec[e].outcome = "none" /\ LegalRecord(rec[e])
  /\ \A c \in Cancellers : pc[c] = "cancel_put" => LegalRecord(rec[c])
  /\ \A r \in Runs : runs[r] = NoRecord \/ LegalRecord(runs[r])

IInv == TypeOK /\ ClaimInv /\ LaunchInv /\ VerdictInv /\ CopyInv

-----------------------------------------------------------------------------
(* Facts the steps share. *)

(* The empty store of a fresh daemon satisfies the inductive invariant. *)
LEMMA InitInv == Init => IInv
<1> SUFFICES ASSUME Init PROVE IInv
  OBVIOUS
<1> USE RunExecutionAssumption DEF Init, Threads
<1>1. NoRecord \in Record /\ NoRecord.state = "absent" /\ NoRecord.outcome = "none"
  BY SMTT(30) DEF NoRecord, Record, RunState
<1>2. TypeOK
  BY <1>1, SMTT(30) DEF TypeOK, ExecutorPc, CancellerPc, Report
<1>3. ClaimInv /\ LaunchInv
  BY <1>1, SMTT(30) DEF ClaimInv, LaunchInv
<1>4. VerdictInv /\ CopyInv
  BY <1>1 DEF VerdictInv, CopyInv
<1>5. QED
  BY <1>2, <1>3, <1>4 DEF IInv

(* The edges the two calls take. *)
LEMMA EdgesTaken ==
  /\ CanTransitionTo("queued", "running")
  /\ CanTransitionTo("running", "failed")
  /\ \A o \in Outcome : CanTransitionTo("running", FinalState(o))
  /\ \A s \in RunState : ~IsTerminal(s) => CanTransitionTo(s, "cancelled")
BY DEF CanTransitionTo, FinalState, Outcome, Report, RunState, IsTerminal

(* What a put does to the two tables. *)
LEMMA PutFacts ==
  ASSUME TypeOK, NEW r \in Runs, NEW record \in Record, Put(r, record)
  PROVE  /\ runs' \in [Runs -> Record]
         /\ events' \in [Runs -> Seq(RunState)]
         /\ runs'[r] = record
         /\ \A q \in Runs : q # r => runs'[q] = runs[q]
<1>1. runs[r] \in Record /\ events[r] \in Seq(RunState)
  BY DEF TypeOK
<1>2. DeriveRunEvents(runs[r], record) \in Seq(RunState)
  BY <1>1, DeriveRunEventsType
<1>3. events[r] \o DeriveRunEvents(runs[r], record) \in Seq(RunState)
  BY <1>1, <1>2, SMTT(30)
<1>4. QED
  BY <1>3 DEF TypeOK, Put

(* A record that is stored was queued once, so it is legal. *)
LEMMA StoredIsLegal ==
  ASSUME IInv, NEW r \in Runs, runs[r].state # "absent"
  PROVE  runs[r] \in Record /\ runs[r].state \in RunState /\ LegalRecord(runs[r])
BY SMTT(30) DEF IInv, TypeOK, CopyInv, Record, NoRecord

-----------------------------------------------------------------------------
(* One lemma per kind of step: each preserves the invariant. *)

(* submit_run_internal stores a queued record that nobody has claimed yet. *)
LEMMA SubmitRunInv ==
  ASSUME IInv, NEW r \in Runs, SubmitRun(r)
  PROVE  IInv'
<1> USE DEF Threads
<1>1. /\ runs' \in [Runs -> Record] /\ events' \in [Runs -> Seq(RunState)]
      /\ runs'[r] = QueuedRecord
      /\ \A q \in Runs : q # r => runs'[q] = runs[q]
  BY PutFacts, QueuedRecordFacts DEF IInv, SubmitRun
<1>2. runs[r].state = "absent" /\ UNCHANGED <<active, pc, tgt, rec, report, started, crashes>>
  BY DEF SubmitRun
<1>3. TypeOK'
  BY <1>1, <1>2 DEF IInv, TypeOK
<1>4. ClaimInv'
  BY <1>2 DEF IInv, ClaimInv
<1>5. \A e \in Executors :
        pc[e] \in {"start", "launch", "executing", "persist"} => tgt[e] # r
  BY <1>2 DEF IInv, VerdictInv
<1>6. \A e \in Executors : pc[e] # "idle" => tgt[e] \in Runs
  BY DEF IInv, TypeOK
<1>7. LaunchInv'
  BY <1>1, <1>2, <1>5, <1>6 DEF IInv, LaunchInv
<1>8. VerdictInv'
  BY <1>1, <1>2, <1>5, <1>6, QueuedRecordFacts DEF IInv, VerdictInv, DirectlyCancelled
<1>9. CopyInv'
  BY <1>1, <1>2, QueuedRecordFacts DEF IInv, CopyInv
<1>10. QED
  BY <1>3, <1>4, <1>7, <1>8, <1>9 DEF IInv

(* execute_run's claim excludes every other executor of the same run. *)
LEMMA ClaimRunInv ==
  ASSUME IInv, NEW e \in Executors, NEW r \in Runs, ClaimRun(e, r)
  PROVE  IInv'
<1> USE RunExecutionAssumption DEF Threads, IInv, ClaimRun, Goto, Store
<1>1. TypeOK'
  BY DEF TypeOK, ExecutorPc
<1>2. ClaimInv'
  BY DEF TypeOK, ClaimInv
<1>3. LaunchInv'
  BY DEF TypeOK, LaunchInv
<1>4. VerdictInv'
  BY DEF TypeOK, VerdictInv
<1>5. CopyInv'
  BY DEF TypeOK, CopyInv
<1>6. QED
  BY <1>1, <1>2, <1>3, <1>4, <1>5

(* execute_run_inner's copy of a queued record is legal and unlaunched. *)
LEMMA LoadRunInv ==
  ASSUME IInv, NEW e \in Executors, LoadRun(e)
  PROVE  IInv'
<1> USE RunExecutionAssumption DEF Threads, IInv, LoadRun, Goto, Store
<1>0. tgt[e] \in Runs /\ runs[tgt[e]] \in Record
  BY DEF TypeOK
<1>1. TypeOK'
  BY <1>0 DEF TypeOK, ExecutorPc
<1>2. ClaimInv'
  BY DEF TypeOK, ClaimInv
<1>3. LaunchInv'
  BY <1>0 DEF TypeOK, LaunchInv
<1>4. VerdictInv'
  BY <1>0 DEF TypeOK, VerdictInv, IsTerminal
<1>5. CopyInv'
  <2>1. runs[tgt[e]].state = "queued" =>
          runs[tgt[e]].outcome = "none" /\ LegalRecord(runs[tgt[e]])
    BY <1>0, StoredIsLegal DEF VerdictInv, IsTerminal
  <2>2. QED
    BY <1>0, <2>1, SMTT(30) DEF TypeOK, CopyInv
<1>6. QED
  BY <1>1, <1>2, <1>3, <1>4, <1>5

(* The steps of execute_run that touch neither table, claim nor copy. *)
QuietStep(e) ==
  \/ PrepareFails(e) \/ LaunchProcess(e) \/ ExecutorReturns(e)
  \/ BuildRequestUnstored(e) \/ ExecutorFails(e) \/ PersistFails(e)

(* The steps of execute_run that write no record keep every copy as it was. *)
LEMMA QuietStepInv ==
  ASSUME IInv, NEW e \in Executors, QuietStep(e)
  PROVE  IInv'
<1> USE RunExecutionAssumption DEF Threads, IInv, Goto, Store
<1>0. tgt[e] \in Runs
  BY DEF TypeOK, QuietStep, PrepareFails, LaunchProcess, ExecutorReturns,
         BuildRequestUnstored, ExecutorFails, PersistFails
<1>1. UNCHANGED <<runs, events, active, tgt, rec, crashes>>
  BY DEF QuietStep, PrepareFails, LaunchProcess, ExecutorReturns,
         BuildRequestUnstored, ExecutorFails, PersistFails
<1>2. \/ /\ pc[e] = "launch" /\ pc' = [pc EXCEPT ![e] = "executing"]
         /\ started' = [started EXCEPT ![tgt[e]] = @ + 1]
      \/ /\ pc[e] \in {"start", "launch", "executing", "persist"}
         /\ pc' = [pc EXCEPT ![e] = "release"]
         /\ started' = started
      \/ /\ pc[e] = "executing" /\ pc' = [pc EXCEPT ![e] = "persist"]
         /\ started' = started
  BY DEF QuietStep, PrepareFails, LaunchProcess, ExecutorReturns,
         BuildRequestUnstored, ExecutorFails, PersistFails
<1>3. report' \in [Executors -> Report]
  BY DEF TypeOK, QuietStep, PrepareFails, LaunchProcess, ExecutorReturns,
         BuildRequestUnstored, ExecutorFails, PersistFails
<1>4. TypeOK'
  <2>1. started' \in [Runs -> Nat]
    BY <1>0, <1>2, SMTT(30) DEF TypeOK
  <2>2. /\ pc' \in [Threads -> ExecutorPc \cup CancellerPc]
        /\ \A f \in Executors : pc'[f] \in ExecutorPc
        /\ \A c \in Cancellers : pc'[c] \in CancellerPc
        /\ \A t \in Threads : pc'[t] # "idle" => tgt[t] \in Runs
    BY <1>0, <1>2 DEF TypeOK, ExecutorPc
  <2>3. QED
    BY <1>1, <1>3, <2>1, <2>2 DEF TypeOK
<1>5. ClaimInv'
  BY <1>1, <1>2 DEF TypeOK, ClaimInv
<1>6. LaunchInv'
  <2>1. CASE /\ pc[e] = "launch" /\ pc' = [pc EXCEPT ![e] = "executing"]
             /\ started' = [started EXCEPT ![tgt[e]] = @ + 1]
    <3>0. started[tgt[e]] = 0
      BY <2>1 DEF LaunchInv
    <3>1. pc' = [pc EXCEPT ![e] = "executing"] /\ started[tgt[e]] = 0
          /\ started' = [started EXCEPT ![tgt[e]] = 1]
      BY <2>1, <3>0, SMTT(30)
    <3>2. \A f \in Executors : f # e /\ pc[f] # "idle" => tgt[f] # tgt[e]
      BY <2>1 DEF ClaimInv
    <3>3. runs[tgt[e]].state \notin {"absent", "queued"}
      BY <2>1 DEF LaunchInv, VerdictInv
    <3>4. QED
      BY <1>0, <1>1, <2>1, <3>1, <3>2, <3>3, SMTT(30) DEF TypeOK, LaunchInv
  <2>2. CASE /\ \/ pc' = [pc EXCEPT ![e] = "release"]
                \/ pc[e] = "executing" /\ pc' = [pc EXCEPT ![e] = "persist"]
             /\ started' = started
    BY <1>1, <2>2 DEF TypeOK, LaunchInv
  <2>3. QED
    BY <1>2, <2>1, <2>2
<1>7. VerdictInv'
  BY <1>1, <1>2 DEF TypeOK, VerdictInv
<1>8. CopyInv'
  BY <1>1, <1>2 DEF TypeOK, CopyInv
<1>9. QED
  BY <1>4, <1>5, <1>6, <1>7, <1>8

(* Storing the running record is what forbids a second launch. *)
LEMMA MarkRunningInv ==
  ASSUME IInv, NEW e \in Executors, MarkRunning(e)
  PROVE  IInv'
<1> USE RunExecutionAssumption DEF Threads, IInv
<1> DEFINE r == tgt[e]
           running == Transition(rec[e], "running")
<1>1. pc[e] = "start" /\ pc' = [pc EXCEPT ![e] = "launch"]
      /\ rec' = [rec EXCEPT ![e] = running]
      /\ UNCHANGED <<active, tgt, report, started, crashes>>
  BY DEF MarkRunning, Goto
<1>2. r \in Runs /\ rec[e] \in Record /\ rec[e].state = "queued"
      /\ rec[e].outcome = "none" /\ LegalRecord(rec[e])
  BY <1>1 DEF TypeOK, CopyInv
<1>3. running \in Record /\ running.state = "running" /\ running.outcome = "none"
      /\ LegalRecord(running)
  BY <1>2, EdgesTaken, TransitionType, TransitionLegal DEF RunState
<1>4. Put(r, running)
  BY DEF MarkRunning
<1> HIDE DEF running
<1>5. /\ runs' \in [Runs -> Record] /\ events' \in [Runs -> Seq(RunState)]
      /\ runs'[r] = running
      /\ \A q \in Runs : q # r => runs'[q] = runs[q]
  BY <1>2, <1>3, <1>4, PutFacts
<1>6. \A f \in Executors : f # e /\ pc[f] # "idle" => tgt[f] # r /\ tgt[f] \in Runs
  BY <1>1 DEF ClaimInv, TypeOK
<1>7. TypeOK'
  BY <1>1, <1>3, <1>5 DEF TypeOK, ExecutorPc
<1>8. ClaimInv'
  BY <1>1 DEF TypeOK, ClaimInv
<1>9. LaunchInv'
  BY <1>1, <1>2, <1>3, <1>5, <1>6 DEF TypeOK, LaunchInv
<1>10. VerdictInv'
  <2>1. \A f \in Executors : f # e /\ pc'[f] # "idle" =>
          pc'[f] = pc[f] /\ tgt'[f] = tgt[f] /\ runs'[tgt[f]] = runs[tgt[f]]
    BY <1>1, <1>5, <1>6 DEF TypeOK
  <2>2. \A c \in Cancellers : pc'[c] = pc[c] /\ rec'[c] = rec[c]
    BY <1>1 DEF TypeOK
  <2>3. \A q \in Runs : ~IsTerminal(runs'[q].state) => runs'[q].outcome = "none"
    BY <1>3, <1>5 DEF VerdictInv
  <2>4. tgt'[e] = r /\ runs'[r].state = "running" /\ runs'[r].outcome = "none"
    BY <1>1, <1>3, <1>5
  <2>5. QED
    BY <2>1, <2>2, <2>3, <2>4, SMTT(30) DEF VerdictInv
<1>11. CopyInv'
  BY <1>1, <1>2, <1>3, <1>5 DEF TypeOK, CopyInv
<1>12. QED
  BY <1>7, <1>8, <1>9, <1>10, <1>11

(* BuildRequestFails and Finalize: a verdict is stored. *)
LEMMA VerdictStepInv ==
  ASSUME IInv, NEW e \in Executors, NEW final \in Record,
         pc[e] \in {"launch", "persist"},
         pc' = [pc EXCEPT ![e] = "release"],
         rec' = [rec EXCEPT ![e] = final],
         IsTerminal(final.state), LegalRecord(final), Put(tgt[e], final),
         UNCHANGED <<active, tgt, report, started, crashes>>
  PROVE  IInv'
<1> USE RunExecutionAssumption DEF Threads, IInv
<1> DEFINE r == tgt[e]
<1>1. r \in Runs
  BY DEF TypeOK
<1>2. /\ runs' \in [Runs -> Record] /\ events' \in [Runs -> Seq(RunState)]
      /\ runs'[r] = final
      /\ \A q \in Runs : q # r => runs'[q] = runs[q]
  BY <1>1, PutFacts
<1>3. \A f \in Executors : f # e /\ pc[f] # "idle" => tgt[f] # r /\ tgt[f] \in Runs
  BY DEF ClaimInv, TypeOK
<1>4. final.state \notin {"absent", "queued"}
  BY DEF IsTerminal
<1>5. TypeOK'
  BY <1>2 DEF TypeOK, ExecutorPc
<1>6. ClaimInv'
  BY DEF TypeOK, ClaimInv
<1>7. LaunchInv'
  BY <1>1, <1>2, <1>3, <1>4 DEF TypeOK, LaunchInv
<1>8. VerdictInv'
  <2>1. pc'[e] = "release"
    BY DEF TypeOK
  <2>2. \A f \in Executors : f # e /\ pc'[f] # "idle" =>
          pc'[f] = pc[f] /\ tgt'[f] = tgt[f] /\ runs'[tgt[f]] = runs[tgt[f]]
    BY <1>2, <1>3 DEF TypeOK
  <2>3. \A c \in Cancellers : pc'[c] = pc[c] /\ rec'[c] = rec[c]
    BY DEF TypeOK
  <2>4. \A q \in Runs : ~IsTerminal(runs'[q].state) => runs'[q].outcome = "none"
    BY <1>2 DEF VerdictInv
  <2>5. QED
    BY <2>1, <2>2, <2>3, <2>4 DEF VerdictInv
<1>9. CopyInv'
  BY <1>2 DEF TypeOK, CopyInv
<1>10. QED
  BY <1>5, <1>6, <1>7, <1>8, <1>9

(* The put of a verdict, from Finalize or from a failed request, is the only
   one an executor makes for the run. *)
LEMMA StoreVerdictInv ==
  ASSUME IInv, NEW e \in Executors, BuildRequestFails(e) \/ Finalize(e)
  PROVE  IInv'
<1> USE RunExecutionAssumption DEF Threads
<1>0. pc[e] \in {"launch", "persist"}
  BY DEF BuildRequestFails, Finalize, Goto
<1>1. rec[e] \in Record /\ rec[e].state = "running" /\ LegalRecord(rec[e])
  BY <1>0 DEF IInv, TypeOK, CopyInv
<1>2. CASE BuildRequestFails(e)
  <2> DEFINE failed == Transition(rec[e], "failed")
  <2>1. failed \in Record /\ IsTerminal(failed.state) /\ LegalRecord(failed)
    BY <1>1, EdgesTaken, TransitionType, TransitionLegal DEF RunState, IsTerminal
  <2>2. /\ pc' = [pc EXCEPT ![e] = "release"] /\ rec' = [rec EXCEPT ![e] = failed]
        /\ Put(tgt[e], failed) /\ UNCHANGED <<active, tgt, report, started, crashes>>
    BY <1>2 DEF BuildRequestFails, Goto
  <2> HIDE DEF failed
  <2>3. QED
    BY <1>0, <2>1, <2>2, VerdictStepInv
<1>3. CASE Finalize(e)
  <2>1. PICK o \in IngestedOutcome(report[e]) :
          LET final == Transition(WithOutcome(rec[e], o), FinalState(o)) IN
          rec' = [rec EXCEPT ![e] = final] /\ Put(tgt[e], final)
    BY <1>3 DEF Finalize
  <2>2. o \in Outcome
    BY DEF IInv, TypeOK, IngestedOutcome, Outcome, Report
  <2> DEFINE reported == WithOutcome(rec[e], o)
             final == Transition(reported, FinalState(o))
  <2>3. reported \in Record /\ reported.state = "running" /\ LegalRecord(reported)
    BY <1>1, <2>2, WithOutcomeKeeps
  <2>4. FinalState(o) \in RunState /\ IsTerminal(FinalState(o))
    BY DEF FinalState, RunState, IsTerminal
  <2>5. final \in Record /\ IsTerminal(final.state) /\ LegalRecord(final)
    BY <2>2, <2>3, <2>4, EdgesTaken, TransitionType, TransitionLegal
  <2>6. /\ pc' = [pc EXCEPT ![e] = "release"] /\ rec' = [rec EXCEPT ![e] = final]
        /\ Put(tgt[e], final) /\ UNCHANGED <<active, tgt, report, started, crashes>>
    BY <1>3, <2>1 DEF Finalize, Goto
  <2> HIDE DEF final
  <2>7. QED
    BY <1>0, <2>5, <2>6, VerdictStepInv
<1>4. QED
  BY <1>2, <1>3

(* Removing the claim leaves no executor that could store another verdict. *)
LEMMA ReleaseInv ==
  ASSUME IInv, NEW e \in Executors, Release(e)
  PROVE  IInv'
<1> USE RunExecutionAssumption DEF Threads, IInv, Release, Return, Store
<1>0. tgt[e] \in Runs /\ NoRecord \in Record
  BY SMTT(30) DEF TypeOK, NoRecord, Record, RunState
<1>1. TypeOK'
  BY <1>0 DEF TypeOK, ExecutorPc, Report
<1>2. ClaimInv'
  BY <1>0 DEF TypeOK, ClaimInv
<1>3. LaunchInv' /\ VerdictInv' /\ CopyInv'
  <2>1. LaunchInv'
    BY DEF TypeOK, LaunchInv
  <2>2. VerdictInv'
    BY DEF TypeOK, VerdictInv
  <2>3. CopyInv'
    BY DEF TypeOK, CopyInv
  <2>4. QED
    BY <2>1, <2>2, <2>3
<1>4. QED
  BY <1>1, <1>2, <1>3

(* cancel_run on an active run touches the token alone. *)
LEMMA SignalCancelInv ==
  ASSUME IInv, NEW c \in Cancellers, NEW r \in Runs, SignalCancel(c, r)
  PROVE  IInv'
<1> USE DEF Threads, IInv, SignalCancel, Store
<1>1. TypeOK' /\ ClaimInv'
  BY DEF TypeOK, ClaimInv
<1>2. LaunchInv' /\ VerdictInv' /\ CopyInv'
  BY DEF LaunchInv, VerdictInv, CopyInv
<1>3. QED
  BY <1>1, <1>2

(* The steps of cancel_run that store nothing and do not end with a new
   copy. *)
LEMMA CancellerQuietInv ==
  ASSUME IInv, NEW c \in Cancellers,
         \/ \E r \in Runs : MissActive(c, r)
         \/ CancelFails(c)
         \/ CancelLoad(c) /\ pc'[c] = "idle"
  PROVE  IInv'
<1> USE RunExecutionAssumption DEF Threads, IInv
<1>1. UNCHANGED <<runs, events, active, report, started, crashes>>
  BY DEF MissActive, CancelFails, CancelLoad, Store
<1>2. \/ \E r \in Runs : /\ pc' = [pc EXCEPT ![c] = "cancel_load"]
                        /\ tgt' = [tgt EXCEPT ![c] = r]
                        /\ rec' = rec
      \/ /\ pc' = [pc EXCEPT ![c] = "idle"]
         /\ tgt' = [tgt EXCEPT ![c] = NoRun]
         /\ rec' = [rec EXCEPT ![c] = NoRecord]
  BY DEF MissActive, CancelFails, CancelLoad, Goto, Return, TypeOK
<1>3. NoRecord \in Record
  BY SMTT(30) DEF NoRecord, Record, RunState
<1>4. TypeOK'
  <2>1. /\ pc' \in [Threads -> ExecutorPc \cup CancellerPc]
        /\ \A e \in Executors : pc'[e] \in ExecutorPc
        /\ \A d \in Cancellers : pc'[d] \in CancellerPc
    BY <1>2 DEF TypeOK, CancellerPc
  <2>2. /\ tgt' \in [Threads -> Runs \cup {NoRun}]
        /\ \A t \in Threads : pc'[t] # "idle" => tgt'[t] \in Runs
    BY <1>2 DEF TypeOK
  <2>3. rec' \in [Threads -> Record]
    BY <1>2, <1>3 DEF TypeOK
  <2>4. QED
    BY <1>1, <2>1, <2>2, <2>3 DEF TypeOK
<1>5. ClaimInv' /\ LaunchInv'
  <2>1. \A e \in Executors : pc'[e] = pc[e] /\ tgt'[e] = tgt[e]
    BY <1>2 DEF TypeOK
  <2>2. QED
    BY <1>1, <2>1, SMTT(30) DEF ClaimInv, LaunchInv
<1>6. VerdictInv'
  BY <1>1, <1>2 DEF TypeOK, VerdictInv
<1>7. CopyInv'
  BY <1>1, <1>2 DEF TypeOK, CopyInv
<1>8. QED
  BY <1>4, <1>5, <1>6, <1>7

(* cancel_run's copy of a record that is not terminal has no outcome. *)
LEMMA CancelLoadInv ==
  ASSUME IInv, NEW c \in Cancellers, CancelLoad(c)
  PROVE  IInv'
<1> USE RunExecutionAssumption DEF Threads, IInv
<1> DEFINE r == tgt[c]
           cancelled == Transition(runs[r], "cancelled")
<1>1. pc[c] = "cancel_load" /\ r \in Runs
      /\ UNCHANGED <<runs, events, active, report, started, crashes>>
  BY DEF CancelLoad, TypeOK, Store
<1>2. CASE runs[r].state = "absent" \/ IsTerminal(runs[r].state)
  BY <1>2, <1>1, CancellerQuietInv DEF CancelLoad, Return, TypeOK
<1>3. CASE ~(runs[r].state = "absent" \/ IsTerminal(runs[r].state))
  <2>1. pc' = [pc EXCEPT ![c] = "cancel_put"] /\ tgt' = tgt
        /\ rec' = [rec EXCEPT ![c] = cancelled]
    BY <1>3 DEF CancelLoad, Goto
  <2>2. /\ runs[r] \in Record /\ runs[r].state \in RunState
        /\ LegalRecord(runs[r]) /\ runs[r].outcome = "none"
    BY <1>1, <1>3, StoredIsLegal DEF VerdictInv
  <2>3. cancelled \in Record /\ DirectlyCancelled(cancelled) /\ LegalRecord(cancelled)
    BY <1>3, <2>2, EdgesTaken, TransitionType, TransitionLegal
       DEF RunState, DirectlyCancelled
  <2> HIDE DEF cancelled
  <2>4. TypeOK'
    BY <1>1, <2>1, <2>3 DEF TypeOK, CancellerPc
  <2>5. ClaimInv' /\ LaunchInv'
    BY <1>1, <2>1 DEF TypeOK, ClaimInv, LaunchInv
  <2>6. VerdictInv'
    BY <1>1, <2>1, <2>3 DEF TypeOK, VerdictInv
  <2>7. CopyInv'
    BY <1>1, <2>1, <2>3 DEF TypeOK, CopyInv
  <2>8. QED
    BY <2>4, <2>5, <2>6, <2>7
<1>4. QED
  BY <1>2, <1>3

(* The stale copy cancel_run puts is a legal record without an outcome. *)
LEMMA CancelPutInv ==
  ASSUME IInv, NEW c \in Cancellers, CancelPut(c)
  PROVE  IInv'
<1> USE RunExecutionAssumption DEF Threads, IInv
<1> DEFINE r == tgt[c]
<1>1. /\ pc[c] = "cancel_put" /\ pc' = [pc EXCEPT ![c] = "idle"]
      /\ tgt' = [tgt EXCEPT ![c] = NoRun] /\ rec' = [rec EXCEPT ![c] = NoRecord]
      /\ Put(r, rec[c]) /\ UNCHANGED <<active, report, started, crashes>>
  BY DEF CancelPut, Return
<1>2. r \in Runs /\ rec[c] \in Record /\ NoRecord \in Record
  BY <1>1, SMTT(30) DEF TypeOK, NoRecord, Record, RunState
<1>3. rec[c].state = "cancelled" /\ rec[c].outcome = "none" /\ LegalRecord(rec[c])
  BY <1>1 DEF VerdictInv, CopyInv, DirectlyCancelled
<1>4. /\ runs' \in [Runs -> Record] /\ events' \in [Runs -> Seq(RunState)]
      /\ runs'[r] = rec[c]
      /\ \A q \in Runs : q # r => runs'[q] = runs[q]
  BY <1>1, <1>2, PutFacts
<1>5. \A e \in Executors : pc'[e] = pc[e] /\ tgt'[e] = tgt[e] /\ rec'[e] = rec[e]
                          /\ (pc[e] # "idle" => tgt[e] \in Runs)
  BY <1>1 DEF TypeOK
<1>6. \A q \in Runs :
        \/ runs'[q] = runs[q]
        \/ runs'[q].state = "cancelled" /\ runs'[q].outcome = "none"
  BY <1>3, <1>4
<1>7. TypeOK'
  BY <1>1, <1>2, <1>4 DEF TypeOK, CancellerPc
<1>8. ClaimInv'
  BY <1>1, <1>5, SMTT(30) DEF ClaimInv
<1>9. LaunchInv'
  BY <1>1, <1>5, <1>6, SMTT(30) DEF LaunchInv
<1>10. VerdictInv'
  <2>1. \A d \in Cancellers : pc'[d] = "cancel_put" => pc[d] = "cancel_put" /\ rec'[d] = rec[d]
    BY <1>1 DEF TypeOK
  <2>2. \A q \in Runs : ~IsTerminal(runs'[q].state) => runs'[q].outcome = "none"
    BY <1>6 DEF VerdictInv
  <2>3. QED
    BY <1>5, <1>6, <2>1, <2>2, SMTT(30) DEF VerdictInv, DirectlyCancelled
<1>11. CopyInv'
  BY <1>1, <1>2, <1>3, <1>4, <1>5 DEF TypeOK, CopyInv
<1>12. QED
  BY <1>7, <1>8, <1>9, <1>10, <1>11

(* A restart drops claims and copies; the stored records carry the argument. *)
LEMMA RestartInv ==
  ASSUME IInv, Restart
  PROVE  IInv'
<1> USE RunExecutionAssumption DEF Threads, IInv, Restart, Store
<1>1. NoRecord \in Record
  BY SMTT(30) DEF NoRecord, Record, RunState
<1>2. TypeOK'
  BY <1>1, SMTT(30) DEF TypeOK, ExecutorPc, CancellerPc, Report
<1>3. ClaimInv' /\ LaunchInv'
  BY DEF ClaimInv, LaunchInv
<1>4. VerdictInv' /\ CopyInv'
  BY DEF VerdictInv, CopyInv
<1>5. QED
  BY <1>2, <1>3, <1>4

(* Every step of the system preserves the invariant. *)
LEMMA NextInv == IInv /\ [Next]_vars => IInv'
<1> SUFFICES ASSUME IInv, [Next]_vars PROVE IInv'
  OBVIOUS
<1>1. ASSUME NEW r \in Runs, SubmitRun(r) PROVE IInv'
  BY <1>1, SubmitRunInv
<1>2. ASSUME NEW e \in Executors, NEW r \in Runs, ClaimRun(e, r) PROVE IInv'
  BY <1>2, ClaimRunInv
<1>3. ASSUME NEW e \in Executors, ExecutorStep(e) PROVE IInv'
  BY <1>3, LoadRunInv, QuietStepInv, MarkRunningInv, StoreVerdictInv, ReleaseInv
     DEF ExecutorStep, QuietStep
<1>4. ASSUME NEW c \in Cancellers, NEW r \in Runs,
             SignalCancel(c, r) \/ MissActive(c, r)
      PROVE  IInv'
  BY <1>4, SignalCancelInv, CancellerQuietInv
<1>5. ASSUME NEW c \in Cancellers, CancellerStep(c) PROVE IInv'
  BY <1>5, CancelLoadInv, CancelPutInv, CancellerQuietInv DEF CancellerStep
<1>6. CASE Restart
  BY <1>6, RestartInv
<1>7. CASE UNCHANGED vars
  BY <1>7 DEF vars, IInv, TypeOK, ClaimInv, LaunchInv, VerdictInv, CopyInv
<1>8. QED
  BY <1>1, <1>2, <1>3, <1>4, <1>5, <1>6, <1>7 DEF Next

-----------------------------------------------------------------------------
(* The theorems. *)

(* The inductive invariant holds in every reachable state. *)
THEOREM Invariance == Spec => []IInv
  BY InitInv, NextInv, PTL DEF Spec

(* Every variable keeps its type: in particular a stale put never stores or
   appends anything but run states, and a call under way always has a run. *)
THEOREM TypeCorrect == Spec => []TypeOK
<1>1. IInv => TypeOK
  BY DEF IInv
<1>2. QED
  BY <1>1, Invariance, PTL

(* execute_run launches at most one process per run, however its calls and
   those of cancel_run overlap, fail and are cut off by restarts. *)
THEOREM LaunchAtMostOnce == Spec => []AtMostOneLaunch
<1>1. IInv => AtMostOneLaunch
  BY DEF IInv, LaunchInv, AtMostOneLaunch
<1>2. QED
  BY <1>1, Invariance, PTL

(* Every record the runs table ever holds retains a legal transition path. *)
THEOREM HistoryIsLegal == Spec => []LegalHistory
<1>1. IInv => LegalHistory
  BY DEF IInv, CopyInv, LegalHistory
<1>2. QED
  BY <1>1, Invariance, PTL

(* A stored terminal record gives way only to, or is, a direct cancel's. *)
THEOREM VerdictIsSingle == Spec => SingleVerdict
<1> DEFINE Kept == \A r \in Runs :
             IsTerminal(runs[r].state) /\ runs'[r] # runs[r]
               => DirectlyCancelled(runs[r]) \/ DirectlyCancelled(runs'[r])
<1>1. IInv /\ [Next]_vars => [Kept]_vars
  <2> SUFFICES ASSUME IInv, Next, NEW r \in Runs,
                      IsTerminal(runs[r].state), runs'[r] # runs[r]
               PROVE  DirectlyCancelled(runs[r]) \/ DirectlyCancelled(runs'[r])
    OBVIOUS
  <2>1. ASSUME NEW q \in Runs, NEW record, Put(q, record)
        PROVE  r = q /\ runs'[r] = record
    BY <2>1 DEF Put, IInv, TypeOK
  <2>2. ASSUME NEW e \in Executors, ExecutorStep(e)
        PROVE  DirectlyCancelled(runs[r])
    <3>1. runs' # runs
      OBVIOUS
    <3>2. MarkRunning(e) \/ BuildRequestFails(e) \/ Finalize(e)
      BY <2>2, <3>1 DEF ExecutorStep, LoadRun, PrepareFails, LaunchProcess,
         BuildRequestUnstored, ExecutorReturns, ExecutorFails, PersistFails, Release, Store
    <3>3. pc[e] \in {"start", "launch", "persist"} /\ tgt[e] \in Runs
      BY <3>2 DEF MarkRunning, BuildRequestFails, Finalize, Goto, IInv, TypeOK, Threads
    <3>4. \E record : Put(tgt[e], record)
      BY <3>2 DEF MarkRunning, BuildRequestFails, Finalize
    <3>5. tgt[e] = r
      BY <2>1, <3>3, <3>4
    <3>6. QED
      BY <3>3, <3>5 DEF IInv, VerdictInv, IsTerminal, DirectlyCancelled
  <2>3. ASSUME NEW c \in Cancellers, CancellerStep(c)
        PROVE  DirectlyCancelled(runs'[r])
    <3>1. CancelPut(c)
      BY <2>3 DEF CancellerStep, CancelLoad, CancelFails, Store
    <3>2. pc[c] = "cancel_put" /\ tgt[c] \in Runs /\ Put(tgt[c], rec[c])
      BY <3>1 DEF CancelPut, IInv, TypeOK, Threads
    <3>3. QED
      BY <2>1, <3>2 DEF IInv, VerdictInv
  <2>4. ASSUME NEW q \in Runs, SubmitRun(q) PROVE FALSE
    BY <2>1, <2>4 DEF SubmitRun, IsTerminal
  <2>5. QED
    BY <2>2, <2>3, <2>4 DEF Next, ClaimRun, SignalCancel, MissActive, Restart, Store
<1>2. QED
  BY <1>1, Invariance, PTL DEF Spec, SingleVerdict
==============================================================================
