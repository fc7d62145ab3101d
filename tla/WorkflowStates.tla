--------------------------- MODULE WorkflowStates ---------------------------
(***************************************************************************)
(* Workflow records and publication fences as values: what the workflow    *)
(* model and the publication model share.  A record keeps its lifecycle    *)
(* state, the persisted cancellation intent and, per step, the run states  *)
(* of its attempts; attempt n of a step is its n-th entry.                 *)
(***************************************************************************)
EXTENDS RunStates

(* The enum WorkflowState.  "absent" is a row the table does not hold. *)
WorkflowState == {"created", "running", "succeeded", "failed", "cancelled"}

WorkflowCanTransitionTo(from, to) ==
  <<from, to>> \in
    {<<"created", "running">>, <<"created", "cancelled">>,
     <<"running", "succeeded">>, <<"running", "failed">>, <<"running", "cancelled">>}

WorkflowIsTerminal(s) == s \in {"succeeded", "failed", "cancelled"}

WorkflowRecord(Steps) ==
  [state : WorkflowState \cup {"absent"},
   cancel : BOOLEAN,
   attempts : [Steps -> Seq(RunState)]]

NoWorkflow(Steps) ==
  [state |-> "absent", cancel |-> FALSE, attempts |-> [s \in Steps |-> <<>>]]

CreatedWorkflow(Steps) ==
  [state |-> "created", cancel |-> FALSE, attempts |-> [s \in Steps |-> <<>>]]

(* Mutant: PutKeepsIntent that stores the writer's copy as it is. *)
PutClearsIntent(stored, record) == record

(* WorkflowRepository::put never clears a persisted cancellation intent that
   the writer's copy lacks. *)
PutKeepsIntent(stored, record) ==
  [record EXCEPT !.cancel = @ \/ stored.cancel]

(* WorkflowRepository::request_cancel: a terminal workflow is left as it is. *)
RequestedCancel(stored) ==
  IF WorkflowIsTerminal(stored.state) THEN stored ELSE [stored EXCEPT !.cancel = TRUE]

(* refresh_cancel_intent: the copy learns of a persisted intent. *)
Refreshed(copy, stored) == [copy EXCEPT !.cancel = @ \/ stored.cancel]

(* record_attempt: a freshly submitted run is the step's next attempt. *)
RecordAttempt(record, s) ==
  [record EXCEPT !.attempts[s] = Append(@, "queued")]

(* finish_recorded_attempt. *)
FinishAttempt(record, s, n, state) ==
  [record EXCEPT !.attempts[s][n] = state]

(* finish_workflow_cancelled: the intent is set and a workflow that is not
   terminal yet becomes cancelled. *)
CancelledCopy(copy) ==
  [copy EXCEPT !.cancel = TRUE,
               !.state = IF WorkflowIsTerminal(@) THEN @ ELSE "cancelled"]

-----------------------------------------------------------------------------
(* Publication fences: one row per step. *)

NoOutputs == "none"
NoFence == [generation |-> 0, attempt |-> 0, outputs |-> NoOutputs]

(* load_publishable_workflow. *)
Publishable(record) == record.state = "running" /\ ~record.cancel

(* validate_current_attempt: the last recorded attempt of the step. *)
IsCurrentAttempt(record, s, n) ==
  record.attempts[s] # <<>> /\ n = Len(record.attempts[s])

(* The row an advance leaves: a fresh generation without a publication. *)
AdvancedFence(row, n) ==
  [generation |-> row.generation + 1, attempt |-> n, outputs |-> NoOutputs]

(* The issued token still names the row. *)
FenceMatches(row, n, generation) ==
  row.generation = generation /\ row.attempt = n
==============================================================================
