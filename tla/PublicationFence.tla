-------------------------- MODULE PublicationFence --------------------------
(***************************************************************************)
(* The publication fences of one workflow: what the two implementations    *)
(* of PublicationFenceRepository do when advances and publications of      *)
(* several attempts, delayed and repeated at will, meet the other          *)
(* transactions on the workflow record.  Every action is one transaction   *)
(* of SqliteStore (Durable) or one critical section of                     *)
(* InMemoryPublicationFences (not Durable); a refused call changes         *)
(* nothing.  A restart forgets no row of the former, and its callers'      *)
(* tokens stay in issued as calls that may still arrive.                   *)
(***************************************************************************)
EXTENDS WorkflowStates, FiniteSets

CONSTANTS
  Steps,
  Outputs,        \* output maps a publication may carry
  MaxAttempts,    \* bound on the attempts recorded per step
  MaxGeneration,  \* the largest generation the store can hold
  Durable         \* SqliteStore, or else InMemoryPublicationFences

ASSUME PublicationAssumption ==
  /\ MaxAttempts \in Nat
  /\ MaxGeneration \in Nat
  /\ Durable \in BOOLEAN
  /\ NoOutputs \notin Outputs

VARIABLES
  wf,        \* the workflows row
  fence,     \* the fence row of each step
  issued,    \* every fence token handed out so far
  committed  \* every token together with the outputs it ever published

vars == <<wf, fence, issued, committed>>

Token(s, row) == [step |-> s, generation |-> row.generation, attempt |-> row.attempt]

Tokens == [step : Steps, generation : Nat, attempt : Nat]

TypeOK ==
  /\ wf \in WorkflowRecord(Steps)
  /\ fence \in [Steps -> [generation : 0 .. MaxGeneration, attempt : Nat,
                          outputs : Outputs \cup {NoOutputs}]]
  /\ issued \subseteq Tokens
  /\ committed \subseteq (Tokens \X Outputs)

Init ==
  /\ wf = CreatedWorkflow(Steps)
  /\ fence = [s \in Steps |-> NoFence]
  /\ issued = {}
  /\ committed = {}

-----------------------------------------------------------------------------
(* The orchestrator's transactions on the record. *)

PutWorkflow(record) ==
  /\ wf' = PutKeepsIntent(wf, record)
  /\ UNCHANGED <<fence, issued, committed>>

Start == wf.state = "created" /\ PutWorkflow([wf EXCEPT !.state = "running"])

RecordNewAttempt(s) ==
  /\ wf.state = "running"
  /\ Len(wf.attempts[s]) < MaxAttempts
  /\ PutWorkflow(RecordAttempt(wf, s))

RequestCancel ==
  /\ wf' = RequestedCancel(wf)
  /\ UNCHANGED <<fence, issued, committed>>

Finish(state) ==
  /\ WorkflowCanTransitionTo(wf.state, state)
  /\ PutWorkflow(IF state = "cancelled" THEN CancelledCopy(wf) ELSE [wf EXCEPT !.state = state])

-----------------------------------------------------------------------------
(* advance_publication_fence for attempt n of step s. *)

(* The durable store checks the workflow and the attempt in the same
   transaction; the in-memory one has neither at hand. *)
Eligible(s, n) == Durable => Publishable(wf) /\ IsCurrentAttempt(wf, s, n)

(* Mutant: Advance that hands a generation out again. *)
AdvanceReusingGeneration(s, n) ==
  /\ Eligible(s, n)
  /\ fence' = [fence EXCEPT ![s] =
       [AdvancedFence(@, n) EXCEPT !.generation = IF fence[s].generation = 0 THEN 1 ELSE @ - 1]]
  /\ issued' = issued \cup {Token(s, fence'[s])}
  /\ UNCHANGED <<wf, committed>>

(* Mutant: Advance without the overflow check. *)
AdvancePastLimit(s, n) ==
  /\ Eligible(s, n)
  /\ fence' = [fence EXCEPT ![s] = AdvancedFence(@, n)]
  /\ issued' = issued \cup {Token(s, fence'[s])}
  /\ UNCHANGED <<wf, committed>>

(* Mutant: Advance that keeps the previous token's outputs. *)
AdvanceKeepingOutputs(s, n) ==
  /\ Eligible(s, n)
  /\ fence[s].generation < MaxGeneration
  /\ fence' = [fence EXCEPT ![s] = [AdvancedFence(@, n) EXCEPT !.outputs = fence[s].outputs]]
  /\ issued' = issued \cup {Token(s, fence'[s])}
  /\ UNCHANGED <<wf, committed>>

(* advance_publication_fence for attempt n: a fresh generation, refused at
   the largest one, without a publication. *)
Advance(s, n) ==
  /\ Eligible(s, n)
  /\ fence[s].generation < MaxGeneration
  /\ fence' = [fence EXCEPT ![s] = AdvancedFence(@, n)]
  /\ issued' = issued \cup {Token(s, fence'[s])}
  /\ UNCHANGED <<wf, committed>>

(* Mutant: Publish that replaces an earlier publication. *)
PublishReplacing(t, o) ==
  /\ Eligible(t.step, t.attempt)
  /\ FenceMatches(fence[t.step], t.attempt, t.generation)
  /\ fence' = [fence EXCEPT ![t.step].outputs = o]
  /\ committed' = committed \cup {<<t, o>>}
  /\ UNCHANGED <<wf, issued>>

(* Mutant: Publish that does not look at the workflow. *)
PublishUnchecked(t, o) ==
  /\ FenceMatches(fence[t.step], t.attempt, t.generation)
  /\ fence[t.step].outputs = NoOutputs
  /\ fence' = [fence EXCEPT ![t.step].outputs = o]
  /\ committed' = committed \cup {<<t, o>>}
  /\ UNCHANGED <<wf, issued>>

(* publish_authoritative_outputs with token t: the first publication under
   the current fence is stored.  An exact replay is answered without a
   change, anything else is refused. *)
Publish(t, o) ==
  /\ Eligible(t.step, t.attempt)
  /\ FenceMatches(fence[t.step], t.attempt, t.generation)
  /\ fence[t.step].outputs = NoOutputs
  /\ fence' = [fence EXCEPT ![t.step].outputs = o]
  /\ committed' = committed \cup {<<t, o>>}
  /\ UNCHANGED <<wf, issued>>

Next ==
  \/ Start
  \/ \E s \in Steps : RecordNewAttempt(s)
  \/ RequestCancel
  \/ \E state \in {"succeeded", "failed", "cancelled"} : Finish(state)
  \/ \E s \in Steps : \E n \in 1 .. Len(wf.attempts[s]) : Advance(s, n)
  \/ \E t \in issued, o \in Outputs : Publish(t, o)

Spec == Init /\ [][Next]_vars

-----------------------------------------------------------------------------
(* Properties. *)

(* No two advances of a step hand out the same generation, so a token names
   one attempt for good. *)
TokensDistinct ==
  \A t, u \in issued : t.step = u.step /\ t.generation = u.generation => t = u

(* A token never publishes two different output maps, however often and
   however late its publication is repeated. *)
OneOutputPerToken ==
  \A p, q \in committed : p[1] = q[1] => p = q

(* Whatever the fence row publishes was committed by an issued token of the
   row's own generation. *)
PublishedByHolder ==
  \A s \in Steps : fence[s].outputs # NoOutputs =>
    /\ Token(s, fence[s]) \in issued
    /\ <<Token(s, fence[s]), fence[s].outputs>> \in committed

(* A read by a dependent step sees an authority that only moves forward, one
   output per authority, and no change after cancellation or a verdict:
   the rows implement AuthoritativeOutput. *)
Phase ==
  IF Publishable(wf) THEN "open"
  ELSE IF wf.state = "created" /\ ~wf.cancel THEN "new"
  ELSE "closed"

Abstract == INSTANCE AuthoritativeOutput WITH
  phase <- Phase,
  authority <- [s \in Steps |-> fence[s].generation],
  output <- [s \in Steps |-> fence[s].outputs]

Refines == Abstract!Spec

(* "publication after workflow cancellation must fail closed": an output is
   stored only while no cancellation is persisted. *)
ClosedAfterCancel ==
  [][wf.cancel => \A s \in Steps : fence'[s].outputs \in {fence[s].outputs, NoOutputs}]_vars
==============================================================================
