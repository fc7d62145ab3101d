----------------------- MODULE PublicationFenceProofs -----------------------
(***************************************************************************)
(* Publication fencing for any number of steps, attempts, generations and  *)
(* outputs.  A token is unique because the rows' generations only grow     *)
(* and bound every token issued; a token commits once because the row it   *)
(* matches still shows what it has committed.                              *)
(***************************************************************************)
EXTENDS PublicationFence, TLAPS

(* Every issued token is at most as recent as its row, and a row that was
   ever advanced was issued as a token. *)
IssuedInv ==
  /\ \A t \in issued : 0 < t.generation /\ t.generation <= fence[t.step].generation
  /\ \A s \in Steps : fence[s].generation > 0 => Token(s, fence[s]) \in issued
  /\ \A s \in Steps : fence[s].generation = 0 => fence[s].outputs = NoOutputs

(* What was committed under the token of the current row is in the row. *)
CommitInv ==
  \A p \in committed :
    /\ p[1] \in issued
    /\ p[1] = Token(p[1].step, fence[p[1].step]) => fence[p[1].step].outputs = p[2]

IInv ==
  /\ TypeOK
  /\ IssuedInv
  /\ TokensDistinct
  /\ CommitInv
  /\ OneOutputPerToken
  /\ PublishedByHolder

-----------------------------------------------------------------------------
(* The record's transactions. *)

(* The two writes of a whole record keep its type. *)
LEMMA RecordTypes ==
  ASSUME wf \in WorkflowRecord(Steps)
  PROVE  /\ \A record \in WorkflowRecord(Steps) :
               PutKeepsIntent(wf, record) \in WorkflowRecord(Steps)
         /\ \A s \in Steps : RecordAttempt(wf, s) \in WorkflowRecord(Steps)
         /\ RequestedCancel(wf) \in WorkflowRecord(Steps)
         /\ CancelledCopy(wf) \in WorkflowRecord(Steps)
         /\ \A state \in WorkflowState :
               [wf EXCEPT !.state = state] \in WorkflowRecord(Steps)
<1>1. \A record \in WorkflowRecord(Steps) : PutKeepsIntent(wf, record) \in WorkflowRecord(Steps)
  BY DEF WorkflowRecord, PutKeepsIntent
<1>2. ASSUME NEW s \in Steps PROVE RecordAttempt(wf, s) \in WorkflowRecord(Steps)
  <2>1. Append(wf.attempts[s], "queued") \in Seq(RunState)
    BY DEF WorkflowRecord, RunState
  <2>2. QED
    BY <2>1 DEF RecordAttempt, WorkflowRecord
<1>3. RequestedCancel(wf) \in WorkflowRecord(Steps)
  BY DEF WorkflowRecord, RequestedCancel
<1>4. CancelledCopy(wf) \in WorkflowRecord(Steps)
  BY DEF WorkflowRecord, CancelledCopy, WorkflowState
<1>5. \A state \in WorkflowState : [wf EXCEPT !.state = state] \in WorkflowRecord(Steps)
  BY DEF WorkflowRecord
<1>6. QED
  BY <1>1, <1>2, <1>3, <1>4, <1>5

(* A transaction on the record touches no fence. *)
LEMMA RecordStepInv ==
  ASSUME IInv,
         \/ Start
         \/ \E s \in Steps : RecordNewAttempt(s)
         \/ RequestCancel
         \/ \E state \in {"succeeded", "failed", "cancelled"} : Finish(state)
  PROVE  IInv'
<1>1. wf \in WorkflowRecord(Steps)
  BY DEF IInv, TypeOK
<1>2. wf' \in WorkflowRecord(Steps)
  <2>1. CASE Start
    BY <1>1, <2>1, RecordTypes DEF Start, PutWorkflow, WorkflowState
  <2>2. CASE \E s \in Steps : RecordNewAttempt(s)
    BY <1>1, <2>2, RecordTypes DEF RecordNewAttempt, PutWorkflow
  <2>3. CASE RequestCancel
    BY <1>1, <2>3, RecordTypes DEF RequestCancel
  <2>4. CASE \E state \in {"succeeded", "failed", "cancelled"} : Finish(state)
    <3>1. PICK state \in {"succeeded", "failed", "cancelled"} : Finish(state)
      BY <2>4
    <3>2. state \in WorkflowState
      BY DEF WorkflowState
    <3>3. QED
      BY <1>1, <3>1, <3>2, RecordTypes DEF Finish, PutWorkflow
  <2>5. QED
    BY <2>1, <2>2, <2>3, <2>4
<1>3. UNCHANGED <<fence, issued, committed>>
  BY DEF Start, RecordNewAttempt, RequestCancel, Finish, PutWorkflow
<1>4. QED
  BY <1>2, <1>3 DEF IInv, TypeOK, IssuedInv, TokensDistinct, CommitInv, OneOutputPerToken,
                    PublishedByHolder

-----------------------------------------------------------------------------
(* advance_publication_fence. *)

(* The new row of an advance, and its token. *)
LEMMA AdvanceRow ==
  ASSUME IInv, NEW s \in Steps, NEW n \in 1 .. Len(wf.attempts[s]), Advance(s, n)
  PROVE  LET row == [generation |-> fence[s].generation + 1, attempt |-> n,
                     outputs |-> NoOutputs]
         IN  /\ fence' = [fence EXCEPT ![s] = row]
             /\ row \in [generation : 0 .. MaxGeneration, attempt : Nat,
                         outputs : Outputs \cup {NoOutputs}]
             /\ Token(s, row) \in Tokens
             /\ issued' = issued \cup {Token(s, row)}
             /\ UNCHANGED <<wf, committed>>
<1> DEFINE row == [generation |-> fence[s].generation + 1, attempt |-> n, outputs |-> NoOutputs]
<1>1. n \in Nat
  <2>1. wf.attempts[s] \in Seq(RunState)
    BY DEF IInv, TypeOK, WorkflowRecord
  <2>2. Len(wf.attempts[s]) \in Nat
    BY <2>1
  <2>3. QED
    BY <2>2
<1>2. fence[s].generation \in 0 .. MaxGeneration /\ fence[s].generation < MaxGeneration
  BY DEF IInv, TypeOK, Advance
<1>3. fence' = [fence EXCEPT ![s] = row]
  BY DEF Advance, AdvancedFence
<1>4. fence'[s] = row
  BY <1>3 DEF IInv, TypeOK
<1>5. row \in [generation : 0 .. MaxGeneration, attempt : Nat, outputs : Outputs \cup {NoOutputs}]
  BY <1>1, <1>2, PublicationAssumption
<1>6. Token(s, row) \in Tokens
  BY <1>1, <1>2, PublicationAssumption DEF Token, Tokens
<1>7. issued' = issued \cup {Token(s, row)} /\ UNCHANGED <<wf, committed>>
  BY <1>4 DEF Advance
<1>8. QED
  BY <1>3, <1>5, <1>6, <1>7

(* A superseding token is newer than all others of its step. *)
LEMMA AdvanceInv ==
  ASSUME IInv, NEW s \in Steps, NEW n \in 1 .. Len(wf.attempts[s]), Advance(s, n)
  PROVE  IInv'
<1> DEFINE row == [generation |-> fence[s].generation + 1, attempt |-> n, outputs |-> NoOutputs]
           new == Token(s, row)
<1>1. /\ fence' = [fence EXCEPT ![s] = row]
      /\ row \in [generation : 0 .. MaxGeneration, attempt : Nat,
                  outputs : Outputs \cup {NoOutputs}]
      /\ new \in Tokens
      /\ issued' = issued \cup {new}
      /\ UNCHANGED <<wf, committed>>
  BY AdvanceRow
<1>2. /\ new.step = s /\ new.generation = fence[s].generation + 1
      /\ row.generation = fence[s].generation + 1
      /\ row.outputs = NoOutputs
      /\ fence[s].generation \in Nat
  BY PublicationAssumption DEF Token, IInv, TypeOK
<1>3. /\ fence \in [Steps -> [generation : 0 .. MaxGeneration, attempt : Nat,
                              outputs : Outputs \cup {NoOutputs}]]
      /\ fence'[s] = row
      /\ \A r \in Steps \ {s} : fence'[r] = fence[r]
  BY <1>1 DEF IInv, TypeOK
<1> HIDE DEF row, new
<1>4. TypeOK'
  <2>1. fence' \in [Steps -> [generation : 0 .. MaxGeneration, attempt : Nat,
                              outputs : Outputs \cup {NoOutputs}]]
    BY <1>1, <1>3
  <2>2. issued' \subseteq Tokens
    BY <1>1 DEF IInv, TypeOK
  <2>3. QED
    BY <1>1, <2>1, <2>2 DEF IInv, TypeOK
<1>5. \A t \in issued : /\ t \in Tokens /\ t.step \in Steps /\ t.generation \in Nat
                        /\ 0 < t.generation
                        /\ t.generation <= fence[t.step].generation
                        /\ t.step = s => t.generation < new.generation
  BY <1>2 DEF IInv, TypeOK, Tokens, IssuedInv
<1>6. new = Token(s, fence'[s])
  BY <1>3 DEF new
<1>7. IssuedInv'
  <2>1. \A t \in issued' : 0 < t.generation /\ t.generation <= fence'[t.step].generation
    <3> SUFFICES ASSUME NEW t \in issued'
                 PROVE  0 < t.generation /\ t.generation <= fence'[t.step].generation
      OBVIOUS
    <3>1. CASE t = new
      BY <1>2, <1>3, <3>1
    <3>2. CASE t \in issued /\ t.step = s
      BY <1>2, <1>3, <1>5, <3>2
    <3>3. CASE t \in issued /\ t.step # s
      BY <1>3, <1>5, <3>3
    <3>4. QED
      BY <1>1, <3>1, <3>2, <3>3
  <2>2. \A r \in Steps : fence'[r].generation > 0 => Token(r, fence'[r]) \in issued'
    BY <1>1, <1>3, <1>6 DEF IInv, IssuedInv
  <2>3. \A r \in Steps : fence'[r].generation = 0 => fence'[r].outputs = NoOutputs
    BY <1>2, <1>3 DEF IInv, IssuedInv
  <2>4. QED
    BY <2>1, <2>2, <2>3 DEF IssuedInv, Token
<1>8. TokensDistinct'
  <2>1. \A t, u \in issued : t.step = u.step /\ t.generation = u.generation => t = u
    BY DEF IInv, TokensDistinct
  <2>2. \A t \in issued : ~(t.step = new.step /\ t.generation = new.generation)
    BY <1>2, <1>5
  <2>3. QED
    BY <1>1, <2>1, <2>2 DEF TokensDistinct
<1>9. CommitInv'
  <2> SUFFICES ASSUME NEW p \in committed
               PROVE  /\ p[1] \in issued'
                      /\ p[1] = Token(p[1].step, fence'[p[1].step])
                           => fence'[p[1].step].outputs = p[2]
    BY <1>1 DEF CommitInv, Token
  <2>1. p[1] \in issued
    BY DEF IInv, CommitInv
  <2>2. CASE p[1].step = s
    BY <1>1, <1>2, <1>5, <1>6, <2>1, <2>2
  <2>3. CASE p[1].step # s
    <3>1. fence'[p[1].step] = fence[p[1].step]
      BY <1>3, <1>5, <2>1, <2>3
    <3>2. QED
      BY <1>1, <2>1, <3>1 DEF IInv, CommitInv
  <2>4. QED
    BY <2>2, <2>3
<1>10. OneOutputPerToken'
  BY <1>1 DEF IInv, OneOutputPerToken
<1>11. PublishedByHolder'
  <2>1. ASSUME NEW r \in Steps, fence'[r].outputs # NoOutputs
        PROVE  /\ Token(r, fence'[r]) \in issued'
               /\ <<Token(r, fence'[r]), fence'[r].outputs>> \in committed'
    BY <1>1, <1>2, <1>3, <2>1 DEF IInv, PublishedByHolder
  <2>2. QED
    BY <2>1 DEF PublishedByHolder, Token
<1>12. QED
  BY <1>4, <1>7, <1>8, <1>9, <1>10, <1>11 DEF IInv

-----------------------------------------------------------------------------
(* publish_authoritative_outputs. *)

(* What a publication finds: its token is the row's, and has committed
   nothing yet. *)
LEMMA PublishRow ==
  ASSUME IInv, NEW t \in issued, NEW o \in Outputs, Publish(t, o)
  PROVE  /\ t \in Tokens /\ t.step \in Steps
         /\ t = Token(t.step, fence[t.step])
         /\ \A p \in committed : p[1] # t
         /\ fence' = [fence EXCEPT ![t.step].outputs = o]
         /\ committed' = committed \cup {<<t, o>>}
         /\ UNCHANGED <<wf, issued>>
<1>1. t \in Tokens /\ t.step \in Steps
  BY DEF IInv, TypeOK, Tokens
<1>2. t = Token(t.step, fence[t.step])
  BY <1>1 DEF Publish, FenceMatches, Token, Tokens
<1>3. fence[t.step].outputs = NoOutputs
  BY DEF Publish
<1>4. ASSUME NEW p \in committed, p[1] = t PROVE FALSE
  <2>1. fence[t.step].outputs = p[2]
    BY <1>2, <1>4 DEF IInv, CommitInv
  <2>2. p[2] \in Outputs
    BY DEF IInv, TypeOK
  <2>3. QED
    BY <1>3, <2>1, <2>2, PublicationAssumption
<1>5. QED
  BY <1>1, <1>2, <1>4 DEF Publish

(* The first publication of the current token. *)
LEMMA PublishInv ==
  ASSUME IInv, NEW t \in issued, NEW o \in Outputs, Publish(t, o)
  PROVE  IInv'
<1> DEFINE s == t.step
<1>1. /\ t \in Tokens /\ s \in Steps
      /\ t = Token(s, fence[s])
      /\ \A p \in committed : p[1] # t
      /\ fence' = [fence EXCEPT ![s].outputs = o]
      /\ committed' = committed \cup {<<t, o>>}
      /\ UNCHANGED <<wf, issued>>
  BY PublishRow
<1> HIDE DEF s
<1>2. /\ fence \in [Steps -> [generation : 0 .. MaxGeneration, attempt : Nat,
                              outputs : Outputs \cup {NoOutputs}]]
      /\ issued \subseteq Tokens
      /\ committed \subseteq Tokens \X Outputs
  BY DEF IInv, TypeOK
<1>3. /\ fence' \in [Steps -> [generation : 0 .. MaxGeneration, attempt : Nat,
                               outputs : Outputs \cup {NoOutputs}]]
      /\ \A r \in Steps : /\ fence'[r].generation = fence[r].generation
                          /\ fence'[r].attempt = fence[r].attempt
                          /\ r # s => fence'[r] = fence[r]
      /\ fence'[s].outputs = o
  BY <1>1, <1>2
<1>4. \A r \in Steps : Token(r, fence'[r]) = Token(r, fence[r])
  BY <1>3 DEF Token
<1>5. TypeOK'
  BY <1>1, <1>2, <1>3 DEF IInv, TypeOK
<1>6. \A u \in issued : u.step \in Steps
  BY <1>2 DEF Tokens
<1>7. IssuedInv'
  <2>1. \A u \in issued' : 0 < u.generation /\ u.generation <= fence'[u.step].generation
    BY <1>1, <1>3, <1>6 DEF IInv, IssuedInv
  <2>2. \A r \in Steps : fence'[r].generation > 0 => Token(r, fence'[r]) \in issued'
    BY <1>1, <1>3, <1>4 DEF IInv, IssuedInv
  <2>3. \A r \in Steps : fence'[r].generation = 0 => fence'[r].outputs = NoOutputs
    <3>1. fence[s].generation > 0
      BY <1>1, <1>2 DEF IInv, IssuedInv, Token
    <3>2. QED
      BY <1>3, <3>1 DEF IInv, IssuedInv
  <2>4. QED
    BY <2>1, <2>2, <2>3 DEF IssuedInv, Token
<1>8. TokensDistinct'
  BY <1>1 DEF IInv, TokensDistinct
<1>9. CommitInv'
  <2> SUFFICES ASSUME NEW p \in committed'
               PROVE  /\ p[1] \in issued'
                      /\ p[1] = Token(p[1].step, fence'[p[1].step])
                           => fence'[p[1].step].outputs = p[2]
    BY DEF CommitInv, Token
  <2>1. CASE p = <<t, o>>
    BY <1>1, <1>3, <2>1 DEF s
  <2>2. CASE p \in committed
    <3>1. p[1] \in issued /\ p[1] # t
      BY <1>1, <2>2 DEF IInv, CommitInv
    <3>2. CASE p[1].step = s
      BY <1>1, <1>4, <3>1, <3>2
    <3>3. CASE p[1].step # s
      <4>1. fence'[p[1].step] = fence[p[1].step]
        BY <1>3, <1>6, <3>1, <3>3
      <4>2. QED
        BY <1>1, <2>2, <3>1, <4>1 DEF IInv, CommitInv
    <3>4. QED
      BY <3>2, <3>3
  <2>3. QED
    BY <1>1, <2>1, <2>2
<1>10. OneOutputPerToken'
  <2>1. \A p, q \in committed : p[1] = q[1] => p = q
    BY DEF IInv, OneOutputPerToken
  <2>2. \A p \in committed : p[1] # <<t, o>>[1]
    BY <1>1
  <2>3. QED
    BY <1>1, <2>1, <2>2 DEF OneOutputPerToken
<1>11. PublishedByHolder'
  <2>1. ASSUME NEW r \in Steps, fence'[r].outputs # NoOutputs
        PROVE  /\ Token(r, fence'[r]) \in issued'
               /\ <<Token(r, fence'[r]), fence'[r].outputs>> \in committed'
    <3>1. CASE r = s
      BY <1>1, <1>3, <1>4, <3>1
    <3>2. CASE r # s
      BY <1>1, <1>3, <2>1, <3>2 DEF IInv, PublishedByHolder
    <3>3. QED
      BY <3>1, <3>2
  <2>2. QED
    BY <2>1 DEF PublishedByHolder, Token
<1>12. QED
  BY <1>5, <1>7, <1>8, <1>9, <1>10, <1>11 DEF IInv

-----------------------------------------------------------------------------
(* Invariance. *)

(* No token, no publication, a created workflow. *)
LEMMA InitInv == Init => IInv
<1> SUFFICES ASSUME Init PROVE IInv
  OBVIOUS
<1>1. <<>> \in Seq(RunState) /\ CreatedWorkflow(Steps) \in WorkflowRecord(Steps)
  BY DEF CreatedWorkflow, WorkflowRecord, WorkflowState
<1>2. TypeOK
  BY <1>1, PublicationAssumption DEF Init, TypeOK, NoFence
<1>3. QED
  BY <1>2 DEF Init, IInv, NoFence, IssuedInv, TokensDistinct, CommitInv, OneOutputPerToken,
              PublishedByHolder

(* Every transaction preserves the invariant. *)
LEMMA NextInv == IInv /\ [Next]_vars => IInv'
<1> SUFFICES ASSUME IInv, [Next]_vars PROVE IInv'
  OBVIOUS
<1>1. CASE UNCHANGED vars
  BY <1>1 DEF vars, IInv, TypeOK, IssuedInv, TokensDistinct, CommitInv, OneOutputPerToken,
              PublishedByHolder, Token
<1>2. CASE Next
  BY <1>2, RecordStepInv, AdvanceInv, PublishInv DEF Next
<1>3. QED
  BY <1>1, <1>2

(* The invariant holds in every reachable state, for both repositories. *)
THEOREM Invariance == Spec => []IInv
BY InitInv, NextInv, PTL DEF Spec

(* Rows keep their types; a generation never passes the limit of the store. *)
THEOREM TypeCorrect == Spec => []TypeOK
BY Invariance, PTL DEF IInv

(* A generation of a step is handed out once. *)
THEOREM TokensAreDistinct == Spec => []TokensDistinct
BY Invariance, PTL DEF IInv

(* A token publishes one output map at most. *)
THEOREM OutputIsUnique == Spec => []OneOutputPerToken
BY Invariance, PTL DEF IInv

(* The output a reader finds was committed under the row's own token. *)
THEOREM OutputHasHolder == Spec => []PublishedByHolder
BY Invariance, PTL DEF IInv

-----------------------------------------------------------------------------
(* The durable repository implements AuthoritativeOutput. *)

(* A transaction on the record opens, closes or leaves the phase. *)
LEMMA RecordStepRefines ==
  ASSUME IInv,
         \/ Start
         \/ \E s \in Steps : RecordNewAttempt(s)
         \/ RequestCancel
         \/ \E state \in {"succeeded", "failed", "cancelled"} : Finish(state)
  PROVE  [Abstract!Next]_Abstract!vars
<1>1. wf \in WorkflowRecord(Steps)
  BY DEF IInv, TypeOK
<1>2. UNCHANGED <<fence, issued, committed>>
  BY DEF Start, RecordNewAttempt, RequestCancel, Finish, PutWorkflow
<1>3. \/ Phase' = Phase
      \/ Phase = "new" /\ Phase' = "open"
      \/ Phase' = "closed"
  <2>1. CASE Start
    BY <1>1, <2>1 DEF Start, PutWorkflow, PutKeepsIntent, WorkflowRecord, Phase, Publishable
  <2>2. CASE \E s \in Steps : RecordNewAttempt(s)
    BY <1>1, <2>2 DEF RecordNewAttempt, PutWorkflow, PutKeepsIntent, RecordAttempt,
                      WorkflowRecord, Phase, Publishable
  <2>3. CASE RequestCancel
    BY <1>1, <2>3 DEF RequestCancel, RequestedCancel, WorkflowIsTerminal,
                      WorkflowRecord, Phase, Publishable
  <2>4. CASE \E state \in {"succeeded", "failed", "cancelled"} : Finish(state)
    BY <1>1, <2>4 DEF Finish, PutWorkflow, PutKeepsIntent, CancelledCopy, WorkflowIsTerminal,
                      WorkflowRecord, Phase, Publishable
  <2>5. QED
    BY <2>1, <2>2, <2>3, <2>4
<1>4. QED
  BY <1>2, <1>3 DEF Abstract!Next, Abstract!Open, Abstract!Close, Abstract!vars

(* An advance the durable store accepts hands the authority on. *)
LEMMA AdvanceRefines ==
  ASSUME IInv, Durable, NEW s \in Steps, NEW n \in 1 .. Len(wf.attempts[s]), Advance(s, n)
  PROVE  Abstract!Supersede(s)
<1>1. Publishable(wf)
  BY DEF Advance, Eligible
<1>2. Phase = "open" /\ Phase' = Phase
  BY <1>1 DEF Phase, Advance, Publishable
<1>3. /\ fence \in [Steps -> [generation : 0 .. MaxGeneration, attempt : Nat,
                              outputs : Outputs \cup {NoOutputs}]]
      /\ fence' = [fence EXCEPT ![s] = [generation |-> fence[s].generation + 1, attempt |-> n,
                                        outputs |-> NoOutputs]]
  BY AdvanceRow DEF IInv, TypeOK
<1>4. [r \in Steps |-> fence'[r].generation]
        = [[r \in Steps |-> fence[r].generation] EXCEPT ![s] = @ + 1]
  BY <1>3
<1>5. [r \in Steps |-> fence'[r].outputs]
        = [[r \in Steps |-> fence[r].outputs] EXCEPT ![s] = NoOutputs]
  BY <1>3
<1>6. QED
  BY <1>2, <1>4, <1>5 DEF Abstract!Supersede

(* A publication the durable store accepts commits the authority's output. *)
LEMMA PublishRefines ==
  ASSUME IInv, Durable, NEW t \in issued, NEW o \in Outputs, Publish(t, o)
  PROVE  t.step \in Steps /\ Abstract!Commit(t.step, o)
<1>1. Publishable(wf) /\ fence[t.step].outputs = NoOutputs
  BY DEF Publish, Eligible
<1>2. Phase = "open" /\ Phase' = Phase
  BY <1>1 DEF Phase, Publish, Publishable
<1>3. /\ fence \in [Steps -> [generation : 0 .. MaxGeneration, attempt : Nat,
                              outputs : Outputs \cup {NoOutputs}]]
      /\ fence' = [fence EXCEPT ![t.step].outputs = o]
      /\ t.step \in Steps
      /\ t = Token(t.step, fence[t.step])
  BY PublishRow DEF IInv, TypeOK
<1>4. fence[t.step].generation > 0
  BY <1>3 DEF IInv, IssuedInv, Token
<1>5. [r \in Steps |-> fence'[r].generation] = [r \in Steps |-> fence[r].generation]
  BY <1>3
<1>6. [r \in Steps |-> fence'[r].outputs]
        = [[r \in Steps |-> fence[r].outputs] EXCEPT ![t.step] = o]
  BY <1>3
<1>7. QED
  BY <1>1, <1>2, <1>3, <1>4, <1>5, <1>6 DEF Abstract!Commit

(* With SqliteStore a reader of the rows sees AuthoritativeOutput: an
   authority that only moves forward, one output per authority, and nothing
   new once the workflow is cancelled or terminal. *)
THEOREM FencesImplementAuthority ==
  ASSUME Durable
  PROVE  Spec => Refines
<1>1. Init => Abstract!Init
  BY DEF Init, Abstract!Init, Phase, Publishable, CreatedWorkflow, NoFence
<1>2. IInv /\ [Next]_vars => [Abstract!Next]_Abstract!vars
  <2> SUFFICES ASSUME IInv, [Next]_vars PROVE [Abstract!Next]_Abstract!vars
    OBVIOUS
  <2>1. CASE UNCHANGED vars
    BY <2>1 DEF vars, Abstract!vars, Phase
  <2>2. CASE \E s \in Steps : \E n \in 1 .. Len(wf.attempts[s]) : Advance(s, n)
    BY <2>2, AdvanceRefines DEF Abstract!Next
  <2>3. CASE \E t \in issued, o \in Outputs : Publish(t, o)
    BY <2>3, PublishRefines DEF Abstract!Next
  <2>4. QED
    BY <2>1, <2>2, <2>3, RecordStepRefines DEF Next
<1>3. QED
  BY <1>1, <1>2, Invariance, PTL DEF Spec, Refines, Abstract!Spec
==============================================================================
