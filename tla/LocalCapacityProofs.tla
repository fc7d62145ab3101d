------------------------- MODULE LocalCapacityProofs -------------------------
(***************************************************************************)
(* The slots of LocalCapacityExecutor bound the children that may be       *)
(* running, for every number of callers and every limit.  The bound is     *)
(* not inductive: it rests on active counting the callers that hold a      *)
(* slot, on every child that may be running belonging to a holder, and on  *)
(* a holder without a call in progress meaning quarantine.                 *)
(***************************************************************************)
EXTENDS LocalCapacity, FiniteSetTheorems, TLAPS

(* active counts the holders. *)
CountInv == active = Cardinality(holders) /\ active <= Limit

(* Who holds a slot, and who may have a child. *)
HolderInv ==
  /\ alive \subseteq holders
  /\ \A c \in Callers :
       /\ cpc[c] \in {"admitted", "running", "drop"} => c \in holders
       /\ cpc[c] \in {"idle", "waiting"} /\ c \in holders => quarantined
       /\ cpc[c] = "admitted" => c \notin alive
       /\ cpc[c] \in {"waiting", "admitted", "running"} => ~completed[c]
       /\ cpc[c] = "drop" /\ completed[c] => c \notin alive

IInv == TypeOK /\ CountInv /\ HolderInv

(* A new executor has no holders. *)
LEMMA InitInv == Init => IInv
<1> SUFFICES ASSUME Init PROVE IInv
  OBVIOUS
<1>1. TypeOK
  BY DEF Init, TypeOK
<1>2. CountInv
  BY FS_EmptySet, CapacityAssumption DEF Init, CountInv
<1>3. HolderInv
  BY DEF Init, HolderInv
<1>4. QED
  BY <1>1, <1>2, <1>3 DEF IInv

(* Taking a slot adds a holder that was none before. *)
LEMMA AcquireInv ==
  ASSUME IInv, NEW c \in Callers, Acquire(c)
  PROVE  IInv'
<1>1. c \notin holders
  BY DEF IInv, HolderInv, Acquire, Goto
<1>2. IsFiniteSet(holders)
  BY FS_Subset, CapacityAssumption DEF IInv, TypeOK
<1>3. Cardinality(holders \cup {c}) = Cardinality(holders) + 1
  BY <1>1, <1>2, FS_AddElement
<1>4. TypeOK'
  BY DEF IInv, TypeOK, Acquire, Goto
<1>5. CountInv'
  BY <1>3, CapacityAssumption DEF IInv, TypeOK, CountInv, Acquire
<1>6. HolderInv'
  BY <1>1 DEF IInv, TypeOK, HolderInv, Acquire, Goto
<1>7. QED
  BY <1>4, <1>5, <1>6 DEF IInv

(* Slot::drop gives the slot back, or keeps it and quarantines. *)
LEMMA DropSlotInv ==
  ASSUME IInv, NEW c \in Callers, DropSlot(c)
  PROVE  IInv'
<1>1. c \in holders
  BY DEF IInv, HolderInv, DropSlot, Goto
<1>2. IsFiniteSet(holders)
  BY FS_Subset, CapacityAssumption DEF IInv, TypeOK
<1>3. Cardinality(holders \ {c}) = Cardinality(holders) - 1 /\ Cardinality(holders) \in Nat
  BY <1>1, <1>2, FS_RemoveElement, FS_CardinalityType
<1>4. CASE completed[c]
  <2>1. /\ active' = active - 1 /\ holders' = holders \ {c}
        /\ UNCHANGED <<quarantined, cancelled, expired, completed, alive>>
        /\ cpc[c] = "drop" /\ cpc' = [cpc EXCEPT ![c] = "idle"]
    BY <1>4 DEF DropSlot, Goto
  <2>2. IsFiniteSet(holders \ {c}) /\ Cardinality(holders \ {c}) \in Nat
    BY <1>2, FS_RemoveElement, FS_CardinalityType
  <2>3. CountInv' /\ active' \in Nat
    BY <1>3, <2>1, <2>2, CapacityAssumption DEF IInv, CountInv, TypeOK
  <2>4. TypeOK'
    BY <2>1, <2>3 DEF IInv, TypeOK
  <2>5. HolderInv'
    BY <1>4, <2>1 DEF IInv, TypeOK, HolderInv
  <2>6. QED
    BY <2>3, <2>4, <2>5 DEF IInv
<1>5. CASE ~completed[c]
  <2>1. /\ quarantined' = TRUE /\ UNCHANGED <<active, holders, cancelled, expired, completed, alive>>
        /\ cpc[c] = "drop" /\ cpc' = [cpc EXCEPT ![c] = "idle"]
    BY <1>5 DEF DropSlot, Goto
  <2>2. QED
    BY <2>1 DEF IInv, TypeOK, CountInv, HolderInv
<1>6. QED
  BY <1>4, <1>5

(* The other steps neither take nor give back a slot. *)
LEMMA HeldSlotsInv ==
  ASSUME IInv, NEW c \in Callers,
         \/ Call(c)
         \/ Cancel(c)
         \/ Expire(c)
         \/ AcquireFails(c)
         \/ AdmittedTooLate(c)
         \/ Spawn(c)
         \/ ProcessReaped(c)
         \/ ProcessUnproven(c)
  PROVE  IInv'
<1> USE DEF IInv, TypeOK, CountInv, HolderInv, Goto
<1>1. CASE Call(c)
  BY <1>1 DEF Call
<1>2. CASE Cancel(c)
  BY <1>2 DEF Cancel
<1>3. CASE Expire(c)
  BY <1>3 DEF Expire
<1>4. CASE AcquireFails(c)
  BY <1>4 DEF AcquireFails
<1>5. CASE AdmittedTooLate(c)
  BY <1>5 DEF AdmittedTooLate
<1>6. CASE Spawn(c)
  BY <1>6 DEF Spawn
<1>7. CASE ProcessReaped(c)
  BY <1>7 DEF ProcessReaped
<1>8. CASE ProcessUnproven(c)
  BY <1>8 DEF ProcessUnproven
<1>9. QED
  BY <1>1, <1>2, <1>3, <1>4, <1>5, <1>6, <1>7, <1>8

(* Every step of every caller preserves the invariant. *)
LEMMA NextInv == IInv /\ [Next]_vars => IInv'
<1> SUFFICES ASSUME IInv, [Next]_vars PROVE IInv'
  OBVIOUS
<1>1. CASE UNCHANGED vars
  BY <1>1 DEF vars, IInv, TypeOK, CountInv, HolderInv
<1>2. CASE Next
  <2>1. PICK c \in Callers : Call(c) \/ Cancel(c) \/ Expire(c) \/ CallerStep(c)
    BY <1>2 DEF Next
  <2>2. QED
    BY <2>1, AcquireInv, DropSlotInv, HeldSlotsInv DEF CallerStep
<1>3. QED
  BY <1>1, <1>2

(* The invariant holds in every reachable state of the executor. *)
THEOREM Invariance == Spec => []IInv
BY InitInv, NextInv, PTL DEF Spec

(* State.active stays a natural number: Slot::drop never underflows it. *)
THEOREM TypeCorrect == Spec => []TypeOK
BY Invariance, PTL DEF IInv

(* At most Limit children may be running, the unproven ones included. *)
THEOREM ChildrenBounded == Spec => []CapacityBounded
<1>1. IInv => CapacityBounded
  <2> SUFFICES ASSUME IInv PROVE CapacityBounded
    OBVIOUS
  <2>1. IsFiniteSet(holders)
    BY FS_Subset, CapacityAssumption DEF IInv, TypeOK
  <2>2. /\ IsFiniteSet(alive)
        /\ Cardinality(alive) <= Cardinality(holders)
    BY <2>1, FS_Subset DEF IInv, HolderInv
  <2>3. Cardinality(alive) \in Nat /\ Cardinality(holders) \in Nat
    BY <2>1, <2>2, FS_CardinalityType
  <2>4. QED
    BY <2>2, <2>3, CapacityAssumption DEF IInv, CountInv, CapacityBounded
<1>2. QED
  BY <1>1, Invariance, PTL

(* A child whose end was not proven keeps its slot and quarantines the
   executor. *)
THEOREM LostChildIsFenced == Spec => []LostChildQuarantines
<1>1. IInv => LostChildQuarantines
  BY DEF IInv, HolderInv, LostChildQuarantines
<1>2. QED
  BY <1>1, Invariance, PTL
==============================================================================
