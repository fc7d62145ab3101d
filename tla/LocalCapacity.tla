---------------------------- MODULE LocalCapacity ----------------------------
(***************************************************************************)
(* LocalCapacityExecutor: the slots that every local execution of the      *)
(* daemon shares.  Callers are the threads inside execute; an action is    *)
(* one critical section of the state mutex, or one step between two.       *)
(***************************************************************************)
EXTENDS Naturals, FiniteSets

CONSTANTS Callers, Limit

ASSUME CapacityAssumption ==
  /\ IsFiniteSet(Callers)
  /\ Limit \in 1 .. 256

VARIABLES
  active,       \* State.active
  quarantined,  \* State.quarantined
  cpc,          \* where each caller is
  cancelled,    \* the caller's CancelToken
  expired,      \* the caller's wall-clock budget is used up
  completed,    \* Slot.completed of the caller's slot
  alive,        \* callers whose child process may still be running
  holders       \* callers whose slot has not been given back

vars == <<active, quarantined, cpc, cancelled, expired, completed, alive, holders>>

TypeOK ==
  /\ active \in Nat
  /\ quarantined \in BOOLEAN
  /\ cpc \in [Callers -> {"idle", "waiting", "admitted", "running", "drop"}]
  /\ cancelled \in [Callers -> BOOLEAN]
  /\ expired \in [Callers -> BOOLEAN]
  /\ completed \in [Callers -> BOOLEAN]
  /\ alive \subseteq Callers
  /\ holders \subseteq Callers

Init ==
  /\ active = 0
  /\ quarantined = FALSE
  /\ cpc = [c \in Callers |-> "idle"]
  /\ cancelled = [c \in Callers |-> FALSE]
  /\ expired = [c \in Callers |-> FALSE]
  /\ completed = [c \in Callers |-> FALSE]
  /\ alive = {}
  /\ holders = {}

Goto(c, from, to) ==
  /\ cpc[c] = from
  /\ cpc' = [cpc EXCEPT ![c] = to]

-----------------------------------------------------------------------------
(* The environment: requests arrive, are cancelled, and run out of time. *)

Call(c) ==
  /\ Goto(c, "idle", "waiting")
  /\ cancelled' = [cancelled EXCEPT ![c] = FALSE]
  /\ expired' = [expired EXCEPT ![c] = FALSE]
  /\ completed' = [completed EXCEPT ![c] = FALSE]
  /\ UNCHANGED <<active, quarantined, alive, holders>>

Cancel(c) ==
  /\ cpc[c] # "idle"
  /\ cancelled' = [cancelled EXCEPT ![c] = TRUE]
  /\ UNCHANGED <<active, quarantined, cpc, expired, completed, alive, holders>>

Expire(c) ==
  /\ cpc[c] # "idle"
  /\ expired' = [expired EXCEPT ![c] = TRUE]
  /\ UNCHANGED <<active, quarantined, cpc, cancelled, completed, alive, holders>>

-----------------------------------------------------------------------------
(* acquire: one turn of the loop.  A full executor makes the caller wait. *)

(* Mutant: AcquireFails that ignores the budget. *)
AcquireWaitsOn(c) ==
  /\ quarantined \/ cancelled[c]
  /\ Goto(c, "waiting", "idle")
  /\ UNCHANGED <<active, quarantined, cancelled, expired, completed, alive, holders>>

AcquireFails(c) ==
  /\ quarantined \/ cancelled[c] \/ expired[c]
  /\ Goto(c, "waiting", "idle")
  /\ UNCHANGED <<active, quarantined, cancelled, expired, completed, alive, holders>>

(* Mutant: Acquire with the limit off by one. *)
AcquireOneTooMany(c) ==
  /\ ~quarantined /\ ~cancelled[c] /\ ~expired[c]
  /\ active <= Limit
  /\ Goto(c, "waiting", "admitted")
  /\ active' = active + 1
  /\ holders' = holders \cup {c}
  /\ UNCHANGED <<quarantined, cancelled, expired, completed, alive>>

Acquire(c) ==
  /\ ~quarantined /\ ~cancelled[c] /\ ~expired[c]
  /\ active < Limit
  /\ Goto(c, "waiting", "admitted")
  /\ active' = active + 1
  /\ holders' = holders \cup {c}
  /\ UNCHANGED <<quarantined, cancelled, expired, completed, alive>>

(* Mutant: AdmittedTooLate that releases the slot twice. *)
AdmittedReleases(c) ==
  /\ cancelled[c] \/ expired[c]
  /\ Goto(c, "admitted", "drop")
  /\ completed' = [completed EXCEPT ![c] = TRUE]
  /\ active' = active - 1
  /\ UNCHANGED <<quarantined, cancelled, expired, alive, holders>>

(* execute: cancellation and the budget are checked again with the slot held,
   then the process starts. *)
AdmittedTooLate(c) ==
  /\ cancelled[c] \/ expired[c]
  /\ Goto(c, "admitted", "drop")
  /\ completed' = [completed EXCEPT ![c] = TRUE]
  /\ UNCHANGED <<active, quarantined, cancelled, expired, alive, holders>>

Spawn(c) ==
  /\ ~cancelled[c] /\ ~expired[c]
  /\ Goto(c, "admitted", "running")
  /\ alive' = alive \cup {c}
  /\ UNCHANGED <<active, quarantined, cancelled, expired, completed, holders>>

(* The process executor returns an outcome only for a child that it has reaped,
   or that it could not start. *)
ProcessReaped(c) ==
  /\ Goto(c, "running", "drop")
  /\ completed' = [completed EXCEPT ![c] = TRUE]
  /\ alive' = alive \ {c}
  /\ UNCHANGED <<active, quarantined, cancelled, expired, holders>>

(* A backend error, or an unwinding panic: the child may or may not be gone. *)
ProcessUnproven(c) ==
  /\ Goto(c, "running", "drop")
  /\ \E gone \in SUBSET {c} : alive' = alive \ gone
  /\ UNCHANGED <<active, quarantined, cancelled, expired, completed, holders>>

(* Mutant: DropSlot that ignores completed. *)
DropAlwaysReleases(c) ==
  /\ Goto(c, "drop", "idle")
  /\ active' = active - 1
  /\ holders' = holders \ {c}
  /\ UNCHANGED <<quarantined, cancelled, expired, completed, alive>>

(* Slot::drop. *)
DropSlot(c) ==
  /\ Goto(c, "drop", "idle")
  /\ IF completed[c]
     THEN /\ active' = active - 1
          /\ holders' = holders \ {c}
          /\ UNCHANGED quarantined
     ELSE /\ quarantined' = TRUE
          /\ UNCHANGED <<active, holders>>
  /\ UNCHANGED <<cancelled, expired, completed, alive>>

CallerStep(c) ==
  \/ AcquireFails(c) \/ Acquire(c)
  \/ AdmittedTooLate(c) \/ Spawn(c)
  \/ ProcessReaped(c) \/ ProcessUnproven(c)
  \/ DropSlot(c)

Next == \E c \in Callers : Call(c) \/ Cancel(c) \/ Expire(c) \/ CallerStep(c)

Spec == Init /\ [][Next]_vars

(* Callers inside execute keep polling and every budget runs out. *)
Fairness == \A c \in Callers : WF_vars(CallerStep(c)) /\ WF_vars(Expire(c) /\ ~expired[c])

FairSpec == Spec /\ Fairness

-----------------------------------------------------------------------------
(* Properties. *)

(* No more than Limit children can be running at a time, those whose
   termination was never proven included. *)
CapacityBounded == Cardinality(alive) <= Limit

(* A child that was lost sight of keeps its slot and the executor refuses new
   work for good: capacity is never handed out against an unproven
   termination. *)
LostChildQuarantines ==
  \A c \in Callers : c \in alive /\ cpc[c] \in {"idle", "waiting"} => quarantined /\ c \in holders

(* Every call to execute ends: a caller that finds no free slot is let go when
   its budget runs out. *)
CallEnds == \A c \in Callers : cpc[c] # "idle" ~> cpc[c] = "idle"
==============================================================================
