------------------------- MODULE AuthoritativeOutput -------------------------
(***************************************************************************)
(* What PublicationFenceRepository promises its readers: while the         *)
(* workflow is open each step has one current authority, an authority      *)
(* commits at most one output, a new authority starts without one, and     *)
(* nothing changes any more once the workflow has closed.                  *)
(***************************************************************************)
EXTENDS Naturals

CONSTANTS Steps, Outputs, NoOutputs

VARIABLES
  phase,      \* "new", "open" or "closed"
  authority,  \* how many times each step's authority has been handed on
  output      \* what the current authority of each step has committed

vars == <<phase, authority, output>>

Init ==
  /\ phase = "new"
  /\ authority = [s \in Steps |-> 0]
  /\ output = [s \in Steps |-> NoOutputs]

Open ==
  /\ phase = "new"
  /\ phase' = "open"
  /\ UNCHANGED <<authority, output>>

Close ==
  /\ phase' = "closed"
  /\ UNCHANGED <<authority, output>>

Supersede(s) ==
  /\ phase = "open"
  /\ authority' = [authority EXCEPT ![s] = @ + 1]
  /\ output' = [output EXCEPT ![s] = NoOutputs]
  /\ UNCHANGED phase

Commit(s, o) ==
  /\ phase = "open"
  /\ authority[s] > 0
  /\ output[s] = NoOutputs
  /\ output' = [output EXCEPT ![s] = o]
  /\ UNCHANGED <<phase, authority>>

Next ==
  \/ Open
  \/ Close
  \/ \E s \in Steps : Supersede(s)
  \/ \E s \in Steps, o \in Outputs : Commit(s, o)

Spec == Init /\ [][Next]_vars
==============================================================================
