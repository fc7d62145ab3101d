----------------------------- MODULE MCWorkflow -----------------------------
(* Workflow on small graphs, for TLC. *)
EXTENDS Workflow, TLC

(* One step. *)
Single == [s \in {1} |-> {}]

(* The first step in key order consumes the second's output. *)
Chain == (1 :> {2}) @@ (2 :> {})

(* Three independent steps, and one that waits for two of them. *)
WideJoin == (1 :> {}) @@ (2 :> {}) @@ (3 :> {}) @@ (4 :> {1, 3})

(* It takes an input from the one and comes `after` the other. *)
WideJoinInputs == (1 :> {}) @@ (2 :> {}) @@ (3 :> {}) @@ (4 :> {1})
=============================================================================
