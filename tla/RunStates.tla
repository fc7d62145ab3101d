------------------------------ MODULE RunStates ------------------------------
(***************************************************************************)
(* The run record as the stores see it: its lifecycle state, the retained  *)
(* transitions, and the outcome of the one process execution.  Ids, specs, *)
(* timestamps and digests are abstracted away; nothing below depends on    *)
(* them.                                                                   *)
(***************************************************************************)
EXTENDS Naturals, Sequences

(* The enum RunState.  "absent" is a row the runs table does not hold. *)
RunState == {"created", "validated", "queued", "running",
             "succeeded", "failed", "cancelled"}

CanTransitionTo(from, to) ==
  <<from, to>> \in
    {<<"created", "validated">>, <<"created", "failed">>, <<"created", "cancelled">>,
     <<"validated", "queued">>, <<"validated", "failed">>, <<"validated", "cancelled">>,
     <<"queued", "running">>, <<"queued", "failed">>, <<"queued", "cancelled">>,
     <<"running", "succeeded">>, <<"running", "failed">>, <<"running", "cancelled">>}

IsTerminal(s) == s \in {"succeeded", "failed", "cancelled"}

(***************************************************************************)
(* What an executor reports.  "unclean" stands for a non-zero exit, a      *)
(* signal and a start error, which the orchestrator treats alike.          *)
(***************************************************************************)
Report == {"clean", "unclean", "timed_out", "cancelled"}

(* RunOutcome: a clean exit may still lack a required output file. *)
Outcome == Report \cup {"missing_output"}

Record == [state : RunState \cup {"absent"},
           transitions : Seq(RunState),
           outcome : Outcome \cup {"none"}]

NoRecord == [state |-> "absent", transitions |-> <<>>, outcome |-> "none"]

CreatedRecord == [state |-> "created", transitions |-> <<>>, outcome |-> "none"]

(* RunRecord::transition on a local copy; its guard is CanTransitionTo. *)
Transition(rec, to) ==
  [rec EXCEPT !.state = to, !.transitions = Append(@, to)]

WithOutcome(rec, o) == [rec EXCEPT !.outcome = o]

(* The record submit_run stores: created, validated and queued at once. *)
QueuedRecord == Transition(Transition(CreatedRecord, "validated"), "queued")

(* Mutant: FinalState that takes the outcome for a state. *)
OutcomeAsState(o) == IF o = "clean" THEN "succeeded" ELSE o

(* The lifecycle verdict execute_run_inner draws from an outcome. *)
FinalState(o) ==
  CASE o = "cancelled" -> "cancelled"
    [] o = "clean"     -> "succeeded"
    [] OTHER           -> "failed"

(***************************************************************************)
(* The events appended for a run when `current` replaces `previous`: one   *)
(* for the creation, then one for every transition past the ones the       *)
(* previous record already held.  An event is the state it announces.      *)
(***************************************************************************)
DeriveRunEvents(previous, current) ==
  (IF previous.state = "absent" THEN <<"created">> ELSE <<>>)
    \o SubSeq(current.transitions,
              Len(previous.transitions) + 1, Len(current.transitions))

(* A record whose retained transitions form a legal path to its state. *)
LegalRecord(rec) ==
  LET path == <<"created">> \o rec.transitions
  IN  /\ rec.state = path[Len(path)]
      /\ \A i \in 1 .. Len(path) - 1 : CanTransitionTo(path[i], path[i + 1])
==============================================================================
