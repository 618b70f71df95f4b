---------------------------- MODULE OrderPromise ----------------------------
(***************************************************************************)
(* What the coordinator promises for the steps of an order, whatever the   *)
(* robots do: a step is waiting or running until it is done, failed or     *)
(* withdrawn, those three are final, and the order's outcome follows from  *)
(* its steps: one failed step fails it, and it completes with its last.    *)
(***************************************************************************)
CONSTANTS Order, Task, OrderOf

VARIABLES
  step,     \* task -> State
  outcome   \* order -> "NONE", "OPEN", "COMPLETED", "FAILED"

TasksOf(o) == {t \in Task : OrderOf[t] = o}

State == {"new", "waiting", "running", "done", "failed", "withdrawn"}

Move ==
  {<<"waiting", "running">>, <<"waiting", "failed">>, <<"running", "waiting">>,
   <<"running", "done">>, <<"running", "failed">>}

OutcomeOf(s, o) ==
  IF \E t \in TasksOf(o) : s[t] = "failed" THEN "FAILED"
  ELSE IF \A t \in TasksOf(o) : s[t] = "done" THEN "COMPLETED"
  ELSE "OPEN"

Init ==
  /\ step = [t \in Task |-> "new"]
  /\ outcome = [o \in Order |-> "NONE"]

Accept(o) ==
  /\ outcome[o] = "NONE" /\ \A t \in TasksOf(o) : step[t] = "new"
  /\ step' = [t \in Task |-> IF t \in TasksOf(o) THEN "waiting" ELSE step[t]]
  /\ outcome' = [outcome EXCEPT ![o] = "OPEN"]

\* Steps of the accepted orders move, any number of them together.
Work ==
  /\ step' \in [Task -> State]
  /\ \A t \in Task : step'[t] # step[t] =>
       outcome[OrderOf[t]] # "NONE" /\ <<step[t], step'[t]>> \in Move
  /\ outcome' = [o \in Order |->
       IF outcome[o] = "NONE" THEN "NONE" ELSE OutcomeOf(step', o)]

\* A withdrawn order is forgotten; the steps it still had are dropped.
Withdraw(o) ==
  /\ outcome[o] # "NONE"
  /\ step' = [t \in Task |->
       IF t \in TasksOf(o) /\ step[t] \in {"waiting", "running"}
       THEN "withdrawn" ELSE step[t]]
  /\ outcome' = [outcome EXCEPT ![o] = "NONE"]

Next == Work \/ \E o \in Order : Accept(o) \/ Withdraw(o)

Spec == Init /\ [][Next]_<<step, outcome>>
=============================================================================
