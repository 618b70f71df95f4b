----------------------------- MODULE SapConfirm -----------------------------
(***************************************************************************)
(* sap-bridge/services/sap_coordinator_bridge.py between SAP and the       *)
(* coordinator: a loop that forwards open warehouse tasks as orders, reads *)
(* the coordinator's state and confirms, parks or reports the tasks it     *)
(* forwarded; with services/pick_result_store.py, which an HTTP handler    *)
(* fills, and clients/traffic_coordinator_client.py.                       *)
(*                                                                         *)
(* Every await is a place where the others move: one action ends at it.    *)
(* A remote call is "ok", "refused", or "lost": done, and answered by a    *)
(* transport error, which no handler of the bridge catches, so that it     *)
(* ends the cycle.                                                         *)
(***************************************************************************)
EXTENDS Integers, FiniteSets

CONSTANTS
  Tasks, Robots,
  Quantities,   \* what a robot may report to have picked
  Modes,        \* configurations: see ModeAssumption
  GracePolls,   \* SAP_TC_GRACE_POLLS
  StepTries,    \* confirm_retry_max
  Retention,    \* MAX_CONFIRMED_RETENTION
  CleanupEvery, \* CLEANUP_INTERVAL
  MaxCopies,    \* bound: orders the coordinator takes for one task
  MaxFaults     \* bound: calls refused or lost, and restarts

\* zewm: a ZEWM client is injected; auto: SAP_TC_AUTO_CONFIRM; naming: what the
\* coordinator lists, "asked" as the bridge and its tests have it, or "plan", the
\* ids that OrderSequencer.plan gives.
ModeAssumption ==
  /\ Modes \subseteq [zewm : BOOLEAN, auto : BOOLEAN, naming : {"asked", "plan"}]
  /\ Quantities \subseteq Nat \ {0}
  /\ {GracePolls, StepTries, CleanupEvery} \subseteq Nat \ {0}
  /\ {Retention, MaxCopies, MaxFaults} \subseteq Nat

ASSUME ModeAssumption

None == "none"

ASSUME NamesAssumption == None \notin Tasks /\ None \notin Robots

Exact == 0         \* confirmed without a quantity
NoQty == -1

VARIABLES
  mode,
  \* the coordinator
  queued, active,  \* copies waiting; the task of each robot
  completed, failed,
  \* SAP
  sap,             \* open tasks, the robot a WHO is assigned to, what is confirmed
  \* the bridge
  submitted, confirmed, assigned, robotFor, review,
  inactive,        \* polls since it was first seen inactive, -1 if it was not
  picks,           \* the pick results
  pc, todo, seen, hand, polls,
  \* history
  reported, faults,
  unsure           \* tasks pruned from the books, or confirmed without an answer

world == <<queued, active, completed, failed>>
books == <<submitted, confirmed, assigned, robotFor, review, inactive>>
vars == <<mode, world, sap, books, picks, pc, todo, seen, hand, polls,
          reported, unsure, faults>>

Saps == [open : SUBSET Tasks, who : [Tasks -> Robots \cup {None}],
         conf : [Tasks -> Quantities \cup {Exact, NoQty}]]
Lists == [active : SUBSET Tasks, done : SUBSET Tasks, failed : SUBSET Tasks]
Hands == [task : Tasks \cup {None}, qty : Quantities \cup {Exact}, tries : 0..StepTries]

TypeOK ==
  /\ mode \in Modes
  /\ queued \in [Tasks -> 0..MaxCopies] /\ active \in [Robots -> Tasks \cup {None}]
  /\ sap \in Saps /\ seen \in Lists /\ hand \in Hands
  /\ \A s \in {completed, failed, submitted, confirmed, assigned, review, todo, unsure} :
       s \subseteq Tasks
  /\ robotFor \in [Tasks -> Robots \cup {None}]
  /\ inactive \in [Tasks -> -1..GracePolls]
  /\ picks \in [Tasks -> Quantities \cup {NoQty}] /\ reported \subseteq Tasks \X Quantities
  /\ pc \in {"rest", "submit", "check", "step2"} /\ polls \in 0..CleanupEvery - 1
  /\ faults \in 0..MaxFaults

Nobody == [t \in Tasks |-> None]
NoPicks == [t \in Tasks |-> NoQty]
Nothing == [active |-> {}, done |-> {}, failed |-> {}]
NoHand == [task |-> None, qty |-> Exact, tries |-> 0]

Init ==
  /\ mode \in Modes
  /\ queued = [t \in Tasks |-> 0] /\ active = [r \in Robots |-> None]
  /\ completed = {} /\ failed = {}
  /\ sap = [open |-> Tasks, who |-> Nobody, conf |-> NoPicks]
  /\ submitted = {} /\ confirmed = {} /\ assigned = {} /\ robotFor = Nobody
  /\ review = {} /\ inactive = [t \in Tasks |-> -1] /\ picks = NoPicks
  /\ pc = "rest" /\ todo = {} /\ seen = Nothing /\ hand = NoHand /\ polls = 0
  /\ reported = {} /\ unsure = {} /\ faults = 0

Fault == faults < MaxFaults /\ faults' = faults + 1

-----------------------------------------------------------------------------
(* The coordinator, its robots and the pick reports.                       *)

Assign(r, t) ==
  /\ queued[t] > 0 /\ active[r] = None
  /\ queued' = [queued EXCEPT ![t] = @ - 1] /\ active' = [active EXCEPT ![r] = t]
  /\ UNCHANGED <<completed, failed>>

Complete(r) ==
  /\ active[r] # None
  /\ completed' = completed \cup {active[r]} /\ active' = [active EXCEPT ![r] = None]
  /\ UNCHANGED <<queued, failed>>

\* The robot is lost: its task is queued again, or has no retries left.
Lose(r) ==
  /\ active[r] # None /\ active' = [active EXCEPT ![r] = None]
  /\ \/ /\ queued[active[r]] < MaxCopies /\ failed' = failed
        /\ queued' = [queued EXCEPT ![active[r]] = @ + 1]
     \/ failed' = failed \cup {active[r]} /\ queued' = queued
  /\ completed' = completed

\* POST /api/v1/pick-result: insert or overwrite.
Record(t, q) ==
  /\ t \in completed \cup {active[r] : r \in Robots} /\ ~\E p \in reported : p = <<t, q>>
  /\ picks' = [picks EXCEPT ![t] = q] /\ reported' = reported \cup {<<t, q>>}

World ==
  /\ \/ /\ \/ (\E r \in Robots, t \in Tasks : Assign(r, t)) /\ faults' = faults
           \/ (\E r \in Robots : Complete(r)) /\ faults' = faults
           \/ (\E r \in Robots : Lose(r)) /\ Fault
        /\ UNCHANGED <<picks, reported>>
     \/ /\ \E t \in Tasks, q \in Quantities : Record(t, q)
        /\ UNCHANGED <<world, faults>>
  /\ UNCHANGED <<mode, sap, books, pc, todo, seen, hand, polls, unsure>>

-----------------------------------------------------------------------------
(* Forwarding.                                                             *)

\* _run, _poll_sap_tasks: the listing.  One that fails ends the cycle as it began.
PollSap ==
  /\ pc = "rest" /\ pc' = "submit" /\ todo' = sap.open \ submitted
  /\ UNCHANGED <<mode, world, sap, books, picks, seen, hand, polls, reported,
                 unsure, faults>>

\* submit_order_async: an order that was taken but not answered is sent again.
Submit(t, answer) ==
  /\ pc = "submit" /\ t \in todo /\ todo' = todo \ {t}
  /\ IF answer = "ok" THEN faults' = faults ELSE Fault
  /\ IF answer = "refused" THEN queued' = queued
     ELSE queued[t] < MaxCopies /\ queued' = [queued EXCEPT ![t] = @ + 1]
  /\ submitted' = IF answer = "ok" THEN submitted \cup {t} ELSE submitted
  /\ UNCHANGED <<mode, active, completed, failed, sap, confirmed, assigned, robotFor,
                 review, inactive, picks, pc, seen, hand, polls, reported, unsure>>

-----------------------------------------------------------------------------
(* Reading the coordinator's state.                                        *)

OrderId(t) == <<"SAP", t>>
ActiveId(t) == IF mode.naming = "plan" THEN <<"SAP", t, 0>> ELSE OrderId(t)
DoneId(t) == IF mode.naming = "plan" THEN <<"SAP", t, 0>> ELSE <<t>>

\* _strip_sap_prefix finds the task of an id that is SAP- and a number.
Strips(id, t) == id = OrderId(t)

\* The poll count, by which the inactive tasks age, moves whatever the answer.
Aged == [t \in Tasks |-> IF inactive[t] \in 0..GracePolls - 1 THEN inactive[t] + 1
                         ELSE inactive[t]]
Known == [t \in Tasks |->
            LET on == {r \in Robots : /\ active[r] # None /\ t \in submitted
                                      /\ Strips(ActiveId(active[r]), t)}
            IN  IF on = {} THEN robotFor[t] ELSE CHOOSE r \in on : TRUE]

\* _poll_coordinator_state up to its loop over the submitted tasks.
PollState(answers) ==
  /\ pc = "submit" /\ (todo = {} \/ \A t \in todo : queued[t] = MaxCopies)
  /\ polls' = (polls + 1) % CleanupEvery /\ inactive' = Aged
  /\ IF answers
     THEN /\ seen' = [active |-> {active[r] : r \in Robots} \ {None},
                      done |-> completed, failed |-> failed]
          /\ robotFor' = Known /\ pc' = "check" /\ faults' = faults
          /\ todo' = submitted \ (confirmed \cup review)
     ELSE Fault /\ pc' = "rest" /\ todo' = {} /\ UNCHANGED <<seen, robotFor>>
  /\ UNCHANGED <<mode, world, sap, submitted, confirmed, assigned, review, picks,
                 hand, reported, unsure>>

IsActive(t) == OrderId(t) \in {ActiveId(u) : u \in seen.active}
IsDone(t) == ~IsActive(t) /\ <<t>> \in {DoneId(u) : u \in seen.done}
IsFailed(t) == ~IsActive(t) /\ ~IsDone(t) /\ <<t>> \in {DoneId(u) : u \in seen.failed}
IsMissing(t) == ~IsActive(t) /\ ~IsDone(t) /\ ~IsFailed(t)

\* One round of the loop ends, or an exception ends the cycle.
Looking(t) == pc = "check" /\ t \in todo
Proceed(t) == todo' = todo \ {t} /\ pc' = "check" /\ hand' = NoHand
\* mutant: nothing catches the exception, and the loop is over
AbortEnds == todo' = {} /\ pc' = "dead" /\ hand' = NoHand
Abort == todo' = {} /\ pc' = "rest" /\ hand' = NoHand
rest == <<mode, world, seen, polls, reported, submitted>>

\* The ways a call may end that costs a fault or not; "lost" aborts the cycle.
Answer(answer, t) ==
  /\ IF answer = "ok" THEN faults' = faults ELSE Fault
  /\ IF answer = "lost" THEN Abort ELSE Proceed(t)

-----------------------------------------------------------------------------
(* Still active: _register_assignment.                                     *)

StillActive(t, answer) ==
  /\ Looking(t) /\ IsActive(t)
  /\ inactive' = [inactive EXCEPT ![t] = -1]
  /\ IF ~mode.zewm \/ robotFor[t] = None \/ t \in assigned \/ sap.who[t] # None
     THEN answer = "ok" /\ UNCHANGED <<sap, assigned>>
     ELSE /\ sap' = IF answer = "refused" THEN sap
                    ELSE [sap EXCEPT !.who[t] = robotFor[t]]
          /\ assigned' = IF answer = "ok" THEN assigned \cup {t} ELSE assigned
  /\ Answer(answer, t)
  /\ UNCHANGED <<rest, unsure, confirmed, robotFor, review, picks>>

-----------------------------------------------------------------------------
(* Completed: the two steps of ZEWM, or the backend's confirm_task.        *)

Confirmed(t, what) ==
  [sap EXCEPT !.conf[t] = IF @ = NoQty THEN what ELSE @, !.open = @ \ {t}]

\* mutant: a confirmed task is not entered in the books
ClosedUnlisted(t) ==
  /\ confirmed' = confirmed
  /\ inactive' = [inactive EXCEPT ![t] = -1]

\* The bridge's books of a task that is confirmed.
Closed(t) ==
  /\ confirmed' = confirmed \cup {t}
  /\ inactive' = [inactive EXCEPT ![t] = -1]

Park(t) ==
  /\ review' = review \cup {t} /\ Proceed(t)
  /\ UNCHANGED <<rest, unsure, sap, confirmed, assigned, robotFor, inactive, picks, faults>>

ParkUnknown(t) == Looking(t) /\ IsDone(t) /\ mode.zewm /\ robotFor[t] = None /\ Park(t)

\* mutant: a missing pick result is made up
PickMadeUp(t) == IF picks[t] = NoQty THEN CHOOSE q \in Quantities : TRUE ELSE picks[t]

\* PickResultStore.get
Pick(t) == picks[t]

\* Step 1 commits at once; "already confirmed" is no error.  Without a pick result
\* the task waits for a later cycle.
StepOne(t, answer) ==
  /\ Looking(t) /\ IsDone(t) /\ mode.zewm /\ robotFor[t] # None
  /\ IF answer = "ok" THEN faults' = faults ELSE Fault
  /\ CASE answer = "lost" -> Abort
       [] answer = "refused" -> Proceed(t)
       [] answer = "ok" ->
            IF Pick(t) = NoQty THEN Proceed(t)
            ELSE /\ hand' = [task |-> t, qty |-> Pick(t), tries |-> StepTries]
                 /\ pc' = "step2" /\ todo' = todo
  /\ UNCHANGED <<rest, unsure, sap, books, picks>>

\* The retries are used up: manual review.
RanOut(t) == review' = review \cup {t} /\ confirmed' = confirmed

\* One attempt of step 2.  The pick result is the one read before the first.
StepTwo(answer) ==
  LET t == hand.task
  IN  /\ pc = "step2"
      /\ IF answer = "ok" THEN faults' = faults ELSE Fault
      /\ sap' = IF answer = "refused" THEN sap ELSE Confirmed(t, hand.qty)
      /\ CASE answer = "ok" ->
                /\ Closed(t) /\ Proceed(t) /\ review' = review
                /\ picks' = [picks EXCEPT ![t] = NoQty]
                /\ robotFor' = [robotFor EXCEPT ![t] = None]
           [] answer = "refused" /\ hand.tries > 1 ->
                /\ hand' = [hand EXCEPT !.tries = @ - 1]
                /\ UNCHANGED <<confirmed, review, inactive, robotFor, picks, pc, todo>>
           [] answer = "refused" /\ hand.tries = 1 ->
                RanOut(t) /\ Proceed(t) /\ UNCHANGED <<inactive, robotFor, picks>>
           [] answer = "lost" ->
                Abort /\ UNCHANGED <<confirmed, review, inactive, robotFor, picks>>
      /\ unsure' = IF answer = "lost" THEN unsure \cup {t} ELSE unsure
      /\ UNCHANGED <<rest, assigned>>

\* What is left to a task with no signal once the grace period is over.
Overdue(t) == mode.auto /\ inactive[t] >= GracePolls

\* backend.confirm_task, for a completed task or, under AUTO_CONFIRM, a missing one.
\* The WM backend answers False for a call that was lost: the task stays.
BackendConfirm(t, answer, raises) ==
  /\ Looking(t) /\ ~mode.zewm
  /\ IsDone(t) \/ (IsMissing(t) /\ Overdue(t))
  /\ sap' = IF answer = "refused" THEN sap ELSE Confirmed(t, Exact)
  /\ IF answer = "ok" THEN faults' = faults /\ Closed(t)
     ELSE Fault /\ UNCHANGED <<confirmed, inactive>>
  /\ IF answer = "lost" /\ raises THEN Abort ELSE Proceed(t)
  /\ unsure' = IF answer = "lost" THEN unsure \cup {t} ELSE unsure
  /\ UNCHANGED <<rest, assigned, robotFor, review, picks>>

-----------------------------------------------------------------------------
(* Failed, or in no list.                                                  *)

\* _handle_failure: unassign_robot_who; what SAP refuses is logged.
Failed(t, answer) ==
  /\ Looking(t) /\ IsFailed(t)
  /\ LET calls == mode.zewm /\ robotFor[t] # None
     IN  /\ calls \/ answer = "ok"
         /\ sap' = IF calls /\ answer # "refused" /\ sap.who[t] = robotFor[t]
                   THEN [sap EXCEPT !.who[t] = None] ELSE sap
  /\ IF answer = "lost" THEN UNCHANGED <<review, robotFor, inactive>>
     ELSE /\ review' = review \cup {t}
          /\ robotFor' = [robotFor EXCEPT ![t] = None]
          /\ inactive' = [inactive EXCEPT ![t] = -1]
  /\ Answer(answer, t)
  /\ UNCHANGED <<rest, unsure, confirmed, assigned, picks>>

ParkSilent(t) ==
  Looking(t) /\ IsMissing(t) /\ mode.zewm /\ inactive[t] >= GracePolls /\ Park(t)

Wait(t) ==
  /\ Looking(t) /\ IsMissing(t)
  /\ inactive[t] < GracePolls \/ (~mode.zewm /\ ~mode.auto)
  /\ inactive' = [inactive EXCEPT ![t] = IF @ = -1 THEN 0 ELSE @]
  /\ Proceed(t)
  /\ UNCHANGED <<rest, unsure, sap, confirmed, assigned, robotFor, review, picks, faults>>

-----------------------------------------------------------------------------
(* The end of a cycle, and of the process.                                 *)

\* The cleanup: robots of closed tasks, and whatever is beyond the retention, in
\* no order.
Finish ==
  /\ pc = "check" /\ todo = {} /\ pc' = "rest" /\ seen' = Nothing
  /\ IF polls # 0 THEN UNCHANGED <<robotFor, confirmed, unsure>>
     ELSE /\ robotFor' = [t \in Tasks |->
               IF t \in confirmed \cup review THEN None ELSE robotFor[t]]
          /\ IF Cardinality(confirmed) <= Retention THEN UNCHANGED <<confirmed, unsure>>
             ELSE \E kept \in SUBSET confirmed :
                    /\ Cardinality(kept) = Retention /\ confirmed' = kept
                    /\ unsure' = unsure \cup (confirmed \ kept)
  /\ UNCHANGED <<mode, world, sap, submitted, assigned, review, inactive, picks, todo,
                 hand, polls, reported, faults>>

\* The process is restarted: all the bridge's books are in memory.
Restart ==
  /\ Fault
  /\ submitted' = {} /\ confirmed' = {} /\ assigned' = {} /\ robotFor' = Nobody
  /\ review' = {} /\ inactive' = [t \in Tasks |-> -1] /\ picks' = NoPicks
  /\ pc' = "rest" /\ todo' = {} /\ seen' = Nothing /\ hand' = NoHand /\ polls' = 0
  /\ UNCHANGED <<mode, world, sap, reported, unsure>>

Answers == {"ok", "refused", "lost"}

Bridge ==
  \/ PollSap \/ Finish
  \/ \E answers \in BOOLEAN : PollState(answers)
  \/ \E a \in Answers : StepTwo(a)
  \/ \E t \in Tasks : ParkUnknown(t) \/ ParkSilent(t) \/ Wait(t)
  \/ \E t \in Tasks, a \in Answers :
       \/ Submit(t, a) \/ StillActive(t, a) \/ StepOne(t, a) \/ Failed(t, a)
       \/ \E raises \in BOOLEAN : BackendConfirm(t, a, raises)

Next == World \/ Bridge \/ Restart

\* The loop goes on, calls are answered, and every drive comes to an end.
DriveEnds == World /\ \E r \in Robots : active[r] # None /\ active'[r] = None

Fairness == WF_vars(Bridge) /\ WF_vars(DriveEnds)

Spec == Init /\ [][Next]_vars /\ Fairness

-----------------------------------------------------------------------------
(* Properties.                                                             *)

\* SAP hears that a task is done only after a robot has done it, and, from ZEWM,
\* with a quantity that was reported for that task: through resubmissions, retried
\* steps, overwritten pick results and restarts.
ConfirmIsEarned ==
  \A t \in Tasks : sap.conf[t] # NoQty /\ ~mode.auto =>
    /\ t \in completed
    /\ mode.zewm => <<t, sap.conf[t]>> \in reported

\* A task that is parked for manual review is one that SAP still has open, unless
\* the pruning had forgotten it or SAP's answer was lost: in every configuration,
\* also where AUTO_CONFIRM confirms a task on a guess.
ParkedIsOpen == \A t \in review : sap.conf[t] = NoQty \/ t \in unsure

\* A completed task whose pick result has come is confirmed, or parked, as long as
\* the process lives: also after calls that were lost or refused.
PickedIsSettled ==
  \A t \in Tasks :
    (t \in completed \cap submitted /\ picks[t] # NoQty /\ mode.zewm)
      ~> (sap.conf[t] # NoQty \/ t \in review \/ t \notin submitted)

\* A task that the state just read shows on a robot is not parked as one of which
\* there is no trace.
DrivenIsNotParked == [][\A t \in seen.active : t \in review \/ t \notin review']_vars

=============================================================================
