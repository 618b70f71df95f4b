----------------------------- MODULE Resources -----------------------------
(***************************************************************************)
(* Charger bays, lifts and zones, and how the coordinator's tick hands     *)
(* them out: it expires what was held too long, queues a charge task for   *)
(* each robot that is low, and dispatches the queue, reserving the lifts   *)
(* of a path.  A tick runs to its end here (Service lets two of them       *)
(* interleave); its steps are the phases below.  The charger's occupy and  *)
(* release have no caller, so a bay is only ever reserved and expired.     *)
(***************************************************************************)
EXTENDS Integers, Sequences, FiniteSets

CONSTANTS
  Robot, Bay, Lift, Job,
  Draining,       \* bound: the robots whose battery runs down
  Nobody,
  ChargeOf(_),    \* the task id charge:<robot>
  RouteOf(_),     \* of a task: the lift of each lane of its path, or Nobody
  BayHold,        \* reservation_hold_seconds, in ticks
  LiftHold,       \* HOLD_TIMEOUT, in ticks
  MaxTries        \* MAX_TASK_RETRIES

ASSUME ResourcesAssumption ==
  Nobody \notin Robot /\ {BayHold, LiftHold, MaxTries} \subseteq Nat

Charges == {ChargeOf(r) : r \in Robot}
AnyTask == Job \cup Charges

VARIABLES
  low,    \* is the battery at or below the threshold?
  mode,   \* what the robot reports: IDLE (also when tasking) or CHARGING
  bays,   \* reserved_for and how long ago
  lifts,  \* state, current_user and the ticks since it was requested
  tasks,  \* _task_queue
  tries,  \* _task_retries
  drives, \* _active_assignments
  at,     \* the next waypoint of each robot
  phase,  \* where the tick is: idle, charge, dispatch
  todo    \* the robots or tasks that the phase has still to look at

rvars == <<low, mode, bays, lifts, tasks, tries, drives, at, phase, todo>>

FreeBay == [for |-> Nobody, age |-> 0]
FreeLift == [state |-> "IDLE", user |-> Nobody, age |-> 0]

ResourcesTypeOK ==
  /\ low \in [Robot -> BOOLEAN] /\ mode \in [Robot -> {"IDLE", "CHARGING"}]
  /\ bays \in [Bay -> [for : Robot \cup {Nobody}, age : 0..BayHold]]
  /\ lifts \in [Lift -> [state : {"IDLE", "MOVING", "OCCUPIED"}, user : Robot \cup {Nobody},
                         age : 0..LiftHold]]
  /\ tasks \subseteq AnyTask /\ tries \in [AnyTask -> 0..MaxTries]
  /\ drives \in [Robot -> AnyTask \cup {Nobody}]
  /\ \A r \in Robot : at[r] \in 0..(IF drives[r] = Nobody THEN 0 ELSE Len(RouteOf(drives[r])))
  /\ phase \in {"idle", "charge", "dispatch"} /\ todo \subseteq Robot \cup AnyTask

ResourcesInit ==
  /\ low = [r \in Robot |-> FALSE] /\ mode = [r \in Robot |-> "IDLE"]
  /\ bays = [b \in Bay |-> FreeBay] /\ lifts = [l \in Lift |-> FreeLift]
  /\ tasks = Job /\ tries = [t \in AnyTask |-> 0]
  /\ drives = [r \in Robot |-> Nobody] /\ at = [r \in Robot |-> 0]
  /\ phase = "idle" /\ todo = {}

-----------------------------------------------------------------------------
(* The robots: a battery runs down, a charge ends. *)
Drain(r) ==
  /\ phase = "idle" /\ r \in Draining /\ ~low[r] /\ mode[r] = "IDLE" /\ low' = [low EXCEPT ![r] = TRUE]
  /\ UNCHANGED <<mode, bays, lifts, tasks, tries, drives, at, phase, todo>>

Charged(r) ==
  /\ phase = "idle" /\ mode[r] = "CHARGING"
  /\ low' = [low EXCEPT ![r] = FALSE] /\ mode' = [mode EXCEPT ![r] = "IDLE"]
  /\ UNCHANGED <<bays, lifts, tasks, tries, drives, at, phase, todo>>

(* report_progress: the robot reaches the next lane.  The lift of the lane *)
(* before the one it just finished is released, if it is still its own;    *)
(* the last lane ends the assignment, at a charger with a charge.          *)
Advance(r) ==
  /\ phase = "idle" /\ drives[r] # Nobody
  /\ LET path == RouteOf(drives[r])
         idx == at[r] + 1
         left == IF idx >= 2 THEN path[idx - 1] ELSE Nobody
         done == idx = Len(path)
     IN /\ lifts' = [l \in Lift |-> IF l = left /\ lifts[l].user = r THEN FreeLift ELSE lifts[l]]
        /\ at' = [at EXCEPT ![r] = IF done THEN 0 ELSE idx]
        /\ drives' = [drives EXCEPT ![r] = IF done THEN Nobody ELSE @]
        /\ mode' = [mode EXCEPT ![r] = IF done /\ drives[r] \in Charges /\ low[r]
                                       THEN "CHARGING" ELSE @]
  /\ UNCHANGED <<low, bays, tasks, tries, phase, todo>>

(* _requeue_task: tries are counted, and the last one drops the task. *)
Requeue(t, q) ==
  /\ tries' = [tries EXCEPT ![t] = IF @ < MaxTries THEN @ + 1 ELSE @]
  /\ tasks' = IF tries'[t] >= MaxTries THEN q \ {t} ELSE q \cup {t}

(* _reap_offline_assignments: the task of a lost robot is queued again;    *)
(* the lifts it reserved stay with it.                                     *)
Lose(r) ==
  /\ phase = "idle" /\ drives[r] # Nobody
  /\ Requeue(drives[r], tasks)
  /\ drives' = [drives EXCEPT ![r] = Nobody] /\ at' = [at EXCEPT ![r] = 0]
  /\ UNCHANGED <<low, mode, bays, lifts, phase, todo>>

-----------------------------------------------------------------------------
(* ChargerReservation._expire and LiftManager.tick, for one bay and lift.  *)
BayLater(b) == IF b.for = Nobody THEN b
               ELSE IF b.age >= BayHold THEN FreeBay ELSE [b EXCEPT !.age = @ + 1]
(* Mutant of LiftLater: an occupied lift is not timed out. *)
LiftLaterForgets(l) ==
  IF l.state = "MOVING" THEN [l EXCEPT !.state = "OCCUPIED"] ELSE l
LiftLater(l) ==
  IF l.state = "MOVING" THEN [l EXCEPT !.state = "OCCUPIED", !.age = @ + 1]
  ELSE IF l.state = "OCCUPIED" /\ l.age >= LiftHold THEN FreeLift
  ELSE IF l.state = "OCCUPIED" THEN [l EXCEPT !.age = @ + 1] ELSE l

TickResources ==
  /\ phase = "idle" /\ phase' = "charge" /\ todo' = Robot
  /\ bays' = [b \in Bay |-> BayLater(bays[b])]
  /\ lifts' = [l \in Lift |-> LiftLater(lifts[l])]
  /\ UNCHANGED <<low, mode, tasks, tries, drives, at>>

(* _ensure_charging looks at a robot: it needs a charge task now. *)
Needs(r) == mode[r] # "CHARGING" /\ low[r] /\ drives[r] = Nobody /\ ChargeOf(r) \notin tasks

(* Mutant of Bays: the hold is only looked at, not who has it. *)
BaysAny(r) == LET own == {b \in Bay : bays[b].for = r}
              IN IF own # {} THEN own ELSE {b \in Bay : bays[b].for = Nobody \/ bays[b].age > 0}

(* reserve: the bay that is its own already, or one that is free. *)
Bays(r) == LET own == {b \in Bay : bays[b].for = r}
           IN IF own # {} THEN own ELSE {b \in Bay : bays[b].for = Nobody}

EnsureCharging(r) ==
  /\ phase = "charge" /\ r \in todo /\ todo' = todo \ {r} /\ UNCHANGED phase
  /\ \/ /\ Needs(r)
        /\ \E b \in Bays(r) : bays' = [bays EXCEPT ![b] = [for |-> r, age |-> 0]]
        /\ tasks' = tasks \cup {ChargeOf(r)}
     \/ (~Needs(r) \/ Bays(r) = {}) /\ UNCHANGED <<bays, tasks>>
  /\ UNCHANGED <<low, mode, lifts, tries, drives, at>>

StartDispatch ==
  /\ phase = "charge" /\ todo = {} /\ phase' = "dispatch" /\ todo' = tasks
  /\ UNCHANGED <<low, mode, bays, lifts, tasks, tries, drives, at>>

Candidates == {r \in Robot : drives[r] = Nobody}

(* allocate: one of the idle robots.  All can do all tasks, and which of    *)
(* them is the most useful is left open.                                   *)
Allocated == {r \in Candidates : mode[r] = "IDLE"}

(* _reserve_lifts_for_assignment: the lifts of the path in order; the      *)
(* first that is another's ends it, and the ones before it stay reserved.  *)
Blocked(r, path) == {i \in 1..Len(path) : /\ path[i] # Nobody
                                          /\ lifts[path[i]].state # "IDLE"
                                          /\ lifts[path[i]].user # r}
Reserved(r, path) ==
  {path[i] : i \in {j \in 1..Len(path) : /\ path[j] # Nobody /\ lifts[path[j]].user # r
                                         /\ \A k \in Blocked(r, path) : j < k}}

(* One task of _dispatch_pending_tasks, charge tasks first.  Allocation    *)
(* takes any idle robot: a charge task is not bound to the one it is for.  *)
Dispatch(t) ==
  /\ phase = "dispatch" /\ t \in todo /\ (t \in Job => todo \cap Charges = {})
  /\ todo' = todo \ {t}
  /\ \/ /\ tries[t] >= MaxTries /\ tasks' = tasks \ {t} /\ UNCHANGED <<tries, lifts, drives, at>>
     \/ /\ tries[t] < MaxTries /\ Allocated = {} /\ Requeue(t, tasks)
        /\ UNCHANGED <<lifts, drives, at>>
     \/ /\ tries[t] < MaxTries
        /\ \E r \in Allocated :
             /\ lifts' = [l \in Lift |-> IF l \in Reserved(r, RouteOf(t))
                                         THEN [state |-> "MOVING", user |-> r, age |-> 0]
                                         ELSE lifts[l]]
             /\ IF Blocked(r, RouteOf(t)) # {} THEN Requeue(t, tasks) /\ UNCHANGED <<drives, at>>
                ELSE /\ drives' = [drives EXCEPT ![r] = t] /\ at' = [at EXCEPT ![r] = 0]
                     /\ tasks' = tasks \ {t} /\ UNCHANGED tries
  /\ UNCHANGED <<low, mode, bays, phase>>

EndTick ==
  /\ phase = "dispatch" /\ todo = {} /\ phase' = "idle"
  /\ UNCHANGED <<low, mode, bays, lifts, tasks, tries, drives, at, todo>>

TickStep == \/ TickResources \/ StartDispatch \/ EndTick
            \/ \E r \in Robot : EnsureCharging(r)
            \/ \E t \in AnyTask : Dispatch(t)

ResourcesNext == TickStep \/ \E r \in Robot : Drain(r) \/ Charged(r) \/ Advance(r) \/ Lose(r)

ResourcesSpec == ResourcesInit /\ [][ResourcesNext]_rvars

ResourcesFairness == WF_rvars(TickStep)

-----------------------------------------------------------------------------
(* A robot that reserved a bay keeps it for the whole hold, however many   *)
(* robots are low, and has one bay only.  (reserve, _expire)               *)
BayIsKept ==
  [][\A b \in Bay : /\ (bays[b].for # Nobody /\ bays'[b].for # bays[b].for) => bays[b].age >= BayHold
                    /\ bays'[b].for # Nobody => \A c \in Bay \ {b} : bays'[c].for # bays'[b].for]_rvars

(* Whoever reserved a lift - a robot that was lost, one whose dispatch     *)
(* stopped at the next lift, one that ends its path in it - the lift is    *)
(* free again later.  (LiftManager.tick, HOLD_TIMEOUT)                     *)
LiftFrees == \A l \in Lift : lifts[l].state # "IDLE" ~> lifts[l].state = "IDLE"
=============================================================================
