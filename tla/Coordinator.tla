---------------------------- MODULE Coordinator -----------------------------
(***************************************************************************)
(* core/coordinator.py, RobotPlatformCoordinator: orders become tasks, the *)
(* platform loop hands the queued tasks to robots, takes them back from    *)
(* robots it lost, and gives up after MaxRetries.  With it the parts whose *)
(* state decides that: core/platform/failover_degrade.py, and of           *)
(* core/adapter/fleet_adapter.py the locked waypoint contract.             *)
(*                                                                         *)
(* A task id may be in the queue and on robots several times, when its     *)
(* order was submitted again; the queue is kept as the number of copies.   *)
(* Which robot the allocator prefers, and whether capability, a lift or a  *)
(* red intersection refuses it, is left open, and so is when the adapter's *)
(* breaker opens and closes.  Tasks have no deadline, the map has no       *)
(* charger lane (_ensure_charging returns at once), robots do not reboot,  *)
(* and the two logs are read before they drop their oldest entry.          *)
(***************************************************************************)
EXTENDS Integers, Sequences, FiniteSets

CONSTANTS
  Robot, Order, Task, Lane, None,
  OrderOf,      \* task -> its order
  Step,         \* task -> its index in order.actions
  Primary,      \* task -> the shortest lane path of its endpoints
  Detour,       \* task -> the next best one
  Blockable,    \* bound: the lanes an operator blocks
  Fading,       \* bound: the robots that fall silent
  Tripping,     \* bound: the robots whose breaker trips
  MaxRetries,   \* MAX_TASK_RETRIES
  MaxSubmits    \* bound: how often one order is submitted

ASSUME OrderAssumption ==
  /\ OrderOf \in [Task -> Order] /\ Step \in [Task -> Nat]
  /\ MaxRetries \in Nat \ {0} /\ MaxSubmits \in Nat
ASSUME RouteAssumption ==
  /\ Primary \in [Task -> Seq(Lane)] /\ Detour \in [Task -> Seq(Lane)]
  /\ \A t \in Task : Primary[t] # <<>> /\ Detour[t] # <<>>
  /\ Blockable \subseteq Lane

LastOf(p) == p[Len(p)]
LanesOf(p) == {p[i] : i \in 1..Len(p)}
Ends(p) == <<p[1], LastOf(p)>>

\* The paths an assignment of t may have: a route, or [start_lane, end_lane].
Route(t) == {Primary[t], Detour[t]}
PathOf(t) == Route(t) \cup {Ends(p) : p \in Route(t)}
Path == UNION {PathOf(t) : t \in Task}
Assignment == [task : Task, path : Path]
Contract == [path : Path \cup {<<>>}, idx : Nat]

ASSUME FleetAssumption ==
  /\ IsFiniteSet(Robot) /\ Tripping \subseteq Robot
  /\ None \notin Task /\ None \notin Assignment

VARIABLES
  queue,       \* _task_queue: task -> number of copies waiting
  retries,     \* _task_retries
  status,      \* order.status of the plan, "NONE" without a plan
  completion,  \* _order_completion, of all orders
  completed,   \* _recently_completed: task -> number of entries
  failed,      \* _recently_failed: task -> number of entries
  active,      \* _active_assignments: robot -> assignment or None
  contract,    \* AdapterRegistry: robot -> locked path, next waypoint
  blocked,     \* SemanticOverlay.blocked_lanes
  open,        \* the robots whose breaker is OPEN
  health,      \* RobotFleetState, and the degraded flag of the last uplink
  submitted,   \* history: order -> number of submissions
  cancelled,   \* history: task -> number of copies removed by cancel_order
  banned       \* history: robots found silent and not recovered since

vars == <<queue, retries, status, completion, completed, failed, active,
          contract, blocked, open, health, submitted, cancelled, banned>>
orderVars == <<status, completion, completed, failed, submitted, cancelled>>
robotVars == <<active, contract, open, health, banned>>

Health == [age : {"fresh", "late", "gone"},   \* up to 3 s, up to 60 s, longer
           online : BOOLEAN, degraded : BOOLEAN, accepts : BOOLEAN,
           stamped : BOOLEAN]

TypeOK ==
  /\ queue \in [Task -> 0..MaxSubmits]
  /\ retries \in [Task -> Nat]
  /\ status \in [Order -> {"NONE", "PLANNED", "EXECUTING", "COMPLETED", "FAILED"}]
  /\ completion \subseteq Task
  /\ \A log \in {completed, failed, cancelled} : log \in [Task -> 0..MaxSubmits]
  /\ submitted \in [Order -> 0..MaxSubmits]
  /\ active \in [Robot -> Assignment \cup {None}]
  /\ contract \in [Robot -> Contract]
  /\ blocked \subseteq Lane /\ open \subseteq Robot /\ banned \subseteq Robot
  /\ health \in [Robot -> Health]

\* The fleet has reported once, and no order has come in.
Init ==
  /\ queue = [t \in Task |-> 0] /\ retries = [t \in Task |-> 0]
  /\ status = [o \in Order |-> "NONE"] /\ completion = {}
  /\ completed = [t \in Task |-> 0] /\ failed = [t \in Task |-> 0]
  /\ cancelled = [t \in Task |-> 0] /\ submitted = [o \in Order |-> 0]
  /\ active = [r \in Robot |-> None]
  /\ contract = [r \in Robot |-> [path |-> <<>>, idx |-> 1]]
  /\ blocked = {} /\ open = {} /\ banned = {}
  /\ health = [r \in Robot |-> [age |-> "fresh", online |-> TRUE,
                 degraded |-> FALSE, accepts |-> TRUE, stamped |-> FALSE]]

TasksOf(o) == {t \in Task : OrderOf[t] = o}
Busy == {r \in Robot : active[r] # None}
Holders(R, t) == {r \in R \cap Busy : active[r].task = t}

-----------------------------------------------------------------------------
\* submit_order: the plan replaces an older one of the same id.
Submit(o) ==
  /\ submitted[o] < MaxSubmits
  /\ submitted' = [submitted EXCEPT ![o] = @ + 1]
  /\ status' = [status EXCEPT ![o] = "PLANNED"]
  /\ completion' = completion \ TasksOf(o)
  /\ queue' = [t \in Task |-> IF OrderOf[t] = o THEN queue[t] + 1 ELSE queue[t]]
  /\ retries' = [t \in Task |-> IF OrderOf[t] = o THEN 0 ELSE retries[t]]
  /\ UNCHANGED <<completed, failed, cancelled, blocked, robotVars>>

\* cancel_order: every copy of its tasks goes; the robots get a HOLD.
Cancel(o) ==
  /\ status[o] # "NONE"
  /\ status' = [status EXCEPT ![o] = "NONE"]
  /\ queue' = [t \in Task |-> IF OrderOf[t] = o THEN 0 ELSE queue[t]]
  /\ active' = [r \in Robot |->
       IF r \in Busy /\ OrderOf[active[r].task] = o THEN None ELSE active[r]]
  /\ cancelled' = [t \in Task |->
       IF OrderOf[t] = o
       THEN cancelled[t] + queue[t] + Cardinality(Holders(Robot, t))
       ELSE cancelled[t]]
  /\ UNCHANGED <<retries, completion, completed, failed, contract, blocked,
                 open, health, submitted, banned>>

-----------------------------------------------------------------------------
(* _requeue_task for n copies of a task that has come back `tried` times:  *)
(* each return counts, and from MaxRetries on the copy is failed instead.  *)

\* mutant: the limit is tested before the return is counted
KeptLate(tried, n) == Cardinality({i \in 1..n : tried + i <= MaxRetries})

Kept(tried, n) == Cardinality({i \in 1..n : tried + i < MaxRetries})

\* mutant: the limit itself is not yet past, for the failed log
DroppedLate(tried, n) == Cardinality({i \in 1..n : tried + i > MaxRetries})

Dropped(tried, n) == Cardinality({i \in 1..n : tried + i >= MaxRetries})

\* mutant: the new count is not stored
TriedNever(tried, n) == tried

\* Copies of one id share the count, so it may go past the limit.
Tried(tried, n) == tried + n

\* mutant: a task that runs out of returns does not fail its order
StatusIgnoresFailure(failing, started) ==
  [o \in Order |->
     IF status[o] = "PLANNED" /\ \E t \in started : OrderOf[t] = o
     THEN "EXECUTING" ELSE status[o]]

\* mutant: handing out a step restarts an order that had failed
StatusRestarts(failing, started) ==
  [o \in Order |->
     IF status[o] = "NONE" THEN "NONE"
     ELSE IF \E t \in failing : OrderOf[t] = o THEN "FAILED"
     ELSE IF \E t \in started : OrderOf[t] = o THEN "EXECUTING" ELSE status[o]]

\* _fail_task and _mark_order_executing
StatusAfter(failing, started) ==
  [o \in Order |->
     IF status[o] = "NONE" THEN "NONE"
     ELSE IF \E t \in failing : OrderOf[t] = o THEN "FAILED"
     ELSE IF status[o] = "PLANNED" /\ \E t \in started : OrderOf[t] = o
     THEN "EXECUTING" ELSE status[o]]

(* _build_assignment for a task with the endpoints of `from`: without a    *)
(* route around the blocks the path is [start_lane, end_lane].             *)
PathFor(t, from, block) ==
  IF LanesOf(Primary[t]) \cap block = {} THEN Primary[t]
  ELSE IF LanesOf(Detour[t]) \cap block = {} THEN Detour[t]
  ELSE Ends(from)

-----------------------------------------------------------------------------
\* FailoverDegrade

\* observe, manual_recover and stamp on one robot's record
Observed(h) ==
  [h EXCEPT !.age = "fresh", !.online = TRUE, !.stamped = h.degraded]

Recovered(h) == [h EXCEPT !.degraded = FALSE, !.accepts = TRUE]

\* mutant: going offline lifts the ban on new tasks with the speed cap
LivenessOffline(h) ==
  IF ~ h.online \/ h.age = "fresh" THEN h
  ELSE IF h.age = "gone"
  THEN [h EXCEPT !.online = FALSE, !.degraded = FALSE, !.accepts = TRUE]
  ELSE [h EXCEPT !.degraded = TRUE, !.accepts = FALSE]

\* tick
Liveness(h) ==
  IF ~ h.online \/ h.age = "fresh" THEN h
  ELSE [h EXCEPT !.degraded = h.age = "late",
                 !.online = h.age = "late",
                 !.accepts = h.degraded /\ h.accepts]

Silence(r) ==
  /\ r \in Fading /\ health[r].age # "gone"
  /\ health' = [health EXCEPT ![r].age = IF @ = "fresh" THEN "late" ELSE "gone"]
  /\ UNCHANGED <<queue, retries, orderVars, blocked, active, contract, open, banned>>

ManualRecover(r) ==
  /\ health' = [health EXCEPT ![r] = Recovered(@)]
  /\ open' = open \ {r}
  /\ banned' = banned \ {r}
  /\ UNCHANGED <<queue, retries, orderVars, blocked, active, contract>>

-----------------------------------------------------------------------------
\* report_progress of lane l: only the next lane of the contract counts.
Expected(r, l) ==
  contract[r].idx <= Len(contract[r].path) /\ contract[r].path[contract[r].idx] = l

\* mutant: the goal is looked up in the plan, not in the assignment
CompletesPlan(r, l) == r \in Busy /\ l = LastOf(Primary[active[r].task])

Completes(r, l) == r \in Busy /\ l = LastOf(active[r].path)

Advance(r, l) ==
  /\ Expected(r, l)
  /\ contract' = [contract EXCEPT ![r].idx = @ + 1]
  /\ IF Completes(r, l)
     THEN LET t == active[r].task
              done == completion \cup {t}
              o == OrderOf[t]
          IN /\ active' = [active EXCEPT ![r] = None]
             /\ completed' = [completed EXCEPT ![t] = @ + 1]
             /\ completion' = done
             /\ status' = IF TasksOf(o) \subseteq done
                          THEN [status EXCEPT ![o] = "COMPLETED"] ELSE status
     ELSE UNCHANGED <<active, completed, completion, status>>

\* POST /robot/{id}/progress
Progress(r, l) ==
  /\ Advance(r, l)
  /\ UNCHANGED <<queue, retries, failed, submitted, cancelled, blocked, open, health, banned>>

\* ingest_uplink: the robot is alive, and its last node may end the next lane.
Uplink(r) ==
  /\ health' = [health EXCEPT ![r] = Observed(@)]
  /\ \/ r \in Busy /\ \E l \in Lane : Advance(r, l)
     \/ UNCHANGED <<active, contract, completed, completion, status>>
  /\ UNCHANGED <<queue, retries, failed, submitted, cancelled, blocked, open, banned>>

-----------------------------------------------------------------------------
\* The assignments of the robots in Lost come back to the queue.
Returned(Lost, t) == Cardinality(Holders(Lost, t))

\* block_lane: re-route what used the lane, or take it back.
BlockLane(l) ==
  LET new(r) == PathFor(active[r].task, active[r].path, blocked \cup {l})
      Using == {r \in Busy : l \in LanesOf(active[r].path)}
      Lost == {r \in Using : l \in LanesOf(new(r)) \/ new(r) = Ends(active[r].path)}
      Moved == Using \ Lost
  IN /\ blocked' = blocked \cup {l}
     /\ active' = [r \in Robot |->
          IF r \in Lost THEN None
          ELSE IF r \in Moved THEN [active[r] EXCEPT !.path = new(r)] ELSE active[r]]
     /\ contract' = [r \in Robot |->   \* dispatch does nothing while the breaker is OPEN
          IF r \in Moved \ open THEN [path |-> new(r), idx |-> 1] ELSE contract[r]]
     /\ queue' = [t \in Task |-> queue[t] + Kept(retries[t], Returned(Lost, t))]
     /\ retries' = [t \in Task |-> Tried(retries[t], Returned(Lost, t))]
     /\ failed' = [t \in Task |->
          failed[t] + Dropped(retries[t], Returned(Lost, t))]
     /\ status' = StatusAfter({t \in Task : failed'[t] # failed[t]}, {})
     /\ UNCHANGED <<completion, completed, submitted, cancelled, open, health, banned>>

UnblockLane(l) ==
  /\ blocked' = blocked \ {l}
  /\ UNCHANGED <<queue, retries, orderVars, robotVars>>

-----------------------------------------------------------------------------
(* tick: liveness, then the assignments of lost robots come back, then one *)
(* pass over the queue.  A copy the pass does not hand out is sent back    *)
(* once more, and is failed at the limit.  The breakers move last.         *)

\* mutant: only the flag of the last uplink counts
UnavailableStamped(h) == h.stamped

\* _reap_offline_assignments
Unavailable(h) == h.stamped \/ ~ h.online

\* base_candidates
Candidate(r) ==
  /\ r \notin Busy /\ r \notin open
  /\ ~ Unavailable(health'[r]) /\ health'[r].accepts

Tick ==
  LET Lost == {r \in Busy : Unavailable(health'[r])}
      back(t) == Returned(Lost, t)
      waiting == [t \in Task |-> queue[t] + Kept(retries[t], back(t))]
      tried == [t \in Task |-> Tried(retries[t], back(t))]
  IN /\ health' = [r \in Robot |-> Liveness(health[r])]
     /\ banned' = banned \cup {r \in Robot : health[r].online /\ health[r].age # "fresh"}
     /\ \E job \in [{r \in Robot : Candidate(r)} -> Task \cup {None}] :
          LET taken(t) == Cardinality({r \in DOMAIN job : job[r] = t})
              left(t) == waiting[t] - taken(t)
              Given == {r \in DOMAIN job : job[r] # None}
          IN /\ \A t \in Task : taken(t) > 0 =>
                  taken(t) <= waiting[t] /\ tried[t] < MaxRetries
             /\ \E path \in [Given -> Path] :
                  /\ \A r \in Given : \E from \in Route(job[r]) :
                       path[r] = PathFor(job[r], from, blocked)
                  /\ active' = [r \in Robot |->
                       IF r \in Given THEN [task |-> job[r], path |-> path[r]]
                       ELSE IF r \in Lost THEN None ELSE active[r]]
                  /\ contract' = [r \in Robot |->
                       IF r \in Given THEN [path |-> path[r], idx |-> 1] ELSE contract[r]]
             /\ queue' = [t \in Task |-> Kept(tried[t], left(t))]
             /\ retries' = [t \in Task |-> Tried(tried[t], left(t))]
             /\ failed' = [t \in Task |->
                  failed[t] + Dropped(retries[t], back(t)) + Dropped(tried[t], left(t))]
             /\ status' = StatusAfter({t \in Task : failed'[t] # failed[t]},
                                      {job[r] : r \in Given})
     /\ \E trip \in SUBSET {r \in Tripping : contract'[r].path # <<>>}, cool \in SUBSET open :
          open' = (open \ cool) \cup trip
     /\ UNCHANGED <<completion, completed, submitted, cancelled, blocked>>

Next ==
  \/ \E o \in Order : Submit(o) \/ Cancel(o)
  \/ \E r \in Robot :
       Silence(r) \/ Uplink(r) \/ ManualRecover(r) \/ \E l \in Lane : Progress(r, l)
  \/ \E l \in Blockable : BlockLane(l) \/ UnblockLane(l)
  \/ Tick

Spec == Init /\ [][Next]_vars

\* The background loop ticks for ever.
FairSpec == Spec /\ WF_vars(Tick)

-----------------------------------------------------------------------------
(* The promise behind the queue, the tables and the logs, for orders that  *)
(* are submitted once.                                                     *)
Promise == INSTANCE OrderPromise WITH
  step <- [t \in Task |->
    IF submitted[OrderOf[t]] = 0 THEN "new"
    ELSE IF queue[t] > 0 THEN "waiting"
    ELSE IF Holders(Robot, t) # {} THEN "running"
    ELSE IF completed[t] > 0 THEN "done"
    ELSE IF failed[t] > 0 THEN "failed" ELSE "withdrawn"],
  outcome <- [o \in Order |->
    IF status[o] \in {"PLANNED", "EXECUTING"} THEN "OPEN" ELSE status[o]]

(* Orders submitted once: the steps and the outcome move as promised, in   *)
(* every handler; done, failed and withdrawn steps stay so.                *)
KeepsPromise == Promise!Spec

(* No copy of a task is lost or made twice by requeueing, re-routing,      *)
(* reaping or cancelling: every copy submitted is queued, on a robot, in   *)
(* the completed or failed log, or was cancelled.                          *)
Conservation ==
  \A t \in Task :
    submitted[OrderOf[t]] =
      queue[t] + Cardinality(Holders(Robot, t)) + completed[t] + failed[t] + cancelled[t]

(* The copies of one task share their count, which goes past the limit     *)
(* when several come back; but every return from the limit on is in the    *)
(* failed log, in whichever handler the copy came back.                    *)
CountedOut ==
  \A t \in Task : retries[t] < MaxRetries + failed[t]

(* An order the platform shows as planned or executing still has a task    *)
(* that can move it on.                                                    *)
NoOrphanOrder ==
  \A o \in Order : status[o] \in {"PLANNED", "EXECUTING"} =>
    \E t \in TasksOf(o) : queue[t] > 0 \/ Holders(Robot, t) # {}

(* A robot that went silent gets no new task before an operator recovers   *)
(* it, also when it went offline and came back meanwhile.                  *)
BannedUntilRecovered ==
  [][\A r \in banned' : active[r] = None => active'[r] = None]_vars

(* While its breaker stays closed, a robot works along the very path the   *)
(* platform has on its books, also after re-routes, and is not past it.    *)
ContractMatches ==
  \A r \in Busy \ Tripping :
    contract[r].path = active[r].path /\ contract[r].idx <= Len(active[r].path)

(* block_lane documents that it re-routes the active assignments that used *)
(* the lane: the path the robot is held to changes with the assignment.    *)
RerouteReachesRobot ==
  [][\A l \in Blockable : BlockLane(l) =>
       \A r \in Busy : active'[r] # None => contract'[r].path = active'[r].path]_vars

(* The sequencer documents that it enforces the order of the action        *)
(* primitives: a step is handed out after the steps before it are done.    *)
StepsInOrder ==
  [][\A r \in Robot : active[r] = None /\ active'[r] # None =>
       \A t \in TasksOf(OrderOf[active'[r].task]) :
         Step[t] < Step[active'[r].task] => t \in completion]_vars

(* failover_degrade.py: a robot that was degraded and is observed again    *)
(* stays degraded until an operator recovers it.                           *)
DegradedUntilRecovered ==
  \A r \in banned : health[r].online => health[r].degraded

\* An order never stays planned: it is started or given up.
PlannedSettles ==
  \A o \in Order : status[o] = "PLANNED" ~> status[o] # "PLANNED"

\* A robot that stays silent does not keep its task.
SilentLosesTask ==
  \A r \in Robot : health[r].age = "gone" ~>
    active[r] = None \/ health[r].age = "fresh"
=============================================================================
