# Robotic-Platform: specifications, model checks and proofs

The repository is a dispatch platform for mixed robot fleets. Customer orders come in over
HTTP or from SAP, become tasks, and are handed to robots of several brands over MQTT. This
directory specifies its scheduling core, its link to the robots, its SAP side and the
services around them in TLA+, checks small instances with TLC and proves the central safety
properties with TLAPS.

| module | models | run | proved in |
|---|---|---|---|
| `TrafficLight` | `core/scheduling/traffic_light_controller.py` | `traffic` | `TrafficLightProofs` |
| `DeadlockPreventer` | `core/scheduling/deadlock_prevention.py` | `deadlock` | `DeadlockPreventerProofs` |
| `Coordinator` | `core/coordinator.py`, `core/platform/failover_degrade.py`, the waypoint contract of `core/adapter/fleet_adapter.py` | `coordinator_once`, `coordinator_blocks` (by `MCCoordinator`) | `CoordinatorProofs` |
| `OrderPromise` | what the coordinator promises for an order (abstract) | as `KeepsPromise` in `coordinator_once` | `CoordinatorProofs` |
| `FleetLink` | `core/adapter/` (contract, shadow, breaker, commands), failover, and the robot at the other end | `fleet_link` | `FleetLinkProofs` |
| `Resources` | `core/platform/charger_reservation.py`, `lift_manager.py`, and the coordinator's tick over them | `services` | `ServicesProofs` |
| `Service` | `traffic_coordinator_v5/traffic_coordinator_main.py`: threads, snapshot, restart | `service_race` | |
| `DispatchQueue` | `sap-bridge/dispatch_queue/`, `sap-bridge/services/order_service.py`, a refused publish of `mqtt_publisher.py` | `dispatch_queue` (by `MCDispatchQueue`) | `DispatchQueueProofs` |
| `Intake` | `sap-bridge/services/batch_service.py`, `idoc_listener.py`, `POST /orders` | `services` | `ServicesProofs` |
| `SapConfirm` | `sap-bridge/services/sap_coordinator_bridge.py`, `pick_result_store.py`, `clients/traffic_coordinator_client.py` | `sap_confirm`, `sap_naming` (by `MCSapConfirm`) | `SapConfirmProofs` |
| `SapSession` | `sap-bridge/auth.py`, the clients and backends of SAP | `links` | `LinksProofs` |
| `Outbox` | `nodered/outbox-nodes-v4.1.js` and the outbox handlers of `sap-bridge/main.py` | `services` | `ServicesProofs` |
| `Brands` | what three programs make of a state message (operators) | with `RobotWire` | `LinksProofs` |
| `RobotWire` | `sap-bridge/heartbeat_monitor.py`, `mqtt_publisher.py`, the choice of a robot, the robots page, `core/gateway.py`, the simulators | `links`, `hold_resumes` | `LinksProofs` |
| `Planner` | `core/scheduling/mapf_engine.py`, `conflict_coordinator.py` | `links` | `LinksProofs` |
| `Notify` | `gateway/app/` | `services`, `links` | `LinksProofs` |
| `Watchdog` | `watchdog/watchdog.py` | `services` | `ServicesProofs` |

`PROJECT.json` lists the components, the runs, the lines each definition stands for, the
mutant that breaks each property, the hazards, the findings and the theorems.

## 1. Inventory

### The platform core (`core/`, served by `traffic_coordinator_v5/`)

- **Coordinator.** State: the task queue, the retry counts, the order plans with their
  status and completed tasks, the assignment of each robot, the logs of finished and failed
  tasks. Operations: `ingest_uplink`, `submit_order`, `cancel_order`, `block_lane`,
  `unblock_lane`, `report_progress`, `manual_recover`, `emergency_stop`, and `tick`, which
  runs all the components below. Correct when no task is lost or duplicated, an order's
  status follows from its tasks, and lost robots lose their tasks and get no new ones.
- **The service around it.** A background thread ticks every half second and takes snapshots;
  every POST is a thread that changes the same objects and ticks too. No lock. Correct when a
  task has one robot and an accepted task is somewhere.
- **Failover/degrade.** Per robot: last seen, online, degraded, accepts new tasks, a
  takeover window after a reboot. Correct when a robot that went silent is kept off new work
  until an operator says otherwise.
- **Fleet adapter and shadow state machine.** Per robot: the locked lane path with the next
  waypoint, unacknowledged commands with their retries, the expected mode with a deadline, a
  circuit breaker. Correct when the path on the books is the path the robot is on, and the
  breaker trips on robots that give a reason.
- **Traffic lights.** Per intersection: phase, direction, phase start, emergency, and who
  waits in each direction. Correct when crossing traffic never meets and neither direction
  starves.
- **Deadlock prevention.** Corridor segments with one holder, a wait-for graph. A class of
  its own that only its tests call today. Correct when no ring of waits forms and waits
  that were admitted are served.
- **Charger, lift, zones.** Reservations that the tick makes and expires. Correct when what
  is reserved is kept for the hold, and what is abandoned becomes free.
- **MAPF engine and conflict layer.** Groups requests whose corridors meet, plans each group
  with a constraint tree, replans late vehicles. Correct when the search loses no solution and
  what it counts as free of conflicts is.
- **Brand strategies, gateway.** A robot's message becomes a mode; orders and commands become
  MQTT messages.
- **Task allocator, sequencer, lane map.** Pure choices: who takes a task, what tasks an
  order has, a shortest path around blocked lanes.
- **Obstacles, safe distance, safety PLC, reputation and cost, WORM log, version router.**
  Beside the main loop or data only; see `components` in `PROJECT.json`.

### The SAP side (`sap-bridge/`, `nodered/`)

- **Order records.** One row per order with a status and a version. Every transition reads
  the row, checks the status, and writes it with `WHERE version = ?`; a lost race raises.
- **Dispatch queue and worker.** A Redis sorted set, a processing hash, and one thread that
  pops an order, publishes it to a robot and then moves the record on; backoff and retry
  counts live in memory; a dead letter ends the retries.
- **Producers.** Batch, IDoc and `POST /orders` write the record first; its number is unique.
- **SAP-coordinator bridge.** Polls SAP for open tasks, submits them to the coordinator,
  polls the coordinator and confirms to SAP, in two steps where ZEWM is used. All its books
  are in memory.
- **Clients and sessions.** A bearer token, a CSRF token and cookies in Redis, shared by all
  threads, and the retries of three clients.
- **Heartbeat monitor, robots page, publisher.** A Redis record per robot, written by reports
  and by connection messages, from which the worker picks and which the page shows.
- **Outbox.** Rows that Node-RED polls, sends to SAP and reports back, with a dead letter.

### Around them

- **Message gateway** (`gateway/`): alerts as cards in chat platforms, and clicks on them that
  are validated over keys in Redis and executed.
- **Watchdog**: measures Node-RED and Redis, decides on safe mode and throttle, keeps the
  decision in memory and in keys that expire.
- **Simulators** (`traffic_coordinator_v5/simulator/`, `sap-bridge/simulators/`): the robots at
  the other end of the wire, modelled as such. WCS sandbox and dashboard are not modelled.

### How they interact

The bridge, the coordinator and Node-RED call each other over HTTP; robots are reached over
MQTT by two programs that do not know of each other (`core/gateway.py`, `mqtt_publisher.py`);
Redis holds the queue, the robots' records, SAP's tokens, the watchdog's keys and the
gateway's. Threads inside a process share plain objects.

### What is hard here

Interleaving: worker against REST handlers; request threads against the tick; threads that
share SAP's tokens; two callbacks with one confirmation token; overlapping polls. Ordering and
timing: the end of a green against the slowest vehicle, silence against the next uplink, a
deadline against a late report, connection messages against reports. Partial failure: a
dispatch refused by an open breaker, a call that was carried out and not answered, a decision
that Redis did not take. Crashes: between a Redis pop and the processing entry, between a
publish and the record's transition, with all the books in memory. Limits: retries counted in
two places, a batch that sees only the head of a list. Liveness: starvation at a light, behind
a held segment, in the queue, behind a lift nobody left. Each is listed at its line under
`hazards`, with the properties that watch it or the reason none does.

## 2. How the modules correspond to the code

**`TrafficLight`.** One intersection; intersections share nothing. `phase`, `dir`,
`emergency`, `vehicleWaiting`, `waitingRobots` are the fields of `Intersection`; the instants
`phase_started_at` and `arrived_at` appear as ages (`elapsed`, `.age`) that saturate where no
comparison tells them apart. `Tick` is `tick` followed by `detect_deadlocks`, as the
coordinator calls them. `inside` is not in the code: it is the vehicles the gate `may_enter`
let in, and what the gate is there to protect. `Advance` lets a unit of time pass; a vehicle
clears the intersection within `Cross`, unless an E-stop froze it. `clear_emergency` asks nothing,
so an E-stop may be lifted over vehicles that are still inside; `stranded` is history: the
directions of which there are such vehicles.

**`DeadlockPreventer`.** `holder`, `holds`, `waiting`, `waiters` are the four dictionaries.
`Acquire`, `Release`, `MayWait`, `ClearWait` are the methods when they change anything. The
model's `WouldDeadlock` says what a ring *is* (a set of robots each waiting for a member);
`HasCycle` is the code's coloured depth-first walk, a function from the robots on its stack and
the robot it is at; `WalkIsExact` says that they agree in every reachable state, so that the
other proofs may use the former. The fleet is finite.

**`Coordinator`.** `queue` counts the copies of a task in the deque, because its order may be
submitted twice under one id; `retries`, `status`, `completion`, `completed`, `failed`,
`active` are the dictionaries and logs of the same meaning; `contract` is the adapter's
`active_path` and `next_waypoint_idx`; `health` is `RobotFleetState` with the flag that the
last uplink was stamped with. `submitted`, `cancelled`, `banned` are history. One action per
handler; `Tick` is the whole tick: liveness, reaping, then one pass over the queue in which
every copy that is not handed out counts a retry and is failed at the limit, then the
breakers. Whom the allocator picks, what capability, lifts and red lights refuse, and when
the breaker moves are left open, so what is checked holds for every such choice.

**`OrderPromise`.** The abstract side: a step is waiting or running until it is done, failed
or withdrawn, those three are final, and the outcome of an order is a function of its steps.
`KeepsPromise` is `OrderPromise!Spec` under the refinement mapping at the end of
`Coordinator`, which reads a step's state off the queue, the assignments and the logs.

**`DispatchQueue`.** One atomic step per Redis command, SQL transaction or publish. `view` is
what an actor has read and not yet written, with whether its version still stands; `Write`
is `_update`. `worker` is the position of the thread in `_tick`; `retries` and `backoff` are
its memory. `Abort` is an exception that `_run_loop` catches, `Crash` and `Restart` are the
process; `faults` bounds both. `online` is the connection to the broker, which comes and goes at
will. A publish without it fails (`Refused`), but its message has QoS 1: `kept` is what the client
keeps and sends when it is back (`Connect`), beside whatever the retries have sent; it dies with
the process. A publish can also fail before the client has the message. The direct `POST /orders`
path publishes by itself and never queues; it is left out, and so only the worker assigns.

**`FleetLink`.** One robot and all that the platform keeps about it. `active` is the entry in
`_active_assignments`, `idx` is `next_waypoint_idx`, `shadow`, `due`, `breaker`, `cool` are the
shadow's `_shadow`, `_behavior`, `_breaker` and its cooldown, `unacked` is `_unacked`; the
health variables are `RobotFleetState`, here with the boot id and the takeover window.
`Uplink` is all of `ingest_uplink`, with the automatic progress; a report that does not parse
is `GarbledUplink`, because the adapter turns it into an ERROR without boot id; `Tick` and
`Dispatch` are one tick, without and with a task for this robot; a tick sends its order first and
its commands after it, and with them those of `unacked` that are due again (`Sent`), of which any
may get lost (`Heard`). `robot` and `mute` are the robot itself: it starts, drives lanes one after
the other, restarts or falls silent. A HOLD or RETREAT that reaches it makes it stand still
(`held`, with the mission it was issued for) until its next order, for the platform has no command
that lets it go. `wrong` is history: what happened to the mission since it was dispatched, a
command that reached its robot included.

**`Resources`.** `bays` and `lifts` are the reservations with their ages, `tasks`, `tries`,
`drives` the queue, the retries and the assignments. A tick is a sequence of phases
(`TickResources`, one `EnsureCharging` per robot, one `Dispatch` per task), because the order
in which robots and tasks are looked at is data. `_reserve_lifts_for_assignment` reserves the
lifts of a path until one is taken and keeps those; `Advance` frees only the lift behind the
lane just finished.

**`Service`.** Threads and what they share. A thread's pass is cut where it reads or writes
something shared: `Walk`/`Walked` (iterate a dictionary: it raises if its size changed, and
the loop's thread ends), `Take`, `Clear`, `Assign`, `PutBack`, `Publish`. `Snapshot` writes to
a store in the process's memory, so `Crash` leaves nothing to restore. What is allocated to
whom is in `Coordinator`.

**`Intake`.** The three producers of orders. `Collect` is a batch run over the head of SAP's
list, `Idoc` a received document, `PostOrder` the request that sends an order to its robot
itself; each may break off at any step. The producers' part of `DispatchQueue` is what
`queued` stands for here.

**`SapConfirm`.** `submitted`, `confirmed`, `assigned`, `robotFor`, `review`, `inactive` are
the bridge's dictionaries and sets (all of them in memory), `picks` the pick results; `sap` is
what SAP knows, `queued`, `active`, `completed`, `failed` what the coordinator knows. `pc`
says which await the loop is at. A call is done and answered, refused, or done and its answer
lost; the last raises and ends the cycle. `mode` is the configuration: ZEWM with two steps, a
backend with one, or automatic confirmation; and whether the coordinator lists tasks under
the ids the bridge looks for (as its tests have it) or those that `OrderSequencer.plan` gives.

**`SapSession`.** `bearer` and `csrf` are the keys in Redis, `alive` and the bearer's state
what SAP thinks of them, `frozen` the bearer that `EwmBackend` put in its CSRF manager when it
built it. A caller reads token and cookies in two steps, may fetch new ones, sends, and
retries by the rules of its client; what it invalidates before a retry it deletes in steps of
their own, the CSRF pair after the pause and in two. A fetch with a bearer that SAP refuses ends a ZEWM
call (`barred`): before its first request by an exception, in a retry by leaving the loop with the
answer of before. `hits` and `executed` are history.

**`Outbox`.** `rows` is the table, `flights` where the flow's message for a row is, per poll.
`Fetch`, `CallSap`, `Report`, `ReportLost` and `Bury` are the nodes of the flow with the
handler each of them calls; polls overlap, because the inject node does not wait.

**`Brands`, `RobotWire`.** `Brands` says what each of three programs makes of a state message,
per brand; its operators follow the strategies' order of tests. `RobotWire` has the robots,
the broker's retained connection message (`word`), the bridge's Redis record with its time to
live (`record`), the page and MiR's counter (`shown`, `waits`), the worker's `Pick` and the
`Dispatch` of the API, and the coordinator's gateway with what paho keeps for it while the
connection is down (`late`): `Deliver` hands the kept commands on one by one, the oldest
first, and what is sent meanwhile queues behind them. `heard` is history: the last thing the monitor was told.

**`Planner`.** `PlanAll` groups the agents by their corridors and starts a search; `Expand` is
one iteration of the engine's loop over the constraint tree; `GiveUp` its limit; `Update` the
replanning of a late vehicle. The low level is given by its specification: some path under the
constraints whose cost is within the factor of the cheapest. The cost of a node, the sum of the arrival
times, is counted as the seconds before an arrival. `Apart` is the reference: where
two vehicles really are in every second. No vehicle stands at its goal, for the engine raises
on such a one (see the findings).

**`Notify`.** `dedup`, `prints`, `tokens` are the keys in Redis with their remaining lives;
`calls` the callbacks under way, one action per await of the handler: refuse, anti-replay,
confirm, consume, guard, execute. `runs` counts executions per confirmation token.

**`Watchdog`.** One action per outcome of `run_cycle` (safe mode, error rate, load). `safe`,
`rate`, `normal`, `unhealthy` are the engine; `flag` and `slow` the keys others read, with the
cycles they have left. A measure is the figures by the thresholds they lie between. The safe mode
is entered in two steps: `EnterSafe` sets the engine and writes the flag, `ClearThrottle` deletes
the throttle's key and sends the alert, and while `entering` the watchdog may die in between. Any
write may be lost, by a connection that breaks or a Redis that is full (`Reaches`). `blind` is
history: the engine has decided what did not reach Redis, died between two writes or started
while Redis was away, and may have parted from its keys. A restart that reads keys which do not
contradict each other ends it.

**`MCServices`, `MCLinks`.** Each checks several modules that do not interact in one run: the
initial state chooses which of them runs, the others stay where they start. So the state
space is the sum and not the product of theirs, and fairness is asked only of the one that
runs. Their properties are those of the modules, under the same names.

Left out everywhere: logging, metrics, the WORM log, reputation, speeds, coordinates.

## 3. Runs

| run | states | properties | shows |
|---|---|---|---|
| `traffic` | 768,616 | `SafeCrossing`, `EachDirectionServed` | crossing traffic never meets unless an E-stop is lifted over it, nobody starves |
| `deadlock` | 11,659 | `NoDeadlock`, `WaitsAreLive`, `HoldsMirror`, `WalkIsExact`, `WaitersDrain` | prevention is sound, the walk is exact, admitted waits are served |
| `coordinator_once` | 792,780 | `KeepsPromise`, `BannedUntilRecovered` | the coordinator implements `OrderPromise`; a lost robot gets no task before it is recovered |
| `coordinator_blocks` | 181,984 | `TypeOK`, `Conservation`, `CountedOut`, `NoOrphanOrder`, `ContractMatches`, `PlannedSettles`, `SilentLosesTask` | duplicates, lane blocks and reaping lose nothing and try nothing past the limit; orders move; silent robots lose their task |
| `dispatch_queue` | 1,390,638 | `NoForgottenOrder`, `CopiesAreBounded`, `StatusFollows`, `CreatedSettles` | no order is forgotten, its copies are bounded, records follow the table, nothing stays undecided |
| `fleet_link` | 254,988 | `InStep`, `TripIsEarned`, `MissionEnds` | books and robot keep in step, the breaker trips for a reason, an undisturbed mission ends |
| `sap_confirm` | 189,331 | `ConfirmIsEarned`, `ParkedIsOpen`, `PickedIsSettled` | SAP hears only what was done, parked tasks are open, reported picks are settled |
| `services` | 265,582 | `TellsTheTruth`, `CalmIsReleased`, `RepeatedIsSeen`, `OutboxSettles`, `OverdueIsCarried`, `OneRoute`, `OpenGetsOrder`, `BayIsKept`, `LiftFrees` | see below |
| `links` | 3,051,133 | `PlansAreSound`, `RetriesAreExact`, `OneRunPerToken`, `PickedIsFree`, `ShownIsTrue` | see below |

In `services`: what the watchdog tells others is what it decided, and calm ends the throttle;
an alert dropped as a duplicate is seen when it is repeated; an outbox row is sent or gets a
dead letter, and one that polls no longer look at has a message on its way to it; an order
comes in, and by one door; a bay is kept for the hold, and a lift becomes free. In
`links`: a split of the search loses no solution and plans without conflicts keep vehicles
apart; retries to SAP neither do a thing twice nor give up for one disturbance, but for the CSRF fetch
that a stale bearer bars (see the findings); a second click is one execution; the worker picks a robot that last said it was free; the page shows what the
robot said.

Each module has a type invariant. That of the coordinator is checked in `coordinator_blocks`, where
no more copies of a task may be queued or logged than were submitted. The others are left to the proofs
(`TypeCorrect`), or hold when `INVARIANT TypeOK`, in `services` and `links` `TypesOK`, is added to
the `.cfg`. The counts that the code does not limit, the coordinator's retries and MiR's
waits, have no bound there; TLC reaches finitely many, because submissions are bounded, and the page's looks
at one wait (`MaxWaits`).

### Bounds, and why they are enough

- `traffic`: durations 1, 2, 3, 4 keep the order of the code's 2, 3, 15 and 30 s, which is
  all the comparisons see; two robots and two priorities give every outcome of the
  deadlock break. `Cross = 2` is the longest that yellow plus all-red allows.
- `deadlock`: three robots and three segments give rings longer than a swap, and a stale
  listing beside a live wait.
- `coordinator_once`: two steps of one order and two robots, so that steps run at once and
  out of order; three retries as in the code; both robots may fall silent, one breaker trips.
- `coordinator_blocks`: one step submitted twice (two copies of one id), two routes that part
  after the first lane, both of which may be blocked, so that a re-route, a requeue and the
  fallback path all occur. Here `Tripping` is empty: with a tripping breaker the contract may
  lag behind, which is the finding on `block_lane`.
- `dispatch_queue`: the initial state chooses between two orders without faults, so that one backs off
  while the other is worked on, and one order with two faults of any kind at any step, so that the
  copies of two earlier lives of the process meet a third. (What is counted per order does not need a second
  one; whether an order is forgotten or decided is asked only where nothing raises.) Two tries reach
  the dead letter; the connection may be lost at any time in both.
- `fleet_link`: two lanes (a next one and a last one), two missions, so that what the first
  leaves behind meets the second, commands that are sent once more
  included, and two faults, of which a red light is one. The times keep the order of the code's: a
  report within 1, the deadline at 3, degraded after 2, offline after 4. The properties speak
  of robots that report more often than they change lanes, obey before the deadline and are
  never late (`Paced`), which this instance does: an uplink that skips a lane stalls the mission in the
  code, and no handler catches up with it (the hazard at `coordinator.py:826`).
- `sap_confirm`: one task with two robots and two quantities, so that a result can belong to
  another run of the task; three faults, so that two steps and a retry can all go wrong;
  retention 0, so that pruning happens. Tasks share no variable but the retention.
- `services`: two rows and two overlapping polls; three tasks for a window of two; two jobs
  that take the two lifts in opposite order, two low robots for one bay (with two bays the run
  takes 664,761 states and passes too; that a robot has one bay only is then not vacuous, and
  `BaysAreKept` proves it for any number); one alert with two
  users on two channels, no two clicks at once; three faults
  for the watchdog (a restart, a Redis that goes away, a connection that breaks under a write), because
  a start without Redis, a throttle under the flag that still stands and a start that reads both
  are what it takes to part the keys from the engine for good.
- `links`: four vehicles on a map with a meeting on a line, a way round, a lane longer than a
  second and a held goal in the way; at most two nodes of the constraint tree are expanded.
  Two threads over HTTP, of one client or of two, or one over RFC, and three faults: a stale
  bearer, a stale session and one hit, which is what a call with a retry too few would not
  survive. Two callbacks with one token; one robot of each of four brands that differ, one
  order, two faults; the page counts up to three waits of a MiR (`MaxWaits`), one more than its grace.

Left out of every coordinator instance, by its header: deadlines, charger lanes, reboots,
robots without an adapter. The logs are unbounded in the model up to the submissions; the
code keeps the last 200 entries.

### Fairness

- `traffic`: weak fairness of `Tick`, since the background loop ticks for ever; of `Advance`,
  time; and of `Leave` for a vehicle that no E-stop has frozen. `EachDirectionServed` assumes
  that the E-stop is not in force for ever.
- `deadlock`: strong fairness that an unblocked robot leaves what it holds, strong because it
  may begin to wait again in between. Nothing is assumed of waiting robots. `WaitersDrain`
  excludes robots that hop from one wait to the next for ever: they starve those behind them.
- `coordinator_blocks`: weak fairness of `Tick` alone. Robots, operators and clients may stop.
  The loop does die if `tick` raises (see the hazard at `traffic_coordinator_main.py:205`);
  the assumption is that it does not.
- `dispatch_queue`: weak fairness of the worker's next step, of a producer's enqueue, and of
  time for each backoff. `CreatedSettles` assumes no fault, and needs no publish to succeed.
- `fleet_link`: the loop ticks, time passes, a robot that is not mute reports, one that has an
  order starts and drives. Missions to which something happens may not end.
- `sap_confirm`: the bridge's loop goes on (it catches what a cycle raises and sleeps), and
  every drive ends, well or badly. `PickedIsSettled` holds with lost and refused calls, which
  are bounded; a restart empties `submitted`.
- `services`: `main`'s loop of the watchdog catches what a cycle raises and goes on, and Redis
  comes back; an alert that stands is sent again, time passes, a handler goes on; the inject
  node fires and messages flow; the batch is triggered, its interval passes, the worker and
  robots go on; a coordinator tick goes on to its end and the next one begins.
- `links` has safety properties only.

### Findings

Three runs are expected to end in a violation: each checks one sentence of the repository.

- `service_race`: two ticks at once hand one task to two robots.
- `sap_naming`: with the ids the coordinator gives, the bridge parks tasks that robots drive.
- `hold_resumes`: HOLD is sent as `stopPause`, and the robot drives on.

Eleven more are violations found with a configuration that is kept beside the runs, and one with
an invariant of `Service`:

| command (in this directory) | violated | finding |
|---|---|---|
| `tlc -config MCTrafficThreshold.cfg TrafficLight` | `BreakOutlastsGreen` | the deadlock threshold, documented as longer than the longest green, is half of it |
| `tlc -config MCStepOrder.cfg MCCoordinator` | `StepsInOrder` | the sequencer's "action primitive order" is not enforced by dispatch |
| `tlc -config MCDegraded.cfg MCCoordinator` | `DegradedUntilRecovered` | degraded is to last until an operator clears it; going offline clears it |
| `tlc -config MCRerouteContract.cfg MCCoordinator` | `RerouteReachesRobot` | a re-route does not reach a robot whose breaker is open, and nobody learns |
| `tlc -config MCDispatchRecovery.cfg DispatchQueue` | `RecoveredOnRestart` | a crash right after the pop leaves the order where no restart looks |
| `tlc -config MCOrderFailed.cfg DispatchQueue` | `FinishedStaysFinished` | an order already completed can be failed |
| `tlc -config MCRecovered.cfg Watchdog` | `RecoveredDispatches` | a watchdog that died between the two writes of the safe mode, or started without Redis, says that dispatching is back at its normal rate while the flag still stops it |
| `tlc -config MCTwinLanes.cfg MCLinks` | `SolutionsSurvive` | a split can lose a solution where two lanes join the same nodes and differ in time; why `SearchIsSound` excludes them |
| `tlc -config MCBarred.cfg MCLinks` | `RetriesAreUsed` | a CSRF fetch with a stale bearer ends a call to SAP with its retries left |
| `tlc -config MCStaleHold.cfg FleetLink` | `NoStaleHold` | the HOLD of a cancelled mission stops the robot in its next one |
| `tlc -config MCSentTwice.cfg DispatchQueue` | `FailedIsNotSent` | a message whose publish failed is kept and published anew, and goes out twice |
| `MCService.cfg` with `INVARIANT TaskIsKept` | `TaskIsKept` | accepted tasks are lost between the copy and the clearing of the queue, and at a crash (`MaxCrashes = 1`) |

The others were met while the code was translated, and are what the models do; no run checks
them: IOP, HAIQ and proprietary robots are refused by `POST /dispatch`; `EwmBackend` keeps
its first bearer for CSRF tokens; a full Redis never hears of the safe mode it causes; the answer
to the fifth failure of an outbox row is the only one that buries it; an IDoc is accepted
although nothing of it was; a simulator's `_on_disconnect` has the wrong signature; OTTO's report of a
hot motor raises; looking at the robots page uses up MiR's grace; the planner raises for every
group with a vehicle that stands at its goal. `PROJECT.json` quotes the line for each.

## 4. Proofs

All theorems hold for every value of the constants that satisfies the named assumptions of the
module (`OrderAssumption`, `RouteAssumption`, `FleetAssumption`, `TimingAssumption`,
`ModeAssumption`, `NamesAssumption`, `WatchdogAssumption`, `PlannerAssumption`,
`RetryAssumption`, `NotifyAssumption` and the like), which TLC evaluates on every run. They say that durations and limits are positive, that an order
of thresholds is what the configuration has, that a fleet is finite, that a route is not empty
and runs over lanes, and that a mark of absence is no value. What a theorem needs beyond them
stands in its statement or, where the property itself is conditional, in the property.

**`DeadlockPreventerProofs`.** `TypeCorrect`, `Inductive`, and from it `DeadlockFree`
(`NoDeadlock`), `AllocationConsistent` (`HoldsMirror`) and `WaitsStayLive` (`WaitsAreLive`).
`NoDeadlock` alone is not inductive: an `Acquire` could put a robot at the end of a wait that
had survived its segment. `WaitsAreLive` rules that out, since every recorded wait has a holder
and is listed where `Release` drops it. There is one lemma per action; in `MayWait` a ring that
uses the new edge is exactly a set that `WouldDeadlock` refuses. Assumes only that `None` is no
robot or segment.

`WalkDecides` (`WalkIsExact`): the code's depth-first walk computes `WouldDeadlock`, in any
graph of waits over a finite fleet (`RobotAssumption`). The walk recurs, and a recursive
function is a `CHOOSE`: nothing is known of it before some function is seen to satisfy its
equation. `Endless` is that function: from `u` the walk with `gray` on its stack succeeds when
`u` lies in a set of robots that no hop leaves but into `gray` (`EndlessStep`). That it is the
only one, `EndlessIsDfs` and `DfsIsEndless`, goes by well-founded induction on the robots not
yet on the stack, as a smallest counterexample (`WFMin`), for an induction theorem would need an
operator as parameter. A walk from `r` that ends in a ring without `r` says yes as well; that
`WouldDeadlock` does too is what makes the two agree.

**`TrafficLightProofs`.** `TypeCorrect`, `Inductive`, `CrossingIsSafe` (`SafeCrossing`).
`SafeCrossing` says nothing of time and so does not survive the end of red; `ClearingIsTimed`
relates the time a vehicle has been inside to the age of the phase, and bounds it by yellow
plus all-red when green comes. Assumes `Cross < YellowDuration + NoVehicleWait` and durations
below `MaxGreen`. Nothing is assumed of who lifts an E-stop, or when: `clear_emergency` only drops
the flag, with the phase clock long run out, and the next tick may give green to the other
direction. That is why the property excepts vehicles that were `stranded` by an E-stop, and
nothing else, until they have left.

**`DispatchQueueProofs`.** `TypeCorrect`, `StatusAlwaysFollows` (`StatusFollows`),
`CopiesStayBounded` (`CopiesAreBounded`), `NoOrderIsForgotten` (`NoForgottenOrder`). The invariant
for the first two says that a view that is still current was read in a status that permits its
write (`ViewsAreFresh`) and that the worker holds a view of the order it works on
(`WorkerHasRecord`). `CopiesAreBounded` needs `SentIsAccounted`: each fault has at most a life's
worth of tries behind it (`Allowance`), and as long as a record is still CREATED and the worker is not
just deciding it, what was sent or kept in this life is no more than the tries counted, of which
one is left (`MayBeTried`). A publish that worked is followed by the record leaving CREATED,
whether the worker's own write won or a REST handler's did; one that failed is counted, whether the client kept its message
or not. `NoForgottenOrder` needs `AssignedHasMovedOn`: the worker drops an order
that it finds no longer ASSIGNED, which is harmless only because no such record is ever CREATED
again. Assumes a positive `MaxRetries` and that `None` is no value.

**`CoordinatorProofs`.** `TypeCorrect`, `NoCopyIsLost` (`Conservation`), `ReturnsAreCountedOut`
(`CountedOut`), `BannedGetsNoTask`
(`BannedUntilRecovered`), `BooksMatchRobots` (`ContractMatches`), `OpenOrdersHaveWork`
(`NoOrphanOrder`) and `PromiseIsKept` (`KeepsPromise`).
- *Copies.* `QueueInv` is the types, that every assignment leads along a path its task may have
  (`OnARoute`), and `Conservation`. All requeues, of the tick, of a block and of a recovery, are
  one fact, `Recounted`: of a task as many copies are queued, held or failed after as before.
  `RequeueCounts` proves it of `Kept` and `Dropped`; the rest is counting who holds the task. The
  same fact says that what a count goes past the limit by is in the failed log (`CountedStep`); the
  count itself has no bound.
- *Silent robots.* `BannedUntilRecovered` says nothing of the robot's record. `BannedRefuses`
  does: a degraded robot and a banned one refuse tasks, also when going offline has cleared the
  flag. Only a tick hands out, and it asks.
- *Contracts.* `ContractInv` adds that only breakers in `Tripping` open. The property itself
  leaves out those robots: a re-route does not reach them (see the findings).
- *Orders.* `NoOrphanOrder` is not inductive: that one step can move on does not say that
  another can once this one is done. `OpenOrdersLive` says it of every step not done, and that
  there is one. The theorem assumes that every order has a task: the code accepts an order
  without any and leaves it PLANNED for ever.
- *Promise.* `PromiseIsKept` assumes that, and `MaxSubmits = 1`: an order submitted twice under
  one id has two copies of each step, of which one may finish and the other fail, and
  `OrderPromise` promises nothing for that. With one submission `Conservation` leaves one copy
  of each task (`OneCopy`), so that the tables say where the task is in its life, and
  `OutcomeKnown` says that the order's status follows from them. Each action is then one
  `Accept`, `Withdraw` or `Work` step of the promise, or changes nothing it speaks of; a tick
  that moves several tasks is one `Work` of them all.

**`FleetLinkProofs`.** `TypeCorrect`, `BooksInStep` (`InStep`), `BreakerSparesTheObedient`
(`TripIsEarned`), for every length of the mission. `InStep` does not say how old the last
report is, so a lane driven without one would break it; `Booked` ties the lanes the platform
does not know of to the time since the last report. For a trip, `InTime` counts the deadline of
an order against the time the robot has taken to start and be seen: `due` is at least what is
left of `StartBy + Gap`. What commands do is in `RobotObeys`, for those sent again as for new
ones: one that reaches a robot at work is a thing that happened to its mission, and a new order
(`RobotOrdered`) ends the standstill. The properties speak of `Paced` robots (`Late` and `Gap` included).

**`SapConfirmProofs`.** `TypeCorrect`, `ConfirmationsAreEarned` (`ConfirmIsEarned`),
`ParkedAreOpen` (`ParkedIsOpen`), the latter for every mode, though the run needs it only where
the ids fit. `HeldIsTrue`: what the loop has in hand between two awaits was read from the
coordinator's finished list and from a reported pick, and both only grow. `BooksFollow`: what
SAP has confirmed it does not list as open, so it is not forwarded or looked at again. One
lemma each says what the two steps of a confirmation leave (`StepOneIs`, `StepTwoIs`).

**`ServicesProofs`** holds the proofs of the four services of `services` that are proved, each by
itself.

*`Watchdog`.* `TypeCorrect`, `KeysAreTrue` (`TellsTheTruth`). `Apart` adds that a
throttle that ran out leaves nothing behind and that an engine in the safe mode throttles
nothing unless it is `blind`. Each write is a step that may be lost, the two of `enter_safe_mode`
are two steps, and between them both keys may stand: the property says nothing of the throttle's key
while `entering`. It also excepts `blind` engines, and `MCRecovered.cfg` shows that it must.

*`Resources`.* `BaysAreKept` (`BayIsKept`), for any robots, bays, lifts, routes and holds. The
invariant `BayInv` is that no robot has two bays: `reserve` gives a robot its own bay back if it
has one, so a grant takes a bay from nobody. `BayMoves` reduces the ten actions to the only three
things that happen to bays: they age, one is granted, or nothing. The hold needs to be a number
only; a hold of 0 lets the next tick take the bay.

*`Intake`.* `ComesInByOneDoor` (`OneRoute`), for any numbers, windows and faults. `Unrecorded`
makes it inductive: a number without a record is in no queue and was not sent. The record comes
first by every door and its number is unique, so what breaks off leaves a record and a second
door finds it.

*`Outbox`.* `OverdueHasCarrier` (`OverdueIsCarried`), for any rows, overlapping polls and faults.
The property is inductive with the types and with the fact that an unwritten row has failed
zero times. `OutboxStep` says when a step on one row keeps it, whatever messages of other polls
are under way for the same row: the report that makes the row overdue sends its own message on,
and a message that carries an overdue row is lost only together with the entry in `abandoned`.
This is the safety half of `OutboxSettles`; the exception of lost messages is a finding.

**`LinksProofs`** holds the proofs of four modules whose variables are disjoint, each by itself,
and `LinksTypeCorrect` about the module that composes them, `MCLinks`: its specification implies
those of the parts, whose type theorems are `PlannerTypes`, `SessionTypeCorrect` and the
invariants below.

*`Planner`.* `UncountedStayApart` (`NoConflictIsApart`), `NoSolutionIsLost`
(`SolutionsSurvive`), together `SearchIsSound` (`PlansAreSound`), for every map, set of vehicles
and horizon. The argument is that of conflict-based search. A solution cannot run into both
sides of a split (`SplitSparesOne`), so it obeys the constraints of one child; and that child
has a plan, because the solution itself, cut off at the first arrival the low level accepts, is
a path it may find (`CutIsPath`, `ObedientIsFound`). `NoSolutionIsLost` assumes
`OneLaneEachWay`: lanes between the same two nodes take the same time. A constraint on an edge
names its nodes and so forbids all of them; with a slow and a fast one TLC finds a split that
loses a solution (`MCTwinLanes.cfg`). `FixedLaneMap` does not exclude such lanes; whether the
engine's own choice of plans runs into that split is not shown. The proofs need the least of a
set of times; it comes from the well-foundedness of the naturals (`WFMin`), which needs no
operator as a parameter.

*`SapSession`.* `RetriesHitTheMark` (`RetriesAreExact`), for any number of threads, sessions and
faults, when `HttpRetries >= 3`, the code's value. A refused call says nothing of the tries
before, so the invariant keeps a `Budget`: what a ZEWM call has tried, plus the refusals it must
still expect of a stale bearer (`OfBearer`) and of a stale session (`OfSession`), is at most two
more than the hits it took. A refusal uses one of them up or is a throttling, which is a hit;
an end or another thread's fetch brings at most one back and is a hit too. `Together` says why
no more than these two are owed: the copies of the bearer go stale at once, and the cookies in
Redis are those of the token beside them, or absent, or without a token. A throttling counts as
a hit of every ZEWM call, the last one of a call included. A fetch that SAP refuses is not part of this
account: it ends a call with tries left (see the findings). What is proved of it is that a call which SAP
has answered meets a stale bearer there only if the bearer ended while it ran (`Overtaken`); before
the first answer nothing can be said.

*`Notify`.* `ClickIsWorthOneRun` (`OneRunPerToken`), for any alerts, users, callbacks and lives
of the keys with `ConfirmTtl <= ReplayTtl` (the code adds 60 s). That a token ran once says
nothing of the callbacks still under way. `Armed` are those that may yet run it: past the
fingerprint while the token lives, or past the token's check. `Spent` says that there is one at
most, none after a run, and that from the first one on the token lives no longer than the
fingerprint of its card; so whoever gets past the fingerprint again finds the token dead. The
delete whose result nobody looks at does no harm for that reason alone. `Marked`: a token is on
one card only, for one operation.

*`RobotWire`.* `PicksOnReport` (`PickedIsFree`) and `PageIsTrue` (`ShownIsTrue`), for any robots
of any of the nine brands and any faults. Two writers share the `state` of a robot's record:
reports and connection messages. `EligibleIsFree` says that only a report of a free robot
leaves there a state for which the worker picks: `CONNECTED` and `OFFLINE`, which connection
messages write, are not among them, whatever comes again after a reconnection and in whatever
order. For the page, `StateIsOfReport` ties the state to the report beside it as long as no
connection message came after; `OnlyMirWaits` and `DriveResets` bring MiR's counter down to 0
when a wait follows a drive that the page has shown, so that the first wait is within the grace. The
types are most of the work (`WireTypes`): one lemma for each thing a handler does to a message.

The leaves are split until each is well within the provers' time limits: every module is also
proved with a fifth of them (`tlapm --stretch 0.21`), so a slower machine proves it too.

**Only model-checked:** liveness (`EachDirectionServed`, `WaitersDrain`, `PlannedSettles`,
`SilentLosesTask`, `CreatedSettles`, `MissionEnds`, `PickedIsSettled`, and in `services`
`CalmIsReleased`, `RepeatedIsSeen`, `OutboxSettles`, `OpenGetsOrder` and `LiftFrees`), because the
prover has neither fairness nor ENABLED. Every safety property of a passing run is proved.

## 5. Plan

In the models: a re-route from where the robot is (the hazard at `coordinator.py:705`), by
giving `FleetLink` two paths; zones beside the lifts in `Resources`; the operator's retry of a
dead letter in `DispatchQueue`.

In the proofs: the types of `Outbox`, `Intake` and `Resources` in full (the invariants above have
those their properties need), and that retries in the outbox stay below the bound its type
gives. What liveness rests on can be proved as far as it is safety: that each step of a
`~>` chain lowers a measure.

## 6. Not modelled, and why

- Floating-point geometry and scores (obstacles, safe distance, reputation, utility, cost) only
  rank or cap; the models leave their outcome open where it decides anything.
- Formats: vendor payloads, card layouts, HTTP documents, signatures, the WORM log, message
  upgrades. Only what a program reads back and decides on is kept.
- The safety PLC and the zone counters: small latches that nothing else depends on.
- Probes of the watchdog are the figures they return; restarts of containers are external.
- Inventory and the rate limit are CRUD and counters; the dashboard, the WCS sandbox and the
  SAP simulator are a user interface and test doubles.
- The MQTT client library is outside the repository. Of it the models have what a client keeps while
  it is offline and sends when it is back: `kept` in `DispatchQueue`, `late` in `RobotWire`.
