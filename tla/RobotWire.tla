------------------------------ MODULE RobotWire ------------------------------
(***************************************************************************)
(* The robots and the two programs that hear them over MQTT.  The SAP      *)
(* bridge keeps a Redis record of each robot (heartbeat_monitor.py), picks  *)
(* robots for orders from it (dispatch_queue/worker.py) and shows it on the *)
(* robots page (main.py); the traffic coordinator has a gateway of its own  *)
(* (core/gateway.py) for states, orders and commands.  The robots are those *)
(* of sap-bridge/simulators/.                                               *)
(*                                                                         *)
(* The broker hands a message on at once to whoever is connected and keeps *)
(* the last connection message of a robot; paho keeps the commands the     *)
(* gateway publishes while it has no connection (late), and hands them on  *)
(* one by one once it has one again.  Brands reads the reports.            *)
(* MaxOrders, MaxWireFaults, MaxKept and MaxWaits bound the counters.      *)
(***************************************************************************)
EXTENDS Brands, Sequences

CONSTANTS
  Robot, BrandTried,  \* the robots, and the brands they may be of
  Waits,              \* a MiR waits after a job, as its strategy expects; the simulator does not
  Silent,             \* nothing said yet
  MaxOrders, MaxWireFaults, MaxKept,
  MaxWaits            \* bound: how far the page counts the reports of one wait

ASSUME WireAssumption ==
  /\ BrandTried \subseteq Brand /\ Waits \in BOOLEAN
  /\ Silent \notin Message \cup {"ONLINE", "OFFLINE", "CONNECTIONBROKEN"}
  /\ MaxOrders \in Nat /\ MaxWireFaults \in Nat /\ MaxKept \in Nat /\ MaxWaits \in Nat

VARIABLES
  brand,    \* [Robot -> Brand]
  robot,    \* what the robot would report now
  run,      \* "on", "leaving" between its OFFLINE and its last report, "off"
  word,     \* the connection message the broker keeps
  record,   \* robot:connection:<id>: the state, and raw_state
  monitor,  \* "up", "down", "dead": its thread has ended, is_running is still TRUE
  waits,    \* MirStrategy._waiting_counters
  shown,    \* the page's last answer, and whether that report was of a drive
  core,     \* the coordinator's mode of the robot
  online,   \* MqttGateway._connections
  gateway,  \* "up", "down", "none": no client
  late,     \* commands paho keeps for the gateway
  heard,    \* what the monitor was told last: a "word", or a report "free" or "busy"
  orders, wireFaults
rvars == <<robot, run, word, record, waits, shown, core, online, late, heard>>
wvars == <<brand, rvars, monitor, gateway, orders, wireFaults>>

Fresh == [driving |-> FALSE, paused |-> FALSE, fatal |-> FALSE, manual |-> FALSE,
          acting |-> FALSE, waiting |-> FALSE, charging |-> FALSE, low |-> FALSE,
          loaded |-> FALSE]
NoRecord == [state |-> "", raw |-> Silent]
\* An assignment; the commands that are neither HOLD, RETREAT nor SPEED_CAP end in
\* the default.
CoreAction == {"ORDER", "HOLD", "RETREAT", "CHARGE"}
RobotAction == {"order", "cancelOrder", "startPause", "stopPause", "instantVelocity"}

Words == {"ONLINE", "OFFLINE", "CONNECTIONBROKEN"}
VehicleStates == {"ERROR", "UNAVAILABLE", "CHARGING", "MOVING", "PAUSED", "IDLE"}
Record == [state : {""} \cup Words \cup VehicleStates, raw : Message \cup {Silent}]
Answer == [status : {"", "EXECUTING", "UNKNOWN"} \cup Words \cup VehicleStates,
           drove : BOOLEAN]

WireTypeOK ==
  /\ brand \in [Robot -> Brand] /\ robot \in [Robot -> Message]
  /\ run \in [Robot -> {"on", "leaving", "off"}]
  /\ word \in [Robot -> Words \cup {Silent}]
  /\ record \in [Robot -> Record] /\ shown \in [Robot -> Answer]
  /\ monitor \in {"up", "down", "dead"} /\ gateway \in {"up", "down", "none"}
  /\ waits \in [Robot -> Nat]
  /\ core \in [Robot -> {Silent, "IDLE", "TASKING", "CHARGING", "ERROR"}]
  /\ online \in [Robot -> BOOLEAN] /\ late \in [Robot -> Seq(RobotAction)]
  /\ \A r \in Robot : Len(late[r]) <= MaxKept
  /\ heard \in [Robot -> {Silent, "word", "free", "busy"}]
  /\ orders \in 0..MaxOrders /\ wireFaults \in 0..MaxWireFaults

-----------------------------------------------------------------------------
(* What the listeners do with a message.                                   *)

\* mutant: the connection message goes to its own field only
ConnectionKeeps(rec, w) == rec
\* hset merges: the report of before stays beside the new state.
Connection(rec, w) == [rec EXCEPT !.state = w]

StateRecord(m) == [state |-> VehicleState(m), raw |-> m]

\* _on_message of the monitor and _handle_connection of the gateway.
TellWord(r, w) ==
  /\ word' = [word EXCEPT ![r] = w]
  /\ record' = IF monitor = "up" THEN [record EXCEPT ![r] = Connection(@, w)] ELSE record
  /\ heard' = IF monitor = "up" THEN [heard EXCEPT ![r] = "word"] ELSE heard
  /\ online' = IF gateway = "up" THEN [online EXCEPT ![r] = (w = "ONLINE")] ELSE online

\* What a report says of the robot, for itself: a charge may be broken off.
FreeByReport(m) == ~m.fatal /\ ~m.manual /\ (m.charging \/ (~m.driving /\ ~m.paused))

\* _on_message of the monitor; _handle_state and ingest_uplink.
TellState(r) ==
  /\ record' = IF monitor = "up" THEN [record EXCEPT ![r] = StateRecord(robot[r])] ELSE record
  /\ heard' = IF monitor = "up" THEN [heard EXCEPT ![r] = IF FreeByReport(robot[r]) THEN "free" ELSE "busy"]
            ELSE heard
  /\ core' = IF gateway = "up" THEN [core EXCEPT ![r] = CoreMode(brand[r], robot[r])] ELSE core

-----------------------------------------------------------------------------
(* What a robot does with an order and with a command.                     *)

Ordered(m) == [m EXCEPT !.driving = TRUE, !.acting = FALSE]
Does(m, action) ==
  CASE action = "order" -> Ordered(m)
    [] action = "cancelOrder" -> [m EXCEPT !.driving = FALSE, !.acting = FALSE]
    [] action = "startPause" -> [m EXCEPT !.paused = TRUE]
    [] action = "stopPause" -> [m EXCEPT !.paused = FALSE]
    [] OTHER -> m

\* _send_order, _send_instant_action: a HOLD goes out as the end of a pause.
Sent(command) == CASE command = "ORDER" -> "order"
                   [] command = "HOLD" -> "stopPause"
                   [] command = "RETREAT" -> "instantVelocity"
                   [] OTHER -> "cancelOrder"

\* The subscriptions are of QoS 0: a robot that is away hears nothing, ever.
Reached(r, m) == IF run[r] = "off" THEN robot ELSE [robot EXCEPT ![r] = m]

-----------------------------------------------------------------------------
(* The robots.                                                             *)

\* start
Start(r) ==
  /\ run[r] = "off" /\ word[r] = Silent
  /\ run' = [run EXCEPT ![r] = "on"] /\ TellWord(r, "ONLINE")
  /\ UNCHANGED <<brand, robot, waits, shown, core, late, monitor, gateway, orders, wireFaults>>

\* _publish_loop; the thread that stop waits for may publish once more, after OFFLINE.
Report(r) ==
  /\ run[r] \in {"on", "leaving"} /\ TellState(r)
  /\ run' = [run EXCEPT ![r] = IF @ = "leaving" THEN "off" ELSE @]
  /\ UNCHANGED <<brand, robot, word, waits, shown, online, late, monitor, gateway, orders, wireFaults>>

\* stop
Stop(r) ==
  /\ run[r] = "on" /\ wireFaults < MaxWireFaults /\ wireFaults' = wireFaults + 1
  /\ \E next \in {"leaving", "off"} : run' = [run EXCEPT ![r] = next]
  /\ TellWord(r, "OFFLINE")
  /\ UNCHANGED <<brand, robot, waits, shown, core, late, monitor, gateway, orders>>

\* The connection breaks and the broker tells the will.  _on_disconnect takes one
\* argument too few, which ends the thread that would connect again.
Break(r) ==
  /\ run[r] = "on" /\ wireFaults < MaxWireFaults /\ wireFaults' = wireFaults + 1
  /\ run' = [run EXCEPT ![r] = "off"] /\ TellWord(r, "CONNECTIONBROKEN")
  /\ UNCHANGED <<brand, robot, waits, shown, core, late, monitor, gateway, orders>>

Becomes(r, m) ==
  /\ run[r] = "on" /\ m # robot[r] /\ robot' = [robot EXCEPT ![r] = m]
  /\ UNCHANGED <<brand, run, word, record, waits, shown, core, online, late, heard,
                 monitor, gateway, orders>>

\* _simulate_step of MirSimulator: the order is done, and the robot may say WAITING.
MirWork(r) ==
  LET m == robot[r] IN
  /\ brand[r] = "mir"
  /\ \/ m.driving /\ ~m.paused /\ Becomes(r, [m EXCEPT !.driving = FALSE, !.waiting = Waits])
     \/ m.waiting /\ Becomes(r, [m EXCEPT !.waiting = FALSE])

\* An OTTO goes to charge when its order is done.
OttoWork(r) ==
  LET m == robot[r] IN
  /\ brand[r] = "otto"
  /\ \/ /\ m.driving /\ ~m.paused /\ ~m.charging
        /\ Becomes(r, [m EXCEPT !.driving = FALSE, !.charging = TRUE])
     \/ m.charging /\ Becomes(r, [m EXCEPT !.charging = FALSE])

\* A KUKA goes on until its order is cancelled, with its lift at work now and then.
KukaWork(r) ==
  LET m == robot[r] IN
  /\ brand[r] = "kuka" /\ m.driving /\ ~m.paused
  /\ \E a \in BOOLEAN : Becomes(r, [m EXCEPT !.acting = a])

Work(r) == (MirWork(r) \/ OttoWork(r) \/ KukaWork(r)) /\ UNCHANGED wireFaults

\* add_error, clear_errors, set_battery; and the keys on a robot, to pause it and to
\* take it to MANUAL.
Trouble(r) ==
  LET m == robot[r] IN
  \/ /\ wireFaults < MaxWireFaults /\ wireFaults' = wireFaults + 1
     /\ \/ Becomes(r, [m EXCEPT !.fatal = TRUE]) \/ Becomes(r, [m EXCEPT !.manual = TRUE])
        \/ Becomes(r, [m EXCEPT !.low = TRUE]) \/ Becomes(r, [m EXCEPT !.paused = TRUE])
  \/ /\ UNCHANGED wireFaults
     /\ \/ Becomes(r, [m EXCEPT !.paused = FALSE])
        \/ Becomes(r, [m EXCEPT !.fatal = FALSE]) \/ Becomes(r, [m EXCEPT !.manual = FALSE])

-----------------------------------------------------------------------------
(* The SAP bridge.                                                         *)

\* mutant: a robot that has only announced itself will do
EligibleOnline(state) == state \in {"IDLE", "CHARGING", "ONLINE"}
Eligible(state) == state \in {"IDLE", "CHARGING"}

\* _resolve_robot, and the publication of the order.
Pick(r) ==
  /\ Eligible(record[r].state) /\ orders < MaxOrders /\ orders' = orders + 1
  /\ robot' = Reached(r, Ordered(robot[r]))
  /\ UNCHANGED <<brand, run, word, record, waits, shown, core, online, late, heard,
                 monitor, gateway, wireFaults>>

\* The topic of an order that a strategy has built, and what publish lets pass.
Topic(b) == IF b \in Vda THEN "order" ELSE "command"
MayPublish(topic) == topic \in {"connection", "state", "order", "instantActions", "visualization"}

\* POST /api/v1/dispatch, whatever the robot does.
Dispatch(r) ==
  /\ MayPublish(Topic(brand[r])) /\ orders < MaxOrders /\ orders' = orders + 1
  /\ robot' = Reached(r, Ordered(robot[r]))
  /\ UNCHANGED <<brand, run, word, record, waits, shown, core, online, late, heard,
                 monitor, gateway, wireFaults>>

\* GET /api/v1/robots/status: MiR's reports are counted here, when they are shown.
Page(r) ==
  LET m == record[r].raw IN
  /\ record[r] # NoRecord
  /\ IF m = Silent
       THEN /\ shown' = [shown EXCEPT ![r] = [status |-> record[r].state, drove |-> FALSE]]
            /\ UNCHANGED waits
       ELSE LET n == IF brand[r] = "mir" THEN NextCount(m, waits[r]) ELSE 0 IN
            /\ n <= MaxWaits
            /\ waits' = [waits EXCEPT ![r] = n]
            /\ shown' = [shown EXCEPT ![r] = [status |-> Status(brand[r], m, n),
                                              drove |-> m.driving /\ ~m.paused]]
  /\ UNCHANGED <<brand, robot, run, word, record, core, online, late, heard,
                 monitor, gateway, orders, wireFaults>>

\* The monitor loses the broker, or Redis inside a callback, which ends its thread;
\* connected again, it is told the connection messages the broker keeps.
Monitor ==
  /\ \/ /\ monitor = "up" /\ wireFaults < MaxWireFaults /\ wireFaults' = wireFaults + 1
        /\ monitor' \in {"down", "dead"} /\ UNCHANGED <<record, heard>>
     \/ /\ monitor = "down" /\ monitor' = "up" /\ UNCHANGED wireFaults
        /\ record' = [r \in Robot |-> IF word[r] = Silent THEN record[r]
                                      ELSE Connection(record[r], word[r])]
        /\ heard' = [r \in Robot |-> IF word[r] = Silent THEN heard[r] ELSE "word"]
  /\ UNCHANGED <<brand, robot, run, word, waits, shown, core, online, late, gateway, orders>>

\* ROBOT_TTL
Expire(r) ==
  /\ record[r] # NoRecord /\ (run[r] # "on" \/ monitor # "up")
  /\ record' = [record EXCEPT ![r] = NoRecord]
  /\ UNCHANGED <<brand, robot, run, word, waits, shown, core, online, late, heard,
                 monitor, gateway, orders, wireFaults>>

-----------------------------------------------------------------------------
(* The gateway of the traffic coordinator.                                 *)

\* send: nothing without a client; paho keeps what it cannot send yet, and in order.
Send(r, c) ==
  /\ gateway # "none"
  /\ IF gateway = "up" /\ late[r] = <<>>
       THEN robot' = Reached(r, Does(robot[r], Sent(c))) /\ UNCHANGED late
       ELSE /\ Len(late[r]) < MaxKept /\ UNCHANGED robot
            /\ late' = [late EXCEPT ![r] = Append(@, Sent(c))]
  /\ UNCHANGED <<brand, run, word, record, waits, shown, core, online, heard,
                 monitor, gateway, orders, wireFaults>>

\* paho sends what it has kept.
Deliver(r) ==
  /\ gateway = "up" /\ late[r] # <<>> /\ late' = [late EXCEPT ![r] = Tail(@)]
  /\ robot' = Reached(r, Does(robot[r], Head(late[r])))
  /\ UNCHANGED <<brand, run, word, record, waits, shown, core, online, heard,
                 monitor, gateway, orders, wireFaults>>

\* _on_disconnect and _on_connect: the broker tells the words it keeps.
Gateway ==
  /\ \/ /\ gateway = "up" /\ wireFaults < MaxWireFaults /\ wireFaults' = wireFaults + 1
        /\ gateway' = "down" /\ UNCHANGED online
     \/ /\ gateway = "down" /\ gateway' = "up" /\ UNCHANGED wireFaults
        /\ online' = [r \in Robot |-> word[r] = "ONLINE"]
  /\ UNCHANGED <<brand, robot, run, word, record, waits, shown, core, late, heard,
                 monitor, orders>>

-----------------------------------------------------------------------------
WireInit ==
  /\ brand \in [Robot -> BrandTried]
  /\ robot = [r \in Robot |-> Fresh] /\ run = [r \in Robot |-> "off"]
  /\ word = [r \in Robot |-> Silent] /\ record = [r \in Robot |-> NoRecord]
  /\ monitor = "up" /\ waits = [r \in Robot |-> 0]
  /\ shown = [r \in Robot |-> [status |-> "", drove |-> FALSE]]
  /\ core = [r \in Robot |-> Silent] /\ online = [r \in Robot |-> FALSE]
  /\ gateway \in {"up", "none"} /\ late = [r \in Robot |-> <<>>]
  /\ heard = [r \in Robot |-> Silent] /\ orders = 0 /\ wireFaults = 0

WireNext ==
  \/ \E r \in Robot :
       \/ \E c \in CoreAction : Send(r, c)
       \/ Start(r) \/ Report(r) \/ Stop(r) \/ Break(r) \/ Work(r) \/ Trouble(r)
       \/ Pick(r) \/ Dispatch(r) \/ Page(r) \/ Expire(r) \/ Deliver(r)
  \/ Monitor \/ Gateway

WireSpec == WireInit /\ [][WireNext]_wvars

-----------------------------------------------------------------------------
(* Properties.                                                             *)

\* The worker gives an order to a robot only when the last thing the monitor was told
\* of it is a report of a robot that is free, or that charges: not after a fault, not
\* while it drives, not once it has left or before its first report.  The monitor
\* writes reports and connection messages into one field, and misses some.
PickedIsFree == [][\A r \in Robot : Pick(r) => heard[r] = "free"]_wvars

\* The page shows what the report behind it says: a fault as ERROR (and so does the
\* record, unless the robot has left), a drive as MOVING, and the first WAITING after a
\* drive that was shown as MOVING: the grace of one job is not used up by another.
ShownIsTrue ==
  [][\A r \in Robot : Page(r) /\ record[r].raw # Silent =>
       LET m == record[r].raw
           clear == ~m.fatal /\ ~m.manual /\ ~m.paused /\ ~m.charging /\ ~m.low
       IN /\ m.fatal => /\ shown'[r].status = "ERROR"
                        /\ heard[r] # "word" => record[r].state = "ERROR"
          /\ clear /\ m.driving => shown'[r].status = "MOVING"
          /\ clear /\ m.waiting /\ shown[r].drove => shown'[r].status = "MOVING"]_wvars

\* A HOLD that reaches a robot leaves it standing.
HoldStands ==
  [][\A r \in Robot : Send(r, "HOLD") /\ gateway = "up" /\ late[r] = <<>> /\ run[r] = "on" =>
       robot'[r].paused \/ ~robot'[r].driving]_wvars
=============================================================================
