------------------------------- MODULE Brands -------------------------------
(***************************************************************************)
(* What the platform makes of a robot's state message.  It translates one  *)
(* message three times: core/adapter/brands/strategies.py for the traffic  *)
(* coordinator, sap-bridge/strategies/ for the robots page of the SAP      *)
(* bridge, sap-bridge/heartbeat_monitor.py for the choice of a robot.      *)
(*                                                                         *)
(* A message is kept as the facts that the three of them read; positions,  *)
(* capabilities and the texts of errors are left out, a battery is low or  *)
(* not.  A brand is a vendor with the dialect its robots speak: the models *)
(* of Geek+, Hai and Quicktron that speak no VDA5050 have words of their   *)
(* own.                                                                    *)
(***************************************************************************)
EXTENDS Naturals

Vda == {"mir", "otto", "kuka", "geekplus", "hairobotics", "quicktron"}
Own == {"iop", "haiq", "proprietary"}
Brand == Vda \cup Own

\* driving, paused: the flags; fatal: an error of level FATAL; manual: the
\* operating mode; acting: an action RUNNING; waiting: MiR's drivingState after a
\* job; charging: OTTO's flag; loaded: MiR's load at a position.
Message == [driving : BOOLEAN, paused : BOOLEAN, fatal : BOOLEAN, manual : BOOLEAN,
            acting : BOOLEAN, waiting : BOOLEAN, charging : BOOLEAN,
            low : BOOLEAN, loaded : BOOLEAN]

-----------------------------------------------------------------------------
(* The words of the robots that have their own.                            *)

\* sysStatus, taskStatus, robotStatus, with taskStatusCode in words.
Word(m) == IF m.fatal THEN "ERROR" ELSE IF m.manual THEN "MANUAL"
           ELSE IF m.paused THEN "PAUSED" ELSE IF m.charging THEN "CHARGING"
           ELSE IF m.driving THEN "MOVING" ELSE IF m.acting THEN "WORKING"
           ELSE IF m.waiting THEN "WAITING" ELSE "IDLE"

-----------------------------------------------------------------------------
(* The core: FleetState.mode.                                              *)

\* _VDA5050_MODE_MAP: the operating mode, AUTOMATIC or MANUAL, says nothing of a
\* robot that drives, charges or has failed.
OperatingMode(m) == "IDLE"

\* MirStrategy: a load on a robot whose position is known is a task.
MirMode(m) == IF m.loaded THEN "TASKING" ELSE OperatingMode(m)

\* OttoStrategy, KukaStrategy: errors and charging stay out of the mode.
OttoMode(m) == OperatingMode(m)
KukaMode(m) == OperatingMode(m)

\* GeekPlusStrategy: sysStatus; no word it does not know.
GeekPlusMode(m) == CASE Word(m) = "ERROR" -> "ERROR"
                     [] Word(m) \in {"MOVING", "WORKING"} -> "TASKING"
                     [] Word(m) = "CHARGING" -> "CHARGING" [] OTHER -> "IDLE"

\* HaiRoboticsStrategy: taskStatusCode has no code for charging.
HaiRoboticsMode(m) == CASE Word(m) = "ERROR" -> "ERROR"
                        [] Word(m) \in {"MOVING", "WORKING"} -> "TASKING"
                        [] Word(m) = "WAITING" -> "IDLE" [] OTHER -> OperatingMode(m)

\* QuicktronStrategy: robotStatus, where WORKING is RUNNING.
QuicktronMode(m) == CASE Word(m) = "ERROR" -> "ERROR" [] Word(m) = "CHARGING" -> "CHARGING"
                      [] Word(m) \in {"MOVING", "WORKING"} -> "TASKING" [] OTHER -> OperatingMode(m)

\* handle_state and to_fleet_state of the strategy that is registered for the brand.
CoreMode(brand, m) ==
  CASE brand = "mir" -> MirMode(m) [] brand = "otto" -> OttoMode(m)
    [] brand = "kuka" -> KukaMode(m) [] brand \in {"geekplus", "iop"} -> GeekPlusMode(m)
    [] brand \in {"hairobotics", "haiq"} -> HaiRoboticsMode(m)
    [] brand \in {"quicktron", "proprietary"} -> QuicktronMode(m)

-----------------------------------------------------------------------------
(* The SAP bridge: RobotState.status.                                      *)

WaitingGrace == 2

\* mutant: the counter goes on from the last job's
NextCountGoesOn(m, n) == IF m.waiting /\ ~m.driving THEN n + 1 ELSE n

\* MirStrategy._waiting_counters: a pause leaves the count as it is.
NextCount(m, n) ==
  IF m.fatal \/ m.manual THEN 0
  ELSE IF m.paused THEN n
  ELSE IF m.waiting /\ ~m.driving THEN n + 1
  ELSE 0

\* What all strategies for VDA5050 look at first and, unless they know better, last.
Unfit(m) == m.fatal \/ m.manual
UnfitStatus(m) == IF m.fatal THEN "ERROR" ELSE "UNAVAILABLE"
AtWork(m) == IF m.paused THEN "PAUSED" ELSE IF m.driving THEN "MOVING"
             ELSE IF m.acting THEN "EXECUTING" ELSE "IDLE"
VdaStatus(m) == IF Unfit(m) THEN UnfitStatus(m) ELSE AtWork(m)

\* IOP_STATUS_MAP, HAIQ_STATUS_MAP, _map_proprietary_status: no word for MANUAL.
WordStatus(word) ==
  CASE word = "MOVING" -> "MOVING" [] word = "WORKING" -> "EXECUTING"
    [] word = "ERROR" -> "ERROR" [] word = "CHARGING" -> "CHARGING"
    [] word = "PAUSED" -> "PAUSED" [] word = "MANUAL" -> "UNKNOWN" [] OTHER -> "IDLE"

\* A job is over when MiR has said WAITING often enough.
MirStatus(m, n) ==
  IF ~Unfit(m) /\ m.waiting /\ ~m.paused /\ ~m.driving
  THEN IF n >= WaitingGrace THEN "IDLE" ELSE "MOVING"
  ELSE VdaStatus(m)

\* The flag comes before the pause and the drive.
OttoStatus(m) == IF ~Unfit(m) /\ m.charging THEN "CHARGING" ELSE VdaStatus(m)

\* A battery of 5 % or less is a charge.
KukaStatus(m) == IF ~Unfit(m) /\ m.low THEN "CHARGING" ELSE VdaStatus(m)

\* Each of these vendors has models of both dialects.
GeekPlusStatus(dialect, m) == IF dialect = "iop" THEN WordStatus(Word(m)) ELSE VdaStatus(m)
HaiRoboticsStatus(dialect, m) == IF dialect = "haiq" THEN WordStatus(Word(m)) ELSE VdaStatus(m)
QuicktronStatus(dialect, m) ==
  IF dialect = "proprietary" THEN WordStatus(Word(m)) ELSE VdaStatus(m)

\* mutant: a pause is looked at before the errors
StatusPausedFirst(brand, m, n) == IF m.paused THEN "PAUSED" ELSE IF m.fatal THEN "ERROR" ELSE "IDLE"

\* handle_state; n: the count after this message.
Status(brand, m, n) ==
  CASE brand = "mir" -> MirStatus(m, n) [] brand = "otto" -> OttoStatus(m)
    [] brand = "kuka" -> KukaStatus(m)
    [] brand \in {"geekplus", "iop"} -> GeekPlusStatus(brand, m)
    [] brand \in {"hairobotics", "haiq"} -> HaiRoboticsStatus(brand, m)
    [] brand \in {"quicktron", "proprietary"} -> QuicktronStatus(brand, m)

-----------------------------------------------------------------------------
(* The heartbeat monitor: the state in the Redis record, for any brand.    *)

\* mutant: the errors are not looked at
VehicleStateBlind(m) == IF m.driving THEN "MOVING" ELSE "IDLE"

VehicleState(m) ==
  IF m.fatal THEN "ERROR" ELSE IF m.manual THEN "UNAVAILABLE"
  ELSE IF m.charging THEN "CHARGING" ELSE IF m.driving THEN "MOVING"
  ELSE IF m.paused THEN "PAUSED" ELSE "IDLE"
=============================================================================
