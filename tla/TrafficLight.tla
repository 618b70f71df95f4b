--------------------------- MODULE TrafficLight ----------------------------
(***************************************************************************)
(* core/scheduling/traffic_light_controller.py: one two-direction          *)
(* intersection of the TrafficLightController.  Intersections share no     *)
(* state, so one stands for all.                                           *)
(*                                                                         *)
(* Time is discrete.  The code keeps the instants phase_started_at and     *)
(* arrived_at and compares `now - instant` with a duration; the model      *)
(* keeps the two ages, each saturating where no comparison can tell it     *)
(* from a larger one.  The platform loop ticks at any rate.                *)
(***************************************************************************)
EXTENDS Integers

CONSTANTS
  Robot, Priority, None,
  MaxGreen, YellowDuration, NoVehicleWait,  \* TrafficConfig
  Threshold,     \* detect_deadlocks(threshold)
  Cross          \* the longest time a vehicle needs to clear the intersection

ASSUME TimingAssumption ==
  /\ MaxGreen \in Nat /\ YellowDuration \in Nat /\ NoVehicleWait \in Nat
  /\ Threshold \in Nat /\ Cross \in Nat
  /\ NoVehicleWait <= MaxGreen /\ YellowDuration <= MaxGreen
  /\ Cross < YellowDuration + NoVehicleWait
ASSUME ValueAssumption ==
  /\ Priority \subseteq Int /\ None \notin Int
  /\ None \notin [robot : Robot, priority : Priority, age : 0..(Threshold + 1)]

Dir == {0, 1}
WaitCap == Threshold + 1
WaitingRobot == [robot : Robot, priority : Priority, age : 0..WaitCap]

VARIABLES
  phase,           \* Intersection.phase
  dir,             \* Intersection.current_direction
  elapsed,         \* now - phase_started_at, saturating at MaxGreen
  emergency,       \* Intersection.emergency
  vehicleWaiting,  \* Intersection.vehicle_waiting
  waitingRobots,   \* Intersection.waiting_robots: direction -> record or None
  inside,          \* time since a vehicle of the direction last drove in or on,
                   \* None when all have left (what the signal is there to protect)
  stranded         \* history: directions whose vehicles an E-stop froze inside,
                   \* since it was cleared and until they have left

vars == <<phase, dir, elapsed, emergency, vehicleWaiting, waitingRobots, inside, stranded>>
signal == <<phase, dir, elapsed>>
demand == <<vehicleWaiting, waitingRobots>>
vehicles == <<inside, stranded>>

TypeOK ==
  /\ phase \in {"GREEN", "YELLOW", "RED"}
  /\ dir \in Dir
  /\ elapsed \in 0..MaxGreen
  /\ emergency \in BOOLEAN
  /\ vehicleWaiting \in [Dir -> BOOLEAN]
  /\ waitingRobots \in [Dir -> WaitingRobot \cup {None}]
  /\ inside \in [Dir -> 0..Cross \cup {None}]
  /\ stranded \subseteq Dir

(* phase_started_at starts at 0 while the clock is monotonic: the first    *)
(* phase may look arbitrarily old.                                         *)
Init ==
  /\ phase = "RED" /\ dir = 0 /\ elapsed \in 0..MaxGreen
  /\ emergency = FALSE
  /\ vehicleWaiting = [d \in Dir |-> FALSE]
  /\ waitingRobots = [d \in Dir |-> None]
  /\ inside = [d \in Dir |-> None] /\ stranded = {}

-----------------------------------------------------------------------------
\* Demand: who waits in which direction.

ReportWaiting(d, w) ==
  /\ vehicleWaiting' = [vehicleWaiting EXCEPT ![d] = w]
  /\ UNCHANGED <<signal, emergency, waitingRobots, vehicles>>

\* The earliest arrival keeps the record: a later report never replaces it.
ReportWaitingRobot(r, d, p) ==
  /\ vehicleWaiting' = [vehicleWaiting EXCEPT ![d] = TRUE]
  /\ waitingRobots' = [waitingRobots EXCEPT ![d] =
       IF @ = None THEN [robot |-> r, priority |-> p, age |-> 0] ELSE @]
  /\ UNCHANGED <<signal, emergency, vehicles>>

ClearWaiting(d) ==
  /\ vehicleWaiting' = [vehicleWaiting EXCEPT ![d] = FALSE]
  /\ waitingRobots' = [waitingRobots EXCEPT ![d] = None]
  /\ UNCHANGED <<signal, emergency, vehicles>>

\* clear_vehicle_waiting: the record stays for the deadlock detection.
ClearVehicleWaiting(d) ==
  /\ vehicleWaiting' = [vehicleWaiting EXCEPT ![d] = FALSE]
  /\ UNCHANGED <<signal, emergency, waitingRobots, vehicles>>

RecordOf(d, r) == waitingRobots[d] # None /\ waitingRobots[d].robot = r

ClearWaitingRobot(r) ==
  /\ vehicleWaiting' = [d \in Dir |-> vehicleWaiting[d] /\ ~ RecordOf(d, r)]
  /\ waitingRobots' =
       [d \in Dir |-> IF RecordOf(d, r) THEN None ELSE waitingRobots[d]]
  /\ UNCHANGED <<signal, emergency, vehicles>>

-----------------------------------------------------------------------------
\* The entry gate, and the vehicles it lets in.

\* mutant: the emergency is left to the phase alone, and yellow still admits
MayEnterYellow(d) == ~ emergency /\ phase # "RED" /\ dir = d

MayEnter(d) == ~ emergency /\ phase = "GREEN" /\ dir = d

Enter(d) ==
  /\ MayEnter(d)
  /\ inside' = [inside EXCEPT ![d] = 0]
  /\ UNCHANGED <<signal, emergency, demand, stranded>>

Leave(d) ==
  /\ inside[d] # None
  /\ inside' = [inside EXCEPT ![d] = None]
  /\ stranded' = stranded \ {d}
  /\ UNCHANGED <<signal, emergency, demand>>

-----------------------------------------------------------------------------
\* The state machine and the deadlock break.

GreenIsOver ==
  \/ elapsed >= MaxGreen
  \/ ~ vehicleWaiting[dir] /\ elapsed >= NoVehicleWait

\* mutant: the end of the all-red wait gives the green back to the same side
PhaseStepSameSide ==
  \/ /\ phase = "GREEN" /\ GreenIsOver
     /\ phase' = "YELLOW" /\ dir' = dir /\ elapsed' = 0
  \/ /\ phase = "YELLOW" /\ elapsed >= YellowDuration
     /\ phase' = "RED" /\ dir' = dir /\ elapsed' = 0
  \/ /\ phase = "RED" /\ elapsed >= NoVehicleWait
     /\ phase' = "GREEN" /\ dir' = dir /\ elapsed' = 0

\* _tick_one without an emergency, when it changes the phase.
PhaseStep ==
  \/ /\ phase = "GREEN" /\ GreenIsOver
     /\ phase' = "YELLOW" /\ dir' = dir /\ elapsed' = 0
  \/ /\ phase = "YELLOW" /\ elapsed >= YellowDuration
     /\ phase' = "RED" /\ dir' = dir /\ elapsed' = 0
  \/ /\ phase = "RED" /\ elapsed >= NoVehicleWait
     /\ phase' = "GREEN" /\ dir' = 1 - dir /\ elapsed' = 0

PhaseIsDue ==
  \/ phase = "GREEN" /\ GreenIsOver
  \/ phase = "YELLOW" /\ elapsed >= YellowDuration
  \/ phase = "RED" /\ elapsed >= NoVehicleWait

SignalTick ==
  \/ /\ emergency
     /\ phase' = "RED"
     /\ UNCHANGED <<dir, elapsed>>
  \/ ~ emergency /\ PhaseStep
  \/ ~ emergency /\ ~ PhaseIsDue /\ UNCHANGED signal

Deadlocked ==
  \A d \in Dir : waitingRobots[d] # None /\ waitingRobots[d].age >= Threshold

\* min by (priority, -arrived_at); saturated ages leave a tie open.
Loser(d) ==
  LET l == waitingRobots[d]
      o == waitingRobots[1 - d]
  IN l.priority < o.priority \/ (l.priority = o.priority /\ l.age <= o.age)

\* detect_deadlocks: the loser retreats, its direction's demand is cleared.
DeadlockBreak ==
  \/ /\ Deadlocked
     /\ \E d \in Dir :
          /\ Loser(d)
          /\ vehicleWaiting' = [vehicleWaiting EXCEPT ![d] = FALSE]
          /\ waitingRobots' = [waitingRobots EXCEPT ![d] = None]
  \/ ~ Deadlocked /\ UNCHANGED demand

\* The platform loop calls tick and then detect_deadlocks.
Tick == SignalTick /\ DeadlockBreak /\ UNCHANGED <<emergency, vehicles>>

\* force_all_red freezes the signal; dir and phase_started_at stay.
ForceAllRed ==
  /\ phase' = "RED"
  /\ emergency' = TRUE
  /\ UNCHANGED <<dir, elapsed, demand, vehicles>>

(* clear_emergency asks nothing about the intersection: vehicles that the  *)
(* E-stop froze inside drive on from where they stand, in their own time.  *)
ClearEmergency ==
  /\ emergency
  /\ emergency' = FALSE
  /\ stranded' = {d \in Dir : inside[d] # None}
  /\ inside' = [d \in Dir |-> IF inside[d] = None THEN None ELSE 0]
  /\ UNCHANGED <<signal, demand>>

-----------------------------------------------------------------------------
UpTo(cap, n) == IF n < cap THEN n + 1 ELSE cap

(* A unit of time.  A vehicle needs at most Cross to clear the             *)
(* intersection, unless an E-stop has frozen it inside.                    *)
Advance ==
  /\ emergency \/ \A d \in Dir : inside[d] # Cross
  /\ elapsed' = UpTo(MaxGreen, elapsed)
  /\ waitingRobots' = [d \in Dir |->
       IF waitingRobots[d] = None THEN None
       ELSE [waitingRobots[d] EXCEPT !.age = UpTo(WaitCap, @)]]
  /\ inside' = [d \in Dir |->
       IF inside[d] = None THEN None ELSE UpTo(Cross, inside[d])]
  /\ UNCHANGED <<phase, dir, emergency, vehicleWaiting, stranded>>

Next ==
  \/ \E d \in Dir, w \in BOOLEAN : ReportWaiting(d, w)
  \/ \E r \in Robot, d \in Dir, p \in Priority : ReportWaitingRobot(r, d, p)
  \/ \E d \in Dir :
       ClearWaiting(d) \/ ClearVehicleWaiting(d) \/ Enter(d) \/ Leave(d)
  \/ \E r \in Robot : ClearWaitingRobot(r)
  \/ Tick \/ ForceAllRed \/ ClearEmergency \/ Advance

Spec == Init /\ [][Next]_vars

(* The background loop ticks for ever, time passes, and a vehicle that is  *)
(* not frozen leaves the intersection.                                     *)
FairSpec ==
  /\ Spec
  /\ WF_vars(Tick) /\ WF_vars(Advance)
  /\ \A d \in Dir : WF_vars(~ emergency /\ Leave(d))

-----------------------------------------------------------------------------
(* Vehicles of the two directions are in the intersection together only    *)
(* while one is there that an E-stop had frozen: yellow and the all-red    *)
(* wait outlast the slowest vehicle let in by the last instant of green,   *)
(* also across an E-stop that is cleared over an empty intersection.       *)
SafeCrossing == inside[0] = None \/ inside[1] = None \/ stranded # {}

(* The vehicles inside entered under the current direction, and long       *)
(* enough ago, but for those that an E-stop had frozen.                    *)
ClearingIsTimed ==
  /\ inside[1 - dir] # None => 1 - dir \in stranded
  /\ inside[dir] # None /\ dir \notin stranded =>
       /\ phase = "YELLOW" => inside[dir] >= elapsed
       /\ phase = "RED" /\ ~ emergency => inside[dir] >= elapsed + YellowDuration
  /\ emergency => phase = "RED"

IInv == TypeOK /\ ClearingIsTimed

(* Unless an E-stop stays in force, each direction gets its green again    *)
(* and again, whatever demand is reported, kept stale or cleared.          *)
EachDirectionServed ==
  <>[](~ emergency) => \A d \in Dir : []<>(MayEnter(d))

(* detect_deadlocks documents its threshold as larger than the longest     *)
(* green, so that waiting out one full green is not taken for a deadlock:  *)
(* a robot is sent back only if both sides have waited that long.          *)
BreakOutlastsGreen ==
  [][Tick /\ waitingRobots' # waitingRobots =>
       \A d \in Dir : waitingRobots[d].age >= MaxGreen]_vars
=============================================================================
