------------------------------ MODULE FleetLink ------------------------------
(***************************************************************************)
(* The platform and one robot at the two ends of the wire: of              *)
(* core/adapter/fleet_adapter.py the waypoint contract and the commands    *)
(* without acknowledgement, core/adapter/shadow_state_machine.py with its  *)
(* deadline and its breaker, core/platform/failover_degrade.py, and the    *)
(* handlers of core/coordinator.py that drive them.  The robot is on the   *)
(* other side: it takes an order, drives lane after lane, reports, and may *)
(* fall silent, restart, send rubbish or miss its order.                   *)
(*                                                                         *)
(* Instants appear as the time since, or until, in whole units; Advance    *)
(* lets one pass.  A command that is sent is never acknowledged: nothing   *)
(* calls ack_command, scs_timeout or clear_pending_holds.  The robot obeys *)
(* each copy that reaches it, and stands still until its next order: no    *)
(* command of the platform resumes it.                                     *)
(***************************************************************************)
EXTENDS Integers, FiniteSets

CONSTANTS
  Length,      \* lanes of a mission
  Gap,         \* a robot that is not mute reports at least this often
  StartBy,     \* a robot starts its order within this time
  LaneTime,    \* and needs at least, and at most, this long for a lane
  Deadline,    \* BEHAVIOR_DEADLINE
  Cooldown,    \* BREAKER_COOLDOWN
  Takeover,    \* boot_takeover_timeout
  Late, Gone,  \* offline_to_degraded, offline_to_offline
  AckTimeout, CmdRetries,
  MaxMissions, \* bound: missions
  MaxFaults    \* bound: mutings, restarts, garbled uplinks, lost orders,
               \* cancels, red lights

ASSUME TimingAssumption ==
  /\ {Length, Gap, StartBy, LaneTime, Deadline, Cooldown, Takeover, Late,
      Gone, AckTimeout} \subseteq Nat \ {0}
  /\ {CmdRetries, MaxMissions, MaxFaults} \subseteq Nat
  /\ Late < Gone

\* Uplinks are frequent: a robot that obeys is seen to obey before the deadline,
\* is never more than one lane further than at its last report, and is not late.
Paced == StartBy + Gap < Deadline /\ Gap < LaneTime /\ Gap <= Late

None == "none"
Mode == {"IDLE", "TASKING", "ERROR"}
Fault == {"lost", "mute", "cancel", "reboot", "garbled", "told"}

VARIABLES
  active,    \* the robot is in _active_assignments
  idx,       \* next_waypoint_idx of the locked path, from 1
  shadow,    \* _shadow: the expected mode or None
  due,       \* _behavior: time left to its deadline, or None
  breaker, cool,             \* _breaker, time left of the cooldown
  age, online, degraded, accepts,  \* RobotFleetState, time since last_seen
  stamped,   \* the degraded flag of the last uplink
  boot,      \* last_boot_id: "old", "new", or empty after a garbled uplink
  freeze,    \* time left of the takeover window
  unacked,   \* the commands in _unacked
  robot,     \* the robot itself
  mute, faults, missions,
  wrong      \* history: the faults since this mission was dispatched

linkVars == <<shadow, due, breaker, cool, unacked>>
healthVars == <<age, online, degraded, accepts, stamped, boot, freeze>>
vars == <<active, idx, linkVars, healthVars, robot, mute, faults, missions, wrong>>

\* job: what the robot does; of: the mission it has; at: lanes driven of it;
\* since: time since its last move; boot: the boot id it reports; held: 0, or the
\* mission for which the command was issued that it stands still for.
Robots == [job : {"idle", "ordered", "driving"}, of : 0..MaxMissions,
           at : 0..Length, since : 0..StartBy + LaneTime, boot : {"old", "new"},
           held : 0..MaxMissions]

\* out: it waits in pending_commands for the next tick.
Commands == [kind : {"HOLD", "RETREAT"}, of : 0..MaxMissions,
             ago : 0..AckTimeout, retries : 0..CmdRetries, out : BOOLEAN]

TypeOK ==
  /\ active \in BOOLEAN /\ idx \in 1..Length + 1
  /\ shadow \in Mode \cup {None} /\ due \in 0..Deadline \cup {-1}
  /\ breaker \in {"CLOSED", "OPEN", "HALF_OPEN"} /\ cool \in 0..Cooldown
  /\ age \in 0..Gone + 1 /\ online \in BOOLEAN /\ degraded \in BOOLEAN
  /\ accepts \in BOOLEAN /\ stamped \in BOOLEAN
  /\ boot \in {"old", "new", None} /\ freeze \in 0..Takeover
  /\ unacked \subseteq Commands /\ robot \in Robots /\ mute \in BOOLEAN
  /\ faults \in 0..MaxFaults /\ missions \in 0..MaxMissions /\ wrong \subseteq Fault

\* The robot has reported once and has nothing to do.
Init ==
  /\ active = FALSE /\ idx = Length + 1
  /\ shadow = None /\ due = -1 /\ breaker = "CLOSED" /\ cool = 0 /\ unacked = {}
  /\ age = 0 /\ online = TRUE /\ degraded = FALSE /\ accepts = TRUE
  /\ stamped = FALSE /\ boot = "old" /\ freeze = 0
  /\ robot = [job |-> "idle", of |-> 0, at |-> 0, since |-> 0, boot |-> "old",
              held |-> 0]
  /\ mute = FALSE /\ faults = 0 /\ missions = 0 /\ wrong = {}

Fails(f) == faults < MaxFaults /\ faults' = faults + 1 /\ wrong' = wrong \cup {f}
Reported == IF robot.job = "driving" THEN "TASKING" ELSE "IDLE"

-----------------------------------------------------------------------------
(* Uplinks.                                                                *)

\* FailoverDegrade.observe and stamp.  An empty boot id is no id to compare with.
Observe(b) ==
  /\ age' = 0 /\ online' = TRUE /\ stamped' = degraded /\ boot' = b
  /\ freeze' = IF boot # None /\ b # boot THEN Takeover ELSE freeze
  /\ UNCHANGED <<degraded, accepts>>

\* mutant: seeing the expected mode does not lift the deadline
MeetsLate(mode) == [shadow |-> None, due |-> due]

\* ShadowStateMachine.reconcile: any other mode leaves what is expected standing.
Meets(mode) == IF shadow \in {None, mode} THEN [shadow |-> None, due |-> -1]
                                          ELSE [shadow |-> shadow, due |-> due]

\* mutants: the lane after the next is asked for; the last lane does not count
CountsSecond(lane) == idx < Length /\ lane = idx + 1
CountsShort(lane) == idx < Length /\ lane = idx

\* advance_waypoint: only the next lane of the locked path counts.
Counts(lane) == idx <= Length /\ lane = idx

\* report_progress: the last lane ends the assignment, and the robot is to be IDLE.
Progress(lane, expected) ==
  LET done == active /\ Counts(lane) /\ lane = Length
  IN  /\ idx' = IF Counts(lane) THEN lane + 1 ELSE idx
      /\ active' = (active /\ ~done)
      /\ shadow' = IF done THEN "IDLE" ELSE expected

\* ingest_uplink with _auto_report_progress: the robot is at the end of lane
\* robot.at of the path it drives.
Uplink ==
  /\ ~mute
  /\ Observe(robot.boot)
  /\ due' = Meets(Reported).due
  /\ IF active /\ robot.of = missions
     THEN Progress(robot.at, Meets(Reported).shadow)
     ELSE shadow' = Meets(Reported).shadow /\ UNCHANGED <<active, idx>>
  /\ UNCHANGED <<breaker, cool, unacked, robot, mute, faults, missions, wrong>>

\* An uplink that does not parse stands for an ERROR state without boot id or node.
GarbledUplink ==
  /\ ~mute /\ Fails("garbled")
  /\ Observe(None)
  /\ shadow' = Meets("ERROR").shadow /\ due' = Meets("ERROR").due
  /\ UNCHANGED <<active, idx, breaker, cool, unacked, robot, mute, missions>>

\* POST /robot/{id}/progress, for a lane the robot has really driven.
ReportProgress(lane) ==
  /\ lane <= robot.at /\ robot.of = missions /\ Counts(lane)
  /\ Progress(lane, shadow)
  /\ UNCHANGED <<due, breaker, cool, unacked, healthVars, robot, mute, faults,
                 missions, wrong>>

-----------------------------------------------------------------------------
(* The platform's tick: liveness, reaping, dispatch, adapter.              *)

\* FailoverDegrade.tick
NowOnline == online /\ age <= Gone
FallsBehind == online /\ ~degraded /\ age > Late
NowDegraded == NowOnline /\ (degraded \/ FallsBehind)
NowAccepts == accepts /\ ~FallsBehind

\* _reap_offline_assignments
Reaped == active /\ (stamped \/ ~NowOnline)

\* base_candidates of _dispatch_pending_tasks
Free == ~(active /\ ~Reaped) /\ ~stamped /\ NowOnline /\ NowAccepts
        /\ freeze = 0 /\ breaker # "OPEN"

\* mutant: whatever the deadline, an expectation that stands trips the breaker
TripsEarly == due # -1 /\ breaker = "CLOSED"

\* ShadowStateMachine.tick: only a CLOSED breaker trips.
Trips == due = 0 /\ breaker = "CLOSED"

\* FleetAdapter.tick: the commands sent again, all that the tick sends of those
\* issued before it, and what _unacked becomes.
Overdue == {c \in unacked : c.ago = AckTimeout}
Resent == {c \in Overdue : c.retries < CmdRetries}
Sent == {c \in unacked : c.out} \cup Resent
Unacked == {[c EXCEPT !.out = FALSE] : c \in unacked \ Overdue}
           \cup {[c EXCEPT !.ago = 0, !.retries = @ + 1, !.out = FALSE] : c \in Resent}

Command(kind, later) ==
  [kind |-> kind, of |-> missions, ago |-> 0, retries |-> 0, out |-> later]

\* The mission of the last command that gets through, 0 if all are lost.
Heard(sent) == {0} \cup {c.of : c \in sent}

\* Robot r when command h has got through, and what that does to its mission.
Obeys(r, h) == IF h = 0 THEN r ELSE [r EXCEPT !.held = h]
Told(r, h) == IF h # 0 /\ r.job # "idle" THEN {"told"} ELSE {}

\* What every tick does to the liveness flags.
Liveness ==
  /\ online' = NowOnline /\ degraded' = NowDegraded /\ accepts' = NowAccepts
  /\ UNCHANGED <<age, stamped, boot, freeze>>

\* _gate_intersections: the next lane of the path is a red intersection.
Gated == active /\ ~Reaped /\ idx <= Length /\ faults < MaxFaults

\* What a tick without a task commands: a HOLD at the red light, a RETREAT for the trip.
Issued(red) == (IF red THEN {Command("HOLD", FALSE)} ELSE {})
               \cup (IF Trips THEN {Command("RETREAT", FALSE)} ELSE {})

\* A tick that has no task for the robot.
TickWith(red, h) ==
  /\ red => Gated
  /\ h \in Heard(Sent \cup Issued(red))
  /\ Liveness
  /\ active' = (active /\ ~Reaped)
  /\ breaker' = IF Trips THEN "OPEN"
                ELSE IF breaker = "OPEN" /\ cool = 0 THEN "HALF_OPEN" ELSE breaker
  /\ cool' = IF Trips THEN Cooldown ELSE cool
  /\ due' = IF Trips THEN -1 ELSE due
  /\ unacked' = Unacked \cup Issued(red)
  /\ robot' = Obeys(robot, h) /\ wrong' = wrong \cup Told(robot, h)
  /\ faults' = IF red THEN faults + 1 ELSE faults
  /\ UNCHANGED <<idx, shadow, mute, missions>>

Tick == \E red \in BOOLEAN, h \in 0..MaxMissions : TickWith(red, h)

\* The robot with a new order: whatever held it is over.
Ordered == [robot EXCEPT !.job = "ordered", !.of = missions + 1, !.at = 0, !.since = 0,
              !.held = 0]

\* A tick that hands the robot a mission: dispatch locks its path and expects
\* TASKING; the order may be lost on its way.  _publish_tick_result sends the
\* order first, then the commands.
Dispatch(arrives, h) ==
  /\ Free /\ missions < MaxMissions
  /\ h \in Heard(Sent)
  /\ arrives \/ faults < MaxFaults
  /\ Liveness
  /\ active' = TRUE /\ idx' = 1 /\ missions' = missions + 1
  /\ shadow' = "TASKING" /\ due' = Deadline
  /\ unacked' = Unacked
  /\ LET r == IF arrives THEN Ordered ELSE robot
     IN  /\ robot' = Obeys(r, h)
         /\ wrong' = (IF mute THEN {"mute"} ELSE {}) \cup Told(r, h)
                     \cup (IF arrives THEN {} ELSE {"lost"})
  /\ faults' = IF arrives THEN faults ELSE faults + 1
  /\ UNCHANGED <<breaker, cool, mute>>

\* cancel_order for the order the robot has: the next tick will tell it to HOLD.
Cancel ==
  /\ active /\ Fails("cancel")
  /\ active' = FALSE
  /\ unacked' = unacked \cup {Command("HOLD", TRUE)}
  /\ UNCHANGED <<idx, shadow, due, breaker, cool, healthVars, robot, mute, missions>>

\* manual_recover: the flags and the breaker, but neither the expectation nor its deadline.
Recover ==
  /\ degraded \/ ~accepts \/ breaker # "CLOSED"
  /\ degraded' = FALSE /\ accepts' = TRUE /\ breaker' = "CLOSED" /\ cool' = 0
  /\ UNCHANGED <<active, idx, shadow, due, unacked, age, online, stamped, boot,
                 freeze, robot, mute, faults, missions, wrong>>

-----------------------------------------------------------------------------
(* The robot and time.                                                     *)

platform == <<active, idx, linkVars, healthVars, missions>>

Start ==
  /\ robot.job = "ordered"
  /\ robot' = [robot EXCEPT !.job = "driving", !.since = 0]
  /\ UNCHANGED <<platform, mute, faults, wrong>>

DriveLane ==
  /\ robot.job = "driving" /\ robot.held = 0 /\ robot.since = LaneTime
  /\ robot' = [robot EXCEPT !.at = @ + 1, !.since = 0,
                 !.job = IF robot.at + 1 = Length THEN "idle" ELSE @]
  /\ UNCHANGED <<platform, mute, faults, wrong>>

\* A restart: the order is forgotten, and the boot id is a new one.
Reboot ==
  /\ robot.boot = "old" /\ Fails("reboot")
  /\ robot' = [robot EXCEPT !.job = "idle", !.since = 0, !.boot = "new", !.held = 0]
  /\ UNCHANGED <<platform, mute>>

FallSilent == ~mute /\ mute' = TRUE /\ Fails("mute") /\ UNCHANGED <<platform, robot>>
SpeakAgain == mute /\ mute' = FALSE /\ UNCHANGED <<platform, robot, faults, wrong>>

Down(n) == IF n > 0 THEN n - 1 ELSE n

Advance ==
  /\ mute \/ age < Gap
  /\ robot.job = "ordered" => robot.since < StartBy
  /\ robot.job = "driving" /\ robot.held = 0 => robot.since < LaneTime
  /\ age' = IF age <= Gone THEN age + 1 ELSE age
  /\ due' = Down(due) /\ cool' = Down(cool) /\ freeze' = Down(freeze)
  /\ unacked' = {[c EXCEPT !.ago = IF @ < AckTimeout THEN @ + 1 ELSE @] : c \in unacked}
  /\ robot' = [robot EXCEPT !.since =
                 IF robot.job = "idle" THEN 0
                 ELSE IF robot.job = "driving" /\ robot.held # 0 THEN @ ELSE @ + 1]
  /\ UNCHANGED <<active, idx, shadow, breaker, online, degraded, accepts, stamped,
                 boot, mute, faults, missions, wrong>>

Next == \/ Uplink \/ GarbledUplink \/ Tick \/ Cancel \/ Recover
        \/ \E lane \in 1..Length : ReportProgress(lane)
        \/ \E arrives \in BOOLEAN, h \in 0..MaxMissions : Dispatch(arrives, h)
        \/ Start \/ DriveLane \/ Reboot \/ FallSilent \/ SpeakAgain \/ Advance

\* The background thread ticks and time goes by for ever; a robot that can
\* report does, and one with an order drives.
Fairness == WF_vars(Tick) /\ WF_vars(Advance) /\ WF_vars(Uplink)
            /\ WF_vars(Start) /\ WF_vars(DriveLane)

Spec == Init /\ [][Next]_vars /\ Fairness

-----------------------------------------------------------------------------
(* Properties.  A mission during which a command gets through is not one   *)
(* that nothing happened to: the robot stands still for good.              *)

\* The breaker only trips on a robot that something happened to since it got
\* its mission: one that takes its order and reports is never sent back, however
\* uplinks, progress reports, recoveries and ticks interleave.
TripIsEarned == [][Paced /\ breaker = "CLOSED" /\ breaker' = "OPEN" => wrong # {}]_vars

\* The books and the robot keep in step: unless something happened to the mission,
\* the robot is on the next lane of its contract or at the end of it, and whoever
\* drives is on the books with that very mission: nobody drives for one that is over.
InStep ==
  Paced /\ wrong = {} =>
    /\ active => robot.of = missions /\ robot.at \in {idx - 1, idx}
    /\ robot.job # "idle" => active /\ robot.of = missions

\* A mission that nothing happens to ends.
MissionEnds == (active /\ wrong = {}) ~> (~active \/ wrong # {} \/ ~Paced)

\* clear_pending_holds documents that stale retries do not keep the robot frozen:
\* no robot stands still in its mission for a command that was about an earlier one.
NoStaleHold == robot.job # "idle" => robot.held \in {0, robot.of}

=============================================================================
