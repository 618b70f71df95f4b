--------------------------- MODULE FleetLinkProofs ---------------------------
(***************************************************************************)
(* What the platform's books say of a robot that nothing happened to, and  *)
(* that the breaker leaves such a robot alone, for every length of the     *)
(* missions, every pace and every time limit.                              *)
(*                                                                         *)
(* The two claims stand on one invariant: InStep does not say how old the  *)
(* last report is, so by itself it does not survive a lane driven without  *)
(* one, and a trip is excluded by counting the deadline of an order        *)
(* against the time the robot has taken so far.                            *)
(***************************************************************************)
EXTENDS FleetLink, TLAPS

-----------------------------------------------------------------------------
(* The inductive invariant: the parts of TypeOK, and what relates them.    *)

Flags ==
  /\ active \in BOOLEAN /\ online \in BOOLEAN /\ degraded \in BOOLEAN
  /\ accepts \in BOOLEAN /\ stamped \in BOOLEAN /\ mute \in BOOLEAN

Clocks ==
  /\ idx \in 1..Length + 1 /\ due \in 0..Deadline \cup {-1}
  /\ cool \in 0..Cooldown /\ age \in 0..Gone + 1 /\ freeze \in 0..Takeover
  /\ faults \in 0..MaxFaults /\ missions \in 0..MaxMissions

Words ==
  /\ shadow \in Mode \cup {None} /\ breaker \in {"CLOSED", "OPEN", "HALF_OPEN"}
  /\ boot \in {"old", "new", None} /\ wrong \subseteq Fault

Records == robot \in Robots /\ unacked \subseteq Commands

\* Who is degraded takes no task, a mute robot is a fault of the mission, and
\* whoever drives or is about to has lanes left.
Health ==
  /\ degraded => ~accepts
  /\ mute => "mute" \in wrong
  /\ robot.job # "idle" => robot.at < Length

\* A mission on the books that nothing happened to: the platform has heard of its
\* robot lately, and knows all its lanes, or all but one that it just finished.
Booked ==
  active =>
    /\ robot.of = missions /\ idx <= Length /\ robot.at \in {idx - 1, idx}
    /\ online /\ ~degraded /\ ~stamped /\ age <= Late
    /\ robot.at = idx => robot.since <= age /\ robot.since <= Gap

\* Who waits to start has its deadline ahead; who has started is seen to obey
\* within Gap, and then there is no deadline any more.  No command holds either.
InTime ==
  /\ robot.job = "idle" => due = -1 /\ robot.since = 0
  /\ robot.job = "ordered" => /\ robot.at = 0 /\ shadow = "TASKING"
                              /\ robot.since <= StartBy /\ due >= Deadline - robot.since
  /\ robot.job # "idle" => robot.held = 0
  /\ robot.job = "driving" =>
       due = -1 \/ /\ shadow = "TASKING" /\ robot.since <= age /\ robot.since <= Gap
                   /\ due >= Deadline - StartBy - robot.since

Undisturbed ==
  Paced /\ wrong = {} =>
    /\ robot.job # "idle" => active
    /\ Booked
    /\ InTime

LinkInv == Flags /\ Clocks /\ Words /\ Records /\ Health /\ Undisturbed

-----------------------------------------------------------------------------
(* The constants, and the records of the model.                            *)

\* Every length and every time limit is positive, the bounds are natural.
LEMMA Constants ==
  /\ Length \in Nat /\ Length >= 1 /\ Gap \in Nat /\ Gap >= 1
  /\ StartBy \in Nat /\ StartBy >= 1 /\ LaneTime \in Nat /\ LaneTime >= 1
  /\ Deadline \in Nat /\ Deadline >= 1 /\ Cooldown \in Nat /\ Takeover \in Nat
  /\ Late \in Nat /\ Gone \in Nat /\ Late < Gone /\ AckTimeout \in Nat
  /\ CmdRetries \in Nat /\ MaxMissions \in Nat /\ MaxFaults \in Nat
BY TimingAssumption

\* A command that is new, older, or sent again is still a command.
LEMMA CommandsStay ==
  ASSUME unacked \subseteq Commands, missions \in 0..MaxMissions
  PROVE  /\ \A k \in {"HOLD", "RETREAT"}, l \in BOOLEAN : Command(k, l) \in Commands
         /\ Unacked \subseteq Commands
         /\ {[c EXCEPT !.ago = IF @ < AckTimeout THEN @ + 1 ELSE @] : c \in unacked}
              \subseteq Commands
<1>1. \A k \in {"HOLD", "RETREAT"}, l \in BOOLEAN : Command(k, l) \in Commands
  BY Constants DEF Command, Commands
<1>2. ASSUME NEW c \in Resent
      PROVE  [c EXCEPT !.ago = 0, !.retries = @ + 1, !.out = FALSE] \in Commands
  <2>1. c \in Commands /\ c.retries < CmdRetries
    BY <1>2 DEF Resent, Overdue
  <2>2. PICK d : d = [c EXCEPT !.ago = 0]
    OBVIOUS
  <2>3. PICK e : e = [d EXCEPT !.out = FALSE]
    OBVIOUS
  <2>4. d \in Commands /\ d.retries = c.retries
    BY <2>1, <2>2, Constants DEF Commands
  <2>5. e \in Commands /\ e.retries = c.retries
    BY <2>3, <2>4 DEF Commands
  <2>6. [c EXCEPT !.ago = 0, !.retries = @ + 1, !.out = FALSE] = [e EXCEPT !.retries = @ + 1]
    BY <2>2, <2>3, <2>4, <2>5
  <2> QED BY <2>1, <2>5, <2>6, Constants DEF Commands
<1>3. ASSUME NEW c \in unacked PROVE [c EXCEPT !.out = FALSE] \in Commands
  BY DEF Commands
<1>4. ASSUME NEW c \in unacked
      PROVE  [c EXCEPT !.ago = IF @ < AckTimeout THEN @ + 1 ELSE @] \in Commands
  <2>1. c \in Commands
    BY <1>4
  <2> QED BY <2>1, Constants DEF Commands
<1>5. Overdue \subseteq unacked
  BY DEF Overdue
<1> QED BY <1>1, <1>2, <1>3, <1>4, <1>5 DEF Unacked

\* The moves of the robot: what it takes or forgets leaves it a robot.
LEMMA RobotHalts ==
  ASSUME NEW r \in Robots, NEW j \in {"idle", "ordered", "driving"}
  PROVE  /\ [r EXCEPT !.job = j, !.since = 0] \in Robots
         /\ [r EXCEPT !.job = j, !.since = 0, !.boot = "new", !.held = 0] \in Robots
<1>1. PICK d : d = [r EXCEPT !.job = j]
  OBVIOUS
<1>2. PICK e : e = [d EXCEPT !.since = 0]
  OBVIOUS
<1>3. PICK f : f = [e EXCEPT !.boot = "new"]
  OBVIOUS
<1>4. d \in Robots
  BY <1>1 DEF Robots
<1>5. e \in Robots
  BY <1>2, <1>4, Constants DEF Robots
<1>6. f \in Robots
  BY <1>3, <1>5 DEF Robots
<1>7. [f EXCEPT !.held = 0] \in Robots
  BY <1>6, Constants DEF Robots
<1>8. [r EXCEPT !.job = j, !.since = 0] = e
  BY <1>1, <1>2
<1>9. [r EXCEPT !.job = j, !.since = 0, !.boot = "new", !.held = 0] = [f EXCEPT !.held = 0]
  BY <1>1, <1>2, <1>3
<1> QED BY <1>5, <1>7, <1>8, <1>9

\* The robot at the end of a lane.
LEMMA RobotMoves ==
  ASSUME NEW r \in Robots, NEW j \in {"idle", "ordered", "driving"}, NEW at \in 0..Length
  PROVE  [r EXCEPT !.at = at, !.since = 0, !.job = j] \in Robots
<1>1. PICK d : d = [r EXCEPT !.at = at]
  OBVIOUS
<1>2. PICK e : e = [d EXCEPT !.since = 0]
  OBVIOUS
<1>3. d \in Robots
  BY <1>1 DEF Robots
<1>4. e \in Robots
  BY <1>2, <1>3, Constants DEF Robots
<1>5. [r EXCEPT !.at = at, !.since = 0, !.job = j] = [e EXCEPT !.job = j]
  BY <1>1, <1>2
<1> QED BY <1>4, <1>5 DEF Robots

\* The robot with a new order, which nothing holds.
LEMMA RobotOrdered ==
  ASSUME robot \in Robots, missions + 1 \in 0..MaxMissions
  PROVE  /\ Ordered \in Robots
         /\ Ordered.job = "ordered" /\ Ordered.of = missions + 1
         /\ Ordered.at = 0 /\ Ordered.since = 0 /\ Ordered.held = 0
<1>1. PICK d : d = [robot EXCEPT !.job = "ordered"]
  OBVIOUS
<1>2. PICK e : e = [d EXCEPT !.of = missions + 1]
  OBVIOUS
<1>3. PICK f : f = [e EXCEPT !.at = 0]
  OBVIOUS
<1>4. PICK g : g = [f EXCEPT !.since = 0]
  OBVIOUS
<1>5. d \in Robots /\ d.job = "ordered"
  BY <1>1 DEF Robots
<1>6. e \in Robots /\ e.job = "ordered" /\ e.of = missions + 1
  BY <1>2, <1>5 DEF Robots
<1>7. f \in Robots /\ f.job = "ordered" /\ f.of = missions + 1 /\ f.at = 0
  BY <1>3, <1>6, Constants DEF Robots
<1>8. /\ g \in Robots /\ g.job = "ordered" /\ g.of = missions + 1 /\ g.at = 0
      /\ g.since = 0
  BY <1>4, <1>7, Constants DEF Robots
<1>9. Ordered = [g EXCEPT !.held = 0]
  BY <1>1, <1>2, <1>3, <1>4 DEF Ordered
<1> QED BY <1>8, <1>9, Constants DEF Robots

\* A command that gets through holds the robot, and counts if it has a mission.
LEMMA RobotObeys ==
  ASSUME NEW r \in Robots, NEW h \in 0..MaxMissions
  PROVE  /\ Obeys(r, h) \in Robots
         /\ Obeys(r, h).job = r.job /\ Obeys(r, h).of = r.of /\ Obeys(r, h).at = r.at
         /\ Obeys(r, h).since = r.since /\ Obeys(r, h).boot = r.boot
         /\ Told(r, h) \subseteq {"told"}
         /\ Told(r, h) = {} /\ r.job # "idle" => Obeys(r, h) = r
  BY DEF Obeys, Told, Robots

-----------------------------------------------------------------------------
(* The invariant.                                                          *)

\* What an uplink of a mode makes of the expectation and its deadline.
LEMMA Seen ==
  ASSUME NEW mode
  PROVE  /\ Meets(mode).due = IF shadow \in {None, mode} THEN -1 ELSE due
         /\ Meets(mode).shadow = IF shadow \in {None, mode} THEN None ELSE shadow
BY DEF Meets

\* Before the first mission nothing is on the books.
LEMMA LinkStarts == Init => LinkInv
<1> SUFFICES ASSUME Init PROVE LinkInv
  OBVIOUS
<1>1. Records
  BY Constants DEF Init, Records, Robots
<1>2. Flags
  BY DEF Init, Flags
<1>3. Clocks
  BY Constants DEF Init, Clocks
<1>4. Words
  BY DEF Init, Words, Mode, Fault, None
<1>5. Health /\ Undisturbed
  BY DEF Init, Health, Undisturbed, Booked, InTime
<1> QED BY <1>1, <1>2, <1>3, <1>4, <1>5 DEF LinkInv

\* Each operation keeps the invariant.
LEMMA LinkKept == LinkInv /\ [Next]_vars => LinkInv'
<1> SUFFICES ASSUME LinkInv, [Next]_vars PROVE LinkInv'
  OBVIOUS
<1> USE DEF LinkInv, healthVars, linkVars, platform
<1>1. ASSUME Uplink PROVE LinkInv'
  <2>a. due' = IF shadow \in {None, Reported} THEN -1 ELSE due
    BY <1>1, Seen DEF Uplink
  <2>b. shadow' = IF active /\ robot.of = missions /\ Counts(robot.at) /\ robot.at = Length
                  THEN "IDLE"
                  ELSE IF shadow \in {None, Reported} THEN None ELSE shadow
    BY <1>1, Seen DEF Uplink, Progress
  <2>1. Records'
    BY <1>1, Constants DEF Records, Flags, Clocks,
       Uplink, Observe, Meets, Progress, Counts, Reported
  <2>2. Flags'
    BY <1>1 DEF Flags, Uplink, Observe, Meets, Progress, Counts, Reported
  <2>3. Clocks'
    BY <1>1, <2>a, Constants DEF Records, Robots, Clocks,
       Uplink, Observe, Progress, Counts
  <2>4. Words'
    BY <1>1, <2>b DEF Records, Robots, Words, Mode, Fault, None, Uplink, Observe
  <2>5. Health'
    BY <1>1, <2>1, Constants DEF Records, Robots, Health,
       Uplink, Observe, Progress, Counts
  <2>6. Undisturbed'
    <3> SUFFICES ASSUME Paced, wrong = {}
                 PROVE  /\ robot.job # "idle" => active'
                        /\ Booked'
                        /\ InTime'
      BY <1>1 DEF Uplink, Undisturbed
    <3>1. age' = 0 /\ online' /\ stamped' = degraded /\ degraded' = degraded
      BY <1>1 DEF Uplink, Observe
    <3>2. robot' = robot /\ missions' = missions
      BY <1>1 DEF Uplink
    <3>3. /\ active => idx' = IF robot.at = idx THEN idx + 1 ELSE idx
          /\ active' => active /\ ~(robot.at = idx /\ idx = Length)
          /\ active /\ robot.at < Length => active'
      BY <1>1, Constants DEF Uplink, Progress, Counts, Undisturbed, Booked, Clocks, Flags
    <3>4. robot.job # "idle" => active'
      BY <3>3 DEF Undisturbed, Health
    <3>5. Booked'
      <4> SUFFICES ASSUME active' PROVE Booked'
        BY DEF Booked
      <4>1. active /\ Booked
        BY <3>3 DEF Undisturbed
      <4>2. robot.of = missions /\ idx' <= Length /\ robot.at = idx' - 1
        <5>1. idx \in Nat /\ robot.at \in Nat
          BY Constants DEF Records, Robots, Clocks
        <5>2. CASE robot.at = idx
          BY <3>3, <4>1, <5>1, <5>2, Constants DEF Booked
        <5>3. CASE robot.at # idx
          BY <3>3, <4>1, <5>1, <5>3, Constants DEF Booked
        <5> QED BY <5>2, <5>3
      <4>3. robot.at # idx' /\ 0 <= Late
        BY <4>2, Constants DEF Records, Robots, Clocks
      <4>4. ~degraded
        BY <4>1 DEF Booked
      <4> QED BY <3>1, <3>2, <4>2, <4>3, <4>4 DEF Booked
    <3>6. InTime'
      BY <3>1, <3>2, <2>a, <2>b, Constants
      DEF Undisturbed, Booked, InTime, Health, Records, Robots, Clocks, Reported, Counts, None
    <3> QED BY <3>4, <3>5, <3>6
  <2> QED BY <2>1, <2>2, <2>3, <2>4, <2>5, <2>6
<1>2. ASSUME GarbledUplink PROVE LinkInv'
  <2>1. Records'
    BY <1>2, Constants DEF Records, Flags, Clocks, GarbledUplink, Fails, Observe, Meets
  <2>2. Flags'
    BY <1>2 DEF Flags, GarbledUplink, Fails, Observe, Meets
  <2>3. Clocks'
    <3>1. due' = IF shadow \in {None, "ERROR"} THEN -1 ELSE due
      BY <1>2, Seen DEF GarbledUplink
    <3> QED BY <1>2, <3>1, Constants DEF Clocks, GarbledUplink, Fails, Observe
  <2>4. Words'
    BY <1>2 DEF Words, Mode, Fault, None, GarbledUplink, Fails, Observe, Meets
  <2>5. Health'
    BY <1>2, <2>1, Constants DEF Records, Robots, Health,
       GarbledUplink, Fails, Observe, Meets
  <2>6. Undisturbed'
    BY <1>2, <2>1, <2>3, Constants DEF Records, Robots, Flags, Clocks, Health, Undisturbed,
       Booked, InTime, Paced, GarbledUplink, Fails, Observe, Meets
  <2> QED BY <2>1, <2>2, <2>3, <2>4, <2>5, <2>6
<1>3. ASSUME NEW red \in BOOLEAN, NEW h \in 0..MaxMissions, TickWith(red, h)
      PROVE  LinkInv'
  <2> USE DEF TickWith, Liveness, Reaped, NowOnline, NowDegraded, NowAccepts, FallsBehind
  <2>0. /\ robot' \in Robots /\ UNCHANGED <<missions, mute, age, stamped>>
        /\ robot'.job = robot.job /\ robot'.of = robot.of /\ robot'.at = robot.at
        /\ robot'.since = robot.since /\ wrong' \subseteq wrong \cup {"told"}
        /\ wrong \subseteq wrong'
        /\ wrong' = {} /\ robot.job # "idle" => robot' = robot
    BY <1>3, RobotObeys DEF Records
  <2>1. Records'
    <3>1. Issued(red) \subseteq Commands
      BY CommandsStay DEF Issued, Records, Clocks
    <3>2. unacked' \subseteq Commands
      BY <1>3, <3>1, CommandsStay DEF Records, Clocks
    <3> QED BY <2>0, <3>2 DEF Records
  <2>2. Flags'
    BY <1>3 DEF Flags
  <2>3. Clocks'
    BY <1>3, Constants DEF Clocks, Gated
  <2>4. Words'
    BY <1>3, <2>0 DEF Words, Mode, Fault, None
  <2>5. Health'
    <3>1. degraded' => ~accepts'
      BY <1>3 DEF Health
    <3> QED BY <2>0, <3>1 DEF Health
  <2>6. Undisturbed'
    <3> SUFFICES ASSUME Paced, wrong' = {}
                 PROVE  /\ robot'.job # "idle" => active'
                        /\ Booked'
                        /\ InTime'
      BY DEF Undisturbed, Paced
    <3>1. wrong = {} /\ Undisturbed /\ UNCHANGED <<idx, shadow>>
      BY <1>3, <2>0
    <3>2. active => ~Reaped /\ online' /\ ~degraded'
      <4> SUFFICES ASSUME active PROVE ~Reaped /\ online' /\ ~degraded'
        OBVIOUS
      <4>1. online /\ ~degraded /\ ~stamped /\ age <= Late
        BY <3>1 DEF Undisturbed, Booked
      <4>2. age <= Gone /\ ~(age > Late)
        BY <4>1, Constants DEF Clocks
      <4> QED BY <1>3, <4>1, <4>2
    <3>3. active' = active
      BY <1>3, <3>2 DEF Flags
    <3>4. due' = due
      BY <1>3, <3>1, Constants DEF Trips, Undisturbed, InTime, Records, Robots, Clocks, Paced
    <3>5. Booked'
      BY <2>0, <3>1, <3>2, <3>3 DEF Undisturbed, Booked
    <3>6. InTime'
      BY <2>0, <3>1, <3>4 DEF Undisturbed, InTime
    <3> QED BY <2>0, <3>1, <3>3, <3>5, <3>6 DEF Undisturbed
  <2> QED BY <2>1, <2>2, <2>3, <2>4, <2>5, <2>6
<1>4. ASSUME Cancel PROVE LinkInv'
  <2>1. Records'
    <3>1. Command("HOLD", TRUE) \in Commands
      BY CommandsStay DEF Records, Clocks
    <3> QED BY <1>4, <3>1 DEF Records, Cancel
  <2>2. Flags'
    BY <1>4 DEF Flags, Cancel, Fails
  <2>3. Clocks'
    BY <1>4, Constants DEF Records, Robots, Clocks, Cancel, Fails
  <2>4. Words'
    BY <1>4 DEF Words, Mode, Fault, None, Cancel, Fails
  <2>5. Health'
    BY <1>4, <2>1, Constants DEF Records, Robots, Health, Cancel, Fails
  <2>6. Undisturbed'
    BY <1>4, <2>1, <2>3, Constants DEF Records, Robots, Flags, Clocks, Health, Undisturbed,
       Booked, InTime, Paced, Cancel, Fails
  <2> QED BY <2>1, <2>2, <2>3, <2>4, <2>5, <2>6
<1>5. ASSUME Recover PROVE LinkInv'
  <2>1. Records'
    BY <1>5, Constants DEF Records, Flags, Clocks, Recover
  <2>2. Flags'
    BY <1>5 DEF Flags, Recover
  <2>3. Clocks'
    BY <1>5, Constants DEF Records, Robots, Clocks, Recover
  <2>4. Words'
    BY <1>5 DEF Words, Mode, Fault, None, Recover
  <2>5. Health'
    BY <1>5, <2>1, Constants DEF Records, Robots, Health, Recover
  <2>6. Undisturbed'
    BY <1>5, <2>1, <2>3, Constants DEF Records, Robots, Flags, Clocks, Health, Undisturbed,
       Booked, InTime, Paced, Recover
  <2> QED BY <2>1, <2>2, <2>3, <2>4, <2>5, <2>6
<1>6. ASSUME NEW lane \in 1..Length, ReportProgress(lane) PROVE LinkInv'
  <2>1. Records'
    BY <1>6, Constants DEF Records, Flags, Clocks, ReportProgress, Progress, Counts
  <2>2. Flags'
    BY <1>6 DEF Flags, ReportProgress, Progress, Counts
  <2>3. Clocks'
    BY <1>6, Constants DEF Records, Robots, Clocks, ReportProgress, Progress, Counts
  <2>4. Words'
    BY <1>6 DEF Words, Mode, Fault, None, ReportProgress, Progress, Counts
  <2>5. Health'
    BY <1>6, <2>1, Constants DEF Records, Robots, Health,
       ReportProgress, Progress, Counts
  <2>6. Undisturbed'
    BY <1>6, <2>1, <2>3, Constants DEF Records, Robots, Flags, Clocks, Health, Undisturbed,
       Booked, InTime, Paced, ReportProgress, Progress, Counts
  <2> QED BY <2>1, <2>2, <2>3, <2>4, <2>5, <2>6
<1>7. ASSUME NEW arrives \in BOOLEAN, NEW h \in 0..MaxMissions, Dispatch(arrives, h)
      PROVE  LinkInv'
  <2> DEFINE r == IF arrives THEN Ordered ELSE robot
  <2> USE DEF Dispatch, Liveness, Free, Reaped, NowOnline, NowDegraded, NowAccepts, FallsBehind
  <2>a. /\ r \in Robots
        /\ arrives => /\ r.job = "ordered" /\ r.of = missions + 1 /\ r.at = 0
                      /\ r.since = 0 /\ r.held = 0
    BY <1>7, RobotOrdered, Constants DEF Records, Clocks
  <2>b. r = IF arrives THEN Ordered ELSE robot
    OBVIOUS
  <2>c. /\ robot' = Obeys(r, h)
        /\ wrong' = (IF mute THEN {"mute"} ELSE {}) \cup Told(r, h)
                    \cup (IF arrives THEN {} ELSE {"lost"})
    BY <1>7
  <2> HIDE DEF r
  <2>0. /\ robot' \in Robots
        /\ robot'.job = r.job /\ robot'.at = r.at
        /\ arrives => /\ robot'.job = "ordered" /\ robot'.of = missions + 1
                      /\ robot'.at = 0 /\ robot'.since = 0
        /\ wrong' = {} => arrives /\ robot'.held = 0
        /\ wrong' \subseteq {"mute", "told", "lost"} /\ (mute => "mute" \in wrong')
    BY <2>a, <2>c, RobotObeys
  <2>1. Records'
    BY <1>7, <2>0, CommandsStay DEF Records, Clocks
  <2>2. Flags'
    BY <1>7 DEF Flags
  <2>3. Clocks'
    BY <1>7, Constants DEF Clocks
  <2>4. Words'
    BY <1>7, <2>0 DEF Words, Mode, Fault, None
  <2>5. Health'
    <3>1. degraded' => ~accepts'
      BY <1>7 DEF Health
    <3>2. mute' => "mute" \in wrong'
      BY <1>7, <2>0
    <3>3. robot'.job # "idle" => robot'.at < Length
      BY <1>7, <2>0, <2>b, Constants DEF Health
    <3> QED BY <3>1, <3>2, <3>3 DEF Health
  <2>6. Undisturbed'
    BY <1>7, <2>0, <2>3, Constants DEF Flags, Clocks, Health, Undisturbed, Booked, InTime, Paced
  <2> QED BY <2>1, <2>2, <2>3, <2>4, <2>5, <2>6
<1>8. ASSUME Start PROVE LinkInv'
  <2>1. Records'
    <3>1. [robot EXCEPT !.job = "driving", !.since = 0] \in Robots
      BY RobotHalts DEF Records
    <3> QED BY <1>8, <3>1 DEF Records, Start
  <2>2. Flags'
    BY <1>8 DEF Flags, Start
  <2>3. Clocks'
    BY <1>8, Constants DEF Records, Robots, Clocks, Start
  <2>4. Words'
    BY <1>8 DEF Words, Mode, Fault, None, Start
  <2>5. Health'
    BY <1>8, <2>1, Constants DEF Records, Robots, Health, Start
  <2>6. Undisturbed'
    BY <1>8, <2>1, <2>3, Constants DEF Records, Robots, Flags, Clocks, Health, Undisturbed,
       Booked, InTime, Paced, Start
  <2> QED BY <2>1, <2>2, <2>3, <2>4, <2>5, <2>6
<1>9. ASSUME DriveLane PROVE LinkInv'
  <2>1. Records'
    <3>1. robot.at + 1 \in 0..Length
      BY <1>9, Constants DEF Health, Records, Robots, DriveLane
    <3> DEFINE j == IF robot.at + 1 = Length THEN "idle" ELSE robot.job
    <3>2. j \in {"idle", "ordered", "driving"}
      BY DEF Records, Robots
    <3>3. [robot EXCEPT !.at = robot.at + 1, !.since = 0, !.job = j] \in Robots
      <4> HIDE DEF j
      <4> QED BY <3>1, <3>2, RobotMoves DEF Records
    <3> QED BY <1>9, <3>3 DEF Records, DriveLane
  <2>2. Flags'
    BY <1>9 DEF Flags, DriveLane
  <2>3. Clocks'
    BY <1>9, Constants DEF Records, Robots, Clocks, DriveLane
  <2>4. Words'
    BY <1>9 DEF Words, Mode, Fault, None, DriveLane
  <2>5. Health'
    BY <1>9, <2>1, Constants DEF Records, Robots, Health, DriveLane
  <2>6. Undisturbed'
    BY <1>9, <2>1, <2>3, Constants DEF Records, Robots, Flags, Clocks, Health, Undisturbed,
       Booked, InTime, Paced, DriveLane
  <2> QED BY <2>1, <2>2, <2>3, <2>4, <2>5, <2>6
<1>10. ASSUME Reboot PROVE LinkInv'
  <2>1. Records'
    <3>1. [robot EXCEPT !.job = "idle", !.since = 0, !.boot = "new", !.held = 0] \in Robots
      BY RobotHalts DEF Records
    <3> QED BY <1>10, <3>1 DEF Records, Reboot
  <2>2. Flags'
    BY <1>10 DEF Flags, Reboot, Fails
  <2>3. Clocks'
    BY <1>10, Constants DEF Records, Robots, Clocks, Reboot, Fails
  <2>4. Words'
    BY <1>10 DEF Words, Mode, Fault, None, Reboot, Fails
  <2>5. Health'
    BY <1>10, <2>1, Constants DEF Records, Robots, Health, Reboot, Fails
  <2>6. Undisturbed'
    BY <1>10, <2>1, <2>3, Constants DEF Records, Robots, Flags, Clocks, Health, Undisturbed,
       Booked, InTime, Paced, Reboot, Fails
  <2> QED BY <2>1, <2>2, <2>3, <2>4, <2>5, <2>6
<1>11. ASSUME FallSilent PROVE LinkInv'
  <2>1. Records'
    BY <1>11, Constants DEF Records, Flags, Clocks, FallSilent, Fails
  <2>2. Flags'
    BY <1>11 DEF Flags, FallSilent, Fails
  <2>3. Clocks'
    BY <1>11, Constants DEF Records, Robots, Clocks, FallSilent, Fails
  <2>4. Words'
    BY <1>11 DEF Words, Mode, Fault, None, FallSilent, Fails
  <2>5. Health'
    BY <1>11, <2>1, Constants DEF Records, Robots, Health, FallSilent, Fails
  <2>6. Undisturbed'
    BY <1>11, <2>1, <2>3, Constants DEF Records, Robots, Flags, Clocks, Health, Undisturbed,
       Booked, InTime, Paced, FallSilent, Fails
  <2> QED BY <2>1, <2>2, <2>3, <2>4, <2>5, <2>6
<1>12. ASSUME SpeakAgain PROVE LinkInv'
  <2>1. Records'
    BY <1>12, Constants DEF Records, Flags, Clocks, SpeakAgain
  <2>2. Flags'
    BY <1>12 DEF Flags, SpeakAgain
  <2>3. Clocks'
    BY <1>12, Constants DEF Records, Robots, Clocks, SpeakAgain
  <2>4. Words'
    BY <1>12 DEF Words, Mode, Fault, None, SpeakAgain
  <2>5. Health'
    BY <1>12, <2>1, Constants DEF Records, Robots, Health, SpeakAgain
  <2>6. Undisturbed'
    BY <1>12, <2>1, <2>3, Constants DEF Records, Robots, Flags, Clocks, Health, Undisturbed,
       Booked, InTime, Paced, SpeakAgain
  <2> QED BY <2>1, <2>2, <2>3, <2>4, <2>5, <2>6
<1>13. ASSUME Advance PROVE LinkInv'
  <2>1. Records'
    <3>1. robot' \in Robots
      BY <1>13, Constants DEF Records, Robots, Advance
    <3>2. unacked' \subseteq Commands
      BY <1>13, CommandsStay DEF Records, Clocks, Advance
    <3> QED BY <3>1, <3>2 DEF Records
  <2>2. Flags'
    BY <1>13 DEF Flags, Advance, Down
  <2>3. Clocks'
    BY <1>13, Constants DEF Records, Robots, Clocks, Advance, Down
  <2>4. Words'
    BY <1>13 DEF Words, Mode, Fault, None, Advance, Down
  <2>5. Health'
    BY <1>13, <2>1, Constants DEF Records, Robots, Health, Advance, Down
  <2>6. Undisturbed'
    BY <1>13, <2>1, <2>3, Constants DEF Records, Robots, Flags, Clocks, Health, Undisturbed,
       Booked, InTime, Paced, Advance, Down
  <2> QED BY <2>1, <2>2, <2>3, <2>4, <2>5, <2>6
<1>14. ASSUME UNCHANGED vars PROVE LinkInv'
  <2>1. Records'
    BY <1>14, Constants DEF Records, Flags, Clocks, vars
  <2>2. Flags'
    BY <1>14 DEF Flags, vars
  <2>3. Clocks'
    BY <1>14, Constants DEF Records, Robots, Clocks, vars
  <2>4. Words'
    BY <1>14 DEF Words, Mode, Fault, None, vars
  <2>5. Health'
    BY <1>14, <2>1, Constants DEF Records, Robots, Health, vars
  <2>6. Undisturbed'
    BY <1>14, <2>1, <2>3, Constants DEF Records, Robots, Flags, Clocks, Health, Undisturbed,
       Booked, InTime, Paced, vars
  <2> QED BY <2>1, <2>2, <2>3, <2>4, <2>5, <2>6
<1> QED
  BY <1>1, <1>2, <1>3, <1>4, <1>5, <1>6, <1>7, <1>8, <1>9, <1>10, <1>11, <1>12, <1>13, <1>14
     DEF Next, Tick

\* The invariant holds throughout.
LEMMA LinkHolds == Spec => []LinkInv
<1>1. LinkInv /\ [Next]_vars => LinkInv'
  BY LinkKept
<1> QED BY <1>1, LinkStarts, PTL DEF Spec

-----------------------------------------------------------------------------
(* The results.                                                            *)

\* Every variable keeps its type (the flags, the clocks, the contract, the
\* commands that wait for an acknowledgement).
THEOREM TypeCorrect == Spec => []TypeOK
<1>1. LinkInv => TypeOK
  BY DEF LinkInv, TypeOK, Flags, Clocks, Words, Records
<1> QED BY <1>1, LinkHolds, PTL

\* ingest_uplink, report_progress and the dispatch keep the books in step with a
\* robot nothing happened to, whatever the lengths and the times are.
THEOREM BooksInStep == Spec => []InStep
<1>1. LinkInv => InStep
  BY DEF LinkInv, InStep, Undisturbed, Booked
<1> QED BY <1>1, LinkHolds, PTL

\* ShadowStateMachine.tick never trips the breaker of a robot that takes its
\* order and reports in time.
THEOREM BreakerSparesTheObedient == Spec => TripIsEarned
<1>1. ASSUME LinkInv, [Next]_vars, Paced, breaker = "CLOSED", breaker' = "OPEN"
      PROVE  wrong # {}
  <2>1. Trips
    BY <1>1 DEF Next, vars, linkVars, healthVars, platform, Uplink, GarbledUplink, Tick, TickWith,
       Cancel, Recover, ReportProgress, Dispatch, Start, DriveLane, Reboot, FallSilent,
       SpeakAgain, Advance
  <2>2. due = 0
    BY <2>1 DEF Trips
  <2>3. robot \in Robots
    BY <1>1 DEF LinkInv, Records
  <2> QED BY <1>1, <2>2, <2>3, Constants DEF LinkInv, Undisturbed, InTime, Robots, Paced
<1>2. LinkInv /\ [Next]_vars
        => [Paced /\ breaker = "CLOSED" /\ breaker' = "OPEN" => wrong # {}]_vars
  BY <1>1
<1> QED BY <1>2, LinkHolds, PTL DEF Spec, TripIsEarned

=============================================================================
