------------------------- MODULE TrafficLightProofs ------------------------
(***************************************************************************)
(* For every choice of the durations with Cross < Yellow + all-red: the    *)
(* two directions are in the intersection together only while a vehicle is *)
(* there that an E-stop had frozen when it was cleared.                    *)
(*                                                                         *)
(* SafeCrossing says nothing of time, so it is not inductive: a vehicle    *)
(* may still be inside when red ends unless yellow and the all-red wait    *)
(* are known to have outlasted it.  ClearingIsTimed relates the vehicle's  *)
(* time inside to the age of the phase, which is what each step preserves. *)
(***************************************************************************)
EXTENDS TrafficLight, TLAPS

USE TimingAssumption, ValueAssumption DEF Dir

\* The signal, the demand records and the ages keep their types.
THEOREM TypeCorrect == Spec => []TypeOK
<1> USE DEF TypeOK
<1>1. Init => TypeOK
  BY DEF Init
<1>2. TypeOK /\ [Next]_vars => TypeOK'
  <2> SUFFICES ASSUME TypeOK, [Next]_vars PROVE TypeOK'
    OBVIOUS
  <2> USE DEF signal, demand, vehicles
  <2>1. ASSUME NEW d \in Dir, NEW w \in BOOLEAN, ReportWaiting(d, w)
        PROVE  TypeOK'
    BY <2>1 DEF ReportWaiting
  <2>2. ASSUME NEW r \in Robot, NEW d \in Dir, NEW p \in Priority,
               ReportWaitingRobot(r, d, p)
        PROVE  TypeOK'
    <3>1. [robot |-> r, priority |-> p, age |-> 0] \in WaitingRobot
      BY DEF WaitingRobot, WaitCap
    <3>2. QED
      BY <2>2, <3>1 DEF ReportWaitingRobot
  <2>3. ASSUME NEW d \in Dir, ClearWaiting(d) PROVE TypeOK'
    BY <2>3 DEF ClearWaiting
  <2>4. ASSUME NEW d \in Dir, ClearVehicleWaiting(d) PROVE TypeOK'
    BY <2>4 DEF ClearVehicleWaiting
  <2>5. ASSUME NEW d \in Dir, Enter(d) PROVE TypeOK'
    BY <2>5 DEF Enter
  <2>6. ASSUME NEW d \in Dir, Leave(d) PROVE TypeOK'
    BY <2>6 DEF Leave
  <2>7. ASSUME NEW r \in Robot, ClearWaitingRobot(r) PROVE TypeOK'
    <3>1. vehicleWaiting' \in [Dir -> BOOLEAN]
      BY <2>7 DEF ClearWaitingRobot, RecordOf
    <3>2. waitingRobots' \in [Dir -> WaitingRobot \cup {None}]
      BY <2>7 DEF ClearWaitingRobot
    <3>3. QED
      BY <2>7, <3>1, <3>2 DEF ClearWaitingRobot
  <2>8. CASE Tick
    <3>1. phase' \in {"GREEN", "YELLOW", "RED"} /\ dir' \in Dir /\ elapsed' \in 0..MaxGreen
      BY <2>8 DEF Tick, SignalTick, PhaseStep
    <3>2. vehicleWaiting' \in [Dir -> BOOLEAN] /\ waitingRobots' \in [Dir -> WaitingRobot \cup {None}]
      <4>1. vehicleWaiting \in [Dir -> BOOLEAN] /\ waitingRobots \in [Dir -> WaitingRobot \cup {None}]
        OBVIOUS
      <4>2. \/ UNCHANGED <<vehicleWaiting, waitingRobots>>
            \/ \E d \in Dir : /\ vehicleWaiting' = [vehicleWaiting EXCEPT ![d] = FALSE]
                              /\ waitingRobots' = [waitingRobots EXCEPT ![d] = None]
        BY <2>8 DEF Tick, DeadlockBreak, demand
      <4>3. CASE UNCHANGED <<vehicleWaiting, waitingRobots>>
        BY <4>1, <4>3
      <4>4. ASSUME NEW d \in Dir,
                   vehicleWaiting' = [vehicleWaiting EXCEPT ![d] = FALSE],
                   waitingRobots' = [waitingRobots EXCEPT ![d] = None]
            PROVE  /\ vehicleWaiting' \in [Dir -> BOOLEAN]
                   /\ waitingRobots' \in [Dir -> WaitingRobot \cup {None}]
        BY <4>1, <4>4, Zenon
      <4>5. QED
        BY <4>2, <4>3, <4>4
    <3>4. QED
      BY <2>8, <3>1, <3>2 DEF Tick
  <2>9. CASE ForceAllRed
    BY <2>9 DEF ForceAllRed
  <2>10. CASE ClearEmergency
    <3>1. inside' \in [Dir -> 0..Cross \cup {None}]
      BY <2>10 DEF ClearEmergency
    <3>2. stranded' \subseteq Dir
      BY <2>10 DEF ClearEmergency
    <3>3. UNCHANGED <<phase, dir, elapsed, vehicleWaiting, waitingRobots>> /\ emergency' \in BOOLEAN
      BY <2>10 DEF ClearEmergency
    <3>4. QED
      BY <3>1, <3>2, <3>3
  <2>11. CASE Advance
    <3>1. elapsed' \in 0..MaxGreen
      BY <2>11 DEF Advance, UpTo
    <3>2. waitingRobots' \in [Dir -> WaitingRobot \cup {None}]
      BY <2>11 DEF Advance, UpTo, WaitingRobot, WaitCap
    <3>3. inside' \in [Dir -> 0..Cross \cup {None}]
      BY <2>11 DEF Advance, UpTo
    <3>4. QED
      BY <2>11, <3>1, <3>2, <3>3 DEF Advance
  <2>12. CASE UNCHANGED vars
    BY <2>12 DEF vars
  <2>13. QED
    BY <2>1, <2>2, <2>3, <2>4, <2>5, <2>6, <2>7, <2>8, <2>9, <2>10, <2>11, <2>12
       DEF Next
<1>3. QED
  BY <1>1, <1>2, PTL DEF Spec

-----------------------------------------------------------------------------
\* The phase changes only after the vehicles it must wait for had their time.
LEMMA TickKeepsTiming ==
  ASSUME TypeOK, TypeOK', ClearingIsTimed, Tick
  PROVE  ClearingIsTimed'
<1> USE DEF TypeOK, ClearingIsTimed, vehicles
<1>1. CASE emergency
  BY <1>1 DEF Tick, SignalTick
<1>2. CASE ~ emergency /\ UNCHANGED signal
  BY <1>2 DEF Tick, signal
<1>3. CASE ~ emergency /\ PhaseStep
  <2>1. CASE phase = "GREEN" /\ phase' = "YELLOW" /\ dir' = dir /\ elapsed' = 0
    BY <1>3, <2>1 DEF Tick
  <2>2. CASE /\ phase = "YELLOW" /\ elapsed >= YellowDuration
             /\ phase' = "RED" /\ dir' = dir /\ elapsed' = 0
    BY <1>3, <2>2 DEF Tick
  <2>3. CASE /\ phase = "RED" /\ elapsed >= NoVehicleWait
             /\ phase' = "GREEN" /\ dir' = 1 - dir /\ elapsed' = 0
    <3>1. inside[dir] # None => dir \in stranded
      BY <1>3, <2>3
    <3>2. 1 - dir' = dir
      BY <2>3
    <3>3. QED
      BY <1>3, <2>3, <3>1, <3>2 DEF Tick
  <2>4. QED
    BY <1>3, <2>1, <2>2, <2>3 DEF PhaseStep
<1>4. QED
  BY <1>1, <1>2, <1>3 DEF Tick, SignalTick

\* A unit of time ages a vehicle inside at least as much as the phase.
LEMMA AdvanceKeepsTiming ==
  ASSUME TypeOK, TypeOK', ClearingIsTimed, Advance
  PROVE  ClearingIsTimed'
<1> USE DEF TypeOK, ClearingIsTimed
<1>1. inside'[1 - dir] # None => 1 - dir \in stranded
  BY DEF Advance
<1>2. ASSUME ~ emergency, inside'[dir] # None
      PROVE  inside[dir] # None /\ inside'[dir] = inside[dir] + 1
  BY <1>2 DEF Advance, UpTo
<1>3. elapsed' <= elapsed + 1
  BY DEF Advance, UpTo
<1>4. UNCHANGED <<phase, dir, emergency, stranded>>
  BY DEF Advance
<1>5. ASSUME ~ emergency, inside'[dir] # None, dir \notin stranded
      PROVE  /\ phase = "YELLOW" => inside'[dir] >= elapsed'
             /\ phase = "RED" => inside'[dir] >= elapsed' + YellowDuration
  BY <1>2, <1>3, <1>5
<1>6. QED
  BY <1>1, <1>4, <1>5

\* The inductive invariant, also for an E-stop cleared over an occupied intersection.
THEOREM Inductive == Spec => []IInv
<1> USE DEF IInv
<1>1. Init => IInv
  <2> SUFFICES ASSUME Init PROVE IInv
    OBVIOUS
  <2>1. TypeOK
    BY DEF Init, TypeOK
  <2>2. inside = [d \in Dir |-> None] /\ dir = 0 /\ phase = "RED" /\ emergency = FALSE
    BY DEF Init
  <2>3. inside[dir] = None /\ inside[1 - dir] = None
    BY <2>2
  <2>4. QED
    BY <2>1, <2>2, <2>3 DEF ClearingIsTimed
<1>2. IInv /\ TypeOK' /\ [Next]_vars => IInv'
  <2> SUFFICES ASSUME IInv, TypeOK', [Next]_vars PROVE ClearingIsTimed'
    OBVIOUS
  <2> USE DEF TypeOK, ClearingIsTimed, signal, demand, vehicles
  <2>1. ASSUME NEW d \in Dir, Enter(d) PROVE ClearingIsTimed'
    BY <2>1 DEF Enter, MayEnter
  <2>2. ASSUME NEW d \in Dir, Leave(d) PROVE ClearingIsTimed'
    BY <2>2 DEF Leave
  <2>3. CASE Tick
    BY <2>3, TickKeepsTiming
  <2>4. CASE Advance
    BY <2>4, AdvanceKeepsTiming
  <2>5. CASE ForceAllRed
    BY <2>5 DEF ForceAllRed
  <2>6. CASE ClearEmergency
    BY <2>6 DEF ClearEmergency
  <2>7. ASSUME UNCHANGED <<signal, emergency, vehicles>> PROVE ClearingIsTimed'
    BY <2>7
  <2>8. QED
    BY <2>1, <2>2, <2>3, <2>4, <2>5, <2>6, <2>7
       DEF Next, vars, ReportWaiting, ReportWaitingRobot, ClearWaiting,
           ClearVehicleWaiting, ClearWaitingRobot
<1>3. QED
  BY <1>1, <1>2, TypeCorrect, PTL DEF Spec

(* Whenever E-stops come and are cleared: vehicles of the two directions   *)
(* are in the intersection together only while one that an E-stop froze    *)
(* there has not left it.                                                  *)
THEOREM CrossingIsSafe == Spec => []SafeCrossing
<1>1. IInv => SafeCrossing
  BY DEF IInv, TypeOK, ClearingIsTimed, SafeCrossing
<1>2. QED
  BY <1>1, Inductive, PTL
=============================================================================
