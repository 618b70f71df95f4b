---------------------------- MODULE ServicesProofs ----------------------------
(***************************************************************************)
(* The services that run by themselves, for every value of their           *)
(* constants: what the watchdog leaves in Redis and says in its messages   *)
(* is what its engine decided, however often it and Redis crash; a robot   *)
(* keeps the charger bay it reserved for the whole hold; an order number   *)
(* reaches a robot by one route; what SAP is owed and polls no longer look *)
(* at is on its way to a dead letter.                                      *)
(*                                                                         *)
(* The watchdog's measures are taken one by one, so the claim does not     *)
(* depend on which of them Measures lists.                                 *)
(***************************************************************************)
EXTENDS Watchdog, Outbox, Intake, Resources, TLAPS

-----------------------------------------------------------------------------
(* The inductive invariant.                                                *)

\* A throttle that has run out leaves nothing behind, and in the safe mode there is
\* none, as long as the engine has not parted from its keys: a restart reads both.
Apart ==
  /\ slow.ttl = 0 => slow = None
  /\ ~blind /\ safe => rate = 0

WatchInv == Mirrors /\ RecoveryIsTrue /\ Apart

-----------------------------------------------------------------------------
(* The constants, and the helpers of the model.                            *)

\* What WatchdogAssumption says, one constant at a time.
LEMMA Constants ==
  /\ NormalRate \in Nat /\ NormalRate >= 1 /\ MinRate \in Nat /\ MinRate >= 1
  /\ Required \in Nat /\ Required >= 1 /\ Unhealthy \in Nat /\ Unhealthy >= 1
  /\ SafeTtl \in Nat /\ SafeTtl >= 1 /\ ThrottleTtl \in Nat /\ ThrottleTtl >= 1
  /\ MaxFaults \in Nat
BY WatchdogAssumption

Severity == {"normal", "error_rate", "severe", "critical"}
Keys == [rate : Rates, severity : Severity, ttl : 0..ThrottleTtl]

\* The minimum rate caps from below what is at most the normal rate.
LEMMA BiggerRate ==
  ASSUME NEW a \in 0..NormalRate
  PROVE  Bigger(MinRate, a) \in Rates
BY Constants DEF Bigger, Rates

\* A throttle is never faster than the normal rate, but for the minimum.
LEMMA ThrottleRates ==
  /\ Reduced \in Rates
  /\ \A m : Calculated(m).rate \in Rates /\ Calculated(m).severity \in Severity
<1>1. (NormalRate * 3) \div 10 \in 0..NormalRate /\ (NormalRate * 15) \div 100 \in 0..NormalRate
  BY Constants
<1>2. Reduced \in Rates /\ Bigger(MinRate, (NormalRate * 15) \div 100) \in Rates
  BY <1>1, BiggerRate DEF Reduced
<1>3. ASSUME NEW b \in Rates PROVE Bigger(MinRate, b \div 2) \in Rates
  BY Constants DEF Bigger, Rates
<1>4. ASSUME NEW m PROVE Calculated(m).rate \in Rates /\ Calculated(m).severity \in Severity
  <2> DEFINE base == IF m.chk = "stalled" THEN Bigger(MinRate, (NormalRate * 15) \div 100)
                                          ELSE Reduced
  <2>1. base \in Rates /\ Bigger(MinRate, base \div 2) \in Rates
    BY <1>2, <1>3
  <2>2. Calculated(m) = IF m.mem \in {"high", "oom"}
          THEN [rate |-> Bigger(MinRate, base \div 2), severity |-> "critical"]
          ELSE [rate |-> base, severity |-> IF m.chk = "stalled" THEN "severe" ELSE "normal"]
    BY DEF Calculated
  <2> HIDE DEF base
  <2> QED BY <2>1, <2>2 DEF Severity
<1> QED BY <1>2, <1>4

\* The keys a cycle later are the same, with less time to live, or gone.
LEMMA KeysLater ==
  ASSUME NEW k \in Keys
  PROVE  /\ Later(k) \in Keys
         /\ Later(k).ttl = 0 => Later(k) = None
         /\ Later(k).ttl > 0 => k.ttl > 0 /\ Later(k).rate = k.rate
BY Constants DEF Later, None, Keys, Severity, Rates, Bigger

\* The flag of the safe mode a cycle later.
LEMMA FlagLater ==
  ASSUME NEW n \in 0..SafeTtl
  PROVE  Less(n) \in 0..SafeTtl /\ (Less(n) > 0 => n > 0)
BY Constants DEF Less

\* The calm measure, and every other, is a measure.
LEMMA MeasuresAre == Measures \subseteq Measure
<1>1. [Calm EXCEPT !.drift = TRUE] \in Measure
  BY DEF Calm, Measure
<1> QED BY <1>1 DEF Measures, Figures, Measure

\* nodered_unhealthy_count stops at its limit.
LEMMA MissesCount ==
  ASSUME NEW m, unhealthy \in 0..Unhealthy
  PROVE  Misses(m) \in 0..Unhealthy
BY Constants DEF Misses

-----------------------------------------------------------------------------
(* The invariant.                                                          *)

\* A first start finds no keys and decides nothing.
LEMMA WatchStarts == Init => TypeOK /\ WatchInv
<1> SUFFICES ASSUME Init PROVE TypeOK /\ WatchInv
  OBVIOUS
<1>1. slow \in Keys /\ rate \in Rates
  BY Constants DEF Init, None, Keys, Severity, Rates, Bigger
<1>2. seen \in Measure
  BY DEF Init, Calm, Measure
<1>3. TypeOK
  <2>1. safe \in BOOLEAN /\ redis \in BOOLEAN /\ blind \in BOOLEAN
        /\ entering \in BOOLEAN
    BY DEF Init
  <2>2. normal \in Nat /\ unhealthy \in 0..Unhealthy /\ flag \in 0..SafeTtl
        /\ faults \in 0..MaxFaults
    BY Constants DEF Init
  <2> QED BY <1>1, <1>2, <2>1, <2>2 DEF Init, TypeOK, Keys, Severity
<1>4. WatchInv
  BY DEF Init, None, WatchInv, Mirrors, RecoveryIsTrue, Apart
<1> QED BY <1>3, <1>4

\* Every cycle, crash and return of Redis keeps the types.
LEMMA TypeKept == TypeOK /\ [Next]_vars => TypeOK'
<1> SUFFICES ASSUME TypeOK, [Next]_vars PROVE TypeOK'
  OBVIOUS
<1>0. slow \in Keys /\ Later(slow) \in Keys /\ Less(flag) \in 0..SafeTtl
  BY KeysLater, FlagLater DEF TypeOK, Keys, Severity
<1>1. ASSUME NEW landed, NEW full, Reaches(landed, full)
      PROVE  redis' \in BOOLEAN /\ faults' \in 0..MaxFaults
  BY <1>1, Constants DEF Reaches, TypeOK
<1>2. ASSUME NEW m \in Measures, SafeCycle(m) PROVE TypeOK'
  <2>1. PICK landed \in BOOLEAN, goes \in BOOLEAN :
          /\ IF safe THEN UNCHANGED <<redis, faults>> ELSE Reaches(landed, m.store = "oom")
          /\ EnterSafe(landed, goes)
    BY <1>2 DEF SafeCycle
  <2>2. slow' \in Keys /\ flag' \in 0..SafeTtl /\ rung' = "none"
    BY <1>0, <2>1, Constants DEF EnterSafe
  <2>3. rate' \in Rates
    BY <2>1, Constants DEF EnterSafe, TypeOK, Rates, Bigger
  <2>4. safe' \in BOOLEAN /\ blind' \in BOOLEAN /\ entering' \in BOOLEAN /\ normal' \in Nat
    BY <2>1 DEF EnterSafe, TypeOK
  <2>5. redis' \in BOOLEAN /\ faults' \in 0..MaxFaults
    BY <1>1, <2>1 DEF TypeOK
  <2>6. unhealthy' \in 0..Unhealthy /\ seen' \in Measure
    BY <1>2, MeasuresAre, MissesCount DEF SafeCycle, TypeOK
  <2> QED BY <2>2, <2>3, <2>4, <2>5, <2>6 DEF TypeOK, Keys, Severity
<1>3. ASSUME NEW r \in Rates, NEW s \in Severity, NEW landed \in BOOLEAN, EnterThrottle(r, s, landed)
      PROVE  /\ slow' \in Keys /\ rate' \in Rates /\ rung' \in {"none", "throttle"}
             /\ normal' \in Nat /\ blind' \in BOOLEAN
  <2>1. slow' \in Keys /\ rate' \in Rates /\ normal' \in Nat
    BY <1>0, <1>3, Constants DEF EnterThrottle, TypeOK, Keys
  <2>2. rung' \in {"none", "throttle"}
    BY <1>3 DEF EnterThrottle
  <2>3. blind' \in BOOLEAN
    BY <1>3 DEF EnterThrottle, TypeOK
  <2> QED BY <2>1, <2>2, <2>3
<1>4. ASSUME rung' = "none" /\ slow' = Later(slow) /\ UNCHANGED <<rate, normal, blind>>
      PROVE  /\ slow' \in Keys /\ rate' \in Rates /\ rung' \in {"none", "throttle"}
             /\ normal' \in Nat /\ blind' \in BOOLEAN
  BY <1>0, <1>4 DEF TypeOK
<1>5. ASSUME NEW m \in Measures, ErrorCycle(m) PROVE TypeOK'
  <2>1. /\ slow' \in Keys /\ rate' \in Rates /\ rung' \in {"none", "throttle"}
        /\ normal' \in Nat /\ blind' \in BOOLEAN /\ redis' \in BOOLEAN /\ faults' \in 0..MaxFaults
    <3>1. CASE rate = 0
      <4>1. PICK landed \in BOOLEAN :
              Reaches(landed, FALSE) /\ EnterThrottle(Reduced, "error_rate", landed)
        BY <1>5, <3>1 DEF ErrorCycle
      <4> QED BY <1>1, <1>3, <4>1, ThrottleRates DEF Severity
    <3>2. CASE rate # 0
      BY <1>4, <1>5, <3>2 DEF ErrorCycle, TypeOK
    <3> QED BY <3>1, <3>2
  <2>2. flag' \in 0..SafeTtl /\ seen' \in Measure
    BY <1>0, <1>5, MeasuresAre DEF ErrorCycle
  <2>3. safe' \in BOOLEAN /\ entering' \in BOOLEAN /\ unhealthy' \in 0..Unhealthy
    BY <1>5 DEF ErrorCycle, TypeOK
  <2> QED BY <2>1, <2>2, <2>3 DEF TypeOK, Keys, Severity
<1>6. ASSUME NEW m \in Measures, LoadCycle(m) PROVE TypeOK'
  <2>1. /\ slow' \in Keys /\ rate' \in Rates /\ rung' \in {"none", "throttle", "recovery"}
        /\ normal' \in Nat /\ blind' \in BOOLEAN /\ redis' \in BOOLEAN /\ faults' \in 0..MaxFaults
    <3>1. CASE ~redis
      BY <1>4, <1>6, <3>1 DEF LoadCycle, TypeOK
    <3>2. CASE redis
      <4>1. PICK landed \in BOOLEAN, ends \in BOOLEAN :
              /\ Reaches(landed, FALSE)
              /\ IF ShouldThrottle(m) THEN Throttle(m, landed) ELSE Recover(m, landed, ends)
        BY <1>6, <3>2 DEF LoadCycle
      <4>2. CASE ShouldThrottle(m)
        <5>1. Throttle(m, landed)
          BY <4>1, <4>2
        <5> QED BY <1>1, <1>3, <1>4, <4>1, <5>1, ThrottleRates DEF Throttle
      <4>3. CASE ~ShouldThrottle(m)
        <5>1. Recover(m, landed, ends)
          BY <4>1, <4>3
        <5>2. None \in Keys /\ 0 \in Rates
          BY Constants DEF None, Keys, Severity, Rates, Bigger
        <5>3. slow' \in Keys /\ rate' \in Rates /\ normal' \in Nat
          BY <1>0, <5>1, <5>2 DEF Recover, TypeOK
        <5>4. rung' \in {"none", "recovery"}
          BY <5>1 DEF Recover
        <5>5. blind' \in BOOLEAN
          BY <5>1 DEF Recover, TypeOK
        <5> QED BY <1>1, <4>1, <5>3, <5>4, <5>5
      <4> QED BY <4>2, <4>3
    <3> QED BY <3>1, <3>2
  <2>2. flag' \in 0..SafeTtl /\ seen' \in Measure /\ unhealthy' \in 0..Unhealthy
    BY <1>0, <1>6, MeasuresAre, MissesCount DEF LoadCycle, TypeOK
  <2>3. safe' \in BOOLEAN /\ entering' \in BOOLEAN
    BY <1>6 DEF LoadCycle, TypeOK
  <2> QED BY <2>1, <2>2, <2>3 DEF TypeOK, Keys, Severity
<1>7. ASSUME ClearThrottle PROVE TypeOK'
  <2>1. PICK landed \in BOOLEAN, told \in BOOLEAN :
          /\ Reaches(landed, seen.store = "oom")
          /\ slow' = IF landed THEN None ELSE slow
          /\ rung' = IF told THEN "safe" ELSE "none"
          /\ blind' = (blind \/ ~landed)
    BY <1>7 DEF ClearThrottle
  <2>2. slow' \in Keys /\ rung' \in {"none", "safe"} /\ blind' \in BOOLEAN
    BY <1>0, <2>1, Constants DEF None, Keys, Severity, Rates, Bigger
  <2>3. redis' \in BOOLEAN /\ faults' \in 0..MaxFaults
    BY <1>1, <2>1
  <2>4. entering' \in BOOLEAN /\ UNCHANGED <<engine, flag, seen>>
    BY <1>7 DEF ClearThrottle
  <2> QED BY <2>2, <2>3, <2>4 DEF TypeOK, Keys, Severity, engine
<1>8. ASSUME Restart PROVE TypeOK'
  <2>1. rate' \in Rates /\ normal' \in Nat /\ unhealthy' \in 0..Unhealthy
        /\ faults' \in 0..MaxFaults
    BY <1>0, <1>8, Constants DEF Restart, TypeOK, Keys, Rates, Bigger
  <2>2. seen' \in Measure
    BY <1>8 DEF Restart, Calm, Measure
  <2>3. safe' \in BOOLEAN /\ entering' \in BOOLEAN /\ blind' \in BOOLEAN
    BY <1>8 DEF Restart
  <2> QED BY <1>8, <2>1, <2>2, <2>3 DEF Restart, TypeOK
<1>9. CASE RedisFails
  <2>1. faults' \in 0..MaxFaults
    BY <1>9, Constants DEF RedisFails, TypeOK
  <2>2. redis' \in BOOLEAN
    BY <1>9 DEF RedisFails
  <2> QED BY <1>9, <2>1, <2>2 DEF RedisFails, TypeOK, engine
<1>10. CASE RedisReturns
  BY <1>10 DEF RedisReturns, TypeOK, engine
<1>11. CASE UNCHANGED vars
  BY <1>11 DEF vars, engine, TypeOK
<1>12. CASE Cycle
  BY <1>2, <1>5, <1>6, <1>12 DEF Cycle
<1> QED BY <1>7, <1>8, <1>9, <1>10, <1>11, <1>12 DEF Next

\* Every cycle, crash and return of Redis keeps the keys and the message true.
LEMMA TruthKept == TypeOK /\ WatchInv /\ [Next]_vars => WatchInv'
<1> SUFFICES ASSUME TypeOK, WatchInv, [Next]_vars PROVE WatchInv'
  OBVIOUS
<1> USE DEF WatchInv, Mirrors, RecoveryIsTrue, Apart
<1>0. /\ slow \in Keys /\ flag \in 0..SafeTtl
      /\ Less(flag) > 0 => flag > 0
      /\ Later(slow).ttl = 0 => Later(slow) = None
      /\ Later(slow).ttl > 0 => slow.ttl > 0 /\ Later(slow).rate = slow.rate
  BY KeysLater, FlagLater DEF TypeOK, Keys, Severity
<1>1. ASSUME NEW m \in Measures, SafeCycle(m) PROVE WatchInv'
  <2>1. PICK landed \in BOOLEAN, goes \in BOOLEAN :
          (landed => goes) /\ EnterSafe(landed, goes)
    BY <1>1 DEF SafeCycle
  <2>2. rung' # "recovery" /\ safe' /\ slow' = Later(slow)
    BY <2>1 DEF EnterSafe
  <2>3. CASE ~safe
    <3>1. rate' = 0 /\ (entering' \/ blind')
      BY <2>1, <2>3 DEF EnterSafe
    <3> QED BY <1>0, <2>2, <3>1
  <2>4. CASE safe
    <3>1. flag' = Less(flag) /\ rate' = rate /\ (blind' = blind) /\ (entering' = entering)
      BY <2>1, <2>4 DEF EnterSafe, TypeOK
    <3> QED BY <1>0, <1>1, <2>2, <2>4, <3>1 DEF SafeCycle
  <2> QED BY <2>3, <2>4
\* The key follows the engine: left to run out, or written with the engine's rate.
<1> DEFINE Follows ==
      /\ rung' # "recovery" /\ (slow' = Later(slow) \/ slow'.ttl = ThrottleTtl)
      /\ \/ blind'
         \/ ~blind /\ slow' = Later(slow) /\ rate' = rate
         \/ ~blind /\ ~safe /\ slow'.ttl = ThrottleTtl /\ rate' = slow'.rate
<1>2. ASSUME safe' = safe, ~entering, ~entering', flag' = Less(flag), Follows
      PROVE  WatchInv'
  <2>1. slow'.ttl = 0 => slow' = None
    BY <1>0, <1>2, Constants
  <2>2. CASE blind'
    BY <1>2, <2>1, <2>2
  <2>3. CASE ~blind /\ slow' = Later(slow) /\ rate' = rate
    BY <1>0, <1>2, <2>1, <2>3
  <2>4. CASE ~blind /\ ~safe /\ slow'.ttl = ThrottleTtl /\ rate' = slow'.rate
    BY <1>0, <1>2, <2>1, <2>4, Constants
  <2> QED BY <1>2, <2>2, <2>3, <2>4
<1>3. ASSUME NEW r, NEW s, NEW landed \in BOOLEAN, EnterThrottle(r, s, landed)
      PROVE  Follows
  <2>1. CASE safe
    <3>1. rung' = "none" /\ slow' = Later(slow) /\ rate' = rate /\ (blind' \/ ~blind)
      BY <1>3, <2>1 DEF EnterThrottle, TypeOK
    <3>2. rung' # "recovery"
      BY <3>1
    <3> QED BY <3>1, <3>2
  <2>2. CASE ~safe /\ landed
    <3>1. rung' = "throttle" /\ slow' = [rate |-> r, severity |-> s, ttl |-> ThrottleTtl]
          /\ rate' = r /\ (blind' \/ ~blind)
      BY <1>3, <2>2 DEF EnterThrottle, TypeOK
    <3> QED BY <2>2, <3>1
  <2>3. CASE ~safe /\ ~landed
    <3>1. rung' \in {"throttle", "none"} /\ slow' = Later(slow) /\ blind'
      BY <1>3, <2>3 DEF EnterThrottle
    <3>2. rung' # "recovery"
      BY <3>1
    <3> QED BY <3>1, <3>2
  <2> QED BY <2>1, <2>2, <2>3 DEF TypeOK
<1>4. ASSUME rung' = "none" /\ slow' = Later(slow) /\ UNCHANGED <<rate, blind>>
      PROVE  Follows
  <2>1. blind' \/ ~blind
    BY <1>4 DEF TypeOK
  <2>2. rung' # "recovery" /\ slow' = Later(slow) /\ rate' = rate
    BY <1>4
  <2> QED BY <2>1, <2>2
<1> HIDE DEF Follows
<1>5. ASSUME NEW m \in Measures, ErrorCycle(m) PROVE WatchInv'
  <2>1. safe' = safe /\ ~entering /\ ~entering' /\ flag' = Less(flag)
    BY <1>5 DEF ErrorCycle, TypeOK
  <2> QED BY <1>2, <1>3, <1>4, <1>5, <2>1 DEF ErrorCycle
<1>6. ASSUME NEW m \in Measures, LoadCycle(m) PROVE WatchInv'
  <2>1. safe' = safe /\ ~entering /\ ~entering' /\ flag' = Less(flag) /\ seen' = m
    BY <1>6 DEF LoadCycle, TypeOK
  <2>2. CASE ~redis
    BY <1>2, <1>4, <1>6, <2>1, <2>2 DEF LoadCycle
  <2>3. CASE redis
    <3>1. PICK landed \in BOOLEAN, ends \in BOOLEAN :
            IF ShouldThrottle(m) THEN Throttle(m, landed) ELSE Recover(m, landed, ends)
      BY <1>6, <2>3 DEF LoadCycle
    <3>2. CASE ShouldThrottle(m)
      BY <1>2, <1>3, <1>4, <2>1, <3>1, <3>2 DEF Throttle
    <3>3. CASE ~ShouldThrottle(m)
      <4>1. Recover(m, landed, ends)
        BY <3>1, <3>3
      <4>2. CASE rate # 0 /\ IsNormal(m) /\ normal + 1 >= Required /\ ends
        <5>1. rate' = 0 /\ None.ttl = 0 /\ slow' = IF landed THEN None ELSE Later(slow)
          BY <4>1, <4>2 DEF Recover, None
        <5>2. ~blind' => landed /\ ~blind
          BY <4>1, <4>2 DEF Recover
        <5> QED BY <1>0, <2>1, <4>2, <5>1, <5>2
      <4>3. CASE ~(rate # 0 /\ IsNormal(m) /\ normal + 1 >= Required /\ ends)
        <5>1. rate' = rate /\ slow' = Later(slow) /\ rung' = "none" /\ blind' = blind
          BY <4>1, <4>3 DEF Recover, TypeOK
        <5> QED BY <1>2, <1>4, <2>1, <5>1
      <4> QED BY <4>2, <4>3
    <3> QED BY <3>2, <3>3
  <2> QED BY <2>2, <2>3
<1>7. CASE ClearThrottle
  <2>1. PICK landed \in BOOLEAN, told \in BOOLEAN :
          /\ slow' = IF landed THEN None ELSE slow
          /\ rung' = IF told THEN "safe" ELSE "none"
          /\ blind' = (blind \/ ~landed)
    BY <1>7 DEF ClearThrottle
  <2>2. UNCHANGED <<safe, rate, flag>> /\ rung' # "recovery" /\ None.ttl = 0
    BY <1>7, <2>1 DEF ClearThrottle, engine, None
  <2>3. CASE landed
    <3>1. blind' = blind /\ slow' = None
      BY <2>1, <2>3 DEF TypeOK
    <3> QED BY <1>0, <2>2, <3>1
  <2>4. CASE ~landed
    <3>1. blind' /\ slow' = slow
      BY <2>1, <2>4
    <3> QED BY <2>2, <3>1
  <2> QED BY <2>3, <2>4
<1>8. CASE Restart
  <2>1. slow' = slow /\ flag' = flag /\ rung' # "recovery"
    BY <1>8 DEF Restart
  <2>2. CASE ~redis
    BY <1>8, <2>1, <2>2 DEF Restart
  <2>3. CASE redis
    <3>1. (safe' <=> flag > 0) /\ rate' = slow.rate
      BY <1>8, <2>3 DEF Restart
    <3>2. ~blind' => ~((blind \/ entering) /\ flag > 0 /\ slow.ttl > 0)
      BY <1>8 DEF Restart
    <3>3. None.rate = 0
      BY DEF None
    <3>4. slow.ttl = 0 => slow.rate = 0
      BY <3>3
    <3>5. slow.ttl \in Nat /\ flag \in Nat
      BY <1>0, Constants DEF Keys
    <3>6. ~(~blind' /\ flag > 0 /\ slow.ttl > 0)
      BY <3>2
    <3> QED BY <2>1, <3>1, <3>4, <3>5, <3>6
  <2> QED BY <2>2, <2>3
<1>9. CASE RedisFails \/ RedisReturns \/ UNCHANGED vars
  BY <1>9 DEF RedisFails, RedisReturns, vars, engine
<1>10. CASE Cycle
  BY <1>1, <1>5, <1>6, <1>10 DEF Cycle
<1> QED BY <1>7, <1>8, <1>9, <1>10 DEF Next

\* The invariant holds throughout.
LEMMA WatchHolds == Spec => [](TypeOK /\ WatchInv)
<1>1. (TypeOK /\ WatchInv) /\ [Next]_vars => (TypeOK /\ WatchInv)'
  BY TypeKept, TruthKept
<1> QED BY <1>1, WatchStarts, PTL DEF Spec

-----------------------------------------------------------------------------
(* The results.                                                            *)

\* The engine, the keys in Redis and what was measured keep their types: above all,
\* no throttle is faster than the normal rate, but for the minimum (run_cycle).
THEOREM TypeCorrect == Spec => []TypeOK
BY WatchHolds, PTL

\* What enter_safe_mode, enter_throttle, exit_throttle and _recover_state leave in
\* Redis, and the recovery message, is what the engine decided and measured.
THEOREM KeysAreTrue == Spec => []TellsTheTruth
<1>1. WatchInv => TellsTheTruth
  BY DEF WatchInv, TellsTheTruth
<1> QED BY <1>1, WatchHolds, PTL

-----------------------------------------------------------------------------
(* Resources: the bays.                                                    *)

BayOf == [for : Robot \cup {Nobody}, age : 0..BayHold]

\* A robot has one bay.
OneBay ==
  \A b \in Bay : \A c \in Bay \ {b} : bays[b].for # Nobody => bays[c].for # bays[b].for

BayInv == bays \in [Bay -> BayOf] /\ OneBay

\* Nobody is a robot, and the holds are numbers of ticks.
LEMMA HallConstants == Nobody \notin Robot /\ BayHold \in Nat
BY ResourcesAssumption

\* Time takes a bay from nobody before its hold is over, and gives it to nobody.
LEMMA BayLaterIs ==
  ASSUME NEW b \in BayOf
  PROVE  /\ BayLater(b) \in BayOf
         /\ BayLater(b).for \in {b.for, Nobody}
         /\ b.for # Nobody /\ BayLater(b).for # b.for => b.age >= BayHold
<1> USE HallConstants
<1>1. FreeBay \in BayOf /\ FreeBay.for = Nobody
  BY DEF FreeBay, BayOf
<1>2. CASE b.for = Nobody
  BY <1>2 DEF BayLater
<1>3. CASE b.for # Nobody /\ b.age >= BayHold
  BY <1>1, <1>3 DEF BayLater
<1>4. CASE b.for # Nobody /\ ~(b.age >= BayHold)
  <2>1. BayLater(b) = [b EXCEPT !.age = b.age + 1]
    BY <1>4 DEF BayLater
  <2> QED BY <1>4, <2>1 DEF BayOf
<1> QED BY <1>2, <1>3, <1>4

\* A tick ages every bay, a robot that needs a charge takes the bay it has or a free one,
\* and nothing else touches them.
LEMMA BayMoves ==
  ASSUME [ResourcesNext]_rvars
  PROVE  \/ bays' = [b \in Bay |-> BayLater(bays[b])]
         \/ \E r \in Robot, b \in Bay :
              /\ bays' = [bays EXCEPT ![b] = [for |-> r, age |-> 0]]
              /\ \/ bays[b].for = r
                 \/ bays[b].for = Nobody /\ \A c \in Bay : bays[c].for # r
         \/ bays' = bays
<1>1. ASSUME NEW r \in Robot, EnsureCharging(r)
      PROVE  \/ \E b \in Bay :
                  /\ bays' = [bays EXCEPT ![b] = [for |-> r, age |-> 0]]
                  /\ \/ bays[b].for = r
                     \/ bays[b].for = Nobody /\ \A c \in Bay : bays[c].for # r
             \/ bays' = bays
  BY <1>1 DEF EnsureCharging, Bays
<1>2. ASSUME TickResources PROVE bays' = [b \in Bay |-> BayLater(bays[b])]
  BY <1>2 DEF TickResources
<1>3. ASSUME StartDispatch \/ EndTick PROVE bays' = bays
  BY <1>3 DEF StartDispatch, EndTick
<1>4. ASSUME NEW t \in AnyTask, Dispatch(t) PROVE bays' = bays
  BY <1>4 DEF Dispatch
<1>5. ASSUME NEW r \in Robot, Drain(r) \/ Charged(r) \/ Advance(r) \/ Lose(r) PROVE bays' = bays
  BY <1>5 DEF Drain, Charged, Advance, Lose
<1>6. ASSUME UNCHANGED rvars PROVE bays' = bays
  BY <1>6 DEF rvars
<1> QED BY <1>1, <1>2, <1>3, <1>4, <1>5, <1>6 DEF ResourcesNext, TickStep

\* A robot has at most one bay, and loses it with its hold alone.
LEMMA BaysKept ==
  ASSUME BayInv, [ResourcesNext]_rvars
  PROVE  /\ BayInv'
         /\ \A b \in Bay : bays[b].for # Nobody /\ bays'[b].for # bays[b].for =>
                             bays[b].age >= BayHold
<1> USE HallConstants DEF BayInv
<1>1. CASE bays' = [b \in Bay |-> BayLater(bays[b])]
  <2>1. \A b \in Bay : /\ bays'[b] \in BayOf
                       /\ bays'[b].for \in {bays[b].for, Nobody}
                       /\ bays[b].for # Nobody /\ bays'[b].for # bays[b].for =>
                            bays[b].age >= BayHold
    BY <1>1, BayLaterIs
  <2>2. bays' \in [Bay -> BayOf]
    BY <1>1, BayLaterIs
  <2>3. OneBay'
    BY <2>1 DEF OneBay
  <2> QED BY <2>1, <2>2, <2>3
<1>2. ASSUME NEW r \in Robot, NEW b \in Bay,
             bays' = [bays EXCEPT ![b] = [for |-> r, age |-> 0]],
             \/ bays[b].for = r
             \/ bays[b].for = Nobody /\ \A c \in Bay : bays[c].for # r
      PROVE  /\ BayInv'
             /\ \A c \in Bay : bays[c].for # Nobody => bays'[c].for = bays[c].for
  <2>1. [for |-> r, age |-> 0] \in BayOf
    BY DEF BayOf
  <2>2. bays' \in [Bay -> BayOf]
    BY <1>2, <2>1
  <2>3. bays'[b].for = r /\ \A c \in Bay \ {b} : bays'[c] = bays[c] /\ bays[c].for # r
    BY <1>2 DEF OneBay
  <2>4. OneBay'
    BY <2>3 DEF OneBay
  <2> QED BY <1>2, <2>2, <2>3, <2>4
<1>3. CASE bays' = bays
  BY <1>3 DEF OneBay
<1> QED BY <1>1, <1>2, <1>3, BayMoves

\* A bay stays with the robot it was reserved for until the hold is over, and a robot has
\* one bay only, for any robots, bays and holds.
THEOREM BaysAreKept == ResourcesSpec => BayIsKept
<1>1. ResourcesInit => BayInv
  <2> SUFFICES ASSUME ResourcesInit PROVE BayInv
    OBVIOUS
  <2>1. FreeBay \in BayOf /\ FreeBay.for = Nobody
    BY HallConstants DEF FreeBay, BayOf
  <2> QED BY <2>1 DEF ResourcesInit, BayInv, OneBay
<1>2. BayInv /\ [ResourcesNext]_rvars => BayInv'
  BY BaysKept
<1>3. BayInv /\ [ResourcesNext]_rvars =>
        [\A b \in Bay :
           /\ (bays[b].for # Nobody /\ bays'[b].for # bays[b].for) => bays[b].age >= BayHold
           /\ bays'[b].for # Nobody => \A c \in Bay \ {b} : bays'[c].for # bays'[b].for]_rvars
  BY BaysKept DEF BayInv, OneBay
<1> QED BY <1>1, <1>2, <1>3, PTL DEF ResourcesSpec, BayIsKept

-----------------------------------------------------------------------------
(* Intake: one route.                                                      *)

\* An order without a record is in no queue and was not sent.
Unrecorded == \A o \in Order : records[o] = "none" => items[o] = 0 /\ sent[o] = 0

Routes == items \in [Order -> Nat] /\ sent \in [Order -> Nat] /\ OneRoute

IntakeInv == IntakeTypeOK /\ Routes /\ Unrecorded

\* The numbers that are queued by a batch or an IDoc had no record before.
LEMMA PersistKeeps ==
  ASSUME IntakeInv, NEW numbers \in SUBSET Order, NEW made \in SUBSET New(numbers),
         NEW put \in SUBSET made, Persist(made, put), UNCHANGED sent
  PROVE  /\ records' \in [Order -> {"none", "CREATED", "ASSIGNED", "COMPLETED", "FAILED"}]
         /\ queued' \subseteq Order /\ items' \in [Order -> 0..2]
         /\ Routes' /\ Unrecorded'
<1>0. \A o \in put : o \in Order /\ records[o] = "none" /\ o \in made
  BY DEF New
<1>1. \A o \in Order : /\ items'[o] = IF o \in put THEN 1 ELSE items[o]
                       /\ records'[o] = IF o \in made THEN "CREATED" ELSE records[o]
                       /\ o \in put => sent[o] = 0
  BY <1>0 DEF Persist, IntakeInv, Unrecorded
<1>2. items' \in [Order -> 0..2]
  BY <1>1 DEF Persist, IntakeInv, IntakeTypeOK
<1>3. Routes'
  BY <1>1, <1>2 DEF IntakeInv, Routes, OneRoute
<1>4. Unrecorded'
  BY <1>0, <1>1 DEF IntakeInv, Unrecorded
<1>5. records' \in [Order -> {"none", "CREATED", "ASSIGNED", "COMPLETED", "FAILED"}]
  BY DEF Persist, IntakeInv, IntakeTypeOK
<1>6. queued' \subseteq Order
  BY <1>0 DEF Persist, IntakeInv, IntakeTypeOK
<1> QED BY <1>2, <1>3, <1>4, <1>5, <1>6

\* A call that fails is counted up to the bound.
LEMMA FaultyCounts ==
  ASSUME IntakeTypeOK, NEW broken \in BOOLEAN, Faulty(broken)
  PROVE  inFaults' \in 0..MaxIntakeFaults
BY IntakeAssumption DEF IntakeTypeOK, Faulty

\* Every step of the intake keeps the invariant.
LEMMA IntakeKept == IntakeInv /\ [IntakeNext]_ivars => IntakeInv'
<1> SUFFICES ASSUME IntakeInv, [IntakeNext]_ivars PROVE IntakeInv'
  OBVIOUS
<1> USE DEF IntakeInv
<1>1. CASE Collect
  <2>0. Window \in SUBSET Order
    BY DEF Window, Order, IntakeTypeOK
  <2>1a. PICK made \in SUBSET New(Window) : \E put \in {made, {}} :
          /\ Persist(made, put) /\ Faulty(put # New(Window)) /\ elapsed' = (put # made)
    BY <1>1 DEF Collect
  <2>1. PICK put \in {made, {}} :
          /\ Persist(made, put) /\ Faulty(put # New(Window)) /\ elapsed' = (put # made)
    BY <2>1a
  <2>2. put \in SUBSET made /\ UNCHANGED <<sent, openTasks>>
    BY <1>1, <2>1 DEF Collect
  <2>3. inFaults' \in 0..MaxIntakeFaults
    BY <2>1, FaultyCounts
  <2>4. elapsed' \in BOOLEAN
    BY <2>1
  <2>5. /\ records' \in [Order -> {"none", "CREATED", "ASSIGNED", "COMPLETED", "FAILED"}]
        /\ queued' \subseteq Order /\ items' \in [Order -> 0..2]
        /\ Routes' /\ Unrecorded'
    BY <2>0, <2>1, <2>2, PersistKeeps
  <2> QED BY <2>2, <2>3, <2>4, <2>5 DEF IntakeTypeOK
<1>2. ASSUME NEW numbers \in SUBSET SapTask, Idoc(numbers) PROVE IntakeInv'
  <2>0. numbers \in SUBSET Order
    BY DEF Order
  <2>1a. PICK made \in SUBSET New(numbers) : \E put \in SUBSET made :
          Persist(made, put) /\ Faulty(put # New(numbers))
    BY <1>2 DEF Idoc
  <2>1. PICK put \in SUBSET made : Persist(made, put) /\ Faulty(put # New(numbers))
    BY <2>1a
  <2>2. UNCHANGED <<sent, openTasks, elapsed>>
    BY <1>2 DEF Idoc
  <2>3. inFaults' \in 0..MaxIntakeFaults
    BY <2>1, FaultyCounts
  <2>4. /\ records' \in [Order -> {"none", "CREATED", "ASSIGNED", "COMPLETED", "FAILED"}]
        /\ queued' \subseteq Order /\ items' \in [Order -> 0..2]
        /\ Routes' /\ Unrecorded'
    BY <2>0, <2>1, <2>2, PersistKeeps
  <2> QED BY <2>2, <2>3, <2>4 DEF IntakeTypeOK
<1>3. ASSUME NEW o \in Order, PostOrder(o) PROVE IntakeInv'
  <2>1. PICK taken \in BOOLEAN, status \in {"CREATED", "ASSIGNED", "FAILED"} :
          /\ records' = [records EXCEPT ![o] = status]
          /\ sent' = [sent EXCEPT ![o] = IF taken THEN sent[o] + 1 ELSE sent[o]]
          /\ Faulty(status = "CREATED")
    BY <1>3 DEF PostOrder
  <2>2. records[o] = "none" /\ items[o] = 0 /\ sent[o] = 0
    BY <1>3 DEF PostOrder, New, Unrecorded
  <2>3. UNCHANGED <<queued, items, openTasks, elapsed>>
    BY <1>3 DEF PostOrder
  <2>4. inFaults' \in 0..MaxIntakeFaults
    BY <2>1, FaultyCounts
  <2>5. \A p \in Order : sent'[p] = IF p = o THEN (IF taken THEN 1 ELSE 0) ELSE sent[p]
    BY <2>1, <2>2 DEF IntakeTypeOK
  <2>6. sent' \in [Order -> 0..2]
    BY <2>1, <2>5 DEF IntakeTypeOK
  <2>7. Routes'
    BY <2>2, <2>3, <2>5, <2>6 DEF Routes, OneRoute
  <2>8. Unrecorded'
    BY <2>1, <2>3, <2>5 DEF Unrecorded, IntakeTypeOK
  <2> QED BY <2>1, <2>3, <2>4, <2>6, <2>7, <2>8 DEF IntakeTypeOK
<1>4. ASSUME NEW o \in Order, Work(o) \/ Settle(o) PROVE IntakeInv'
  <2>1. PICK status \in {"ASSIGNED", "COMPLETED", "FAILED"} :
          records' = [records EXCEPT ![o] = status]
    BY <1>4 DEF Work, Settle
  <2>2. UNCHANGED <<items, sent, elapsed, inFaults>>
    BY <1>4 DEF Work, Settle
  <2>3. queued' \subseteq Order /\ openTasks' \subseteq SapTask
    BY <1>4 DEF Work, Settle, IntakeTypeOK
  <2>4. Unrecorded'
    BY <2>1, <2>2 DEF Unrecorded, IntakeTypeOK
  <2> QED BY <2>1, <2>2, <2>3, <2>4 DEF IntakeTypeOK, Routes, OneRoute
<1>5. ASSUME Interval PROVE IntakeInv'
  BY <1>5 DEF Interval, IntakeTypeOK, Routes, OneRoute, Unrecorded
<1>6. ASSUME NEW t \in SapTask, Opened(t) PROVE IntakeInv'
  BY <1>6 DEF Opened, IntakeTypeOK, Routes, OneRoute, Unrecorded
<1>7. CASE UNCHANGED ivars
  BY <1>7 DEF ivars, IntakeTypeOK, Routes, OneRoute, Unrecorded
<1> QED BY <1>1, <1>2, <1>3, <1>4, <1>5, <1>6, <1>7 DEF IntakeNext

\* A number that comes in by several doors, or by one again and again, is queued once or
\* published once, for any tasks, orders, windows and faults.
THEOREM ComesInByOneDoor == IntakeSpec => []OneRoute
<1>1. IntakeInit => IntakeInv
  <2> SUFFICES ASSUME IntakeInit PROVE IntakeInv
    OBVIOUS
  <2>1. IntakeTypeOK
    BY IntakeAssumption DEF IntakeInit, IntakeTypeOK
  <2>2. Routes /\ Unrecorded
    BY DEF IntakeInit, Routes, OneRoute, Unrecorded
  <2> QED BY <2>1, <2>2 DEF IntakeInv
<1>2. IntakeInv => OneRoute
  BY DEF IntakeInv, Routes
<1> QED BY <1>1, <1>2, IntakeKept, PTL DEF IntakeSpec

-----------------------------------------------------------------------------
(* Outbox: what is overdue is on its way.                                  *)

Rows == [status : {"none", "PENDING", "SENT", "FAILED"}, retries : Nat]

OutboxInv ==
  /\ rows \in [Row -> Rows] /\ flights \in [Poll -> [Row -> Steps]]
  /\ letters \subseteq Row /\ abandoned \subseteq Row
  /\ \A e \in Row : rows[e].status = "none" => rows[e].retries = 0
  /\ OverdueIsCarried

\* An answer leaves a row a row; a row that it leaves PENDING has failed once more.
LEMMA UpdatedIs ==
  ASSUME NEW row \in Rows, NEW ok \in BOOLEAN
  PROVE  /\ Updated(row, ok) \in Rows
         /\ Updated(row, ok).status \in {row.status, "SENT"}
         /\ Updated(row, ok).status = "PENDING" => row.status = "PENDING"
         /\ Updated(row, ok).status = "none" => Updated(row, ok) = row
         /\ ok => Updated(row, ok).status = "SENT"
BY DEF Rows, Updated

\* What a step says about its own row; the other rows and their messages are as before.
LEMMA OutboxStep ==
  ASSUME OutboxInv, NEW e \in Row, NEW p \in Poll, NEW row \in Rows, NEW step \in Steps,
         rows' = [rows EXCEPT ![e] = row], flights' = [flights EXCEPT ![p][e] = step],
         letters \subseteq letters', letters' \subseteq Row,
         abandoned \subseteq abandoned', abandoned' \subseteq Row,
         row.status = "none" => row.retries = 0,
         row.status = "FAILED" => e \in letters',
         row.status = "PENDING" /\ row.retries >= RetryLimit =>
           \/ e \in abandoned' \/ step \in {"failed", "overdue"}
           \/ \E q \in Poll \ {p} : flights[q][e] \in {"failed", "overdue"}
  PROVE  OutboxInv'
<1> USE DEF OutboxInv
<1>1. rows' \in [Row -> Rows] /\ rows'[e] = row /\ \A f \in Row \ {e} : rows'[f] = rows[f]
  OBVIOUS
<1>2. /\ flights' \in [Poll -> [Row -> Steps]] /\ flights'[p][e] = step
      /\ \A q \in Poll \ {p} : flights'[q] = flights[q]
      /\ \A f \in Row \ {e} : flights'[p][f] = flights[p][f]
  OBVIOUS
<1>3. \A f \in Row : rows'[f].status = "none" => rows'[f].retries = 0
  BY <1>1
<1>4. \A f \in Row : rows'[f].status = "FAILED" => f \in letters'
  BY <1>1 DEF OverdueIsCarried
<1>5. ASSUME NEW f \in Row, rows'[f].status = "PENDING", rows'[f].retries >= RetryLimit
      PROVE  f \in abandoned' \/ \E q \in Poll : flights'[q][f] \in {"failed", "overdue"}
  <2>1. CASE f = e
    BY <1>1, <1>2, <1>5, <2>1
  <2>2. CASE f # e
    <3>1. f \in abandoned \/ \E q \in Poll : flights[q][f] \in {"failed", "overdue"}
      BY <1>1, <1>5, <2>2 DEF OverdueIsCarried
    <3> QED BY <1>2, <2>2, <3>1
  <2> QED BY <2>1, <2>2
<1>6. OverdueIsCarried'
  BY <1>4, <1>5 DEF OverdueIsCarried
<1> QED BY <1>1, <1>2, <1>3, <1>6

\* A row that is written, or a poll that starts, carries nothing that was overdue.
LEMMA BoxUntouched ==
  ASSUME OutboxInv, rows' \in [Row -> Rows], flights' \in [Poll -> [Row -> Steps]],
         UNCHANGED <<letters, abandoned>>,
         \A e \in Row : \/ rows'[e] = rows[e]
                        \/ rows'[e].status = "PENDING" /\ rows'[e].retries < RetryLimit,
         \A p \in Poll, e \in Row : flights[p][e] \in {"failed", "overdue"} =>
                                      flights'[p][e] = flights[p][e]
  PROVE  OutboxInv'
<1> USE DEF OutboxInv
<1>1. ASSUME NEW e \in Row PROVE rows'[e].status = "none" => rows'[e].retries = 0
  OBVIOUS
<1>2. ASSUME NEW e \in Row PROVE rows'[e].status = "FAILED" => e \in letters'
  BY DEF OverdueIsCarried
<1>3. ASSUME NEW e \in Row, rows'[e].status = "PENDING", rows'[e].retries >= RetryLimit
      PROVE  e \in abandoned' \/ \E p \in Poll : flights'[p][e] \in {"failed", "overdue"}
  <2>1. rows'[e] = rows[e]
    BY <1>3, OutboxAssumption DEF Rows
  <2>2. e \in abandoned \/ \E p \in Poll : flights[p][e] \in {"failed", "overdue"}
    BY <1>3, <2>1 DEF OverdueIsCarried
  <2> QED BY <2>2
<1> QED BY <1>1, <1>2, <1>3 DEF OverdueIsCarried

\* The bridge takes a report: a failure that makes the row overdue sends its message to
\* the dead letters.
LEMMA ReportCarries ==
  ASSUME OutboxInv, NEW p \in Poll, NEW e \in Row, Report(p, e)
  PROVE  OutboxInv'
<1> DEFINE ok == flights[p][e] = "ok"
           row == Updated(rows[e], ok)
           step == IF NeedsDeadletter(row) THEN "overdue" ELSE "none"
<1>1. rows[e] \in Rows /\ (rows[e].status = "FAILED" => e \in letters)
  BY DEF OutboxInv, OverdueIsCarried
<1>2. /\ row \in Rows /\ row.status \in {rows[e].status, "SENT"}
      /\ row.status = "none" => row = rows[e]
  BY <1>1, UpdatedIs
<1>3. rows' = [rows EXCEPT ![e] = row] /\ rows'[e] = row
  BY DEF Report, OutboxInv
<1>4. flights' = [flights EXCEPT ![p][e] = step] /\ UNCHANGED <<letters, abandoned>>
  BY <1>3 DEF Report, MoveTo
<1>5. step \in Steps
  BY DEF Steps
<1>6. row.status = "none" => row.retries = 0
  BY <1>2 DEF OutboxInv
<1>7. row.status = "FAILED" => e \in letters'
  BY <1>1, <1>2, <1>4
<1>8. row.status = "PENDING" /\ row.retries >= RetryLimit => step = "overdue"
  BY DEF NeedsDeadletter
<1>9. letters \subseteq letters' /\ letters' \subseteq Row /\ abandoned \subseteq abandoned'
      /\ abandoned' \subseteq Row
  BY <1>4 DEF OutboxInv
<1> HIDE DEF row, step
<1> QED BY <1>2, <1>3, <1>4, <1>5, <1>6, <1>7, <1>8, <1>9, OutboxStep

\* The request is lost, before or after the bridge carried it out: a failure is reported
\* instead, or the message is lost for good.
LEMMA LossCarries ==
  ASSUME OutboxInv, NEW p \in Poll, NEW e \in Row, ReportLost(p, e)
  PROVE  OutboxInv'
<1>1. PICK done \in BOOLEAN :
        rows' = IF done THEN [rows EXCEPT ![e] = Updated(@, flights[p][e] = "ok")] ELSE rows
  BY DEF ReportLost
<1> DEFINE row == IF done THEN Updated(rows[e], flights[p][e] = "ok") ELSE rows[e]
           step == IF flights[p][e] = "failed" THEN "none" ELSE "failed"
<1>2. rows[e] \in Rows /\ (rows[e].status = "FAILED" => e \in letters)
  BY DEF OutboxInv, OverdueIsCarried
<1>3. /\ row \in Rows /\ row.status \in {rows[e].status, "SENT"}
      /\ row.status = "none" => row = rows[e]
  BY <1>2, UpdatedIs
<1>4. rows' = [rows EXCEPT ![e] = row]
  BY <1>1 DEF OutboxInv
<1>5. flights' = [flights EXCEPT ![p][e] = step]
  BY DEF ReportLost, MoveTo
<1>6. step \in Steps
  BY DEF Steps
<1>7. letters' = letters /\ abandoned' \in {abandoned, abandoned \cup {e}}
  BY DEF ReportLost
<1>8. e \in abandoned' \/ step = "failed"
  BY DEF ReportLost
<1>9. letters \subseteq letters' /\ letters' \subseteq Row /\ abandoned \subseteq abandoned'
      /\ abandoned' \subseteq Row
  BY <1>7 DEF OutboxInv
<1>10. row.status = "none" => row.retries = 0
  BY <1>3 DEF OutboxInv
<1>11. row.status = "FAILED" => e \in letters'
  BY <1>2, <1>3, <1>7
<1> HIDE DEF row, step
<1> QED BY <1>3, <1>4, <1>5, <1>6, <1>8, <1>9, <1>10, <1>11, OutboxStep

\* The dead letter and the row's status are one commit.
LEMMA LetterCarries ==
  ASSUME OutboxInv, NEW p \in Poll, NEW e \in Row, Bury(p, e)
  PROVE  OutboxInv'
<1> DEFINE row == [rows[e] EXCEPT !.status = "FAILED"]
<1>1. row \in Rows /\ row.status = "FAILED"
  BY DEF OutboxInv, Rows
<1>2. rows' = [rows EXCEPT ![e] = row] /\ flights' = [flights EXCEPT ![p][e] = "none"]
  BY DEF Bury, MoveTo, OutboxInv
<1>3. e \in letters' /\ letters \subseteq letters' /\ letters' \subseteq Row
      /\ abandoned \subseteq abandoned' /\ abandoned' \subseteq Row
  BY DEF Bury, OutboxInv
<1>4. "none" \in Steps
  BY DEF Steps
<1> HIDE DEF row
<1> QED BY <1>1, <1>2, <1>3, <1>4, OutboxStep

\* SAP's answer, or none: the message goes on, and the row is as it was.
LEMMA CallCarries ==
  ASSUME OutboxInv, NEW p \in Poll, NEW e \in Row, CallSap(p, e)
  PROVE  OutboxInv'
<1>1. PICK step \in {"ok", "bad", "failed"} : flights' = [flights EXCEPT ![p][e] = step]
  BY DEF CallSap, MoveTo
<1>2. step \in Steps /\ flights[p][e] = "fetched" /\ UNCHANGED <<rows, letters, abandoned>>
  BY DEF CallSap, Steps
<1>3. flights' \in [Poll -> [Row -> Steps]]
  BY <1>1, <1>2 DEF OutboxInv
<1>4. \A q \in Poll, f \in Row : flights[q][f] \in {"failed", "overdue"} =>
                                  flights'[q][f] = flights[q][f]
  BY <1>1, <1>2 DEF OutboxInv
<1>5. rows' \in [Row -> Rows]
  BY <1>2 DEF OutboxInv
<1> QED BY <1>2, <1>3, <1>4, <1>5, BoxUntouched

\* Every step of the outbox carries on what is overdue.
LEMMA OutboxKept == OutboxInv /\ [OutboxNext]_ovars => OutboxInv'
<1> SUFFICES ASSUME OutboxInv, [OutboxNext]_ovars PROVE OutboxInv'
  OBVIOUS
<1>1. ASSUME NEW e \in Row, Write(e) PROVE OutboxInv'
  <2>1. [rows[e] EXCEPT !.status = "PENDING"] \in Rows
        /\ [rows[e] EXCEPT !.status = "PENDING"].status = "PENDING"
        /\ [rows[e] EXCEPT !.status = "PENDING"].retries = 0
    BY <1>1 DEF Write, OutboxInv, Rows
  <2>2. rows' = [rows EXCEPT ![e] = [rows[e] EXCEPT !.status = "PENDING"]]
        /\ UNCHANGED <<flights, letters, abandoned>>
    BY <1>1 DEF Write, OutboxInv
  <2>3. rows' \in [Row -> Rows] /\ flights' \in [Poll -> [Row -> Steps]]
    BY <2>1, <2>2 DEF OutboxInv
  <2>4. \A f \in Row : \/ rows'[f] = rows[f]
                       \/ rows'[f].status = "PENDING" /\ rows'[f].retries < RetryLimit
    BY <2>1, <2>2, OutboxAssumption DEF OutboxInv
  <2> QED BY <2>2, <2>3, <2>4, BoxUntouched
<1>2. ASSUME NEW p \in Poll, Fetch(p) PROVE OutboxInv'
  <2>1. UNCHANGED <<rows, letters, abandoned>> /\ \A e \in Row : flights[p][e] = "none"
    BY <1>2 DEF Fetch
  <2>2. [e \in Row |-> IF e \in Fetched THEN "fetched" ELSE "none"] \in [Row -> Steps]
    BY DEF Steps
  <2>3. flights' \in [Poll -> [Row -> Steps]]
        /\ \A q \in Poll \ {p} : flights'[q] = flights[q]
    BY <1>2, <2>2 DEF Fetch, OutboxInv
  <2>4. rows' \in [Row -> Rows]
    BY <2>1 DEF OutboxInv
  <2> QED BY <2>1, <2>3, <2>4, BoxUntouched
<1>3. ASSUME NEW p \in Poll, NEW e \in Row, Deliver(p, e) PROVE OutboxInv'
  BY <1>3, CallCarries, ReportCarries, LetterCarries DEF Deliver
<1>4. ASSUME NEW p \in Poll, NEW e \in Row, ReportLost(p, e) PROVE OutboxInv'
  BY <1>4, LossCarries
<1>5. ASSUME NodeRedRestarts PROVE OutboxInv'
  <2>1. UNCHANGED <<rows, letters>> /\ "none" \in Steps
        /\ flights' = [p \in Poll |-> [e \in Row |-> "none"]]
        /\ abandoned' = abandoned \cup {e \in Row : \E p \in Poll : flights[p][e] # "none"}
    BY <1>5 DEF NodeRedRestarts, Steps
  <2>2. flights' \in [Poll -> [Row -> Steps]] /\ abandoned' \subseteq Row
    BY <2>1 DEF OutboxInv
  <2>3. OverdueIsCarried'
    BY <2>1 DEF OutboxInv, OverdueIsCarried
  <2> QED BY <2>1, <2>2, <2>3 DEF OutboxInv
<1>6. CASE UNCHANGED ovars
  BY <1>6 DEF ovars, OutboxInv, OverdueIsCarried
<1> QED BY <1>1, <1>2, <1>3, <1>4, <1>5, <1>6 DEF OutboxNext

\* What SAP is owed and polls no longer look at is on its way to a dead letter or its
\* message was lost, for any number of rows, polls, tries and faults.
THEOREM OverdueHasCarrier == OutboxSpec => []OverdueIsCarried
<1>1. OutboxInit => OutboxInv
  <2> SUFFICES ASSUME OutboxInit PROVE OutboxInv
    OBVIOUS
  <2>1. rows \in [Row -> Rows] /\ \A e \in Row : rows[e].status = "none" /\ rows[e].retries = 0
    BY DEF OutboxInit, Rows
  <2>2. "none" \in Steps /\ flights = [p \in Poll |-> [e \in Row |-> "none"]]
    BY DEF OutboxInit, Steps
  <2>3. flights \in [Poll -> [Row -> Steps]]
    BY <2>2
  <2> QED BY <2>1, <2>3 DEF OutboxInit, OutboxInv, OverdueIsCarried
<1>2. OutboxInv => OverdueIsCarried
  BY DEF OutboxInv
<1> QED BY <1>1, <1>2, OutboxKept, PTL DEF OutboxSpec
=============================================================================
