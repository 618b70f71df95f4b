------------------------------ MODULE Watchdog ------------------------------
(***************************************************************************)
(* The watchdog process: every polling interval run_cycle measures         *)
(* Node-RED and Redis and decides on the safe mode (stop dispatching) or   *)
(* the throttle (dispatch slower).  The decision is kept in the engine and *)
(* written to Redis under keys that expire; Node-RED reads the keys.       *)
(* exit_safe_mode has no caller in the repository, so no action is one.    *)
(*                                                                         *)
(* One Cycle is one run_cycle and the sleep after it, so the keys' time to *)
(* live is counted in cycles; enter_safe_mode, whose two keys contradict   *)
(* each other between its writes, takes a second step.                     *)
(***************************************************************************)
EXTENDS Integers

CONSTANTS
  NormalRate,  \* global:normal_rate, or its default
  MinRate,     \* throttle.min_rate
  Required,    \* recovery.consecutive_normal_required
  Unhealthy,   \* thresholds.nodered_unhealthy_count
  SafeTtl,     \* cycles for which system:safe_mode lives
  ThrottleTtl, \* cycles for which system:throttle_mode lives
  NoderedFuse, \* safe_mode.nodered_unhealthy: True by default, false in config.yaml
  MaxFaults    \* bound: crashes of the watchdog or of Redis, broken connections

ASSUME WatchdogAssumption ==
  /\ {NormalRate, MinRate, Required, Unhealthy, SafeTtl, ThrottleTtl} \subseteq Nat \ {0}
  /\ MaxFaults \in Nat /\ NoderedFuse \in BOOLEAN

VARIABLES
  safe,       \* safe_mode_active
  rate,       \* throttle_rate; 0 is throttle_active = False
  normal,     \* normal_count
  unhealthy,  \* nodered_unhealthy_count, counted up to its threshold, which it is compared with
  flag,       \* system:safe_mode: cycles it has left to live
  slow,       \* system:throttle_mode and _severity: rate, severity, cycles left
  redis,      \* does Redis answer?
  faults,
  seen,       \* history: the measure of the last cycle
  rung,       \* history: the alert that the last cycle sent, or "none"
  entering,   \* is enter_safe_mode between the write of the flag and the rest?
  blind       \* history: has the engine parted from the keys, by a write that was lost,
              \* a death between two writes or a start without Redis, and not read
              \* keys since that agree with each other?

engine == <<safe, rate, normal, unhealthy>>
vars == <<engine, flag, slow, redis, faults, seen, rung, entering, blind>>

None == [rate |-> 0, severity |-> "normal", ttl |-> 0]

(* What one cycle collects, each figure by the thresholds it lies between. *)
Measure ==
  [drift : BOOLEAN, errors : {"few", "critical", "fatal"}, store : {"ok", "oom", "evicting"},
   nodered : BOOLEAN, cpu : {"low", "high"}, mem : {"low", "warm", "high", "oom"},
   chk : {"low", "high", "stalled"}]

Calm == [drift |-> FALSE, errors |-> "few", store |-> "ok", nodered |-> TRUE,
         cpu |-> "low", mem |-> "low", chk |-> "low"]

Figures(errors, store, nodered, cpu, mem, chk) ==
  [drift : {FALSE}, errors : errors, store : store, nodered : nodered,
   cpu : cpu, mem : mem, chk : chk]

(* The measures of the run: one thing is wrong at a time, or the three     *)
(* loads of Node-RED together.  What is read from Redis is the default     *)
(* while Redis does not answer; a container that gives no figures counts   *)
(* as one without load.                                                    *)
Measures ==
  Figures({"few"}, {"ok"}, BOOLEAN, {"low"}, {"low"}, {"low"})
    \cup Figures({"few"}, {"ok"}, {TRUE}, {"low", "high"}, {"low", "warm", "high"}, {"low", "high"})
    \cup Figures({"few"}, {"ok"}, {TRUE}, {"low"}, {"oom"}, {"low", "stalled"})
    \cup (IF redis THEN Figures({"critical", "fatal"}, {"ok"}, {TRUE}, {"low"}, {"low"}, {"low"})
                          \cup Figures({"few"}, {"oom", "evicting"}, {TRUE}, {"low"}, {"low"}, {"low"})
                          \cup {[Calm EXCEPT !.drift = TRUE]}
          ELSE {})

Bigger(a, b) == IF a > b THEN a ELSE b
Less(n) == IF n = 0 THEN 0 ELSE n - 1

(* No rate is above the normal one, unless min_rate is. *)
Rates == 0..Bigger(NormalRate, MinRate)

TypeOK ==
  /\ safe \in BOOLEAN /\ rate \in Rates /\ normal \in Nat
  /\ unhealthy \in 0..Unhealthy /\ flag \in 0..SafeTtl
  /\ slow \in [rate : Rates, severity : {"normal", "error_rate", "severe", "critical"},
               ttl : 0..ThrottleTtl]
  /\ redis \in BOOLEAN /\ faults \in 0..MaxFaults /\ seen \in Measure
  /\ rung \in {"none", "safe", "throttle", "recovery"} /\ entering \in BOOLEAN
  /\ blind \in BOOLEAN

Init ==
  /\ safe = FALSE /\ rate = 0 /\ normal = 0 /\ unhealthy = 0
  /\ flag = 0 /\ slow = None /\ redis = TRUE /\ faults = 0 /\ seen = Calm /\ rung = "none"
  /\ entering = FALSE /\ blind = FALSE

(* The keys a cycle later. *)
Later(k) == IF k.ttl <= 1 THEN None ELSE [k EXCEPT !.ttl = @ - 1]

(* _is_normal: every figure below its recovery threshold. *)
IsNormal(m) == m.cpu = "low" /\ m.chk = "low" /\ m.mem = "low"

Reduced == Bigger(MinRate, (NormalRate * 3) \div 10)

(* _calculate_throttle_rate: the rate and the severity of a measure. *)
Calculated(m) ==
  LET base == IF m.chk = "stalled" THEN Bigger(MinRate, (NormalRate * 15) \div 100) ELSE Reduced
  IN IF m.mem \in {"high", "oom"}
     THEN [rate |-> Bigger(MinRate, base \div 2), severity |-> "critical"]
     ELSE [rate |-> base, severity |-> IF m.chk = "stalled" THEN "severe" ELSE "normal"]

ShouldThrottle(m) == (m.cpu = "high" /\ m.chk \in {"high", "stalled"}) \/ m.mem \in {"high", "oom"}

Misses(m) == IF m.nodered THEN 0
             ELSE IF unhealthy < Unhealthy THEN unhealthy + 1 ELSE unhealthy

(* The checks that end in the safe mode, in their order.  The first two    *)
(* leave nodered_unhealthy_count as it was, and so does the error rate.    *)
EarlyFatal(m) == (m.drift /\ ~safe) \/ m.errors = "fatal"
StoreFatal(m) == m.store # "ok"
LateFatal(m) == (NoderedFuse /\ Misses(m) >= Unhealthy) \/ m.mem = "oom" \/ m.chk = "stalled"
Fatal(m) == EarlyFatal(m) \/ (m.errors = "few" /\ (StoreFatal(m) \/ LateFatal(m)))

-----------------------------------------------------------------------------
(* Does what a step writes reach Redis?  Not while Redis is away, or when   *)
(* it is full and refuses, or when the connection breaks under the write:   *)
(* the error is swallowed, and Redis may be there again or not.             *)
Reaches(landed, full) ==
  \/ (IF landed THEN redis ELSE ~redis \/ full) /\ UNCHANGED <<redis, faults>>
  \/ ~landed /\ redis /\ faults < MaxFaults /\ faults' = faults + 1 /\ redis' \in BOOLEAN

(* enter_safe_mode, up to its first write: nothing if it is active.  The   *)
(* engine's fields are set before the flag; when that is refused the rest  *)
(* is not reached, when it is lost the rest may be.  No later cycle tries  *)
(* again.                                                                  *)
EnterSafe(landed, goes) ==
  /\ safe' = TRUE /\ rung' = "none" /\ slow' = Later(slow)
  /\ IF safe THEN flag' = Less(flag) /\ UNCHANGED <<rate, entering, blind>>
     ELSE /\ rate' = 0 /\ entering' = goes
          /\ flag' = IF landed THEN SafeTtl ELSE Less(flag)
          /\ blind' = (blind \/ ~landed)
  /\ UNCHANGED normal

(* enter_throttle: nothing in the safe mode. *)
EnterThrottle(r, severity, landed) ==
  IF safe THEN rung' = "none" /\ slow' = Later(slow) /\ UNCHANGED <<rate, normal, blind>>
  ELSE /\ rate' = r /\ normal' = 0
       /\ slow' = IF landed THEN [rate |-> r, severity |-> severity, ttl |-> ThrottleTtl]
                   ELSE Later(slow)
       /\ rung' \in {"throttle"} \cup (IF landed THEN {} ELSE {"none"})
       /\ blind' = (blind \/ ~landed)

(* A measure that asks for the throttle: entered, or entered again when    *)
(* the rate or the severity that Redis remembers is another one.           *)
Throttle(m, landed) ==
  LET c == Calculated(m)
  IN IF rate = 0 \/ c.severity # slow.severity \/ c.rate # rate
     THEN EnterThrottle(c.rate, c.severity, landed)
     ELSE rung' = "none" /\ slow' = Later(slow) /\ UNCHANGED <<rate, normal, blind>>

(* Mutant of Recover: the count is lost. *)
RecoverNever(m, landed, ends) ==
  LET done == rate # 0 /\ IsNormal(m) /\ normal + 1 >= Required /\ ends
  IN /\ rate' = IF done THEN 0 ELSE rate
     /\ normal' = 0
     /\ slow' = IF done /\ landed THEN None ELSE Later(slow)
     /\ rung' \in IF ~done THEN {"none"} ELSE {"recovery"} \cup (IF landed THEN {} ELSE {"none"})
     /\ blind' = (blind \/ (done /\ ~landed))

(* The recovery check: consecutive normal cycles end the throttle, unless  *)
(* the connection breaks at the count in Redis; when it breaks later the   *)
(* keys stay, and the message may be sent or not.                          *)
Recover(m, landed, ends) ==
  LET counted == rate # 0 /\ IsNormal(m)
      done == counted /\ normal + 1 >= Required /\ ends
  IN /\ rate' = IF done THEN 0 ELSE rate
     /\ normal' = IF rate = 0 THEN normal ELSE IF counted /\ ~done THEN normal + 1 ELSE 0
     /\ slow' = IF done /\ landed THEN None ELSE Later(slow)
     /\ rung' \in IF ~done THEN {"none"} ELSE {"recovery"} \cup (IF landed THEN {} ELSE {"none"})
     /\ blind' = (blind \/ (done /\ ~landed))

-----------------------------------------------------------------------------
(* One run_cycle that ends in the safe mode, up to the first write of      *)
(* enter_safe_mode.                                                        *)
SafeCycle(m) ==
  /\ m \in Measures /\ Fatal(m) /\ ~entering
  /\ seen' = m
  /\ unhealthy' = IF EarlyFatal(m) \/ StoreFatal(m) THEN unhealthy ELSE Misses(m)
  /\ \E landed, goes \in BOOLEAN :
       /\ landed => goes
       /\ goes /\ ~landed => m.store # "oom"
       /\ IF safe THEN UNCHANGED <<redis, faults>> ELSE Reaches(landed, m.store = "oom")
       /\ EnterSafe(landed, goes)

(* Mutant of ClearThrottle: the throttle's key stays in Redis. *)
ClearThrottleKeeps ==
  /\ entering /\ entering' = FALSE
  /\ \E landed, told \in BOOLEAN :
       /\ Reaches(landed, seen.store = "oom")
       /\ told => landed \/ (redis /\ seen.store # "oom")
       /\ rung' = IF told THEN "safe" ELSE "none"
       /\ blind' = (blind \/ ~landed)
  /\ UNCHANGED <<engine, flag, slow, seen>>

(* The rest of enter_safe_mode: the throttle's key is deleted and the      *)
(* alert sent.  A full Redis may refuse the reason, before the deletion,   *)
(* or the time, after it; either raises.                                   *)
ClearThrottle ==
  /\ entering /\ entering' = FALSE
  /\ \E landed, told \in BOOLEAN :
       /\ Reaches(landed, seen.store = "oom")
       /\ told => landed \/ (redis /\ seen.store # "oom")
       /\ slow' = IF landed THEN None ELSE slow
       /\ rung' = IF told THEN "safe" ELSE "none"
       /\ blind' = (blind \/ ~landed)
  /\ UNCHANGED <<engine, flag, seen>>

(* One run_cycle that ends at the error rate: throttled unless it is.  The *)
(* recovery count stands.                                                  *)
ErrorCycle(m) ==
  /\ m \in Measures /\ ~Fatal(m) /\ m.errors = "critical" /\ ~entering
  /\ seen' = m /\ flag' = Less(flag)
  /\ IF rate = 0
     THEN \E landed \in BOOLEAN :
            Reaches(landed, FALSE) /\ EnterThrottle(Reduced, "error_rate", landed)
     ELSE rung' = "none" /\ slow' = Later(slow) /\ UNCHANGED <<rate, normal, redis, faults, blind>>
  /\ UNCHANGED <<safe, unhealthy, entering>>

(* One run_cycle that ends at the load: overloaded, or not.  Without Redis *)
(* it raises at its first access, which main catches.                      *)
LoadCycle(m) ==
  /\ m \in Measures /\ ~Fatal(m) /\ m.errors = "few" /\ ~entering
  /\ seen' = m /\ flag' = Less(flag) /\ unhealthy' = Misses(m)
  /\ IF ~redis
     THEN slow' = Later(slow) /\ rung' = "none" /\ UNCHANGED <<rate, normal, redis, faults, blind>>
     ELSE \E landed, ends \in BOOLEAN :
            /\ Reaches(landed, FALSE) /\ (landed => ends)
            /\ IF ShouldThrottle(m) THEN Throttle(m, landed) ELSE Recover(m, landed, ends)
  /\ UNCHANGED <<safe, entering>>

(* The watchdog dies and starts again: _recover_state reads both keys, or  *)
(* nothing when Redis does not answer.                                     *)
Restart ==
  /\ faults < MaxFaults /\ faults' = faults + 1
  /\ safe' = (redis /\ flag > 0)
  /\ rate' = IF redis THEN slow.rate ELSE 0
  /\ normal' = 0 /\ unhealthy' = 0 /\ seen' = Calm /\ rung' = "none" /\ entering' = FALSE
  /\ blind' = (~redis \/ ((blind \/ entering) /\ flag > 0 /\ slow.ttl > 0))
  /\ UNCHANGED <<flag, slow, redis>>

(* Redis stops answering, or answers again with the keys it had. *)
RedisFails == /\ redis /\ faults < MaxFaults /\ faults' = faults + 1 /\ redis' = FALSE
              /\ UNCHANGED <<engine, flag, slow, seen, rung, entering, blind>>
RedisReturns == /\ ~redis /\ redis' = TRUE
                /\ UNCHANGED <<engine, flag, slow, faults, seen, rung, entering, blind>>

Cycle == \E m \in Measures : SafeCycle(m) \/ ErrorCycle(m) \/ LoadCycle(m)

Next == Cycle \/ ClearThrottle \/ Restart \/ RedisFails \/ RedisReturns

(* main's loop sleeps and cycles again, whatever a cycle raised; where the *)
(* system stays calm, the next cycle measures that.  Redis comes back.     *)
Fairness == WF_vars(LoadCycle(Calm)) /\ WF_vars(RedisReturns)

Spec == Init /\ [][Next]_vars /\ Fairness

-----------------------------------------------------------------------------
(* What Node-RED reads is what the engine decided: a flag in Redis means   *)
(* that the engine is in the safe mode, and, but for the moment in which   *)
(* enter_safe_mode is between its writes, a rate in Redis is the engine's  *)
(* and flag and rate are never there at once - unless a write of the       *)
(* engine was lost or refused, or it died between the writes or started    *)
(* without Redis, and the keys that this left behind still contradict each *)
(* other when the watchdog starts again.                                   *)
(* (enter_safe_mode, enter_throttle, exit_throttle, _recover_state)        *)
Mirrors ==
  ~blind => /\ flag > 0 => safe
            /\ ~entering => /\ slow.ttl > 0 => rate = slow.rate
                            /\ ~(flag > 0 /\ slow.ttl > 0)

(* A recovery message means that the figures are normal and the engine is  *)
(* out of the throttle, and, unless the engine has parted from Redis, that *)
(* nothing is left of the throttle and the platform is not in safe mode.   *)
(* (the recovery check at the end of run_cycle, exit_throttle)             *)
RecoveryIsTrue ==
  rung = "recovery" => /\ IsNormal(seen) /\ rate = 0
                       /\ ~blind => slow = None /\ ~safe

(* What the watchdog tells the others - the keys in Redis, the recovery    *)
(* message - is what it has decided and measured.                          *)
TellsTheTruth == Mirrors /\ RecoveryIsTrue

(* The recovery message says that orders are dispatched at the normal rate *)
(* again, so Node-RED must not read the safe mode, which stops them.  A    *)
(* watchdog that starts while Redis is away knows nothing of the flag.     *)
(* (the template throttle_recovery)                                        *)
RecoveredDispatches == rung = "recovery" => flag = 0

(* When every cycle from some time on measures a calm system, dispatching  *)
(* is not throttled for ever, whatever happened before.                    *)
CalmIsReleased == <>[](seen = Calm) => <>[](rate = 0 /\ slow = None)
=============================================================================
