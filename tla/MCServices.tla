----------------------------- MODULE MCServices -----------------------------
(***************************************************************************)
(* Five services that run by themselves, checked in one run: the watchdog, *)
(* the notification gateway, the outbox, the intake of SAP's tasks and the *)
(* coordinator's chargers and lifts.  The initial state chooses the        *)
(* service that runs; the others stay where they start.                    *)
(***************************************************************************)
EXTENDS Watchdog, Outbox, Intake, Resources

CONSTANTS a1, recall, unlock, uf, ud, c1, c2, t1, r1, r2, b1, l1, l2, j1, j2,
          charge1, charge2, NoOne

VARIABLES
  service,  \* the service that runs
  dedup, prints, tokens, cards, calls, ledger, open, runs

\* The alert asks for an operation that is not dangerous; MCLinks has the others.
AsksFor(a) == unlock
Asks(a) == {ud, uf}

Gateway == INSTANCE Notify WITH
  Alert <- {a1}, OpOf <- AsksFor, ToOf <- Asks, Dangerous <- {recall},
  InSafeMode <- {unlock}, User <- {uf, ud}, Dingtalk <- {ud}, Callback <- {c1},
  Token <- {t1}, NoToken <- NoOne, NoCorr <- NoOne, DedupTtl <- 2, ReplayTtl <- 2,
  ConfirmTtl <- 1

\* Job j1 takes both lifts and ends outside, j2 takes them the other way round.
ChargeTask(r) == IF r = r1 THEN charge1 ELSE charge2
LiftsOf(t) == CASE t = j1 -> <<l1, l2, NoOne>> [] t = j2 -> <<l2, l1>> [] OTHER -> <<NoOne>>

Runs(s) == service = s
nvars == <<dedup, prints, tokens, cards, calls, ledger, open, runs>>
allVars == <<service, vars, nvars, ovars, ivars, rvars>>

ServicesInit ==
  /\ service \in {"watchdog", "gateway", "outbox", "intake", "hall"}
  /\ Init /\ Gateway!NotifyInit /\ OutboxInit /\ IntakeInit /\ ResourcesInit
  /\ Runs("intake") \/ openTasks = {}

ServicesNext ==
  /\ service' = service
  /\ \/ Runs("watchdog") /\ Next
        /\ UNCHANGED <<nvars, ovars, ivars, rvars>>
     \/ Runs("gateway") /\ Gateway!NotifyNext
        /\ UNCHANGED <<vars, ovars, ivars, rvars>>
     \/ Runs("outbox") /\ OutboxNext
        /\ UNCHANGED <<vars, nvars, ivars, rvars>>
     \/ Runs("intake") /\ IntakeNext
        /\ UNCHANGED <<vars, nvars, ovars, rvars>>
     \/ Runs("hall") /\ ResourcesNext
        /\ UNCHANGED <<vars, nvars, ovars, ivars>>

\* The fairness of each service, asked for while it is the one that runs.
WatchdogFair == WF_vars(Runs("watchdog") /\ LoadCycle(Calm))
                /\ WF_vars(Runs("watchdog") /\ RedisReturns)
GatewayFair ==
  /\ WF_nvars(Runs("gateway") /\ Gateway!Tick)
  /\ \A a \in {a1} : WF_nvars(Runs("gateway") /\ Gateway!Post(a))
  /\ \A c \in {c1} : WF_nvars(Runs("gateway") /\ Gateway!Handle(c))
OutboxFair ==
  \A p \in {c1, c2} :
    /\ WF_ovars(Runs("outbox") /\ Fetch(p))
    /\ \A e \in 1..2 : WF_ovars(Runs("outbox") /\ Deliver(p, e))
IntakeFair ==
  /\ WF_ivars(Runs("intake") /\ Collect) /\ WF_ivars(Runs("intake") /\ Interval)
  /\ \A o \in 1..3 : /\ WF_ivars(Runs("intake") /\ Work(o))
                    /\ WF_ivars(Runs("intake") /\ Settle(o))
HallFair == WF_rvars(Runs("hall") /\ TickStep)

ServicesSpec ==
  /\ ServicesInit /\ [][ServicesNext]_allVars
  /\ WatchdogFair /\ GatewayFair /\ OutboxFair /\ IntakeFair /\ HallFair

-----------------------------------------------------------------------------
\* Every variable of a service has its type.
TypesOK == /\ TypeOK /\ Gateway!NotifyTypeOK /\ OutboxTypeOK /\ IntakeTypeOK
           /\ ResourcesTypeOK

\* The property of the notification gateway, stated in Notify.
RepeatedIsSeen == Gateway!RepeatedIsSeen
=============================================================================
