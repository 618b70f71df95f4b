--------------------------- MODULE DispatchQueue ----------------------------
(***************************************************************************)
(* sap-bridge: the order records of services/order_service.py, the Redis   *)
(* queue of dispatch_queue/priority_queue.py and the one worker thread of  *)
(* dispatch_queue/worker.py that pops an order, publishes it to a robot    *)
(* and then moves its record on.  The REST handlers move the same records  *)
(* meanwhile.  Every transition reads the record, and writes it back only  *)
(* if its version has not changed since.                                   *)
(*                                                                         *)
(* A Redis command, an SQL transaction and a publish are one step each;    *)
(* between two of them the other thread may run, the step may raise, or    *)
(* the process may die.  Which of the queued orders is popped first is     *)
(* left open.                                                              *)
(***************************************************************************)
EXTENDS Integers

CONSTANTS
  Order, None,
  MaxRetries,   \* MAX_RETRIES
  MaxFaults     \* bound: how often a step raises or the process dies

ASSUME RetryAssumption == MaxRetries \in Nat \ {0} /\ MaxFaults \in Nat

Actor == {"worker", "api"}

\* order_service: the statuses from which a record moves on to each status.
Before ==
  [ASSIGNED      |-> {"CREATED"},
   IN_PROGRESS   |-> {"ASSIGNED", "SUSPENDED"},
   COMPLETED     |-> {"IN_PROGRESS", "ASSIGNED"},
   CANCELLED     |-> {"CREATED", "ASSIGNED", "SUSPENDED"},
   SUSPENDED     |-> {"IN_PROGRESS"},
   SAP_PENDING   |-> {"COMPLETED"},
   SAP_CONFIRMED |-> {"SAP_PENDING"},
   FAILED        |-> {"CREATED", "ASSIGNED", "IN_PROGRESS", "COMPLETED", "CANCELLED",
                      "SUSPENDED", "SAP_PENDING", "SAP_CONFIRMED", "FAILED"}]

Later == DOMAIN Before
Status == Later \cup {"NONE", "CREATED"}
View == [order : Order, to : Later, current : BOOLEAN]
Step == {"idle", "popped", "held", "loaded", "dead", "failing", "sent",
         "assigning", "assigned", "starting"}

ASSUME NoneAssumption == None \notin View \cup Order

VARIABLES
  status,      \* orders.status
  pending,     \* orders persisted but not yet enqueued by their producer
  queue,       \* QUEUE_KEY: order -> number of items
  processing,  \* PROCESSING_KEY: order -> no entry, up to 300 s old, older
  running,     \* the process is up
  worker,      \* the step the worker has reached, and the order it works on
  retries,     \* _retry_count, in memory
  backoff,     \* the orders with a _backoff_until still to come, in memory
  view,        \* actor -> the record read and not yet written; is it current
  online,      \* the MQTT client has its connection
  kept,        \* order -> messages refused for want of it, in the client's memory
  sent,        \* order -> messages that went out to a robot
  faults       \* history: exceptions and crashes so far

vars == <<status, pending, queue, processing, running, worker, retries,
          backoff, view, online, kept, sent, faults>>
record == <<status, view>>
redis == <<queue, processing>>
memory == <<retries, backoff>>
wire == <<online, kept, sent>>

TypeOK ==
  /\ status \in [Order -> Status]
  /\ pending \subseteq Order /\ backoff \subseteq Order
  /\ queue \in [Order -> Nat] /\ sent \in [Order -> Nat]
  /\ online \in BOOLEAN /\ kept \in [Order -> Nat]
  /\ processing \in [Order -> {"none", "young", "old"}]
  /\ running \in BOOLEAN
  /\ worker \in [at : Step, order : Order \cup {None}]
  /\ worker.at # "idle" => worker.order \in Order
  /\ retries \in [Order -> Nat]
  /\ view \in [Actor -> View \cup {None}]
  /\ faults \in 0..MaxFaults

Idle == [at |-> "idle", order |-> None]

Init ==
  /\ status = [o \in Order |-> "NONE"] /\ pending = {}
  /\ queue = [o \in Order |-> 0] /\ processing = [o \in Order |-> "none"]
  /\ running = TRUE /\ worker = Idle
  /\ retries = [o \in Order |-> 0] /\ backoff = {}
  /\ view = [a \in Actor |-> None]
  /\ online = TRUE /\ kept = [o \in Order |-> 0]
  /\ sent = [o \in Order |-> 0] /\ faults = 0

-----------------------------------------------------------------------------
\* The producers (IDoc listener, batch import) persist an order, then enqueue it.

Create(o) ==
  /\ running /\ status[o] = "NONE"
  /\ status' = [status EXCEPT ![o] = "CREATED"]
  /\ pending' = pending \cup {o}
  /\ UNCHANGED <<redis, running, worker, memory, view, wire, faults>>

Enqueue(o) ==
  /\ o \in pending
  /\ pending' = pending \ {o}
  /\ queue' = [queue EXCEPT ![o] = @ + 1]
  /\ UNCHANGED <<record, processing, running, worker, memory, wire, faults>>

-----------------------------------------------------------------------------
\* The record: each transition is a read with its check, then _update.

ReadFor(a, o, to) ==
  /\ status[o] \in Before[to]
  /\ view' = [view EXCEPT ![a] = [order |-> o, to |-> to, current |-> TRUE]]

\* mutant: the version is not part of the WHERE clause
WriteBlind(a) ==
  /\ status' = [status EXCEPT ![view[a].order] = view[a].to]
  /\ view' = [view EXCEPT ![a] = None]

\* _update: of two writers that read the same version the second one raises.
Write(a) ==
  IF view[a].current
  THEN /\ status' = [status EXCEPT ![view[a].order] = view[a].to]
       /\ view' = [b \in Actor |->
            IF b = a THEN None
            ELSE IF view[b] # None /\ view[b].order = view[a].order
            THEN [view[b] EXCEPT !.current = FALSE] ELSE view[b]]
  ELSE status' = status /\ view' = [view EXCEPT ![a] = None]

\* The REST handlers; only the worker assigns a queued order.
ApiRead(o, to) ==
  /\ running /\ view["api"] = None /\ to # "ASSIGNED"
  /\ ReadFor("api", o, to)
  /\ UNCHANGED <<status, pending, redis, running, worker, memory, wire, faults>>

ApiWrite ==
  /\ view["api"] # None
  /\ Write("api")
  /\ UNCHANGED <<pending, redis, running, worker, memory, wire, faults>>

-----------------------------------------------------------------------------
\* The worker.

At(step) == worker.at = step
Goto(step) == worker' = [worker EXCEPT !.at = step]

\* dequeue: BZPOPMIN takes the item, HSET enters it in the processing set.
Pop(o) ==
  /\ running /\ At("idle") /\ queue[o] > 0
  /\ queue' = [queue EXCEPT ![o] = @ - 1]
  /\ worker' = [at |-> "popped", order |-> o]
  /\ UNCHANGED <<record, pending, processing, running, memory, wire, faults>>

Mark ==
  /\ At("popped") /\ Goto("held")
  /\ processing' = [processing EXCEPT ![worker.order] = "young"]
  /\ UNCHANGED <<record, pending, queue, running, memory, wire, faults>>

\* _tick: an order in backoff goes back to the queue.
Defer ==
  /\ At("held") /\ worker.order \in backoff
  /\ queue' = [queue EXCEPT ![worker.order] = @ + 1]
  /\ worker' = Idle
  /\ UNCHANGED <<record, pending, processing, running, memory, wire, faults>>

\* _tick: only an order that is still CREATED is dispatched.
Load ==
  /\ At("held") /\ worker.order \notin backoff
  /\ IF status[worker.order] = "CREATED" THEN Goto("loaded") ELSE worker' = Idle
  /\ UNCHANGED <<record, pending, redis, running, memory, wire, faults>>

Publish ==
  /\ At("loaded") /\ online /\ Goto("sent")
  /\ sent' = [sent EXCEPT ![worker.order] = @ + 1]
  /\ UNCHANGED <<record, pending, redis, running, memory, online, kept, faults>>

\* A publish without connection reports a failure, but its message has QoS 1: the
\* client keeps it.  The other failures come before the client has the message: no
\* robot is free, its name is no topic, Redis gives no sequence number.
Refused(keeps) ==
  /\ At("loaded") /\ (keeps => ~ online)
  /\ kept' = IF keeps THEN [kept EXCEPT ![worker.order] = @ + 1] ELSE kept
  /\ UNCHANGED <<record, pending, processing, running, online, sent, faults>>

\* mutant: the count of the retries is not stored
PublishFailsUncounted(keeps) ==
  /\ Refused(keeps)
  /\ backoff' = backoff \cup {worker.order}
  /\ queue' = [queue EXCEPT ![worker.order] = @ + 1]
  /\ worker' = Idle /\ UNCHANGED retries

\* mutant: a failed order waits for its backoff outside the queue
PublishFailsUnqueued(keeps) ==
  /\ Refused(keeps)
  /\ LET o == worker.order IN
     /\ retries' = [retries EXCEPT ![o] = @ + 1]
     /\ IF retries[o] + 1 < MaxRetries
        THEN backoff' = backoff \cup {o} /\ worker' = Idle
        ELSE Goto("dead") /\ UNCHANGED backoff
  /\ UNCHANGED queue

\* _handle_failure: back off and retry, or write a dead letter.
PublishFails(keeps) ==
  /\ Refused(keeps)
  /\ LET o == worker.order IN
     /\ retries' = [retries EXCEPT ![o] = @ + 1]
     /\ IF retries[o] + 1 < MaxRetries
        THEN /\ backoff' = backoff \cup {o}
             /\ queue' = [queue EXCEPT ![o] = @ + 1]
             /\ worker' = Idle
        ELSE Goto("dead") /\ UNCHANGED <<backoff, queue>>

\* The worker's transitions: fail_order, assign_order, start_execution.
WorkerRead(step, to, next) ==
  /\ At(step) /\ Goto(next)
  /\ ReadFor("worker", worker.order, to)
  /\ UNCHANGED <<status, pending, redis, running, memory, wire, faults>>

\* An exception of _update ends the tick.
WorkerWrite(step, next) ==
  /\ At(step) /\ Write("worker")
  /\ IF view["worker"].current /\ next # "idle" THEN Goto(next) ELSE worker' = Idle
  /\ retries' = IF view["worker"].current /\ next = "idle"
                THEN [retries EXCEPT ![worker.order] = 0] ELSE retries
  /\ UNCHANGED <<pending, redis, running, backoff, wire, faults>>

FailOrder ==
  \/ WorkerRead("dead", "FAILED", "failing")
  \/ WorkerWrite("failing", "idle")

\* assign_order returns None for an order that is no longer CREATED.
AssignOrder ==
  \/ WorkerRead("sent", "ASSIGNED", "assigning")
  \/ WorkerWrite("assigning", "assigned")
  \/ /\ At("sent") /\ status[worker.order] # "CREATED" /\ Goto("assigned")
     /\ UNCHANGED <<record, pending, redis, running, memory, wire, faults>>

StartExecution ==
  \/ /\ At("assigned") /\ status[worker.order] = "ASSIGNED"
     /\ WorkerRead("assigned", "IN_PROGRESS", "starting")
  \/ WorkerWrite("starting", "idle")
  \/ /\ At("assigned") /\ status[worker.order] # "ASSIGNED" /\ worker' = Idle
     /\ retries' = [retries EXCEPT ![worker.order] = 0]
     /\ UNCHANGED <<record, pending, redis, running, backoff, wire, faults>>

Work ==
  \/ \E o \in Order : Pop(o)
  \/ Mark \/ Defer \/ Load \/ Publish \/ \E keeps \in BOOLEAN : PublishFails(keeps)
  \/ FailOrder \/ AssignOrder \/ StartExecution

-----------------------------------------------------------------------------
\* Time.

Elapse(o) ==
  /\ backoff' = backoff \ {o} /\ o \in backoff
  /\ UNCHANGED <<record, pending, redis, running, worker, retries, wire, faults>>

Age(o) ==
  /\ processing[o] = "young"
  /\ processing' = [processing EXCEPT ![o] = "old"]
  /\ UNCHANGED <<record, pending, queue, running, worker, memory, wire, faults>>

\* The whole set expires an hour after the last pop.
Expire ==
  /\ \A o \in Order : processing[o] # "young"
  /\ processing' = [o \in Order |-> "none"]
  /\ UNCHANGED <<record, pending, queue, running, worker, memory, wire, faults>>

\* The connection to the broker, which the client restores by itself: it then sends
\* all that it has kept.
Disconnect ==
  /\ online /\ online' = FALSE
  /\ UNCHANGED <<record, pending, redis, running, worker, memory, kept, sent, faults>>

Connect ==
  /\ running /\ ~ online /\ online' = TRUE
  /\ sent' = [o \in Order |-> sent[o] + kept[o]]
  /\ kept' = [o \in Order |-> 0]
  /\ UNCHANGED <<record, pending, redis, running, worker, memory, faults>>

\* Faults.

\* Redis or the database raises: _run_loop logs it and polls on.
Abort ==
  /\ faults < MaxFaults /\ faults' = faults + 1
  /\ ~ At("idle") /\ worker' = Idle
  /\ view' = [view EXCEPT !["worker"] = None]
  /\ UNCHANGED <<status, pending, redis, running, memory, wire>>

Crash ==
  /\ running /\ faults < MaxFaults /\ faults' = faults + 1
  /\ running' = FALSE /\ worker' = Idle /\ pending' = {}
  /\ retries' = [o \in Order |-> 0] /\ backoff' = {}
  /\ view' = [a \in Actor |-> None]
  /\ online' = FALSE /\ kept' = [o \in Order |-> 0]
  /\ UNCHANGED <<status, redis, sent>>

\* start, with recover_stale_processing.
Restart ==
  /\ ~ running /\ running' = TRUE
  /\ queue' = [o \in Order |-> IF processing[o] = "old" THEN queue[o] + 1 ELSE queue[o]]
  /\ processing' = [o \in Order |->
       IF processing[o] = "old" THEN "none" ELSE processing[o]]
  /\ UNCHANGED <<record, pending, worker, memory, wire, faults>>

Next ==
  \/ \E o \in Order : Create(o) \/ Enqueue(o) \/ Elapse(o) \/ Age(o)
  \/ \E o \in Order, to \in Later : ApiRead(o, to)
  \/ ApiWrite \/ Work \/ Expire \/ Disconnect \/ Connect \/ Abort \/ Crash \/ Restart

Spec == Init /\ [][Next]_vars

(* The worker thread polls for ever, a producer goes on to enqueue what it *)
(* has persisted, and time passes.                                         *)
Fairness ==
  /\ WF_vars(Work)
  /\ \A o \in Order : WF_vars(Enqueue(o)) /\ WF_vars(Elapse(o))

FairSpec == Spec /\ Fairness

-----------------------------------------------------------------------------
Handled(o) == worker.at # "idle" /\ worker.order = o

\* What was read and is current may still be written; what is stale has moved on.
ViewsAreFresh ==
  \A a \in Actor : view[a] # None =>
    IF view[a].current THEN status[view[a].order] \in Before[view[a].to]
    ELSE status[view[a].order] \in Later

\* The worker writes the record of the order it works on, and that exists.
WorkerHasRecord ==
  /\ worker.at \in {"loaded", "sent", "assigning"} => status[worker.order] # "NONE"
  /\ worker.at \in {"failing", "assigning", "starting"} =>
       view["worker"] # None /\ view["worker"].order = worker.order

\* Whoever has come as far as assigning left a record that has moved on.
AssignedHasMovedOn == worker.at = "assigned" => status[worker.order] \in Later

\* What each life of the process may have sent: a message for each try that counts.
Messages(o) == sent[o] + kept[o]
Allowance == MaxRetries * faults

\* The messages so far are those of earlier lives and of the tries that were counted,
\* short of the last one.
MayBeTried(o) ==
  Messages(o) <= Allowance + retries[o] /\ Messages(o) < Allowance + MaxRetries

\* An order that is tried has tries left, unless it has moved on or is about to.
SentIsAccounted ==
  \A o \in Order :
    /\ Messages(o) <= Allowance + MaxRetries
    /\ \/ status[o] \in Later
       \/ worker.at \in {"sent", "assigning", "dead", "failing"} /\ worker.order = o
       \/ MayBeTried(o)
    /\ worker.at = "loaded" /\ worker.order = o => MayBeTried(o)

IInv == TypeOK /\ ViewsAreFresh /\ WorkerHasRecord /\ AssignedHasMovedOn /\ SentIsAccounted

(* Until something raises or the process dies, an order that waits to be   *)
(* dispatched is in the queue or in somebody's hands: backing off, being   *)
(* overtaken by a REST call and dead-lettering lose none.                  *)
NoForgottenOrder ==
  faults = 0 => \A o \in Order :
    status[o] = "CREATED" => o \in pending \/ queue[o] > 0 \/ Handled(o)

(* However often items are requeued, recovered or popped twice, and        *)
(* however often the connection goes while publishing: what goes out, the  *)
(* copies kept by the client included, is no more for an order than the    *)
(* tries before the dead letter, and that many again for each fault.       *)
CopiesAreBounded == \A o \in Order : Messages(o) <= MaxRetries * (1 + faults)

(* The REST handlers and the worker never undo one another: every status   *)
(* follows from the one it replaces, also when both had read the record.   *)
StatusFollows ==
  [][\A o \in Order : status'[o] # status[o] =>
       (status[o] = "NONE" /\ status'[o] = "CREATED")
       \/ (status'[o] \in Later /\ status[o] \in Before[status'[o]])]_vars

(* Without faults, an order does not stay undecided: it is handed to a     *)
(* robot, given up or cancelled, however long publishing goes on failing.  *)
CreatedSettles ==
  [](faults = 0) =>
    \A o \in Order : status[o] = "CREATED" ~> status[o] # "CREATED"

(* priority_queue.dequeue: "On consumer crash the item remains in          *)
(* processing set and is recovered by the worker on restart": the order    *)
(* the worker was about to dispatch is in the processing set when it dies, *)
(* and what is there waits in the queue when the worker is up again.       *)
RecoveredOnRestart ==
  [][\A o \in Order : status[o] = "CREATED" =>
       /\ Crash /\ Handled(o) => processing[o] # "none"
       /\ Restart /\ processing[o] # "none" => queue'[o] > 0]_vars

(* mqtt_publisher.publish returns a "message ID on success, None on         *)
(* failure", and after None the order is published anew: without a fault   *)
(* it would go out once.                                                   *)
FailedIsNotSent == faults = 0 => \A o \in Order : sent[o] <= 1

(* order_service.fail_order: "IN_PROGRESS/ASSIGNED -> FAILED": an order    *)
(* that was completed, or confirmed to SAP, is not turned into a failure.  *)
FinishedStaysFinished ==
  [][\A o \in Order :
       status[o] \in {"COMPLETED", "SAP_PENDING", "SAP_CONFIRMED"} =>
         status'[o] # "FAILED"]_vars
=============================================================================
