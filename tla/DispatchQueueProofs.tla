------------------------- MODULE DispatchQueueProofs -------------------------
(***************************************************************************)
(* For any number of orders, retries and faults: the records stay well     *)
(* formed, the worker and the REST handlers never undo one another, and a  *)
(* robot is sent an order no more often than the retries allow, and that   *)
(* many times again per fault, also over a connection that is lost.        *)
(***************************************************************************)
EXTENDS DispatchQueue, TLAPS

\* The shape of the transition table.
LEMMA Table ==
  /\ Later \subseteq Status
  /\ "NONE" \notin Later /\ "CREATED" \notin Later
  /\ \A to \in Later : Before[to] \subseteq Status /\ "NONE" \notin Before[to]
  /\ {"ASSIGNED", "IN_PROGRESS", "FAILED"} \subseteq Later
  BY DEF Later, Status, Before

\* A current view may be written, a stale one is of an order that has moved on.
LEMMA WriteFollows ==
  ASSUME TypeOK, ViewsAreFresh, NEW a \in Actor, view[a] # None, Write(a)
  PROVE  /\ status' \in [Order -> Status]
         /\ view' \in [Actor -> View \cup {None}]
         /\ ViewsAreFresh'
         /\ \A o \in Order : status'[o] # status[o] =>
              /\ o = view[a].order /\ status'[o] = view[a].to
              /\ status'[o] \in Later /\ status[o] \in Before[status'[o]]
         /\ status'[view[a].order] \in Later
         /\ \A b \in Actor \ {a} : view[b] # None =>
              view'[b] # None /\ view'[b].order = view[b].order
<1> USE DEF TypeOK
<1> DEFINE v == view[a]
<1>1. v \in View /\ v.order \in Order /\ v.to \in Later
  BY DEF View
<1>2. CASE v.current
  <2>1. status' = [status EXCEPT ![v.order] = v.to]
    BY <1>2 DEF Write
  <2>2. status[v.order] \in Before[v.to]
    BY <1>2 DEF ViewsAreFresh
  <2>3. \A b \in Actor : view'[b] =
          IF b = a THEN None
          ELSE IF view[b] # None /\ view[b].order = v.order
          THEN [view[b] EXCEPT !.current = FALSE] ELSE view[b]
    BY <1>2 DEF Write
  <2>4. DOMAIN view' = Actor /\ view' = [b \in Actor |-> view'[b]]
    BY <1>2 DEF Write
  <2>5. ASSUME NEW b \in Actor
        PROVE  /\ view'[b] \in View \cup {None}
               /\ view'[b] # None => view[b] # None /\ view'[b].order = view[b].order
                                     /\ view'[b].to = view[b].to
               /\ view'[b] # None /\ view'[b].order = v.order => ~ view'[b].current
               /\ view'[b] # None /\ view'[b].order # v.order => view'[b] = view[b]
               /\ b # a /\ view[b] # None => view'[b] # None
    <3>1. view[b] \in View \cup {None}
      OBVIOUS
    <3>2. CASE b = a
      BY <3>2, <2>3
    <3>3. CASE b # a /\ view[b] # None /\ view[b].order = v.order
      <4>1. view'[b] = [view[b] EXCEPT !.current = FALSE] /\ view[b] \in View
        BY <3>1, <3>3, <2>3
      <4>2. /\ view'[b] \in View /\ view'[b].order = view[b].order
            /\ view'[b].to = view[b].to /\ view'[b].current = FALSE
        BY <4>1 DEF View
      <4>3. QED
        BY <4>2, <3>3, NoneAssumption
    <3>4. CASE b # a /\ ~ (view[b] # None /\ view[b].order = v.order)
      BY <3>1, <3>4, <2>3
    <3>5. QED
      BY <3>2, <3>3, <3>4
  <2>6. view' \in [Actor -> View \cup {None}]
    BY <2>4, <2>5
  <2>7. status' \in [Order -> Status] /\ status'[v.order] = v.to
    BY <2>1, <1>1, Table
  <2>8. ASSUME NEW b \in Actor, view'[b] # None
        PROVE  IF view'[b].current THEN status'[view'[b].order] \in Before[view'[b].to]
               ELSE status'[view'[b].order] \in Later
    <3>1. CASE view'[b].order = v.order
      BY <3>1, <2>5, <2>7, <2>8, <1>1
    <3>2. CASE view'[b].order # v.order
      <4>1. view'[b] = view[b] /\ view[b] # None /\ view[b].order \in Order
        BY <3>2, <2>5, <2>8 DEF View
      <4>2. status'[view[b].order] = status[view[b].order]
        BY <4>1, <3>2, <2>1, <1>1
      <4>3. QED
        BY <4>1, <4>2 DEF ViewsAreFresh
    <3>3. QED
      BY <3>1, <3>2
  <2>9. ViewsAreFresh'
    BY <2>8 DEF ViewsAreFresh
  <2>10. QED
    BY <2>1, <2>2, <2>5, <2>6, <2>7, <2>9, <1>1
<1>3. CASE ~ v.current
  <2>1. status' = status /\ view' = [view EXCEPT ![a] = None]
    BY <1>3 DEF Write
  <2>2. status[v.order] \in Later
    BY <1>3 DEF ViewsAreFresh
  <2>3. QED
    BY <2>1, <2>2 DEF ViewsAreFresh
<1>4. QED
  BY <1>2, <1>3

\* What was read is current, and nobody else's view changes.
LEMMA ReadIsFresh ==
  ASSUME TypeOK, ViewsAreFresh, NEW a \in Actor, NEW o \in Order, NEW to \in Later,
         ReadFor(a, o, to), UNCHANGED status
  PROVE  /\ view' \in [Actor -> View \cup {None}]
         /\ ViewsAreFresh'
         /\ view'[a] # None /\ view'[a].order = o
         /\ \A b \in Actor \ {a} : view'[b] = view[b]
<1> DEFINE v == [order |-> o, to |-> to, current |-> TRUE]
<1>1. v \in View /\ v # None
  <2>1. v \in View
    BY DEF View
  <2>2. \A x \in View : x # None
    BY NoneAssumption
  <2>3. QED
    BY <2>1, <2>2
<1>2. view' = [view EXCEPT ![a] = v] /\ status[o] \in Before[to]
  BY DEF ReadFor
<1>3. view' \in [Actor -> View \cup {None}]
  BY <1>1, <1>2 DEF TypeOK
<1>4. view'[a] = v /\ \A b \in Actor \ {a} : view'[b] = view[b]
  BY <1>2 DEF TypeOK
<1>5. v.order = o /\ v.to = to /\ v.current = TRUE
  OBVIOUS
<1>6. ViewsAreFresh'
  BY <1>2, <1>4, <1>5 DEF ViewsAreFresh
<1> HIDE DEF v
<1>7. QED
  BY <1>1, <1>3, <1>4, <1>5, <1>6

\* The worker moves on along its order, or drops it.
LEMMA WorkerMoves ==
  ASSUME TypeOK, worker.at # "idle", NEW step \in Step
  PROVE  /\ worker.order \in Order
         /\ Goto(step) =>
              /\ worker' \in [at : Step, order : Order \cup {None}]
              /\ worker'.at = step /\ worker'.order = worker.order
         /\ worker' = Idle =>
              /\ worker' \in [at : Step, order : Order \cup {None}]
              /\ worker'.at = "idle"
  BY DEF TypeOK, Goto, Idle, Step

-----------------------------------------------------------------------------
(* What a step does to the views and to the worker's hold on its record.   *)

RecordInv == TypeOK /\ ViewsAreFresh /\ WorkerHasRecord

\* The first half of a transition of the worker.
LEMMA WorkerReads ==
  ASSUME RecordInv, NEW step \in Step, NEW to \in Later,
         NEW next \in Step, WorkerRead(step, to, next), step # "idle",
         next = "assigning" => step = "sent",
         next \notin {"loaded", "sent"}
  PROVE  RecordInv'
<1> USE DEF RecordInv
<1>1. /\ worker.order \in Order /\ worker.at = step
      /\ worker' \in [at : Step, order : Order \cup {None}]
      /\ worker'.at = next /\ worker'.order = worker.order
  BY WorkerMoves DEF WorkerRead, At
<1>2. UNCHANGED <<status, pending, redis, running, memory, wire, faults>>
  BY DEF WorkerRead
<1>3. /\ view' \in [Actor -> View \cup {None}] /\ ViewsAreFresh'
      /\ view'["worker"] # None /\ view'["worker"].order = worker.order
  BY <1>1, <1>2, ReadIsFresh DEF WorkerRead, Actor
<1>4. TypeOK'
  BY <1>1, <1>2, <1>3 DEF TypeOK, redis, memory, wire
<1>5. WorkerHasRecord'
  BY <1>1, <1>2, <1>3 DEF WorkerHasRecord
<1>6. QED
  BY <1>3, <1>4, <1>5

\* The second half.
LEMMA WorkerWrites ==
  ASSUME RecordInv, NEW step \in {"failing", "assigning", "starting"},
         NEW next \in {"idle", "assigned"}, WorkerWrite(step, next)
  PROVE  RecordInv'
<1> USE DEF RecordInv
<1>1. worker.order \in Order /\ worker.at = step /\ worker.at # "idle"
  BY DEF WorkerWrite, At, TypeOK
<1>2. view["worker"] # None
  BY <1>1 DEF WorkerHasRecord
<1>3. /\ status' \in [Order -> Status] /\ view' \in [Actor -> View \cup {None}]
      /\ ViewsAreFresh'
  BY <1>2, WriteFollows DEF WorkerWrite, Actor
<1>4. /\ worker' \in [at : Step, order : Order \cup {None}]
      /\ worker'.at \in {"idle", "assigned"}
      /\ worker'.at # "idle" => worker'.order \in Order
  BY <1>1, WorkerMoves DEF WorkerWrite, Step
<1>5. retries' \in [Order -> Nat] /\ UNCHANGED <<pending, redis, running, backoff, wire, faults>>
  BY <1>1 DEF WorkerWrite, TypeOK
<1>6. TypeOK'
  BY <1>3, <1>4, <1>5 DEF TypeOK, redis, wire
<1>7. WorkerHasRecord'
  BY <1>4 DEF WorkerHasRecord
<1>8. QED
  BY <1>3, <1>6, <1>7

-----------------------------------------------------------------------------
(* A write follows the table; the REST handlers write like the worker.     *)

\* The second half of a REST call keeps types, views and the worker's record.
LEMMA ApiWrites ==
  ASSUME RecordInv, ApiWrite
  PROVE  RecordInv'
<1> USE DEF RecordInv
<1>1. /\ status' \in [Order -> Status] /\ view' \in [Actor -> View \cup {None}]
      /\ ViewsAreFresh'
      /\ \A o \in Order : status'[o] # status[o] => status'[o] \in Later
      /\ view["worker"] # None =>
           view'["worker"] # None /\ view'["worker"].order = view["worker"].order
  BY WriteFollows DEF ApiWrite, Actor
<1>2. UNCHANGED <<pending, redis, running, worker, memory, wire, faults>>
  BY DEF ApiWrite
<1>3. TypeOK'
  BY <1>1, <1>2 DEF TypeOK, redis, memory, wire
<1>4. WorkerHasRecord'
  BY <1>1, <1>2, Table DEF WorkerHasRecord, TypeOK
<1>5. QED
  BY <1>1, <1>3, <1>4

\* Every step keeps the types, the views and the worker's record.
LEMMA RecordStep == RecordInv /\ [Next]_vars => RecordInv'
<1> SUFFICES ASSUME RecordInv, [Next]_vars PROVE RecordInv'
  OBVIOUS
<1> USE DEF RecordInv
<1>1. ASSUME NEW o \in Order, Create(o) PROVE RecordInv'
  <2>1. /\ status' \in [Order -> Status] /\ status'[o] # "NONE"
        /\ \A q \in Order \ {o} : status'[q] = status[q]
    BY <1>1 DEF Create, TypeOK, Status
  <2>2. TypeOK'
    BY <1>1, <2>1 DEF Create, TypeOK, redis, memory, wire
  <2>3. ViewsAreFresh'
    <3>1. ASSUME NEW a \in Actor, view[a] # None PROVE view[a].order \in Order \ {o}
      <4>1. view[a] \in View /\ view[a].order \in Order /\ view[a].to \in Later
        BY <3>1 DEF TypeOK, View
      <4>2. status[view[a].order] # "NONE"
        BY <3>1, <4>1, Table DEF ViewsAreFresh
      <4>3. QED
        BY <1>1, <4>1, <4>2 DEF Create
    <3>2. QED
      BY <1>1, <2>1, <3>1 DEF Create, ViewsAreFresh
  <2>4. WorkerHasRecord'
    BY <1>1, <2>1 DEF Create, WorkerHasRecord, TypeOK
  <2>5. QED
    BY <2>2, <2>3, <2>4
<1>2. ASSUME NEW o \in Order, Enqueue(o) \/ Elapse(o) \/ Age(o) PROVE RecordInv'
  BY <1>2 DEF Enqueue, Elapse, Age, TypeOK, ViewsAreFresh, WorkerHasRecord,
    record, redis, memory, wire
<1>3. ASSUME NEW o \in Order, NEW to \in Later, ApiRead(o, to) PROVE RecordInv'
  <2>1. /\ view' \in [Actor -> View \cup {None}] /\ ViewsAreFresh'
        /\ view'["worker"] = view["worker"]
    BY <1>3, ReadIsFresh DEF ApiRead, Actor
  <2>2. QED
    BY <1>3, <2>1 DEF ApiRead, TypeOK, WorkerHasRecord, redis, memory, wire
<1>4. ASSUME ApiWrite PROVE RecordInv'
  BY <1>4, ApiWrites
<1>5. ASSUME NEW o \in Order, Pop(o) PROVE RecordInv'
  BY <1>5 DEF Pop, At, TypeOK, ViewsAreFresh, WorkerHasRecord, record, memory, wire, Step
<1>6. CASE Mark \/ Load \/ Publish
  <2>1. /\ worker.at # "idle" /\ worker.order \in Order
        /\ worker' \in [at : Step, order : Order \cup {None}]
        /\ \/ worker'.at \in {"held", "idle"}
           \/ worker'.at = "loaded" /\ status[worker.order] = "CREATED"
           \/ worker'.at = "sent" /\ worker.at = "loaded"
        /\ worker'.at # "idle" => worker'.order = worker.order
    BY <1>6, WorkerMoves DEF Mark, Load, Publish, At, Step
  <2>2. UNCHANGED record
    BY <1>6 DEF Mark, Load, Publish
  <2>3. ViewsAreFresh' /\ WorkerHasRecord'
    BY <2>1, <2>2 DEF ViewsAreFresh, WorkerHasRecord, record
  <2>4. TypeOK'
    BY <1>6, <2>1, <2>2 DEF Mark, Load, Publish, TypeOK, record, redis, memory, wire
  <2>5. QED
    BY <2>3, <2>4
<1>7. CASE Defer \/ \E keeps \in BOOLEAN : PublishFails(keeps)
  <2>1. /\ worker.at # "idle" /\ worker.order \in Order
        /\ worker' \in [at : Step, order : Order \cup {None}]
        /\ worker'.at \in {"idle", "dead"}
        /\ worker'.at # "idle" => worker'.order = worker.order
    BY <1>7, WorkerMoves DEF Defer, PublishFails, Refused, At, Step
  <2>2. UNCHANGED record
    BY <1>7 DEF Defer, PublishFails, Refused
  <2>3. ViewsAreFresh' /\ WorkerHasRecord'
    BY <2>1, <2>2 DEF ViewsAreFresh, WorkerHasRecord, record
  <2>4. TypeOK'
    <3>1. UNCHANGED <<pending, processing, running, online, faults>>
      BY <1>7 DEF Defer, PublishFails, Refused, wire
    <3>2. /\ queue' \in [Order -> Nat] /\ retries' \in [Order -> Nat]
          /\ backoff' \subseteq Order
      BY <1>7, <2>1 DEF Defer, PublishFails, TypeOK, memory
    <3>3. sent' \in [Order -> Nat] /\ kept' \in [Order -> Nat]
      BY <1>7, <2>1 DEF Defer, PublishFails, Refused, TypeOK, wire
    <3> QED BY <2>1, <2>2, <3>1, <3>2, <3>3 DEF TypeOK, record
  <2>5. QED
    BY <2>3, <2>4
<1>8. CASE FailOrder
  BY <1>8, WorkerReads, WorkerWrites, Table DEF FailOrder, Step
<1>9. CASE AssignOrder
  <2>1. CASE At("sent") /\ status[worker.order] # "CREATED" /\ Goto("assigned")
             /\ UNCHANGED <<record, pending, redis, running, memory, wire, faults>>
    <3>1. /\ worker' \in [at : Step, order : Order \cup {None}]
          /\ worker'.at = "assigned" /\ worker'.order = worker.order
          /\ worker.order \in Order
      BY <2>1, WorkerMoves DEF At, Step
    <3>2. QED
      BY <2>1, <3>1 DEF TypeOK, ViewsAreFresh, WorkerHasRecord, record, redis, memory, wire
  <2>2. QED
    BY <1>9, <2>1, WorkerReads, WorkerWrites, Table DEF AssignOrder, Step
<1>10. CASE StartExecution
  <2>1. CASE At("assigned") /\ status[worker.order] # "ASSIGNED" /\ worker' = Idle
             /\ retries' = [retries EXCEPT ![worker.order] = 0]
             /\ UNCHANGED <<record, pending, redis, running, backoff, wire, faults>>
    <3>1. /\ worker' \in [at : Step, order : Order \cup {None}]
          /\ worker'.at = "idle"
      BY <2>1, WorkerMoves DEF At, Step
    <3>2. QED
      BY <2>1, <3>1 DEF TypeOK, ViewsAreFresh, WorkerHasRecord, record, redis, wire
  <2>2. QED
    BY <1>10, <2>1, WorkerReads, WorkerWrites, Table DEF StartExecution, Step
<1>11. CASE Expire \/ Disconnect \/ Connect
  <2>1. UNCHANGED <<record, pending, queue, running, worker, memory, faults>>
    BY <1>11 DEF Expire, Disconnect, Connect, redis
  <2>2. /\ processing' \in [Order -> {"none", "young", "old"}] /\ online' \in BOOLEAN
        /\ sent' \in [Order -> Nat] /\ kept' \in [Order -> Nat]
    <3>1. CASE Expire
      BY <3>1 DEF Expire, TypeOK, wire
    <3>2. CASE Disconnect
      BY <3>2 DEF Disconnect, TypeOK, redis
    <3>3. CASE Connect
      BY <3>3 DEF Connect, TypeOK, redis
    <3> QED BY <1>11, <3>1, <3>2, <3>3
  <2> QED BY <2>1, <2>2 DEF TypeOK, ViewsAreFresh, WorkerHasRecord, record, memory
<1>12. CASE Abort \/ Crash
  <2>1. /\ worker' \in [at : Step, order : Order \cup {None}]
        /\ worker'.at = "idle"
    BY <1>12 DEF Abort, Crash, Idle, Step
  <2>2. view' \in [Actor -> View \cup {None}]
        /\ \A a \in Actor : view'[a] # None => view'[a] = view[a]
    BY <1>12 DEF Abort, Crash, TypeOK
  <2>3. UNCHANGED status
    BY <1>12 DEF Abort, Crash
  <2>4. ViewsAreFresh' /\ WorkerHasRecord'
    BY <2>1, <2>2, <2>3 DEF ViewsAreFresh, WorkerHasRecord
  <2>5. faults' \in 0..MaxFaults
    BY <1>12, RetryAssumption DEF Abort, Crash, TypeOK
  <2>6. TypeOK'
    <3>1. CASE Abort
      BY <3>1, <2>1, <2>2, <2>3, <2>5 DEF Abort, TypeOK, redis, memory, wire
    <3>2. CASE Crash
      <4>1. /\ pending' \subseteq Order /\ backoff' \subseteq Order /\ running' \in BOOLEAN
            /\ retries' \in [Order -> Nat]
        BY <3>2 DEF Crash
      <4>2. UNCHANGED <<queue, processing, sent>> /\ online' \in BOOLEAN /\ kept' \in [Order -> Nat]
        BY <3>2 DEF Crash, redis
      <4>3. QED
        BY <2>1, <2>2, <2>3, <2>5, <4>1, <4>2 DEF TypeOK
    <3>3. QED
      BY <1>12, <3>1, <3>2
  <2>7. QED
    BY <2>4, <2>6
<1>13. CASE Restart
  BY <1>13 DEF Restart, TypeOK, ViewsAreFresh, WorkerHasRecord, record, memory, wire
<1>14. CASE UNCHANGED vars
  BY <1>14 DEF vars, TypeOK, ViewsAreFresh, WorkerHasRecord
<1>15. QED
  BY <1>1, <1>2, <1>3, <1>4, <1>5, <1>6, <1>7, <1>8, <1>9, <1>10, <1>11, <1>12,
    <1>13, <1>14 DEF Next, Work

\* The records, the queue and the worker keep their types.
THEOREM TypeCorrect == Spec => []TypeOK
<1>1. Init => RecordInv
  BY RetryAssumption DEF Init, RecordInv, TypeOK, ViewsAreFresh, WorkerHasRecord, Idle,
    Status, Step
<1>2. QED
  BY <1>1, RecordStep, PTL DEF Spec, RecordInv

-----------------------------------------------------------------------------
\* A step changes no status except along the table.
LEMMA StepFollows ==
  ASSUME RecordInv, [Next]_vars
  PROVE  \A o \in Order : status'[o] # status[o] =>
           (status[o] = "NONE" /\ status'[o] = "CREATED")
           \/ (status'[o] \in Later /\ status[o] \in Before[status'[o]])
<1> USE DEF RecordInv
<1>1. ASSUME NEW q \in Order, Create(q)
      PROVE  \A o \in Order : status'[o] # status[o] =>
               status[o] = "NONE" /\ status'[o] = "CREATED"
  BY <1>1 DEF Create, TypeOK
<1>2. ASSUME NEW a \in Actor, view[a] # None, Write(a)
      PROVE  \A o \in Order : status'[o] # status[o] =>
               status'[o] \in Later /\ status[o] \in Before[status'[o]]
  BY <1>2, WriteFollows
<1>3. ASSUME NEW step \in {"failing", "assigning", "starting"},
             NEW next \in {"idle", "assigned"}, WorkerWrite(step, next)
      PROVE  view["worker"] # None /\ Write("worker")
  BY <1>3 DEF WorkerWrite, WorkerHasRecord, At
<1>4. CASE ApiWrite
  BY <1>2, <1>4 DEF ApiWrite, Actor
<1>5. CASE FailOrder
  BY <1>2, <1>3, <1>5 DEF FailOrder, WorkerRead, Actor
<1>6. CASE AssignOrder
  BY <1>2, <1>3, <1>6 DEF AssignOrder, WorkerRead, Actor, record
<1>7. CASE StartExecution
  BY <1>2, <1>3, <1>7 DEF StartExecution, WorkerRead, Actor, record
<1>8. CASE UNCHANGED status
  BY <1>8
<1>9. QED
  BY <1>1, <1>4, <1>5, <1>6, <1>7, <1>8 DEF Next, Work, vars, record, Enqueue, Elapse,
    Age, ApiRead, Pop, Mark, Defer, Load, Publish, PublishFails, Refused, Expire,
    Disconnect, Connect, Abort, Crash, Restart

(* The REST handlers and the worker never undo one another, whichever of   *)
(* them reads and writes first: the optimistic lock is enough.             *)
THEOREM StatusAlwaysFollows == Spec => StatusFollows
<1>1. Init => RecordInv
  BY RetryAssumption DEF Init, RecordInv, TypeOK, ViewsAreFresh, WorkerHasRecord, Idle,
    Status, Step
<1>2. RecordInv /\ [Next]_vars =>
        [\A o \in Order : status'[o] # status[o] =>
           (status[o] = "NONE" /\ status'[o] = "CREATED")
           \/ (status'[o] \in Later /\ status[o] \in Before[status'[o]])]_vars
  BY StepFollows
<1>3. QED
  BY <1>1, <1>2, RecordStep, PTL DEF Spec, StatusFollows

-----------------------------------------------------------------------------
(* What the worker leaves behind when it has written, or lets an order go. *)

\* The worker writes over a record that has left CREATED, or leaves it so.
LEMMA WritingDecides ==
  ASSUME RecordInv, NEW step \in {"failing", "assigning", "starting"},
         NEW next \in {"idle", "assigned"}, WorkerWrite(step, next)
  PROVE  status'[worker.order] \in Later
<1>1. view["worker"] # None /\ view["worker"].order = worker.order /\ Write("worker")
  BY DEF WorkerWrite, RecordInv, WorkerHasRecord, At
<1>2. QED
  BY <1>1, WriteFollows DEF RecordInv, Actor

\* Once decided, an order stays decided.
LEMMA LaterStays ==
  ASSUME RecordInv, [Next]_vars, NEW o \in Order, status[o] \in Later
  PROVE  status'[o] \in Later
BY StepFollows, Table

\* The worker comes to "assigned" with a record that has moved on, and finds it so.
LEMMA AssignedStep ==
  RecordInv /\ AssignedHasMovedOn /\ [Next]_vars => AssignedHasMovedOn'
<1> SUFFICES ASSUME RecordInv, AssignedHasMovedOn, [Next]_vars, worker'.at = "assigned"
             PROVE  status'[worker'.order] \in Later
  BY DEF AssignedHasMovedOn
<1>1. CASE worker' = worker
  BY <1>1, LaterStays DEF AssignedHasMovedOn, RecordInv, TypeOK
<1>2. CASE AssignOrder
  <2>1. CASE WorkerWrite("assigning", "assigned")
    <3>1. worker.at # "idle" /\ (Goto("assigned") \/ worker' = Idle)
      BY <2>1 DEF WorkerWrite, At
    <3>2. worker'.order = worker.order
      BY <3>1, WorkerMoves DEF RecordInv, Step
    <3> QED BY <2>1, <3>2, WritingDecides
  <2>2. CASE At("sent") /\ status[worker.order] # "CREATED" /\ Goto("assigned")
             /\ UNCHANGED record
    <3>1. worker'.order = worker.order /\ worker.order \in Order
      BY <2>2, WorkerMoves DEF At, RecordInv, Step
    <3>2. status[worker.order] # "NONE" /\ status' = status
      BY <2>2 DEF RecordInv, WorkerHasRecord, At, record
    <3> QED BY <2>2, <3>1, <3>2 DEF RecordInv, TypeOK, Status
  <2>3. CASE WorkerRead("sent", "ASSIGNED", "assigning")
    BY <2>3, WorkerMoves DEF RecordInv, WorkerRead, At, Step
  <2> QED BY <1>2, <2>1, <2>2, <2>3 DEF AssignOrder
<1>3. CASE (\E o \in Order : Pop(o)) \/ Mark \/ Defer \/ Load \/ Publish
         \/ \E keeps \in BOOLEAN : PublishFails(keeps)
  BY <1>3, WorkerMoves DEF RecordInv, Pop, Mark, Defer, Load, Publish, PublishFails,
     Refused, At, Step
<1>4. CASE FailOrder \/ StartExecution
  <2>1. worker.at # "idle"
    BY <1>4 DEF FailOrder, StartExecution, WorkerRead, WorkerWrite, At
  <2>2. worker' = Idle \/ Goto("failing") \/ Goto("starting")
    BY <1>4 DEF FailOrder, StartExecution, WorkerRead, WorkerWrite
  <2> QED BY <2>1, <2>2, WorkerMoves DEF RecordInv, Step
<1>5. CASE Abort \/ Crash
  BY <1>5 DEF Abort, Crash, Idle
<1> QED BY <1>1, <1>2, <1>3, <1>4, <1>5 DEF Next, Work, vars, Create, Enqueue, Elapse,
        Age, ApiRead, ApiWrite, Expire, Disconnect, Connect, Restart

-----------------------------------------------------------------------------
(* CopiesAreBounded is not inductive: that an order is not tried for ever  *)
(* rests on the count of its tries, and that an order which went out is    *)
(* not tried again on its record, which leaves CREATED before the worker   *)
(* lets go of it unless something fails in between.                        *)

\* A fault allows for as many messages as the tries of one life of the process.
LEMMA FaultsAllow ==
  ASSUME TypeOK
  PROVE  /\ Allowance \in Nat /\ MaxRetries \in Nat /\ MaxRetries >= 1
         /\ MaxRetries * (1 + faults) = Allowance + MaxRetries
         /\ faults' = faults => Allowance' = Allowance
         /\ faults' = faults + 1 => Allowance' = Allowance + MaxRetries
<1>1. faults \in Nat /\ MaxRetries \in Nat /\ MaxRetries >= 1
  BY RetryAssumption DEF TypeOK
<1>2. \A m, f \in Nat : m * f \in Nat /\ m * (1 + f) = m * f + m /\ m * (f + 1) = m * f + m
  OBVIOUS
<1> QED BY <1>1, <1>2 DEF Allowance

\* Every step keeps the account of what was sent.
LEMMA SentStep ==
  RecordInv /\ AssignedHasMovedOn /\ SentIsAccounted /\ [Next]_vars => SentIsAccounted'
<1> SUFFICES ASSUME RecordInv, AssignedHasMovedOn, SentIsAccounted, [Next]_vars,
                    NEW o \in Order
             PROVE  /\ (Messages(o) <= Allowance + MaxRetries)'
                    /\ \/ status'[o] \in Later
                       \/ /\ worker'.at \in {"sent", "assigning", "dead", "failing"}
                          /\ worker'.order = o
                       \/ MayBeTried(o)'
                    /\ worker'.at = "loaded" /\ worker'.order = o => MayBeTried(o)'
  BY DEF SentIsAccounted
<1> DEFINE InHand == worker.at \in {"sent", "assigning", "dead", "failing"}
                     /\ worker.order = o
           Loaded == worker.at = "loaded" /\ worker.order = o
           Within == Messages(o) <= Allowance + MaxRetries
           Kept == /\ Within' /\ (status'[o] \in Later \/ InHand' \/ MayBeTried(o)')
                   /\ (Loaded' => MayBeTried(o)')
<1>1. /\ Messages(o) \in Nat /\ Messages(o)' \in Nat
      /\ retries[o] \in Nat /\ retries'[o] \in Nat
  BY RecordStep DEF RecordInv, TypeOK, Messages
<1>2. /\ Allowance \in Nat /\ MaxRetries \in Nat /\ MaxRetries >= 1
      /\ faults' = faults => Allowance' = Allowance
      /\ faults' = faults + 1 => Allowance' = Allowance + MaxRetries
  BY FaultsAllow DEF RecordInv
<1>3. Within /\ (status[o] \in Later \/ InHand \/ MayBeTried(o)) /\ (Loaded => MayBeTried(o))
  BY DEF SentIsAccounted
<1>4. status[o] \in Later => status'[o] \in Later
  BY LaterStays
\* A fault pays for whatever was sent before it.
<1>5. ASSUME faults' = faults + 1, Messages(o)' <= Messages(o) PROVE Kept
  BY <1>1, <1>2, <1>3, <1>5 DEF MayBeTried
\* The steps that send nothing new of the order and keep the count of its tries.
<1>6. ASSUME faults' = faults, Messages(o)' <= Messages(o), retries'[o] = retries[o],
             Loaded' => Loaded \/ (status[o] = "CREATED" /\ ~ InHand),
             InHand => InHand' \/ status'[o] \in Later
      PROVE  Kept
  <2>1. MayBeTried(o) => MayBeTried(o)'
    BY <1>1, <1>2, <1>6 DEF MayBeTried
  <2>2. Within'
    BY <1>1, <1>2, <1>3, <1>6
  <2>3. Loaded' => MayBeTried(o)'
    BY <1>3, <1>6, <2>1, Table
  <2> HIDE DEF InHand, Loaded, Within
  <2> QED BY <1>3, <1>4, <1>6, <2>1, <2>2, <2>3
\* The steps that decide about the order and forget the count of its tries.
<1>7. ASSUME faults' = faults, Messages(o)' <= Messages(o), status'[o] \in Later,
             worker'.at # "loaded"
      PROVE  Kept
  BY <1>1, <1>2, <1>3, <1>7
\* Another thread, or another part of the worker's memory.
<1>8. ASSUME UNCHANGED <<worker, faults, retries>>, Messages(o)' <= Messages(o) PROVE Kept
  BY <1>6, <1>8
<1>9. ASSUME NEW q \in Order, Create(q) \/ Enqueue(q) \/ Elapse(q) \/ Age(q) PROVE Kept
  BY <1>1, <1>8, <1>9 DEF Create, Enqueue, Elapse, Age, Messages, memory, wire
<1>10. ASSUME NEW q \in Order, NEW to \in Later, ApiRead(q, to) PROVE Kept
  BY <1>1, <1>8, <1>10 DEF ApiRead, Messages, memory, wire
<1>11. ASSUME ApiWrite \/ Expire \/ Restart \/ Disconnect \/ UNCHANGED vars PROVE Kept
  BY <1>1, <1>8, <1>11 DEF ApiWrite, Expire, Restart, Disconnect, Messages, memory, wire, vars
<1>12. ASSUME Connect PROVE Kept
  <2>1. Messages(o)' = Messages(o) /\ UNCHANGED <<worker, faults, retries>>
    BY <1>12 DEF Connect, Messages, memory, RecordInv, TypeOK
  <2> QED BY <1>1, <1>8, <2>1
<1>13. ASSUME (\E q \in Order : Pop(q)) \/ Mark \/ Defer PROVE Kept
  <2>1. /\ UNCHANGED <<faults, retries>> /\ Messages(o)' = Messages(o)
        /\ worker.at \in {"idle", "popped", "held"} /\ worker'.at # "loaded"
    BY <1>13, WorkerMoves DEF RecordInv, Pop, Mark, Defer, At, Step, Messages, memory, wire
  <2> QED BY <1>1, <1>6, <2>1
<1>14. ASSUME Load PROVE Kept
  <2>1. /\ UNCHANGED <<faults, retries>> /\ Messages(o)' = Messages(o) /\ worker.at = "held"
        /\ worker'.at = "loaded" =>
             worker'.order = worker.order /\ status[worker.order] = "CREATED"
    BY <1>14, WorkerMoves DEF RecordInv, Load, At, Step, Messages, memory, wire, Idle
  <2> QED BY <1>1, <1>6, <2>1
<1>15. ASSUME Publish PROVE Kept
  <2>1. /\ worker.at = "loaded" /\ worker'.at = "sent" /\ worker'.order = worker.order
        /\ UNCHANGED <<faults, retries>>
        /\ Messages(o)' = IF o = worker.order THEN Messages(o) + 1 ELSE Messages(o)
    BY <1>1, <1>15, WorkerMoves DEF Publish, RecordInv, TypeOK, At, Step, Messages, memory
  <2>2. CASE o = worker.order
    BY <1>1, <1>2, <1>3, <2>1, <2>2 DEF MayBeTried
  <2>3. CASE o # worker.order
    BY <1>1, <1>6, <2>1, <2>3
  <2> QED BY <2>2, <2>3
<1>16. ASSUME NEW keeps \in BOOLEAN, PublishFails(keeps) PROVE Kept
  <2>1. /\ worker.at = "loaded" /\ faults' = faults
        /\ worker'.at # "loaded"
        /\ retries'[o] = IF o = worker.order THEN retries[o] + 1 ELSE retries[o]
        /\ o = worker.order => Messages(o)' <= Messages(o) + 1
        /\ o # worker.order => Messages(o)' = Messages(o)
        /\ o = worker.order => retries[o] + 1 < MaxRetries \/ InHand'
    BY <1>1, <1>16, WorkerMoves
       DEF PublishFails, Refused, RecordInv, TypeOK, At, Step, Messages, Idle
  <2>2. CASE o = worker.order
    BY <1>1, <1>2, <1>3, <2>1, <2>2 DEF MayBeTried
  <2>3. CASE o # worker.order
    BY <1>1, <1>6, <2>1, <2>3
  <2> QED BY <2>2, <2>3
\* The worker's transitions.
<1>17. ASSUME NEW step \in {"dead", "sent", "assigned"}, NEW to \in Later,
              NEW next \in {"failing", "assigning", "starting"}, WorkerRead(step, to, next),
              step = "assigned" <=> next = "starting"
       PROVE  Kept
  <2>1. /\ UNCHANGED <<faults, retries>> /\ Messages(o)' = Messages(o) /\ worker.at = step
        /\ worker'.at = next /\ worker'.order = worker.order
    BY <1>17, WorkerMoves DEF RecordInv, WorkerRead, At, Step, Messages, memory, wire
  <2> QED BY <1>1, <1>6, <1>17, <2>1
<1>18. ASSUME NEW step \in {"failing", "assigning", "starting"},
              NEW next \in {"idle", "assigned"}, WorkerWrite(step, next)
       PROVE  Kept
  <2>1. /\ faults' = faults /\ Messages(o)' = Messages(o) /\ worker'.at # "loaded"
        /\ o # worker.order => retries'[o] = retries[o]
    BY <1>18, WorkerMoves DEF RecordInv, TypeOK, WorkerWrite, At, Step, Messages, wire, Idle
  <2>2. o = worker.order => status'[o] \in Later
    BY <1>18, WritingDecides
  <2> QED BY <1>1, <1>6, <1>7, <2>1, <2>2
<1>19. ASSUME worker.at \in {"sent", "assigned"}, worker.order \in Order,
              status[worker.order] \in Later, worker'.at # "loaded",
              UNCHANGED <<status, sent, kept, faults>>,
              retries' = retries \/ retries' = [retries EXCEPT ![worker.order] = 0]
       PROVE  Kept
  <2>1. Messages(o)' = Messages(o) /\ (o # worker.order => retries'[o] = retries[o])
    BY <1>19 DEF Messages, RecordInv, TypeOK
  <2> QED BY <1>1, <1>6, <1>7, <1>19, <2>1
<1>20. ASSUME AssignOrder PROVE Kept
  <2>1. CASE /\ At("sent") /\ status[worker.order] # "CREATED" /\ Goto("assigned")
             /\ UNCHANGED <<record, pending, redis, running, memory, wire, faults>>
    <3>1. worker.order \in Order /\ worker'.at # "loaded"
      BY <2>1, WorkerMoves DEF RecordInv, At, Step
    <3>2. status[worker.order] \in Later
      BY <2>1, <3>1 DEF RecordInv, WorkerHasRecord, At, TypeOK, Status
    <3> QED BY <1>19, <2>1, <3>1, <3>2 DEF At, record, memory, wire
  <2> QED BY <1>17, <1>18, <1>20, <2>1, Table DEF AssignOrder
<1>21. ASSUME StartExecution PROVE Kept
  <2>1. CASE /\ At("assigned") /\ status[worker.order] # "ASSIGNED" /\ worker' = Idle
             /\ retries' = [retries EXCEPT ![worker.order] = 0]
             /\ UNCHANGED <<record, pending, redis, running, backoff, wire, faults>>
    <3>1. worker.order \in Order /\ worker'.at # "loaded"
      BY <2>1, WorkerMoves DEF RecordInv, At, Step
    <3>2. status[worker.order] \in Later
      BY <2>1 DEF AssignedHasMovedOn, At
    <3> QED BY <1>19, <2>1, <3>1, <3>2 DEF At, record, wire
  <2> QED BY <1>17, <1>18, <1>21, <2>1, Table DEF StartExecution
<1>22. ASSUME FailOrder PROVE Kept
  BY <1>17, <1>18, <1>22, Table DEF FailOrder
<1>23. ASSUME Abort \/ Crash PROVE Kept
  <2>1. faults' = faults + 1 /\ Messages(o)' <= Messages(o)
    BY <1>1, <1>23 DEF Abort, Crash, Messages, wire, RecordInv, TypeOK
  <2> QED BY <1>5, <2>1
<1> HIDE DEF Kept
<1>24. ASSUME Work PROVE Kept
  BY <1>13, <1>14, <1>15, <1>16, <1>20, <1>21, <1>22, <1>24 DEF Work
<1>25. Kept
  BY <1>9, <1>10, <1>11, <1>12, <1>23, <1>24 DEF Next
<1> QED BY <1>25 DEF Kept

(* A robot is sent an order no more often than the worker tries it before  *)
(* the dead letter, and that many times again for each fault, whatever the *)
(* connection does to the tries.                                           *)
THEOREM CopiesStayBounded == Spec => []CopiesAreBounded
<1> DEFINE Inv == RecordInv /\ AssignedHasMovedOn /\ SentIsAccounted
<1>1. Init => Inv
  <2>1. Init => RecordInv /\ AssignedHasMovedOn
    BY RetryAssumption DEF Init, RecordInv, TypeOK, ViewsAreFresh, WorkerHasRecord, Idle,
      Status, Step, AssignedHasMovedOn
  <2>2. ASSUME Init PROVE SentIsAccounted
    <3>1. Allowance \in Nat /\ MaxRetries \in Nat /\ MaxRetries >= 1
      BY <2>1, <2>2, FaultsAllow DEF RecordInv
    <3>2. ASSUME NEW o \in Order
          PROVE  /\ Messages(o) <= Allowance + MaxRetries /\ MayBeTried(o)
      <4>1. sent[o] = 0 /\ kept[o] = 0 /\ retries[o] = 0
        BY <2>2 DEF Init
      <4>2. Messages(o) = 0
        BY <4>1 DEF Messages
      <4> QED BY <3>1, <4>1, <4>2 DEF MayBeTried
    <3> QED BY <3>2 DEF SentIsAccounted
  <2> QED BY <2>1, <2>2
<1>2. Inv /\ [Next]_vars => Inv'
  BY RecordStep, AssignedStep, SentStep
<1>3. Inv => CopiesAreBounded
  BY FaultsAllow DEF RecordInv, SentIsAccounted, CopiesAreBounded
<1>4. QED
  BY <1>1, <1>2, <1>3, PTL DEF Spec
-----------------------------------------------------------------------------
(* NoForgottenOrder is not inductive: the worker drops an order that it    *)
(* finds no longer ASSIGNED, and would forget one that were CREATED again. *)
(* None is: whoever assigned it has left a record that only moves on.      *)

\* An order waits in the books: of its producer, of the queue, of the worker.
Booked(o) == o \in pending \/ queue[o] > 0 \/ Handled(o)

\* No step lets go of an order that waits, until there is a fault.
LEMMA BookedStep ==
  RecordInv /\ AssignedHasMovedOn /\ NoForgottenOrder /\ [Next]_vars => NoForgottenOrder'
<1> SUFFICES ASSUME RecordInv, AssignedHasMovedOn, NoForgottenOrder, [Next]_vars,
                    faults' = 0, NEW o \in Order, status'[o] = "CREATED"
             PROVE  Booked(o)'
  BY DEF NoForgottenOrder, Booked, Handled
<1>1. /\ faults \in Nat /\ queue[o] \in Nat /\ queue'[o] \in Nat
      /\ status[o] = "CREATED" /\ faults = 0 => Booked(o)
  BY RetryAssumption, RecordStep DEF RecordInv, TypeOK, NoForgottenOrder, Booked
\* The steps that leave the books of the order alone.
<1>2. ASSUME faults' = faults, status'[o] = status[o], worker' = worker,
             pending \subseteq pending' \/ queue'[o] > 0, queue'[o] >= queue[o]
      PROVE  Booked(o)'
  BY <1>1, <1>2 DEF Booked, Handled
\* The steps that put the order back, keep it in hand, or handle another one.
<1>3. ASSUME faults' = faults, status'[o] = status[o], pending' = pending,
             queue'[o] >= queue[o],
             worker.order = o => queue'[o] > 0 \/ Handled(o)'
      PROVE  Booked(o)'
  BY <1>1, <1>3 DEF Booked, Handled
<1>4. ASSUME NEW q \in Order, Create(q) PROVE Booked(o)'
  BY <1>1, <1>2, <1>4 DEF Create, Booked, RecordInv, TypeOK, redis
<1>5. ASSUME NEW q \in Order, Enqueue(q) PROVE Booked(o)'
  BY <1>1, <1>5 DEF Enqueue, Booked, Handled, record, RecordInv, TypeOK
<1>6. CASE UNCHANGED <<status, pending, queue, worker, faults>>
  BY <1>1, <1>2, <1>6
<1>7. CASE ApiWrite
  <2>1. status'[o] = status[o]
    BY <1>7, WriteFollows, Table DEF ApiWrite, RecordInv, Actor
  <2> QED BY <1>1, <1>2, <1>7, <2>1 DEF ApiWrite, redis
<1>8. ASSUME NEW q \in Order, Pop(q) PROVE Booked(o)'
  BY <1>1, <1>8 DEF Pop, At, Booked, Handled, record, RecordInv, TypeOK
<1>9. CASE Mark \/ Load \/ Publish
  <2>1. /\ worker.at # "idle" /\ UNCHANGED <<status, pending, queue, faults>>
        /\ \/ worker'.at # "idle" /\ worker'.order = worker.order
           \/ status[worker.order] # "CREATED"
    BY <1>9, WorkerMoves DEF RecordInv, Mark, Load, Publish, At, Step, record, redis
  <2> QED BY <1>1, <1>3, <2>1 DEF Handled
<1>10. CASE Defer \/ \E keeps \in BOOLEAN : PublishFails(keeps)
  <2>1. /\ worker.order \in Order /\ UNCHANGED <<status, pending, faults>>
        /\ \/ queue' = [queue EXCEPT ![worker.order] = @ + 1]
           \/ queue' = queue /\ Goto("dead") /\ worker.at # "idle"
    BY <1>10 DEF RecordInv, TypeOK, Defer, PublishFails, Refused, At, record
  <2>2. CASE queue' = [queue EXCEPT ![worker.order] = @ + 1]
    <3>1. queue'[o] >= queue[o] /\ (worker.order = o => queue'[o] > 0)
      BY <1>1, <2>2 DEF RecordInv, TypeOK
    <3> QED BY <1>3, <2>1, <3>1
  <2>3. CASE queue' = queue /\ Goto("dead") /\ worker.at # "idle"
    <3>1. worker.order = o => Handled(o)'
      BY <2>3, WorkerMoves DEF RecordInv, Handled, Step
    <3> QED BY <1>1, <1>3, <2>1, <2>3, <3>1
  <2> QED BY <2>1, <2>2, <2>3
<1>11. ASSUME NEW step \in {"dead", "sent", "assigned"}, NEW to \in Later,
              NEW next \in {"failing", "assigning", "starting"}, WorkerRead(step, to, next)
       PROVE  Booked(o)'
  <2>1. /\ UNCHANGED <<status, pending, queue, faults>>
        /\ worker'.at # "idle" /\ worker'.order = worker.order
    BY <1>11, WorkerMoves DEF RecordInv, WorkerRead, At, Step, redis
  <2> QED BY <1>1, <1>3, <2>1 DEF Handled
<1>12. ASSUME NEW step \in {"failing", "assigning", "starting"},
              NEW next \in {"idle", "assigned"}, WorkerWrite(step, next)
       PROVE  Booked(o)'
  <2>1. worker.order # o
    BY <1>12, WritingDecides, Table
  <2>2. view["worker"] # None /\ Write("worker")
    BY <1>12 DEF WorkerWrite, RecordInv, WorkerHasRecord, At
  <2>3. status'[o] = status[o]
    BY <2>2, WriteFollows, Table DEF RecordInv, Actor
  <2> QED BY <1>1, <1>3, <1>12, <2>1, <2>3 DEF WorkerWrite, redis
<1>13. CASE AssignOrder \/ StartExecution \/ FailOrder
  <2>1. CASE /\ UNCHANGED <<status, pending, queue, faults>> /\ worker.at # "idle"
             /\ \/ At("sent") /\ Goto("assigned")
                \/ At("assigned") /\ worker' = Idle
    <3>1. worker.order = o => Handled(o)'
      BY <1>1, <2>1, WorkerMoves, Table DEF AssignedHasMovedOn, At, Handled, RecordInv, Step
    <3> QED BY <1>1, <1>3, <2>1, <3>1
  <2> QED BY <1>11, <1>12, <1>13, <2>1, Table DEF AssignOrder, StartExecution, FailOrder,
          record, redis, At
<1>14. CASE Abort \/ Crash
  BY <1>1, <1>14 DEF Abort, Crash
<1>15. CASE Restart
  <2>1. queue'[o] >= queue[o]
    BY <1>1, <1>15 DEF Restart, RecordInv, TypeOK
  <2> QED BY <1>2, <1>15, <2>1 DEF Restart, record
<1> QED BY <1>4, <1>5, <1>6, <1>7, <1>8, <1>9, <1>10, <1>11, <1>12, <1>13, <1>14, <1>15
        DEF Next, Work, vars, Elapse, Age, ApiRead, Expire, Disconnect, Connect, record, redis

(* Until something raises or the process dies, no order that waits to be   *)
(* dispatched is lost, whoever overtakes the worker and however often      *)
(* publishing fails: it is with its producer, in the queue, or in hand.    *)
THEOREM NoOrderIsForgotten == Spec => []NoForgottenOrder
<1> DEFINE Inv == RecordInv /\ AssignedHasMovedOn /\ NoForgottenOrder
<1>1. Init => Inv
  BY RetryAssumption DEF Init, RecordInv, TypeOK, ViewsAreFresh, WorkerHasRecord, Idle,
    Status, Step, AssignedHasMovedOn, NoForgottenOrder
<1>2. Inv /\ [Next]_vars => Inv'
  BY RecordStep, AssignedStep, BookedStep
<1>3. QED
  BY <1>1, <1>2, PTL DEF Spec
=============================================================================
