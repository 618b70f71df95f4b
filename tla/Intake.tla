------------------------------- MODULE Intake -------------------------------
(***************************************************************************)
(* The three ways an order comes into the bridge: a batch collects the     *)
(* tasks that are open in SAP, an IDoc brings tasks, and POST /orders      *)
(* sends an order to its robot at once.  Each writes the order's record    *)
(* first; the record's number is unique, and what refuses a number twice   *)
(* is the database alone.  The handlers never await between their first    *)
(* and their last step, so each is one action that may break off anywhere. *)
(*                                                                         *)
(* DispatchQueue has what becomes of a queued order in detail.             *)
(***************************************************************************)
EXTENDS Integers, FiniteSets

CONSTANTS
  SapTask,        \* numbers of SAP's tasks, in the order in which SAP lists them
  Posted,         \* numbers of orders that only clients of POST /orders use
  BatchSize,      \* how many open tasks a batch asks for
  MaxIntakeFaults \* bound: handlers that break off, writes that fail

ASSUME IntakeAssumption ==
  SapTask \subseteq Int /\ BatchSize \in Nat \ {0} /\ MaxIntakeFaults \in Nat

Order == SapTask \cup Posted

VARIABLES
  records,   \* status of the order's record
  queued,    \* the orders in the dispatch queue
  items,     \* history: how often the order was put there
  sent,      \* history: how often POST /orders published it
  openTasks, \* the tasks that SAP has in status 0
  elapsed,   \* BATCH_INTERVAL has passed since _last_run
  inFaults

ivars == <<records, queued, items, sent, openTasks, elapsed, inFaults>>

IntakeTypeOK ==
  /\ records \in [Order -> {"none", "CREATED", "ASSIGNED", "COMPLETED", "FAILED"}]
  /\ queued \subseteq Order /\ items \in [Order -> 0..2] /\ sent \in [Order -> 0..2]
  /\ openTasks \subseteq SapTask /\ elapsed \in BOOLEAN /\ inFaults \in 0..MaxIntakeFaults

IntakeInit ==
  /\ records = [o \in Order |-> "none"] /\ queued = {}
  /\ items = [o \in Order |-> 0] /\ sent = [o \in Order |-> 0]
  /\ openTasks \in SUBSET SapTask /\ elapsed = TRUE /\ inFaults = 0

(* Something of the call failed, or nothing did. *)
Faulty(broken) ==
  IF broken THEN inFaults < MaxIntakeFaults /\ inFaults' = inFaults + 1 ELSE UNCHANGED inFaults

(* Mutants of New: the number is not unique; the first number that is      *)
(* taken ends the batch or the IDoc.                                       *)
NewAny(numbers) == numbers
NewIfAll(numbers) == IF \E o \in numbers : records[o] # "none" THEN {} ELSE numbers

(* create_order: the records that the database does not refuse. *)
New(numbers) == {o \in numbers : records[o] = "none"}

Persist(made, put) ==
  /\ records' = [o \in Order |-> IF o \in made THEN "CREATED" ELSE records[o]]
  /\ queued' = queued \cup put
  /\ items' = [o \in Order |-> IF o \in put THEN items[o] + 1 ELSE items[o]]

(* collect_and_submit: a record for each task of the window, then one      *)
(* enqueue_batch for all; the interval starts again when that went well,   *)
(* also if every number of the window was taken.                           *)
Window == {t \in openTasks : Cardinality({u \in openTasks : u < t}) < BatchSize}

Collect ==
  /\ elapsed /\ Window # {}
  /\ \E made \in SUBSET New(Window) : \E put \in {made, {}} :
       /\ Persist(made, put) /\ Faulty(put # New(Window))
       /\ elapsed' = (put # made)
  /\ UNCHANGED <<sent, openTasks>>

(* IdocListener.process: record and queue, segment by segment; a segment   *)
(* that fails is passed over.                                              *)
Idoc(numbers) ==
  /\ \E made \in SUBSET New(numbers) : \E put \in SUBSET made :
       Persist(made, put) /\ Faulty(put # New(numbers))
  /\ UNCHANGED <<sent, openTasks, elapsed>>

(* POST /orders: record, publish, ASSIGNED; FAILED if the publisher does   *)
(* not take it.                                                            *)
PostOrder(o) ==
  /\ o \in New({o})
  /\ \E taken \in BOOLEAN, status \in {"CREATED", "ASSIGNED", "FAILED"} :
       /\ status = "ASSIGNED" => taken
       /\ status = "FAILED" => ~taken
       /\ records' = [records EXCEPT ![o] = status]
       /\ sent' = [sent EXCEPT ![o] = IF taken THEN @ + 1 ELSE @]
       /\ Faulty(status = "CREATED")
  /\ UNCHANGED <<queued, items, openTasks, elapsed>>

-----------------------------------------------------------------------------
(* The surroundings *)

Interval ==
  /\ ~elapsed /\ elapsed' = TRUE
  /\ UNCHANGED <<records, queued, items, sent, openTasks, inFaults>>

Opened(t) ==
  /\ t \notin openTasks /\ records[t] = "none" /\ openTasks' = openTasks \cup {t}
  /\ UNCHANGED <<records, queued, items, sent, elapsed, inFaults>>

(* The worker dispatches the order or gives it up. *)
Work(o) ==
  /\ o \in queued /\ queued' = queued \ {o}
  /\ \E status \in {"ASSIGNED", "FAILED"} : records' = [records EXCEPT ![o] = status]
  /\ UNCHANGED <<items, sent, openTasks, elapsed, inFaults>>

(* The robot ends the order; SAP closes the task of one that it completed. *)
Settle(o) ==
  /\ records[o] = "ASSIGNED"
  /\ \E status \in {"COMPLETED", "FAILED"} :
       /\ records' = [records EXCEPT ![o] = status]
       /\ openTasks' = IF status = "COMPLETED" THEN openTasks \ {o} ELSE openTasks
  /\ UNCHANGED <<queued, items, sent, elapsed, inFaults>>

IntakeNext ==
  \/ Collect \/ Interval
  \/ \E numbers \in SUBSET SapTask : Idoc(numbers)
  \/ \E o \in Order : PostOrder(o) \/ Work(o) \/ Settle(o)
  \/ \E t \in SapTask : Opened(t)

IntakeSpec == IntakeInit /\ [][IntakeNext]_ivars

(* The batch is triggered again and again, the worker runs, robots arrive. *)
IntakeFairness ==
  /\ WF_ivars(Collect) /\ WF_ivars(Interval)
  /\ \A o \in Order : WF_ivars(Work(o)) /\ WF_ivars(Settle(o))

-----------------------------------------------------------------------------
(* A number that several producers bring, or one producer again and again, *)
(* reaches a robot by one route: queued once, or published once.           *)
OneRoute == \A o \in Order : items[o] + sent[o] <= 1

(* The tasks that hold their place in SAP's list for ever: their orders    *)
(* are there, and nobody drives them.                                      *)
Blocking == {t \in openTasks : \/ records[t] = "FAILED"
                               \/ records[t] = "CREATED" /\ t \notin queued}

(* A task that is open in SAP gets its order, although the batch sees only *)
(* the head of the list and finds there, again and again, tasks that it    *)
(* has brought already - as long as less than a window of them block it.   *)
OpenGetsOrder ==
  \A t \in SapTask : t \in openTasks ~>
    records[t] # "none" \/ Cardinality(Blocking) >= BatchSize
=============================================================================
