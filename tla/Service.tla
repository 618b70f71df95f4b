------------------------------ MODULE Service ------------------------------
(***************************************************************************)
(* The traffic coordinator as a service: every POST is a thread that calls *)
(* the coordinator and then ticks it, and a background thread ticks it     *)
(* every half second and takes snapshots.  No lock is held, so a tick is   *)
(* here what one thread does between two looks at what they share: the     *)
(* task queue, the assignments and what each robot was told over MQTT.     *)
(* Allocation, retries and routes are those of Coordinator, left out here. *)
(***************************************************************************)
EXTENDS Integers, FiniteSets

CONSTANTS
  Task,       \* the tasks, one per POST /order
  Robot,
  None,
  Joining,    \* robots that report for the first time while the service runs
  MaxCrashes  \* bound: ends of the process

Loop == "loop"            \* the background thread; the others are named by their task
Thread == Task \cup {Loop}

VARIABLES
  known,    \* _robot_states: the robots that have reported
  queue,    \* _task_queue
  active,   \* _active_assignments
  thread,   \* of each thread: where it is and what its pass has in hand
  told,     \* the task each robot was last sent over MQTT
  store,    \* STATE_STORE: the last snapshot's queue and assignments
  finished, \* _recently_completed
  accepted, \* history: the tasks whose POST was answered
  crashes

vars == <<known, queue, active, thread, told, store, finished, accepted, crashes>>

Idle == [pc |-> "idle", size |-> 0, taken |-> {}, free |-> {}, kept |-> {}, sent |-> {}]
Nothing == [queue |-> {}, active |-> [r \in Robot |-> None]]

Assigned == {r \in Robot : active[r] # None}

ServiceTypeOK ==
  /\ known \subseteq Robot /\ queue \subseteq Task /\ finished \subseteq Task
  /\ active \in [Robot -> Task \cup {None}] /\ told \in [Robot -> Task \cup {None}]
  /\ \A th \in Thread :
       /\ thread[th].pc \in {"idle", "tick", "walk", "take", "clear", "assign", "publish", "dead"}
       /\ thread[th].taken \cup thread[th].kept \subseteq Task
       /\ thread[th].free \subseteq Robot
  /\ store.queue \subseteq Task /\ accepted \subseteq Task /\ crashes \in 0..MaxCrashes

Init ==
  /\ known = Robot \ Joining /\ queue = {} /\ finished = {} /\ accepted = {} /\ crashes = 0
  /\ active = Nothing.active /\ told = Nothing.active /\ store = Nothing
  /\ thread = [th \in Thread |-> Idle]

Goes(th, pc) == thread' = [thread EXCEPT ![th].pc = pc]

(* POST /order: submit_order, then the tick of the same thread. *)
Post(t) ==
  /\ t \notin accepted /\ thread[t].pc = "idle"
  /\ queue' = queue \cup {t} /\ accepted' = accepted \cup {t}
  /\ Goes(t, "tick")
  /\ UNCHANGED <<known, active, told, store, finished, crashes>>

(* _background_tick: the loop's next round. *)
Wake ==
  /\ thread[Loop].pc = "idle" /\ Goes(Loop, "tick")
  /\ UNCHANGED <<known, queue, active, told, store, finished, accepted, crashes>>

(* An uplink: the first one of a robot makes it known.  The arrival at the *)
(* end of the path completes what the books say the robot drives.          *)
Report(r) ==
  /\ \/ r \notin known /\ UNCHANGED <<active, finished>>
     \/ /\ told[r] # None /\ active[r] = told[r]
        /\ active' = [active EXCEPT ![r] = None] /\ finished' = finished \cup {told[r]}
  /\ known' = known \cup {r}
  /\ UNCHANGED <<queue, thread, told, store, accepted, crashes>>

-----------------------------------------------------------------------------
(* The loops of a tick over _robot_states and _active_assignments: Python  *)
(* raises when another thread changed the size meanwhile.  A request       *)
(* thread ends without an answer, and the background thread ends for good. *)
Size == Cardinality(known) + Cardinality(Assigned)

Walk(th) ==
  /\ thread[th].pc = "tick"
  /\ thread' = [thread EXCEPT ![th].pc = "walk", ![th].size = Size]
  /\ UNCHANGED <<known, queue, active, told, store, finished, accepted, crashes>>

Walked(th) ==
  /\ thread[th].pc = "walk"
  /\ thread' = [thread EXCEPT ![th] = IF @.size = Size THEN [Idle EXCEPT !.pc = "take"]
                                      ELSE IF th = Loop THEN [Idle EXCEPT !.pc = "dead"] ELSE Idle]
  /\ UNCHANGED <<known, queue, active, told, store, finished, accepted, crashes>>

(* _dispatch_pending_tasks: the queue is copied, then cleared, then the    *)
(* free robots are listed, then each task goes to one of them or is kept,  *)
(* and what was kept becomes the queue.                                    *)
Take(th) ==
  /\ thread[th].pc = "take"
  /\ thread' = [thread EXCEPT ![th].pc = "clear", ![th].taken = queue]
  /\ UNCHANGED <<known, queue, active, told, store, finished, accepted, crashes>>

Clear(th) ==
  /\ thread[th].pc = "clear" /\ queue' = {}
  /\ thread' = [thread EXCEPT ![th].pc = "assign", ![th].free = known \ Assigned]
  /\ UNCHANGED <<known, active, told, store, finished, accepted, crashes>>

Assign(th, t) ==
  /\ thread[th].pc = "assign" /\ t \in thread[th].taken
  /\ \/ \E r \in thread[th].free :
          /\ active' = [active EXCEPT ![r] = t]
          /\ thread' = [thread EXCEPT ![th].taken = @ \ {t}, ![th].free = @ \ {r},
                                      ![th].sent = @ \cup {<<r, t>>}]
     \/ /\ thread[th].free = {}
        /\ thread' = [thread EXCEPT ![th].taken = @ \ {t}, ![th].kept = @ \cup {t}]
        /\ UNCHANGED active
  /\ UNCHANGED <<known, queue, told, store, finished, accepted, crashes>>

PutBack(th) ==
  /\ thread[th].pc = "assign" /\ thread[th].taken = {}
  /\ queue' = thread[th].kept /\ Goes(th, "publish")
  /\ UNCHANGED <<known, active, told, store, finished, accepted, crashes>>

(* _publish_tick_result, one assignment after the other. *)
Publish(th) ==
  /\ thread[th].pc = "publish"
  /\ \/ \E s \in thread[th].sent : /\ told' = [told EXCEPT ![s[1]] = s[2]]
                                   /\ thread' = [thread EXCEPT ![th].sent = @ \ {s}]
     \/ thread[th].sent = {} /\ thread' = [thread EXCEPT ![th] = Idle] /\ UNCHANGED told
  /\ UNCHANGED <<known, queue, active, store, finished, accepted, crashes>>

(* _save_snapshot, on a thread of its own between any two steps. *)
Snapshot ==
  /\ store' = [queue |-> queue, active |-> active]
  /\ UNCHANGED <<known, queue, active, thread, told, finished, accepted, crashes>>

(* The process ends and starts again.  LocalStateStore is a dictionary of  *)
(* the process, so restore finds nothing in it; the robots drive on.       *)
Crash ==
  /\ crashes < MaxCrashes /\ crashes' = crashes + 1
  /\ store' = Nothing /\ queue' = store'.queue /\ active' = store'.active
  /\ known' = {} /\ finished' = {} /\ thread' = [th \in Thread |-> Idle]
  /\ UNCHANGED <<told, accepted>>

Next ==
  \/ Wake \/ Snapshot \/ Crash
  \/ \E t \in Task : Post(t)
  \/ \E r \in Robot : Report(r)
  \/ \E th \in Thread :
       \/ Walk(th) \/ Walked(th) \/ Take(th) \/ Clear(th) \/ PutBack(th) \/ Publish(th)
       \/ \E t \in Task : Assign(th, t)

Spec == Init /\ [][Next]_vars

-----------------------------------------------------------------------------
(* "Track robots assigned during this tick to prevent double-assignment"   *)
(* (comment in _dispatch_pending_tasks): no two robots drive one task.     *)
NoDoubleAssignment ==
  \A r, q \in Robot : (r # q /\ active[r] # None) => active[r] # active[q]

(* An accepted task is in the queue, in a pass, with a robot or finished.  *)
TaskIsKept ==
  \A t \in accepted : \/ t \in queue \cup finished \/ \E r \in Robot : active[r] = t
                      \/ \E th \in Thread : t \in thread[th].taken \cup thread[th].kept
=============================================================================
