------------------------- MODULE DeadlockPreventer -------------------------
(***************************************************************************)
(* core/scheduling/deadlock_prevention.py: single-holder corridor segments *)
(* and the wait-for graph that refuses a wait before it closes a ring.     *)
(* The class has no caller but its tests: the environment may call any     *)
(* public method with any robot and segment, in any order.                 *)
(*                                                                         *)
(* `_Allocation.holder` repeats `_holders` and is not kept twice;          *)
(* `_Allocation.waiters` is `waiters`.  A call that only answers (an       *)
(* acquire of a held segment, a refused wait) changes nothing and is a     *)
(* stuttering step.                                                        *)
(***************************************************************************)
EXTENDS FiniteSets

CONSTANTS Robot, Segment, None

ASSUME NoneAssumption == None \notin Robot \cup Segment
ASSUME RobotAssumption == IsFiniteSet(Robot)

VARIABLES
  holder,    \* _holders:  segment -> robot or None
  holds,     \* _holds:    robot -> the segments it holds
  waiting,   \* _waiting:  robot -> the one segment it waits for, or None
  waiters    \* _alloc[s].waiters: segment -> robots listed as waiting for it

vars == <<holder, holds, waiting, waiters>>

TypeOK ==
  /\ holder \in [Segment -> Robot \cup {None}]
  /\ holds \in [Robot -> SUBSET Segment]
  /\ waiting \in [Robot -> Segment \cup {None}]
  /\ waiters \in [Segment -> SUBSET Robot]

Init ==
  /\ holder = [s \in Segment |-> None]
  /\ holds = [r \in Robot |-> {}]
  /\ waiting = [r \in Robot |-> None]
  /\ waiters = [s \in Segment |-> {}]

-----------------------------------------------------------------------------
(* The graph: r -> the holder of the segment that r waits for in w.        *)

Hop(r, w) == IF w[r] = None THEN None ELSE holder[w[r]]

\* mutant: the hop to a robot whose colour is already set is not a back edge
HasCycleBlind(start, w) ==
  LET dfs[gray \in SUBSET Robot] ==
        [u \in Robot |->
           LET nxt == Hop(u, w) IN
           /\ nxt # None
           /\ nxt = u \/ (nxt \notin gray /\ dfs[gray \cup {nxt}][nxt])]
  IN dfs[{start}][start]

\* _has_cycle: depth-first walk from u; reaching a node of the stack is a back edge.
HasCycle(start, w) ==
  LET dfs[gray \in SUBSET Robot] ==
        [u \in Robot |->
           LET nxt == Hop(u, w) IN
           /\ nxt # None
           /\ nxt \in gray \/ dfs[gray \cup {nxt}][nxt]]
  IN dfs[{start}][start]

\* mutant: only the direct two-robot swap is refused
WouldDeadlockSwapOnly(r, s) ==
  /\ holder[s] \notin {None, r}
  /\ Hop(holder[s], waiting) = r

(* would_deadlock: r's temporary edge to s makes the walk from r endless,  *)
(* that is, r belongs to a set of robots each of which waits for a member. *)
WouldDeadlock(r, s) ==
  LET w == [waiting EXCEPT ![r] = s] IN
  /\ holder[s] \notin {None, r}
  /\ \E S \in SUBSET Robot : r \in S /\ \A q \in S : Hop(q, w) \in S

-----------------------------------------------------------------------------
\* mutant: the grant is not entered in the robot's own set
AcquireUnlisted(r, s) ==
  /\ holder[s] = None
  /\ holder' = [holder EXCEPT ![s] = r]
  /\ UNCHANGED <<holds, waiting, waiters>>

\* acquire: a free segment is granted; a wait for that very segment is over.
Acquire(r, s) ==
  /\ holder[s] = None
  /\ holder' = [holder EXCEPT ![s] = r]
  /\ holds' = [holds EXCEPT ![r] = @ \cup {s}]
  /\ waiting' = [waiting EXCEPT ![r] = IF @ = s THEN None ELSE @]
  /\ waiters' = [waiters EXCEPT ![s] = IF waiting[r] = s THEN @ \ {r} ELSE @]

\* mutant: the waiters of the released segment keep their edges
ReleaseKeepsWaiters(r, s) ==
  /\ holder[s] = r
  /\ holder' = [holder EXCEPT ![s] = None]
  /\ holds' = [holds EXCEPT ![r] = @ \ {s}]
  /\ UNCHANGED <<waiting, waiters>>

\* release: only by the holder; every wait registered on s is dropped with it.
Release(r, s) ==
  /\ holder[s] = r
  /\ holder' = [holder EXCEPT ![s] = None]
  /\ holds' = [holds EXCEPT ![r] = @ \ {s}]
  /\ waiting' = [q \in Robot |->
       IF q \in waiters[s] /\ waiting[q] = s THEN None ELSE waiting[q]]
  /\ waiters' = [waiters EXCEPT ![s] = {}]

(* may_wait, the branch that registers the edge.  An older wait of r is    *)
(* overwritten, but r stays listed under the segment it waited for before. *)
MayWait(r, s) ==
  /\ holder[s] \notin {None, r}
  /\ ~ WouldDeadlock(r, s)
  /\ waiting' = [waiting EXCEPT ![r] = s]
  /\ waiters' = [waiters EXCEPT ![s] = @ \cup {r}]
  /\ UNCHANGED <<holder, holds>>

\* clear_wait / _clear_wait: the robot took another way.
ClearWait(r) ==
  /\ waiting[r] # None
  /\ waiting' = [waiting EXCEPT ![r] = None]
  /\ waiters' = [waiters EXCEPT ![waiting[r]] = @ \ {r}]
  /\ UNCHANGED <<holder, holds>>

Next ==
  \/ \E r \in Robot, s \in Segment :
       Acquire(r, s) \/ Release(r, s) \/ MayWait(r, s)
  \/ \E r \in Robot : ClearWait(r)

Spec == Init /\ [][Next]_vars

(* A robot that is not blocked drives on and leaves each segment it holds. *)
(* Strong fairness: it may start waiting again in between.  Nothing is     *)
(* assumed of the waiting robots themselves: they may never change course. *)
RobotsDriveOn ==
  \A r \in Robot, s \in Segment :
    SF_vars(waiting[r] = None /\ Release(r, s))

FairSpec == Spec /\ RobotsDriveOn

-----------------------------------------------------------------------------
\* Every member of S waits for a segment that a member of S holds.
Ring(S) ==
  /\ S # {}
  /\ \A r \in S : waiting[r] # None /\ holder[waiting[r]] \in S

(* No set of robots ever waits in a ring, whatever the order of grants,    *)
(* releases, overwritten waits and detours: may_wait refuses the last edge *)
(* and no other method can close a ring behind its back.                   *)
NoDeadlock == \A S \in SUBSET Robot : ~ Ring(S)

(* The two indexes of the allocation, robot by segment and segments by     *)
(* robot, always tell the same story, so releasing by one is enough.       *)
HoldsMirror == \A r \in Robot, s \in Segment : s \in holds[r] <=> holder[s] = r

(* Every recorded wait is for a segment some other robot holds now, and is *)
(* listed where release will look for it: no wait survives its segment.    *)
WaitsAreLive ==
  \A r \in Robot : waiting[r] # None =>
    /\ holder[waiting[r]] \notin {None, r}
    /\ r \in waiters[waiting[r]]

(* The depth-first walk of the code and the definition of a ring agree on  *)
(* every question may_wait can ask, overwritten waits included.            *)
WalkIsExact ==
  \A r \in Robot, s \in Segment :
    holder[s] \notin {None, r} =>
      (HasCycle(r, [waiting EXCEPT ![r] = s]) <=> WouldDeadlock(r, s))

\* No waiting robot replaces its wait by another one in this step.
NoHop == \A r \in Robot : waiting[r] # None => waiting'[r] \in {None, waiting[r]}

(* If robots that are not blocked keep driving, no wait for a segment      *)
(* lasts forever, although the waiting robots need do nothing about it:    *)
(* the waits may_wait has let in are all served.  A robot that hops from   *)
(* one wait to the next forever, never unblocked, would starve the others  *)
(* behind it; the antecedent excludes that.                                *)
WaitersDrain ==
  <>[][NoHop]_vars =>
    \A r \in Robot, s \in Segment : waiting[r] = s ~> waiting[r] # s

IInv == TypeOK /\ HoldsMirror /\ WaitsAreLive /\ NoDeadlock
=============================================================================
