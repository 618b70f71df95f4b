---------------------- MODULE DeadlockPreventerProofs ----------------------
(***************************************************************************)
(* For any set of robots and segments: the wait-for graph of the           *)
(* DeadlockPreventer stays free of rings.                                  *)
(*                                                                         *)
(* NoDeadlock is not inductive alone.  A grant could close a ring if some  *)
(* robot waited for a free segment, and a release could leave such a wait  *)
(* behind; WaitsAreLive excludes both, and is itself kept only because     *)
(* every waiter is listed where release looks for it.                      *)
(*                                                                         *)
(* The depth-first walk needs none of this: it is exact in any graph of    *)
(* waits.  Its recursion has one solution, because every call adds a robot *)
(* to the stack, and the sets that no step leaves are a solution.          *)
(***************************************************************************)
EXTENDS DeadlockPreventer, FiniteSetTheorems, WellFoundedInduction, TLAPS

\* A segment has one holder or none, and a robot a set of segments: a grant and a
\* release replace one entry of each index, a wait touches neither.
LEMMA AllocationTyped ==
  ASSUME TypeOK, NEW r \in Robot, NEW s \in Segment,
         Acquire(r, s) \/ Release(r, s) \/ MayWait(r, s)
  PROVE  holder' \in [Segment -> Robot \cup {None}] /\ holds' \in [Robot -> SUBSET Segment]
<1>1. ASSUME MayWait(r, s) PROVE UNCHANGED <<holder, holds>>
  BY <1>1 DEF MayWait
<1>2. ASSUME ~MayWait(r, s)
      PROVE  \E h \in {r, None}, X \in {holds[r] \cup {s}, holds[r] \ {s}} :
               holder' = [holder EXCEPT ![s] = h] /\ holds' = [holds EXCEPT ![r] = X]
  BY <1>2 DEF Acquire, Release
<1> QED BY <1>1, <1>2 DEF TypeOK

\* The same of the waits: a robot waits for one segment at most, and the segment lists robots.
LEMMA WaitsTyped ==
  ASSUME TypeOK, NEW r \in Robot, NEW s \in Segment,
         Acquire(r, s) \/ Release(r, s) \/ MayWait(r, s)
  PROVE  waiting' \in [Robot -> Segment \cup {None}] /\ waiters' \in [Segment -> SUBSET Robot]
<1> USE DEF TypeOK
<1>a. CASE Acquire(r, s)
  BY <1>a DEF Acquire
<1>r. CASE Release(r, s)
  BY <1>r DEF Release
<1>w. CASE MayWait(r, s)
  BY <1>w DEF MayWait
<1> QED BY <1>a, <1>r, <1>w

\* A detour takes one robot out of both indexes of the waits.
LEMMA DetourTyped ==
  ASSUME TypeOK, NEW r \in Robot, ClearWait(r)
  PROVE  TypeOK'
BY DEF ClearWait, TypeOK

\* Both indexes of the allocation and both of the waits keep their types.
THEOREM TypeCorrect == Spec => []TypeOK
<1>init. Init => TypeOK
  BY DEF Init, TypeOK
<1>step. TypeOK /\ Next => TypeOK'
  BY AllocationTyped, WaitsTyped, DetourTyped DEF Next, TypeOK
<1>stutter. TypeOK /\ UNCHANGED vars => TypeOK'
  BY DEF vars, TypeOK
<1> QED BY <1>init, <1>step, <1>stutter, PTL DEF Spec

-----------------------------------------------------------------------------
(* One lemma per action: what it does to the three parts of IInv that are  *)
(* not types.                                                              *)

\* A grant moves no wait to another segment, so it closes no ring.
LEMMA AcquirePreserves ==
  ASSUME IInv, NEW r \in Robot, NEW s \in Segment, Acquire(r, s)
  PROVE  HoldsMirror' /\ WaitsAreLive' /\ NoDeadlock'
<1> USE NoneAssumption DEF IInv, TypeOK
<1>1. HoldsMirror'
  BY DEF Acquire, HoldsMirror
<1>2. \A q \in Robot : waiting[q] # s
  BY DEF Acquire, WaitsAreLive
<1>3. UNCHANGED <<waiting, waiters>>
  BY <1>2 DEF Acquire
<1>4. \A q \in Robot : waiting[q] # None => holder'[waiting[q]] = holder[waiting[q]]
  BY <1>2 DEF Acquire
<1>5. WaitsAreLive'
  BY <1>3, <1>4 DEF WaitsAreLive
<1>6. NoDeadlock'
  <2> SUFFICES ASSUME NEW S \in SUBSET Robot, Ring(S)' PROVE FALSE
    BY DEF NoDeadlock
  <2>1. Ring(S)
    BY <1>3, <1>4 DEF Ring
  <2>2. QED
    BY <2>1 DEF NoDeadlock
<1>7. QED
  BY <1>1, <1>5, <1>6

\* A release drops every wait on its segment and touches no other.
LEMMA ReleasePreserves ==
  ASSUME IInv, NEW r \in Robot, NEW s \in Segment, Release(r, s)
  PROVE  HoldsMirror' /\ WaitsAreLive' /\ NoDeadlock'
<1> USE NoneAssumption DEF IInv, TypeOK
<1>1. HoldsMirror'
  BY DEF Release, HoldsMirror
<1>2. \A q \in Robot : waiting'[q] # None =>
        /\ waiting'[q] = waiting[q]
        /\ waiting[q] # s
        /\ holder'[waiting[q]] = holder[waiting[q]]
        /\ waiters'[waiting[q]] = waiters[waiting[q]]
  BY DEF Release, WaitsAreLive
<1>3. WaitsAreLive'
  BY <1>2 DEF WaitsAreLive
<1>4. NoDeadlock'
  <2> SUFFICES ASSUME NEW S \in SUBSET Robot, Ring(S)' PROVE FALSE
    BY DEF NoDeadlock
  <2>1. Ring(S)
    BY <1>2 DEF Ring
  <2>2. QED
    BY <2>1 DEF NoDeadlock
<1>5. QED
  BY <1>1, <1>3, <1>4

\* A ring through the new edge is exactly what would_deadlock refused.
LEMMA MayWaitPreserves ==
  ASSUME IInv, NEW r \in Robot, NEW s \in Segment, MayWait(r, s)
  PROVE  HoldsMirror' /\ WaitsAreLive' /\ NoDeadlock'
<1> USE NoneAssumption DEF IInv, TypeOK
<1>1. HoldsMirror'
  BY DEF MayWait, HoldsMirror
<1>2. WaitsAreLive'
  BY DEF MayWait, WaitsAreLive
<1>3. NoDeadlock'
  <2> SUFFICES ASSUME NEW S \in SUBSET Robot, Ring(S)' PROVE FALSE
    BY DEF NoDeadlock
  <2>1. CASE r \in S
    <3>1. \A q \in S : Hop(q, [waiting EXCEPT ![r] = s]) \in S
      BY DEF Ring, Hop, MayWait
    <3>2. WouldDeadlock(r, s)
      BY <2>1, <3>1 DEF WouldDeadlock, MayWait
    <3>3. QED
      BY <3>2 DEF MayWait
  <2>2. CASE r \notin S
    <3>1. Ring(S)
      BY <2>2 DEF Ring, MayWait
    <3>2. QED
      BY <3>1 DEF NoDeadlock
  <2>3. QED
    BY <2>1, <2>2
<1>4. QED
  BY <1>1, <1>2, <1>3

\* A detour only removes an edge.
LEMMA ClearWaitPreserves ==
  ASSUME IInv, NEW r \in Robot, ClearWait(r)
  PROVE  HoldsMirror' /\ WaitsAreLive' /\ NoDeadlock'
<1> USE NoneAssumption DEF IInv, TypeOK
<1>1. HoldsMirror'
  BY DEF ClearWait, HoldsMirror
<1>2. WaitsAreLive'
  BY DEF ClearWait, WaitsAreLive
<1>3. NoDeadlock'
  <2> SUFFICES ASSUME NEW S \in SUBSET Robot, Ring(S)' PROVE FALSE
    BY DEF NoDeadlock
  <2>1. Ring(S)
    BY DEF Ring, ClearWait
  <2>2. QED
    BY <2>1 DEF NoDeadlock
<1>4. QED
  BY <1>1, <1>2, <1>3

\* The inductive invariant of the specification.
THEOREM Inductive == Spec => []IInv
<1>1. Init => IInv
  BY NoneAssumption DEF Init, IInv, TypeOK, HoldsMirror, WaitsAreLive, NoDeadlock, Ring
<1>2. IInv /\ TypeOK' /\ [Next]_vars => IInv'
  <2> SUFFICES ASSUME IInv, TypeOK', [Next]_vars PROVE IInv'
    OBVIOUS
  <2>1. ASSUME Next PROVE HoldsMirror' /\ WaitsAreLive' /\ NoDeadlock'
    BY <2>1, AcquirePreserves, ReleasePreserves, MayWaitPreserves, ClearWaitPreserves
       DEF Next
  <2>2. CASE UNCHANGED vars
    BY <2>2 DEF vars, IInv, TypeOK, HoldsMirror, WaitsAreLive, NoDeadlock, Ring
  <2>3. QED
    BY <2>1, <2>2 DEF IInv
<1>3. QED
  BY <1>1, <1>2, TypeCorrect, PTL DEF Spec

\* No set of robots ever waits in a ring, however many robots and segments.
THEOREM DeadlockFree == Spec => []NoDeadlock
<1>1. IInv => NoDeadlock
  BY DEF IInv
<1>2. QED
  BY <1>1, Inductive, PTL

\* Both indexes of the allocation agree, and no wait outlives its segment.
THEOREM AllocationConsistent == Spec => [](HoldsMirror /\ WaitsAreLive)
<1>1. IInv => HoldsMirror /\ WaitsAreLive
  BY DEF IInv
<1>2. QED
  BY <1>1, Inductive, PTL

\* A robot waits only for a segment that somebody holds, and is listed there: nobody
\* is left waiting for a release that has already happened.
THEOREM WaitsStayLive == Spec => []WaitsAreLive
<1>1. IInv => WaitsAreLive
  BY DEF IInv
<1>2. QED
  BY <1>1, Inductive, PTL

-----------------------------------------------------------------------------
(* The walk.                                                               *)

\* From u the walk in w comes back to a robot it has seen, or to one of gray: u is in a
\* set that no step of the walk leaves but to gray.
Endless(w, u, gray) ==
  \E T \in SUBSET Robot : u \in T /\ \A q \in T : Hop(q, w) \in T \cup gray

\* Endless says of itself what dfs is defined by, so one function at least is a dfs.
LEMMA EndlessStep ==
  ASSUME NEW w, \A q \in Robot : Hop(q, w) \in Robot \cup {None},
         NEW u \in Robot, NEW gray \in SUBSET Robot
  PROVE  Endless(w, u, gray) <=>
           /\ Hop(u, w) # None
           /\ Hop(u, w) \in gray \/ Endless(w, Hop(u, w), gray \cup {Hop(u, w)})
<1>0. None \notin Robot
  BY NoneAssumption
<1>1. ASSUME Endless(w, u, gray)
      PROVE  /\ Hop(u, w) # None
             /\ Hop(u, w) \in gray \/ Endless(w, Hop(u, w), gray \cup {Hop(u, w)})
  BY <1>0, <1>1 DEF Endless
<1>2. ASSUME Hop(u, w) \in gray PROVE Endless(w, u, gray)
  <2>1. {u} \in SUBSET Robot /\ u \in {u} /\ \A q \in {u} : Hop(q, w) \in {u} \cup gray
    BY <1>2
  <2> QED BY <2>1 DEF Endless
<1>3. ASSUME Endless(w, Hop(u, w), gray \cup {Hop(u, w)}) PROVE Endless(w, u, gray)
  <2>1. PICK T \in SUBSET Robot :
          Hop(u, w) \in T /\ \A q \in T : Hop(q, w) \in T \cup (gray \cup {Hop(u, w)})
    BY <1>3 DEF Endless
  <2>2. T \cup {u} \in SUBSET Robot /\ \A q \in T \cup {u} : Hop(q, w) \in (T \cup {u}) \cup gray
    BY <2>1
  <2> QED BY <2>2 DEF Endless
<1> QED BY <1>1, <1>2, <1>3

\* What the definition of dfs in HasCycle makes of a function f.
Dfs(f, w) ==
  [gray \in SUBSET Robot |->
     [u \in Robot |-> /\ Hop(u, w) # None
                      /\ Hop(u, w) \in gray \/ f[gray \cup {Hop(u, w)}][Hop(u, w)]]]

\* Endless, as a function, solves the recursion.
LEMMA EndlessIsDfs ==
  ASSUME NEW w, \A q \in Robot : Hop(q, w) \in Robot \cup {None}, NEW F,
         F = [gray \in SUBSET Robot |-> [u \in Robot |-> Endless(w, u, gray)]]
  PROVE  F = Dfs(F, w)
<1>1. ASSUME NEW gray \in SUBSET Robot, NEW u \in Robot
      PROVE  Endless(w, u, gray) =
               (/\ Hop(u, w) # None
                /\ Hop(u, w) \in gray \/ F[gray \cup {Hop(u, w)}][Hop(u, w)])
  <2>0. Endless(w, u, gray) \in BOOLEAN
    BY DEF Endless
  <2>1. CASE Hop(u, w) = None
    BY <2>0, <2>1, EndlessStep
  <2>2. CASE Hop(u, w) # None
    <3>1. F[gray \cup {Hop(u, w)}][Hop(u, w)] = Endless(w, Hop(u, w), gray \cup {Hop(u, w)})
      <4>1. gray \cup {Hop(u, w)} \in SUBSET Robot /\ Hop(u, w) \in Robot
        BY <2>2
      <4> QED BY <4>1
    <3>2. Endless(w, u, gray) <=> Hop(u, w) \in gray \/ Endless(w, Hop(u, w), gray \cup {Hop(u, w)})
      BY <2>2, EndlessStep
    <3> HIDE DEF Endless
    <3> QED BY <2>0, <2>2, <3>1, <3>2
  <2> QED BY <2>1, <2>2
<1> DEFINE Row(gray) == [u \in Robot |-> Endless(w, u, gray)]
           Unfolded(gray) ==
             [u \in Robot |->
                /\ Hop(u, w) # None
                /\ Hop(u, w) \in gray \/ F[gray \cup {Hop(u, w)}][Hop(u, w)]]
<1>2. ASSUME NEW gray \in SUBSET Robot PROVE Row(gray) = Unfolded(gray)
  BY <1>1, Zenon
<1>3. F = [gray \in SUBSET Robot |-> Row(gray)]
  OBVIOUS
<1>4. Dfs(F, w) = [gray \in SUBSET Robot |-> Unfolded(gray)]
  BY Zenon DEF Dfs
<1> HIDE DEF Row, Unfolded
<1> QED BY <1>2, <1>3, <1>4

\* There is no other solution: where two differ they differ with one robot more in gray,
\* and there are finitely many robots.
LEMMA DfsIsEndless ==
  ASSUME NEW w, \A q \in Robot : Hop(q, w) \in Robot \cup {None}, NEW f, f = Dfs(f, w),
         NEW gray \in SUBSET Robot, NEW u \in Robot
  PROVE  f[gray][u] <=> Endless(w, u, gray)
<1> DEFINE Left(g) == Cardinality(Robot \ g)
           Bad == {g \in SUBSET Robot : \E v \in Robot : ~(f[g][v] <=> Endless(w, v, g))}
           Sizes == {Left(g) : g \in Bad}
<1>1. ASSUME NEW g \in SUBSET Robot
      PROVE  Left(g) \in Nat /\ \A v \in Robot \ g : Left(g \cup {v}) < Left(g)
  <2>1. IsFiniteSet(Robot \ g) /\ Left(g) \in Nat
    BY RobotAssumption, FS_Subset, FS_CardinalityType
  <2>2. ASSUME NEW v \in Robot \ g PROVE Left(g \cup {v}) < Left(g)
    <3>1. Robot \ (g \cup {v}) = (Robot \ g) \ {v}
      OBVIOUS
    <3>2. Cardinality((Robot \ g) \ {v}) = Cardinality(Robot \ g) - 1
      BY <2>1, FS_RemoveElement
    <3> QED BY <2>1, <3>1, <3>2
  <2> QED BY <2>1, <2>2
<1>2. SUFFICES ASSUME Bad # {} PROVE FALSE
  OBVIOUS
<1>3. Sizes \in SUBSET Nat /\ Sizes # {}
  BY <1>1, <1>2
<1>4. PICK n \in Sizes : \A m \in Sizes : ~(<<m, n>> \in OpToRel(<, Nat))
  BY <1>3, NatLessThanWellFounded, WFMin
<1>5. PICK g \in Bad : n = Left(g)
  OBVIOUS
<1>6. PICK v \in Robot : ~(f[g][v] <=> Endless(w, v, g))
  BY <1>5
<1>7. f[g][v] = (Hop(v, w) # None /\ (Hop(v, w) \in g \/ f[g \cup {Hop(v, w)}][Hop(v, w)]))
  <2>1. f[g] = Dfs(f, w)[g]
    OBVIOUS
  <2>2. Dfs(f, w)[g] =
          [q \in Robot |-> /\ Hop(q, w) # None
                           /\ Hop(q, w) \in g \/ f[g \cup {Hop(q, w)}][Hop(q, w)]]
    BY <1>5 DEF Dfs
  <2> QED BY <1>6, <2>1, <2>2
<1>8. Endless(w, v, g) <=>
        /\ Hop(v, w) # None
        /\ Hop(v, w) \in g \/ Endless(w, Hop(v, w), g \cup {Hop(v, w)})
  BY <1>5, <1>6, EndlessStep
<1>9. /\ Hop(v, w) \in Robot \ g
      /\ ~(f[g \cup {Hop(v, w)}][Hop(v, w)] <=> Endless(w, Hop(v, w), g \cup {Hop(v, w)}))
  BY <1>6, <1>7, <1>8
<1>10. g \cup {Hop(v, w)} \in Bad /\ Left(g \cup {Hop(v, w)}) < Left(g)
  BY <1>1, <1>5, <1>9
<1>11. Left(g \cup {Hop(v, w)}) \in Sizes /\ Left(g) \in Nat /\ Left(g \cup {Hop(v, w)}) \in Nat
  BY <1>1, <1>10
<1> QED BY <1>4, <1>5, <1>10, <1>11 DEF OpToRel

\* The walk of _has_cycle finds a ring exactly if would_deadlock's definition does.
LEMMA WalkFindsRings == TypeOK => WalkIsExact
<1> SUFFICES ASSUME TypeOK, NEW r \in Robot, NEW s \in Segment, holder[s] \notin {None, r}
             PROVE  HasCycle(r, [waiting EXCEPT ![r] = s]) <=> WouldDeadlock(r, s)
  BY DEF WalkIsExact
<1> DEFINE w == [waiting EXCEPT ![r] = s]
           F == [gray \in SUBSET Robot |-> [u \in Robot |-> Endless(w, u, gray)]]
           f == CHOOSE g : g = Dfs(g, w)
<1>1. \A q \in Robot : Hop(q, w) \in Robot \cup {None}
  BY NoneAssumption DEF TypeOK, Hop
<1>2. HasCycle(r, w) = f[{r}][r]
  BY DEF HasCycle, Dfs
<1> HIDE DEF w
<1>3. F = Dfs(F, w)
  BY <1>1, EndlessIsDfs
<1> HIDE DEF F
<1>4. f = Dfs(f, w)
  BY <1>3
<1> HIDE DEF f
<1>5. f[{r}][r] <=> Endless(w, r, {r})
  BY <1>1, <1>4, DfsIsEndless
<1>6. Endless(w, r, {r}) <=> \E S \in SUBSET Robot : r \in S /\ \A q \in S : Hop(q, w) \in S
  <2>1. \A S \in SUBSET Robot : r \in S => S \cup {r} = S
    OBVIOUS
  <2> QED BY <2>1 DEF Endless
<1>7. WouldDeadlock(r, s) <=> \E S \in SUBSET Robot : r \in S /\ \A q \in S : Hop(q, w) \in S
  BY DEF WouldDeadlock, w
<1> QED BY <1>2, <1>5, <1>6, <1>7 DEF w

\* Whatever grants, releases and waits came before: the depth-first walk refuses a wait
\* if and only if it would close a ring, for any finite set of robots.
THEOREM WalkDecides == Spec => []WalkIsExact
BY WalkFindsRings, TypeCorrect, PTL
=============================================================================
