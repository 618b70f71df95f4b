------------------------- MODULE CoordinatorProofs --------------------------
(***************************************************************************)
(* For every fleet, every set of orders and every route: what the platform *)
(* does with the copies of a task, with the path a robot is held to, and   *)
(* with a robot that fell silent.                                          *)
(***************************************************************************)
EXTENDS Coordinator, FiniteSetTheorems, TLAPS

-----------------------------------------------------------------------------
\* Two finite sets without a common member are counted one after the other.
LEMMA DisjointCount ==
  ASSUME NEW S, NEW T, IsFiniteSet(S), IsFiniteSet(T), S \cap T = {}
  PROVE  /\ IsFiniteSet(S \cup T)
         /\ Cardinality(S \cup T) = Cardinality(S) + Cardinality(T)
<1>1. Cardinality(S \cap T) = 0
  BY FS_EmptySet
<1>2. Cardinality(S) \in Nat /\ Cardinality(T) \in Nat
  BY FS_CardinalityType
<1>3. Cardinality(S \cup T) = Cardinality(S) + Cardinality(T) - Cardinality(S \cap T)
  BY FS_Union
<1>4. IsFiniteSet(S \cup T)
  BY FS_Union
<1>5. QED
  BY <1>1, <1>2, <1>3, <1>4

\* _requeue_task keeps or drops each of n copies, and drops those that come back past the limit.
LEMMA RequeueCounts ==
  ASSUME NEW tried \in Nat, NEW n \in Nat
  PROVE  /\ Kept(tried, n) \in Nat /\ Dropped(tried, n) \in Nat
         /\ Kept(tried, n) + Dropped(tried, n) = n
         /\ Tried(tried, n) \in Nat
         /\ \A f \in Nat : tried < MaxRetries + f =>
              Tried(tried, n) < MaxRetries + f + Dropped(tried, n)
<1> DEFINE K == {i \in 1..n : tried + i < MaxRetries}
           D == {i \in 1..n : tried + i >= MaxRetries}
<1>1. IsFiniteSet(1..n) /\ Cardinality(1..n) = n
  BY FS_Interval
<1>2. IsFiniteSet(K) /\ IsFiniteSet(D)
  BY <1>1, FS_Subset
<1>3. Cardinality(K) \in Nat /\ Cardinality(D) \in Nat
  BY <1>2, FS_CardinalityType
<1>4. K \cup D = 1..n /\ K \cap D = {}
  BY OrderAssumption
<1>5. Cardinality(K \cup D) = n
  BY <1>1, <1>4
<1>6. Cardinality(K \cup D) = Cardinality(K) + Cardinality(D)
  <2> HIDE DEF K, D
  <2> QED
    BY <1>2, <1>4, DisjointCount
<1>7. Cardinality(K) + Cardinality(D) = n
  BY <1>5, <1>6
<1>8. ASSUME NEW f \in Nat, tried < MaxRetries + f
      PROVE  tried + n < MaxRetries + f + Cardinality(D)
  <2>1. CASE tried >= MaxRetries
    <3>1. D = 1..n
      BY <2>1, OrderAssumption
    <3>2. Cardinality(D) = n
      BY <1>1, <3>1
    <3> HIDE DEF D
    <3>3. QED
      BY <1>8, <3>2, OrderAssumption
  <2>2. CASE tried < MaxRetries /\ tried + n >= MaxRetries
    <3> DEFINE first == MaxRetries - tried
    <3>1. D = first..n /\ first \in Int /\ first <= n
      BY <2>2, OrderAssumption
    <3>2. Cardinality(D) = n - first + 1
      <4> HIDE DEF first, D
      <4> QED
        BY <3>1, FS_Interval
    <3> HIDE DEF D
    <3>3. QED
      BY <3>2, OrderAssumption
  <2>3. CASE tried + n < MaxRetries
    <3> HIDE DEF D
    <3> QED
      BY <1>3, <2>3, OrderAssumption
  <2>4. QED
    BY <2>1, <2>2, <2>3, OrderAssumption
<1>9. QED
  BY <1>3, <1>7, <1>8 DEF Kept, Dropped, Tried

\* The ends of a path of at least one lane are a path with the same ends.
LEMMA EndsOfEnds ==
  ASSUME NEW p \in Seq(Lane), p # <<>>
  PROVE  /\ Ends(p) \in Seq(Lane) /\ Ends(p) # <<>> /\ Len(Ends(p)) = 2
         /\ Ends(Ends(p)) = Ends(p)
  BY DEF Ends, LastOf

\* Every path an assignment may have is a sequence of at least one lane.
LEMMA PathsAreLanes ==
  ASSUME NEW t \in Task, NEW p \in PathOf(t)
  PROVE  p \in Seq(Lane) /\ p # <<>> /\ Len(p) \in Nat \ {0} /\ p \in Path
<1>1. \A q \in Route(t) : q \in Seq(Lane) /\ q # <<>>
  BY RouteAssumption DEF Route
<1>2. p \in Seq(Lane) /\ p # <<>>
  BY <1>1, EndsOfEnds DEF PathOf
<1>3. QED
  BY <1>2 DEF Path

\* _build_assignment stays among the paths of its task.
LEMMA PathForIsAPath ==
  ASSUME NEW t \in Task, NEW from \in PathOf(t), NEW block
  PROVE  PathFor(t, from, block) \in PathOf(t)
<1>1. Ends(from) \in PathOf(t)
  <2>1. CASE from \in Route(t)
    BY <2>1 DEF PathOf
  <2>2. CASE \E p \in Route(t) : from = Ends(p)
    <3>1. PICK p \in Route(t) : from = Ends(p)
      BY <2>2
    <3>2. p \in Seq(Lane) /\ p # <<>>
      BY RouteAssumption DEF Route
    <3>3. QED
      BY <3>1, <3>2, EndsOfEnds DEF PathOf
  <2>3. QED
    BY <2>1, <2>2 DEF PathOf
<1>2. QED
  BY <1>1 DEF PathFor, PathOf, Route

-----------------------------------------------------------------------------
\* The types without the bound on the counters, which rests on Conservation.
Typed ==
  /\ queue \in [Task -> Nat]
  /\ retries \in [Task -> Nat]
  /\ status \in [Order -> {"NONE", "PLANNED", "EXECUTING", "COMPLETED", "FAILED"}]
  /\ completion \subseteq Task
  /\ completed \in [Task -> Nat] /\ failed \in [Task -> Nat] /\ cancelled \in [Task -> Nat]
  /\ submitted \in [Order -> 0..MaxSubmits]
  /\ active \in [Robot -> Assignment \cup {None}]
  /\ contract \in [Robot -> Contract]
  /\ blocked \subseteq Lane /\ open \subseteq Robot /\ banned \subseteq Robot
  /\ health \in [Robot -> Health]

\* Every assignment leads along a path its task may have.
OnARoute == \A r \in Busy : active[r].path \in PathOf(active[r].task)

(* The copies of a task that are queued, on a robot or failed, before and  *)
(* after a step; its count is not past what the failed log accounts for.   *)
Recounted ==
  \A t \in Task :
    /\ queue'[t] \in Nat /\ failed'[t] \in Nat /\ failed'[t] >= failed[t]
    /\ retries[t] < MaxRetries + failed[t] => retries'[t] < MaxRetries + failed'[t]
    /\ queue'[t] + Cardinality(Holders(Robot, t)') + failed'[t] =
         queue[t] + Cardinality(Holders(Robot, t)) + failed[t]

\* The robots that hold a task are finitely many.
LEMMA HoldersAreFinite ==
  ASSUME NEW t, NEW R
  PROVE  /\ Holders(R, t) \subseteq Robot /\ IsFiniteSet(Holders(R, t))
         /\ Cardinality(Holders(R, t)) \in Nat
         /\ Cardinality(Holders(R, t)) = 0 <=> Holders(R, t) = {}
<1>1. Holders(R, t) \subseteq Robot
  BY DEF Holders, Busy
<1>2. IsFiniteSet(Holders(R, t))
  BY <1>1, FleetAssumption, FS_Subset
<1>3. QED
  BY <1>1, <1>2, FS_CardinalityType, FS_EmptySet

\* ... and after a step.
LEMMA HoldersStayFinite ==
  ASSUME NEW t
  PROVE  /\ IsFiniteSet(Holders(Robot, t)')
         /\ Cardinality(Holders(Robot, t)') \in Nat
         /\ Cardinality(Holders(Robot, t)') = 0 <=> Holders(Robot, t)' = {}
<1>1. Holders(Robot, t)' \subseteq Robot
  BY DEF Holders, Busy
<1>2. IsFiniteSet(Holders(Robot, t)')
  BY <1>1, FleetAssumption, FS_Subset
<1>3. QED
  BY <1>2, FS_CardinalityType, FS_EmptySet

\* The robots in Lost give their tasks up, those in Given get one, the others keep theirs.
Exchange(Lost, Given) ==
  /\ Lost \in SUBSET Busy /\ Given \in SUBSET Robot /\ Given \cap Busy = {}
  /\ \A r \in Given : active'[r] # None
  /\ \A r \in Lost : active'[r] = None
  /\ \A r \in Robot \ (Lost \cup Given) :
       /\ active'[r] = None <=> active[r] = None
       /\ active[r] # None => active'[r].task = active[r].task

(* When the robots in Lost give their tasks back and those in Given, which *)
(* had none, get one, the holders of each task change by as many.          *)
LEMMA HoldersAfter ==
  ASSUME Typed, NEW t \in Task, NEW Lost, NEW Given, Exchange(Lost, Given),
         NEW G, G = {r \in Given : active'[r].task = t}
  PROVE  /\ IsFiniteSet(G) /\ Cardinality(G) \in Nat
         /\ Returned(Lost, t) <= Cardinality(Holders(Robot, t))
         /\ Cardinality(Holders(Robot, t)') =
              Cardinality(Holders(Robot, t)) - Returned(Lost, t) + Cardinality(G)
<1> USE DEF Exchange
<1> DEFINE H == Holders(Robot, t)
           B == Holders(Lost, t)
<1>1. IsFiniteSet(H) /\ Cardinality(H) \in Nat /\ IsFiniteSet(B) /\ Cardinality(B) \in Nat
  BY HoldersAreFinite
<1>2. IsFiniteSet(G) /\ Cardinality(G) \in Nat
  BY FleetAssumption, FS_Subset, FS_CardinalityType
<1>3. Holders(Robot, t)' = (H \ B) \cup G
  BY DEF Holders, Busy, Typed
<1>4. (H \ B) \cap G = {} /\ B \subseteq H /\ H \cap B = B
  BY DEF Holders, Busy
<1> HIDE DEF H, B
<1>5. IsFiniteSet(H \ B) /\ Cardinality(H \ B) = Cardinality(H) - Cardinality(H \cap B)
  BY <1>1, FS_Difference
<1>6. Cardinality((H \ B) \cup G) = Cardinality(H \ B) + Cardinality(G)
  BY <1>2, <1>4, <1>5, DisjointCount
<1>7. Cardinality(H \cap B) = Cardinality(B)
  BY <1>4
<1>8. Cardinality(B) <= Cardinality(H)
  BY <1>1, <1>4, FS_Subset
<1>9. Cardinality((H \ B) \cup G) = Cardinality(H) - Cardinality(B) + Cardinality(G)
  BY <1>1, <1>2, <1>5, <1>6, <1>7
<1>10. Cardinality(Holders(Robot, t)') = Cardinality((H \ B) \cup G)
  BY <1>3
<1>11. Cardinality(Holders(Robot, t)') = Cardinality(H) - Cardinality(B) + Cardinality(G)
  BY <1>9, <1>10
<1>12. QED
  BY <1>2, <1>8, <1>11 DEF Returned, H, B

-----------------------------------------------------------------------------
\* The robots in Given, which were free, get a task; those in Lost give theirs back.
HandedOut(Given, Lost) ==
  /\ \A r \in Given :
       /\ Candidate(r) /\ active'[r] \in Assignment
       /\ active'[r].path \in PathOf(active'[r].task)
       /\ contract'[r] = [path |-> active'[r].path, idx |-> 1]
  /\ \A r \in Lost : active'[r] = None
  /\ \A r \in Robot \ (Lost \cup Given) : active'[r] = active[r]
  /\ \A r \in Robot \ Given : contract'[r] = contract[r]

(* What one tick does: robots that are lost give their tasks back, free    *)
(* robots get one and the contract for it, and the rest keeps what it had. *)
LEMMA TickHandsOut ==
  ASSUME Typed, OnARoute, Tick
  PROVE  /\ Recounted
         /\ queue' \in [Task -> Nat] /\ failed' \in [Task -> Nat]
         /\ retries' \in [Task -> Nat]
         /\ active' \in [Robot -> Assignment \cup {None}]
         /\ contract' \in [Robot -> Contract]
         /\ \E Given \in SUBSET Robot, Lost \in SUBSET Busy :
              /\ HandedOut(Given, Lost)
              /\ status' = StatusAfter({t \in Task : failed'[t] # failed[t]},
                                       {active'[r].task : r \in Given})
<1> DEFINE Lost == {r \in Busy : Unavailable(health'[r])}
           back(t) == Returned(Lost, t)
           waiting == [t \in Task |-> queue[t] + Kept(retries[t], back(t))]
           tried == [t \in Task |-> Tried(retries[t], back(t))]
           Free == {r \in Robot : Candidate(r)}
           taken(job, t) == Cardinality({r \in DOMAIN job : job[r] = t})
           left(job, t) == waiting[t] - taken(job, t)
           Giving(job) == {r \in DOMAIN job : job[r] # None}
<1>1. PICK job \in [Free -> Task \cup {None}] :
        /\ \A t \in Task : taken(job, t) > 0 =>
             taken(job, t) <= waiting[t] /\ tried[t] < MaxRetries
        /\ \E path \in [Giving(job) -> Path] :
             /\ \A r \in Giving(job) : \E from \in Route(job[r]) :
                  path[r] = PathFor(job[r], from, blocked)
             /\ active' = [r \in Robot |->
                  IF r \in Giving(job) THEN [task |-> job[r], path |-> path[r]]
                  ELSE IF r \in Lost THEN None ELSE active[r]]
             /\ contract' = [r \in Robot |->
                  IF r \in Giving(job) THEN [path |-> path[r], idx |-> 1]
                  ELSE contract[r]]
        /\ queue' = [t \in Task |-> Kept(tried[t], left(job, t))]
        /\ retries' = [t \in Task |-> Tried(tried[t], left(job, t))]
        /\ failed' = [t \in Task |->
             failed[t] + Dropped(retries[t], back(t)) + Dropped(tried[t], left(job, t))]
        /\ status' = StatusAfter({t \in Task : failed'[t] # failed[t]},
                                 {job[r] : r \in Giving(job)})
  BY DEF Tick
<1> DEFINE Given == Giving(job)
<1>2. PICK path \in [Given -> Path] :
        /\ \A r \in Given : \E from \in Route(job[r]) :
             path[r] = PathFor(job[r], from, blocked)
        /\ active' = [r \in Robot |->
             IF r \in Given THEN [task |-> job[r], path |-> path[r]]
             ELSE IF r \in Lost THEN None ELSE active[r]]
        /\ contract' = [r \in Robot |->
             IF r \in Given THEN [path |-> path[r], idx |-> 1] ELSE contract[r]]
  BY <1>1
<1>3. Given \subseteq Robot /\ Given \cap Busy = {} /\ Lost \subseteq Busy
  BY <1>1 DEF Candidate
<1>4. \A r \in Given : job[r] \in Task /\ path[r] \in PathOf(job[r]) /\ path[r] \in Path
  <2> SUFFICES ASSUME NEW r \in Given
               PROVE  job[r] \in Task /\ path[r] \in PathOf(job[r]) /\ path[r] \in Path
    OBVIOUS
  <2>1. job[r] \in Task
    BY <1>1
  <2>2. PICK from \in Route(job[r]) : path[r] = PathFor(job[r], from, blocked)
    BY <1>2
  <2>3. path[r] \in PathOf(job[r])
    BY <2>1, <2>2, PathForIsAPath DEF PathOf
  <2>4. QED
    BY <2>1, <2>3, PathsAreLanes
<1>5. \A r \in Given :
        /\ active'[r] = [task |-> job[r], path |-> path[r]] /\ active'[r] \in Assignment
        /\ contract'[r] = [path |-> path[r], idx |-> 1] /\ contract'[r] \in Contract
  BY <1>2, <1>3, <1>4 DEF Assignment, Contract
<1>6. \A r \in Given : active'[r].task = job[r] /\ active'[r].path = path[r]
  <2> SUFFICES ASSUME NEW r \in Given
               PROVE  active'[r].task = job[r] /\ active'[r].path = path[r]
    OBVIOUS
  <2>1. active'[r] = [task |-> job[r], path |-> path[r]]
    BY <1>5
  <2>2. QED
    BY <2>1
<1>7. /\ \A r \in Lost : active'[r] = None
      /\ \A r \in Robot \ (Lost \cup Given) : active'[r] = active[r]
      /\ \A r \in Robot \ Given : contract'[r] = contract[r]
  BY <1>2, <1>3 DEF Busy
<1>8. /\ active' \in [Robot -> Assignment \cup {None}]
      /\ contract' \in [Robot -> Contract]
  BY <1>2, <1>3, <1>5, <1>7 DEF Typed, Busy
<1>9. ASSUME NEW t \in Task
      PROVE  /\ Kept(tried[t], left(job, t)) \in Nat
             /\ Tried(tried[t], left(job, t)) \in Nat
             /\ Dropped(retries[t], back(t)) \in Nat
             /\ Dropped(tried[t], left(job, t)) \in Nat
             /\ retries[t] < MaxRetries + failed[t] =>
                  Tried(tried[t], left(job, t)) < MaxRetries + failed[t]
                    + Dropped(retries[t], back(t)) + Dropped(tried[t], left(job, t))
             /\ Kept(tried[t], left(job, t)) + Cardinality(Holders(Robot, t)')
                  + Dropped(retries[t], back(t)) + Dropped(tried[t], left(job, t)) =
                  queue[t] + Cardinality(Holders(Robot, t))
  <2> DEFINE G == {r \in Given : active'[r].task = t}
  <2>1. /\ IsFiniteSet(G) /\ Cardinality(G) \in Nat
        /\ back(t) <= Cardinality(Holders(Robot, t))
        /\ Cardinality(Holders(Robot, t)') =
             Cardinality(Holders(Robot, t)) - back(t) + Cardinality(G)
    <3>1. \A r \in Given : active'[r] # None
      BY <1>5, FleetAssumption
    <3>2. \A r \in Robot \ (Lost \cup Given) :
            /\ active'[r] = None <=> active[r] = None
            /\ active[r] # None => active'[r].task = active[r].task
      BY <1>7
    <3>3. Lost \in SUBSET Busy /\ Given \in SUBSET Robot /\ Given \cap Busy = {}
          /\ \A r \in Lost : active'[r] = None
      BY <1>3, <1>7
    <3>4. G = {r \in Given : active'[r].task = t}
      OBVIOUS
    <3> HIDE DEF Lost, Given, G
    <3>5. Exchange(Lost, Given)
      BY <3>1, <3>2, <3>3 DEF Exchange
    <3>6. QED
      BY <3>4, <3>5, HoldersAfter
  <2>2. taken(job, t) = Cardinality(G)
    <3>1. \A r \in Given : active'[r].task = job[r]
      BY <1>6
    <3>2. DOMAIN job \subseteq Robot /\ t # None
      BY <1>1, FleetAssumption
    <3>3. {r \in DOMAIN job : job[r] = t} = G
      BY <3>1, <3>2
    <3>4. QED
      BY <3>3
  <2>3. back(t) \in Nat
    BY HoldersAreFinite DEF Returned
  <2>4. queue[t] \in Nat /\ retries[t] \in Nat
    BY DEF Typed
  <2>5. /\ Kept(retries[t], back(t)) \in Nat /\ Dropped(retries[t], back(t)) \in Nat
        /\ Kept(retries[t], back(t)) + Dropped(retries[t], back(t)) = back(t)
        /\ Tried(retries[t], back(t)) \in Nat
        /\ \A f \in Nat : retries[t] < MaxRetries + f =>
             Tried(retries[t], back(t)) < MaxRetries + f + Dropped(retries[t], back(t))
    <3> HIDE DEF back
    <3> QED
      BY <2>3, <2>4, RequeueCounts
  <2>6. /\ waiting[t] = queue[t] + Kept(retries[t], back(t)) /\ waiting[t] \in Nat
        /\ tried[t] = Tried(retries[t], back(t)) /\ tried[t] \in Nat
    BY <2>4, <2>5
  <2>7. left(job, t) = waiting[t] - Cardinality(G) /\ left(job, t) \in Nat
    <3>1. taken(job, t) > 0 => taken(job, t) <= waiting[t]
      BY <1>1, Zenon
    <3> HIDE DEF taken, waiting, tried, G
    <3>2. QED
      BY <2>1, <2>2, <2>6, <3>1
  <2>8. Cardinality(Holders(Robot, t)) \in Nat
    BY HoldersAreFinite
  <2> DEFINE n == left(job, t)
             k == Kept(tried[t], n)
             d == Dropped(tried[t], n)
  <2>9. /\ k \in Nat /\ d \in Nat /\ k + d = n
        /\ Tried(tried[t], n) \in Nat
        /\ \A f \in Nat : tried[t] < MaxRetries + f =>
             Tried(tried[t], n) < MaxRetries + f + d
    <3>1. n \in Nat /\ tried[t] \in Nat
      BY <2>6, <2>7
    <3> HIDE DEF n, tried
    <3>2. QED
      BY <3>1, RequeueCounts
  <2>10. k + Cardinality(Holders(Robot, t)') + Dropped(retries[t], back(t)) + d =
           queue[t] + Cardinality(Holders(Robot, t))
    <3>1. n = waiting[t] - Cardinality(G)
          /\ waiting[t] = queue[t] + Kept(retries[t], back(t))
      BY <2>6, <2>7
    <3> HIDE DEF n, k, d, G, back, Lost, waiting
    <3>2. QED
      BY <2>1, <2>3, <2>4, <2>5, <2>8, <2>9, <3>1
  <2>11. retries[t] < MaxRetries + failed[t] =>
           Tried(tried[t], n) < MaxRetries + failed[t] + Dropped(retries[t], back(t)) + d
    <3>1. failed[t] \in Nat /\ failed[t] + Dropped(retries[t], back(t)) \in Nat
      BY <2>5 DEF Typed
    <3>2. retries[t] < MaxRetries + failed[t] =>
            tried[t] < MaxRetries + (failed[t] + Dropped(retries[t], back(t)))
      <4> HIDE DEF tried, back
      <4> QED
        BY <2>5, <2>6, <3>1, OrderAssumption
    <3> HIDE DEF tried, back, n, d
    <3>3. QED
      BY <2>5, <2>6, <2>9, <3>1, <3>2, OrderAssumption
  <2>12. QED
    BY <2>5, <2>9, <2>10, <2>11
<1>10. /\ queue' \in [Task -> Nat] /\ failed' \in [Task -> Nat]
      /\ retries' \in [Task -> Nat]
  <2> HIDE DEF left, tried, back
  <2> QED
    BY <1>1, <1>9 DEF Typed
<1>11. Recounted
  <2> SUFFICES ASSUME NEW t \in Task
               PROVE  /\ failed'[t] >= failed[t]
                      /\ retries[t] < MaxRetries + failed[t] =>
                           retries'[t] < MaxRetries + failed'[t]
                      /\ queue'[t] + Cardinality(Holders(Robot, t)') + failed'[t] =
                           queue[t] + Cardinality(Holders(Robot, t)) + failed[t]
    BY <1>10 DEF Recounted
  <2>1. /\ queue'[t] = Kept(tried[t], left(job, t))
        /\ retries'[t] = Tried(tried[t], left(job, t))
        /\ failed'[t] =
             failed[t] + Dropped(retries[t], back(t)) + Dropped(tried[t], left(job, t))
    BY <1>1
  <2>2. /\ queue[t] \in Nat /\ failed[t] \in Nat /\ Cardinality(Holders(Robot, t)) \in Nat
        /\ Cardinality(Holders(Robot, t)') \in Nat
    BY HoldersAreFinite, HoldersStayFinite DEF Typed
  <2> HIDE DEF tried, left, back
  <2>3. QED
    BY <1>9, <2>1, <2>2, OrderAssumption
<1>12. {job[r] : r \in Given} = {active'[r].task : r \in Given}
  <2> HIDE DEF Given
  <2> QED
    BY <1>6
<1>13. status' = StatusAfter({t \in Task : failed'[t] # failed[t]},
                            {active'[r].task : r \in Given})
  BY <1>1, <1>12
<1>14. \A r \in Given : Candidate(r)
  BY <1>1
<1>15. \A r \in Given :
         /\ Candidate(r) /\ active'[r] \in Assignment
         /\ active'[r].path \in PathOf(active'[r].task)
         /\ contract'[r] = [path |-> active'[r].path, idx |-> 1]
  <2> HIDE DEF Given
  <2> QED
    BY <1>4, <1>5, <1>6, <1>14
<1> HIDE DEF Given, Lost
<1>16. QED
  BY <1>3, <1>7, <1>8, <1>10, <1>11, <1>13, <1>15 DEF HandedOut

\* The robots in Lost give their task back; those in Moved go on along another path.
Rerouted(Lost, Moved) ==
  /\ \A r \in Lost : active'[r] = None
  /\ \A r \in Moved :
       /\ active'[r] \in Assignment /\ active'[r].task = active[r].task
       /\ active'[r].path \in PathOf(active'[r].task)
  /\ \A r \in Robot \ (Lost \cup Moved) : active'[r] = active[r]
  /\ \A r \in Moved \ open : contract'[r] = [path |-> active'[r].path, idx |-> 1]
  /\ \A r \in Robot \ (Moved \ open) : contract'[r] = contract[r]

(* What blocking a lane does: the robots on it lose their task or go on    *)
(* with it along another path, which they are told unless their breaker is *)
(* open.                                                                   *)
LEMMA BlockTakesBack ==
  ASSUME Typed, OnARoute, NEW l \in Lane, BlockLane(l)
  PROVE  /\ Recounted
         /\ queue' \in [Task -> Nat] /\ failed' \in [Task -> Nat]
         /\ retries' \in [Task -> Nat]
         /\ active' \in [Robot -> Assignment \cup {None}]
         /\ contract' \in [Robot -> Contract]
         /\ status' = StatusAfter({t \in Task : failed'[t] # failed[t]}, {})
         /\ \E Lost \in SUBSET Busy : \E Moved \in SUBSET (Busy \ Lost) : Rerouted(Lost, Moved)
<1> DEFINE new(r) == PathFor(active[r].task, active[r].path, blocked \cup {l})
           Using == {r \in Busy : l \in LanesOf(active[r].path)}
           Lost == {r \in Using : l \in LanesOf(new(r)) \/ new(r) = Ends(active[r].path)}
           Moved == Using \ Lost
           back(t) == Returned(Lost, t)
<1>1. /\ active' = [r \in Robot |->
           IF r \in Lost THEN None
           ELSE IF r \in Moved THEN [active[r] EXCEPT !.path = new(r)] ELSE active[r]]
      /\ contract' = [r \in Robot |->
           IF r \in Moved \ open THEN [path |-> new(r), idx |-> 1] ELSE contract[r]]
      /\ queue' = [t \in Task |-> queue[t] + Kept(retries[t], back(t))]
      /\ retries' = [t \in Task |-> Tried(retries[t], back(t))]
      /\ failed' = [t \in Task |-> failed[t] + Dropped(retries[t], back(t))]
      /\ status' = StatusAfter({t \in Task : failed'[t] # failed[t]}, {})
  BY DEF BlockLane
<1>2. Lost \subseteq Busy /\ Moved \subseteq Busy \ Lost /\ Busy \subseteq Robot
  BY DEF Busy
<1>3. ASSUME NEW r \in Busy
      PROVE  /\ active[r] \in Assignment /\ active[r].task \in Task
             /\ new(r) \in PathOf(active[r].task) /\ new(r) \in Path
  <2>1. active[r] \in Assignment
    BY DEF Typed, Busy
  <2>2. active[r].task \in Task /\ active[r].path \in PathOf(active[r].task)
    BY <2>1 DEF Assignment, OnARoute
  <2>3. new(r) \in PathOf(active[r].task)
    BY <2>2, PathForIsAPath
  <2>4. QED
    BY <2>1, <2>2, <2>3, PathsAreLanes
<1> HIDE DEF new
<1>4. ASSUME NEW r \in Moved
      PROVE  /\ active'[r] \in Assignment /\ active'[r].task = active[r].task
             /\ active'[r].path = new(r)
  <2>1. active'[r] = [active[r] EXCEPT !.path = new(r)] /\ active[r] \in Assignment
    BY <1>1, <1>2, <1>3
  <2>2. new(r) \in Path
    BY <1>2, <1>3
  <2>3. QED
    BY <2>1, <2>2 DEF Assignment
<1>5. /\ \A r \in Lost : active'[r] = None
      /\ \A r \in Robot \ (Lost \cup Moved) : active'[r] = active[r]
      /\ \A r \in Robot \ (Moved \ open) : contract'[r] = contract[r]
  BY <1>1, <1>2
<1>6. \A r \in Moved :
        /\ active'[r] \in Assignment /\ active'[r].task = active[r].task
        /\ active'[r].path \in PathOf(active'[r].task)
  BY <1>2, <1>3, <1>4
<1>7. \A r \in Moved \ open :
        /\ contract'[r] = [path |-> active'[r].path, idx |-> 1]
        /\ contract'[r] \in Contract
  BY <1>1, <1>2, <1>3, <1>4 DEF Contract
<1> HIDE DEF Lost, Moved
<1>8. active' \in [Robot -> Assignment \cup {None}] /\ contract' \in [Robot -> Contract]
  BY <1>1, <1>5, <1>6, <1>7 DEF Typed
<1>9. ASSUME NEW t \in Task
      PROVE  /\ back(t) \in Nat
             /\ Cardinality(Holders(Robot, t)') = Cardinality(Holders(Robot, t)) - back(t)
             /\ Kept(retries[t], back(t)) \in Nat /\ Dropped(retries[t], back(t)) \in Nat
             /\ Kept(retries[t], back(t)) + Dropped(retries[t], back(t)) = back(t)
             /\ Tried(retries[t], back(t)) \in Nat
             /\ retries[t] < MaxRetries + failed[t] =>
                  Tried(retries[t], back(t)) <
                    MaxRetries + failed[t] + Dropped(retries[t], back(t))
  <2>1. /\ \A r \in Robot \ Lost : active'[r] = None <=> active[r] = None
        /\ \A r \in Robot \ Lost : active[r] # None => active'[r].task = active[r].task
    BY <1>2, <1>5, <1>6, FleetAssumption DEF Busy
  <2>2. Cardinality(Holders(Robot, t)') =
          Cardinality(Holders(Robot, t)) - Returned(Lost, t)
            + Cardinality({r \in {} : active'[r].task = t})
    <3>1. Exchange(Lost, {})
      BY <1>2, <1>5, <2>1 DEF Exchange
    <3>2. QED
      BY <3>1, HoldersAfter
  <2>3. Cardinality({r \in {} : active'[r].task = t}) = 0
    <3>1. {r \in {} : active'[r].task = t} = {}
      OBVIOUS
    <3>2. QED
      BY <3>1, FS_EmptySet
  <2>4. back(t) \in Nat /\ Cardinality(Holders(Robot, t)) \in Nat
    BY HoldersAreFinite DEF Returned
  <2>5. retries[t] \in Nat /\ failed[t] \in Nat
    BY DEF Typed
  <2>6. Cardinality(Holders(Robot, t)') = Cardinality(Holders(Robot, t)) - back(t)
    BY <2>2, <2>3, <2>4
  <2> HIDE DEF back
  <2>7. QED
    BY <2>4, <2>5, <2>6, RequeueCounts
<1> HIDE DEF back
<1>10. /\ queue' \in [Task -> Nat] /\ failed' \in [Task -> Nat]
       /\ retries' \in [Task -> Nat]
  BY <1>1, <1>9 DEF Typed
<1>11. Recounted
  <2> SUFFICES ASSUME NEW t \in Task
               PROVE  /\ failed'[t] >= failed[t]
                      /\ retries[t] < MaxRetries + failed[t] =>
                           retries'[t] < MaxRetries + failed'[t]
                      /\ queue'[t] + Cardinality(Holders(Robot, t)') + failed'[t] =
                           queue[t] + Cardinality(Holders(Robot, t)) + failed[t]
    BY <1>10 DEF Recounted
  <2>1. /\ queue'[t] = queue[t] + Kept(retries[t], back(t))
        /\ retries'[t] = Tried(retries[t], back(t))
        /\ failed'[t] = failed[t] + Dropped(retries[t], back(t))
    BY <1>1
  <2>2. /\ queue[t] \in Nat /\ failed[t] \in Nat /\ Cardinality(Holders(Robot, t)) \in Nat
    BY HoldersAreFinite DEF Typed
  <2>3. QED
    BY <1>9, <2>1, <2>2, OrderAssumption
<1>12. QED
  BY <1>1, <1>2, <1>5, <1>6, <1>7, <1>8, <1>10, <1>11 DEF Rerouted

\* What reporting the next lane does: the contract moves on, and the task may be done.
LEMMA AdvanceMoves ==
  ASSUME Typed, NEW r \in Robot, NEW l \in Lane, Advance(r, l)
  PROVE  /\ contract' \in [Robot -> Contract] /\ active' \in [Robot -> Assignment \cup {None}]
         /\ completed' \in [Task -> Nat] /\ completion' \subseteq Task
         /\ status' \in [Order -> {"NONE", "PLANNED", "EXECUTING", "COMPLETED", "FAILED"}]
         /\ \A q \in Robot : active'[q] = active[q] \/ active'[q] = None
<1>1. contract' \in [Robot -> Contract]
  <2>1. contract' = [contract EXCEPT ![r] = [contract[r] EXCEPT !.idx = @ + 1]]
    BY DEF Advance
  <2>2. contract[r] \in Contract
    BY DEF Typed
  <2>3. [contract[r] EXCEPT !.idx = @ + 1] \in Contract
    BY <2>2 DEF Contract
  <2>4. QED
    BY <2>1, <2>3 DEF Typed
<1>2. CASE Completes(r, l)
  <2>1. active[r].task \in Task
    BY <1>2 DEF Completes, Busy, Typed, Assignment
  <2>2. QED
    BY <1>1, <1>2, <2>1 DEF Advance, Typed
<1>3. CASE ~ Completes(r, l)
  BY <1>1, <1>3 DEF Advance, Typed
<1>4. QED
  BY <1>2, <1>3

\* The status of an order stays a status, whatever fails or starts.
LEMMA StatusAfterTyped ==
  ASSUME Typed, NEW failing, NEW started
  PROVE  StatusAfter(failing, started) \in
           [Order -> {"NONE", "PLANNED", "EXECUTING", "COMPLETED", "FAILED"}]
  BY DEF StatusAfter, Typed

\* What is known of a robot stays of its type, whatever the coordinator hears or decides.
LEMMA HealthStays ==
  ASSUME NEW h \in Health
  PROVE  Observed(h) \in Health /\ Recovered(h) \in Health /\ Liveness(h) \in Health
<1>1. Observed(h) \in Health
  BY DEF Observed, Health
<1>2. Recovered(h) \in Health
  BY DEF Recovered, Health
<1>3. Liveness(h) \in Health
  <2>1. CASE ~ h.online \/ h.age = "fresh"
    BY <2>1 DEF Liveness
  <2>2. CASE ~ (~ h.online \/ h.age = "fresh")
    <3>1. Liveness(h) = [h EXCEPT !.degraded = h.age = "late", !.online = h.age = "late",
                                  !.accepts = h.degraded /\ h.accepts]
      BY <2>2 DEF Liveness
    <3>2. QED
      BY <3>1 DEF Health
  <2>3. QED
    BY <2>1, <2>2
<1>4. QED
  BY <1>1, <1>2, <1>3

\* Every step keeps the types and the routes.
LEMMA TypedStep == Typed /\ OnARoute /\ [Next]_vars => Typed' /\ OnARoute'
<1> SUFFICES ASSUME Typed, OnARoute, [Next]_vars PROVE Typed' /\ OnARoute'
  OBVIOUS
<1>1. ASSUME NEW o \in Order, Submit(o) PROVE Typed' /\ OnARoute'
  <2>1. submitted' \in [Order -> 0..MaxSubmits]
    BY <1>1, OrderAssumption DEF Submit, Typed
  <2>2. retries' \in [Task -> Nat] /\ queue' \in [Task -> Nat]
    BY <1>1, OrderAssumption DEF Submit, Typed
  <2>3. QED
    BY <1>1, <2>1, <2>2 DEF Submit, Typed, OnARoute, Busy, robotVars
<1>2. ASSUME NEW o \in Order, Cancel(o) PROVE Typed' /\ OnARoute'
  <2>1. cancelled' \in [Task -> Nat]
    BY <1>2, HoldersAreFinite DEF Cancel, Typed
  <2>2. /\ active' \in [Robot -> Assignment \cup {None}]
        /\ \A r \in Robot : active'[r] = active[r] \/ active'[r] = None
    BY <1>2 DEF Cancel, Typed
  <2>3. OnARoute'
    BY <2>2 DEF OnARoute, Busy
  <2>4. status' \in [Order -> {"NONE", "PLANNED", "EXECUTING", "COMPLETED", "FAILED"}]
        /\ queue' \in [Task -> Nat]
    BY <1>2 DEF Cancel, Typed
  <2>5. QED
    BY <1>2, <2>1, <2>2, <2>3, <2>4 DEF Cancel, Typed
<1>3. ASSUME NEW r \in Robot, Silence(r) PROVE Typed' /\ OnARoute'
  <2>1. health' \in [Robot -> Health]
    BY <1>3 DEF Silence, Typed, Health
  <2>2. QED
    BY <1>3, <2>1 DEF Silence, Typed, OnARoute, Busy, orderVars
<1>4. ASSUME NEW r \in Robot, Uplink(r) PROVE Typed' /\ OnARoute'
  <2>1. health' \in [Robot -> Health]
    <3>1. health' = [health EXCEPT ![r] = Observed(health[r])]
      BY <1>4 DEF Uplink
    <3>2. QED
      BY <3>1, HealthStays DEF Typed
  <2>2. CASE UNCHANGED <<active, contract, completed, completion, status>>
    BY <1>4, <2>1, <2>2 DEF Uplink, Typed, OnARoute, Busy
  <2>3. CASE \E l \in Lane : Advance(r, l)
    <3>1. OnARoute'
      BY <2>3, AdvanceMoves DEF OnARoute, Busy
    <3>2. QED
      BY <1>4, <2>1, <2>3, <3>1, AdvanceMoves DEF Uplink, Typed
  <2>4. QED
    BY <1>4, <2>2, <2>3 DEF Uplink
<1>5. ASSUME NEW r \in Robot, ManualRecover(r) PROVE Typed' /\ OnARoute'
  <2>1. health' \in [Robot -> Health]
    <3>1. health' = [health EXCEPT ![r] = Recovered(health[r])]
      BY <1>5 DEF ManualRecover
    <3>2. QED
      BY <3>1, HealthStays DEF Typed
  <2>2. QED
    BY <1>5, <2>1 DEF ManualRecover, Typed, OnARoute, Busy, orderVars
<1>6. ASSUME NEW r \in Robot, NEW l \in Lane, Progress(r, l) PROVE Typed' /\ OnARoute'
  <2>1. OnARoute'
    BY <1>6, AdvanceMoves DEF Progress, OnARoute, Busy
  <2>2. QED
    BY <1>6, <2>1, AdvanceMoves DEF Progress, Typed
<1>7. ASSUME NEW l \in Blockable, BlockLane(l) PROVE Typed' /\ OnARoute'
  <2>1. l \in Lane
    BY RouteAssumption
  <2>2. OnARoute'
    BY <1>7, <2>1, BlockTakesBack DEF Rerouted, OnARoute, Busy
  <2>3. status' \in [Order -> {"NONE", "PLANNED", "EXECUTING", "COMPLETED", "FAILED"}]
    <3>1. \E failing, started : status' = StatusAfter(failing, started)
      BY <1>7, <2>1, BlockTakesBack
    <3>2. QED
      BY <3>1, StatusAfterTyped
  <2>4. /\ UNCHANGED <<completion, completed, submitted, cancelled, open, health, banned>>
        /\ blocked' \subseteq Lane
    BY <1>7, <2>1 DEF BlockLane, Typed
  <2>5. /\ queue' \in [Task -> Nat] /\ failed' \in [Task -> Nat]
        /\ retries' \in [Task -> Nat]
        /\ active' \in [Robot -> Assignment \cup {None}]
        /\ contract' \in [Robot -> Contract]
    BY <1>7, <2>1, BlockTakesBack
  <2>6. QED
    BY <2>2, <2>3, <2>4, <2>5 DEF Typed
<1>8. ASSUME NEW l \in Blockable, UnblockLane(l) PROVE Typed' /\ OnARoute'
  BY <1>8 DEF UnblockLane, Typed, OnARoute, Busy, orderVars, robotVars
<1>9. CASE Tick
  <2>1. OnARoute'
    BY <1>9, TickHandsOut DEF HandedOut, OnARoute, Busy
  <2>2. status' \in [Order -> {"NONE", "PLANNED", "EXECUTING", "COMPLETED", "FAILED"}]
    <3>1. \E failing, started : status' = StatusAfter(failing, started)
      BY <1>9, TickHandsOut
    <3>2. QED
      BY <3>1, StatusAfterTyped
  <2>3. health' \in [Robot -> Health]
    <3>1. health' = [r \in Robot |-> Liveness(health[r])]
      BY <1>9 DEF Tick
    <3>2. QED
      BY <3>1, HealthStays DEF Typed
  <2>4. open' \subseteq Robot /\ banned' \subseteq Robot
    <3>1. banned' = banned \cup {r \in Robot : health[r].online /\ health[r].age # "fresh"}
      BY <1>9 DEF Tick
    <3>2. \E trip \in SUBSET Robot, cool \in SUBSET open : open' = (open \ cool) \cup trip
      <4>1. PICK trip \in SUBSET {r \in Tripping : contract'[r].path # <<>>},
                 cool \in SUBSET open : open' = (open \ cool) \cup trip
        BY <1>9 DEF Tick
      <4>2. QED
        BY <4>1, FleetAssumption
    <3>3. QED
      BY <3>1, <3>2 DEF Typed
  <2>5. UNCHANGED <<completion, completed, submitted, cancelled, blocked>>
    BY <1>9 DEF Tick
  <2>6. /\ queue' \in [Task -> Nat] /\ failed' \in [Task -> Nat]
        /\ retries' \in [Task -> Nat]
        /\ active' \in [Robot -> Assignment \cup {None}]
        /\ contract' \in [Robot -> Contract]
    BY <1>9, TickHandsOut
  <2>7. QED
    BY <2>1, <2>2, <2>3, <2>4, <2>5, <2>6 DEF Typed
<1>10. CASE UNCHANGED vars
  BY <1>10 DEF vars, Typed, OnARoute, Busy
<1>11. QED
  BY <1>1, <1>2, <1>3, <1>4, <1>5, <1>6, <1>7, <1>8, <1>9, <1>10 DEF Next

-----------------------------------------------------------------------------
\* A robot whose task is done holds one copy less of that task and of no other.
LEMMA DoneIsOneLess ==
  ASSUME Typed, NEW r \in Busy, active' = [active EXCEPT ![r] = None], NEW t \in Task
  PROVE  Cardinality(Holders(Robot, t)') =
           IF active[r].task = t THEN Cardinality(Holders(Robot, t)) - 1
           ELSE Cardinality(Holders(Robot, t))
<1>1. r \in Robot
  BY DEF Busy
<1>2. Holders(Robot, t)' = Holders(Robot, t) \ {r}
  BY <1>1 DEF Holders, Busy, Typed
<1>3. r \in Holders(Robot, t) <=> active[r].task = t
  BY <1>1 DEF Holders
<1>4. IsFiniteSet(Holders(Robot, t))
  BY HoldersAreFinite
<1>5. Cardinality(Holders(Robot, t) \ {r}) =
        IF r \in Holders(Robot, t) THEN Cardinality(Holders(Robot, t)) - 1
        ELSE Cardinality(Holders(Robot, t))
  BY <1>4, FS_RemoveElement
<1>6. QED
  BY <1>2, <1>3, <1>5

\* Handing a task in moves one copy from the robots to the log.
LEMMA AdvanceConserves ==
  ASSUME Typed, NEW r \in Robot, NEW l \in Lane, Advance(r, l), NEW t \in Task
  PROVE  Cardinality(Holders(Robot, t)') + completed'[t] =
           Cardinality(Holders(Robot, t)) + completed[t]
<1>1. CASE Completes(r, l)
  <2>1. r \in Busy /\ active' = [active EXCEPT ![r] = None]
        /\ completed' = [completed EXCEPT ![active[r].task] = @ + 1]
    BY <1>1 DEF Advance, Completes
  <2>2. active[r].task \in Task
    BY <2>1 DEF Typed, Busy, Assignment
  <2>3. completed'[t] = IF active[r].task = t THEN completed[t] + 1 ELSE completed[t]
    BY <2>1, <2>2 DEF Typed
  <2>4. Cardinality(Holders(Robot, t)) \in Nat /\ completed[t] \in Nat
    BY HoldersAreFinite DEF Typed
  <2>5. Cardinality(Holders(Robot, t)') =
           IF active[r].task = t THEN Cardinality(Holders(Robot, t)) - 1
           ELSE Cardinality(Holders(Robot, t))
    BY <2>1, DoneIsOneLess
  <2>6. QED
    BY <2>3, <2>4, <2>5
<1>2. CASE ~ Completes(r, l)
  <2>1. active' = active /\ completed' = completed
    BY <1>2 DEF Advance
  <2>2. Holders(Robot, t)' = Holders(Robot, t)
    BY <2>1 DEF Holders, Busy
  <2>3. QED
    BY <2>1, <2>2
<1>3. QED
  BY <1>1, <1>2

\* The copies of one task in the queue, on robots, in the logs, and cancelled.
Copies(t) ==
  queue[t] + Cardinality(Holders(Robot, t)) + completed[t] + failed[t] + cancelled[t]

\* No step makes or loses a copy, but submitting the order again.
LEMMA CopiesStay ==
  ASSUME Typed, OnARoute, [Next]_vars, NEW t \in Task
  PROVE  /\ Copies(t) \in Nat /\ submitted[OrderOf[t]] \in Nat
         /\ Copies(t)' - submitted'[OrderOf[t]] = Copies(t) - submitted[OrderOf[t]]
<1>1. /\ queue[t] \in Nat /\ completed[t] \in Nat /\ failed[t] \in Nat
      /\ cancelled[t] \in Nat /\ Cardinality(Holders(Robot, t)) \in Nat
      /\ OrderOf[t] \in Order /\ submitted[OrderOf[t]] \in Nat
  BY HoldersAreFinite, OrderAssumption DEF Typed
<1>2. queue'[t] \in Nat /\ completed'[t] \in Nat /\ failed'[t] \in Nat
      /\ cancelled'[t] \in Nat
  BY TypedStep DEF Typed
<1>3. Cardinality(Holders(Robot, t)') \in Nat
  BY HoldersStayFinite
<1> DEFINE Goal == Copies(t)' - submitted'[OrderOf[t]] = Copies(t) - submitted[OrderOf[t]]
<1>4. ASSUME active' = active, completed' = completed, failed' = failed,
             cancelled' = cancelled,
             queue'[t] - submitted'[OrderOf[t]] = queue[t] - submitted[OrderOf[t]]
      PROVE  Goal
  <2>1. Holders(Robot, t)' = Holders(Robot, t)
    BY <1>4 DEF Holders, Busy
  <2>2. Cardinality(Holders(Robot, t)') = Cardinality(Holders(Robot, t))
    BY <2>1
  <2>3. submitted'[OrderOf[t]] \in Nat
    BY <1>1, TypedStep DEF Typed
  <2>4. completed'[t] = completed[t] /\ failed'[t] = failed[t] /\ cancelled'[t] = cancelled[t]
        /\ queue'[t] - submitted'[OrderOf[t]] = queue[t] - submitted[OrderOf[t]]
    BY <1>4
  <2>5. QED
    BY <1>1, <1>2, <1>3, <2>2, <2>3, <2>4 DEF Copies
<1>5. ASSUME NEW o \in Order, Submit(o) PROVE Goal
  <2>1. queue'[t] = IF OrderOf[t] = o THEN queue[t] + 1 ELSE queue[t]
    BY <1>5 DEF Submit
  <2>2. submitted'[OrderOf[t]] =
          IF OrderOf[t] = o THEN submitted[OrderOf[t]] + 1 ELSE submitted[OrderOf[t]]
    BY <1>1, <1>5 DEF Submit, Typed
  <2>3. QED
    BY <1>1, <1>4, <1>5, <2>1, <2>2 DEF Submit, robotVars
<1>6. ASSUME NEW o \in Order, Cancel(o) PROVE Goal
  <2>1. /\ completed' = completed /\ failed' = failed /\ submitted' = submitted
        /\ queue'[t] = IF OrderOf[t] = o THEN 0 ELSE queue[t]
        /\ cancelled'[t] =
              IF OrderOf[t] = o
              THEN cancelled[t] + queue[t] + Cardinality(Holders(Robot, t)) ELSE cancelled[t]
    BY <1>6 DEF Cancel
  <2>2. Holders(Robot, t)' = IF OrderOf[t] = o THEN {} ELSE Holders(Robot, t)
    BY <1>6, FleetAssumption DEF Cancel, Holders, Busy, Typed
  <2>3. Cardinality(Holders(Robot, t)') =
          IF OrderOf[t] = o THEN 0 ELSE Cardinality(Holders(Robot, t))
    BY <2>2, FS_EmptySet
  <2>4. QED
    BY <1>1, <1>2, <2>1, <2>3 DEF Copies
<1>7. ASSUME NEW r \in Robot, Silence(r) \/ ManualRecover(r) PROVE Goal
  BY <1>1, <1>4, <1>7 DEF Silence, ManualRecover, orderVars
<1>8. ASSUME NEW r \in Robot, NEW l \in Lane, Advance(r, l),
             UNCHANGED <<queue, failed, cancelled, submitted>>
      PROVE  Goal
  <2>1. Cardinality(Holders(Robot, t)') + completed'[t] =
           Cardinality(Holders(Robot, t)) + completed[t]
    BY <1>8, AdvanceConserves
  <2>2. QED
    BY <1>1, <1>2, <1>3, <1>8, <2>1 DEF Copies
<1>9. ASSUME NEW r \in Robot, Uplink(r) PROVE Goal
  BY <1>1, <1>4, <1>8, <1>9 DEF Uplink
<1>10. ASSUME NEW r \in Robot, NEW l \in Lane, Progress(r, l) PROVE Goal
  BY <1>8, <1>10 DEF Progress
<1>11. ASSUME Recounted, UNCHANGED <<completed, cancelled, submitted>> PROVE Goal
  <2>1. queue'[t] + Cardinality(Holders(Robot, t)') + failed'[t] =
          queue[t] + Cardinality(Holders(Robot, t)) + failed[t]
    BY <1>11 DEF Recounted
  <2>2. QED
    BY <1>1, <1>2, <1>3, <1>11, <2>1 DEF Copies
<1>12. ASSUME NEW l \in Blockable, BlockLane(l) PROVE Goal
  <2>1. Recounted
    BY <1>12, RouteAssumption, BlockTakesBack
  <2>2. QED
    BY <1>11, <1>12, <2>1 DEF BlockLane
<1>13. ASSUME NEW l \in Blockable, UnblockLane(l) PROVE Goal
  BY <1>1, <1>4, <1>13 DEF UnblockLane, orderVars, robotVars
<1>14. ASSUME Tick PROVE Goal
  <2>1. UNCHANGED <<completed, cancelled, submitted>>
    BY <1>14 DEF Tick
  <2>2. Recounted
    BY <1>14, TickHandsOut
  <2>3. QED
    BY <1>11, <2>1, <2>2
<1>15. ASSUME UNCHANGED vars PROVE Goal
  <2>1. /\ active' = active /\ completed' = completed /\ failed' = failed
        /\ cancelled' = cancelled /\ queue' = queue /\ submitted' = submitted
    BY <1>15 DEF vars
  <2>2. QED
    BY <1>1, <1>4, <2>1
<1>16. Goal
  BY <1>5, <1>6, <1>7, <1>9, <1>10, <1>12, <1>13, <1>14, <1>15 DEF Next
<1>17. QED
  BY <1>1, <1>16 DEF Copies

\* The inductive invariant of the queue: the types, the routes and the copies.
QueueInv == Typed /\ OnARoute /\ Conservation

\* Every handler and tick keeps the types, the routes and the count of the copies.
LEMMA QueueStep == QueueInv /\ [Next]_vars => QueueInv'
<1> SUFFICES ASSUME QueueInv, [Next]_vars PROVE QueueInv'
  OBVIOUS
<1>1. Typed' /\ OnARoute'
  BY TypedStep DEF QueueInv
<1>2. ASSUME NEW t \in Task PROVE (submitted[OrderOf[t]] = Copies(t))'
  <2>1. submitted[OrderOf[t]] = Copies(t)
    BY DEF QueueInv, Conservation, Copies
  <2>2. /\ Copies(t) \in Nat /\ submitted[OrderOf[t]] \in Nat
        /\ Copies(t)' - submitted'[OrderOf[t]] = Copies(t) - submitted[OrderOf[t]]
    BY CopiesStay DEF QueueInv
  <2>3. Copies(t)' \in Nat /\ submitted'[OrderOf[t]] \in Nat
    <3>1. OrderOf[t] \in Order
      BY OrderAssumption
    <3>2. Cardinality(Holders(Robot, t)') \in Nat
      BY HoldersStayFinite
    <3>3. QED
      BY <1>1, <3>1, <3>2, OrderAssumption DEF Typed, Copies
  <2>4. QED
    BY <2>1, <2>2, <2>3
<1>3. Conservation'
  BY <1>2 DEF Conservation, Copies
<1>4. QED
  BY <1>1, <1>3 DEF QueueInv

\* No robot holds a task in a state without assignments.
LEMMA QueueStart == Init => QueueInv
<1> SUFFICES ASSUME Init PROVE QueueInv
  OBVIOUS
<1>1. Typed
  BY OrderAssumption, FleetAssumption DEF Init, Typed, Contract, Health
<1>2. Busy = {}
  BY DEF Init, Busy
<1>3. ASSUME NEW t \in Task
      PROVE  submitted[OrderOf[t]] =
               queue[t] + Cardinality(Holders(Robot, t)) + completed[t] + failed[t] + cancelled[t]
  <2>1. Cardinality(Holders(Robot, t)) = 0
    BY <1>2, FS_EmptySet DEF Holders
  <2>2. OrderOf[t] \in Order
    BY OrderAssumption
  <2>3. QED
    BY <2>1, <2>2 DEF Init
<1>4. QED
  BY <1>1, <1>2, <1>3 DEF QueueInv, OnARoute, Conservation

\* Every step keeps the count of a task within what the failed log accounts for.
LEMMA CountedStep == Typed /\ OnARoute /\ CountedOut /\ [Next]_vars => CountedOut'
<1> SUFFICES ASSUME Typed, OnARoute, CountedOut, [Next]_vars,
                    NEW t \in Task
             PROVE  retries'[t] < MaxRetries + failed'[t]
  BY DEF CountedOut
<1>1. retries[t] < MaxRetries + failed[t] /\ retries[t] \in Nat /\ failed[t] \in Nat
  BY DEF CountedOut, Typed
<1>2. ASSUME NEW o \in Order, Submit(o) PROVE retries'[t] < MaxRetries + failed'[t]
  <2>1. retries'[t] = 0 \/ retries'[t] = retries[t]
    BY <1>2 DEF Submit
  <2>2. failed'[t] = failed[t]
    BY <1>2 DEF Submit
  <2>3. QED
    BY <1>1, <2>1, <2>2, OrderAssumption
<1>3. CASE UNCHANGED <<retries, failed>>
  BY <1>1, <1>3
<1>4. ASSUME NEW l \in Blockable, BlockLane(l) PROVE Recounted
  BY <1>4, RouteAssumption, BlockTakesBack
<1>5. CASE Recounted
  BY <1>1, <1>5 DEF Recounted
<1>6. CASE Tick
  BY <1>5, <1>6, TickHandsOut
<1>7. QED
  BY <1>2, <1>3, <1>4, <1>5, <1>6 DEF Next, vars, Cancel, Silence, Uplink, ManualRecover,
    Progress, UnblockLane, orderVars

(* However many copies of a task share its count, and whichever handler    *)
(* they come back in: every return from the limit on is in the failed log. *)
THEOREM ReturnsAreCountedOut == Spec => []CountedOut
<1>1. Init => CountedOut
  BY OrderAssumption DEF Init, CountedOut
<1>2. QED
  BY <1>1, QueueStart, TypedStep, CountedStep, PTL DEF Spec, QueueInv

(* Requeueing, re-routing, reaping and cancelling lose no copy of a task   *)
(* and make none, for any number of robots, orders and submissions.        *)
THEOREM NoCopyIsLost == Spec => []Conservation
BY QueueStart, QueueStep, PTL DEF Spec, QueueInv

\* The counters stay within the submissions, because the copies do.
THEOREM TypeCorrect == Spec => []TypeOK
<1>1. QueueInv => TypeOK
  <2> SUFFICES ASSUME QueueInv PROVE TypeOK
    OBVIOUS
  <2>1. ASSUME NEW t \in Task
        PROVE  /\ queue[t] \in 0..MaxSubmits /\ completed[t] \in 0..MaxSubmits
               /\ failed[t] \in 0..MaxSubmits /\ cancelled[t] \in 0..MaxSubmits
    <3>1. OrderOf[t] \in Order
      BY OrderAssumption
    <3>2. submitted[OrderOf[t]] \in 0..MaxSubmits /\ Cardinality(Holders(Robot, t)) \in Nat
      BY <3>1, HoldersAreFinite DEF QueueInv, Typed
    <3>3. QED
      BY <3>2, OrderAssumption DEF QueueInv, Typed, Conservation
  <2>2. QED
    BY <2>1 DEF QueueInv, Typed, TypeOK
<1>2. QED
  BY <1>1, QueueStart, QueueStep, PTL DEF Spec

-----------------------------------------------------------------------------
(* BannedUntilRecovered says nothing of the robot's record.  What each     *)
(* step keeps is that the record of a banned robot refuses tasks, also     *)
(* when the degraded flag is gone.                                         *)
BannedRefuses ==
  /\ \A r \in Robot : health[r].degraded => ~ health[r].accepts
  /\ \A r \in banned : ~ health[r].accepts

\* Only a tick gives a robot without a task one, and bans robots.
LEMMA OnlyTickHandsOut ==
  ASSUME Typed, OnARoute, [Next]_vars, ~ Tick
  PROVE  /\ banned' \subseteq banned
         /\ \A r \in Robot : active[r] = None => active'[r] = None
<1> DEFINE Goal == /\ banned' \subseteq banned
                   /\ \A r \in Robot : active[r] = None => active'[r] = None
<1>1. ASSUME NEW o \in Order, Submit(o) \/ Cancel(o) PROVE Goal
  BY <1>1 DEF Submit, Cancel, robotVars
<1>2. ASSUME NEW r \in Robot, NEW l \in Lane, Advance(r, l) PROVE \A q \in Robot :
        active[q] = None => active'[q] = None
  BY <1>2, AdvanceMoves
<1>3. ASSUME NEW r \in Robot, Silence(r) \/ Uplink(r) \/ ManualRecover(r) PROVE Goal
  BY <1>2, <1>3 DEF Silence, Uplink, ManualRecover
<1>4. ASSUME NEW r \in Robot, NEW l \in Lane, Progress(r, l) PROVE Goal
  BY <1>2, <1>4 DEF Progress
<1>5. ASSUME NEW l \in Blockable, BlockLane(l) PROVE Goal
  <2>1. banned' = banned
    BY <1>5 DEF BlockLane
  <2>2. \A r \in Robot \ Busy : active'[r] = active[r]
    BY <1>5, RouteAssumption, BlockTakesBack DEF Rerouted
  <2>3. QED
    BY <2>1, <2>2 DEF Busy
<1>6. ASSUME NEW l \in Blockable, UnblockLane(l) PROVE Goal
  BY <1>6 DEF UnblockLane, robotVars
<1>7. ASSUME UNCHANGED vars PROVE Goal
  BY <1>7 DEF vars
<1>8. QED
  BY <1>1, <1>3, <1>4, <1>5, <1>6, <1>7 DEF Next

\* A banned robot refuses after every step, and no step gives it a task.
LEMMA BannedStep ==
  ASSUME Typed, OnARoute, BannedRefuses, [Next]_vars
  PROVE  BannedRefuses' /\ \A r \in banned' : active[r] = None => active'[r] = None
<1>1. CASE Tick
  <2>1. /\ health' = [r \in Robot |-> Liveness(health[r])]
        /\ banned' = banned \cup {r \in Robot : health[r].online /\ health[r].age # "fresh"}
    BY <1>1 DEF Tick
  <2>2. \A r \in Robot : health[r] \in Health
    BY DEF Typed
  <2>3. BannedRefuses'
    <3>1. ASSUME NEW r \in Robot
          PROVE  /\ health'[r].degraded => ~ health'[r].accepts
                 /\ ~ health[r].accepts => ~ health'[r].accepts
                 /\ health[r].online /\ health[r].age # "fresh" => ~ health'[r].accepts
      BY <2>1, <2>2 DEF BannedRefuses, Liveness, Health
    <3>2. QED
      BY <2>1, <3>1 DEF BannedRefuses, Typed
  <2>4. ASSUME NEW r \in banned', active[r] = None PROVE active'[r] = None
    <3>1. r \in Robot /\ ~ health'[r].accepts
      BY <2>1, <2>3 DEF BannedRefuses, Typed
    <3>2. ~ Candidate(r)
      BY <3>1 DEF Candidate
    <3>3. QED
      BY <1>1, <2>4, <3>1, <3>2, TickHandsOut DEF HandedOut
  <2>5. QED
    BY <2>3, <2>4
<1>2. CASE ~ Tick
  <2>1. /\ banned' \subseteq banned
        /\ \A r \in Robot : active[r] = None => active'[r] = None
    BY <1>2, OnlyTickHandsOut
  <2>2. BannedRefuses'
    <3>1. ASSUME NEW r \in Robot, ManualRecover(r) PROVE BannedRefuses'
      BY <3>1 DEF ManualRecover, Recovered, BannedRefuses, Typed, Health
    <3>2. ASSUME NEW r \in Robot, Silence(r) PROVE BannedRefuses'
      BY <3>2 DEF Silence, BannedRefuses, Typed, Health
    <3>3. ASSUME NEW r \in Robot, Uplink(r) PROVE BannedRefuses'
      BY <3>3 DEF Uplink, Observed, BannedRefuses, Typed, Health
    <3>4. CASE UNCHANGED <<health, banned>>
      BY <3>4 DEF BannedRefuses
    <3>5. QED
      BY <1>2, <3>1, <3>2, <3>3, <3>4 DEF Next, vars, Submit, Cancel, Progress, BlockLane,
        UnblockLane, robotVars
  <2>3. QED
    BY <2>1, <2>2 DEF Typed
<1>3. QED
  BY <1>1, <1>2

(* A robot that fell silent gets no new task before an operator recovers   *)
(* it, however often it goes offline, comes back and falls silent again.   *)
THEOREM BannedGetsNoTask == Spec => BannedUntilRecovered
<1>1. Init => BannedRefuses
  BY DEF Init, BannedRefuses
<1>2. Typed /\ OnARoute /\ BannedRefuses /\ [Next]_vars =>
        BannedRefuses' /\ [\A r \in banned' : active[r] = None => active'[r] = None]_vars
  BY BannedStep
<1>3. QED
  BY <1>1, <1>2, QueueStart, TypedStep, PTL DEF Spec, QueueInv, BannedUntilRecovered

-----------------------------------------------------------------------------
(* ContractMatches needs to know that only the breakers of Tripping open:  *)
(* a re-route is told to every other robot.                                *)
ContractInv == ContractMatches /\ open \subseteq Tripping

\* Whatever moves a robot's assignment moves its contract with it, but for an open breaker.
LEMMA ContractStep ==
  ASSUME Typed, OnARoute, ContractInv, [Next]_vars
  PROVE  ContractInv'
<1>1. ASSUME NEW r \in Robot
      PROVE  active[r] # None => /\ active[r].path \in Seq(Lane) /\ active[r].path # <<>>
                                 /\ active[r].task \in Task
  <2>1. active[r] # None => active[r] \in Assignment
    BY DEF Typed
  <2>2. QED
    BY <2>1, PathsAreLanes DEF OnARoute, Busy, Assignment
<1>2. ASSUME NEW r \in Robot, NEW l \in Lane, Advance(r, l) PROVE ContractMatches'
  <2> SUFFICES ASSUME NEW q \in Robot, active'[q] # None, q \notin Tripping
               PROVE  contract'[q].path = active'[q].path /\ contract'[q].idx <= Len(active'[q].path)
    BY DEF ContractMatches, Busy
  <2>1. active[q] # None /\ active'[q] = active[q]
    BY <1>2, AdvanceMoves
  <2>2. /\ contract[q].path = active[q].path /\ contract[q].idx <= Len(active[q].path)
        /\ active[q].path \in Seq(Lane) /\ active[q].path # <<>>
        /\ contract[q] \in Contract
    BY <1>1, <2>1 DEF ContractInv, ContractMatches, Busy, Typed
  <2>3. contract' = [contract EXCEPT ![r] = [contract[r] EXCEPT !.idx = @ + 1]]
    BY <1>2 DEF Advance
  <2>4. CASE q = r
    <3>1. ~ Completes(r, l)
      BY <1>2, <2>1, <2>4 DEF Advance, Completes, Busy, Typed
    <3>2. contract[r].path[contract[r].idx] = l /\ l # active[r].path[Len(active[r].path)]
      BY <1>2, <2>1, <2>4, <3>1 DEF Advance, Expected, Completes, Busy, LastOf
    <3>3. contract[r].idx # Len(active[r].path) /\ contract[r].idx \in Nat
          /\ Len(active[r].path) \in Nat
      BY <2>2, <2>4, <3>2 DEF Contract
    <3>4. contract'[r].path = contract[r].path /\ contract'[r].idx = contract[r].idx + 1
      BY <2>2, <2>3, <2>4 DEF Typed, Contract
    <3>5. QED
      BY <2>1, <2>2, <2>4, <3>3, <3>4
  <2>5. CASE q # r
    <3>1. contract'[q] = contract[q]
      BY <2>3, <2>5 DEF Typed
    <3>2. QED
      BY <2>1, <2>2, <3>1
  <2>6. QED
    BY <2>4, <2>5
<1>3. CASE UNCHANGED <<active, contract>> /\ open' \subseteq open
  BY <1>3 DEF ContractInv, ContractMatches, Busy
<1>4. ASSUME NEW o \in Order, Cancel(o) PROVE ContractInv'
  <2>1. \A r \in Robot : active'[r] = active[r] \/ active'[r] = None
    BY <1>4 DEF Cancel
  <2>2. contract' = contract /\ open' = open
    BY <1>4 DEF Cancel
  <2>3. QED
    BY <2>1, <2>2 DEF ContractInv, ContractMatches, Busy
<1>5. ASSUME NEW r \in Robot, Uplink(r) PROVE ContractInv'
  BY <1>2, <1>3, <1>5 DEF Uplink, ContractInv
<1>6. ASSUME NEW r \in Robot, NEW l \in Lane, Progress(r, l) PROVE ContractInv'
  BY <1>2, <1>6 DEF Progress, ContractInv
<1>7. ASSUME NEW q \in Robot, active'[q] \in Assignment,
             active'[q].path \in PathOf(active'[q].task),
             contract'[q] = [path |-> active'[q].path, idx |-> 1]
      PROVE  contract'[q].path = active'[q].path /\ contract'[q].idx <= Len(active'[q].path)
  <2>1. active'[q].task \in Task
    BY <1>7 DEF Assignment
  <2>2. Len(active'[q].path) \in Nat \ {0}
    BY <1>7, <2>1, PathsAreLanes
  <2>3. QED
    BY <1>7, <2>2
<1>8. ASSUME NEW l \in Blockable, BlockLane(l) PROVE ContractInv'
  <2>1. open' = open
    BY <1>8 DEF BlockLane
  <2>2. PICK Lost \in SUBSET Busy : \E Moved \in SUBSET (Busy \ Lost) : Rerouted(Lost, Moved)
    BY <1>8, RouteAssumption, BlockTakesBack
  <2>3. PICK Moved \in SUBSET (Busy \ Lost) : Rerouted(Lost, Moved)
    BY <2>2
  <2>4. ASSUME NEW q \in Robot, active'[q] # None, q \notin Tripping
        PROVE  contract'[q].path = active'[q].path /\ contract'[q].idx <= Len(active'[q].path)
    <3>1. q \notin open
      BY <2>4 DEF ContractInv
    <3>2. CASE q \in Moved
      BY <1>7, <2>3, <3>1, <3>2 DEF Rerouted
    <3>3. CASE q \notin Moved
      <4>1. active'[q] = active[q] /\ contract'[q] = contract[q]
        BY <2>3, <2>4, <3>3 DEF Rerouted
      <4>2. QED
        BY <2>4, <4>1 DEF ContractInv, ContractMatches, Busy
    <3>4. QED
      BY <3>2, <3>3
  <2>5. QED
    BY <2>1, <2>4 DEF ContractInv, ContractMatches, Busy
<1>9. CASE Tick
  <2>1. open' \subseteq Tripping
    <3>1. PICK trip \in SUBSET {r \in Tripping : contract'[r].path # <<>>},
               cool \in SUBSET open : open' = (open \ cool) \cup trip
      BY <1>9 DEF Tick
    <3>2. QED
      BY <3>1 DEF ContractInv
  <2>2. PICK Given \in SUBSET Robot, Lost \in SUBSET Busy : HandedOut(Given, Lost)
    BY <1>9, TickHandsOut
  <2>3. ASSUME NEW q \in Robot, active'[q] # None, q \notin Tripping
        PROVE  contract'[q].path = active'[q].path /\ contract'[q].idx <= Len(active'[q].path)
    <3>1. CASE q \in Given
      BY <1>7, <2>2, <3>1 DEF HandedOut
    <3>2. CASE q \notin Given
      <4>1. active'[q] = active[q] /\ contract'[q] = contract[q]
        BY <2>2, <2>3, <3>2 DEF HandedOut
      <4>2. QED
        BY <2>3, <4>1 DEF ContractInv, ContractMatches, Busy
    <3>3. QED
      BY <3>1, <3>2
  <2>4. QED
    BY <2>1, <2>3 DEF ContractInv, ContractMatches, Busy
<1>10. QED
  BY <1>3, <1>4, <1>5, <1>6, <1>8, <1>9 DEF Next, vars, Submit, Silence, ManualRecover,
    UnblockLane, robotVars

(* A robot whose breaker never trips works along the path the platform has *)
(* on its books, whatever was blocked, lost or cancelled meanwhile.        *)
THEOREM BooksMatchRobots == Spec => []ContractMatches
<1>1. Init => ContractInv
  BY DEF Init, ContractInv, ContractMatches, Busy
<1>2. Typed /\ OnARoute /\ ContractInv /\ [Next]_vars => ContractInv'
  BY ContractStep
<1>3. QED
  BY <1>1, <1>2, QueueStart, TypedStep, PTL DEF Spec, QueueInv, ContractInv

-----------------------------------------------------------------------------
(* NoOrphanOrder is not inductive: that one step can still be moved on     *)
(* does not say that another one can once this one is done.  OpenOrdersLive*)
(* says it of every step that is not done, and that there is one.          *)
OpenOrdersLive ==
  \A o \in Order : status[o] \in {"PLANNED", "EXECUTING"} =>
    /\ ~ (TasksOf(o) \subseteq completion)
    /\ \A t \in TasksOf(o) \ completion : queue[t] > 0 \/ Holders(Robot, t) # {}

\* Requeueing either keeps a copy of a step or fails its order.
LEMMA RequeueKeepsAlive ==
  ASSUME QueueInv, OpenOrdersLive, Recounted, completion' = completion,
         NEW started, status' = StatusAfter({t \in Task : failed'[t] # failed[t]}, started)
  PROVE  OpenOrdersLive'
<1> SUFFICES ASSUME NEW o \in Order, status'[o] \in {"PLANNED", "EXECUTING"}
             PROVE  /\ ~ (TasksOf(o) \subseteq completion)
                    /\ \A t \in TasksOf(o) \ completion :
                         queue'[t] > 0 \/ Holders(Robot, t)' # {}
  BY DEF OpenOrdersLive, TasksOf
<1>1. /\ status[o] \in {"PLANNED", "EXECUTING"}
      /\ ~ \E t \in {t \in Task : failed'[t] # failed[t]} : OrderOf[t] = o
  BY DEF StatusAfter
<1>2. ASSUME NEW t \in TasksOf(o) \ completion
      PROVE  queue'[t] > 0 \/ Holders(Robot, t)' # {}
  <2>1. t \in Task /\ failed'[t] = failed[t]
    BY <1>1 DEF TasksOf
  <2>2. queue[t] > 0 \/ Holders(Robot, t) # {}
    BY <1>1 DEF OpenOrdersLive
  <2>3. /\ queue[t] \in Nat /\ Cardinality(Holders(Robot, t)) \in Nat
        /\ Cardinality(Holders(Robot, t)) = 0 => Holders(Robot, t) = {}
    BY <2>1, HoldersAreFinite DEF QueueInv, Typed
  <2>4. /\ queue'[t] \in Nat /\ failed[t] \in Nat /\ Cardinality(Holders(Robot, t)') \in Nat
        /\ Holders(Robot, t)' = {} => Cardinality(Holders(Robot, t)') = 0
    BY <2>1, HoldersStayFinite DEF QueueInv, Typed, Recounted
  <2>5. queue'[t] + Cardinality(Holders(Robot, t)') = queue[t] + Cardinality(Holders(Robot, t))
    BY <2>1, <2>3, <2>4 DEF Recounted
  <2>6. queue[t] + Cardinality(Holders(Robot, t)) > 0
    BY <2>2, <2>3
  <2>7. QED
    BY <2>3, <2>4, <2>5, <2>6
<1>3. QED
  BY <1>1, <1>2 DEF OpenOrdersLive

\* A step that is handed in is done, or it was not the last one.
LEMMA AdvanceKeepsAlive ==
  ASSUME QueueInv, OpenOrdersLive, NEW r \in Robot, NEW l \in Lane, Advance(r, l),
         queue' = queue
  PROVE  OpenOrdersLive'
<1>1. CASE Completes(r, l)
  <2> DEFINE t == active[r].task
  <2>1. /\ r \in Busy /\ active' = [active EXCEPT ![r] = None]
        /\ completion' = completion \cup {t}
        /\ status' = IF TasksOf(OrderOf[t]) \subseteq completion \cup {t}
                     THEN [status EXCEPT ![OrderOf[t]] = "COMPLETED"] ELSE status
    BY <1>1 DEF Advance, Completes
  <2>2. t \in Task /\ OrderOf[t] \in Order
    BY <2>1, OrderAssumption DEF QueueInv, Typed, Busy, Assignment
  <2> HIDE DEF t
  <2> SUFFICES ASSUME NEW o \in Order, status'[o] \in {"PLANNED", "EXECUTING"}
               PROVE  /\ ~ (TasksOf(o) \subseteq completion')
                      /\ \A u \in TasksOf(o) \ completion' :
                           queue[u] > 0 \/ Holders(Robot, u)' # {}
    BY DEF OpenOrdersLive, TasksOf
  <2>3. status[o] \in {"PLANNED", "EXECUTING"}
    BY <2>1, <2>2 DEF QueueInv, Typed
  <2>4. ~ (TasksOf(o) \subseteq completion')
    <3>1. CASE o = OrderOf[t]
      BY <2>1, <2>2, <3>1 DEF QueueInv, Typed
    <3>2. CASE o # OrderOf[t]
      BY <2>1, <2>3, <3>2 DEF OpenOrdersLive, TasksOf
    <3>3. QED
      BY <3>1, <3>2
  <2>5. ASSUME NEW u \in TasksOf(o) \ completion', queue[u] = 0 \/ ~ (queue[u] > 0)
        PROVE  Holders(Robot, u)' # {}
    <3>1. Holders(Robot, u) # {} /\ u # t
      BY <2>1, <2>3, <2>5 DEF OpenOrdersLive
    <3>2. PICK q \in Robot : active[q] # None /\ active[q].task = u
      BY <3>1 DEF Holders, Busy
    <3>3. q # r
      BY <3>1, <3>2 DEF t
    <3>4. active'[q] = active[q]
      BY <2>1, <3>3 DEF QueueInv, Typed
    <3>5. QED
      BY <3>2, <3>4 DEF Holders, Busy
  <2>6. QED
    BY <2>4, <2>5
<1>2. CASE ~ Completes(r, l)
  <2>1. UNCHANGED <<active, completion, status>>
    BY <1>2 DEF Advance
  <2>2. QED
    BY <2>1 DEF OpenOrdersLive, TasksOf, Holders, Busy
<1>3. QED
  BY <1>1, <1>2

\* Every step keeps the open orders alive.
LEMMA LiveStep ==
  ASSUME QueueInv, OpenOrdersLive, [Next]_vars, \A o \in Order : TasksOf(o) # {}
  PROVE  OpenOrdersLive'
<1>1. ASSUME NEW o \in Order, Submit(o) PROVE OpenOrdersLive'
  <2>1. /\ status' = [status EXCEPT ![o] = "PLANNED"] /\ active' = active
        /\ completion' = completion \ TasksOf(o)
        /\ \A t \in Task : queue'[t] = IF OrderOf[t] = o THEN queue[t] + 1 ELSE queue[t]
    BY <1>1 DEF Submit, robotVars
  <2>2. \A t \in Task : queue[t] \in Nat
    BY DEF QueueInv, Typed
  <2>3. ASSUME NEW p \in Order, status'[p] \in {"PLANNED", "EXECUTING"}
        PROVE  /\ ~ (TasksOf(p) \subseteq completion')
               /\ \A t \in TasksOf(p) \ completion' : queue'[t] > 0 \/ Holders(Robot, t)' # {}
    <3>1. CASE p = o
      BY <2>1, <2>2, <3>1 DEF TasksOf
    <3>2. CASE p # o
      <4>1. status[p] \in {"PLANNED", "EXECUTING"}
        BY <2>1, <2>3, <3>2 DEF QueueInv, Typed
      <4>2. \A t \in TasksOf(p) : queue'[t] = queue[t] /\ Holders(Robot, t)' = Holders(Robot, t)
        BY <2>1, <3>2 DEF TasksOf, Holders, Busy
      <4>3. TasksOf(p) \ completion' = TasksOf(p) \ completion
        BY <2>1, <3>2 DEF TasksOf
      <4>4. QED
        BY <4>1, <4>2, <4>3 DEF OpenOrdersLive
    <3>3. QED
      BY <3>1, <3>2
  <2>4. QED
    BY <2>3 DEF OpenOrdersLive, TasksOf
<1>2. ASSUME NEW o \in Order, Cancel(o) PROVE OpenOrdersLive'
  <2>1. /\ status' = [status EXCEPT ![o] = "NONE"] /\ completion' = completion
        /\ \A t \in Task : OrderOf[t] # o => queue'[t] = queue[t]
        /\ \A r \in Busy : OrderOf[active[r].task] # o => active'[r] = active[r]
    BY <1>2 DEF Cancel, Busy
  <2>2. ASSUME NEW p \in Order, status'[p] \in {"PLANNED", "EXECUTING"}
        PROVE  /\ ~ (TasksOf(p) \subseteq completion)
               /\ \A t \in TasksOf(p) \ completion : queue'[t] > 0 \/ Holders(Robot, t)' # {}
    <3>1. p # o /\ status[p] \in {"PLANNED", "EXECUTING"}
      BY <2>1, <2>2 DEF QueueInv, Typed
    <3>2. ASSUME NEW t \in TasksOf(p) \ completion, ~ (queue'[t] > 0)
          PROVE  Holders(Robot, t)' # {}
      <4>1. queue'[t] = queue[t] /\ OrderOf[t] = p
        BY <2>1, <3>1 DEF TasksOf
      <4>2. Holders(Robot, t) # {}
        BY <3>1, <3>2, <4>1 DEF OpenOrdersLive
      <4>3. PICK q \in Busy : active[q].task = t
        BY <4>2 DEF Holders
      <4>4. active'[q] = active[q]
        BY <2>1, <3>1, <4>1, <4>3
      <4>5. QED
        BY <4>3, <4>4 DEF Holders, Busy
    <3>3. QED
      BY <3>1, <3>2 DEF OpenOrdersLive
  <2>3. QED
    BY <2>1, <2>2 DEF OpenOrdersLive, TasksOf
<1>3. CASE UNCHANGED <<queue, status, completion, active>>
  BY <1>3 DEF OpenOrdersLive, TasksOf, Holders, Busy
<1>4. ASSUME NEW r \in Robot, Uplink(r) PROVE OpenOrdersLive'
  BY <1>3, <1>4, AdvanceKeepsAlive DEF Uplink
<1>5. ASSUME NEW r \in Robot, NEW l \in Lane, Progress(r, l) PROVE OpenOrdersLive'
  BY <1>5, AdvanceKeepsAlive DEF Progress
<1>6. ASSUME NEW l \in Blockable, BlockLane(l) PROVE OpenOrdersLive'
  <2>1. /\ Recounted
        /\ status' = StatusAfter({t \in Task : failed'[t] # failed[t]}, {})
    BY <1>6, RouteAssumption, BlockTakesBack DEF QueueInv
  <2>2. completion' = completion
    BY <1>6 DEF BlockLane
  <2>3. QED
    BY <2>1, <2>2, RequeueKeepsAlive
<1>7. CASE Tick
  <2>1. Recounted /\ \E started : status' = StatusAfter({t \in Task : failed'[t] # failed[t]}, started)
    BY <1>7, TickHandsOut DEF QueueInv
  <2>2. completion' = completion
    BY <1>7 DEF Tick
  <2>3. QED
    BY <2>1, <2>2, RequeueKeepsAlive
<1>8. QED
  BY <1>1, <1>2, <1>3, <1>4, <1>5, <1>6, <1>7 DEF Next, vars, Silence, ManualRecover,
    UnblockLane, robotVars, orderVars

(* An order the platform shows as planned or executing still has a task    *)
(* that can move it on, provided every order has a task at all: an order   *)
(* posted with an empty list of actions stays planned.                     *)
THEOREM OpenOrdersHaveWork ==
  ASSUME \A o \in Order : TasksOf(o) # {}
  PROVE  Spec => []NoOrphanOrder
<1>1. Init => OpenOrdersLive
  BY DEF Init, OpenOrdersLive
<1>2. QueueInv /\ OpenOrdersLive /\ [Next]_vars => OpenOrdersLive'
  BY LiveStep
<1>3. OpenOrdersLive => NoOrphanOrder
  BY DEF OpenOrdersLive, NoOrphanOrder
<1>4. QED
  BY <1>1, <1>2, <1>3, QueueStart, QueueStep, PTL DEF Spec

-----------------------------------------------------------------------------
(***************************************************************************)
(* The queue, the assignments, the two logs and the statuses together keep *)
(* the promise of OrderPromise for orders that are submitted once and have *)
(* a task: each handler is one Accept, Withdraw or Work step of the        *)
(* promise, or changes nothing it speaks of.                               *)
(*                                                                         *)
(* The argument: with one submission Conservation leaves each task one     *)
(* copy, in exactly one place, so that the tables say where the task is in *)
(* its life; OutcomeKnown says that the status follows from them.          *)
(***************************************************************************)

\* The life of a task and the outcome of an order, as KeepsPromise reads them.
Life == [t \in Task |->
  IF submitted[OrderOf[t]] = 0 THEN "new"
  ELSE IF queue[t] > 0 THEN "waiting"
  ELSE IF Holders(Robot, t) # {} THEN "running"
  ELSE IF completed[t] > 0 THEN "done"
  ELSE IF failed[t] > 0 THEN "failed" ELSE "withdrawn"]

Outcome == [o \in Order |->
  IF status[o] \in {"PLANNED", "EXECUTING"} THEN "OPEN" ELSE status[o]]

\* The copies of a task that was submitted at most once.
OneCopy ==
  \A t \in Task :
    /\ queue[t] \in {0, 1} /\ completed[t] \in {0, 1} /\ failed[t] \in {0, 1}
    /\ cancelled[t] \in {0, 1} /\ Cardinality(Holders(Robot, t)) \in {0, 1}
    /\ submitted[OrderOf[t]] \in {0, 1}
    /\ Cardinality(Holders(Robot, t)) = 0 <=> Holders(Robot, t) = {}
    /\ submitted[OrderOf[t]] =
         queue[t] + Cardinality(Holders(Robot, t)) + completed[t] + failed[t] + cancelled[t]

OutcomeKnown ==
  /\ \A t \in Task : t \in completion <=> completed[t] = 1
  /\ \A o \in Order : status[o] = "NONE" =>
       \A t \in TasksOf(o) : queue[t] = 0 /\ Holders(Robot, t) = {}
  /\ \A o \in Order : status[o] # "NONE" =>
       /\ submitted[o] = 1
       /\ \A t \in TasksOf(o) : cancelled[t] = 0
       /\ status[o] = "FAILED" <=> \E t \in TasksOf(o) : failed[t] = 1
       /\ status[o] = "COMPLETED" <=> TasksOf(o) \subseteq completion

PromiseInv == QueueInv /\ OneCopy /\ OutcomeKnown

\* Conservation leaves one copy of each task.
LEMMA OneCopyFollows == ASSUME MaxSubmits = 1 PROVE QueueInv => OneCopy
<1> SUFFICES ASSUME QueueInv, NEW t \in Task
             PROVE  /\ queue[t] \in {0, 1} /\ completed[t] \in {0, 1} /\ failed[t] \in {0, 1}
                    /\ cancelled[t] \in {0, 1} /\ Cardinality(Holders(Robot, t)) \in {0, 1}
                    /\ submitted[OrderOf[t]] \in {0, 1}
                    /\ Cardinality(Holders(Robot, t)) = 0 <=> Holders(Robot, t) = {}
                    /\ submitted[OrderOf[t]] =
                         queue[t] + Cardinality(Holders(Robot, t)) + completed[t] + failed[t]
                           + cancelled[t]
  BY DEF OneCopy
<1>1. submitted[OrderOf[t]] \in {0, 1}
  BY OrderAssumption DEF QueueInv, Typed
<1>2. /\ queue[t] \in Nat /\ completed[t] \in Nat /\ failed[t] \in Nat /\ cancelled[t] \in Nat
      /\ Cardinality(Holders(Robot, t)) \in Nat
      /\ Cardinality(Holders(Robot, t)) = 0 <=> Holders(Robot, t) = {}
  BY HoldersAreFinite DEF QueueInv, Typed
<1>3. submitted[OrderOf[t]] =
        queue[t] + Cardinality(Holders(Robot, t)) + completed[t] + failed[t] + cancelled[t]
  BY DEF QueueInv, Conservation
<1>4. /\ queue[t] \in {0, 1} /\ completed[t] \in {0, 1} /\ failed[t] \in {0, 1}
      /\ cancelled[t] \in {0, 1} /\ Cardinality(Holders(Robot, t)) \in {0, 1}
  <2> DEFINE q == queue[t]
             h == Cardinality(Holders(Robot, t))
             c == completed[t]
             f == failed[t]
             x == cancelled[t]
  <2>1. q \in Nat /\ h \in Nat /\ c \in Nat /\ f \in Nat /\ x \in Nat
    BY <1>2
  <2>2. q + h + c + f + x \in {0, 1}
    BY <1>1, <1>3
  <2> HIDE DEF q, h, c, f, x
  <2>3. q \in {0, 1} /\ h \in {0, 1} /\ c \in {0, 1} /\ f \in {0, 1} /\ x \in {0, 1}
    BY <2>1, <2>2
  <2>4. QED
    BY <2>3 DEF q, h, c, f, x
<1>5. QED
  BY <1>1, <1>2, <1>3, <1>4

\* ... and after a step.
LEMMA OneCopyStays == ASSUME MaxSubmits = 1 PROVE QueueInv /\ [Next]_vars => OneCopy'
<1>1. QueueInv => OneCopy
  BY OneCopyFollows
<1>2. QueueInv' => OneCopy'
  BY <1>1, PTL
<1>3. QED
  BY <1>2, QueueStep

-----------------------------------------------------------------------------
\* The outcome of an order with a plan follows from the lives of its tasks.
OutcomeFollowsLives ==
  \A o \in Order : status[o] # "NONE" =>
    Outcome[o] =
      IF \E t \in TasksOf(o) : Life[t] = "failed" THEN "FAILED"
      ELSE IF \A t \in TasksOf(o) : Life[t] = "done" THEN "COMPLETED" ELSE "OPEN"

\* What OutcomeKnown says of the tables, said of the lives.
LEMMA OutcomeFollows ==
  ASSUME \A o \in Order : TasksOf(o) # {}
  PROVE  PromiseInv => OutcomeFollowsLives
<1> SUFFICES ASSUME PromiseInv, NEW o \in Order, status[o] # "NONE"
             PROVE  Outcome[o] =
                      IF \E t \in TasksOf(o) : Life[t] = "failed" THEN "FAILED"
                      ELSE IF \A t \in TasksOf(o) : Life[t] = "done" THEN "COMPLETED"
                      ELSE "OPEN"
  BY DEF OutcomeFollowsLives
<1>1. ASSUME NEW t \in TasksOf(o)
      PROVE  /\ Life[t] = "failed" <=> failed[t] = 1
             /\ Life[t] = "done" <=> t \in completion
  <2>1. t \in Task /\ OrderOf[t] = o /\ submitted[OrderOf[t]] = 1 /\ cancelled[t] = 0
    BY DEF PromiseInv, OutcomeKnown, TasksOf
  <2>2. QED
    BY <2>1 DEF PromiseInv, OneCopy, OutcomeKnown, Life
<1>2. status[o] = "FAILED" <=> \E t \in TasksOf(o) : Life[t] = "failed"
  BY <1>1 DEF PromiseInv, OutcomeKnown
<1>3. status[o] = "COMPLETED" <=> \A t \in TasksOf(o) : Life[t] = "done"
  BY <1>1 DEF PromiseInv, OutcomeKnown
<1>4. status[o] \in {"PLANNED", "EXECUTING", "COMPLETED", "FAILED"}
  BY DEF PromiseInv, QueueInv, Typed
<1>5. QED
  BY <1>2, <1>3, <1>4 DEF Outcome

\* ... and after a step.
LEMMA OutcomeStillFollows ==
  ASSUME \A o \in Order : TasksOf(o) # {}
  PROVE  PromiseInv' => OutcomeFollowsLives'
<1>1. PromiseInv => OutcomeFollowsLives
  BY OutcomeFollows
<1>2. QED
  BY <1>1, PTL

\* A step of the platform that moves lives along Move is a Work step of the promise.
LEMMA MovesAreWork ==
  ASSUME \A o \in Order : TasksOf(o) # {}, PromiseInv, PromiseInv',
         \A o \in Order : status'[o] = "NONE" <=> status[o] = "NONE",
         \A t \in Task : Life'[t] # Life[t] =>
           <<Life[t], Life'[t]>> \in Promise!Move /\ status[OrderOf[t]] # "NONE"
  PROVE  Promise!Work
<1>1. \A t \in Task : Life'[t] \in Promise!State
  BY DEF Life, Promise!State
<1>2. \A o \in Order : (Outcome[o] = "NONE") = (status[o] = "NONE")
                         /\ (Outcome'[o] = "NONE") = (status'[o] = "NONE")
  BY DEF Outcome
<1>3. \A t \in Task : OrderOf[t] \in Order
  BY OrderAssumption
<1>4. \A o \in Order : status'[o] # "NONE" =>
        Outcome'[o] =
          IF \E t \in TasksOf(o) : Life'[t] = "failed" THEN "FAILED"
          ELSE IF \A t \in TasksOf(o) : Life'[t] = "done" THEN "COMPLETED" ELSE "OPEN"
  BY OutcomeStillFollows DEF OutcomeFollowsLives, TasksOf
<1>5. /\ Life' \in [Task -> Promise!State]
      /\ \A t \in Task : Life'[t] # Life[t] =>
           Outcome[OrderOf[t]] # "NONE" /\ <<Life[t], Life'[t]>> \in Promise!Move
  BY <1>1, <1>2, <1>3 DEF Life
<1>6. Outcome' = [o \in Order |->
        IF Outcome[o] = "NONE" THEN "NONE"
        ELSE IF \E t \in TasksOf(o) : Life'[t] = "failed" THEN "FAILED"
        ELSE IF \A t \in TasksOf(o) : Life'[t] = "done" THEN "COMPLETED" ELSE "OPEN"]
  BY <1>2, <1>4 DEF TasksOf, Outcome
<1>7. QED
  BY <1>5, <1>6 DEF Promise!Work, Promise!OutcomeOf, Promise!TasksOf, TasksOf, Life, Outcome

\* Requeueing moves the life of a task along Move.
LEMMA RequeueMoves ==
  ASSUME PromiseInv, OneCopy', Recounted, UNCHANGED <<completed, cancelled, submitted>>,
         NEW t \in Task, Life'[t] # Life[t]
  PROVE  <<Life[t], Life'[t]>> \in Promise!Move /\ status[OrderOf[t]] # "NONE"
<1> DEFINE h == Cardinality(Holders(Robot, t))
           i == Cardinality(Holders(Robot, t)')
<1>1. /\ queue[t] \in {0, 1} /\ failed[t] \in {0, 1} /\ h \in {0, 1}
      /\ completed[t] \in {0, 1} /\ cancelled[t] \in {0, 1}
      /\ submitted[OrderOf[t]] \in {0, 1}
      /\ h = 0 <=> Holders(Robot, t) = {}
      /\ submitted[OrderOf[t]] = queue[t] + h + completed[t] + failed[t] + cancelled[t]
  BY DEF PromiseInv, OneCopy
<1>2. /\ queue'[t] \in {0, 1} /\ failed'[t] \in {0, 1} /\ i \in {0, 1}
      /\ i = 0 <=> Holders(Robot, t)' = {}
  BY DEF OneCopy
<1>3. queue'[t] + i + failed'[t] = queue[t] + h + failed[t] /\ failed'[t] >= failed[t]
  BY DEF Recounted
<1>4. completed'[t] = completed[t] /\ cancelled'[t] = cancelled[t]
      /\ submitted'[OrderOf[t]] = submitted[OrderOf[t]]
  OBVIOUS
<1> HIDE DEF h, i
<1>5. <<Life[t], Life'[t]>> \in Promise!Move /\ (queue[t] = 1 \/ Holders(Robot, t) # {})
  BY <1>1, <1>2, <1>3, <1>4 DEF Life, Promise!Move
<1>6. OrderOf[t] \in Order /\ t \in TasksOf(OrderOf[t])
  BY OrderAssumption DEF TasksOf
<1>7. QED
  BY <1>1, <1>5, <1>6 DEF PromiseInv, OutcomeKnown

\* After requeueing the statuses still follow from the lives.
LEMMA RequeueKeepsOutcomes ==
  ASSUME PromiseInv, OneCopy', Recounted,
         UNCHANGED <<completion, completed, submitted, cancelled>>,
         NEW started, status' = StatusAfter({t \in Task : failed'[t] # failed[t]}, started)
  PROVE  /\ OutcomeKnown'
         /\ \A o \in Order : status'[o] = "NONE" <=> status[o] = "NONE"
<1>1. \A o \in Order : status'[o] = "NONE" <=> status[o] = "NONE"
  BY DEF StatusAfter
<1>2. \A t \in Task : (t \in completion') = (completed'[t] = 1)
  BY DEF PromiseInv, OutcomeKnown
<1>3. ASSUME NEW t \in Task
      PROVE  /\ failed'[t] # failed[t] => failed'[t] = 1 /\ completed[t] = 0 /\ failed[t] = 0
             /\ failed[t] = 1 => failed'[t] = 1
             /\ failed'[t] \in {0, 1}
             /\ queue[t] = 0 /\ Holders(Robot, t) = {} =>
                  queue'[t] = 0 /\ Holders(Robot, t)' = {}
  <2> DEFINE h == Cardinality(Holders(Robot, t))
             i == Cardinality(Holders(Robot, t)')
  <2>1. /\ queue[t] \in {0, 1} /\ failed[t] \in {0, 1} /\ h \in {0, 1}
        /\ completed[t] \in {0, 1} /\ cancelled[t] \in {0, 1}
        /\ submitted[OrderOf[t]] \in {0, 1}
        /\ h = 0 <=> Holders(Robot, t) = {}
        /\ submitted[OrderOf[t]] = queue[t] + h + completed[t] + failed[t] + cancelled[t]
    BY DEF PromiseInv, OneCopy
  <2>2. /\ queue'[t] \in {0, 1} /\ failed'[t] \in {0, 1} /\ i \in {0, 1}
        /\ i = 0 <=> Holders(Robot, t)' = {}
    BY DEF OneCopy
  <2>3. queue'[t] + i + failed'[t] = queue[t] + h + failed[t] /\ failed'[t] >= failed[t]
    BY DEF Recounted
  <2> DEFINE q == queue[t]
             p == queue'[t]
             f == failed[t]
             g == failed'[t]
             c == completed[t]
             x == cancelled[t]
             s == submitted[OrderOf[t]]
  <2>0. /\ q \in {0, 1} /\ f \in {0, 1} /\ h \in {0, 1} /\ c \in {0, 1} /\ x \in {0, 1}
        /\ s \in {0, 1} /\ s = q + h + c + f + x
        /\ p \in {0, 1} /\ g \in {0, 1} /\ i \in {0, 1}
        /\ p + i + g = q + h + f /\ g >= f
    BY <2>1, <2>2, <2>3
  <2> HIDE DEF h, i, q, p, f, g, c, x, s
  <2>a. g # f => g = 1 /\ c = 0 /\ f = 0
    BY <2>0
  <2>b. q = 0 /\ h = 0 => p = 0 /\ i = 0
    BY <2>0
  <2>c. f = 1 => g = 1
    BY <2>0
  <2>4. failed'[t] # failed[t] => failed'[t] = 1 /\ completed[t] = 0 /\ failed[t] = 0
    BY <2>a DEF g, f, c
  <2>5. queue[t] = 0 /\ h = 0 => queue'[t] = 0 /\ i = 0
    BY <2>b DEF q, p
  <2>6. failed[t] = 1 => failed'[t] = 1
    BY <2>c DEF f, g
  <2>7. QED
    BY <2>1, <2>2, <2>4, <2>5, <2>6
<1>4. ASSUME NEW o \in Order, status'[o] = "NONE", NEW t \in TasksOf(o)
      PROVE  queue'[t] = 0 /\ Holders(Robot, t)' = {}
  BY <1>1, <1>3, <1>4 DEF PromiseInv, OutcomeKnown, TasksOf
<1>5. ASSUME NEW o \in Order, status'[o] # "NONE"
      PROVE  /\ submitted'[o] = 1
             /\ \A t \in TasksOf(o) : cancelled'[t] = 0
             /\ (status'[o] = "FAILED") = (\E t \in TasksOf(o) : failed'[t] = 1)
             /\ (status'[o] = "COMPLETED") = (TasksOf(o) \subseteq completion')
  <2>1. /\ status[o] # "NONE" /\ submitted[o] = 1
        /\ \A t \in TasksOf(o) : cancelled[t] = 0
        /\ (status[o] = "FAILED") = (\E t \in TasksOf(o) : failed[t] = 1)
        /\ (status[o] = "COMPLETED") = (TasksOf(o) \subseteq completion)
    BY <1>1, <1>5 DEF PromiseInv, OutcomeKnown
  <2>2. CASE \E t \in TasksOf(o) : failed'[t] # failed[t]
    <3>1. PICK t \in TasksOf(o) : failed'[t] # failed[t]
      BY <2>2
    <3>2. t \in Task /\ OrderOf[t] = o
      BY DEF TasksOf
    <3>3. failed'[t] = 1 /\ t \notin completion
      BY <1>3, <3>1, <3>2 DEF PromiseInv, OutcomeKnown
    <3>4. status'[o] = "FAILED"
      BY <2>1, <3>1, <3>2 DEF StatusAfter
    <3>5. QED
      BY <2>1, <3>3, <3>4
  <2>3. CASE \A t \in TasksOf(o) : failed'[t] = failed[t]
    <3>1. status'[o] = status[o] \/ (status[o] = "PLANNED" /\ status'[o] = "EXECUTING")
      BY <2>1, <2>3 DEF StatusAfter, TasksOf
    <3>2. QED
      BY <2>1, <2>3, <3>1
  <2>4. QED
    BY <2>2, <2>3
<1>6. OutcomeKnown'
  BY <1>2, <1>4, <1>5 DEF OutcomeKnown, TasksOf
<1>7. QED
  BY <1>1, <1>6

\* Handing in a task: one life moves from running to done, and the outcome may follow.
LEMMA AdvanceKeepsPromise ==
  ASSUME \A o \in Order : TasksOf(o) # {}, PromiseInv, QueueInv', OneCopy',
         NEW r \in Robot, NEW l \in Lane, Advance(r, l),
         UNCHANGED <<queue, failed, submitted, cancelled>>
  PROVE  OutcomeKnown' /\ [Promise!Next]_<<Life, Outcome>>
<1>1. CASE Completes(r, l)
  <2>0. r \in Busy /\ active[r].task \in Task
    BY <1>1 DEF Completes, PromiseInv, QueueInv, Typed, Busy, Assignment
  <2> PICK t \in Task : t = active[r].task
    BY <2>0
  <2> DEFINE p == OrderOf[t]
  <2>1. /\ r \in Busy /\ active' = [active EXCEPT ![r] = None]
        /\ completed' = [completed EXCEPT ![t] = @ + 1]
        /\ completion' = completion \cup {t}
        /\ status' = IF TasksOf(p) \subseteq completion \cup {t}
                     THEN [status EXCEPT ![p] = "COMPLETED"] ELSE status
    BY <1>1 DEF Advance, Completes
  <2>2. t \in Task /\ p \in Order /\ t \in TasksOf(p)
    BY OrderAssumption DEF TasksOf
  <2>3. r \in Holders(Robot, t)
    BY <2>1 DEF Holders, Busy
  <2>4. /\ queue[t] = 0 /\ completed[t] = 0 /\ failed[t] = 0 /\ cancelled[t] = 0
        /\ submitted[p] = 1 /\ t \notin completion
    <3> DEFINE h == Cardinality(Holders(Robot, t))
    <3>1. /\ queue[t] \in {0, 1} /\ failed[t] \in {0, 1} /\ h \in {0, 1} /\ h # 0
          /\ completed[t] \in {0, 1} /\ cancelled[t] \in {0, 1} /\ submitted[p] \in {0, 1}
          /\ submitted[p] = queue[t] + h + completed[t] + failed[t] + cancelled[t]
      BY <2>2, <2>3 DEF PromiseInv, OneCopy
    <3> HIDE DEF h
    <3>2. QED
      BY <2>2, <3>1 DEF PromiseInv, OutcomeKnown
  <2>5. /\ completed'[t] = 1
        /\ \A u \in Task \ {t} : completed'[u] = completed[u]
    BY <2>1, <2>2, <2>4 DEF PromiseInv, QueueInv, Typed
  <2>6. Holders(Robot, t)' = {}
    <3> DEFINE i == Cardinality(Holders(Robot, t)')
    <3>1. /\ queue'[t] \in {0, 1} /\ failed'[t] \in {0, 1} /\ i \in {0, 1}
          /\ completed'[t] \in {0, 1} /\ cancelled'[t] \in {0, 1} /\ submitted'[p] \in {0, 1}
          /\ submitted'[p] = queue'[t] + i + completed'[t] + failed'[t] + cancelled'[t]
          /\ i = 0 <=> Holders(Robot, t)' = {}
      BY <2>2 DEF OneCopy
    <3> HIDE DEF i
    <3>2. QED
      BY <2>5, <3>1
  <2>7. \A u \in Task \ {t} : Holders(Robot, u)' = Holders(Robot, u)
    BY <2>1 DEF Holders, Busy, PromiseInv, QueueInv, Typed
  <2>8. \A o \in Order : /\ (status'[o] = "NONE") = (status[o] = "NONE")
                         /\ o # p => status'[o] = status[o]
    <3>1. status[p] # "NONE"
      BY <2>2, <2>3 DEF PromiseInv, OutcomeKnown
    <3>2. QED
      BY <2>1, <2>2, <3>1 DEF PromiseInv, QueueInv, Typed
  <2>9. \A u \in Task : (u \in completion') = (completed'[u] = 1)
    BY <2>1, <2>2, <2>5 DEF PromiseInv, OutcomeKnown
  <2>10. ASSUME NEW o \in Order, status'[o] = "NONE", NEW u \in TasksOf(o)
         PROVE  queue'[u] = 0 /\ Holders(Robot, u)' = {}
    BY <2>6, <2>7, <2>8, <2>10 DEF PromiseInv, OutcomeKnown, TasksOf
  <2>11. ASSUME NEW o \in Order, status'[o] # "NONE"
         PROVE  /\ submitted'[o] = 1
                /\ \A u \in TasksOf(o) : cancelled'[u] = 0
                /\ (status'[o] = "FAILED") = (\E u \in TasksOf(o) : failed'[u] = 1)
                /\ (status'[o] = "COMPLETED") = (TasksOf(o) \subseteq completion')
    <3>1. /\ status[o] # "NONE" /\ submitted[o] = 1
          /\ \A u \in TasksOf(o) : cancelled[u] = 0
          /\ (status[o] = "FAILED") = (\E u \in TasksOf(o) : failed[u] = 1)
          /\ (status[o] = "COMPLETED") = (TasksOf(o) \subseteq completion)
      BY <2>8, <2>11 DEF PromiseInv, OutcomeKnown
    <3>2. CASE o # p
      <4>1. (TasksOf(o) \subseteq completion') = (TasksOf(o) \subseteq completion)
        BY <2>1, <2>2, <3>2 DEF TasksOf
      <4>2. QED
        BY <2>8, <3>1, <3>2, <4>1
    <3>3. CASE o = p /\ TasksOf(o) \subseteq completion'
      <4>1. status'[o] = "COMPLETED"
        BY <2>1, <2>2, <3>3 DEF PromiseInv, QueueInv, Typed
      <4>2. \A u \in TasksOf(o) : completed'[u] = 1 /\ u \in Task
        BY <2>9, <3>3 DEF TasksOf
      <4>3. ASSUME NEW u \in TasksOf(o) PROVE failed'[u] # 1
        <5> DEFINE i == Cardinality(Holders(Robot, u)')
        <5>1. /\ queue'[u] \in {0, 1} /\ failed'[u] \in {0, 1} /\ i \in {0, 1}
              /\ completed'[u] = 1 /\ cancelled'[u] \in {0, 1}
              /\ submitted'[OrderOf[u]] \in {0, 1}
              /\ submitted'[OrderOf[u]] =
                   queue'[u] + i + completed'[u] + failed'[u] + cancelled'[u]
          BY <4>2 DEF OneCopy
        <5> HIDE DEF i
        <5>2. QED
          BY <5>1
      <4>4. QED
        BY <3>1, <3>3, <4>1, <4>3
    <3>4. CASE o = p /\ ~ (TasksOf(o) \subseteq completion')
      <4>1. status' = status /\ ~ (TasksOf(o) \subseteq completion)
        BY <2>1, <3>4
      <4>2. QED
        BY <3>1, <3>4, <4>1
    <3>5. QED
      BY <3>2, <3>3, <3>4
  <2>12. OutcomeKnown'
    BY <2>9, <2>10, <2>11 DEF OutcomeKnown, TasksOf
  <2>13. Promise!Work
    <3>1. PromiseInv'
      BY <2>12 DEF PromiseInv
    <3>2. Life[t] = "running" /\ Life'[t] = "done"
      BY <2>2, <2>3, <2>4, <2>5, <2>6 DEF Life
    <3>3. \A u \in Task \ {t} : Life'[u] = Life[u]
      BY <2>5, <2>7 DEF Life
    <3>4. status[p] # "NONE"
      BY <2>2, <2>3 DEF PromiseInv, OutcomeKnown
    <3>5. \A u \in Task : Life'[u] # Life[u] =>
            <<Life[u], Life'[u]>> \in Promise!Move /\ status[OrderOf[u]] # "NONE"
      BY <3>2, <3>3, <3>4 DEF Promise!Move
    <3>6. QED
      BY <2>8, <3>1, <3>5, MovesAreWork
  <2>14. QED
    BY <2>12, <2>13 DEF Promise!Next
<1>2. CASE ~ Completes(r, l)
  <2>1. UNCHANGED <<active, completion, completed, status>>
    BY <1>2 DEF Advance
  <2>2. UNCHANGED <<Life, Outcome>>
    BY <2>1 DEF Life, Outcome, Holders, Busy
  <2>3. OutcomeKnown'
    BY <2>1 DEF PromiseInv, OutcomeKnown, TasksOf, Holders, Busy
  <2>4. QED
    BY <2>2, <2>3
<1>3. QED
  BY <1>1, <1>2

\* Submitting an order for the first time is Accept.
LEMMA SubmitIsAccept ==
  ASSUME \A o \in Order : TasksOf(o) # {}, MaxSubmits = 1, PromiseInv,
         NEW o \in Order, Submit(o)
  PROVE  OutcomeKnown' /\ Promise!Accept(o)
<1>1. /\ submitted[o] = 0 /\ submitted' = [submitted EXCEPT ![o] = 1]
      /\ status' = [status EXCEPT ![o] = "PLANNED"]
      /\ completion' = completion \ TasksOf(o)
      /\ \A t \in Task : queue'[t] = IF OrderOf[t] = o THEN queue[t] + 1 ELSE queue[t]
      /\ UNCHANGED <<completed, failed, cancelled, active>>
  <2>1. submitted[o] \in 0..1 /\ submitted[o] < 1
    BY DEF Submit, PromiseInv, QueueInv, Typed
  <2>2. submitted[o] = 0 /\ submitted' = [submitted EXCEPT ![o] = 1]
    <3>1. submitted[o] = 0 /\ submitted[o] + 1 = 1
      BY <2>1
    <3>2. submitted' = [submitted EXCEPT ![o] = submitted[o] + 1]
      BY DEF Submit
    <3>3. QED
      BY <3>1, <3>2
  <2>3. QED
    BY <2>2 DEF Submit, robotVars
<1>2. status[o] = "NONE"
  BY <1>1 DEF PromiseInv, OutcomeKnown
<1>3. ASSUME NEW t \in TasksOf(o)
      PROVE  /\ t \in Task /\ OrderOf[t] = o /\ queue[t] = 0 /\ completed[t] = 0
             /\ failed[t] = 0 /\ cancelled[t] = 0 /\ Holders(Robot, t) = {}
             /\ t \notin completion
  <2> DEFINE h == Cardinality(Holders(Robot, t))
  <2>1. t \in Task /\ OrderOf[t] = o
    BY DEF TasksOf
  <2>2. /\ queue[t] \in {0, 1} /\ failed[t] \in {0, 1} /\ h \in {0, 1}
        /\ completed[t] \in {0, 1} /\ cancelled[t] \in {0, 1}
        /\ 0 = queue[t] + h + completed[t] + failed[t] + cancelled[t]
        /\ h = 0 => Holders(Robot, t) = {}
    BY <1>1, <2>1 DEF PromiseInv, OneCopy
  <2> HIDE DEF h
  <2>3. QED
    BY <2>1, <2>2 DEF PromiseInv, OutcomeKnown
<1>4. completion' = completion
  BY <1>1, <1>3
<1>5. \A t \in Task : Holders(Robot, t)' = Holders(Robot, t)
  BY <1>1 DEF Holders, Busy
<1>6. ASSUME NEW p \in Order, p # o
      PROVE  /\ status'[p] = status[p] /\ submitted'[p] = submitted[p]
             /\ \A t \in TasksOf(p) : queue'[t] = queue[t]
  BY <1>1, <1>6 DEF PromiseInv, QueueInv, Typed, TasksOf
<1>7. status'[o] = "PLANNED" /\ submitted'[o] = 1
  BY <1>1 DEF PromiseInv, QueueInv, Typed
<1>8. \A t \in Task : (t \in completion') = (completed'[t] = 1)
  BY <1>1, <1>4 DEF PromiseInv, OutcomeKnown
<1>9. ASSUME NEW p \in Order, status'[p] = "NONE", NEW t \in TasksOf(p)
      PROVE  queue'[t] = 0 /\ Holders(Robot, t)' = {}
  <2>1. p # o /\ t \in Task
    BY <1>7, <1>9 DEF TasksOf
  <2>2. QED
    BY <1>5, <1>6, <1>9, <2>1 DEF PromiseInv, OutcomeKnown
<1>10. ASSUME NEW p \in Order, status'[p] # "NONE"
       PROVE  /\ submitted'[p] = 1
              /\ \A t \in TasksOf(p) : cancelled'[t] = 0
              /\ (status'[p] = "FAILED") = (\E t \in TasksOf(p) : failed'[t] = 1)
              /\ (status'[p] = "COMPLETED") = (TasksOf(p) \subseteq completion')
  <2>1. CASE p = o
    <3>1. \A t \in TasksOf(o) : cancelled'[t] = 0 /\ failed'[t] = 0
      BY <1>1, <1>3
    <3>2. ~ (TasksOf(o) \subseteq completion')
      BY <1>3, <1>4
    <3>3. ~ \E t \in TasksOf(p) : failed'[t] = 1
      BY <2>1, <3>1
    <3>4. QED
      BY <1>7, <2>1, <3>1, <3>2, <3>3
  <2>2. CASE p # o
    <3>1. status'[p] = status[p] /\ submitted'[p] = submitted[p]
      BY <1>6, <2>2
    <3>2. /\ submitted[p] = 1
          /\ \A t \in TasksOf(p) : cancelled[t] = 0
          /\ (status[p] = "FAILED") = (\E t \in TasksOf(p) : failed[t] = 1)
          /\ (status[p] = "COMPLETED") = (TasksOf(p) \subseteq completion)
      BY <1>10, <3>1 DEF PromiseInv, OutcomeKnown
    <3>3. QED
      BY <1>1, <1>4, <3>1, <3>2
  <2>3. QED
    BY <2>1, <2>2
<1>11. OutcomeKnown'
  BY <1>8, <1>9, <1>10 DEF OutcomeKnown, TasksOf
<1>12. \A t \in TasksOf(o) : Life[t] = "new"
  BY <1>1, <1>3 DEF Life
<1>13. Life' = [t \in Task |-> IF t \in TasksOf(o) THEN "waiting" ELSE Life[t]]
  <2>1. ASSUME NEW t \in TasksOf(o) PROVE t \in Task /\ Life'[t] = "waiting"
    BY <1>1, <1>3, <1>7 DEF Life
  <2>2. ASSUME NEW t \in Task \ TasksOf(o) PROVE Life'[t] = Life[t]
    <3>1. OrderOf[t] \in Order /\ OrderOf[t] # o
      BY OrderAssumption DEF TasksOf
    <3>2. queue'[t] = queue[t] /\ submitted'[OrderOf[t]] = submitted[OrderOf[t]]
      BY <1>6, <3>1 DEF TasksOf
    <3>3. QED
      BY <1>1, <1>5, <3>2 DEF Life
  <2>3. Life' = [t \in Task |-> Life'[t]]
    BY DEF Life
  <2> HIDE DEF Life
  <2>4. QED
    BY <2>1, <2>2, <2>3
<1>14. Outcome[o] = "NONE" /\ Outcome' = [Outcome EXCEPT ![o] = "OPEN"]
  BY <1>1, <1>2 DEF Outcome, PromiseInv, QueueInv, Typed
<1>15. QED
  BY <1>11, <1>12, <1>13, <1>14 DEF Promise!Accept, Promise!TasksOf, TasksOf, Life, Outcome

\* Cancelling an order is Withdraw.
LEMMA CancelIsWithdraw ==
  ASSUME PromiseInv, OneCopy', NEW o \in Order, Cancel(o)
  PROVE  OutcomeKnown' /\ Promise!Withdraw(o)
<1>1. /\ status[o] # "NONE" /\ status' = [status EXCEPT ![o] = "NONE"]
      /\ \A t \in Task : queue'[t] = IF OrderOf[t] = o THEN 0 ELSE queue[t]
      /\ \A t \in Task : OrderOf[t] # o => cancelled'[t] = cancelled[t]
      /\ active' = [r \in Robot |->
           IF r \in Busy /\ OrderOf[active[r].task] = o THEN None ELSE active[r]]
      /\ UNCHANGED <<completed, failed, completion, submitted>>
  BY DEF Cancel
<1>2. \A t \in Task : Holders(Robot, t)' = IF OrderOf[t] = o THEN {} ELSE Holders(Robot, t)
  BY <1>1, FleetAssumption DEF Holders, Busy, PromiseInv, QueueInv, Typed
<1>3. /\ status'[o] = "NONE"
      /\ \A p \in Order \ {o} : status'[p] = status[p]
  BY <1>1 DEF PromiseInv, QueueInv, Typed
<1>4. \A t \in Task : (t \in completion') = (completed'[t] = 1)
  BY <1>1 DEF PromiseInv, OutcomeKnown
<1>5. ASSUME NEW p \in Order, status'[p] = "NONE", NEW t \in TasksOf(p)
      PROVE  queue'[t] = 0 /\ Holders(Robot, t)' = {}
  <2>1. t \in Task /\ OrderOf[t] = p
    BY DEF TasksOf
  <2>2. QED
    BY <1>1, <1>2, <1>3, <1>5, <2>1 DEF PromiseInv, OutcomeKnown
<1>6. ASSUME NEW p \in Order, status'[p] # "NONE"
      PROVE  /\ submitted'[p] = 1
             /\ \A t \in TasksOf(p) : cancelled'[t] = 0
             /\ (status'[p] = "FAILED") = (\E t \in TasksOf(p) : failed'[t] = 1)
             /\ (status'[p] = "COMPLETED") = (TasksOf(p) \subseteq completion')
  <2>1. p # o /\ status[p] = status'[p]
    BY <1>3, <1>6
  <2>2. \A t \in TasksOf(p) : cancelled'[t] = cancelled[t]
    BY <1>1, <2>1 DEF TasksOf
  <2>3. /\ submitted[p] = 1
        /\ \A t \in TasksOf(p) : cancelled[t] = 0
        /\ (status[p] = "FAILED") = (\E t \in TasksOf(p) : failed[t] = 1)
        /\ (status[p] = "COMPLETED") = (TasksOf(p) \subseteq completion)
    BY <1>6, <2>1 DEF PromiseInv, OutcomeKnown
  <2>4. QED
    BY <1>1, <2>1, <2>2, <2>3
<1>7. OutcomeKnown'
  BY <1>4, <1>5, <1>6 DEF OutcomeKnown, TasksOf
<1>8. Life' = [t \in Task |->
        IF t \in TasksOf(o) /\ Life[t] \in {"waiting", "running"} THEN "withdrawn" ELSE Life[t]]
  <2>1. ASSUME NEW t \in TasksOf(o)
        PROVE  /\ t \in Task
               /\ Life'[t] = IF Life[t] \in {"waiting", "running"} THEN "withdrawn" ELSE Life[t]
    <3> DEFINE h == Cardinality(Holders(Robot, t))
    <3>1. t \in Task /\ OrderOf[t] = o /\ submitted[OrderOf[t]] = 1 /\ cancelled[t] = 0
      BY <1>1 DEF PromiseInv, OutcomeKnown, TasksOf
    <3>2. /\ queue[t] \in {0, 1} /\ failed[t] \in {0, 1} /\ h \in {0, 1}
          /\ completed[t] \in {0, 1}
          /\ h = 0 <=> Holders(Robot, t) = {}
          /\ 1 = queue[t] + h + completed[t] + failed[t] + cancelled[t]
      BY <3>1 DEF PromiseInv, OneCopy
    <3>3. /\ queue'[t] = 0 /\ Holders(Robot, t)' = {} /\ completed'[t] = completed[t]
          /\ failed'[t] = failed[t] /\ submitted'[OrderOf[t]] = 1
      BY <1>1, <1>2, <3>1
    <3> HIDE DEF h
    <3>4. Life'[t] = IF completed[t] = 1 THEN "done"
                     ELSE IF failed[t] = 1 THEN "failed" ELSE "withdrawn"
      BY <3>1, <3>2, <3>3 DEF Life
    <3>5. Life[t] = IF queue[t] = 1 THEN "waiting" ELSE IF h = 1 THEN "running"
                    ELSE IF completed[t] = 1 THEN "done" ELSE "failed"
      BY <3>1, <3>2 DEF Life
    <3>6. queue[t] = 1 \/ h = 1 => completed[t] = 0 /\ failed[t] = 0
      BY <3>1, <3>2
    <3>7. queue[t] = 0 /\ h = 0 /\ completed[t] = 0 => failed[t] = 1
      BY <3>1, <3>2
    <3> HIDE DEF Life
    <3>8. QED
      BY <3>1, <3>2, <3>4, <3>5, <3>6, <3>7
  <2>2. ASSUME NEW t \in Task \ TasksOf(o) PROVE Life'[t] = Life[t]
    BY <1>1, <1>2 DEF Life, TasksOf
  <2>3. Life' = [t \in Task |-> Life'[t]]
    BY DEF Life
  <2> HIDE DEF Life
  <2>4. QED
    BY <2>1, <2>2, <2>3
<1>9. Outcome[o] # "NONE" /\ Outcome' = [Outcome EXCEPT ![o] = "NONE"]
  BY <1>1 DEF Outcome, PromiseInv, QueueInv, Typed
<1>10. QED
  BY <1>7, <1>8, <1>9 DEF Promise!Withdraw, Promise!TasksOf, TasksOf, Life, Outcome

\* Every step of the platform is a step of the promise, or a stutter.
LEMMA PromiseStep ==
  ASSUME \A o \in Order : TasksOf(o) # {}, MaxSubmits = 1, PromiseInv, [Next]_vars
  PROVE  PromiseInv' /\ [Promise!Next]_<<Life, Outcome>>
<1>1. QueueInv' /\ OneCopy'
  BY QueueStep, OneCopyStays DEF PromiseInv
<1> SUFFICES OutcomeKnown' /\ [Promise!Next]_<<Life, Outcome>>
  BY <1>1 DEF PromiseInv
<1>2. ASSUME NEW o \in Order, Submit(o)
      PROVE  OutcomeKnown' /\ [Promise!Next]_<<Life, Outcome>>
  BY <1>2, SubmitIsAccept DEF Promise!Next
<1>3. ASSUME NEW o \in Order, Cancel(o)
      PROVE  OutcomeKnown' /\ [Promise!Next]_<<Life, Outcome>>
  BY <1>1, <1>3, CancelIsWithdraw DEF Promise!Next
<1>4. CASE UNCHANGED <<queue, status, completion, completed, failed, active, submitted, cancelled>>
  <2>1. UNCHANGED <<Life, Outcome>>
    BY <1>4 DEF Life, Outcome, Holders, Busy
  <2>2. OutcomeKnown'
    BY <1>4 DEF PromiseInv, OutcomeKnown, TasksOf, Holders, Busy
  <2>3. QED
    BY <2>1, <2>2
<1>5. ASSUME NEW r \in Robot, Uplink(r)
      PROVE  OutcomeKnown' /\ [Promise!Next]_<<Life, Outcome>>
  BY <1>1, <1>4, <1>5, AdvanceKeepsPromise DEF Uplink
<1>6. ASSUME NEW r \in Robot, NEW l \in Lane, Progress(r, l)
      PROVE  OutcomeKnown' /\ [Promise!Next]_<<Life, Outcome>>
  BY <1>1, <1>6, AdvanceKeepsPromise DEF Progress
<1>7. ASSUME Recounted, UNCHANGED <<completion, completed, submitted, cancelled>>,
             \E started : status' = StatusAfter({t \in Task : failed'[t] # failed[t]}, started)
      PROVE  OutcomeKnown' /\ [Promise!Next]_<<Life, Outcome>>
  <2>1. /\ OutcomeKnown'
        /\ \A o \in Order : status'[o] = "NONE" <=> status[o] = "NONE"
    BY <1>1, <1>7, RequeueKeepsOutcomes
  <2>2. \A t \in Task : Life'[t] # Life[t] =>
          <<Life[t], Life'[t]>> \in Promise!Move /\ status[OrderOf[t]] # "NONE"
    BY <1>1, <1>7, RequeueMoves
  <2>3. PromiseInv'
    BY <1>1, <2>1 DEF PromiseInv
  <2>4. Promise!Work
    BY <2>1, <2>2, <2>3, MovesAreWork
  <2>5. QED
    BY <2>1, <2>4 DEF Promise!Next
<1>8. ASSUME NEW l \in Blockable, BlockLane(l)
      PROVE  OutcomeKnown' /\ [Promise!Next]_<<Life, Outcome>>
  <2>1. /\ Recounted
        /\ status' = StatusAfter({t \in Task : failed'[t] # failed[t]}, {})
    BY <1>8, RouteAssumption, BlockTakesBack DEF PromiseInv, QueueInv
  <2>2. UNCHANGED <<completion, completed, submitted, cancelled>>
    BY <1>8 DEF BlockLane
  <2>3. QED
    BY <1>7, <2>1, <2>2
<1>9. CASE Tick
  <2>1. Recounted /\ \E started : status' = StatusAfter({t \in Task : failed'[t] # failed[t]}, started)
    BY <1>9, TickHandsOut DEF PromiseInv, QueueInv
  <2>2. UNCHANGED <<completion, completed, submitted, cancelled>>
    BY <1>9 DEF Tick
  <2>3. QED
    BY <1>7, <2>1, <2>2
<1>10. QED
  BY <1>2, <1>3, <1>4, <1>5, <1>6, <1>8, <1>9 DEF Next, vars, Silence, ManualRecover,
    UnblockLane, robotVars, orderVars

(* The detailed platform keeps the promise, for every fleet and every set  *)
(* of orders with a task each that are submitted once.                     *)
THEOREM PromiseIsKept ==
  ASSUME \A o \in Order : TasksOf(o) # {}, MaxSubmits = 1
  PROVE  Spec => KeepsPromise
<1>1. Init => PromiseInv
  <2>1. Init => QueueInv /\ OneCopy
    BY QueueStart, OneCopyFollows
  <2>2. Init => OutcomeKnown
    BY DEF Init, OutcomeKnown, TasksOf, Holders, Busy
  <2>3. QED
    BY <2>1, <2>2 DEF PromiseInv
<1>2. Init => Promise!Init
  BY OrderAssumption DEF Init, Promise!Init
<1>3. PromiseInv /\ [Next]_vars => PromiseInv' /\ [Promise!Next]_<<Life, Outcome>>
  BY PromiseStep
<1>4. QED
  BY <1>1, <1>2, <1>3, PTL DEF Spec, KeepsPromise, Promise!Spec, Life, Outcome
=============================================================================
